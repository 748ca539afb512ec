-------------------------- MODULE StreamReportProofs --------------------------
(* Proofs about the reports of a streaming batch and about the ledger its   *)
(* files implement, on top of the triage invariant of StreamBatchProofs.    *)
EXTENDS StreamRefinement, StreamBatchProofs

-----------------------------------------------------------------------------
(* Report tasks                                                            *)

\* A run has a report task only once its coroutine has got past the judge, and
\* the task is handed to the loop only after the verdict was logged.
TaskInv == \A r \in Runs :
  /\ task[r].at = "named" => pc[r] = "log"
  /\ task[r].at \notin {"none", "named"} => pc[r] = "over" /\ r \in JudgedRuns

\* While a NEW verdict is not logged, the last manifest entry is its bug.
NamedInv == \A r \in Runs : pc[r] = "log" =>
  /\ manifest # <<>>
  /\ task[r].at = "named" /\ task[r].bug = Len(manifest) - 1
  /\ manifest[Len(manifest)].crash = crash[r]
  /\ manifest[Len(manifest)].run = r

\* A report.json is from a judged run whose task has written it: a task that
\* waits to start has nothing on disk yet.
WrittenInv == \A f \in reports :
  f.run \in JudgedRuns /\ task[f.run].at \notin {"named", "ready"}

\* The old text a re-report holds is that of a version from another run.
OldInv == \A r \in Runs :
  /\ task[r].old /\ task[r].at \in {"running", "compare"}
       => \E v \in versions : v.bug = task[r].bug /\ v.text /\ v.run # r
  /\ task[r].at = "compare" => task[r].old

\* In the first invocation every bug of the manifest has its report.json, a task
\* that will write it or has raised, or a verdict that could not be logged.
Writing == {"named", "ready", "running"}
FirstStartInv ==
  /\ phase = "new" => manifest = <<>>
  /\ phase # "new" => starts > 0
  /\ starts = 1 /\ phase \in {"up", "done"} =>
       \A i \in 1 .. Len(manifest) :
         \/ \E f \in reports : f.bug = manifest[i].bug
         \/ \E r \in Runs : /\ task[r].bug = manifest[i].bug
                             /\ \/ task[r].at = "failed"
                                \/ phase = "up" /\ task[r].at \in Writing
         \/ pc[manifest[i].run] = "unjudged"

ReportInv ==
  /\ TriageInv
  /\ TaskInv /\ NamedInv /\ WrittenInv /\ OldInv /\ FirstStartInv /\ CanonicalPriorKept

LEMMA ReportInit == Init => ReportInv
<1> SUFFICES ASSUME Init PROVE ReportInv
  OBVIOUS
<1>1. TriageInv
  BY TriageInit
<1>2. TaskInv /\ NamedInv /\ WrittenInv /\ OldInv /\ FirstStartInv /\ CanonicalPriorKept
  BY DEF Init, NoMemory, NoTask, TaskInv, NamedInv, WrittenInv, OldInv, FirstStartInv,
     CanonicalPriorKept
<1>3. QED BY <1>1, <1>2 DEF ReportInv

\* A kill, a failed build or a new start forgets every task.
LEMMA ForgettingStep ==
  ASSUME ReportInv, pc' \in [Runs -> Steps \ {"log"}], task' = [r \in Runs |-> NoTask],
         judgeLog' = judgeLog, manifest' = manifest, versions' = versions,
         canonical' = canonical,
         \A f \in reports' : f \in reports \/ f.run \in JudgedRuns
  PROVE  TaskInv' /\ NamedInv' /\ WrittenInv' /\ OldInv' /\ CanonicalPriorKept'
<1>1. JudgedRuns' = JudgedRuns /\ JudgedRuns \subseteq Runs
  BY JudgedRunsAreRuns DEF JudgedRuns, ReportInv, TriageInv, CoreInv
<1>2. TaskInv' /\ NamedInv' /\ OldInv'
  BY DEF TaskInv, NamedInv, OldInv, NoTask
<1>3. WrittenInv'
  BY <1>1 DEF ReportInv, WrittenInv, NoTask
<1>4. CanonicalPriorKept'
  BY DEF ReportInv, CanonicalPriorKept
<1>5. QED BY <1>2, <1>3, <1>4

\* A step of a run that leaves its task, the manifest and the reports alone; the
\* judge log may grow.
LEMMA RunStep ==
  ASSUME ReportInv, NEW r \in Runs, NEW p \in Steps \ {"log"},
         pc' = [pc EXCEPT ![r] = p], task' = task, pc[r] \notin {"log", "over", "unjudged"},
         manifest' = manifest, reports' = reports, versions' = versions,
         canonical' = canonical, phase' = phase, starts' = starts,
         JudgedRuns \subseteq JudgedRuns',
         \A q \in Runs \ {r} : crash'[q] = crash[q]
  PROVE  TaskInv' /\ NamedInv' /\ WrittenInv' /\ OldInv' /\ FirstStartInv' /\ CanonicalPriorKept'
<1>1. pc \in [Runs -> Steps] /\ task \in [Runs -> Task]
  BY DEF ReportInv, TriageInv, CoreInv, TypeOK
<1>2. TaskInv'
  BY <1>1 DEF ReportInv, TaskInv
<1>3. NamedInv'
  BY <1>1 DEF ReportInv, NamedInv
<1>4. WrittenInv' /\ OldInv' /\ CanonicalPriorKept'
  BY DEF ReportInv, WrittenInv, OldInv, CanonicalPriorKept
<1>5. FirstStartInv'
  <2>1. \A q \in Runs : pc[q] = "unjudged" => pc'[q] = "unjudged"
    BY <1>1
  <2>2. \A i \in 1 .. Len(manifest) : manifest[i].run \in Runs
    BY ManifestRuns DEF ReportInv, TriageInv, CoreInv
  <2>3. QED BY <2>1, <2>2 DEF ReportInv, FirstStartInv
<1>6. QED BY <1>2, <1>3, <1>4, <1>5

\* A step of the report task of one run that ends a "ready" or later state in
\* another, with a new set of reports that keeps one for each bug.
LEMMA TaskMoves ==
  ASSUME ReportInv, NEW r \in Runs, NEW at \in {"running", "compare", "done", "failed"},
         NEW old \in BOOLEAN,
         task' = [task EXCEPT ![r].at = at, ![r].old = old],
         task[r].at \in {"ready", "running", "compare"},
         UnchangedBatch
  PROVE  /\ TaskInv' /\ NamedInv'
         /\ \A q \in Runs \ {r} : task'[q] = task[q]
         /\ task'[r].at = at /\ task'[r].old = old /\ task'[r].bug = task[r].bug
         /\ JudgedRuns' = JudgedRuns
<1>1. pc \in [Runs -> Steps] /\ task \in [Runs -> Task]
  BY DEF ReportInv, TriageInv, CoreInv, TypeOK
<1>2. JudgedRuns' = JudgedRuns
  BY DEF UnchangedBatch, JudgedRuns
<1>3. /\ \A q \in Runs \ {r} : task'[q] = task[q]
      /\ task'[r].at = at /\ task'[r].old = old /\ task'[r].bug = task[r].bug
  BY <1>1 DEF Task
<1>4. TaskInv'
  BY <1>2, <1>3 DEF ReportInv, TaskInv, UnchangedBatch
<1>5. NamedInv'
  <2>1. pc[r] # "log"
    BY DEF ReportInv, TaskInv
  <2>2. QED BY <1>3, <2>1 DEF ReportInv, NamedInv, UnchangedBatch
<1>6. QED BY <1>2, <1>3, <1>4, <1>5

LEMMA ReportInvStep == ReportInv /\ [Next]_vars => ReportInv'
<1> SUFFICES ASSUME ReportInv, [Next]_vars
             PROVE  ReportInv'
  OBVIOUS
<1>0. TriageInv /\ TriageInv' /\ TypeOK /\ TypeOK'
  BY TriageStep DEF ReportInv, TriageInv, CoreInv
<1>a. judgeLog' = judgeLog => JudgedRuns' = JudgedRuns
  BY DEF JudgedRuns
<1>b. pc \in [Runs -> Steps] /\ pc' \in [Runs -> Steps] /\ task \in [Runs -> Task]
  BY <1>0 DEF TypeOK
<1>c. starts \in Nat
  BY <1>0 DEF TypeOK
<1>d. JudgedRuns \subseteq Runs
  BY <1>0, JudgedRunsAreRuns
<1>e. \A i \in 1 .. Len(manifest) : manifest[i].run \in Runs
  BY <1>0, ManifestRuns
<1> DEFINE Rest == /\ TaskInv /\ NamedInv /\ WrittenInv /\ OldInv /\ FirstStartInv
                   /\ CanonicalPriorKept
<1>q. Rest' => ReportInv'
  BY <1>0 DEF ReportInv
<1>1. CASE Launch
  <2>1. PICK m \in Modes : pc' = [r \in Runs |-> FirstStep(r, m)]
    BY <1>1 DEF Launch
  <2>2. pc' \in [Runs -> Steps \ {"log"}]
    BY <2>1 DEF FirstStep, Steps, Returned
  <2>3. TaskInv' /\ NamedInv' /\ WrittenInv' /\ OldInv' /\ CanonicalPriorKept'
    BY <1>1, <2>2, ForgettingStep DEF Launch
  <2>4. FirstStartInv'
    BY <1>1, <1>c DEF Launch, ReportInv, FirstStartInv
  <2>5. QED BY <1>q, <2>3, <2>4
<1>2. CASE BuildFails \/ Kill
  <2>1. TaskInv' /\ NamedInv' /\ WrittenInv' /\ OldInv' /\ CanonicalPriorKept'
    <3>1. pc' \in [Runs -> Steps \ {"log"}]
      BY <1>2 DEF BuildFails, Kill, ForgetMemory, Steps
    <3>2. QED BY <1>2, <3>1, ForgettingStep DEF BuildFails, Kill, ForgetMemory, files
  <2>2. FirstStartInv'
    BY <1>2, <1>c DEF BuildFails, Kill, Killable, CanLaunch, ReportInv, FirstStartInv
  <2>3. QED BY <1>q, <2>1, <2>2
<1>3. CASE Finish
  <2>1. JudgedRuns' = JudgedRuns
    BY <1>3, <1>a DEF Finish
  <2>2. TaskInv' /\ NamedInv' /\ WrittenInv' /\ OldInv' /\ CanonicalPriorKept'
    BY <1>3, <2>1 DEF Finish, memory, ReportInv, TaskInv, NamedInv, WrittenInv, OldInv,
       CanonicalPriorKept
  <2>3. FirstStartInv'
    BY <1>3, <1>c DEF Finish, memory, ReportInv, FirstStartInv, Writing
  <2>4. QED BY <1>q, <2>2, <2>3
<1>4. ASSUME NEW r \in Runs, KillInResult(r) \/ KillInReport(r)
      PROVE  ReportInv'
  <2>1. pc' \in [Runs -> Steps \ {"log"}] /\ task' = [q \in Runs |-> NoTask] /\ phase' = "down"
    BY <1>4 DEF KillInResult, KillInReport, ForgetMemory, Steps
  <2>2. \A f \in reports' : f \in reports \/ f.run \in JudgedRuns
    BY <1>4 DEF KillInResult, KillInReport, Overwrite, ReportInv, TaskInv
  <2>3. TaskInv' /\ NamedInv' /\ WrittenInv' /\ OldInv' /\ CanonicalPriorKept'
    BY <1>4, <2>1, <2>2, ForgettingStep DEF KillInResult, KillInReport
  <2>4. FirstStartInv'
    BY <1>4, <2>1 DEF KillInResult, KillInReport, Killable, ReportInv, FirstStartInv
  <2>5. QED BY <1>q, <2>3, <2>4
<1>5. ASSUME NEW r \in Runs, FindStep(r) \/ GradeStep(r)
      PROVE  ReportInv'
  <2>1. PICK p \in Steps \ {"log"} : pc' = [pc EXCEPT ![r] = p]
    BY <1>5 DEF FindStep, StartFind, FindFails, FindNothing, FindUnchecked, FindSubmits,
       GradeStep, GradeFails, GradeEnds, RunRaises, Done, Goto, Steps, Returned
  <2>2. pc[r] \in {"idle", "find", "grade"} /\ UnchangedTriage
    BY <1>5 DEF FindStep, StartFind, FindFails, FindNothing, FindUnchecked, FindSubmits,
       GradeStep, GradeFails, GradeEnds, RunRaises, Done, At
  <2>3. \A q \in Runs \ {r} : crash'[q] = crash[q]
    BY <1>0, <1>5 DEF FindStep, StartFind, FindFails, FindNothing, FindUnchecked, FindSubmits,
       GradeStep, GradeFails, GradeEnds, RunRaises, Done, TypeOK
  <2>4. JudgedRuns' = JudgedRuns
    BY <1>a, <2>2 DEF UnchangedTriage
  <2>5. Rest'
    BY <2>1, <2>2, <2>3, <2>4, RunStep DEF UnchangedTriage
  <2>6. QED BY <1>q, <2>5
<1>6. ASSUME NEW r \in Runs, TakeLock(r) \/ JudgeRaises(r) \/ JudgeSkips(r)
      PROVE  ReportInv'
  <2>1. PICK p \in Steps \ {"log"} : pc' = [pc EXCEPT ![r] = p]
    BY <1>6 DEF TakeLock, JudgeRaises, JudgeSkips, Goto, Steps, Returned
  <2>2. pc[r] \notin {"log", "over", "unjudged"} /\ UnchangedRun /\ UNCHANGED <<manifest, task>>
    BY <1>6 DEF TakeLock, JudgeRaises, JudgeSkips, At
  <2>3. JudgedRuns \subseteq JudgedRuns'
    <3>1. CASE TakeLock(r) \/ JudgeRaises(r)
      BY <1>a, <3>1 DEF TakeLock, JudgeRaises
    <3>2. CASE JudgeSkips(r)
      BY <1>0, <3>2, LogAddsRun DEF JudgeSkips, TypeOK
    <3>3. QED BY <1>6, <3>1, <3>2
  <2>4. Rest'
    BY <2>1, <2>2, <2>3, RunStep DEF UnchangedRun
  <2>5. QED BY <1>q, <2>4
<1>7. ASSUME NEW r \in Runs, JudgeBetter(r)
      PROVE  ReportInv'
  <2>1. PICK b \in DupIds(r) : Log(r, "DUP_BETTER", b)
                               /\ task' = [task EXCEPT ![r] = NewTask("ready", b, TRUE)]
    BY <1>7 DEF JudgeBetter
  <2>2. /\ pc[r] = "judge" /\ pc' = [pc EXCEPT ![r] = "over"]
        /\ UnchangedRun /\ manifest' = manifest
    BY <1>7 DEF JudgeBetter, At, Goto
  <2>3. JudgedRuns' = JudgedRuns \cup {r} /\ r \notin JudgedRuns
    BY <1>0, <2>1, <2>2, LogAddsRun DEF TypeOK, TriageInv, PendingInv, Pending
  <2>4. task[r].at = "none" \/ task[r].at = "named"
    BY <2>2 DEF ReportInv, TaskInv
  <2>5. /\ \A q \in Runs \ {r} : task'[q] = task[q] /\ pc'[q] = pc[q]
        /\ task'[r].at = "ready" /\ pc'[r] = "over"
    BY <1>b, <2>1, <2>2 DEF NewTask
  <2>6. TaskInv'
    BY <2>3, <2>5 DEF ReportInv, TaskInv
  <2>7. NamedInv'
    BY <2>2, <2>5 DEF ReportInv, NamedInv, UnchangedRun
  <2>8. WrittenInv'
    BY <1>d, <2>2, <2>3, <2>5 DEF ReportInv, WrittenInv, UnchangedRun
  <2>9. OldInv' /\ CanonicalPriorKept'
    BY <2>2, <2>5 DEF ReportInv, OldInv, CanonicalPriorKept, UnchangedRun
  <2>10. FirstStartInv'
    <3>1. pc[r] # "log" /\ task[r].at \notin Writing
      BY <2>2, <2>4 DEF ReportInv, TaskInv, Writing
    <3>2. \A q \in Runs : pc[q] = "unjudged" => pc'[q] = "unjudged"
      BY <2>2, <2>5
    <3>3. task[r].at # "failed"
      BY <2>4
    <3>4. QED BY <1>e, <2>2, <2>5, <3>1, <3>2, <3>3 DEF ReportInv, FirstStartInv, UnchangedRun
  <2>11. QED BY <1>q, <2>6, <2>7, <2>8, <2>9, <2>10
<1>8. ASSUME NEW r \in Runs, JudgeNew(r)
      PROVE  ReportInv'
  <2> DEFINE e == [bug |-> NextBugId(manifest), run |-> r, crash |-> crash[r]]
  <2>1. /\ pc[r] = "judge" /\ pc' = [pc EXCEPT ![r] = "log"]
        /\ UnchangedRun /\ judgeLog' = judgeLog
        /\ manifest' = Append(manifest, e)
        /\ task' = [task EXCEPT ![r] = NewTask("named", NextBugId(manifest), FALSE)]
    BY <1>8, SeenIsManifest DEF JudgeNew, At, Goto, TriageInv, ReportInv
  <2>2. NextBugId(manifest) = Len(manifest) /\ Len(manifest) \in Nat
    BY <1>0, NextBugIdOfDense DEF TriageInv, CoreInv, TypeOK, DenseBugIds
  <2>3. /\ Len(manifest') = Len(manifest) + 1
        /\ \A i \in 1 .. Len(manifest) : manifest'[i] = manifest[i]
        /\ manifest'[Len(manifest) + 1].bug = Len(manifest)
        /\ manifest'[Len(manifest) + 1].crash = crash[r]
        /\ manifest'[Len(manifest) + 1].run = r
    BY <1>0, <2>1, <2>2 DEF TypeOK
  <2> HIDE DEF e
  <2>4. JudgedRuns' = JudgedRuns /\ r \notin JudgedRuns
    BY <1>a, <2>1 DEF ReportInv, TriageInv, PendingInv, Pending
  <2>5. /\ \A q \in Runs \ {r} : task'[q] = task[q] /\ pc'[q] = pc[q]
        /\ task'[r].at = "named" /\ task'[r].bug = Len(manifest) /\ pc'[r] = "log"
    BY <1>b, <2>1, <2>2 DEF NewTask
  <2>6. TaskInv'
    BY <2>4, <2>5 DEF ReportInv, TaskInv
  <2>7. NamedInv'
    <3>1. \A q \in Runs : pc'[q] = "log" => q = r
      BY <1>0, <2>1, <2>5 DEF TriageInv, CoreInv, LockInv
    <3>2. manifest' # <<>> /\ Len(manifest') - 1 = Len(manifest) /\ crash' = crash
      BY <2>1, <2>2, <2>3 DEF UnchangedRun
    <3>3. manifest'[Len(manifest')].crash = crash'[r] /\ manifest'[Len(manifest')].run = r
      BY <2>2, <2>3, <3>2
    <3>4. QED BY <2>5, <3>1, <3>2, <3>3 DEF NamedInv
  <2>8. WrittenInv'
    BY <1>d, <2>1, <2>4, <2>5 DEF ReportInv, WrittenInv, UnchangedRun
  <2>9. OldInv' /\ CanonicalPriorKept'
    <3>1. versions' = versions /\ canonical' = canonical
      BY <2>1 DEF UnchangedRun
    <3>2. QED BY <2>5, <3>1 DEF ReportInv, OldInv, CanonicalPriorKept
  <2>10. FirstStartInv'
    <3>1. phase = "up" /\ phase' = phase /\ starts' = starts /\ reports' = reports
      BY <2>1 DEF UnchangedRun, ReportInv, TriageInv, PendingInv, Pending
    <3>2. task[r].at \notin Writing /\ task[r].at # "failed"
      BY <2>1 DEF ReportInv, TaskInv, Writing
    <3>3. \A i \in 1 .. Len(manifest') : i \in 1 .. Len(manifest) \/ i = Len(manifest) + 1
      BY <2>2, <2>3
    <3>4. ASSUME NEW i \in 1 .. Len(manifest), starts = 1
          PROVE  \/ \E f \in reports' : f.bug = manifest'[i].bug
                 \/ \E q \in Runs : task'[q].bug = manifest'[i].bug /\ task'[q].at \in Writing \cup {"failed"}
                 \/ pc'[manifest'[i].run] = "unjudged"
      <4>1. /\ manifest'[i].bug = manifest[i].bug /\ manifest'[i].run = manifest[i].run
            /\ manifest[i].run \in Runs
        BY <1>e, <2>3
      <4>2. CASE \E q \in Runs : task[q].bug = manifest[i].bug /\ task[q].at \in Writing \cup {"failed"}
        BY <2>5, <3>2, <4>1, <4>2
      <4>3. CASE pc[manifest[i].run] = "unjudged"
        BY <2>1, <2>5, <4>1, <4>3
      <4>4. CASE \E f \in reports : f.bug = manifest[i].bug
        BY <3>1, <4>1, <4>4
      <4>5. QED BY <3>1, <3>4, <4>2, <4>3, <4>4 DEF ReportInv, FirstStartInv
    <3>5. task'[r].at \in Writing /\ task'[r].bug = manifest'[Len(manifest) + 1].bug
      BY <2>3, <2>5 DEF Writing
    <3>6. starts > 0
      BY <3>1 DEF ReportInv, FirstStartInv
    <3>7. QED BY <3>1, <3>3, <3>4, <3>5, <3>6 DEF FirstStartInv
  <2>11. QED BY <1>q, <2>6, <2>7, <2>8, <2>9, <2>10
<1>9. ASSUME NEW r \in Runs, LogNew(r)
      PROVE  ReportInv'
  <2>1. /\ pc[r] = "log" /\ pc' = [pc EXCEPT ![r] = "over"] /\ UnchangedRun
        /\ Log(r, "NEW", task[r].bug) /\ manifest' = manifest
        /\ task' = [task EXCEPT ![r].at = "ready"]
    BY <1>9 DEF LogNew, Goto
  <2>2. JudgedRuns' = JudgedRuns \cup {r} /\ r \notin JudgedRuns
    BY <1>0, <2>1, LogAddsRun DEF TypeOK, TriageInv, PendingInv, Pending
  <2>3. /\ \A q \in Runs \ {r} : task'[q] = task[q] /\ pc'[q] = pc[q]
        /\ task'[r].at = "ready" /\ task'[r].bug = task[r].bug /\ pc'[r] = "over"
    BY <1>b, <2>1 DEF Task
  <2>4. TaskInv'
    BY <2>2, <2>3 DEF ReportInv, TaskInv
  <2>5. NamedInv'
    BY <2>1, <2>3 DEF ReportInv, NamedInv, UnchangedRun
  <2>6. WrittenInv'
    BY <1>b, <2>1, <2>2, <2>3 DEF ReportInv, WrittenInv, UnchangedRun
  <2>7. OldInv' /\ CanonicalPriorKept'
    BY <2>1, <2>3 DEF ReportInv, OldInv, CanonicalPriorKept, UnchangedRun
  <2>8. FirstStartInv'
    <3>1. \A q \in Runs : pc[q] = "unjudged" => pc'[q] = "unjudged"
      BY <2>1, <2>3
    <3>2. task[r].at = "named" /\ phase = "up"
      BY <1>9, <2>1 DEF LogNew, ReportInv, NamedInv
    <3>3. QED BY <1>e, <2>1, <2>3, <3>1, <3>2 DEF ReportInv, FirstStartInv, UnchangedRun, Writing
  <2>9. QED BY <1>q, <2>4, <2>5, <2>6, <2>7, <2>8
<1>9a. ASSUME NEW r \in Runs, LogNewRaises(r)
       PROVE  ReportInv'
  <2>1. /\ phase = "up" /\ pc[r] = "log" /\ pc' = [pc EXCEPT ![r] = "unjudged"] /\ UnchangedRun
        /\ UNCHANGED <<manifest, judgeLog>> /\ task' = [task EXCEPT ![r] = NoTask]
    BY <1>9a DEF LogNewRaises, Goto
  <2>2. JudgedRuns' = JudgedRuns
    BY <1>a, <2>1
  <2>3. /\ \A q \in Runs \ {r} : task'[q] = task[q] /\ pc'[q] = pc[q]
        /\ task'[r].at = "none" /\ pc'[r] = "unjudged"
    BY <1>b, <2>1 DEF NoTask
  <2>4. TaskInv' /\ NamedInv'
    BY <2>1, <2>2, <2>3 DEF ReportInv, TaskInv, NamedInv, UnchangedRun
  <2>5. WrittenInv'
    BY <1>d, <2>1, <2>2, <2>3 DEF ReportInv, WrittenInv, UnchangedRun
  <2>6. OldInv' /\ CanonicalPriorKept'
    BY <2>1, <2>3 DEF ReportInv, OldInv, CanonicalPriorKept, UnchangedRun
  <2>7. FirstStartInv'
    <3>1. /\ Len(manifest) \in Nat /\ manifest[Len(manifest)].run = r
          /\ task[r].bug = Len(manifest) - 1 /\ task[r].at = "named"
      BY <1>0, <2>1 DEF ReportInv, NamedInv, TypeOK
    <3>2. \A i \in 1 .. Len(manifest) : manifest[i].bug = i - 1
      BY <1>0 DEF TriageInv, CoreInv, DenseBugIds
    <3>3. \A i \in 1 .. Len(manifest) : manifest[i].bug = task[r].bug => manifest[i].run = r
      BY <3>1, <3>2
    <3>4. \A q \in Runs : pc[q] = "unjudged" => pc'[q] = "unjudged"
      BY <2>3
    <3>5. UNCHANGED <<manifest, reports, phase, starts>>
      BY <2>1 DEF UnchangedRun
    <3>6. QED BY <1>e, <2>1, <2>3, <3>3, <3>4, <3>5 DEF ReportInv, FirstStartInv
  <2>8. QED BY <1>q, <2>4, <2>5, <2>6, <2>7
<1>10. ASSUME NEW r \in Runs, StartReport(r)
       PROVE  ReportInv'
  <2> DEFINE prior == Prior(r)
  <2> DEFINE old == \E f \in prior : f.text
  <2>1. /\ task[r].at = "ready" /\ UnchangedBatch /\ canonical' = canonical
        /\ reports' = reports \ prior /\ versions' = versions \cup prior
        /\ task' = [task EXCEPT ![r].at = "running", ![r].old = old]
    BY <1>10 DEF StartReport, Rename
  <2>2. old \in BOOLEAN
    OBVIOUS
  <2>3. \A f \in prior : f \in reports /\ f.bug = task[r].bug /\ f.run # r
    BY <2>1 DEF ReportInv, WrittenInv, Prior
  <2> HIDE DEF prior, old
  <2>4. /\ TaskInv' /\ NamedInv' /\ JudgedRuns' = JudgedRuns
        /\ \A q \in Runs \ {r} : task'[q] = task[q]
        /\ task'[r].at = "running" /\ task'[r].old = old /\ task'[r].bug = task[r].bug
    BY <2>1, <2>2, TaskMoves
  <2>5. WrittenInv'
    BY <1>d, <2>1, <2>4 DEF ReportInv, WrittenInv
  <2>6. OldInv'
    <3>1. old => \E v \in versions' : v.bug = task[r].bug /\ v.text /\ v.run # r
      BY <2>1, <2>3 DEF old
    <3>2. task'[r].old => old
      BY <2>4, Zenon
    <3>3. versions \subseteq versions'
      BY <2>1
    <3>4. ASSUME NEW q \in Runs \ {r}
          PROVE  /\ task'[q].old /\ task'[q].at \in {"running", "compare"}
                      => \E v \in versions' : v.bug = task'[q].bug /\ v.text /\ v.run # q
                 /\ task'[q].at = "compare" => task'[q].old
      BY <2>4, <3>3 DEF ReportInv, OldInv
    <3>5. /\ task'[r].old => \E v \in versions' : v.bug = task'[r].bug /\ v.text /\ v.run # r
          /\ task'[r].at # "compare"
      BY <2>4, <3>1, <3>2
    <3>6. QED BY <3>4, <3>5 DEF OldInv
  <2>7. CanonicalPriorKept'
    BY <2>1 DEF ReportInv, CanonicalPriorKept
  <2>8. FirstStartInv'
    <3>1. UNCHANGED <<manifest, phase, starts, pc>>
      BY <2>1 DEF UnchangedBatch
    <3>2. phase = "up"
      BY <1>10 DEF StartReport, LoopFree
    <3>3. \A f \in reports : f \in reports' \/ f.bug = task'[r].bug
      BY <2>1, <2>3, <2>4
    <3>4. task'[r].at \in Writing
      BY <2>4 DEF Writing
    <3>5. ASSUME NEW i \in 1 .. Len(manifest), starts = 1
          PROVE  \/ \E f \in reports' : f.bug = manifest[i].bug
                 \/ \E q \in Runs : task'[q].bug = manifest[i].bug /\ task'[q].at \in Writing \cup {"failed"}
                 \/ pc[manifest[i].run] = "unjudged"
      <4>1. CASE \E f \in reports : f.bug = manifest[i].bug
        BY <3>3, <3>4, <4>1
      <4>2. CASE \E q \in Runs : task[q].bug = manifest[i].bug /\ task[q].at \in Writing \cup {"failed"}
        BY <2>1, <2>4, <3>4, <4>2
      <4>3. QED BY <3>2, <3>5, <4>1, <4>2 DEF ReportInv, FirstStartInv
    <3>6. QED BY <3>1, <3>2, <3>5 DEF ReportInv, FirstStartInv
  <2>9. QED BY <1>q, <2>4, <2>5, <2>6, <2>7, <2>8
<1>10a. ASSUME NEW r \in Runs, StartReportRaises(r) \/ ReportRaises(r)
        PROVE  ReportInv'
  <2> DEFINE torn == [bug |-> task[r].bug, run |-> r, status |-> "torn", text |-> FALSE]
  <2>1. /\ phase = "up" /\ task[r].at \in {"ready", "running"} /\ UnchangedBatch
        /\ canonical' = canonical /\ versions \subseteq versions'
        /\ task' = [task EXCEPT ![r].at = "failed"]
    BY <1>10a DEF StartReportRaises, ReportRaises, Rename, LoopFree
  <2>2. torn.run = r /\ torn.bug = task[r].bug
    OBVIOUS
  <2>3. /\ \A f \in reports' : f \in reports \/ (f = torn /\ task[r].at = "running")
        /\ \A f \in reports : f \in reports' \/ f.bug = task[r].bug
    BY <1>10a DEF StartReportRaises, ReportRaises, Rename, Prior, Overwrite
  <2> HIDE DEF torn
  <2>4. task' = [task EXCEPT ![r].at = "failed", ![r].old = task[r].old] /\ task[r].old \in BOOLEAN
    BY <1>b, <2>1 DEF Task
  <2>5. /\ TaskInv' /\ NamedInv' /\ JudgedRuns' = JudgedRuns
        /\ \A q \in Runs \ {r} : task'[q] = task[q]
        /\ task'[r].at = "failed" /\ task'[r].bug = task[r].bug
    BY <2>1, <2>4, TaskMoves
  <2>6. WrittenInv'
    <3>1. r \in JudgedRuns
      BY <2>1 DEF ReportInv, TaskInv
    <3>2. QED BY <1>d, <2>2, <2>3, <2>5, <3>1 DEF ReportInv, WrittenInv
  <2>7. OldInv' /\ CanonicalPriorKept'
    BY <2>1, <2>5 DEF ReportInv, OldInv, CanonicalPriorKept
  <2>8. FirstStartInv'
    <3>1. UNCHANGED <<manifest, phase, starts, pc>>
      BY <2>1 DEF UnchangedBatch
    <3>2. QED BY <2>1, <2>3, <2>5, <3>1 DEF ReportInv, FirstStartInv, Writing
  <2>9. QED BY <1>q, <2>5, <2>6, <2>7, <2>8
<1>11. ASSUME NEW r \in Runs, EndReport(r)
       PROVE  ReportInv'
  <2>1. PICK o \in ReportOutcomes :
          /\ reports' = Overwrite(reports, [bug |-> task[r].bug, run |-> r,
                                            status |-> o.status, text |-> o.text])
          /\ task' = [task EXCEPT ![r].at =
                        IF task[r].better /\ task[r].old /\ o.text THEN "compare" ELSE "done"]
    BY <1>11 DEF EndReport
  <2> DEFINE at == IF task[r].better /\ task[r].old /\ o.text THEN "compare" ELSE "done"
             new == [bug |-> task[r].bug, run |-> r, status |-> o.status, text |-> o.text]
  <2>2. /\ phase = "up" /\ task[r].at = "running" /\ UnchangedBatch
        /\ UNCHANGED <<versions, canonical>>
    BY <1>11 DEF EndReport, LoopFree
  <2>3. /\ reports' = {g \in reports : g.bug # new.bug} \cup {new}
        /\ new.bug = task[r].bug /\ new.run = r
    BY <2>1 DEF Overwrite
  <2>4. at \in {"compare", "done"} /\ (at = "compare" => task[r].old)
    OBVIOUS
  <2>5. task' = [task EXCEPT ![r].at = at, ![r].old = task[r].old] /\ task[r].old \in BOOLEAN
    BY <1>b, <2>1 DEF Task
  <2> HIDE DEF at, new
  <2>6. /\ TaskInv' /\ NamedInv' /\ JudgedRuns' = JudgedRuns
        /\ \A q \in Runs \ {r} : task'[q] = task[q]
        /\ task'[r].at = at /\ task'[r].old = task[r].old /\ task'[r].bug = task[r].bug
    BY <2>2, <2>4, <2>5, TaskMoves
  <2>7. WrittenInv'
    <3>1. r \in JudgedRuns
      BY <2>2 DEF ReportInv, TaskInv
    <3>2. QED BY <1>d, <2>3, <2>4, <2>6, <3>1 DEF ReportInv, WrittenInv
  <2>8. OldInv' /\ CanonicalPriorKept'
    BY <2>2, <2>4, <2>6 DEF ReportInv, OldInv, CanonicalPriorKept
  <2>9. FirstStartInv'
    <3>1. UNCHANGED <<manifest, phase, starts, pc>>
      BY <2>2 DEF UnchangedBatch
    <3>2. \A b : (\E f \in reports : f.bug = b) \/ b = task[r].bug => \E f \in reports' : f.bug = b
      BY <2>3
    <3>3. ASSUME NEW i \in 1 .. Len(manifest), starts = 1
          PROVE  \/ \E f \in reports' : f.bug = manifest[i].bug
                 \/ \E q \in Runs : task'[q].bug = manifest[i].bug /\ task'[q].at \in Writing \cup {"failed"}
                 \/ pc[manifest[i].run] = "unjudged"
      <4>1. CASE \E f \in reports : f.bug = manifest[i].bug
        BY <3>2, <4>1
      <4>2. CASE \E q \in Runs : task[q].bug = manifest[i].bug /\ task[q].at \in Writing \cup {"failed"}
        BY <2>2, <2>6, <3>2, <4>2
      <4>3. QED BY <2>2, <3>3, <4>1, <4>2 DEF ReportInv, FirstStartInv
    <3>4. QED BY <2>2, <3>1, <3>3 DEF ReportInv, FirstStartInv
  <2>10. QED BY <1>q, <2>6, <2>7, <2>8, <2>9
<1>12. ASSUME NEW r \in Runs, EndCompare(r)
       PROVE  ReportInv'
  <2>1. /\ phase = "up" /\ task[r].at = "compare" /\ UnchangedBatch
        /\ UNCHANGED <<reports, versions>>
        /\ task' = [task EXCEPT ![r].at = "done"]
    BY <1>12 DEF EndCompare, LoopFree
  <2>2. \A c \in canonical' : c \in canonical \/ (c.bug = task[r].bug /\ c.run = r)
    BY <1>12 DEF EndCompare, Overwrite
  <2>3. task' = [task EXCEPT ![r].at = "done", ![r].old = task[r].old] /\ task[r].old \in BOOLEAN
    BY <1>b, <2>1 DEF Task
  <2>4. /\ TaskInv' /\ NamedInv' /\ JudgedRuns' = JudgedRuns
        /\ \A q \in Runs \ {r} : task'[q] = task[q]
        /\ task'[r].at = "done"
    BY <2>1, <2>3, TaskMoves
  <2>5. WrittenInv' /\ OldInv'
    BY <1>d, <2>1, <2>4 DEF ReportInv, WrittenInv, OldInv
  <2>6. CanonicalPriorKept'
    BY <2>1, <2>2 DEF ReportInv, OldInv, CanonicalPriorKept
  <2>7. FirstStartInv'
    BY <2>1, <2>3, <2>4 DEF UnchangedBatch, ReportInv, FirstStartInv, Writing
  <2>8. QED BY <1>q, <2>4, <2>5, <2>6, <2>7
<1>13. CASE UNCHANGED vars
  <2>1. JudgedRuns' = JudgedRuns
    BY <1>13, <1>a DEF vars, files
  <2>2. Rest'
    BY <1>13, <2>1 DEF vars, files, memory, ReportInv, TaskInv, NamedInv, WrittenInv, OldInv,
       FirstStartInv, CanonicalPriorKept
  <2>3. QED BY <1>q, <2>2
<1>14. QED
  BY <1>1, <1>2, <1>3, <1>4, <1>5, <1>6, <1>7, <1>8, <1>9, <1>9a, <1>10, <1>10a, <1>11, <1>12,
     <1>13
     DEF Next, JudgeStep, ReportStep

LEMMA ReportInvariant == Spec => []ReportInv
BY ReportInit, ReportInvStep, PTL DEF Spec

\* A batch that no kill interrupted has a report.json for each bug it filed, but
\* for those whose report task raised or whose verdict could not be logged.
THEOREM MissingReportsExplained == Spec => []MissingReportExplained
<1>1. ReportInv => MissingReportExplained
  BY DEF ReportInv, FirstStartInv, MissingReportExplained
<1>2. QED BY <1>1, ReportInvariant, PTL

\* canonical.json never declares a report the winner that is gone.
THEOREM CanonicalPriorStays == Spec => []CanonicalPriorKept
<1>1. ReportInv => CanonicalPriorKept
  BY DEF ReportInv
<1>2. QED BY <1>1, ReportInvariant, PTL

-----------------------------------------------------------------------------
(* Progress                                                                *)

\* Only the runs and tasks a step works on move; all others stay where they are.
LEMMA OneRunMoves ==
  ASSUME pc \in [Runs -> Steps], task \in [Runs -> Task], NEW r \in Runs,
         NEW p, NEW t, pc' = [pc EXCEPT ![r] = p], task' = [task EXCEPT ![r] = t],
         StepRank(p) + TaskRank(t.at) > Way(r)
  PROVE  \E x \in Runs : Way(x)' > Way(x) /\ \A q \in Runs \ {x} : Way(q)' = Way(q)
<1>1. pc'[r] = p /\ task'[r] = t
  OBVIOUS
<1>2. \A q \in Runs \ {r} : pc'[q] = pc[q] /\ task'[q] = task[q]
  OBVIOUS
<1>3. Way(r)' > Way(r) /\ \A q \in Runs \ {r} : Way(q)' = Way(q)
  BY <1>1, <1>2 DEF Way
<1>4. QED BY <1>3

\* Within an invocation every step takes one run further and no run back.
THEOREM InvocationsAdvance == Spec => InvocationAdvances
<1>1. ReportInv /\ [Next]_vars =>
        [phase = "up" /\ phase' = "up" =>
           \E r \in Runs : /\ Way(r)' > Way(r)
                           /\ \A q \in Runs \ {r} : Way(q)' = Way(q)]_vars
  <2> SUFFICES ASSUME ReportInv, Next, phase = "up", phase' = "up"
               PROVE  \E x \in Runs : Way(x)' > Way(x) /\ \A q \in Runs \ {x} : Way(q)' = Way(q)
    OBVIOUS
  <2>a. pc \in [Runs -> Steps] /\ task \in [Runs -> Task] /\ TaskInv
    BY DEF ReportInv, TriageInv, CoreInv, TypeOK
  <2>b. \A r \in Runs : task = [task EXCEPT ![r] = task[r]] /\ pc = [pc EXCEPT ![r] = pc[r]]
    BY <2>a
  <2>1. ASSUME NEW r \in Runs, FindStep(r) \/ GradeStep(r)
        PROVE  \E x \in Runs : Way(x)' > Way(x) /\ \A q \in Runs \ {x} : Way(q)' = Way(q)
    <3>1. task' = task /\ pc[r] \in {"idle", "find", "grade"}
      BY <2>1 DEF FindStep, StartFind, FindFails, FindNothing, FindUnchecked, FindSubmits,
         GradeStep, GradeFails, GradeEnds, RunRaises, Done, At, UnchangedTriage
    <3>2. PICK p : pc' = [pc EXCEPT ![r] = p] /\ StepRank(p) > StepRank(pc[r])
      BY <2>1 DEF FindStep, StartFind, FindFails, FindNothing, FindUnchecked, FindSubmits,
         GradeStep, GradeFails, GradeEnds, RunRaises, Done, At, Goto, StepRank
    <3>3. StepRank(p) + TaskRank(task[r].at) > Way(r)
      BY <3>2 DEF Way, StepRank, TaskRank
    <3>4. QED BY <2>a, <2>b, <3>1, <3>2, <3>3, OneRunMoves
  <2>2. ASSUME NEW r \in Runs, TakeLock(r) \/ JudgeRaises(r) \/ JudgeSkips(r)
        PROVE  \E x \in Runs : Way(x)' > Way(x) /\ \A q \in Runs \ {x} : Way(q)' = Way(q)
    <3>1. task' = task
      BY <2>2 DEF TakeLock, JudgeRaises, JudgeSkips
    <3>2. PICK p : pc' = [pc EXCEPT ![r] = p] /\ StepRank(p) > StepRank(pc[r])
      <4>1. CASE TakeLock(r)
        <5>1. pc' = [pc EXCEPT ![r] = "judge"] /\ pc[r] \in {"dispatch", "replay"}
          BY <4>1 DEF TakeLock, Goto
        <5>2. StepRank("judge") > StepRank(pc[r])
          BY <5>1 DEF StepRank
        <5>3. QED BY <5>1, <5>2
      <4>2. CASE JudgeRaises(r) \/ JudgeSkips(r)
        <5>1. PICK p \in {"over", "unjudged"} : pc' = [pc EXCEPT ![r] = p]
          BY <4>2 DEF JudgeRaises, JudgeSkips, Goto
        <5>2. pc[r] = "judge"
          BY <4>2 DEF JudgeRaises, JudgeSkips, At
        <5>3. StepRank(p) > StepRank(pc[r])
          BY <5>1, <5>2 DEF StepRank
        <5>4. QED BY <5>1, <5>3
      <4>3. QED BY <2>2, <4>1, <4>2
    <3>3. StepRank(p) + TaskRank(task[r].at) > Way(r)
      BY <3>2 DEF Way, StepRank, TaskRank
    <3>4. QED BY <2>a, <2>b, <3>1, <3>2, <3>3, OneRunMoves
  <2>3a. ASSUME NEW r \in Runs, LogNewRaises(r)
         PROVE  \E x \in Runs : Way(x)' > Way(x) /\ \A q \in Runs \ {x} : Way(q)' = Way(q)
    <3>1. /\ pc[r] = "log" /\ pc' = [pc EXCEPT ![r] = "unjudged"]
          /\ task' = [task EXCEPT ![r] = NoTask]
      BY <2>3a DEF LogNewRaises, Goto
    <3>2. TaskRank(task[r].at) = 0 /\ TaskRank(NoTask.at) = 0
      BY <2>a, <3>1 DEF TaskInv, TaskRank, NoTask
    <3>3. StepRank("unjudged") + TaskRank(NoTask.at) > Way(r)
      BY <3>1, <3>2 DEF Way, StepRank
    <3>4. QED BY <2>a, <3>1, <3>3, OneRunMoves
  <2>3. ASSUME NEW r \in Runs, JudgeBetter(r) \/ JudgeNew(r) \/ LogNew(r)
        PROVE  \E x \in Runs : Way(x)' > Way(x) /\ \A q \in Runs \ {x} : Way(q)' = Way(q)
    <3>1. PICK p, t : /\ pc' = [pc EXCEPT ![r] = p] /\ StepRank(p) > StepRank(pc[r])
                      /\ task' = [task EXCEPT ![r] = t] /\ t.at \in {"named", "ready"}
                      /\ pc[r] = "judge" \/ t.at = "ready"
      <4>1. CASE JudgeBetter(r) \/ JudgeNew(r)
        <5>1. pc[r] = "judge" /\ \E p \in {"over", "log"} : pc' = [pc EXCEPT ![r] = p]
          BY <4>1 DEF JudgeBetter, JudgeNew, At, Goto
        <5>a. PICK at \in {"named", "ready"} :
                \E b, better : task' = [task EXCEPT ![r] = NewTask(at, b, better)]
          BY <4>1 DEF JudgeBetter, JudgeNew
        <5>2. PICK b, better : task' = [task EXCEPT ![r] = NewTask(at, b, better)]
          BY <5>a
        <5>3. NewTask(at, b, better).at = at
          BY DEF NewTask
        <5>4. \A p \in {"over", "log"} : StepRank(p) > StepRank(pc[r])
          BY <5>1 DEF StepRank
        <5>5. QED BY <5>1, <5>2, <5>3, <5>4
      <4>3. CASE LogNew(r)
        <5>1. pc[r] = "log" /\ pc' = [pc EXCEPT ![r] = "over"]
          BY <4>3 DEF LogNew, Goto
        <5>2. task' = [task EXCEPT ![r] = [task[r] EXCEPT !.at = "ready"]]
          BY <4>3 DEF LogNew
        <5>3. [task[r] EXCEPT !.at = "ready"].at = "ready"
          BY <2>a DEF Task
        <5>4. StepRank("over") > StepRank(pc[r])
          BY <5>1 DEF StepRank
        <5>5. QED BY <5>1, <5>2, <5>3, <5>4
      <4>4. QED BY <2>3, <4>1, <4>3
    <3>2. /\ pc[r] \in {"judge", "log"}
          /\ task[r].at = "none" \/ (task[r].at = "named" /\ pc[r] = "log")
      <4>1. pc[r] \in {"judge", "log"}
        BY <2>3 DEF JudgeBetter, JudgeNew, LogNew, At
      <4>2. QED BY <2>a, <4>1 DEF TaskInv
    <3>3. TaskRank(t.at) >= TaskRank(task[r].at)
      BY <3>1, <3>2 DEF TaskRank
    <3>4. StepRank(p) + TaskRank(t.at) > Way(r)
      BY <3>1, <3>3 DEF Way, StepRank, TaskRank
    <3>5. QED BY <2>a, <3>1, <3>4, OneRunMoves
  <2>4. ASSUME NEW r \in Runs, ReportStep(r)
        PROVE  \E x \in Runs : Way(x)' > Way(x) /\ \A q \in Runs \ {x} : Way(q)' = Way(q)
    <3>1. pc' = pc
      BY <2>4 DEF ReportStep, StartReport, StartReportRaises, EndReport, ReportRaises, EndCompare,
         UnchangedBatch
    <3>2. PICK at, old : /\ task' = [task EXCEPT ![r].at = at, ![r].old = old]
                         /\ TaskRank(at) > TaskRank(task[r].at)
      <4>1. CASE StartReport(r)
        <5>1. task[r].at = "ready"
          BY <4>1 DEF StartReport
        <5>2. \E old : task' = [task EXCEPT ![r].at = "running", ![r].old = old]
          BY <4>1 DEF StartReport
        <5>3. TaskRank("running") > TaskRank(task[r].at)
          BY <5>1 DEF TaskRank
        <5>4. QED BY <5>2, <5>3
      <4>2. CASE EndReport(r) \/ EndCompare(r) \/ StartReportRaises(r) \/ ReportRaises(r)
        <5>1. PICK at : /\ task' = [task EXCEPT ![r].at = at]
                        /\ TaskRank(at) > TaskRank(task[r].at)
          <6>1. CASE EndReport(r)
            <7>1. task[r].at = "running"
              BY <6>1 DEF EndReport
            <7>2. \E at \in {"compare", "done"} : task' = [task EXCEPT ![r].at = at]
              BY <6>1 DEF EndReport
            <7>3. \A at \in {"compare", "done"} : TaskRank(at) > TaskRank(task[r].at)
              BY <7>1 DEF TaskRank
            <7>4. QED BY <7>2, <7>3
          <6>2. CASE EndCompare(r)
            <7>1. task[r].at = "compare" /\ task' = [task EXCEPT ![r].at = "done"]
              BY <6>2 DEF EndCompare
            <7>2. TaskRank("done") > TaskRank(task[r].at)
              BY <7>1 DEF TaskRank
            <7>3. QED BY <7>1, <7>2
          <6>3. CASE StartReportRaises(r) \/ ReportRaises(r)
            <7>1. /\ task[r].at \in {"ready", "running"}
                  /\ task' = [task EXCEPT ![r].at = "failed"]
              BY <6>3 DEF StartReportRaises, ReportRaises
            <7>2. TaskRank("failed") > TaskRank(task[r].at)
              BY <7>1 DEF TaskRank
            <7>3. QED BY <7>1, <7>2
          <6>4. QED BY <4>2, <6>1, <6>2, <6>3
        <5>2. task' = [task EXCEPT ![r].at = at, ![r].old = task[r].old]
          BY <2>a, <5>1 DEF Task
        <5>3. QED BY <5>1, <5>2
      <4>3. QED BY <2>4, <4>1, <4>2 DEF ReportStep
    <3>3. /\ task' = [task EXCEPT ![r] = [task[r] EXCEPT !.at = at, !.old = old]]
          /\ [task[r] EXCEPT !.at = at, !.old = old].at = at
      BY <2>a, <3>2 DEF Task
    <3>4. StepRank(pc[r]) + TaskRank(at) > Way(r)
      BY <3>2 DEF Way, StepRank, TaskRank
    <3>5. QED BY <2>a, <2>b, <3>1, <3>3, <3>4, OneRunMoves
  <2>5. QED
    BY <2>1, <2>2, <2>3, <2>3a, <2>4
       DEF Next, JudgeStep, Launch, CanLaunch, BuildFails, Finish, Kill, KillInResult, KillInReport
<1>2. QED BY <1>1, ReportInvariant, PTL DEF Spec, InvocationAdvances

-----------------------------------------------------------------------------
(* The ledger                                                              *)

\* A write that replaces a non-terminal result by one that is not graded leaves
\* the graded crashes alone.
LEMMA UngradedWrites ==
  ASSUME ReportInv,
         \A r \in Runs : \/ result'[r] = result[r]
                         \/ result[r].status \notin TerminalStatuses /\ ~IsGraded(result'[r])
  PROVE  GradedCrash' = GradedCrash
<1>1. \A r \in Runs : result[r].status \notin TerminalStatuses => ~IsGraded(result[r])
  BY DEF ReportInv, TriageInv, TerminalInv, IsGraded
<1>2. \A r \in Runs : IsGraded(result'[r]) = IsGraded(result[r])
                      /\ (IsGraded(result[r]) => result'[r].crash = result[r].crash)
  BY <1>1 DEF IsGraded
<1>3. QED BY <1>2 DEF GradedCrash, IsGraded

\* In a log with one line per run, the line of a run is the one found.
LEMMA ChosenLine ==
  ASSUME NEW log, DOMAIN log = 1 .. Len(log),
         \A i, k \in 1 .. Len(log) : log[i].run = log[k].run => i = k,
         NEW i \in 1 .. Len(log), NEW r, r = log[i].run
  PROVE  (CHOOSE n \in DOMAIN log : log[n].run = r) = i
<1> DEFINE k == CHOOSE n \in DOMAIN log : log[n].run = r
<1>1. k \in DOMAIN log /\ log[k].run = r
  OBVIOUS
<1>2. QED BY <1>1

LEMMA VerdictFunctions ==
  /\ LoggedBug = [q \in Runs |-> LoggedBug[q]]
  /\ GradedCrash = [q \in Runs |-> GradedCrash[q]]
BY DEF LoggedBug, GradedCrash

\* Logging a first verdict of a run changes the verdict of that run only.
LEMMA LogAssigns ==
  ASSUME TypeOK, JudgedOnce, JudgedOnce', NEW r \in Runs, NEW j, NEW b \in Nat,
         Log(r, j, b), r \notin JudgedRuns
  PROVE  LoggedBug' = [LoggedBug EXCEPT ![r] = b + 1] /\ LoggedBug[r] = 0
<1> DEFINE line == [run |-> r, judgment |-> j, bug |-> b]
           n == Len(judgeLog) + 1
<1>1. judgeLog \in Seq(LogLine) /\ judgeLog' = Append(judgeLog, line)
  BY DEF TypeOK, Log
<1>2. /\ Len(judgeLog) \in Nat /\ DOMAIN judgeLog = 1 .. Len(judgeLog)
      /\ Len(judgeLog') = n /\ DOMAIN judgeLog' = 1 .. Len(judgeLog')
      /\ \A i \in 1 .. Len(judgeLog) : i \in 1 .. n /\ judgeLog'[i] = judgeLog[i]
      /\ n \in 1 .. n /\ judgeLog'[n].run = r /\ judgeLog'[n].bug = b
  BY <1>1
<1>3. JudgedRuns' = JudgedRuns \cup {r}
  BY <1>1, LogAddsRun
<1>4. LoggedBug'[r] = b + 1
  <2>1. (CHOOSE i \in DOMAIN judgeLog' : judgeLog'[i].run = r) = n
    BY <1>2, ChosenLine DEF JudgedOnce
  <2>2. QED BY <1>2, <1>3, <2>1 DEF LoggedBug
<1>5. ASSUME NEW q \in Runs, q # r
      PROVE  LoggedBug'[q] = LoggedBug[q]
  <2>1. CASE q \notin JudgedRuns
    BY <1>3, <1>5, <2>1 DEF LoggedBug
  <2>2. CASE q \in JudgedRuns
    <3>1. PICK i \in 1 .. Len(judgeLog) : judgeLog[i].run = q
      BY <1>2, <2>2 DEF JudgedRuns
    <3>2. (CHOOSE k \in DOMAIN judgeLog : judgeLog[k].run = q) = i
      BY <1>2, <3>1, ChosenLine DEF JudgedOnce
    <3>3. (CHOOSE k \in DOMAIN judgeLog' : judgeLog'[k].run = q) = i
      <4>1. i \in 1 .. Len(judgeLog') /\ judgeLog'[i].run = q
        BY <1>2, <3>1
      <4>2. QED BY <1>2, <4>1, ChosenLine DEF JudgedOnce
    <3>4. judgeLog'[i].bug = judgeLog[i].bug
      BY <1>2
    <3>5. LoggedBug[q] = judgeLog[i].bug + 1
      BY <2>2, <3>2 DEF LoggedBug
    <3>6. LoggedBug'[q] = judgeLog'[i].bug + 1
      <4>1. q \in JudgedRuns'
        BY <1>3, <2>2
      <4>2. QED BY <3>3, <4>1 DEF LoggedBug
    <3>7. QED BY <3>4, <3>5, <3>6
  <2>3. QED BY <2>1, <2>2
<1>6. LoggedBug' = [q \in Runs |-> LoggedBug'[q]]
  BY DEF LoggedBug
<1>7. LoggedBug[r] = 0
  BY DEF LoggedBug
<1>8. QED BY <1>4, <1>5, <1>6, <1>7, VerdictFunctions

\* The ledger under an append to the manifest, seen as a sequence of causes.
LEMMA CausesAppended ==
  ASSUME manifest \in Seq(Entry), NEW e \in Entry, manifest' = Append(manifest, e)
  PROVE  ManifestCauses' = Append(ManifestCauses, e.crash)
<1>1. /\ Len(manifest) \in Nat /\ Len(manifest') = Len(manifest) + 1
      /\ \A i \in 1 .. Len(manifest) : manifest[i] \in Entry /\ manifest'[i] = manifest[i]
      /\ manifest'[Len(manifest) + 1] = e /\ manifest' \in Seq(Entry)
  OBVIOUS
<1>2. \A i \in 1 .. Len(manifest) : manifest[i].crash \in Causes
  BY <1>1 DEF Entry
<1>3. e.crash \in Causes
  BY DEF Entry
<1>4. ManifestCauses \in Seq(Causes) /\ Len(ManifestCauses) = Len(manifest)
      /\ \A i \in 1 .. Len(manifest) : ManifestCauses[i] = manifest[i].crash
  BY <1>1, <1>2 DEF ManifestCauses
<1>5. \A i \in 1 .. Len(manifest') : manifest'[i].crash \in Causes
  BY <1>1, <1>2, <1>3
<1>6. ManifestCauses' \in Seq(Causes) /\ Len(ManifestCauses') = Len(manifest')
      /\ \A i \in 1 .. Len(manifest') : ManifestCauses'[i] = manifest'[i].crash
  BY <1>1, <1>5 DEF ManifestCauses
<1> DEFINE longer == Append(ManifestCauses, e.crash)
<1>7. /\ longer \in Seq(Causes) /\ Len(longer) = Len(manifest) + 1
      /\ \A i \in 1 .. Len(manifest) : longer[i] = ManifestCauses[i]
      /\ longer[Len(manifest) + 1] = e.crash
  BY <1>1, <1>3, <1>4
<1> HIDE DEF longer
<1>8. \A i \in 1 .. Len(manifest') : ManifestCauses'[i] = longer[i]
  BY <1>1, <1>4, <1>6, <1>7
<1>9. ManifestCauses' = longer
  BY <1>1, <1>6, <1>7, <1>8, SeqEqual
<1>10. QED BY <1>9 DEF longer

LEMMA LedgerInit == Init => Ledger!Init
<1> SUFFICES ASSUME Init PROVE Ledger!Init
  OBVIOUS
<1>1. \A r \in Runs : ~IsGraded(result[r]) /\ r \notin JudgedRuns
  BY DEF Init, IsGraded, Absent, JudgedRuns
<1>2. ManifestCauses = <<>>
  BY DEF Init, ManifestCauses
<1>3. QED BY <1>1, <1>2 DEF Ledger!Init, GradedCrash, LoggedBug

\* A step that touches none of the three files leaves the ledger alone.
LEMMA LedgerStutters ==
  ASSUME GradedCrash' = GradedCrash, manifest' = manifest, judgeLog' = judgeLog
  PROVE  UNCHANGED Ledger!ledgerVars
<1>1. ManifestCauses' = ManifestCauses
  BY DEF ManifestCauses
<1>2. LoggedBug' = LoggedBug
  BY DEF LoggedBug, JudgedRuns
<1>3. QED BY <1>1, <1>2 DEF Ledger!ledgerVars

\* A logged verdict that names the bug of the crash's own cause is an Assign.
LEMMA LogImplementsAssign ==
  ASSUME ReportInv, ReportInv', NEW r \in Runs, pc[r] \in {"judge", "log"},
         NEW j, NEW i \in 1 .. Len(manifest), manifest[i].crash = crash[r],
         Log(r, j, manifest[i].bug), result' = result, manifest' = manifest
  PROVE  Ledger!Assign(r)
<1>1. /\ TypeOK /\ JudgedOnce /\ JudgedOnce' /\ DenseBugIds
      /\ IsGraded(result[r]) /\ crash[r] = result[r].crash /\ r \notin JudgedRuns
  BY DEF ReportInv, TriageInv, CoreInv, PendingInv, Pending
<1>2. GradedCrash[r] = crash[r] /\ crash[r] # NoCrash
  BY <1>1 DEF GradedCrash, IsGraded
<1>3. manifest[i].bug = i - 1 /\ i - 1 \in Nat /\ Len(manifest) \in Nat
  BY <1>1 DEF DenseBugIds, TypeOK
<1>4. LoggedBug' = [LoggedBug EXCEPT ![r] = i] /\ LoggedBug[r] = 0
  <2>1. i - 1 + 1 = i
    OBVIOUS
  <2>2. QED BY <1>1, <1>3, <2>1, LogAssigns
<1>5. /\ i \in DOMAIN ManifestCauses /\ ManifestCauses[i] = GradedCrash[r]
      /\ ManifestCauses' = ManifestCauses
  BY <1>2 DEF ManifestCauses
<1>6. GradedCrash' = GradedCrash
  BY DEF GradedCrash, IsGraded
<1>7. QED BY <1>2, <1>4, <1>5, <1>6 DEF Ledger!Assign

\* A judge that compares causes correctly names an entry of the crash's cause.
LEMMA HonestDuplicate ==
  ASSUME HonestJudge = TRUE, ReportInv, NEW r \in Runs, pc[r] = "judge", NEW b \in DupIds(r)
  PROVE  \E i \in 1 .. Len(manifest) : manifest[i].bug = b /\ manifest[i].crash = crash[r]
<1>1. SeenManifest(r) = manifest /\ seen[r] = Len(manifest)
  BY SeenIsManifest DEF ReportInv, TriageInv, CoreInv, SeenInv
<1>2. QED BY <1>1 DEF DupIds, SameCause

LEMMA LedgerStep ==
  ASSUME HonestJudge = TRUE
  PROVE  ReportInv /\ [Next]_vars => [Ledger!Next]_(Ledger!ledgerVars)
<1> SUFFICES ASSUME ReportInv, [Next]_vars
             PROVE  [Ledger!Next]_(Ledger!ledgerVars)
  OBVIOUS
<1>0. ReportInv' /\ TriageInv /\ TypeOK
  BY ReportInvStep DEF ReportInv, TriageInv, CoreInv
<1>a. result \in [Runs -> Result]
  BY <1>0 DEF TypeOK
<1>b. result' = result => GradedCrash' = GradedCrash
  BY DEF GradedCrash, IsGraded
<1>1. CASE Launch \/ BuildFails \/ Kill \/ (UNCHANGED vars)
  BY <1>1, <1>b, LedgerStutters DEF Launch, BuildFails, Kill, vars, files
<1>2. CASE Finish
  <2>1. \A r \in Runs : \/ result'[r] = result[r]
                        \/ result[r].status \notin TerminalStatuses /\ ~IsGraded(result'[r])
    BY <1>0, <1>2 DEF Finish, TriageInv, RetryInv, Ungraded, IsGraded
  <2>2. QED BY <1>2, <2>1, UngradedWrites, LedgerStutters DEF Finish
<1>3. ASSUME NEW r \in Runs, KillInResult(r) \/ KillInReport(r)
      PROVE  [Ledger!Next]_(Ledger!ledgerVars)
  <2>1. CASE KillInResult(r)
    <3>1. \A q \in Runs : \/ result'[q] = result[q]
                          \/ result[q].status \notin TerminalStatuses /\ ~IsGraded(result'[q])
      BY <1>0, <1>a, <2>1 DEF KillInResult, Killable, TriageInv, RetryInv, Ungraded, IsGraded
    <3>2. QED BY <2>1, <3>1, UngradedWrites, LedgerStutters DEF KillInResult
  <2>2. CASE KillInReport(r)
    BY <1>b, <2>2, LedgerStutters DEF KillInReport
  <2>3. QED BY <1>3, <2>1, <2>2
<1>4. ASSUME NEW r \in Runs, FindStep(r) \/ GradeFails(r) \/ RunRaises(r)
      PROVE  [Ledger!Next]_(Ledger!ledgerVars)
  <2>1. /\ phase = "up" /\ pc[r] \in {"idle", "find", "grade"}
        /\ UNCHANGED <<manifest, judgeLog>>
    BY <1>4 DEF FindStep, StartFind, FindFails, FindNothing, FindUnchecked, FindSubmits,
       GradeFails, RunRaises, Done, At, LoopFree, UnchangedTriage
  <2>2. result[r].status \notin TerminalStatuses
    BY <1>0, <2>1 DEF TriageInv, RetryInv
  <2>3. \/ result' = result
        \/ \E st, c : result' = [result EXCEPT ![r] = Ungraded(st, c)]
    BY <1>4 DEF FindStep, StartFind, FindFails, FindNothing, FindUnchecked, FindSubmits,
       GradeFails, RunRaises, Done
  <2>4. \A q \in Runs : \/ result'[q] = result[q]
                        \/ result[q].status \notin TerminalStatuses /\ ~IsGraded(result'[q])
    BY <1>a, <2>2, <2>3 DEF Ungraded, IsGraded
  <2>5. QED BY <2>1, <2>4, UngradedWrites, LedgerStutters
<1>5. ASSUME NEW r \in Runs, GradeEnds(r)
      PROVE  Ledger!Grade(r)
  <2>1. /\ phase = "up" /\ pc[r] = "grade" /\ UNCHANGED <<manifest, judgeLog>>
        /\ \E st : result' = [result EXCEPT ![r] = GradedAs(st, crash[r])]
    BY <1>5 DEF GradeEnds, At, LoopFree, UnchangedTriage
  <2>2. crash[r] \in Causes /\ crash[r] # NoCrash
    BY <1>0, <2>1 DEF TriageInv, CoreInv, CrashInv, TypeOK
  <2>3. ~IsGraded(result[r])
    BY <1>0, <2>1 DEF TriageInv, RetryInv, TerminalInv, IsGraded
  <2>4. GradedCrash[r] = NoCrash /\ GradedCrash'[r] = crash[r]
    BY <1>a, <2>1, <2>2, <2>3 DEF GradedCrash, GradedAs, IsGraded
  <2>5. ASSUME NEW q \in Runs, q # r
        PROVE  GradedCrash'[q] = GradedCrash[q]
    BY <1>a, <2>1, <2>5 DEF GradedCrash, IsGraded
  <2>6. GradedCrash' = [q \in Runs |-> GradedCrash'[q]]
    BY DEF GradedCrash
  <2>7. GradedCrash' = [GradedCrash EXCEPT ![r] = crash[r]]
    BY <2>4, <2>5, <2>6, VerdictFunctions
  <2>8. ManifestCauses' = ManifestCauses /\ LoggedBug' = LoggedBug
    BY <2>1 DEF ManifestCauses, LoggedBug, JudgedRuns
  <2>9. QED BY <2>2, <2>4, <2>7, <2>8 DEF Ledger!Grade
<1>6. ASSUME NEW r \in Runs,
             TakeLock(r) \/ JudgeRaises(r) \/ LogNewRaises(r) \/ ReportStep(r)
      PROVE  [Ledger!Next]_(Ledger!ledgerVars)
  <2>1. UNCHANGED <<result, manifest, judgeLog>>
    BY <1>6 DEF TakeLock, JudgeRaises, LogNewRaises, UnchangedRun, ReportStep, StartReport,
       StartReportRaises, EndReport, ReportRaises, EndCompare, UnchangedBatch
  <2>2. QED BY <1>b, <2>1, LedgerStutters
<1>7. ASSUME NEW r \in Runs, JudgeSkips(r) \/ JudgeBetter(r)
      PROVE  Ledger!Assign(r)
  <2>1. PICK b \in DupIds(r), j \in Judgments : Log(r, j, b)
    BY <1>7 DEF JudgeSkips, JudgeBetter, Judgments
  <2>2. pc[r] = "judge" /\ UNCHANGED <<result, manifest>>
    BY <1>7 DEF JudgeSkips, JudgeBetter, At, UnchangedRun
  <2>3. PICK i \in 1 .. Len(manifest) : manifest[i].bug = b /\ manifest[i].crash = crash[r]
    BY <2>2, HonestDuplicate
  <2>4. QED BY <1>0, <2>1, <2>2, <2>3, LogImplementsAssign
<1>8. ASSUME NEW r \in Runs, LogNew(r)
      PROVE  Ledger!Assign(r)
  <2>1. /\ pc[r] = "log" /\ Log(r, "NEW", task[r].bug) /\ UNCHANGED <<result, manifest>>
    BY <1>8 DEF LogNew, UnchangedRun
  <2>2. /\ manifest # <<>> /\ task[r].bug = Len(manifest) - 1
        /\ manifest[Len(manifest)].crash = crash[r]
    BY <2>1 DEF ReportInv, NamedInv
  <2>3. Len(manifest) \in 1 .. Len(manifest)
    BY <1>0, <2>2 DEF TypeOK
  <2>4. manifest[Len(manifest)].bug = task[r].bug
    BY <1>0, <2>2, <2>3 DEF TriageInv, CoreInv, DenseBugIds
  <2>5. QED BY <1>0, <2>1, <2>2, <2>3, <2>4, LogImplementsAssign
<1>9. ASSUME NEW r \in Runs, JudgeNew(r)
      PROVE  Ledger!Register(r)
  <2> DEFINE e == [bug |-> NextBugId(manifest), run |-> r, crash |-> crash[r]]
  <2>1. /\ pc[r] = "judge" /\ manifest' = Append(manifest, e) /\ AnswersNew(r)
        /\ UNCHANGED <<result, judgeLog>>
    BY <1>0, <1>9, SeenIsManifest DEF JudgeNew, At, UnchangedRun, TriageInv
  <2>2. /\ IsGraded(result[r]) /\ crash[r] = result[r].crash /\ r \notin JudgedRuns
        /\ crash[r] \in Causes
    BY <1>0, <2>1 DEF TriageInv, CoreInv, CrashInv, PendingInv, Pending, TypeOK
  <2>3. GradedCrash[r] = crash[r] /\ crash[r] # NoCrash /\ LoggedBug[r] = 0
    BY <2>2 DEF GradedCrash, LoggedBug, IsGraded
  <2>4. e \in Entry /\ e.crash = crash[r]
    <3>1. NextBugId(manifest) = Len(manifest)
      BY <1>0, NextBugIdOfDense DEF TypeOK, TriageInv, CoreInv, DenseBugIds
    <3>2. Len(manifest) \in Nat
      BY <1>0 DEF TypeOK
    <3>3. QED BY <2>2, <3>1, <3>2 DEF Entry
  <2> HIDE DEF e
  <2>5. ManifestCauses' = Append(ManifestCauses, crash[r])
    BY <1>0, <2>1, <2>4, CausesAppended DEF TypeOK
  <2>6. \A i \in 1 .. Len(manifest) : manifest[i].crash # crash[r]
    <3>1. SeenManifest(r) = manifest /\ seen[r] = Len(manifest)
      BY <1>0, <2>1, SeenIsManifest DEF TriageInv, CoreInv, SeenInv
    <3>2. QED BY <2>1, <3>1 DEF AnswersNew, SameCause
  <2>7. GradedCrash[r] \notin Ledger!Range(ManifestCauses)
    BY <2>3, <2>6 DEF ManifestCauses, Ledger!Range
  <2>8. GradedCrash' = GradedCrash /\ LoggedBug' = LoggedBug
    BY <2>1, <1>b DEF LoggedBug, JudgedRuns
  <2>9. QED BY <2>3, <2>5, <2>7, <2>8 DEF Ledger!Register
<1>10. QED
  BY <1>1, <1>2, <1>3, <1>4, <1>5, <1>6, <1>7, <1>8, <1>9
     DEF Next, GradeStep, JudgeStep, Ledger!Next

\* With a judge that compares root causes correctly, the files of a streaming
\* batch implement the triage ledger: no interleaving, kill or resume files a
\* cause twice, judges a crash twice or assigns it to the bug of another cause.
THEOREM FilesImplementLedger ==
  ASSUME HonestJudge = TRUE
  PROVE  Spec => ImplementsTriageLedger
<1>1. ReportInv /\ [Next]_vars => [Ledger!Next]_(Ledger!ledgerVars)
  BY LedgerStep
<1>2. QED BY <1>1, LedgerInit, ReportInvariant, PTL DEF Spec, ImplementsTriageLedger, Ledger!Spec

-----------------------------------------------------------------------------
(* Bug directories                                                         *)

InLedger(b, c) == b + 1 \in DOMAIN manifest /\ manifest[b + 1].crash = c

\* A report task works on the bug of its run's graded crash, and so did the
\* task that wrote each report that is on disk.
OwnBugInv ==
  /\ \A r \in Runs : task[r].at # "none" =>
       IsGraded(result[r]) /\ InLedger(task[r].bug, result[r].crash)
  /\ \A f \in reports \cup versions :
       IsGraded(result[f.run]) /\ InLedger(f.bug, result[f.run].crash)

LEMMA GradedStays ==
  ASSUME ReportInv, [Next]_vars, NEW r \in Runs, IsGraded(result[r])
  PROVE  result'[r] = result[r]
BY TerminalKeptStep DEF ReportInv, TriageInv, TerminalInv, IsGraded

\* The manifest only grows at its end.
LEMMA ManifestGrows ==
  ASSUME ReportInv, [Next]_vars
  PROVE  /\ DOMAIN manifest \subseteq DOMAIN manifest'
         /\ \A i \in DOMAIN manifest : manifest'[i] = manifest[i]
<1>1. manifest \in Seq(Entry)
  BY DEF ReportInv, TriageInv, CoreInv, TypeOK
<1>2. manifest' = manifest \/ \E e : manifest' = Append(manifest, e)
  BY DEF Next, Launch, BuildFails, Finish, Kill, KillInResult, KillInReport, FindStep, StartFind,
     FindFails, FindNothing, FindUnchecked, FindSubmits, GradeStep, GradeFails, GradeEnds,
     RunRaises, Done, UnchangedTriage, JudgeStep, TakeLock, JudgeRaises, JudgeSkips, JudgeBetter,
     JudgeNew, LogNew, LogNewRaises, UnchangedRun, ReportStep, StartReport, StartReportRaises,
     EndReport, ReportRaises, EndCompare, UnchangedBatch, vars, files
<1>3. QED BY <1>1, <1>2

\* A step keeps every file and task about the bug of its run, when its new files
\* are those of a task and its new tasks are about their own bug.
LEMMA OwnBugKept ==
  ASSUME ReportInv, OwnBugInv, [Next]_vars,
         \A r \in Runs : \/ task'[r].at = "none"
                         \/ task[r].at # "none" /\ task'[r].bug = task[r].bug
                         \/ /\ IsGraded(result[r])
                            /\ task'[r].bug + 1 \in DOMAIN manifest'
                            /\ manifest'[task'[r].bug + 1].crash = result[r].crash,
         \A f \in reports' \cup versions' :
           \/ f \in reports \cup versions
           \/ f.run \in Runs /\ task[f.run].at # "none" /\ f.bug = task[f.run].bug
  PROVE  OwnBugInv'
<1>a. \A f \in reports \cup versions : f.run \in Runs
  BY DEF ReportInv, TriageInv, CoreInv, TypeOK, Report
<1>1. ASSUME NEW r \in Runs, task[r].at # "none"
      PROVE  /\ result'[r] = result[r] /\ IsGraded(result[r])
             /\ task[r].bug + 1 \in DOMAIN manifest'
             /\ manifest'[task[r].bug + 1].crash = result[r].crash
  BY <1>1, GradedStays, ManifestGrows DEF OwnBugInv, InLedger
<1>2. ASSUME NEW f \in reports \cup versions
      PROVE  /\ result'[f.run] = result[f.run] /\ IsGraded(result[f.run])
             /\ f.bug + 1 \in DOMAIN manifest'
             /\ manifest'[f.bug + 1].crash = result[f.run].crash
  BY <1>a, GradedStays, ManifestGrows DEF OwnBugInv, InLedger
<1>3. ASSUME NEW r \in Runs, task'[r].at # "none"
      PROVE  /\ IsGraded(result'[r])
             /\ task'[r].bug + 1 \in DOMAIN manifest'
             /\ manifest'[task'[r].bug + 1].crash = result'[r].crash
  BY <1>1, <1>3, GradedStays
<1>4. ASSUME NEW f \in reports' \cup versions'
      PROVE  /\ IsGraded(result'[f.run])
             /\ f.bug + 1 \in DOMAIN manifest'
             /\ manifest'[f.bug + 1].crash = result'[f.run].crash
  BY <1>1, <1>2
<1>5. QED BY <1>3, <1>4 DEF OwnBugInv, InLedger, IsGraded

LEMMA OwnBugStep ==
  ASSUME HonestJudge = TRUE
  PROVE  ReportInv /\ OwnBugInv /\ [Next]_vars => OwnBugInv'
<1> SUFFICES ASSUME ReportInv, OwnBugInv, [Next]_vars
             PROVE  OwnBugInv'
  OBVIOUS
<1>a. task \in [Runs -> Task] /\ TaskInv /\ TypeOK /\ TriageInv
  BY DEF ReportInv, TriageInv, CoreInv, TypeOK
<1>1. CASE Launch \/ BuildFails \/ Kill \/ (UNCHANGED vars) \/ Finish
  <2>1. (\A r \in Runs : task'[r].at = "none") \/ task' = task
    BY <1>1 DEF Launch, BuildFails, Kill, ForgetMemory, NoTask, vars, memory, Finish
  <2>2. reports' = reports /\ versions' = versions
    BY <1>1 DEF Launch, BuildFails, Kill, files, vars, Finish
  <2>3. QED BY <2>1, <2>2, OwnBugKept
<1>2. ASSUME NEW r \in Runs, KillInResult(r) \/ KillInReport(r)
      PROVE  OwnBugInv'
  <2>1. \A q \in Runs : task'[q].at = "none"
    BY <1>2 DEF KillInResult, KillInReport, ForgetMemory, NoTask
  <2>2. \A f \in reports' \cup versions' :
           \/ f \in reports \cup versions
           \/ f.run \in Runs /\ task[f.run].at # "none" /\ f.bug = task[f.run].bug
    BY <1>2 DEF KillInResult, KillInReport, Overwrite
  <2>3. QED BY <2>1, <2>2, OwnBugKept
<1>3. ASSUME NEW r \in Runs,
             FindStep(r) \/ GradeStep(r) \/ TakeLock(r) \/ JudgeRaises(r) \/ JudgeSkips(r)
      PROVE  OwnBugInv'
  <2>1. task' = task /\ reports' = reports /\ versions' = versions
    BY <1>3 DEF FindStep, StartFind, FindFails, FindNothing, FindUnchecked, FindSubmits,
       GradeStep, GradeFails, GradeEnds, RunRaises, Done, UnchangedTriage,
       TakeLock, JudgeRaises, JudgeSkips, UnchangedRun
  <2>2. QED BY <2>1, OwnBugKept
<1>4. ASSUME NEW r \in Runs, JudgeBetter(r)
      PROVE  OwnBugInv'
  <2>1. PICK b \in DupIds(r) : task' = [task EXCEPT ![r] = NewTask("ready", b, TRUE)]
    BY <1>4 DEF JudgeBetter
  <2>2. /\ pc[r] = "judge" /\ UNCHANGED <<reports, versions, result, manifest>>
    BY <1>4 DEF JudgeBetter, At, UnchangedRun
  <2>3. PICK i \in 1 .. Len(manifest) : manifest[i].bug = b /\ manifest[i].crash = crash[r]
    BY <2>2, HonestDuplicate
  <2>4. b + 1 = i /\ i \in DOMAIN manifest
    BY <1>a, <2>3 DEF TypeOK, TriageInv, CoreInv, DenseBugIds
  <2>5. IsGraded(result[r]) /\ crash[r] = result[r].crash
    BY <1>a, <2>2 DEF TriageInv, PendingInv, Pending
  <2>6. task'[r].bug = b /\ \A q \in Runs \ {r} : task'[q] = task[q]
    BY <1>a, <2>1 DEF NewTask
  <2>7. QED BY <2>2, <2>3, <2>4, <2>5, <2>6, OwnBugKept
<1>5. ASSUME NEW r \in Runs, JudgeNew(r)
      PROVE  OwnBugInv'
  <2> DEFINE e == [bug |-> NextBugId(manifest), run |-> r, crash |-> crash[r]]
  <2>1. /\ pc[r] = "judge" /\ UNCHANGED <<reports, versions, result>>
        /\ manifest' = Append(manifest, e)
        /\ task' = [task EXCEPT ![r] = NewTask("named", NextBugId(manifest), FALSE)]
    BY <1>a, <1>5, SeenIsManifest DEF JudgeNew, At, UnchangedRun, TriageInv
  <2>2. NextBugId(manifest) = Len(manifest) /\ Len(manifest) \in Nat
    BY <1>a, NextBugIdOfDense DEF TriageInv, CoreInv, TypeOK, DenseBugIds
  <2>3. e.crash = crash[r]
    OBVIOUS
  <2> HIDE DEF e
  <2>4. Len(manifest) + 1 \in DOMAIN manifest' /\ manifest'[Len(manifest) + 1] = e
    BY <1>a, <2>1, <2>2 DEF TypeOK
  <2>5. IsGraded(result[r]) /\ crash[r] = result[r].crash
    BY <1>a, <2>1 DEF TriageInv, PendingInv, Pending
  <2>6. task'[r].bug = Len(manifest) /\ \A q \in Runs \ {r} : task'[q] = task[q]
    BY <1>a, <2>1, <2>2 DEF NewTask
  <2>7. QED BY <2>1, <2>3, <2>4, <2>5, <2>6, OwnBugKept
<1>6. ASSUME NEW r \in Runs, LogNew(r)
      PROVE  OwnBugInv'
  <2>1. /\ task' = [task EXCEPT ![r].at = "ready"] /\ UNCHANGED <<reports, versions>>
        /\ task[r].at # "none"
    BY <1>6 DEF LogNew, UnchangedRun, ReportInv, NamedInv
  <2>2. task'[r].bug = task[r].bug /\ \A q \in Runs \ {r} : task'[q] = task[q]
    BY <1>a, <2>1 DEF Task
  <2>3. QED BY <2>1, <2>2, OwnBugKept
<1>6a. ASSUME NEW r \in Runs, LogNewRaises(r)
       PROVE  OwnBugInv'
  <2>1. task' = [task EXCEPT ![r] = NoTask] /\ UNCHANGED <<reports, versions>>
    BY <1>6a DEF LogNewRaises, UnchangedRun
  <2>2. task'[r].at = "none" /\ \A q \in Runs \ {r} : task'[q] = task[q]
    BY <1>a, <2>1 DEF NoTask
  <2>3. QED BY <2>1, <2>2, OwnBugKept
<1>7. ASSUME NEW r \in Runs, ReportStep(r)
      PROVE  OwnBugInv'
  <2>1. /\ task[r].at # "none"
        /\ \E at, old : task' = [task EXCEPT ![r].at = at, ![r].old = old]
    <3>1. CASE StartReport(r)
      BY <3>1 DEF StartReport
    <3>2. CASE EndReport(r) \/ EndCompare(r) \/ StartReportRaises(r) \/ ReportRaises(r)
      <4>1. PICK at : task' = [task EXCEPT ![r].at = at] /\ task[r].at # "none"
        BY <3>2 DEF EndReport, EndCompare, StartReportRaises, ReportRaises
      <4>2. task' = [task EXCEPT ![r].at = at, ![r].old = task[r].old]
        BY <1>a, <4>1 DEF Task
      <4>3. QED BY <4>1, <4>2
    <3>3. QED BY <1>7, <3>1, <3>2 DEF ReportStep
  <2>2. task'[r].bug = task[r].bug /\ \A q \in Runs \ {r} : task'[q] = task[q]
    BY <1>a, <2>1 DEF Task
  <2>3. \A f \in reports' \cup versions' :
           \/ f \in reports \cup versions
           \/ f.run \in Runs /\ task[f.run].at # "none" /\ f.bug = task[f.run].bug
    <3>1. CASE StartReport(r) \/ StartReportRaises(r)
      BY <3>1 DEF StartReport, StartReportRaises, Rename, Prior
    <3>2. CASE EndReport(r) \/ ReportRaises(r)
      <4>1. PICK st, text :
              \/ reports' = reports
              \/ reports' = Overwrite(reports, [bug |-> task[r].bug, run |-> r,
                                                status |-> st, text |-> text])
        BY <3>2 DEF EndReport, ReportRaises
      <4>2. \A f \in reports' : f \in reports \/ (f.run = r /\ f.bug = task[r].bug)
        BY <4>1 DEF Overwrite
      <4>3. versions' = versions
        BY <3>2 DEF EndReport, ReportRaises
      <4>4. QED BY <2>1, <4>2, <4>3
    <3>3. CASE EndCompare(r)
      BY <3>3 DEF EndCompare
    <3>4. QED BY <1>7, <3>1, <3>2, <3>3 DEF ReportStep
  <2>4. QED BY <2>1, <2>2, <2>3, OwnBugKept
<1>8. QED
  BY <1>1, <1>2, <1>3, <1>4, <1>5, <1>6, <1>6a, <1>7 DEF Next, JudgeStep

\* With a judge that compares root causes correctly, a bug's directory never
\* holds a report of a crash with another cause.
THEOREM ReportsAreOfTheirBug == Spec => []ReportsOfTheirBug
<1>1. CASE HonestJudge = TRUE
  <2>1. Init => OwnBugInv
    BY DEF Init, NoMemory, NoTask, OwnBugInv
  <2>2. OwnBugInv => ReportsOfTheirBug
    BY DEF OwnBugInv, InLedger, ReportsOfTheirBug
  <2>3. ReportInv /\ OwnBugInv /\ [Next]_vars => OwnBugInv'
    BY <1>1, OwnBugStep
  <2>4. QED BY <2>1, <2>2, <2>3, ReportInvariant, PTL DEF Spec
<1>2. CASE HonestJudge = FALSE
  <2>1. ReportsOfTheirBug
    BY <1>2 DEF ReportsOfTheirBug
  <2>2. QED BY <2>1, PTL
<1>3. QED BY <1>1, <1>2, ConstantsAssumption
=============================================================================
