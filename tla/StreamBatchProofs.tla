-------------------------- MODULE StreamBatchProofs --------------------------
(* Proofs about StreamBatch, for every number of runs, set of root causes,  *)
(* set of modes, judge and number of invocations.                           *)
EXTENDS StreamBatch, SequenceTheorems, TLAPS

-----------------------------------------------------------------------------
(* Lemmas about the operators                                              *)

LEMMA MaxOfInitialSegment ==
  ASSUME NEW n \in Nat \ {0}
  PROVE  Max(0 .. (n - 1)) = n - 1
<1>1. n - 1 \in 0 .. (n - 1) /\ \A y \in 0 .. (n - 1) : n - 1 >= y
  OBVIOUS
<1>2. ASSUME NEW x \in 0 .. (n - 1), \A y \in 0 .. (n - 1) : x >= y
      PROVE  x = n - 1
  BY <1>1, <1>2
<1>3. QED BY <1>1, <1>2 DEF Max

\* On a manifest that lists the bugs 0, 1, 2, ... the next id is its length.
LEMMA NextBugIdOfDense ==
  ASSUME NEW es \in Seq(Entry), \A i \in 1 .. Len(es) : es[i].bug = i - 1
  PROVE  NextBugId(es) = Len(es)
<1>1. CASE es = <<>>
  BY <1>1 DEF NextBugId
<1>2. CASE es # <<>>
  <2> DEFINE B == {es[i].bug : i \in DOMAIN es}
  <2>1. Len(es) \in Nat \ {0} /\ DOMAIN es = 1 .. Len(es)
    BY <1>2
  <2>2. B = 0 .. (Len(es) - 1)
    <3>1. \A i \in 1 .. Len(es) : es[i].bug \in 0 .. (Len(es) - 1)
      BY <2>1
    <3>2. \A b \in 0 .. (Len(es) - 1) : b + 1 \in 1 .. Len(es) /\ es[b + 1].bug = b
      BY <2>1
    <3>3. QED BY <2>1, <3>1, <3>2
  <2>3. Max(B) = Len(es) - 1
    BY <2>1, <2>2, MaxOfInitialSegment
  <2>4. QED BY <1>2, <2>1, <2>3 DEF NextBugId
<1>3. QED BY <1>1, <1>2

\* Replacing the file of a bug directory keeps a set of files well typed.
LEMMA OverwriteType ==
  ASSUME NEW S, NEW dir \in SUBSET S, NEW f \in S
  PROVE  Overwrite(dir, f) \subseteq S
BY DEF Overwrite

-----------------------------------------------------------------------------
(* Types, the lock and the bug ids                                         *)

\* A run that is being judged holds the lock, and nothing has been appended to
\* the manifest since it read it.
LockInv == \A r \in Runs : pc[r] \in {"judge", "log"} => lock = r
SeenInv == \A r \in Runs : pc[r] = "judge" => seen[r] = Len(manifest)

\* From its submission to its verdict a run has a crash.
CrashInv == \A r \in Runs :
  pc[r] \in {"grade", "dispatch", "replay", "judge", "log"} => crash[r] # NoCrash

CoreInv == TypeOK /\ LockInv /\ SeenInv /\ CrashInv /\ DenseBugIds

LEMMA CoreInit == Init => CoreInv
<1> SUFFICES ASSUME Init PROVE CoreInv
  OBVIOUS
<1>1. TypeOK
  BY ConstantsAssumption DEF Init, NoMemory, TypeOK, Result, Absent, Statuses, Runs, NoRun,
     Steps, Returned, Task, NoTask, TaskSteps
<1>2. LockInv /\ SeenInv /\ CrashInv /\ DenseBugIds
  BY DEF Init, NoMemory, LockInv, SeenInv, CrashInv, DenseBugIds
<1>3. QED BY <1>1, <1>2 DEF CoreInv

\* Under the lock, what the run read is still the whole manifest.
LEMMA SeenIsManifest ==
  ASSUME CoreInv, NEW r \in Runs, pc[r] = "judge"
  PROVE  SeenManifest(r) = manifest
BY SubSeqFull DEF CoreInv, TypeOK, SeenInv, SeenManifest

LEMMA DupIdsAreNat ==
  ASSUME CoreInv, NEW r \in Runs, pc[r] = "judge"
  PROVE  DupIds(r) \subseteq Nat
<1>1. SeenManifest(r) = manifest /\ seen[r] = Len(manifest)
  BY SeenIsManifest DEF CoreInv, SeenInv
<1>2. \A i \in 1 .. Len(manifest) : manifest[i] \in Entry
  BY DEF CoreInv, TypeOK
<1>3. \A i \in 1 .. Len(manifest) : manifest[i].bug \in Nat
  BY <1>2 DEF Entry
<1>4. QED BY <1>1, <1>3, ConstantsAssumption DEF DupIds, SameCause

LEMMA ReportOutcomeType ==
  \A o \in ReportOutcomes : o.status \in ReportStatuses /\ o.text \in BOOLEAN
BY DEF ReportStatuses, ReportOutcomes

\* A line for the judge log keeps its type.
LEMMA LogType ==
  ASSUME judgeLog \in Seq(LogLine), NEW r \in Runs, NEW j \in Judgments, NEW b \in Nat,
         Log(r, j, b)
  PROVE  judgeLog' \in Seq(LogLine)
BY DEF Log, LogLine

LEMMA CoreStep == CoreInv /\ [Next]_vars => CoreInv'
<1> SUFFICES ASSUME CoreInv, [Next]_vars
             PROVE  CoreInv'
  OBVIOUS
<1> USE ConstantsAssumption DEF CoreInv, files, memory
<1>1. CASE Launch
  BY <1>1 DEF Launch, TypeOK, LockInv, SeenInv, CrashInv, DenseBugIds, FirstStep, SeededFound, Checkpointed, IsGraded,
     CanLaunch, Steps, Returned, Result, Runs, NoRun, Task, NoTask, TaskSteps, Claim
<1>2. CASE BuildFails
  BY <1>2 DEF BuildFails, ForgetMemory, TypeOK, LockInv, SeenInv, CrashInv, DenseBugIds,
     Steps, Returned, Runs, NoRun, Task, NoTask, TaskSteps, CanLaunch
<1>3. CASE Finish
  BY <1>3 DEF Finish, TypeOK, LockInv, SeenInv, CrashInv, DenseBugIds, Result, Ungraded, Statuses
<1>4. CASE Kill
  BY <1>4 DEF Kill, ForgetMemory, TypeOK, LockInv, SeenInv, CrashInv, DenseBugIds,
     Steps, Returned, Runs, NoRun, Task, NoTask, TaskSteps
<1>5. ASSUME NEW r \in Runs, KillInResult(r)
      PROVE  CoreInv'
  BY <1>5 DEF KillInResult, ForgetMemory, TypeOK, LockInv, SeenInv, CrashInv, DenseBugIds,
     Steps, Returned, Runs, NoRun, Task, NoTask, TaskSteps, Result, Ungraded, Statuses
<1>6. ASSUME NEW r \in Runs, KillInReport(r)
      PROVE  CoreInv'
  <2>1. reports' \subseteq Report
    BY <1>6, OverwriteType DEF KillInReport, TypeOK, Task, Report, ReportStatuses
  <2>2. QED
    BY <1>6, <2>1 DEF KillInReport, ForgetMemory, TypeOK, LockInv, SeenInv, CrashInv,
       DenseBugIds, Steps, Returned, Runs, NoRun, Task, NoTask, TaskSteps
<1>7. ASSUME NEW r \in Runs, FindStep(r)
      PROVE  CoreInv'
  <2> USE DEF TypeOK, LockInv, SeenInv, CrashInv, DenseBugIds, Goto, UnchangedTriage, Done, At,
     Steps, Returned, Result, Ungraded, Statuses
  <2>1. CASE StartFind(r)
    BY <2>1 DEF StartFind
  <2>2. CASE FindFails(r)
    BY <2>2 DEF FindFails
  <2>3. CASE FindNothing(r)
    BY <2>3 DEF FindNothing
  <2>4. CASE FindUnchecked(r)
    BY <2>4 DEF FindUnchecked
  <2>5. CASE FindSubmits(r)
    <3>1. PICK c \in Causes :
            /\ found' = AppendFound(r, c)
            /\ crash' = [crash EXCEPT ![r] = c]
            /\ \/ Done(r, Ungraded("no_crash_found", c))
               \/ Goto(r, "grade") /\ UNCHANGED result /\ UnchangedTriage
      BY <2>5 DEF FindSubmits
    <3>2. found' \subseteq Claim
      BY <3>1 DEF AppendFound, Claim
    <3>3. CASE Done(r, Ungraded("no_crash_found", c))
      BY <2>5, <3>1, <3>2, <3>3
    <3>4. CASE Goto(r, "grade") /\ UNCHANGED result /\ UnchangedTriage
      BY <2>5, <3>1, <3>2, <3>4
    <3>5. QED BY <3>1, <3>3, <3>4
  <2>6. QED BY <1>7, <2>1, <2>2, <2>3, <2>4, <2>5 DEF FindStep
<1>8. ASSUME NEW r \in Runs, GradeStep(r)
      PROVE  CoreInv'
  <2> USE DEF TypeOK, LockInv, SeenInv, CrashInv, DenseBugIds, Goto, UnchangedTriage, Done, At,
     Steps, Returned, Result, Ungraded, GradedAs, Statuses
  <2>1. CASE GradeFails(r)
    BY <2>1 DEF GradeFails
  <2>2. CASE GradeEnds(r)
    BY <2>2 DEF GradeEnds
  <2>3. CASE RunRaises(r)
    BY <2>3 DEF RunRaises
  <2>4. QED BY <1>8, <2>1, <2>2, <2>3 DEF GradeStep
<1>9. ASSUME NEW r \in Runs, JudgeStep(r)
      PROVE  CoreInv'
  <2> USE DEF TypeOK, LockInv, SeenInv, CrashInv, DenseBugIds, Goto, UnchangedRun, At,
     Steps, Returned, NoRun, Runs
  <2>1. CASE TakeLock(r)
    BY <2>1 DEF TakeLock
  <2>2. CASE JudgeRaises(r)
    BY <2>2 DEF JudgeRaises
  <2>3. CASE JudgeSkips(r)
    <3>1. PICK b \in DupIds(r) : Log(r, "DUP_SKIP", b)
      BY <2>3 DEF JudgeSkips
    <3>2. judgeLog' \in Seq(LogLine)
      BY <2>3, <3>1, DupIdsAreNat, LogType DEF JudgeSkips, Judgments
    <3>3. QED BY <2>3, <3>2 DEF JudgeSkips
  <2>4. CASE JudgeBetter(r)
    <3>1. PICK b \in DupIds(r) :
            Log(r, "DUP_BETTER", b) /\ task' = [task EXCEPT ![r] = NewTask("ready", b, TRUE)]
      BY <2>4 DEF JudgeBetter
    <3>2. judgeLog' \in Seq(LogLine)
      BY <2>4, <3>1, DupIdsAreNat, LogType DEF JudgeBetter, Judgments
    <3>3. task' \in [Runs -> Task]
      BY <2>4, <3>1, DupIdsAreNat DEF JudgeBetter, NewTask, Task, TaskSteps
    <3>4. QED BY <2>4, <3>2, <3>3 DEF JudgeBetter
  <2>5. CASE JudgeNew(r)
    <3>1. NextBugId(SeenManifest(r)) = Len(manifest)
      BY <2>5, SeenIsManifest, NextBugIdOfDense DEF JudgeNew
    <3>2. crash[r] \in Causes
      BY <2>5 DEF JudgeNew
    <3>3. manifest' = Append(manifest, [bug |-> Len(manifest), run |-> r, crash |-> crash[r]])
      BY <2>5, <3>1 DEF JudgeNew
    <3>4. manifest' \in Seq(Entry) /\ DenseBugIds'
      BY <3>2, <3>3 DEF Entry
    <3>5. task' \in [Runs -> Task]
      BY <2>5, <3>1 DEF JudgeNew, NewTask, Task, TaskSteps
    <3>6. QED BY <2>5, <3>4, <3>5 DEF JudgeNew
  <2>6. CASE LogNew(r)
    <3>1. judgeLog' \in Seq(LogLine)
      <4>1. task[r] \in Task
        OBVIOUS
      <4>2. task[r].bug \in Nat
        BY <4>1 DEF Task
      <4>3. QED BY <2>6, <4>2, LogType DEF LogNew, Judgments
    <3>2. task' \in [Runs -> Task]
      BY <2>6 DEF LogNew, Task, TaskSteps
    <3>3. QED BY <2>6, <3>1, <3>2 DEF LogNew
  <2>7. CASE LogNewRaises(r)
    <3>1. task' \in [Runs -> Task]
      BY <2>7 DEF LogNewRaises, NoTask, Task, TaskSteps
    <3>2. QED BY <2>7, <3>1 DEF LogNewRaises
  <2>8. QED BY <1>9, <2>1, <2>2, <2>3, <2>4, <2>5, <2>6, <2>7 DEF JudgeStep
<1>10. ASSUME NEW r \in Runs, ReportStep(r)
       PROVE  CoreInv'
  <2> USE DEF TypeOK, LockInv, SeenInv, CrashInv, DenseBugIds, UnchangedBatch
  <2>0. task[r] \in Task /\ task[r].bug \in Nat
    BY DEF Task
  <2>1. CASE StartReport(r)
    <3>1. reports' \subseteq Report /\ versions' \subseteq Report
      BY <2>1 DEF StartReport, Rename, Prior
    <3>2. task' \in [Runs -> Task]
      <4>1. \E o \in BOOLEAN :
              task' = [task EXCEPT ![r] = [task[r] EXCEPT !.at = "running", !.old = o]]
        BY <2>0, <2>1 DEF StartReport
      <4>2. \A o \in BOOLEAN : [task[r] EXCEPT !.at = "running", !.old = o] \in Task
        BY <2>0 DEF Task, TaskSteps
      <4>3. QED BY <4>1, <4>2
    <3>3. QED BY <2>1, <3>1, <3>2 DEF StartReport
  <2>2. CASE EndReport(r)
    <3>1. reports' \subseteq Report
      <4>1. PICK o \in ReportOutcomes :
              reports' = Overwrite(reports, [bug |-> task[r].bug, run |-> r,
                                             status |-> o.status, text |-> o.text])
        BY <2>2 DEF EndReport
      <4>2. [bug |-> task[r].bug, run |-> r, status |-> o.status, text |-> o.text] \in Report
        BY <2>0, ReportOutcomeType DEF Report
      <4>3. QED BY <4>1, <4>2, OverwriteType
    <3>2. task' \in [Runs -> Task]
      <4>1. \E a \in {"compare", "done"} :
              task' = [task EXCEPT ![r] = [task[r] EXCEPT !.at = a]]
        BY <2>0, <2>2 DEF EndReport
      <4>2. \A a \in {"compare", "done"} : [task[r] EXCEPT !.at = a] \in Task
        BY <2>0 DEF Task, TaskSteps
      <4>3. QED BY <4>1, <4>2
    <3>3. QED BY <2>2, <3>1, <3>2 DEF EndReport
  <2>3. CASE EndCompare(r)
    <3>1. canonical' \subseteq Canonical
      <4>1. \A w \in {"A", "B"} : [bug |-> task[r].bug, run |-> r, winner |-> w] \in Canonical
        BY <2>0 DEF Canonical
      <4>2. QED BY <2>3, <4>1, OverwriteType DEF EndCompare
    <3>2. task' \in [Runs -> Task]
      BY <2>3 DEF EndCompare, Task, TaskSteps
    <3>3. QED BY <2>3, <3>1, <3>2 DEF EndCompare
  <2>4. CASE StartReportRaises(r)
    <3>1. reports' \subseteq Report /\ versions' \subseteq Report
      BY <2>4 DEF StartReportRaises, Rename, Prior
    <3>2. task' \in [Runs -> Task]
      BY <2>4 DEF StartReportRaises, Task, TaskSteps
    <3>3. QED BY <2>4, <3>1, <3>2 DEF StartReportRaises
  <2>5. CASE ReportRaises(r)
    <3>1. reports' \subseteq Report
      <4>1. [bug |-> task[r].bug, run |-> r, status |-> "torn", text |-> FALSE] \in Report
        BY <2>0 DEF Report, ReportStatuses
      <4>2. QED BY <2>5, <4>1, OverwriteType DEF ReportRaises
    <3>2. task' \in [Runs -> Task]
      BY <2>5 DEF ReportRaises, Task, TaskSteps
    <3>3. QED BY <2>5, <3>1, <3>2 DEF ReportRaises
  <2>6. QED BY <1>10, <2>1, <2>2, <2>3, <2>4, <2>5 DEF ReportStep
<1>11. CASE UNCHANGED vars
  BY <1>11 DEF vars, TypeOK, LockInv, SeenInv, CrashInv, DenseBugIds
<1>12. QED
  BY <1>1, <1>2, <1>3, <1>4, <1>5, <1>6, <1>7, <1>8, <1>9, <1>10, <1>11 DEF Next

\* The files and the memory stay well typed.
THEOREM TypeCorrect == Spec => []TypeOK
<1>1. CoreInv => TypeOK
  BY DEF CoreInv
<1>2. QED BY <1>1, CoreInit, CoreStep, PTL DEF Spec

\* Bug ids are dense, hence distinct, whatever judges, kills and resumes do.
THEOREM BugIdsDense == Spec => []DenseBugIds
<1>1. CoreInv => DenseBugIds
  BY DEF CoreInv
<1>2. QED BY <1>1, CoreInit, CoreStep, PTL DEF Spec

-----------------------------------------------------------------------------
(* Results, the judge log and the manifest                                 *)

\* Only terminal results carry a verdict.
TerminalInv == \A r \in Runs : result[r].verdict => result[r].status \in TerminalStatuses

\* Nothing is on disk before the first invocation.
FreshInv == phase = "new" => \A r \in Runs : result[r].crash = NoCrash

\* A run in its find+grade cycle has no terminal result from before.
RetryInv == \A r \in Runs :
  phase = "up" /\ pc[r] \in {"idle", "find", "grade", "raised"}
    => result[r].status \notin TerminalStatuses

\* A run on its way through the judge belongs to an invocation that is up, has
\* its graded crash on disk and no line in the judge log.
Pending == {"dispatch", "replay", "judge", "log"}
PendingInv == \A r \in Runs : pc[r] \in Pending =>
  phase = "up" /\ IsGraded(result[r]) /\ crash[r] = result[r].crash /\ r \notin JudgedRuns

JudgedInv == \A r \in JudgedRuns : IsGraded(result[r])

\* No graded crash has dropped out of a streaming invocation.
CoveredInv ==
  phase \in {"up", "done"} /\ mode.stream =>
    \A r \in Runs : IsGraded(result[r]) =>
      r \in JudgedRuns \/ pc[r] \in Pending \cup {"unjudged"}

TriageInv ==
  /\ CoreInv
  /\ TerminalInv /\ FreshInv /\ RetryInv /\ PendingInv /\ JudgedInv /\ CoveredInv
  /\ JudgedOnce /\ ManifestMatchesResults /\ SiblingsSeeCrash

\* Logging a verdict adds the run to those judged, and keeps them distinct.
LEMMA LogAddsRun ==
  ASSUME judgeLog \in Seq(LogLine), NEW r \in Runs, NEW j, NEW b, Log(r, j, b)
  PROVE  /\ JudgedRuns' = JudgedRuns \cup {r}
         /\ r \notin JudgedRuns /\ JudgedOnce => JudgedOnce'
<1> DEFINE line == [run |-> r, judgment |-> j, bug |-> b]
<1>1. /\ judgeLog' = Append(judgeLog, line)
      /\ Len(judgeLog) \in Nat /\ DOMAIN judgeLog = 1 .. Len(judgeLog)
  BY DEF Log
<1>2. /\ Len(judgeLog') = Len(judgeLog) + 1
      /\ DOMAIN judgeLog' = 1 .. (Len(judgeLog) + 1)
      /\ \A i \in 1 .. Len(judgeLog) : judgeLog'[i] = judgeLog[i]
      /\ judgeLog'[Len(judgeLog) + 1].run = r
  BY <1>1
<1>3. JudgedRuns' = JudgedRuns \cup {r}
  BY <1>1, <1>2 DEF JudgedRuns
<1>4. ASSUME r \notin JudgedRuns, JudgedOnce
      PROVE  JudgedOnce'
  <2> SUFFICES ASSUME NEW i \in 1 .. Len(judgeLog'), NEW k \in 1 .. Len(judgeLog'),
                      judgeLog'[i].run = judgeLog'[k].run
               PROVE  i = k
    BY DEF JudgedOnce
  <2>1. \A n \in 1 .. Len(judgeLog) : judgeLog[n].run # r
    BY <1>1, <1>4 DEF JudgedRuns
  <2>2. QED BY <1>1, <1>2, <1>4, <2>1 DEF JudgedOnce
<1>5. QED BY <1>3, <1>4

LEMMA TriageInit == Init => TriageInv
<1> SUFFICES ASSUME Init PROVE TriageInv
  OBVIOUS
<1>1. CoreInv
  BY CoreInit
<1>2. JudgedRuns = {}
  BY DEF Init, JudgedRuns
<1>3. TerminalInv /\ FreshInv /\ RetryInv /\ PendingInv /\ JudgedInv /\ CoveredInv
  BY <1>2 DEF Init, NoMemory, TerminalInv, FreshInv, RetryInv, PendingInv, Pending, JudgedInv,
     CoveredInv, Absent, IsGraded
<1>4. JudgedOnce /\ ManifestMatchesResults /\ SiblingsSeeCrash
  BY DEF Init, NoMemory, JudgedOnce, ManifestMatchesResults, SiblingsSeeCrash, Absent,
     TerminalStatuses
<1>5. QED BY <1>1, <1>3, <1>4 DEF TriageInv

LEMMA ManifestRuns ==
  ASSUME TypeOK
  PROVE  \A i \in 1 .. Len(manifest) : manifest[i].run \in Runs
<1>1. \A i \in 1 .. Len(manifest) : manifest[i] \in Entry
  BY DEF TypeOK
<1>2. QED BY <1>1 DEF Entry

LEMMA JudgedRunsAreRuns ==
  ASSUME TypeOK
  PROVE  JudgedRuns \subseteq Runs
<1>1. \A i \in DOMAIN judgeLog : judgeLog[i] \in LogLine
  BY DEF TypeOK
<1>2. QED BY <1>1 DEF JudgedRuns, LogLine

\* A run without a terminal result is neither judged nor in the manifest, so
\* writing its result.json does not contradict either file.
LEMMA ResultWrite ==
  ASSUME TriageInv, NEW r \in Runs, result[r].status \notin TerminalStatuses,
         NEW res \in Result, result' = [result EXCEPT ![r] = res],
         res.verdict => res.status \in TerminalStatuses,
         manifest' = manifest, judgeLog' = judgeLog
  PROVE  TerminalInv' /\ JudgedInv' /\ JudgedOnce' /\ ManifestMatchesResults'
<1>1. TypeOK
  BY DEF TriageInv, CoreInv
<1>2. JudgedRuns' = JudgedRuns
  BY DEF JudgedRuns
<1>3. ~IsGraded(result[r]) /\ r \notin JudgedRuns
  BY DEF TriageInv, TerminalInv, JudgedInv, IsGraded
<1>4. \A q \in Runs \ {r} : result'[q] = result[q]
  BY <1>1 DEF TypeOK
<1>5. \A i \in 1 .. Len(manifest) : manifest[i].run \in Runs \ {r}
  BY <1>1, <1>3, ManifestRuns DEF TriageInv, ManifestMatchesResults
<1>6. JudgedRuns \subseteq Runs
  BY <1>1, JudgedRunsAreRuns
<1>7. TerminalInv'
  BY <1>1, <1>4 DEF TriageInv, TerminalInv, TypeOK
<1>8. JudgedInv'
  BY <1>2, <1>3, <1>4, <1>6 DEF TriageInv, JudgedInv, IsGraded
<1>9. JudgedOnce'
  BY DEF TriageInv, JudgedOnce
<1>10. ManifestMatchesResults'
  BY <1>4, <1>5 DEF TriageInv, ManifestMatchesResults, IsGraded
<1>11. QED BY <1>7, <1>8, <1>9, <1>10

LEMMA TriageStep == TriageInv /\ [Next]_vars => TriageInv'
<1> SUFFICES ASSUME TriageInv, [Next]_vars
             PROVE  TriageInv'
  OBVIOUS
<1> USE ConstantsAssumption DEF TriageInv, files, memory
<1>0. CoreInv' /\ CoreInv /\ TypeOK /\ TypeOK'
  BY CoreStep DEF CoreInv
<1>a. judgeLog' = judgeLog => JudgedRuns' = JudgedRuns
  BY DEF JudgedRuns
<1>1. CASE Launch
  <2>1. JudgedRuns' = JudgedRuns
    BY <1>1, <1>a DEF Launch
  <2>2. TerminalInv' /\ FreshInv' /\ JudgedInv' /\ JudgedOnce' /\ ManifestMatchesResults'
    BY <1>1, <2>1 DEF Launch, TerminalInv, FreshInv, JudgedInv, JudgedOnce,
       ManifestMatchesResults, IsGraded
  <2>3. PICK m \in Modes : mode' = m /\ pc' = [r \in Runs |-> FirstStep(r, m)]
    BY <1>1 DEF Launch
  <2>4. RetryInv' /\ PendingInv' /\ CoveredInv'
    BY <1>1, <2>1, <2>3 DEF Launch, RetryInv, PendingInv, Pending, CoveredInv, FirstStep,
       Checkpointed, TerminalInv, IsGraded
  <2>5. SiblingsSeeCrash'
    BY <1>1, <2>3 DEF Launch, SiblingsSeeCrash, SeededFound, FreshInv, FirstStep
  <2>6. QED BY <1>0, <2>2, <2>4, <2>5
<1>2. CASE BuildFails
  <2>1. JudgedRuns' = JudgedRuns /\ UNCHANGED <<result, found, manifest, judgeLog>>
    BY <1>2, <1>a DEF BuildFails
  <2>2. QED
    BY <1>0, <1>2, <2>1 DEF BuildFails, ForgetMemory, TerminalInv, FreshInv, RetryInv,
       PendingInv, Pending, JudgedInv, CoveredInv, JudgedOnce, ManifestMatchesResults,
       SiblingsSeeCrash, IsGraded
<1>3. CASE Kill
  <2>1. JudgedRuns' = JudgedRuns /\ UNCHANGED <<result, found, manifest, judgeLog>>
    BY <1>3, <1>a DEF Kill
  <2>2. QED
    BY <1>0, <1>3, <2>1 DEF Kill, ForgetMemory, TerminalInv, FreshInv, RetryInv,
       PendingInv, Pending, JudgedInv, CoveredInv, JudgedOnce, ManifestMatchesResults,
       SiblingsSeeCrash, IsGraded
<1>4. ASSUME NEW r \in Runs, KillInResult(r)
      PROVE  TriageInv'
  <2>1. result[r].status \notin TerminalStatuses
    BY <1>4 DEF KillInResult, Killable, RetryInv
  <2>2. TerminalInv' /\ JudgedInv' /\ JudgedOnce' /\ ManifestMatchesResults'
    <3>1. Ungraded("torn", NoCrash) \in Result /\ ~Ungraded("torn", NoCrash).verdict
      BY DEF Result, Ungraded, Statuses
    <3>2. QED BY <1>4, <2>1, <3>1, ResultWrite DEF KillInResult
  <2>3. FreshInv' /\ RetryInv' /\ PendingInv' /\ CoveredInv'
    BY <1>4 DEF KillInResult, ForgetMemory, FreshInv, RetryInv, PendingInv, Pending, CoveredInv
  <2>4. SiblingsSeeCrash'
    BY <1>0, <1>4 DEF KillInResult, ForgetMemory, SiblingsSeeCrash, Ungraded,
       TerminalStatuses, TypeOK
  <2>5. QED BY <1>0, <2>2, <2>3, <2>4
<1>5. ASSUME NEW r \in Runs, KillInReport(r)
      PROVE  TriageInv'
  <2>1. JudgedRuns' = JudgedRuns /\ UNCHANGED <<result, found, manifest, judgeLog>>
    BY <1>5, <1>a DEF KillInReport
  <2>2. QED
    BY <1>0, <1>5, <2>1 DEF KillInReport, ForgetMemory, TerminalInv, FreshInv, RetryInv,
       PendingInv, Pending, JudgedInv, CoveredInv, JudgedOnce, ManifestMatchesResults,
       SiblingsSeeCrash, IsGraded
<1>6. ASSUME NEW r \in Runs, ReportStep(r)
      PROVE  TriageInv'
  <2>1. UnchangedBatch
    BY <1>6 DEF ReportStep, StartReport, StartReportRaises, EndReport, ReportRaises, EndCompare
  <2>2. JudgedRuns' = JudgedRuns
    BY <1>a, <2>1 DEF UnchangedBatch
  <2>3. QED
    BY <1>0, <2>1, <2>2 DEF UnchangedBatch, TerminalInv, FreshInv, RetryInv,
       PendingInv, Pending, JudgedInv, CoveredInv, JudgedOnce, ManifestMatchesResults,
       SiblingsSeeCrash, IsGraded
<1>7. CASE Finish
  <2>1. JudgedRuns' = JudgedRuns /\ UNCHANGED <<found, manifest, judgeLog, pc, crash, mode>>
    BY <1>7, <1>a DEF Finish
  <2>2. \A r \in Runs : pc[r] = "raised" => ~IsGraded(result[r]) /\ r \notin JudgedRuns
    BY <1>7 DEF Finish, RetryInv, TerminalInv, JudgedInv, IsGraded
  <2>3. \A r \in Runs : \/ result'[r] = result[r]
                        \/ pc[r] = "raised" /\ result'[r] = Ungraded("error", NoCrash)
    BY <1>7 DEF Finish
  <2>4. TerminalInv' /\ SiblingsSeeCrash'
    BY <2>1, <2>3 DEF TerminalInv, SiblingsSeeCrash, Ungraded
  <2>5. JudgedInv'
    BY <2>1, <2>2, <2>3, JudgedRunsAreRuns, <1>0 DEF JudgedInv, IsGraded
  <2>6. FreshInv' /\ RetryInv' /\ PendingInv'
    BY <1>7, <2>1 DEF Finish, FreshInv, RetryInv, PendingInv, Pending, Returned
  <2>7. CoveredInv'
    BY <1>7, <2>1, <2>2, <2>3 DEF Finish, CoveredInv, IsGraded, Ungraded
  <2>8. JudgedOnce' /\ ManifestMatchesResults'
    BY <1>0, <2>1, <2>2, <2>3, ManifestRuns DEF JudgedOnce, ManifestMatchesResults, IsGraded
  <2>9. QED BY <1>0, <2>4, <2>5, <2>6, <2>7, <2>8
<1>8. ASSUME NEW r \in Runs, NEW res \in Result, ~res.verdict,
             pc[r] \in {"find", "grade"}, Done(r, res), phase = "up",
             UNCHANGED crash \/ pc[r] = "find",
             \A q \in Runs \ {r} : crash'[q] = crash[q],
             found \subseteq found',
             /\ N > 1 /\ res.status \in TerminalStatuses /\ res.crash # NoCrash
               => [run |-> r, crash |-> res.crash] \in found'
      PROVE  TriageInv'
  <2> USE DEF Done, Goto, UnchangedTriage
  <2>1. result[r].status \notin TerminalStatuses
    BY <1>8 DEF RetryInv
  <2>2. TerminalInv' /\ JudgedInv' /\ JudgedOnce' /\ ManifestMatchesResults'
    BY <1>8, <2>1, ResultWrite
  <2>3. JudgedRuns' = JudgedRuns
    BY <1>8, <1>a
  <2>4. pc' = [pc EXCEPT ![r] = "over"] /\ result' = [result EXCEPT ![r] = res]
    BY <1>8
  <2>5. FreshInv' /\ RetryInv' /\ PendingInv' /\ CoveredInv'
    BY <1>0, <1>8, <2>3, <2>4 DEF FreshInv, RetryInv, PendingInv, Pending, CoveredInv, IsGraded,
       TypeOK
  <2>6. SiblingsSeeCrash'
    BY <1>0, <1>8, <2>4 DEF SiblingsSeeCrash, TypeOK
  <2>7. QED BY <1>0, <2>2, <2>5, <2>6
<1>9. ASSUME NEW r \in Runs, FindStep(r)
      PROVE  TriageInv'
  <2> USE DEF At, LoopFree
  <2>1. CASE StartFind(r)
    <3> USE DEF StartFind, Goto, UnchangedTriage
    <3>1. JudgedRuns' = JudgedRuns
      BY <2>1, <1>a
    <3>2. TerminalInv' /\ FreshInv' /\ JudgedInv' /\ JudgedOnce' /\ ManifestMatchesResults'
      BY <2>1, <3>1 DEF TerminalInv, FreshInv, JudgedInv, JudgedOnce, ManifestMatchesResults,
         IsGraded
    <3>3. RetryInv' /\ PendingInv' /\ CoveredInv' /\ SiblingsSeeCrash'
      BY <1>0, <2>1, <3>1 DEF RetryInv, PendingInv, Pending, CoveredInv, SiblingsSeeCrash,
         IsGraded, TypeOK
    <3>4. QED BY <1>0, <3>2, <3>3
  <2>2. CASE FindFails(r)
    <3>1. Ungraded("agent_failed", NoCrash) \in Result
      BY DEF Ungraded, Result, Statuses
    <3>2. QED BY <1>8, <2>2, <3>1 DEF FindFails, Ungraded, TerminalStatuses
  <2>3. CASE FindNothing(r)
    <3>1. Ungraded("no_crash_found", NoCrash) \in Result
      BY DEF Ungraded, Result, Statuses
    <3>2. QED BY <1>8, <2>3, <3>1 DEF FindNothing, Ungraded
  <2>4. CASE FindUnchecked(r)
    <3>1. PICK c \in Causes : Done(r, Ungraded("agent_failed", c))
      BY <2>4 DEF FindUnchecked
    <3>2. Ungraded("agent_failed", c) \in Result
      BY DEF Ungraded, Result, Statuses
    <3>3. QED BY <1>8, <2>4, <3>1, <3>2 DEF FindUnchecked, Ungraded, TerminalStatuses
  <2>5. CASE FindSubmits(r)
    <3>1. PICK c \in Causes :
            /\ found' = AppendFound(r, c)
            /\ crash' = [crash EXCEPT ![r] = c]
            /\ \/ Done(r, Ungraded("no_crash_found", c))
               \/ Goto(r, "grade") /\ UNCHANGED result /\ UnchangedTriage
      BY <2>5 DEF FindSubmits
    <3>2. found \subseteq found' /\ (N > 1 => [run |-> r, crash |-> c] \in found')
      BY <3>1 DEF AppendFound
    <3>3. CASE Done(r, Ungraded("no_crash_found", c))
      <4>1. Ungraded("no_crash_found", c) \in Result
        BY DEF Ungraded, Result, Statuses
      <4>2. QED BY <1>0, <1>8, <2>5, <3>1, <3>2, <3>3, <4>1 DEF FindSubmits, Ungraded, TypeOK
    <3>4. CASE Goto(r, "grade") /\ UNCHANGED result /\ UnchangedTriage
      <4> USE DEF Goto, UnchangedTriage
      <4>1. JudgedRuns' = JudgedRuns
        BY <3>4, <1>a
      <4>2. TerminalInv' /\ FreshInv' /\ JudgedInv' /\ JudgedOnce' /\ ManifestMatchesResults'
        BY <3>4, <4>1 DEF TerminalInv, FreshInv, JudgedInv, JudgedOnce,
           ManifestMatchesResults, IsGraded
      <4>3. RetryInv' /\ PendingInv' /\ CoveredInv'
        BY <1>0, <2>5, <3>1, <3>4, <4>1 DEF FindSubmits, RetryInv, PendingInv, Pending,
           CoveredInv, IsGraded, TypeOK
      <4>4. SiblingsSeeCrash'
        BY <1>0, <2>5, <3>1, <3>2, <3>4 DEF FindSubmits, SiblingsSeeCrash, TypeOK
      <4>5. QED BY <1>0, <4>2, <4>3, <4>4
    <3>5. QED BY <3>1, <3>3, <3>4
  <2>6. QED BY <1>9, <2>1, <2>2, <2>3, <2>4, <2>5 DEF FindStep
<1>10. ASSUME NEW r \in Runs, GradeStep(r)
       PROVE  TriageInv'
  <2> USE DEF At, LoopFree
  <2>1. CASE GradeFails(r)
    <3>1. Ungraded("agent_failed", crash[r]) \in Result
      BY <1>0 DEF Ungraded, Result, Statuses, TypeOK
    <3>2. QED BY <1>8, <2>1, <3>1 DEF GradeFails, Ungraded, TerminalStatuses
  <2>2. CASE GradeEnds(r)
    <3> USE DEF Goto, UnchangedTriage
    <3>1. PICK st \in {"crash_found", "crash_rejected"} :
            result' = [result EXCEPT ![r] = GradedAs(st, crash[r])]
      BY <2>2 DEF GradeEnds
    <3>2. /\ GradedAs(st, crash[r]) \in Result
          /\ GradedAs(st, crash[r]).status \in TerminalStatuses
          /\ IsGraded(GradedAs(st, crash[r])) /\ GradedAs(st, crash[r]).crash = crash[r]
      BY <1>0, <2>2 DEF GradedAs, Result, Statuses, TerminalStatuses, IsGraded, CoreInv,
         CrashInv, TypeOK, GradeEnds
    <3>3. result[r].status \notin TerminalStatuses
      BY <2>2 DEF GradeEnds, RetryInv
    <3>4. TerminalInv' /\ JudgedInv' /\ JudgedOnce' /\ ManifestMatchesResults'
      BY <2>2, <3>1, <3>2, <3>3, ResultWrite DEF GradeEnds
    <3>5. JudgedRuns' = JudgedRuns /\ r \notin JudgedRuns
      BY <2>2, <1>a, <3>3 DEF GradeEnds, JudgedInv, IsGraded, TerminalInv
    <3>6. /\ result'[r] = GradedAs(st, crash[r])
          /\ \A q \in Runs \ {r} : result'[q] = result[q] /\ pc'[q] = pc[q]
          /\ pc'[r] = IF mode.stream THEN "dispatch" ELSE "over"
          /\ UNCHANGED <<phase, mode, found, crash>>
      BY <1>0, <2>2, <3>1 DEF GradeEnds, TypeOK
    <3> HIDE DEF Goto, UnchangedTriage
    <3>7. FreshInv' /\ RetryInv' /\ PendingInv' /\ CoveredInv'
      BY <1>0, <2>2, <3>2, <3>5, <3>6 DEF GradeEnds, FreshInv, RetryInv, PendingInv, Pending,
         CoveredInv, IsGraded
    <3>8. SiblingsSeeCrash'
      BY <2>2, <3>2, <3>6 DEF GradeEnds, SiblingsSeeCrash
    <3>9. QED BY <1>0, <3>4, <3>7, <3>8
  <2>3. CASE RunRaises(r)
    <3> USE DEF RunRaises, Goto, UnchangedTriage
    <3>1. JudgedRuns' = JudgedRuns
      BY <2>3, <1>a
    <3>2. TerminalInv' /\ FreshInv' /\ JudgedInv' /\ JudgedOnce' /\ ManifestMatchesResults'
      BY <2>3, <3>1 DEF TerminalInv, FreshInv, JudgedInv, JudgedOnce, ManifestMatchesResults,
         IsGraded
    <3>3. RetryInv' /\ PendingInv' /\ CoveredInv' /\ SiblingsSeeCrash'
      BY <1>0, <2>3, <3>1 DEF RetryInv, PendingInv, Pending, CoveredInv, SiblingsSeeCrash,
         IsGraded, TypeOK
    <3>4. QED BY <1>0, <3>2, <3>3
  <2>4. QED BY <1>10, <2>1, <2>2, <2>3 DEF GradeStep
<1>11. ASSUME NEW r \in Runs, NEW step \in Pending \cup {"over", "unjudged"},
              pc[r] \in Pending, Goto(r, step), UnchangedRun,
              \/ JudgedRuns' = JudgedRuns /\ step # "over"
              \/ JudgedRuns' = JudgedRuns \cup {r} /\ step = "over"
       PROVE  /\ TerminalInv' /\ FreshInv' /\ RetryInv' /\ PendingInv' /\ JudgedInv'
              /\ CoveredInv' /\ SiblingsSeeCrash'
  <2> USE DEF UnchangedRun, Goto
  <2>1. \A q \in Runs : pc'[q] = IF q = r THEN step ELSE pc[q]
    BY <1>0, <1>11 DEF TypeOK
  <2>2. UNCHANGED <<phase, mode, result, found, crash>>
    BY <1>11
  <2> HIDE DEF UnchangedRun, Goto
  <2>3. IsGraded(result[r]) /\ crash[r] = result[r].crash /\ r \notin JudgedRuns
    BY <1>11 DEF PendingInv
  <2>4. TerminalInv' /\ FreshInv' /\ RetryInv' /\ SiblingsSeeCrash'
    BY <1>11, <2>1, <2>2 DEF TerminalInv, FreshInv, RetryInv, SiblingsSeeCrash, Pending
  <2>5. PendingInv' /\ JudgedInv' /\ CoveredInv'
    BY <1>11, <2>1, <2>2, <2>3 DEF PendingInv, JudgedInv, CoveredInv, Pending, IsGraded
  <2>6. QED BY <2>4, <2>5
<1>12. ASSUME NEW r \in Runs, JudgeStep(r)
       PROVE  TriageInv'
  <2> USE DEF At, Pending
  <2>0. judgeLog \in Seq(LogLine) /\ (pc[r] \in Pending => r \notin JudgedRuns)
    BY <1>0 DEF TypeOK, PendingInv
  <2>1. CASE TakeLock(r)
    <3>1. JudgedRuns' = JudgedRuns
      BY <2>1, <1>a DEF TakeLock
    <3>2. JudgedOnce' /\ ManifestMatchesResults'
      BY <2>1 DEF TakeLock, UnchangedRun, JudgedOnce, ManifestMatchesResults, IsGraded
    <3>3. QED BY <1>0, <1>11, <2>1, <3>1, <3>2 DEF TakeLock
  <2>2. CASE JudgeRaises(r)
    <3>1. JudgedRuns' = JudgedRuns
      BY <2>2, <1>a DEF JudgeRaises
    <3>2. JudgedOnce' /\ ManifestMatchesResults'
      BY <2>2 DEF JudgeRaises, UnchangedRun, JudgedOnce, ManifestMatchesResults, IsGraded
    <3>3. QED BY <1>0, <1>11, <2>2, <3>1, <3>2 DEF JudgeRaises
  <2>3. CASE JudgeSkips(r)
    <3>1. PICK b \in DupIds(r) : Log(r, "DUP_SKIP", b)
      BY <2>3 DEF JudgeSkips
    <3>2. JudgedRuns' = JudgedRuns \cup {r} /\ JudgedOnce'
      BY <2>0, <2>3, <3>1, LogAddsRun DEF JudgeSkips
    <3>3. ManifestMatchesResults'
      BY <2>3 DEF JudgeSkips, UnchangedRun, ManifestMatchesResults, IsGraded
    <3>4. QED BY <1>0, <1>11, <2>3, <3>2, <3>3 DEF JudgeSkips
  <2>4. CASE JudgeBetter(r)
    <3>1. PICK b \in DupIds(r) : Log(r, "DUP_BETTER", b)
      BY <2>4 DEF JudgeBetter
    <3>2. JudgedRuns' = JudgedRuns \cup {r} /\ JudgedOnce'
      BY <2>0, <2>4, <3>1, LogAddsRun DEF JudgeBetter
    <3>3. ManifestMatchesResults'
      BY <2>4 DEF JudgeBetter, UnchangedRun, ManifestMatchesResults, IsGraded
    <3>4. QED BY <1>0, <1>11, <2>4, <3>2, <3>3 DEF JudgeBetter
  <2>5. CASE JudgeNew(r)
    <3>1. JudgedRuns' = JudgedRuns /\ JudgedOnce'
      BY <2>5, <1>a DEF JudgeNew, JudgedOnce
    <3>2. ManifestMatchesResults'
      <4> DEFINE e == [bug |-> NextBugId(SeenManifest(r)), run |-> r, crash |-> crash[r]]
      <4>1. manifest' = Append(manifest, e) /\ result' = result
        BY <2>5 DEF JudgeNew, UnchangedRun
      <4>2. /\ Len(manifest) \in Nat /\ Len(manifest') = Len(manifest) + 1
            /\ \A i \in 1 .. Len(manifest) : manifest'[i] = manifest[i]
            /\ manifest'[Len(manifest) + 1].run = r
            /\ manifest'[Len(manifest) + 1].crash = crash[r]
        BY <1>0, <4>1 DEF TypeOK
      <4>3. IsGraded(result[r]) /\ crash[r] = result[r].crash
        BY <2>5 DEF JudgeNew, PendingInv
      <4>4. \A i \in 1 .. (Len(manifest) + 1) : i \in 1 .. Len(manifest) \/ i = Len(manifest) + 1
        BY <4>2
      <4> HIDE DEF e
      <4>5. QED BY <4>1, <4>2, <4>3, <4>4 DEF ManifestMatchesResults, IsGraded
    <3>3. QED BY <1>0, <1>11, <2>5, <3>1, <3>2 DEF JudgeNew
  <2>6. CASE LogNew(r)
    <3>1. JudgedRuns' = JudgedRuns \cup {r} /\ JudgedOnce'
      BY <2>0, <2>6, LogAddsRun DEF LogNew
    <3>2. ManifestMatchesResults'
      BY <2>6 DEF LogNew, UnchangedRun, ManifestMatchesResults, IsGraded
    <3>3. QED BY <1>0, <1>11, <2>6, <3>1, <3>2 DEF LogNew
  <2>7. CASE LogNewRaises(r)
    <3>1. JudgedRuns' = JudgedRuns /\ JudgedOnce'
      BY <2>7, <1>a DEF LogNewRaises, JudgedOnce
    <3>2. ManifestMatchesResults'
      BY <2>7 DEF LogNewRaises, UnchangedRun, ManifestMatchesResults, IsGraded
    <3>3. QED BY <1>0, <1>11, <2>7, <3>1, <3>2 DEF LogNewRaises
  <2>8. QED BY <1>12, <2>1, <2>2, <2>3, <2>4, <2>5, <2>6, <2>7 DEF JudgeStep
<1>13. CASE UNCHANGED vars
  <2>1. JudgedRuns' = JudgedRuns
    BY <1>13, <1>a DEF vars
  <2>2. QED
    BY <1>0, <1>13, <2>1 DEF vars, TerminalInv, FreshInv, RetryInv, PendingInv, Pending,
       JudgedInv, CoveredInv, JudgedOnce, ManifestMatchesResults, SiblingsSeeCrash, IsGraded
<1>14. QED
  BY <1>1, <1>2, <1>3, <1>4, <1>5, <1>6, <1>7, <1>9, <1>10, <1>12, <1>13 DEF Next

LEMMA TriageInvariant == Spec => []TriageInv
BY TriageInit, TriageStep, PTL DEF Spec

\* No kill and no resume gets a run judged to the end twice.
THEOREM RunsJudgedOnce == Spec => []JudgedOnce
<1>1. TriageInv => JudgedOnce
  BY DEF TriageInv
<1>2. QED BY <1>1, TriageInvariant, PTL

\* The manifest and the results on disk never contradict each other.
THEOREM ManifestMatches == Spec => []ManifestMatchesResults
<1>1. TriageInv => ManifestMatchesResults
  BY DEF TriageInv
<1>2. QED BY <1>1, TriageInvariant, PTL

\* Siblings see every crash that is being or has been graded.
THEOREM SiblingsInformed == Spec => []SiblingsSeeCrash
<1>1. TriageInv => SiblingsSeeCrash
  BY DEF TriageInv
<1>2. QED BY <1>1, TriageInvariant, PTL

\* A streaming invocation that ends leaves no graded crash unjudged, but for
\* those whose judge raised in it.
THEOREM GradedCrashesJudged == Spec => []EveryGradedCrashJudged
<1>1. TriageInv => EveryGradedCrashJudged
  <2> SUFFICES ASSUME TriageInv, phase = "done", mode.stream, NEW r \in Runs,
                      IsGraded(result[r]), pc[r] \in Pending
               PROVE  FALSE
    BY DEF TriageInv, CoveredInv, EveryGradedCrashJudged
  <2>1. QED BY DEF TriageInv, PendingInv
<1>2. QED BY <1>1, TriageInvariant, PTL

LEMMA TerminalKeptStep ==
  ASSUME TriageInv, [Next]_vars, NEW q \in Runs, result[q].status \in TerminalStatuses
  PROVE  result'[q] = result[q]
<1> USE DEF TriageInv, CoreInv, TypeOK, RetryInv, At, LoopFree, Done, Killable
<1>1. CASE Launch \/ BuildFails \/ Kill \/ (UNCHANGED vars)
  BY <1>1 DEF Launch, BuildFails, Kill, files, vars
<1>2. CASE Finish
  BY <1>2 DEF Finish
<1>3. ASSUME NEW r \in Runs, KillInResult(r) \/ KillInReport(r)
      PROVE  result'[q] = result[q]
  BY <1>3 DEF KillInResult, KillInReport
<1>4. ASSUME NEW r \in Runs, FindStep(r)
      PROVE  result'[q] = result[q]
  BY <1>4 DEF FindStep, StartFind, FindFails, FindNothing, FindUnchecked, FindSubmits
<1>5. ASSUME NEW r \in Runs, GradeStep(r)
      PROVE  result'[q] = result[q]
  BY <1>5 DEF GradeStep, GradeFails, GradeEnds, RunRaises
<1>6. ASSUME NEW r \in Runs, JudgeStep(r) \/ ReportStep(r)
      PROVE  result'[q] = result[q]
  BY <1>6 DEF JudgeStep, TakeLock, JudgeRaises, JudgeSkips, JudgeBetter, JudgeNew, LogNew,
     LogNewRaises, UnchangedRun, ReportStep, StartReport, StartReportRaises, EndReport,
     ReportRaises, EndCompare, UnchangedBatch
<1>7. QED BY <1>1, <1>2, <1>3, <1>4, <1>5, <1>6 DEF Next

\* A terminal result.json is never written again.
THEOREM TerminalResultsKept == Spec => TerminalResultKept
<1>1. TriageInv /\ [Next]_vars
        => [\A r \in Runs : result[r].status \in TerminalStatuses => result'[r] = result[r]]_vars
  BY TerminalKeptStep
<1>2. QED BY <1>1, TriageInvariant, PTL DEF Spec, TerminalResultKept

-----------------------------------------------------------------------------
(* The lock                                                                *)

\* The holder of the lock is at its judge, or between the two writes of a NEW
\* verdict: whatever raised or was killed, nobody waits for a lock that a
\* returned coroutine, or one of a dead invocation, still has.
LockHolderIsJudging == lock # NoRun => phase = "up" /\ pc[lock] \in {"judge", "log"}

\* Whoever leaves the judge, by whatever way, releases the lock.
LEMMA LockHolderStep ==
  TypeOK /\ LockHolderIsJudging /\ [Next]_vars => LockHolderIsJudging'
<1> SUFFICES ASSUME TypeOK, LockHolderIsJudging, [Next]_vars
             PROVE  LockHolderIsJudging'
  OBVIOUS
<1> USE DEF LockHolderIsJudging
<1>a. pc \in [Runs -> Steps] /\ lock \in Runs \cup {NoRun} /\ NoRun \notin Runs
  BY ConstantsAssumption DEF TypeOK, Runs, NoRun
<1>1. CASE Launch \/ BuildFails \/ Kill \/ (UNCHANGED vars)
  BY <1>1 DEF Launch, BuildFails, Kill, ForgetMemory, vars, memory
<1>2. CASE Finish
  BY <1>a, <1>2 DEF Finish, memory, Returned
<1>3. ASSUME NEW r \in Runs, KillInResult(r) \/ KillInReport(r)
      PROVE  LockHolderIsJudging'
  BY <1>3 DEF KillInResult, KillInReport, ForgetMemory
<1>4. ASSUME NEW r \in Runs, FindStep(r) \/ GradeStep(r)
      PROVE  LockHolderIsJudging'
  <2>1. PICK p \in Steps : pc' = [pc EXCEPT ![r] = p]
    BY <1>4 DEF FindStep, StartFind, FindFails, FindNothing, FindUnchecked, FindSubmits,
       GradeStep, GradeFails, GradeEnds, RunRaises, Done, Goto, Steps, Returned
  <2>2. pc[r] \in {"idle", "find", "grade"} /\ UNCHANGED <<phase, lock>>
    BY <1>4 DEF FindStep, StartFind, FindFails, FindNothing, FindUnchecked, FindSubmits,
       GradeStep, GradeFails, GradeEnds, RunRaises, Done, At, UnchangedTriage
  <2>3. QED BY <1>a, <2>1, <2>2
<1>5. ASSUME NEW r \in Runs, TakeLock(r) \/ JudgeNew(r)
      PROVE  LockHolderIsJudging'
  <2>1. PICK p \in {"judge", "log"} : pc' = [pc EXCEPT ![r] = p]
    BY <1>5 DEF TakeLock, JudgeNew, Goto
  <2>2. /\ phase = "up" /\ phase' = phase
        /\ lock' = r \/ (lock' = lock /\ pc[r] = "judge")
    BY <1>5 DEF TakeLock, JudgeNew, At, LoopFree, UnchangedRun
  <2>3. QED BY <1>a, <2>1, <2>2
<1>6. ASSUME NEW r \in Runs, JudgeRaises(r) \/ JudgeSkips(r) \/ JudgeBetter(r) \/ LogNew(r)
                             \/ LogNewRaises(r)
      PROVE  LockHolderIsJudging'
  BY <1>6 DEF JudgeRaises, JudgeSkips, JudgeBetter, LogNew, LogNewRaises
<1>7. ASSUME NEW r \in Runs, ReportStep(r)
      PROVE  LockHolderIsJudging'
  BY <1>7 DEF ReportStep, StartReport, StartReportRaises, EndReport, ReportRaises, EndCompare,
     UnchangedBatch
<1>8. QED BY <1>1, <1>2, <1>3, <1>4, <1>5, <1>6, <1>7 DEF Next, JudgeStep

\* The lock of the judge is never held by a coroutine that is past its verdict.
THEOREM LockIsNeverLeaked == Spec => []LockHolderIsJudging
<1>1. Init => LockHolderIsJudging
  BY DEF Init, NoMemory, LockHolderIsJudging
<1>2. TypeOK /\ TypeOK' /\ LockHolderIsJudging /\ [Next]_vars => LockHolderIsJudging'
  BY LockHolderStep
<1>3. QED BY <1>1, <1>2, TypeCorrect, PTL DEF Spec
=============================================================================
