----------------------------- MODULE StreamBatch -----------------------------
(***************************************************************************)
(* A batch of find+grade runs with streaming judge -> report dispatch:     *)
(* _run_all, _run_once, _stream_dispatch and _stream_report of             *)
(* src/harness/cli.py.                                                     *)
(*                                                                         *)
(* One invocation of the program is one asyncio event loop with a          *)
(* coroutine per run and a task per report.  A step of the model is the    *)
(* code between two awaits, split further wherever a kill in the middle    *)
(* would leave a different set of files behind.  Files survive a kill,     *)
(* coroutines do not; `run --resume` starts a new invocation over the same *)
(* directory.  The agents (find, grade, judge, report, compare) are        *)
(* external: each answers in any way the code around it can parse.         *)
(***************************************************************************)
EXTENDS Naturals, Sequences, FiniteSetsExt

CONSTANTS
  N,           \* args.runs
  Causes,      \* root causes a find agent can submit a crash for
  NoCrash,     \* result.crash is None
  Modes,       \* flag combinations an invocation may be given, see ModeType
  JudgeIds,    \* bug ids a judge agent may name
  HonestJudge, \* TRUE: the judge compares root causes correctly
  CodeRaises,  \* TRUE: what no handler near it catches may raise
  MaxStarts    \* bound: invocations over one results directory

Runs  == 0 .. (N - 1)
NoRun == N

\* --parallel, --find-only, --stream, --novelty
ModeType == [parallel : BOOLEAN, findOnly : BOOLEAN, stream : BOOLEAN, novelty : BOOLEAN]

ASSUME ConstantsAssumption ==
  /\ N \in Nat \ {0}
  /\ NoCrash \notin Causes
  /\ Modes \subseteq ModeType
  /\ JudgeIds \subseteq Nat
  /\ HonestJudge \in BOOLEAN
  /\ CodeRaises \in BOOLEAN
  /\ MaxStarts \in Nat

VARIABLES
  phase,     \* the invocation: "new" | "up" | "down" (killed) | "done"
  starts,    \* invocations so far
  mode,      \* flags of the current invocation
  \* files under results_root
  result,    \* run_NNN/result.json
  found,     \* found_bugs.jsonl, the entries the runs appended
  manifest,  \* reports/manifest.jsonl
  judgeLog,  \* reports/judge_log.jsonl
  reports,   \* reports/bug_NN/report.json
  versions,  \* reports/bug_NN/report_vK.json
  canonical, \* reports/bug_NN/canonical.json
  \* memory of the invocation
  pc,        \* where the coroutine of each run is
  crash,     \* its crash
  seen,      \* how much of the manifest it read under the lock
  lock,      \* holder of stream_ctx["lock"], or NoRun
  task       \* the report task dispatched for the run

files  == <<result, found, manifest, judgeLog, reports, versions, canonical>>
memory == <<pc, crash, seen, lock, task>>
vars   == <<phase, starts, mode, files, memory>>

-----------------------------------------------------------------------------
(* Records and helpers                                                     *)

\* "absent": no result.json; "torn": a kill interrupted the write.
Statuses == {"absent", "torn", "agent_failed", "error",
             "no_crash_found", "crash_found", "crash_rejected"}
TerminalStatuses == {"crash_found", "crash_rejected", "no_crash_found"}
Result == [status : Statuses, crash : Causes \cup {NoCrash}, verdict : BOOLEAN]

Absent       == [status |-> "absent", crash |-> NoCrash, verdict |-> FALSE]
Ungraded(st, c) == [status |-> st, crash |-> c, verdict |-> FALSE]
GradedAs(st, c) == [status |-> st, crash |-> c, verdict |-> TRUE]

Claim       == [run : Runs, crash : Causes]
Entry       == [bug : Nat, run : Runs, crash : Causes]
Judgments   == {"NEW", "DUP_BETTER", "DUP_SKIP"}
LogLine     == [run : Runs, judgment : Judgments, bug : Nat]
\* A report file: the bug directory it is in, the run it is from, its status
\* ("torn" after a kill inside the write), and whether its text is non-empty.
ReportStatuses == {"report_submitted", "no_report", "agent_failed", "torn"}
Report      == [bug : Nat, run : Runs, status : ReportStatuses, text : BOOLEAN]
Canonical   == [bug : Nat, run : Runs, winner : {"A", "B"}]

\* A report task: where it is ("failed": it raised, and gather kept the
\* exception), its bug, re_report, and whether old_report_text is a non-empty
\* text.
TaskSteps == {"none", "named", "ready", "running", "compare", "done", "failed"}
Task      == [at : TaskSteps, bug : Nat, better : BOOLEAN, old : BOOLEAN]
NoTask    == [at |-> "none", bug |-> 0, better |-> FALSE, old |-> FALSE]
NewTask(at, b, better) == [at |-> at, bug |-> b, better |-> better, old |-> FALSE]

IsGraded(res) == res.crash # NoCrash /\ res.verdict

\* Mutants: a rejected crash, or a run without one, is retried.
RetryRejected(r) == result[r].status \in {"crash_found", "no_crash_found"}
RetryCrashless(r) == result[r].status \in {"crash_found", "crash_rejected"}

\* _load_run_checkpoint: the run is not done again.
Checkpointed(r) == result[r].status \in TerminalStatuses

\* _judged_runs
JudgedRuns == {judgeLog[i].run : i \in DOMAIN judgeLog}

\* _next_bug_id
NextBugId(entries) ==
  IF entries = <<>> THEN 0 ELSE Max({entries[i].bug : i \in DOMAIN entries}) + 1

\* Overwriting the one file a bug directory has of a kind.
Overwrite(dir, f) == {g \in dir : g.bug # f.bug} \cup {f}

\* A gathered coroutine that has returned: "unjudged" if its dispatch
\* raised, "raised" if _run_once did.
Returned == {"over", "unjudged", "raised"}
Steps    == {"idle", "replay", "find", "grade", "dispatch", "judge", "log"} \cup Returned

\* Between the write of the manifest and that of the judge log there is no
\* await: no other coroutine of the loop runs.
LoopFree == phase = "up" /\ \A r \in Runs : pc[r] # "log"

\* Without --parallel the runs are awaited one after the other.
Scheduled(r) == mode.parallel \/ \A s \in 0 .. (r - 1) : pc[s] \in Returned

-----------------------------------------------------------------------------
(* Invocations                                                             *)

NoMemory ==
  /\ pc    = [r \in Runs |-> "idle"]
  /\ crash = [r \in Runs |-> NoCrash]
  /\ seen  = [r \in Runs |-> 0]
  /\ lock  = NoRun
  /\ task  = [r \in Runs |-> NoTask]

ForgetMemory ==
  /\ pc'    = [r \in Runs |-> "idle"]
  /\ crash' = [r \in Runs |-> NoCrash]
  /\ seen'  = [r \in Runs |-> 0]
  /\ lock'  = NoRun
  /\ task'  = [r \in Runs |-> NoTask]

Init ==
  /\ phase = "new" /\ starts = 0 /\ mode \in Modes
  /\ result = [r \in Runs |-> Absent]
  /\ found = {} /\ manifest = <<>> /\ judgeLog = <<>>
  /\ reports = {} /\ versions = {} /\ canonical = {}
  /\ NoMemory

\* Mutant: every invocation seeds the file anew.
AlwaysReseed == {}

\* A fresh batch seeds found_bugs.jsonl; a resumed one keeps it.
SeededFound == IF phase = "new" THEN {} ELSE found

\* Mutants: graded checkpoints are never replayed, or always.
NeverReplay(r, m) == IF Checkpointed(r) THEN "over" ELSE "idle"
AlwaysReplay(r, m) ==
  IF ~Checkpointed(r) THEN "idle"
  ELSE IF m.stream /\ IsGraded(result[r]) THEN "replay" ELSE "over"

\* What _task(i) makes of a run: the find+grade cycle, the replay of a graded
\* checkpoint that has no line in the judge log, or nothing.
FirstStep(r, m) ==
  IF ~Checkpointed(r) THEN "idle"
  ELSE IF m.stream /\ IsGraded(result[r]) /\ r \notin JudgedRuns THEN "replay"
  ELSE "over"

CanLaunch == phase # "up" /\ starts < MaxStarts

\* `run`, then `run --resume` on the same directory, with any flags.
Launch ==
  /\ CanLaunch
  /\ phase' = "up" /\ starts' = starts + 1
  /\ \E m \in Modes :
       /\ mode' = m
       /\ pc' = [r \in Runs |-> FirstStep(r, m)]
  /\ crash' = [r \in Runs |-> IF Checkpointed(r) THEN result[r].crash ELSE NoCrash]
  /\ found' = SeededFound
  /\ seen' = [r \in Runs |-> 0] /\ lock' = NoRun /\ task' = [r \in Runs |-> NoTask]
  /\ UNCHANGED <<result, manifest, judgeLog, reports, versions, canonical>>

\* The image build fails: nothing is dispatched and nothing is written.
BuildFails ==
  /\ CanLaunch
  /\ phase' = "down" /\ starts' = starts + 1
  /\ ForgetMemory
  /\ UNCHANGED <<mode, files>>

\* All coroutines and report tasks awaited; _cmd_run then writes a result.json
\* for each run whose coroutine raised.
Finish ==
  /\ phase = "up"
  /\ \A r \in Runs : pc[r] \in Returned /\ task[r].at \in {"none", "done", "failed"}
  /\ phase' = "done"
  /\ result' = [r \in Runs |-> IF pc[r] = "raised" THEN Ungraded("error", NoCrash)
                                                  ELSE result[r]]
  /\ UNCHANGED <<starts, mode, found, manifest, judgeLog, reports, versions,
                 canonical, memory>>

\* SIGINT, SIGTERM or SIGKILL.  Bound: the last invocation is not killed.
Killable == phase = "up" /\ starts < MaxStarts

Kill ==
  /\ Killable
  /\ phase' = "down"
  /\ ForgetMemory
  /\ UNCHANGED <<starts, mode, files>>

\* A kill inside json.dump leaves the file torn; appending one short line to a
\* .jsonl is a single write.
KillInResult(r) ==
  /\ Killable
  /\ pc[r] \in {"find", "grade"}
  /\ result' = [result EXCEPT ![r] = Ungraded("torn", NoCrash)]
  /\ phase' = "down"
  /\ ForgetMemory
  /\ UNCHANGED <<starts, mode, found, manifest, judgeLog, reports, versions, canonical>>

KillInReport(r) ==
  /\ Killable
  /\ task[r].at = "running"
  /\ reports' = Overwrite(reports,
       [bug |-> task[r].bug, run |-> r, status |-> "torn", text |-> FALSE])
  /\ phase' = "down"
  /\ ForgetMemory
  /\ UNCHANGED <<starts, mode, result, found, manifest, judgeLog, versions, canonical>>

-----------------------------------------------------------------------------
(* _run_once                                                               *)

At(r, step) == LoopFree /\ pc[r] = step

Goto(r, step) == pc' = [pc EXCEPT ![r] = step]

UnchangedTriage == UNCHANGED <<phase, starts, mode, manifest, judgeLog, reports,
                               versions, canonical, seen, lock, task>>

\* _done: write result.json and return.
Done(r, res) ==
  /\ result' = [result EXCEPT ![r] = res]
  /\ Goto(r, "over")
  /\ UnchangedTriage

StartFind(r) ==
  /\ At(r, "idle") /\ Scheduled(r)
  /\ Goto(r, "find")
  /\ UNCHANGED <<result, found, crash>>
  /\ UnchangedTriage

\* run_find raises, or the agent ends in an error before any submission.
FindFails(r) ==
  /\ At(r, "find")
  /\ Done(r, Ungraded("agent_failed", NoCrash))
  /\ UNCHANGED <<found, crash>>

FindNothing(r) ==
  /\ At(r, "find")
  /\ Done(r, Ungraded("no_crash_found", NoCrash))
  /\ UNCHANGED <<found, crash>>

\* The submission has no <dup_check>: rejected before found_bugs.jsonl.
FindUnchecked(r) ==
  /\ At(r, "find")
  /\ \E c \in Causes : Done(r, Ungraded("agent_failed", c))
  /\ UNCHANGED <<found, crash>>

\* A submission, also one salvaged from an agent that errs after it:
\* announced to the siblings, then graded unless --find-only.
AppendFound(r, c) == IF N > 1 THEN found \cup {[run |-> r, crash |-> c]} ELSE found

FindSubmits(r) ==
  /\ At(r, "find")
  /\ \E c \in Causes :
       /\ found' = AppendFound(r, c)
       /\ crash' = [crash EXCEPT ![r] = c]
       /\ \/ mode.findOnly /\ Done(r, Ungraded("no_crash_found", c))
          \/ ~mode.findOnly /\ Goto(r, "grade") /\ UNCHANGED result /\ UnchangedTriage

GradeFails(r) ==
  /\ At(r, "grade")
  /\ Done(r, Ungraded("agent_failed", crash[r]))
  /\ UNCHANGED <<found, crash>>

GradeEnds(r) ==
  /\ At(r, "grade")
  /\ \E st \in {"crash_found", "crash_rejected"} :
       result' = [result EXCEPT ![r] = GradedAs(st, crash[r])]
  /\ Goto(r, IF mode.stream THEN "dispatch" ELSE "over")
  /\ UNCHANGED <<found, crash>>
  /\ UnchangedTriage

\* An exception that _run_once does not catch (a directory or a file that
\* cannot be written): gather keeps it, the siblings go on.
RunRaises(r) ==
  /\ CodeRaises
  /\ LoopFree /\ pc[r] \in {"idle", "find", "grade"} /\ Scheduled(r)
  /\ Goto(r, "raised")
  /\ UNCHANGED <<result, found, crash>>
  /\ UnchangedTriage

-----------------------------------------------------------------------------
(* _stream_dispatch                                                        *)

UnchangedRun == UNCHANGED <<phase, starts, mode, result, found, reports, versions,
                            canonical, crash>>

\* Mutant: no lock around the judge.
TakeNoLock(r) ==
  /\ LoopFree
  /\ pc[r] \in {"dispatch", "replay"} /\ Scheduled(r)
  /\ seen' = [seen EXCEPT ![r] = Len(manifest)]
  /\ Goto(r, "judge")
  /\ UNCHANGED <<manifest, judgeLog, task, lock>>
  /\ UnchangedRun

\* async with ctx["lock"]: manifest = _read_manifest(...); await run_judge.
\* (asyncio.Lock is FIFO; the model lets any waiter in, which only adds orders.)
TakeLock(r) ==
  /\ LoopFree
  /\ pc[r] \in {"dispatch", "replay"} /\ Scheduled(r)
  /\ lock = NoRun
  /\ lock' = r
  /\ seen' = [seen EXCEPT ![r] = Len(manifest)]
  /\ Goto(r, "judge")
  /\ UNCHANGED <<manifest, judgeLog, task>>
  /\ UnchangedRun

SeenManifest(r) == SubSeq(manifest, 1, seen[r])

\* Mutant: acquire/release by hand, the release skipped by the exception.
JudgeRaisesHoldingLock(r) ==
  /\ At(r, "judge")
  /\ Goto(r, "unjudged")
  /\ UNCHANGED <<manifest, judgeLog, seen, task, lock>>
  /\ UnchangedRun

\* Mutant: a judge that raised is asked again, without an end.
JudgeAskedAgain(r) ==
  /\ At(r, "judge")
  /\ lock' = NoRun
  /\ Goto(r, "dispatch")
  /\ UNCHANGED <<manifest, judgeLog, seen, task>>
  /\ UnchangedRun

\* run_judge raises, or a write of the manifest or of the judge log before
\* anything was written: the lock is released, the caller catches.
JudgeRaises(r) ==
  /\ At(r, "judge")
  /\ lock' = NoRun
  /\ Goto(r, "unjudged")
  /\ UNCHANGED <<manifest, judgeLog, seen, task>>
  /\ UnchangedRun

\* What _parse_judge can return for run r.  An honest judge says NEW exactly
\* when no manifest entry it was shown has the crash's root cause, and names
\* such an entry otherwise.
SameCause(r) ==
  {SeenManifest(r)[i].bug : i \in {k \in 1 .. seen[r] : SeenManifest(r)[k].crash = crash[r]}}
AnswersNew(r) == ~HonestJudge \/ SameCause(r) = {}
DupIds(r)     == IF HonestJudge THEN SameCause(r) ELSE JudgeIds

\* _log_judge
Log(r, judgment, b) ==
  judgeLog' = Append(judgeLog, [run |-> r, judgment |-> judgment, bug |-> b])

JudgeSkips(r) ==
  /\ At(r, "judge")
  /\ \E b \in DupIds(r) : Log(r, "DUP_SKIP", b)
  /\ lock' = NoRun
  /\ Goto(r, "over")
  /\ UNCHANGED <<manifest, seen, task>>
  /\ UnchangedRun

\* The bug id the judge names is used as it is; the report task is created
\* once the lock is released.
JudgeBetter(r) ==
  /\ At(r, "judge")
  /\ \E b \in DupIds(r) :
       /\ Log(r, "DUP_BETTER", b)
       /\ task' = [task EXCEPT ![r] = NewTask("ready", b, TRUE)]
  /\ lock' = NoRun
  /\ Goto(r, "over")
  /\ UNCHANGED <<manifest, seen>>
  /\ UnchangedRun

\* NEW, first write: _append_manifest.
JudgeNew(r) ==
  /\ At(r, "judge") /\ AnswersNew(r)
  /\ LET b == NextBugId(SeenManifest(r)) IN
       /\ manifest' = Append(manifest, [bug |-> b, run |-> r, crash |-> crash[r]])
       /\ task' = [task EXCEPT ![r] = NewTask("named", b, FALSE)]
  /\ Goto(r, "log")
  /\ UNCHANGED <<judgeLog, seen, lock>>
  /\ UnchangedRun

\* NEW, second write: _log_judge; then the lock and the task.
LogNew(r) ==
  /\ phase = "up" /\ pc[r] = "log"
  /\ Log(r, "NEW", task[r].bug)
  /\ task' = [task EXCEPT ![r].at = "ready"]
  /\ lock' = NoRun
  /\ Goto(r, "over")
  /\ UNCHANGED <<manifest, seen>>
  /\ UnchangedRun

\* NEW, the second write raises: the manifest keeps an entry that no line of
\* the judge log and no report task belongs to.
LogNewRaises(r) ==
  /\ CodeRaises
  /\ phase = "up" /\ pc[r] = "log"
  /\ task' = [task EXCEPT ![r] = NoTask]
  /\ lock' = NoRun
  /\ Goto(r, "unjudged")
  /\ UNCHANGED <<manifest, judgeLog, seen>>
  /\ UnchangedRun

-----------------------------------------------------------------------------
(* _stream_report                                                          *)

UnchangedBatch == UNCHANGED <<phase, starts, mode, result, found, manifest,
                              judgeLog, pc, crash, seen, lock>>

\* Mutant: the prior text is read but the file stays where it is.
StartReportInPlace(r) ==
  /\ LoopFree /\ task[r].at = "ready"
  /\ task' = [task EXCEPT ![r].at = "running",
        ![r].old = task[r].better /\ \E f \in reports : f.bug = task[r].bug /\ f.text]
  /\ UNCHANGED <<reports, versions, canonical>>
  /\ UnchangedBatch

\* The report.json that a re-report renames to the next report_vK.json.
Prior(r) == {f \in reports : task[r].better /\ f.bug = task[r].bug}

Rename(prior) == reports' = reports \ prior /\ versions' = versions \cup prior

\* With --novelty no report gets this far at this commit: see StartReportRaises.
StartReport(r) ==
  /\ LoopFree /\ task[r].at = "ready" /\ ~mode.novelty
  /\ Rename(Prior(r))
  /\ task' = [task EXCEPT ![r].at = "running", ![r].old = \E f \in Prior(r) : f.text]
  /\ UNCHANGED canonical
  /\ UnchangedBatch

\* An exception before the agent's try block.  The directory cannot be made or
\* the file not renamed; or, the prior report renamed already, upstream_log
\* raises: always with --novelty, as novelty.py does not import re.
StartReportRaises(r) ==
  /\ CodeRaises \/ mode.novelty
  /\ LoopFree /\ task[r].at = "ready"
  /\ \/ CodeRaises /\ UNCHANGED <<reports, versions>>
     \/ Rename(Prior(r))
  /\ task' = [task EXCEPT ![r].at = "failed"]
  /\ UNCHANGED canonical
  /\ UnchangedBatch

\* How run_report ends; it raising counts as an agent failure without text.
ReportOutcomes ==
  {o \in [status : ReportStatuses \ {"torn"}, text : BOOLEAN] :
     /\ o.status = "report_submitted" => o.text
     /\ o.status = "no_report" => ~o.text}

\* Mutant: a failed report agent leaves no report.json.
EndReportOnSuccess(r) ==
  /\ LoopFree /\ task[r].at = "running"
  /\ \E o \in ReportOutcomes :
       /\ reports' = IF o.status = "agent_failed" THEN reports
                     ELSE Overwrite(reports, [bug |-> task[r].bug, run |-> r,
                                              status |-> o.status, text |-> o.text])
       /\ task' = [task EXCEPT ![r].at =
                     IF task[r].better /\ task[r].old /\ o.text THEN "compare" ELSE "done"]
  /\ UNCHANGED <<versions, canonical>>
  /\ UnchangedBatch

\* _write_report_json, then run_compare if there are two texts to compare.
EndReport(r) ==
  /\ LoopFree /\ task[r].at = "running"
  /\ \E o \in ReportOutcomes :
       /\ reports' = Overwrite(reports, [bug |-> task[r].bug, run |-> r,
                                         status |-> o.status, text |-> o.text])
       /\ task' = [task EXCEPT ![r].at =
                     IF task[r].better /\ task[r].old /\ o.text THEN "compare" ELSE "done"]
  /\ UNCHANGED <<versions, canonical>>
  /\ UnchangedBatch

\* _write_report_json raises: opening the file, or inside json.dump.
ReportRaises(r) ==
  /\ CodeRaises
  /\ LoopFree /\ task[r].at = "running"
  /\ \/ UNCHANGED reports
     \/ reports' = Overwrite(reports,
          [bug |-> task[r].bug, run |-> r, status |-> "torn", text |-> FALSE])
  /\ task' = [task EXCEPT ![r].at = "failed"]
  /\ UNCHANGED <<versions, canonical>>
  /\ UnchangedBatch

\* run_compare answers and canonical.json is written, or it raises.
EndCompare(r) ==
  /\ LoopFree /\ task[r].at = "compare"
  /\ \/ \E w \in {"A", "B"} :
          canonical' = Overwrite(canonical, [bug |-> task[r].bug, run |-> r, winner |-> w])
     \/ UNCHANGED canonical
  /\ task' = [task EXCEPT ![r].at = "done"]
  /\ UNCHANGED <<reports, versions>>
  /\ UnchangedBatch

-----------------------------------------------------------------------------
FindStep(r)  == StartFind(r) \/ FindFails(r) \/ FindNothing(r) \/ FindUnchecked(r)
                \/ FindSubmits(r)
GradeStep(r) == GradeFails(r) \/ GradeEnds(r) \/ RunRaises(r)
JudgeStep(r) == TakeLock(r) \/ JudgeRaises(r) \/ JudgeSkips(r) \/ JudgeBetter(r)
                \/ JudgeNew(r) \/ LogNew(r) \/ LogNewRaises(r)
ReportStep(r) == StartReport(r) \/ StartReportRaises(r) \/ EndReport(r)
                 \/ ReportRaises(r) \/ EndCompare(r)

Next ==
  \/ Launch \/ BuildFails \/ Finish \/ Kill
  \/ \E r \in Runs : KillInResult(r) \/ KillInReport(r)
  \/ \E r \in Runs : FindStep(r) \/ GradeStep(r) \/ JudgeStep(r) \/ ReportStep(r)

Spec == Init /\ [][Next]_vars

\* Every agent session ends (turn budget, bounded retries) and asyncio runs
\* every ready coroutine.  Launching and killing are the operator's.
Fairness ==
  /\ WF_vars(Finish)
  /\ \A r \in Runs : WF_vars(FindStep(r)) /\ WF_vars(GradeStep(r))
                    /\ WF_vars(JudgeStep(r)) /\ WF_vars(ReportStep(r))

FairSpec == Spec /\ Fairness

-----------------------------------------------------------------------------
(* Properties                                                              *)

\* The files and the memory hold values of their types.
TypeOK ==
  /\ phase \in {"new", "up", "down", "done"}
  /\ starts \in Nat
  /\ mode \in Modes
  /\ result \in [Runs -> Result]
  /\ found \subseteq Claim
  /\ manifest \in Seq(Entry)
  /\ judgeLog \in Seq(LogLine)
  /\ reports \subseteq Report
  /\ versions \subseteq Report
  /\ canonical \subseteq Canonical
  /\ pc \in [Runs -> Steps]
  /\ crash \in [Runs -> Causes \cup {NoCrash}]
  /\ seen \in [Runs -> Nat]
  /\ lock \in Runs \cup {NoRun}
  /\ task \in [Runs -> Task]

\* _next_bug_id never hands out an id twice, whatever the judges answer, in
\* whatever order they are called and wherever the batch is killed: the
\* manifest lists the bugs 0, 1, 2, ... in order.
DenseBugIds == \A i \in 1 .. Len(manifest) : manifest[i].bug = i - 1

\* "one judge_log line per run, including DUP_SKIPs" (_judged_runs): no kill
\* and no resume gets a run judged to the end twice.
JudgedOnce ==
  \A i, j \in 1 .. Len(judgeLog) : judgeLog[i].run = judgeLog[j].run => i = j

\* The crash a manifest entry was filed for is the graded crash in its run's
\* result.json, also after the batch was resumed.
ManifestMatchesResults ==
  \A i \in 1 .. Len(manifest) :
    LET res == result[manifest[i].run] IN IsGraded(res) /\ res.crash = manifest[i].crash

\* A crash is in found_bugs.jsonl from before its grading starts, and stays
\* there through resumes ("reused, not re-seeded"): siblings always see it.
SiblingsSeeCrash ==
  N > 1 => \A r \in Runs :
    /\ pc[r] = "grade" => [run |-> r, crash |-> crash[r]] \in found
    /\ result[r].status \in TerminalStatuses /\ result[r].crash # NoCrash
         => [run |-> r, crash |-> result[r].crash] \in found

\* A run that reached a terminal status keeps its result.json, whatever
\* happens to the batch afterwards.
TerminalResultKept ==
  [][\A r \in Runs : result[r].status \in TerminalStatuses => result'[r] = result[r]]_vars

\* When an invocation with --stream ends, every graded crash in the directory
\* has been judged, in it or in an earlier one, unless its judge just failed:
\* a kill between result.json and the judge log strands no crash.
EveryGradedCrashJudged ==
  phase = "done" /\ mode.stream =>
    \A r \in Runs : IsGraded(result[r]) => r \in JudgedRuns \/ pc[r] = "unjudged"

\* Some report.json exists for every bug of the manifest.
AllBugsReported ==
  \A i \in 1 .. Len(manifest) : \E f \in reports : f.bug = manifest[i].bug

\* When a batch that no kill interrupted ends, a bug it filed has a report.json
\* unless a report task of that very bug raised outside its handler, or the
\* verdict that filed it could not be logged: failed agents, re-reports that
\* move a report away and the order of the tasks never cost a bug its report.
MissingReportExplained ==
  phase = "done" /\ starts = 1 =>
    \A i \in 1 .. Len(manifest) :
      \/ \E f \in reports : f.bug = manifest[i].bug
      \/ \E r \in Runs : task[r].at = "failed" /\ task[r].bug = manifest[i].bug
      \/ pc[manifest[i].run] = "unjudged"

\* A streaming batch that was killed and resumed to its end has a report.json
\* for every bug.
ResumedBatchReportsAll ==
  phase = "done" /\ mode.stream => AllBugsReported

\* The prior report that canonical.json may declare the winner ("A") is still
\* on disk, from another run than the new one.
CanonicalPriorKept ==
  \A c \in canonical : \E v \in versions : v.bug = c.bug /\ v.text /\ v.run # c.run

\* "a cleaner example of a known bug (in which case it replaces the old
\* version)" (docs/pipeline.md): a submitted report.json never gives way to
\* one for a crash that was judged before its own.
JudgedAt(r) == CHOOSE i \in DOMAIN judgeLog : judgeLog[i].run = r

CleanerExampleStays ==
  [][\A f \in reports, g \in reports' :
       f.bug = g.bug /\ f.status = "report_submitted" => JudgedAt(f.run) <= JudgedAt(g.run)]_vars

\* reports/bug_NN holds reports of bug NN: with a judge that compares root causes
\* correctly, each of its files, earlier versions and torn ones included, is of a
\* crash with the cause the manifest gives for that id, whatever re-reports,
\* kills and resumes came between.
ReportsOfTheirBug ==
  HonestJudge => \A f \in reports \cup versions :
    /\ f.bug + 1 \in DOMAIN manifest
    /\ manifest[f.bug + 1].crash = result[f.run].crash

\* How far a coroutine and its report task are.
StepRank(step) ==
  CASE step = "idle" -> 0 [] step = "find" -> 1 [] step = "grade" -> 2
    [] step \in {"dispatch", "replay"} -> 3 [] step = "judge" -> 4
    [] step = "log" -> 5 [] OTHER -> 6
TaskRank(at) ==
  CASE at \in {"none", "named"} -> 0 [] at = "ready" -> 1
    [] at = "running" -> 2 [] at = "compare" -> 3 [] OTHER -> 4
Way(r) == StepRank(pc[r]) + TaskRank(task[r].at)

\* Within an invocation every step takes one run further and no run back: no
\* failure has an agent or a report started over, so an invocation has at most
\* ten steps per run.
InvocationAdvances ==
  [][phase = "up" /\ phase' = "up" =>
       \E r \in Runs : /\ Way(r)' > Way(r)
                       /\ \A q \in Runs \ {r} : Way(q)' = Way(q)]_vars

\* An invocation that is not killed ends: no agent failure, judge exception or
\* order of arrivals leaves a coroutine waiting for the lock or a report task
\* unawaited.
InvocationEnds == (phase = "up") ~> (phase # "up")
=============================================================================
