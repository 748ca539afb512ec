------------------------------- MODULE DnrBatch -------------------------------
(***************************************************************************)
(* `dnr-pipeline run` (dnr_harness/cli.py): a batch of runs on one target,  *)
(* each a hunt agent that leaves an INCIDENTS.json in its container and a   *)
(* grade agent that judges it in another one; and the containers of         *)
(* harness/sandbox.py and harness/docker_ops.py these agents work in.       *)
(*                                                                         *)
(* A batch is one process with one event loop, which only an agent's session *)
(* gives up: between two of them _run_once takes a step for each file it    *)
(* writes. Batches of several targets share a docker daemon. A batch ends by *)
(* itself, on a signal (its handler removes what it finds by name) or by a  *)
(* kill, which may come between two steps or in the middle of one: the file *)
(* that was being written is cut, the docker call that was under way may or *)
(* may not have been carried out. The next batch of the target has a        *)
(* results directory of its own and the same container names. A write that  *)
(* raises (a full disk) is left out.                                        *)
(***************************************************************************)
EXTENDS Integers, FiniteSets, DnrScore

CONSTANTS Targets,  \* each has one batch at a time
          Matched,  \* the targets whose containers a target's name filter finds
          NumRuns,  \* --runs of a target's batch, at least one (_positive_int)
          Drafts,   \* what a hunt agent may write as its submission, and rewrite it to
          Cut,      \* what a file holds that is not written to its end
          Overalls, \* what a grade agent may put into <overall>
          Passing,  \* those whose first word is PASS (_is_pass)
          NoVerdict,\* no <overall>
          MaxStops  \* bound: signals and kills

ASSUME DnrAssumption ==
  /\ Matched \in [Targets -> SUBSET Targets]
  /\ \A t \in Targets : t \in Matched[t]
  /\ NumRuns \in [Targets -> Nat \ {0}]
  /\ Drafts \subseteq Submission
  /\ Cut \notin Submission
  /\ Passing \subseteq Overalls
  /\ NoVerdict \notin Overalls
  /\ MaxStops \in Nat

Runs == UNION {{t} \X (0 .. NumRuns[t] - 1) : t \in Targets}
RunsOf(t) == {r \in Runs : r[1] = t}

\* result.json, of which only the keys that decide something are kept; "none"
\* is no file, "torn" one that was truncated and not written to its end.
Result == [status : {"none", "torn", "error", "no_submission", "grading", "ungraded", "graded"},
           submission : BOOLEAN, \* incidents_file
           verdict : Overalls \cup {NoVerdict}]

NoResult == [status |-> "none", submission |-> FALSE, verdict |-> NoVerdict]
Torn == [status |-> "torn", submission |-> FALSE, verdict |-> NoVerdict]

\* dnr_hunt_<target>_<idx> and dnr_grader_<target>_<idx>.
Container(phase, r) == <<phase, r[1], r[2]>>
Names == {"hunt", "grader"} \X Targets \X Nat

VARIABLES orch,       \* of a target's batch: "idle", "running", "exited", "stopped"
          exit,       \* its exit code, -1 before
          parallel,   \* --parallel
          pc,         \* where _run_once of a run is
          file,       \* INCIDENTS.json of a hunt container: no bytes or a content
          result,     \* the dictionary of a run
          disk,       \* its result.json
          incidents,  \* its INCIDENTS.json: "absent", "cut" or "whole"
          containers, \* those that exist
          leaked,     \* those of them no `with` block will remove
          stops

vars == <<orch, exit, parallel, pc, file, result, disk, incidents, containers, leaked, stops>>
ofBatch == <<orch, exit, parallel, stops>>

Init ==
  /\ orch = [t \in Targets |-> "idle"]
  /\ exit = [t \in Targets |-> -1]
  /\ parallel = [t \in Targets |-> FALSE]
  /\ pc = [r \in Runs |-> "queued"]
  /\ file = [r \in Runs |-> {}]
  /\ result = [r \in Runs |-> NoResult]
  /\ disk = [r \in Runs |-> NoResult]
  /\ incidents = [r \in Runs |-> "absent"]
  /\ containers = {}
  /\ leaked = {}
  /\ stops = 0

-----------------------------------------------------------------------------
\* The containers.

\* docker_ops.run removes what has the name and starts a container.
Starts(c) ==
  /\ containers' = containers \cup {c}
  /\ leaked' = leaked \ {c}

\* It raises: `docker run` failed, or the container is up and is not what was
\* asked for. agent_container has not entered its `try` yet.
StartRaises(c) ==
  \/ containers' = containers \ {c} /\ leaked' = leaked \ {c}
  \/ containers' = containers \cup {c} /\ leaked' = leaked \cup {c}

\* The `finally` of agent_container.
Removes(c) ==
  /\ containers' = containers \ {c}
  /\ leaked' = leaked \ {c}

-----------------------------------------------------------------------------
\* A run.

\* The result is written: _write_result.
Writes(r, res) ==
  /\ result' = [result EXCEPT ![r] = res]
  /\ disk' = [disk EXCEPT ![r] = res]

\* _done() outside of a `with` block: the dictionary is written and returned.
Done(r, res) ==
  /\ pc' = [pc EXCEPT ![r] = "done"]
  /\ Writes(r, res)

\* Mutant: the error replaces what was on disk.
Overwritten(r) == [NoResult EXCEPT !.status = "error"]

\* _guarded: an exception becomes a result that is merged over the one on disk.
Merged(r) == [disk[r] EXCEPT !.status = "error"]
Raised(r) == Done(r, Merged(r))

\* Phases that a run leaves before its batch does anything else.
Busy == {"saved", "submitted", "hunted", "judged"}

\* The event loop of r's batch may run r.
Loop(r) ==
  /\ orch[r[1]] = "running"
  /\ \A q \in RunsOf(r[1]) : q # r => pc[q] \notin Busy

\* Mutant: a run that ended in an error holds up those after it.
InTurnAborting(r) ==
  /\ Loop(r)
  /\ \A q \in RunsOf(r[1]) : q[2] < r[2] => pc[q] = "done" /\ disk[q].status # "error"

\* gather starts the runs in order; without --parallel the one before is done.
InTurn(r) ==
  /\ Loop(r)
  /\ \A q \in RunsOf(r[1]) :
       q[2] < r[2] => IF parallel[r[1]] THEN pc[q] # "queued" ELSE pc[q] = "done"

StartHunt(r) ==
  /\ pc[r] = "queued"
  /\ InTurn(r)
  /\ \/ /\ Starts(Container("hunt", r))
        /\ pc' = [pc EXCEPT ![r] = "hunting"]
        /\ result' = [result EXCEPT ![r].status = "error"]
        /\ UNCHANGED disk
     \/ StartRaises(Container("hunt", r)) /\ Raised(r)
  /\ UNCHANGED <<ofBatch, file, incidents>>

\* A run of a batch that is still there, at a phase.
Working(r, phase) == Loop(r) /\ pc[r] = phase

\* The agent writes its submission, and rewrites it for as long as it runs: to
\* a fuller one, a lesser one, or one that is truncated and not written yet.
Refine(r) ==
  /\ orch[r[1]] = "running" /\ pc[r] = "hunting"
  /\ Container("hunt", r) \in containers
  /\ \E s \in {{}, {Cut}} \cup {{d} : d \in Drafts} : file' = [file EXCEPT ![r] = s]
  /\ UNCHANGED <<ofBatch, pc, result, disk, incidents, containers, leaked>>

\* Its last words: no <incidents_path>; a path that is outside /work, cannot be
\* resolved in the container or resolves outside; or one inside.
Answers == {"untagged", "unusable", "inside"}

\* What the harness can read, cut or not: an error after the tag does not
\* discard it.
Submitted(r, answer) ==
  /\ answer = "inside"
  /\ Container("hunt", r) \in containers
  /\ file[r] # {}

\* A submission is read, the container removed, and its INCIDENTS.json written;
\* without one the result is written, in most cases before the block is left.
HuntEnds(r) ==
  /\ Working(r, "hunting")
  /\ \E error \in BOOLEAN, answer \in Answers :
       IF Submitted(r, answer)
         THEN /\ pc' = [pc EXCEPT ![r] = "saved"]
              /\ incidents' = [incidents EXCEPT ![r] = "whole"]
              /\ Removes(Container("hunt", r))
              /\ UNCHANGED <<result, disk>>
         ELSE /\ pc' = [pc EXCEPT ![r] = "hunted"]
              /\ Writes(r, [result[r] EXCEPT !.status =
                              IF error /\ answer = "untagged" THEN "error" ELSE "no_submission"])
              /\ UNCHANGED <<incidents, containers, leaked>>
  /\ file' = [file EXCEPT ![r] = {}]
  /\ UNCHANGED ofBatch

\* The hunt's fields are persisted before the grade phase.
RecordSubmission(r) ==
  /\ Working(r, "saved")
  /\ Writes(r, [result[r] EXCEPT !.status = "grading", !.submission = TRUE])
  /\ pc' = [pc EXCEPT ![r] = "submitted"]
  /\ UNCHANGED <<ofBatch, file, incidents, containers, leaked>>

\* The grade container gets the submission; writing it there may raise.
StartGrade(r) ==
  /\ Working(r, "submitted")
  /\ \/ /\ Starts(Container("grader", r))
        /\ pc' = [pc EXCEPT ![r] = "grading"]
        /\ UNCHANGED <<result, disk>>
     \/ StartRaises(Container("grader", r)) /\ Raised(r)
     \/ Removes(Container("grader", r)) /\ Raised(r)
  /\ UNCHANGED <<ofBatch, file, incidents>>

\* No verdict: the agent failed, or its answer has no <overall>; the result is
\* written before the block is left. With one it is written after it.
GradeEnds(r) ==
  /\ Working(r, "grading")
  /\ \/ /\ pc' = [pc EXCEPT ![r] = "judged"]
        /\ Writes(r, [result[r] EXCEPT !.status = "ungraded"])
        /\ UNCHANGED <<containers, leaked>>
     \/ /\ \E overall \in Overalls :
             Done(r, [result[r] EXCEPT !.status = "graded", !.verdict = overall])
        /\ Removes(Container("grader", r))
  /\ UNCHANGED <<ofBatch, file, incidents>>

\* A block is left whose run has its result on disk.
Leave(r) ==
  /\ \/ Working(r, "hunted") /\ Removes(Container("hunt", r))
     \/ Working(r, "judged") /\ Removes(Container("grader", r))
  /\ pc' = [pc EXCEPT ![r] = "done"]
  /\ UNCHANGED <<ofBatch, file, result, disk, incidents>>

\* run_agent itself raises: the container goes, _guarded has the rest.
AgentRaises(r) ==
  /\ \/ Working(r, "hunting") /\ Removes(Container("hunt", r))
     \/ Working(r, "grading") /\ Removes(Container("grader", r))
  /\ Raised(r)
  /\ file' = [file EXCEPT ![r] = {}]
  /\ UNCHANGED <<ofBatch, incidents>>

RunStep(r) == \/ StartHunt(r) \/ HuntEnds(r) \/ RecordSubmission(r) \/ StartGrade(r)
              \/ GradeEnds(r) \/ Leave(r) \/ AgentRaises(r)

-----------------------------------------------------------------------------
\* A batch.

\* _cmd_run: an error of usage, configuration or credentials, before any agent.
Refuse(t) ==
  /\ orch[t] = "idle"
  /\ orch' = [orch EXCEPT ![t] = "exited"]
  /\ exit' = [exit EXCEPT ![t] = 1]
  /\ UNCHANGED <<parallel, pc, file, result, disk, incidents, containers, leaked, stops>>

\* Mutant: the results directory of the batch before is used again.
LaunchInPlace(t) ==
  /\ orch[t] \in {"idle", "stopped"}
  /\ orch' = [orch EXCEPT ![t] = "running"]
  /\ \E p \in {FALSE, NumRuns[t] > 1} : parallel' = [parallel EXCEPT ![t] = p]
  /\ pc' = [r \in Runs |-> IF r[1] = t THEN "queued" ELSE pc[r]]
  /\ result' = [r \in Runs |-> IF r[1] = t THEN NoResult ELSE result[r]]
  /\ UNCHANGED <<disk, incidents, exit, file, containers, leaked, stops>>

Launch(t) ==
  /\ orch[t] \in {"idle", "stopped"}
  /\ orch' = [orch EXCEPT ![t] = "running"]
  /\ \E p \in {FALSE, NumRuns[t] > 1} : parallel' = [parallel EXCEPT ![t] = p]
  /\ pc' = [r \in Runs |-> IF r[1] = t THEN "queued" ELSE pc[r]]
  /\ result' = [r \in Runs |-> IF r[1] = t THEN NoResult ELSE result[r]]
  /\ disk' = [r \in Runs |-> IF r[1] = t THEN NoResult ELSE disk[r]]
  /\ incidents' = [r \in Runs |-> IF r[1] = t THEN "absent" ELSE incidents[r]]
  /\ UNCHANGED <<exit, file, containers, leaked, stops>>

\* _batch_status, of the results _guarded returned.
Graded(t) == {r \in RunsOf(t) : result[r].status = "graded"}
Passed(t) == {r \in Graded(t) : result[r].verdict \in Passing}
\* Mutant: every graded run passed.
StatusOfGraded(t) == IF Passed(t) = Graded(t) THEN 0 ELSE 2
BatchStatus(t) == IF Passed(t) = RunsOf(t) THEN 0 ELSE 2

Exit(t) ==
  /\ orch[t] = "running"
  /\ \A r \in RunsOf(t) : pc[r] = "done"
  /\ orch' = [orch EXCEPT ![t] = "exited"]
  /\ exit' = [exit EXCEPT ![t] = BatchStatus(t)]
  /\ UNCHANGED <<parallel, pc, file, result, disk, incidents, containers, leaked, stops>>

\* The containers of the open `with` blocks of a batch.
Open(t) ==
  IF orch[t] # "running" THEN {}
  ELSE {Container("hunt", r) : r \in {q \in RunsOf(t) : pc[q] \in {"hunting", "hunted"}}}
       \cup {Container("grader", r) : r \in {q \in RunsOf(t) : pc[q] \in {"grading", "judged"}}}

\* The container a `docker run` that is under way may still bring up when its
\* caller is gone: one at most, the calls block the event loop.
UnderWay(t) ==
  {Container("hunt", r) : r \in {q \in RunsOf(t) : pc[q] = "queued" /\ InTurn(q)}}
  \cup {Container("grader", r) : r \in {q \in RunsOf(t) : Working(q, "submitted")}}
Late(t) == {{}} \cup {{c} : c \in UnderWay(t)}

\* The container that a `docker rm` of a batch may just have removed: of a block
\* that is left, or of the name that is about to be given to a new one.
Going(t) == {{}} \cup {{c} : c \in UnderWay(t) \cup Open(t)}

\* The next file a run writes may be result.json.
Writing(r) ==
  \/ pc[r] = "queued" /\ InTurn(r)
  \/ \E phase \in {"hunting", "saved", "submitted", "grading"} : Working(r, phase)

\* What a stop leaves of the two files of its runs: all of them as they are, the
\* result.json of one truncated, or its INCIDENTS.json, once the container is
\* removed it was read from.
FilesHit(t) ==
  \/ UNCHANGED <<disk, incidents>>
  \/ /\ \E r \in RunsOf(t) : Writing(r) /\ disk' = [disk EXCEPT ![r] = Torn]
     /\ UNCHANGED incidents
  \/ /\ \E r \in RunsOf(t) :
          /\ Working(r, "hunting") /\ Submitted(r, "inside")
          /\ incidents' = [incidents EXCEPT ![r] = "cut"]
          /\ Container("hunt", r) \notin containers'
     /\ UNCHANGED disk

\* Mutant: the filter without dnr_grader_.
HuntsOfTarget(t) == {c \in containers : c[1] \in {"hunt"} /\ c[2] \in Matched[t]}

\* The name filter of _on_signal, which docker takes for a part of the name.
OfTarget(t) == {c \in containers : c[1] \in {"hunt", "grader"} /\ c[2] \in Matched[t]}

Stop(t) ==
  /\ orch[t] = "running"
  /\ stops < MaxStops
  /\ stops' = stops + 1
  /\ orch' = [orch EXCEPT ![t] = "stopped"]
  /\ file' = [r \in Runs |-> IF r[1] = t THEN {} ELSE file[r]]
  /\ UNCHANGED <<exit, parallel, pc, result>>

\* _on_signal: no `finally` runs, the handler removes by name.
Signal(t) ==
  /\ Stop(t)
  /\ \E late \in Late(t) :
       /\ containers' = (containers \ OfTarget(t)) \cup late
       /\ leaked' = (leaked \ OfTarget(t)) \cup late
  /\ FilesHit(t)

\* The process is gone without its handler.
Kill(t) ==
  /\ Stop(t)
  /\ \E late \in Late(t), gone \in Going(t) :
       /\ containers' = (containers \ gone) \cup late
       /\ leaked' = ((leaked \cup (Open(t) \cap containers)) \ gone) \cup late
  /\ FilesHit(t)

Next ==
  \/ \E r \in Runs : StartHunt(r) \/ Refine(r) \/ HuntEnds(r) \/ RecordSubmission(r)
                       \/ StartGrade(r) \/ GradeEnds(r) \/ Leave(r) \/ AgentRaises(r)
  \/ \E t \in Targets : Refuse(t) \/ Launch(t) \/ Exit(t) \/ Signal(t) \/ Kill(t)

Spec == Init /\ [][Next]_vars

\* The loop of a batch goes on while the process lives and every agent ends (its
\* turns are bounded, and AgentSession shows that a session ends).
BatchStep(t) == Exit(t) \/ \E r \in RunsOf(t) : RunStep(r)

FairSpec == Spec /\ \A t \in Targets : WF_vars(BatchStep(t))

-----------------------------------------------------------------------------

\* Values keep their types; a hunt container has one INCIDENTS.json at most.
TypeOK ==
  /\ orch \in [Targets -> {"idle", "running", "exited", "stopped"}]
  /\ exit \in [Targets -> {-1, 0, 1, 2}]
  /\ parallel \in [Targets -> BOOLEAN]
  /\ pc \in [Runs -> {"queued", "hunting", "hunted", "saved", "submitted", "grading", "judged", "done"}]
  /\ file \in [Runs -> SUBSET (Drafts \cup {Cut})]
  /\ \A r \in Runs : file[r] = {} \/ \E s \in file[r] : file[r] = {s}
  /\ result \in [Runs -> Result]
  /\ disk \in [Runs -> Result]
  /\ incidents \in [Runs -> {"absent", "cut", "whole"}]
  /\ containers \subseteq Names
  /\ leaked \subseteq containers
  /\ stops \in 0..MaxStops

\* However the runs of several batches interleave and whatever fails, is
\* signalled or killed: no container exists that is neither an open phase's nor
\* one that a raising docker_ops.run, a kill, or a `docker run` that outlived its
\* caller left; and each agent at work has the container it was given, unless
\* the name of its target contains that of another one, whose handler then takes
\* it for its own (sandbox.agent_container, dnr _on_signal).
ContainersAccounted ==
  /\ containers \subseteq leaked \cup UNION {Open(t) : t \in Targets}
  /\ \A t \in Targets :
       (\A u \in Targets \ {t} : t \notin Matched[u]) => Open(t) \subseteq containers

\* What is on disk tells what happened, whatever raises and whenever the batch is
\* signalled or killed, in the middle of a write too. result.json names an
\* INCIDENTS.json that is there and whole; one that is there and not named is of a
\* run about to name it or whose batch was stopped, and only a stop leaves a file
\* cut. A verdict is there exactly when the run is graded, and a run is graded or
\* "ungraded" with a submission only. "grading" is what a run says that is being
\* graded or whose batch was stopped then; a batch that ran to its end left
\* neither that nor a missing or torn result.json (_run_once's comment on
\* "grading", _guarded's on what it keeps).
ResultTellsOutcome ==
  \A r \in Runs :
    /\ disk[r].submission => incidents[r] = "whole"
    /\ incidents[r] = "whole" /\ ~disk[r].submission => pc[r] = "saved" \/ orch[r[1]] = "stopped"
    /\ incidents[r] = "cut" \/ disk[r].status = "torn" => orch[r[1]] = "stopped"
    /\ disk[r].verdict # NoVerdict <=> disk[r].status = "graded"
    /\ disk[r].status \in {"grading", "ungraded", "graded"} => disk[r].submission
    /\ disk[r].status = "grading" => pc[r] \in {"submitted", "grading"}
    /\ orch[r[1]] = "exited" /\ exit[r[1]] # 1 => disk[r].status \notin {"none", "torn", "grading"}

\* Exit 0 says that every run of the batch has a graded result on disk that
\* passed, and exit 2 that some run has not (_batch_status).
ExitZeroMeansAllPassed ==
  \A t \in Targets :
    /\ exit[t] = 0 => \A r \in RunsOf(t) : disk[r].status = "graded" /\ disk[r].verdict \in Passing
    /\ exit[t] = 2 => \E r \in RunsOf(t) : ~(disk[r].status = "graded" /\ disk[r].verdict \in Passing)

\* A rewrite of a submission that only adds (Extends: more said in a narrative, a
\* PoC that fired, a further incident of the campaign, something ruled out) keeps
\* a pass and every optional check: no mention of the injection in the narrative
\* of an account takeover turns it into a false positive (grade.py on _login_fp
\* and on splitting the campaign). Of a rewrite that retracts, weakens or is cut
\* nothing is said: it may lose the pass, and the harness salvages the file as it
\* is when the agent fails.
FullerNeverScoresLess ==
  [][\A r \in Runs : \A s \in file[r] \ {Cut} : \A better \in file'[r] \ {Cut} :
       Extends(s, better) =>
         /\ Pass(s) => Pass(better)
         /\ \A c \in DOMAIN Optional(s) : Optional(s)[c] => Optional(better)[c]]_vars

\* Whoever reads result.json and the exit code, and nothing else, sees a ledger:
\* whatever raises and whenever a batch is signalled or killed, a record is settled
\* once and for good, an error keeps the submission that is recorded (_guarded),
\* and the exit code is that of the settled records (_batch_status). A stop may
\* cost one record, the one that was being written, and never a settled one.
Ledger == INSTANCE BatchLedger WITH batch <- orch, code <- exit, record <- disk

ImplementsBatchLedger == Ledger!Spec

\* Every batch that is launched ends.
BatchEnds == \A t \in Targets : orch[t] = "running" ~> orch[t] # "running"
===============================================================================
