----------------------------- MODULE BatchLedger -----------------------------
(***************************************************************************)
(* What a results directory of `dnr-pipeline run` promises its reader, who *)
(* sees no process, container or agent: each run's record is filled in at   *)
(* most twice, first with the submission and then with what became of it,   *)
(* and is settled for good; the exit code of a batch is a function of the   *)
(* records, all of them settled.  A batch that is stopped may leave one     *)
(* unsettled record unreadable.  DnrBatch implements it.                    *)
(***************************************************************************)
EXTENDS Integers

CONSTANTS Targets, Runs, Overalls, Passing, NoVerdict

VARIABLES
  batch,  \* of a target: "idle", "running", "exited", "stopped"
  code,   \* its exit code, -1 before
  record  \* of a run, in the directory of its target's last batch

ledgerVars == <<batch, code, record>>

Of(t) == {r \in Runs : r[1] = t}
Blank == [status |-> "none", submission |-> FALSE, verdict |-> NoVerdict]
Unreadable == [status |-> "torn", submission |-> FALSE, verdict |-> NoVerdict]
Settled(r) == record[r].status \notin {"none", "grading", "torn"}

Init ==
  /\ batch = [t \in Targets |-> "idle"]
  /\ code = [t \in Targets |-> -1]
  /\ record = [r \in Runs |-> Blank]

\* The submission is kept before it is judged.
Submit(r) ==
  /\ batch[r[1]] = "running" /\ record[r] = Blank
  /\ record' = [record EXCEPT ![r] = [Blank EXCEPT !.status = "grading", !.submission = TRUE]]
  /\ UNCHANGED <<batch, code>>

NoSubmission(r) ==
  /\ batch[r[1]] = "running" /\ record[r] = Blank
  /\ record' = [record EXCEPT ![r] = [Blank EXCEPT !.status = "no_submission"]]
  /\ UNCHANGED <<batch, code>>

Judge(r) ==
  /\ batch[r[1]] = "running" /\ record[r].status = "grading"
  /\ \E v \in Overalls \cup {NoVerdict} :
       record' = [record EXCEPT ![r].verdict = v,
                                ![r].status = IF v = NoVerdict THEN "ungraded" ELSE "graded"]
  /\ UNCHANGED <<batch, code>>

\* Whatever fails: what the record has is kept.
Fail(r) ==
  /\ batch[r[1]] = "running" /\ ~ Settled(r)
  /\ record' = [record EXCEPT ![r].status = "error"]
  /\ UNCHANGED <<batch, code>>

\* A batch writes to a directory of its own.
Launch(t) ==
  /\ batch[t] \in {"idle", "stopped"}
  /\ batch' = [batch EXCEPT ![t] = "running"]
  /\ record' = [r \in Runs |-> IF r[1] = t THEN Blank ELSE record[r]]
  /\ UNCHANGED code

Refuse(t) ==
  /\ batch[t] = "idle"
  /\ batch' = [batch EXCEPT ![t] = "exited"]
  /\ code' = [code EXCEPT ![t] = 1]
  /\ UNCHANGED record

Passed(r) == record[r].status = "graded" /\ record[r].verdict \in Passing

Exit(t) ==
  /\ batch[t] = "running"
  /\ \A r \in Of(t) : Settled(r)
  /\ batch' = [batch EXCEPT ![t] = "exited"]
  /\ code' = [code EXCEPT ![t] = IF \A r \in Of(t) : Passed(r) THEN 0 ELSE 2]
  /\ UNCHANGED record

\* The record that was being written is lost, what it said before with it.
Stop(t) ==
  /\ batch[t] = "running"
  /\ batch' = [batch EXCEPT ![t] = "stopped"]
  /\ \/ UNCHANGED record
     \/ \E r \in Of(t) : ~Settled(r) /\ record' = [record EXCEPT ![r] = Unreadable]
  /\ UNCHANGED code

Next ==
  \/ \E r \in Runs : Submit(r) \/ NoSubmission(r) \/ Judge(r) \/ Fail(r)
  \/ \E t \in Targets : Launch(t) \/ Refuse(t) \/ Exit(t) \/ Stop(t)

Spec == Init /\ [][Next]_ledgerVars
==============================================================================
