---------------------------- MODULE AgentSession ----------------------------
(***************************************************************************)
(* One find session: run_agent of src/harness/agent.py, which starts the   *)
(* agent CLI in a container, reads its stream and resumes it after a       *)
(* failure, and the end of run_find of src/harness/find.py, which takes    *)
(* the submission out of what was read.                                    *)
(*                                                                         *)
(* The CLI and the container are the environment.  The CLI saves every     *)
(* message of a session and `--resume` continues the saved conversation,   *)
(* so a resumed stream only has new messages; its turn limit is per        *)
(* process.  After its result it exits, or stays up for background tasks,  *)
(* whose lines the program does not read.                                  *)
(* A step of the program is the code between two awaits.                   *)
(***************************************************************************)
EXTENDS Naturals, Sequences, FiniteSetsExt

CONSTANTS
  MaxTurns,  \* --max-turns
  MaxResume  \* max_resume_attempts

ASSUME LimitsAssumption == MaxTurns \in Nat \ {0} /\ MaxResume \in Nat

VARIABLES
  \* run_agent and run_find
  at,          \* "spawn" | "stream" | "failed" | "sleep" | "ended" | "returned" | "raised"
  attempt,
  messages,    \* result.messages
  session,     \* result.session_id, 0 for None
  error,       \* result.error, "none" for None
  resumeCount, \* result.resume_count
  crash,       \* the submission run_find returns, 0 for None
  \* the environment
  cli,         \* the CLI process: "none" | "running" | "idle" after its result | "dead"
  current,     \* its session
  turns,       \* turns it has taken
  stdout,      \* lines it wrote that were not read yet
  saved,       \* saved[s]: how many turns the conversation of session s has
  container,   \* "up" | "dead"
  \* history
  starts,      \* CLI processes started
  submitted    \* the last submission in what was read, 0 if none or not usable

program == <<at, attempt, messages, session, error, resumeCount, crash>>
process == <<cli, current, turns, stdout, saved>>
vars    == <<program, process, container, starts, submitted>>

\* A "claim" has the <poc_path> tag of a submission, and no command or no file.
Turn    == {"assistant", "claim", "submission"}
Kinds   == {"init", "success", "error", "error_max_turns"} \cup Turn
\* no: the position of an assistant message in its session's conversation.
Message == [kind : Kinds, session : Nat, no : Nat]
Errors  == {"none", "turn budget", "container died", "gave up"}
Steps   == {"spawn", "stream", "failed", "sleep", "ended", "returned", "raised"}

Line(kind, no) == [kind |-> kind, session |-> current, no |-> no]

Init ==
  /\ at = "spawn" /\ attempt = 0 /\ messages = <<>> /\ session = 0
  /\ error = "none" /\ resumeCount = 0 /\ crash = 0
  /\ cli = "none" /\ current = 0 /\ turns = 0 /\ stdout = <<>> /\ saved = <<>>
  /\ container = "up" /\ starts = 0 /\ submitted = 0

-----------------------------------------------------------------------------
(* The environment                                                         *)

\* The CLI takes a turn; the message is saved and printed.
CliTurn ==
  /\ cli = "running" /\ turns < MaxTurns
  /\ turns' = turns + 1
  /\ saved' = [saved EXCEPT ![current] = @ + 1]
  /\ \E kind \in Turn :
       stdout' = Append(stdout, Line(kind, saved[current] + 1))
  /\ UNCHANGED <<program, cli, current, container, starts, submitted>>

\* It ends its work: with an answer, an API error, or its turn limit.
CliResult ==
  /\ cli = "running"
  /\ \E kind \in {"success", "error", "error_max_turns"} :
       /\ kind = "error_max_turns" => turns = MaxTurns
       /\ kind = "success" => turns > 0
       /\ stdout' = Append(stdout, Line(kind, 0))
  /\ cli' = "idle"
  /\ UNCHANGED <<program, current, turns, saved, container, starts, submitted>>

CliDies ==
  /\ cli \in {"running", "idle"}
  /\ cli' = "dead"
  /\ UNCHANGED <<program, current, turns, stdout, saved, container, starts, submitted>>

\* OOM kill, docker rm: whatever runs inside dies with it.
ContainerDies ==
  /\ container = "up" /\ at \notin {"returned", "raised"}
  /\ container' = "dead"
  /\ cli' = IF cli = "none" THEN cli ELSE "dead"
  /\ UNCHANGED <<program, current, turns, stdout, saved, starts, submitted>>

Environment == CliTurn \/ CliResult \/ CliDies \/ ContainerDies

-----------------------------------------------------------------------------
(* run_agent                                                               *)

\* Mutant: the first retry is taken for a first attempt.
ResumesLate == attempt > 1 /\ session # 0

\* argv ends in --resume <session_id> "continue", or else in the prompt.
Resumes == attempt > 0 /\ session # 0

\* `docker exec <container> claude -p`: in a dead container it exits at once;
\* otherwise the CLI opens with its init message, or dies before it does.
StartCli ==
  /\ at = "spawn"
  /\ at' = "stream" /\ starts' = starts + 1 /\ turns' = 0
  /\ IF Resumes THEN current' = session /\ UNCHANGED saved
                ELSE current' = Len(saved) + 1 /\ saved' = Append(saved, 0)
  /\ \/ /\ container = "up" /\ cli' = "running"
        /\ stdout' = <<[kind |-> "init", session |-> current', no |-> 0]>>
     \/ cli' = "dead" /\ stdout' = <<>>
  /\ UNCHANGED <<attempt, messages, session, error, resumeCount, crash, container, submitted>>

\* create_subprocess_exec itself raises (no file descriptors, no memory).
SpawnRaises ==
  /\ at = "spawn"
  /\ at' = "raised"
  /\ UNCHANGED <<attempt, messages, session, error, resumeCount, crash, process,
                 container, starts, submitted>>

\* proc.terminate(); await proc.wait(): what it still prints is not read.
Terminate == cli' = "none" /\ stdout' = <<>> /\ UNCHANGED <<current, turns, saved>>

\* An exception in the attempt: end the process, count the attempt.
Fail == at' = "failed" /\ attempt' = attempt + 1 /\ UNCHANGED <<session, error>> /\ Terminate

\* Mutant: a successful result does not end the reading.
ReadToTheEnd ==
  /\ at = "stream" /\ stdout # <<>>
  /\ LET m == Head(stdout) IN
       /\ messages' = Append(messages, m)
       /\ submitted' = IF m.kind = "submission" THEN m.no
                       ELSE IF m.kind = "claim" THEN 0 ELSE submitted
       /\ \/ /\ m.kind \in {"init", "success"} \cup Turn
             /\ session' = IF m.kind = "init" /\ session = 0 THEN m.session ELSE session
             /\ stdout' = Tail(stdout)
             /\ UNCHANGED <<at, attempt, error, cli, current, turns, saved>>
          \/ m.kind = "error" /\ Fail
          \/ /\ m.kind = "error_max_turns"
             /\ at' = "ended" /\ error' = "turn budget" /\ Terminate
             /\ UNCHANGED <<attempt, session>>
  /\ UNCHANGED <<resumeCount, crash, container, starts>>

\* Mutant: is_error is looked at before the subtype.
ResumeAfterCap ==
  /\ at = "stream" /\ stdout # <<>>
  /\ LET m == Head(stdout) IN
       /\ messages' = Append(messages, m)
       /\ submitted' = IF m.kind = "submission" THEN m.no
                       ELSE IF m.kind = "claim" THEN 0 ELSE submitted
       /\ \/ /\ m.kind \in {"init"} \cup Turn
             /\ session' = IF m.kind = "init" /\ session = 0 THEN m.session ELSE session
             /\ stdout' = Tail(stdout)
             /\ UNCHANGED <<at, attempt, error, cli, current, turns, saved>>
          \/ m.kind \in {"error", "error_max_turns"} /\ Fail
          \/ /\ m.kind = "success"
             /\ at' = "ended" /\ Terminate
             /\ UNCHANGED <<attempt, session, error>>
  /\ UNCHANGED <<resumeCount, crash, container, starts>>

ReadLine ==
  /\ at = "stream" /\ stdout # <<>>
  /\ LET m == Head(stdout) IN
       /\ messages' = Append(messages, m)
       /\ submitted' = IF m.kind = "submission" THEN m.no
                       ELSE IF m.kind = "claim" THEN 0 ELSE submitted
       /\ \/ /\ m.kind \in {"init"} \cup Turn
             /\ session' = IF m.kind = "init" /\ session = 0 THEN m.session ELSE session
             /\ stdout' = Tail(stdout)
             /\ UNCHANGED <<at, attempt, error, cli, current, turns, saved>>
          \/ m.kind = "error" /\ Fail
          \/ /\ m.kind = "error_max_turns"
             /\ at' = "ended" /\ error' = "turn budget" /\ Terminate
             /\ UNCHANGED <<attempt, session>>
          \/ /\ m.kind = "success"
             /\ at' = "ended" /\ Terminate
             /\ UNCHANGED <<attempt, session, error>>
  /\ UNCHANGED <<resumeCount, crash, container, starts>>

\* The stream ends without a result message.
StreamEnds ==
  /\ at = "stream" /\ stdout = <<>> /\ cli = "dead"
  /\ Fail
  /\ UNCHANGED <<messages, resumeCount, crash, container, starts, submitted>>

UnchangedRead == UNCHANGED <<attempt, messages, session, crash, process, container,
                             starts, submitted>>

\* _container_dead_reason: a dead container is final.
FoundDead ==
  /\ at = "failed" /\ container = "dead"
  /\ at' = "ended" /\ error' = "container died"
  /\ UNCHANGED resumeCount
  /\ UnchangedRead

\* Mutant: one resume too many.
LastAttemptOffByOne == session = 0 \/ attempt > MaxResume + 1

LastAttempt == session = 0 \/ attempt > MaxResume

\* The container is up, or the probe cannot tell (daemon unreachable, timeout).
GiveUp ==
  /\ at = "failed" /\ LastAttempt
  /\ at' = "ended" /\ error' = "gave up"
  /\ UNCHANGED resumeCount
  /\ UnchangedRead

BackOff ==
  /\ at = "failed" /\ ~LastAttempt
  /\ at' = "sleep" /\ resumeCount' = attempt
  /\ UNCHANGED error
  /\ UnchangedRead

\* min(2 ** attempt, 300) seconds later.
Wake ==
  /\ at = "sleep" /\ at' = "spawn"
  /\ UNCHANGED <<error, resumeCount>>
  /\ UnchangedRead

-----------------------------------------------------------------------------
(* run_find                                                                *)

Tagged(ms) == {i \in DOMAIN ms : ms[i].kind \in {"claim", "submission"}}

\* Mutant: the first message with the tag.
FirstTagged(ms) == Min(Tagged(ms) \cup {Len(ms) + 1})

\* find_tagged_message("poc_path"): the most recent message with the tag.
LastTagged(ms) == Max(Tagged(ms) \cup {0})

\* The PoC is read from the container, whatever the session's error; a claim
\* and a dead container give no bytes.  Then the container is removed.
ReadPoc ==
  /\ at = "ended"
  /\ at' = "returned"
  /\ LET i == LastTagged(messages) IN
       crash' = IF /\ i \in DOMAIN messages /\ messages[i].kind = "submission"
                   /\ container = "up"
                THEN messages[i].no ELSE 0
  /\ UNCHANGED <<attempt, messages, session, error, resumeCount, process, container,
                 starts, submitted>>

Program == StartCli \/ SpawnRaises \/ ReadLine \/ StreamEnds \/ FoundDead \/ GiveUp
           \/ BackOff \/ Wake \/ ReadPoc

Next == Environment \/ Program

\* The program's steps run when they can; a CLI that runs and does not die ends
\* its turns and prints a result, and need not exit then.  Nothing is assumed of
\* the container.
Spec     == Init /\ [][Next]_vars
FairSpec == Spec /\ WF_vars(Program) /\ WF_vars(CliTurn \/ CliResult)

-----------------------------------------------------------------------------
(* Properties                                                              *)

TypeOK ==
  /\ at \in Steps /\ attempt \in 0 .. MaxResume + 1 /\ messages \in Seq(Message) /\ session \in Nat
  /\ error \in Errors /\ resumeCount \in 0 .. MaxResume /\ crash \in Nat
  /\ cli \in {"none", "running", "idle", "dead"} /\ current \in Nat /\ turns \in 0 .. MaxTurns
  /\ stdout \in Seq(Message) /\ saved \in Seq(Nat)
  /\ container \in {"up", "dead"} /\ starts \in Nat /\ submitted \in Nat

Turns == {i \in DOMAIN messages : messages[i].kind \in Turn}

\* "the stream only yields NEW messages, so appending to the same result is
\* correct": however often it was resumed, the result is one conversation, of
\* the session it names, in order and without repetitions.
OneConversation ==
  /\ \A i \in DOMAIN messages : messages[i].session = session
  /\ \A i, j \in Turns : i < j => messages[i].no < messages[j].no

\* "we resume the session up to max_resume_attempts times", and the resume
\* count that the run reports is the number of CLIs started after the first.
ResumesCounted ==
  /\ starts <= MaxResume + 1
  /\ at \in {"ended", "returned"} => starts = resumeCount + 1

\* "If the retries exhaust after the agent already submitted a crash, the
\* submission is salvaged" (docs/pipeline.md): the last submission printed by
\* any attempt is returned, with or without an error, if the container lived and
\* no incomplete claim followed it.
SubmissionSalvaged == at = "returned" /\ container = "up" => crash = submitted

\* "Partial transcripts are always preserved - AgentResult is never lost to an
\* exception": if run_agent raises, there was nothing to lose.
ResultNeverLost == at = "raised" => messages = <<>>

\* "--max-turns is a hard cap, not a chunk size": the conversation has at most
\* MaxTurns turns for its first process and for each resume the result reports,
\* and a process that came to its limit was the last one.
TurnBudget ==
  /\ \A s \in DOMAIN saved : saved[s] <= MaxTurns * (resumeCount + 1)
  /\ \A i \in DOMAIN messages :
       messages[i].kind = "error_max_turns" => at \in {"ended", "returned"} /\ error = "turn budget"

\* A session ends: the retries are bounded whatever the CLI, the API and the
\* container do.
SessionEnds == <>(at \in {"returned", "raised"})
=============================================================================
