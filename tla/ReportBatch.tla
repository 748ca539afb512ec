----------------------------- MODULE ReportBatch -----------------------------
(***************************************************************************)
(* `vuln-pipeline report` and `vuln-pipeline patch` over a results         *)
(* directory: _cmd_report, _report_one and _cmd_patch of                   *)
(* src/harness/cli.py with the grouping of src/harness/dedup.py.           *)
(*                                                                         *)
(* bug_NN is not stored anywhere: each command derives it anew, as a       *)
(* position in the sorted groups of the crashes that are in the directory. *)
(* Between two commands `run --resume` adds crashes and moves the numbers, *)
(* and `run --stream` writes report.json files under numbers of its own.   *)
(* One command works on a directory at a time; a command may be killed.    *)
(* The report and patch agents answer anything.                            *)
(***************************************************************************)
EXTENDS Detection, Integers

CONSTANTS
  N,           \* runs of the batch
  Crashes,     \* crashes a find agent can submit
  CrashOf,     \* what is in each of them
  NoCrash,     \* result.crash is None
  Scores,      \* scores a grade can have
  MaxStreamed, \* bound: crashes that `run --stream` judges
  MaxCommands  \* bound: report and patch commands, and runs before the last

ASSUME ReportAssumption ==
  /\ N \in Nat \ {0}
  /\ CrashOf \in [Crashes -> Crash] /\ NoCrash \notin Crashes
  /\ Scores \subseteq Nat \ {0}
  /\ MaxStreamed \in Nat /\ MaxCommands \in Nat

Runs == 0 .. (N - 1)
Bugs == 0 .. (N - 1)  \* there are no more groups, and no more judged bugs, than runs

VARIABLES
  results,  \* run_NNN/result.json
  judged,   \* runs of judge_log.jsonl
  bugIds,   \* number of bugs in manifest.jsonl
  reports,  \* reports/bug_NN/report.json
  command,  \* the command in progress
  commands, \* report and patch commands so far
  items,    \* signature behind each bug_NN of the command
  at,       \* how far the coroutine of each bug_NN is
  hand,     \* crash its agent was given
  given,    \* crash the report_text given to the patch agent is about
  exit,     \* exit code of the last command
  current   \* history: bugs reported since the results last changed

onDisk == <<results, judged, bugIds, reports>>
inside == <<command, items, at, hand, given>>
vars   == <<onDisk, inside, commands, exit, current>>

-----------------------------------------------------------------------------
(* Files                                                                   *)

\* "absent": no result.json, or one of a run that failed without a crash.
Statuses == {"absent", "torn", "no_crash_found", "agent_failed", "crash_found", "crash_rejected"}
Result   == [status : Statuses, crash : Crashes \cup {NoCrash}, score : Scores \cup {0}]
Absent   == [status |-> "absent", crash |-> NoCrash, score |-> 0]

\* What `run` leaves: a graded crash has a score, one whose grader failed none.
Outcomes ==
  {[Absent EXCEPT !.status = st] : st \in {"torn", "no_crash_found"}}
  \cup [status : {"agent_failed"}, crash : Crashes, score : {0}]
  \cup [status : {"crash_found", "crash_rejected"}, crash : Crashes, score : Scores]

Terminal(res) == res.status \in {"crash_found", "crash_rejected", "no_crash_found"}
Graded(res)   == res.crash # NoCrash /\ res.status \in {"crash_found", "crash_rejected"}

SignatureOf == [c \in Crashes |-> Signature(CrashOf[c])]

\* The signature _stream_report writes into report.json: the agent's own
\* crash_type, and the empty string when there is no route.
StreamedSignature(c) ==
  [class |-> CrashOf[c].claim, route |-> TriggerRoute(ParseDetection(CrashOf[c].output))]

NoSignature == [class |-> 0, route |-> 0]
Signatures  == {SignatureOf[c] : c \in Crashes} \cup {StreamedSignature(c) : c \in Crashes}
               \cup {NoSignature}

\* report.json: its status ("failed" for no_report and agent_failed), the
\* signature it was submitted under (of others it is never read), the crash its
\* text is about (none without a text), and whether a streaming batch wrote it.
Report == [status : {"absent", "torn", "report_submitted", "failed"},
           sig : Signatures, about : Crashes \cup {NoCrash}, streamed : BOOLEAN]

Unsubmitted(st, c) == [status |-> st, sig |-> NoSignature, about |-> c, streamed |-> FALSE]

\* What is written for crash c under signature g: a report, one whose session
\* died after it, or no text (no block in the answer, or an exception).
WrittenReports(g, c, streamed) ==
  {[status |-> "report_submitted", sig |-> g, about |-> c, streamed |-> streamed],
   Unsubmitted("failed", c), Unsubmitted("failed", NoCrash)}

-----------------------------------------------------------------------------
(* Groups, numbers and checkpoints                                         *)

WithCrash == {r \in Runs : results[r].crash # NoCrash}
Entries(g) == {r \in WithCrash : SignatureOf[results[r].crash] = g}

\* dedup: torn files and results without a crash are skipped.
Groups == {SignatureOf[results[r].crash] : r \in WithCrash}

PassedGroups ==
  {SignatureOf[results[r].crash] : r \in {s \in WithCrash : results[s].status = "crash_found"}}

HasPassed(g) == g \in PassedGroups

SignatureBefore(g, h) == g.class < h.class \/ (g.class = h.class /\ g.route < h.route)

\* The sort key of both commands: groups with a passed crash come first.
Before(g, h) ==
  IF HasPassed(g) = HasPassed(h) THEN SignatureBefore(g, h) ELSE HasPassed(g)

\* Mutant: the groups in the order of their signatures alone.
UnrankedNumber(g, among) == Cardinality({h \in among : SignatureBefore(h, g)})

NumberOf(g, among) == Cardinality({h \in among : Before(h, g)})

\* bug_NN of each group of among; NoSignature where there is none.
Numbered(among) ==
  [b \in Bugs |-> IF \E g \in among : NumberOf(g, among) = b
                  THEN CHOOSE g \in among : NumberOf(g, among) = b
                  ELSE NoSignature]

\* Mutant: `patch` numbers the groups by signature alone.
UnrankedBugs(wanted, among) ==
  [b \in Bugs |-> IF b \in wanted /\ \E g \in among : UnrankedNumber(g, among) = b
                  THEN CHOOSE g \in among : UnrankedNumber(g, among) = b
                  ELSE NoSignature]

\* What --bug leaves of the numbers of `patch`.
OnlyBugs(wanted, among) ==
  [b \in Bugs |-> IF b \in wanted THEN Numbered(among)[b] ELSE NoSignature]

\* _STATUS_ORDER
StatusOrder(res) ==
  IF res.status = "crash_found" THEN 0 ELSE IF res.status = "crash_rejected" THEN 1 ELSE 2

\* The key of _pick_representative: status, -score, PoC length, path.
Key(r) == <<StatusOrder(results[r]), 0 - results[r].score, CrashOf[results[r].crash].poc, r>>

KeyBefore(k, l) ==
  \E i \in 1 .. 4 : k[i] < l[i] /\ \A j \in 1 .. (i - 1) : k[j] = l[j]

\* _pick_representative
IsRepresentative(r, g) ==
  r \in Entries(g) /\ \A s \in Entries(g) \ {r} : KeyBefore(Key(r), Key(s))

\* Mutant: any submitted report of that number is a checkpoint.
AnySubmitted(b, g) == reports[b].status = "report_submitted"

\* _load_report_checkpoint
Checkpoint(b, g) == reports[b].status = "report_submitted" /\ reports[b].sig = g

-----------------------------------------------------------------------------
(* The batch between two commands                                          *)

CommandType == [name : {"none", "report", "patch"}, parallel : BOOLEAN, fresh : BOOLEAN]
Idle == [name |-> "none", parallel |-> FALSE, fresh |-> FALSE]
Up == command.name # "none"
NoExit == 3

Init ==
  /\ results = [r \in Runs |-> Absent]
  /\ judged = {} /\ bugIds = 0
  /\ reports = [b \in Bugs |-> Unsubmitted("absent", NoCrash)]
  /\ command = Idle
  /\ commands = 0
  /\ items = [b \in Bugs |-> NoSignature]
  /\ at = [b \in Bugs |-> "none"]
  /\ hand = [b \in Bugs |-> NoCrash] /\ given = [b \in Bugs |-> NoCrash]
  /\ exit = NoExit /\ current = {}

\* `run`, `run --resume`: a run that is not terminal writes its result.json.
LandResult(r) ==
  /\ ~Up /\ commands < MaxCommands /\ ~Terminal(results[r])
  /\ \E res \in Outcomes : results' = [results EXCEPT ![r] = res]
  /\ exit' = NoExit /\ current' = {}
  /\ UNCHANGED <<judged, bugIds, reports, inside, commands>>

\* `run --stream`: a graded run is judged once, as a bug of its own, as a
\* better example of one, or as neither; the first two write a report.json
\* under the number of that bug, unless a kill comes before or in the write.
StreamReport(r) ==
  /\ ~Up /\ commands < MaxCommands /\ Graded(results[r])
  /\ r \notin judged /\ Cardinality(judged) < MaxStreamed
  /\ judged' = judged \cup {r}
  /\ \/ UNCHANGED <<bugIds, reports, current>>
     \/ \E b \in 0 .. bugIds :
          LET c == results[r].crash
          IN  /\ bugIds' = IF b = bugIds THEN b + 1 ELSE bugIds
              /\ \E f \in WrittenReports(StreamedSignature(c), c, TRUE)
                            \cup {Unsubmitted("torn", NoCrash), Unsubmitted("absent", NoCrash)} :
                   reports' = [reports EXCEPT ![b] = f]
              /\ current' = current \ {b}
  /\ exit' = NoExit
  /\ UNCHANGED <<results, inside, commands>>

-----------------------------------------------------------------------------
(* The commands                                                            *)

Starts(name, parallel, fresh) ==
  /\ ~Up /\ commands < MaxCommands
  /\ commands' = commands + 1
  /\ command' = [name |-> name, parallel |-> parallel, fresh |-> fresh]
  /\ exit' = NoExit
  /\ UNCHANGED <<onDisk, hand, given, current>>

\* _cmd_report: --only-passed drops groups before they are numbered, and the
\* checkpoints are read before the first report starts.
StartReport ==
  \E chosen \in {Groups, PassedGroups} \ {{}} :
    /\ ~Up /\ items' = Numbered(chosen)
    /\ \E parallel, fresh \in BOOLEAN :
         /\ Starts("report", parallel, fresh)
         /\ at' = [b \in Bugs |->
                     IF items'[b] = NoSignature THEN "none"
                     ELSE IF ~fresh /\ Checkpoint(b, items'[b]) THEN "skipped"
                     ELSE "waiting"]

\* _cmd_patch: --bug picks one number after all groups have been numbered.
StartPatch ==
  \E wanted \in {Bugs} \cup {{b} : b \in Bugs} :
    /\ ~Up /\ items' = OnlyBugs(wanted, Groups)
    /\ \E b \in Bugs : items'[b] # NoSignature
    /\ \E parallel \in BOOLEAN : Starts("patch", parallel, FALSE)
    /\ at' = [b \in Bugs |-> IF items'[b] = NoSignature THEN "none" ELSE "waiting"]

Active(b) == at[b] \in {"waiting", "running"}

\* Mutant: a bug waits until all before it have been reported anew.
StrictTurn(b) ==
  at[b] = "waiting" /\ (command.parallel \/ \A a \in 0 .. (b - 1) : at[a] \in {"good", "bad"})

Turn(b) ==
  at[b] = "waiting" /\ (command.parallel \/ \A a \in 0 .. (b - 1) : ~Active(a))

\* The process ends, and with it what it had in memory.
Ends(code) ==
  /\ command' = Idle /\ exit' = code
  /\ items' = [b \in Bugs |-> NoSignature] /\ at' = [b \in Bugs |-> "none"]
  /\ hand' = [b \in Bugs |-> NoCrash] /\ given' = [b \in Bugs |-> NoCrash]

\* The coroutine of a bug ends, and with it its agent.
Returns(b, how) ==
  /\ at' = [at EXCEPT ![b] = how]
  /\ hand' = [hand EXCEPT ![b] = NoCrash] /\ given' = [given EXCEPT ![b] = NoCrash]
  /\ UNCHANGED <<command, items, exit>>

\* An exception leaves the coroutine: gather returns it, a loop does not go on.
Raises(b) == IF command.parallel THEN Returns(b, "raised") ELSE Ends(1)

\* _report_one up to the report agent.
BeginReport(b) ==
  /\ command.name = "report" /\ Turn(b)
  /\ at' = [at EXCEPT ![b] = "running"]
  /\ \E r \in Runs : /\ IsRepresentative(r, items[b])
                    /\ hand' = [hand EXCEPT ![b] = results[r].crash]
  /\ UNCHANGED <<onDisk, command, items, given, commands, exit, current>>

\* The rest of _report_one: report.json is written whatever became of the agent.
EndReport(b) ==
  /\ command.name = "report" /\ at[b] = "running"
  /\ \E f \in WrittenReports(items[b], hand[b], FALSE) :
       /\ reports' = [reports EXCEPT ![b] = f]
       /\ Returns(b, IF f.status = "report_submitted" THEN "good" ELSE "bad")
       /\ current' = IF f.status = "report_submitted" THEN current \cup {b} ELSE current \ {b}
  /\ UNCHANGED <<results, judged, bugIds, commands>>

\* The write of report.json fails, and leaves a part of it.
WriteFails(b) ==
  /\ command.name = "report" /\ at[b] = "running"
  /\ reports' = [reports EXCEPT ![b] = Unsubmitted("torn", NoCrash)]
  /\ current' = current \ {b}
  /\ Raises(b)
  /\ UNCHANGED <<results, judged, bugIds, commands>>

\* _one of _cmd_patch up to the patch agent: report_text is that of whatever
\* report.json has the number.
BeginPatch(b) ==
  /\ command.name = "patch" /\ Turn(b) /\ reports[b].status # "torn"
  /\ at' = [at EXCEPT ![b] = "running"]
  /\ \E r \in Runs : /\ IsRepresentative(r, items[b])
                    /\ hand' = [hand EXCEPT ![b] = results[r].crash]
  /\ given' = [given EXCEPT ![b] = reports[b].about]
  /\ UNCHANGED <<onDisk, command, items, commands, exit, current>>

\* A torn report.json raises, outside the try around run_patch.
ReadFails(b) ==
  /\ command.name = "patch" /\ Turn(b) /\ reports[b].status = "torn"
  /\ Raises(b)
  /\ UNCHANGED <<onDisk, commands, current>>

\* run_patch returns, or raises inside the try: only a verified patch is good.
EndPatch(b) ==
  /\ command.name = "patch" /\ at[b] = "running"
  /\ \E o \in {"good", "bad"} : Returns(b, o)
  /\ UNCHANGED <<onDisk, commands, current>>

\* Mutant: the summary passes over exceptions without setting the exit code.
LenientExit == IF \E b \in Bugs : at[b] = "bad" THEN 2 ELSE 0

\* The summary loop of both commands.
ExitCode == IF \E b \in Bugs : at[b] \in {"bad", "raised"} THEN 2 ELSE 0

Finish ==
  /\ Up /\ \A b \in Bugs : ~Active(b)
  /\ Ends(ExitCode)
  /\ UNCHANGED <<onDisk, commands, current>>

\* A signal, anywhere; in the write of a report.json it leaves a part of it.
Kill ==
  /\ Up /\ Ends(1)
  /\ \/ UNCHANGED <<reports, current>>
     \/ \E b \in Bugs :
          /\ command.name = "report" /\ at[b] = "running"
          /\ reports' = [reports EXCEPT ![b] = Unsubmitted("torn", NoCrash)]
          /\ current' = current \ {b}
  /\ UNCHANGED <<results, judged, bugIds, commands>>

-----------------------------------------------------------------------------
BugStep(b) == BeginReport(b) \/ EndReport(b) \/ WriteFails(b)
              \/ BeginPatch(b) \/ ReadFails(b) \/ EndPatch(b)

Next ==
  \/ \E r \in Runs : LandResult(r) \/ StreamReport(r)
  \/ StartReport \/ StartPatch \/ Finish \/ Kill
  \/ \E b \in Bugs : BugStep(b)

Spec == Init /\ [][Next]_vars

\* Agents end, and the event loop runs something as long as a coroutine is
\* ready; the operator need not do anything.
FairSpec == Spec /\ WF_vars(Finish \/ \E b \in Bugs : BugStep(b))

-----------------------------------------------------------------------------
(* Properties                                                              *)

\* Files and memory hold values of their types.
TypeOK ==
  /\ results \in [Runs -> Result]
  /\ judged \subseteq Runs /\ bugIds \in Nat
  /\ reports \in [Bugs -> Report]
  /\ command \in CommandType /\ commands \in Nat
  /\ items \in [Bugs -> Signatures]
  /\ at \in [Bugs -> {"none", "skipped", "waiting", "running", "good", "bad", "raised"}]
  /\ hand \in [Bugs -> Crashes \cup {NoCrash}]
  /\ given \in [Bugs -> Crashes \cup {NoCrash}]
  /\ exit \in 0 .. NoExit
  /\ current \subseteq Bugs

\* "A signature mismatch means bug_NN index drifted ... and the checkpoint is
\* for a different bug" (_load_report_checkpoint): however the numbers moved
\* between two commands, a report that `report` takes over is about a crash of
\* the group it is taken for.  (A streamed report need not be: its signature
\* is made of the agent's own crash_type.)
CheckpointIsOwn ==
  \A b \in Bugs :
    at[b] = "skipped" /\ ~reports[b].streamed =>
      reports[b].about # NoCrash /\ SignatureOf[reports[b].about] = items[b]

\* Exit code 0 of `report` means a submitted report of its own signature on
\* disk for every group it numbered, and of `patch` a verified patch for each:
\* no exception, checkpoint or order of arrivals hides a bug that was not done.
ExitZeroMeansAll ==
  [][Up /\ exit' = 0 =>
       \A b \in Bugs : items[b] # NoSignature =>
         IF command.name = "report" THEN Checkpoint(b, items[b]) ELSE at[b] = "good"]_vars

\* A report that was submitted since the results last changed is not done
\* again, also when one command had --only-passed and the other had not: only
\* --fresh, or a streaming batch, replaces it.
SubmittedNotRedone ==
  [][\A b \in current : reports'[b] # reports[b] /\ Up => command.fresh]_vars

\* The report given to a patch agent is about the very crash it is given, when
\* the bug was reported since the results last changed: `patch` numbers the
\* groups and picks their representatives as `report` did.
PatchGetsCurrentReport ==
  command.name = "patch" =>
    \A b \in current : at[b] = "running" => given[b] = hand[b]

\* "Same ordering as _cmd_report so bug_NN here matches reports/bug_NN/"
\* (_cmd_patch): a report given to a patch agent is about a crash of its group.
PatchGetsOwnReport ==
  command.name = "patch" =>
    \A b \in Bugs : at[b] = "running" /\ given[b] # NoCrash => SignatureOf[given[b]] = items[b]

\* A command that is not killed ends, whatever its agents and files do.
CommandEnds == Up ~> ~Up
=============================================================================
