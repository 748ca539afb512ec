-------------------------- MODULE ReportBatchProofs --------------------------
(***************************************************************************)
(* Proofs about ReportBatch, for every number of runs, every set of        *)
(* crashes and every order in which the numbers move.                      *)
(***************************************************************************)
EXTENDS ReportBatch, TLAPS

\* A submitted report that no streaming batch wrote is about a crash of the
\* group it is signed with.
ReportsHonest ==
  \A b \in Bugs : reports[b].status = "report_submitted" /\ ~reports[b].streamed =>
    reports[b].about \in Crashes /\ SignatureOf[reports[b].about] = reports[b].sig

\* A report agent works on a crash of the group its number stands for.
OwnCrashInHand ==
  \A b \in Bugs : command.name = "report" /\ at[b] = "running" =>
    hand[b] \in Crashes /\ SignatureOf[hand[b]] = items[b]

\* What counts as reported in this command is on disk under its signature.
CountedOnDisk ==
  \A b \in Bugs : at[b] = "skipped" \/ (command.name = "report" /\ at[b] = "good") =>
    command.name = "report" /\ Checkpoint(b, items[b])

\* Every group that was numbered has a coroutine.
NoneForgotten == \A b \in Bugs : at[b] = "none" => items[b] = NoSignature

\* The exit code is not there before the command ends.
NotOver == Up => exit = NoExit

ReportInv ==
  TypeOK /\ ReportsHonest /\ OwnCrashInHand /\ CountedOnDisk /\ NoneForgotten /\ NotOver

Steps == {"none", "skipped", "waiting", "running", "good", "bad", "raised"}

\* The strings and records of the module have their types.
LEMMA SignatureTypes ==
  /\ NoSignature \in Signatures
  /\ \A c \in Crashes : SignatureOf[c] \in Signatures /\ StreamedSignature(c) \in Signatures
BY DEF Signatures

LEMMA ReportTypes ==
  /\ \A st \in {"absent", "torn", "failed"}, c \in Crashes \cup {NoCrash} :
       Unsubmitted(st, c) \in Report /\ Unsubmitted(st, c).status # "report_submitted"
  /\ \A g \in Signatures, c \in Crashes, s \in BOOLEAN : \A f \in WrittenReports(g, c, s) :
       /\ f \in Report
       /\ f.status = "report_submitted" => f.sig = g /\ f.about = c /\ f.streamed = s
BY SignatureTypes DEF Unsubmitted, WrittenReports, Report

\* Numbering gives every bug a group among those numbered, or none.
LEMMA NumberedTypes ==
  ASSUME TypeOK, NEW wanted, NEW among \in {Groups, PassedGroups}
  PROVE  /\ Numbered(among) \in [Bugs -> Signatures]
         /\ OnlyBugs(wanted, among) \in [Bugs -> Signatures]
<1>1. Groups \subseteq Signatures
  BY SignatureTypes DEF Groups, WithCrash, TypeOK, Result
<1>2. PassedGroups \subseteq Signatures
  BY <1>1 DEF PassedGroups, Groups
<1>3. \A b \in Bugs : Numbered(among)[b] \in Signatures
  BY <1>1, <1>2, SignatureTypes DEF Numbered
<1>4. DOMAIN Numbered(among) = Bugs /\ Numbered(among) = [b \in Bugs |-> Numbered(among)[b]]
  BY DEF Numbered
<1> QED
  BY <1>3, <1>4, SignatureTypes DEF OnlyBugs

-----------------------------------------------------------------------------
(* Every step keeps the invariant                                          *)

LEMMA InitInv == Init => ReportInv
<1> SUFFICES ASSUME Init PROVE ReportInv
  OBVIOUS
<1>1. TypeOK
  BY ReportAssumption, SignatureTypes, ReportTypes
  DEF Init, TypeOK, Absent, Result, Statuses, Idle, CommandType, NoExit
<1> QED
  BY <1>1, ReportTypes
  DEF Init, Idle, ReportInv, ReportsHonest, OwnCrashInHand, CountedOnDisk, NoneForgotten, NotOver, Up,
      Unsubmitted

\* A process that ends leaves nothing in memory to be wrong about.
LEMMA EndKeepsInv ==
  ASSUME ReportInv, NEW code \in 0 .. NoExit, Ends(code), UNCHANGED <<results, judged, bugIds, commands>>,
         current' \subseteq Bugs,
         \/ UNCHANGED reports
         \/ \E b \in Bugs : reports' = [reports EXCEPT ![b] = Unsubmitted("torn", NoCrash)]
  PROVE  ReportInv'
<1>1. reports' \in [Bugs -> Report] /\ ReportsHonest'
  BY ReportTypes DEF ReportInv, TypeOK, ReportsHonest
<1>2. TypeOK'
  BY <1>1, SignatureTypes DEF ReportInv, TypeOK, Ends, Idle, CommandType
<1> QED
  BY <1>1, <1>2 DEF ReportInv, OwnCrashInHand, CountedOnDisk, NoneForgotten, NotOver, Up, Ends, Idle

\* A coroutine that returns leaves the others where they are.
LEMMA ReturnKeepsInv ==
  ASSUME ReportInv, NEW b \in Bugs, NEW how \in {"good", "bad", "raised"}, Returns(b, how),
         at[b] \in {"waiting", "running"}, UNCHANGED <<results, judged, bugIds, commands>>,
         current' \subseteq Bugs, reports' \in [Bugs -> Report], ReportsHonest',
         \A a \in Bugs \ {b} : reports'[a] = reports[a],
         command.name = "report" /\ how = "good" => Checkpoint(b, items[b])'
  PROVE  ReportInv'
<1>1. TypeOK'
  BY DEF ReportInv, TypeOK, Returns
<1>2. CountedOnDisk'
  <2> SUFFICES ASSUME NEW a \in Bugs,
                      at'[a] = "skipped" \/ (command'.name = "report" /\ at'[a] = "good")
               PROVE  command'.name = "report" /\ Checkpoint(a, items[a])'
    BY DEF CountedOnDisk
  <2>1. CASE a = b
    BY <2>1 DEF ReportInv, TypeOK, Returns, Checkpoint
  <2>2. CASE a # b
    BY <2>2 DEF ReportInv, TypeOK, CountedOnDisk, Returns, Checkpoint
  <2> QED
    BY <2>1, <2>2
<1>3. OwnCrashInHand' /\ NoneForgotten' /\ NotOver'
  BY DEF ReportInv, TypeOK, OwnCrashInHand, NoneForgotten, NotOver, Up, Returns
<1> QED
  BY <1>1, <1>2, <1>3 DEF ReportInv

LEMMA RaiseKeepsInv ==
  ASSUME ReportInv, NEW b \in Bugs, Raises(b), at[b] \in {"waiting", "running"},
         UNCHANGED <<results, judged, bugIds, commands>>, current' \subseteq Bugs,
         reports' = reports \/ reports' = [reports EXCEPT ![b] = Unsubmitted("torn", NoCrash)]
  PROVE  ReportInv'
<1>1. reports' \in [Bugs -> Report] /\ ReportsHonest' /\ \A a \in Bugs \ {b} : reports'[a] = reports[a]
  BY ReportTypes DEF ReportInv, TypeOK, ReportsHonest
<1>2. CASE command.parallel
  BY <1>1, <1>2, ReturnKeepsInv DEF Raises
<1>3. CASE ~command.parallel
  BY <1>3, EndKeepsInv DEF Raises, NoExit
<1> QED
  BY <1>2, <1>3

\* run lands a result, or a streaming batch a report, between two commands.
LEMMA LandKeepsInv ==
  ASSUME ReportInv, NEW r \in Runs, LandResult(r)
  PROVE  ReportInv'
<1>1. PICK res \in Outcomes : results' = [results EXCEPT ![r] = res]
  BY DEF LandResult
<1>2. res \in Result
  BY DEF Outcomes, Absent, Result, Statuses
<1>3. TypeOK'
  BY <1>1, <1>2 DEF LandResult, ReportInv, TypeOK, inside, NoExit
<1> QED
  BY <1>3 DEF LandResult, ReportInv, inside, ReportsHonest, OwnCrashInHand, CountedOnDisk,
              NoneForgotten, NotOver, Up, Checkpoint

LEMMA StreamKeepsInv ==
  ASSUME ReportInv, NEW r \in Runs, StreamReport(r)
  PROVE  ReportInv'
<1> USE DEF ReportInv
<1>0. /\ command.name = "none" /\ results[r].crash \in Crashes
      /\ judged' = judged \cup {r} /\ exit' = NoExit
      /\ UNCHANGED <<results, command, items, at, hand, given, commands>>
  BY DEF StreamReport, Up, Graded, inside, TypeOK, Result
<1>1. \A a \in Bugs : at[a] # "skipped"
  BY <1>0 DEF CountedOnDisk
<1>2. CASE UNCHANGED <<bugIds, reports, current>>
  BY <1>0, <1>1, <1>2 DEF TypeOK, NoExit, ReportsHonest, OwnCrashInHand, CountedOnDisk, NoneForgotten,
                               NotOver, Up
<1>3. ASSUME NEW b \in 0 .. bugIds, NEW f,
             bugIds' = IF b = bugIds THEN b + 1 ELSE bugIds,
             f \in WrittenReports(StreamedSignature(results[r].crash), results[r].crash, TRUE)
                     \cup {Unsubmitted("torn", NoCrash), Unsubmitted("absent", NoCrash)},
             reports' = [reports EXCEPT ![b] = f], current' = current \ {b}
      PROVE  ReportInv'
  <2>1. StreamedSignature(results[r].crash) \in Signatures
    BY <1>0, SignatureTypes
  <2>2. f \in Report /\ (f.status = "report_submitted" => f.streamed = TRUE)
    <3>1. CASE f \in WrittenReports(StreamedSignature(results[r].crash), results[r].crash, TRUE)
      BY <1>0, <2>1, <3>1, ReportTypes
    <3>2. CASE f \in {Unsubmitted("torn", NoCrash), Unsubmitted("absent", NoCrash)}
      BY <3>2, ReportTypes
    <3> QED
      BY <1>3, <3>1, <3>2
  <2>3. bugIds' \in Nat /\ reports' \in [Bugs -> Report] /\ current' \subseteq Bugs
    <3>1. bugIds' \in Nat
      BY <1>3 DEF TypeOK
    <3>2. reports' \in [Bugs -> Report]
      BY <1>3, <2>2 DEF TypeOK
    <3> QED
      BY <1>3, <3>1, <3>2 DEF TypeOK
  <2>4. TypeOK'
    BY <1>0, <2>3 DEF TypeOK, NoExit
  <2>5. ReportsHonest'
    BY <1>3, <2>2 DEF TypeOK, ReportsHonest
  <2> QED
    BY <1>0, <1>1, <2>4, <2>5 DEF OwnCrashInHand, CountedOnDisk, NoneForgotten, NotOver, Up
<1> QED
  BY <1>2, <1>3 DEF StreamReport

-----------------------------------------------------------------------------
(* The commands                                                            *)

LEMMA StartKeepsInv ==
  ASSUME ReportInv, NEW name \in {"report", "patch"}, NEW parallel \in BOOLEAN, NEW fresh \in BOOLEAN,
         Starts(name, parallel, fresh), items' \in [Bugs -> Signatures],
         at' \in [Bugs -> Steps], \A b \in Bugs : at'[b] \in {"none", "skipped", "waiting"},
         \A b \in Bugs : at'[b] = "none" <=> items'[b] = NoSignature,
         \A b \in Bugs : at'[b] = "skipped" => name = "report" /\ Checkpoint(b, items'[b])
  PROVE  ReportInv'
<1>1. TypeOK'
  BY DEF ReportInv, TypeOK, Starts, onDisk, CommandType, NoExit, Steps
<1>2. CountedOnDisk'
  BY DEF CountedOnDisk, Starts, onDisk, Checkpoint
<1> QED
  BY <1>1, <1>2 DEF ReportInv, Starts, onDisk, ReportsHonest, OwnCrashInHand, NoneForgotten, NotOver

LEMMA StartReportKeepsInv == ReportInv /\ StartReport => ReportInv'
<1> SUFFICES ASSUME ReportInv, NEW chosen \in {Groups, PassedGroups}, items' = Numbered(chosen),
                    NEW parallel \in BOOLEAN, NEW fresh \in BOOLEAN, Starts("report", parallel, fresh),
                    at' = [b \in Bugs |->
                             IF items'[b] = NoSignature THEN "none"
                             ELSE IF ~fresh /\ Checkpoint(b, items'[b]) THEN "skipped"
                             ELSE "waiting"]
             PROVE  ReportInv'
  BY DEF StartReport
<1>1. items' \in [Bugs -> Signatures]
  BY NumberedTypes DEF ReportInv
<1>2. at' \in [Bugs -> Steps]
  BY DEF Steps
<1> QED
  BY <1>1, <1>2, StartKeepsInv

LEMMA StartPatchKeepsInv == ReportInv /\ StartPatch => ReportInv'
<1> SUFFICES ASSUME ReportInv, NEW wanted, items' = OnlyBugs(wanted, Groups),
                    NEW parallel \in BOOLEAN, Starts("patch", parallel, FALSE),
                    at' = [b \in Bugs |-> IF items'[b] = NoSignature THEN "none" ELSE "waiting"]
             PROVE  ReportInv'
  BY DEF StartPatch
<1>1. items' \in [Bugs -> Signatures]
  BY NumberedTypes DEF ReportInv
<1>2. at' \in [Bugs -> Steps]
  BY DEF Steps
<1> QED
  BY <1>1, <1>2, StartKeepsInv

\* A report or patch agent starts with a crash of the group of its number.
LEMMA BeginKeepsInv ==
  ASSUME ReportInv, NEW b \in Bugs, at[b] = "waiting", at' = [at EXCEPT ![b] = "running"],
         NEW r \in Runs, IsRepresentative(r, items[b]),
         hand' = [hand EXCEPT ![b] = results[r].crash],
         given' \in [Bugs -> Crashes \cup {NoCrash}],
         UNCHANGED <<onDisk, command, items, commands, exit, current>>
  PROVE  ReportInv'
<1>1. results[r].crash \in Crashes /\ SignatureOf[results[r].crash] = items[b]
  BY DEF IsRepresentative, Entries, WithCrash, ReportInv, TypeOK, Result
<1>2. TypeOK'
  BY <1>1 DEF ReportInv, TypeOK, onDisk
<1>3. OwnCrashInHand'
  BY <1>1 DEF ReportInv, TypeOK, OwnCrashInHand
<1> QED
  BY <1>2, <1>3 DEF ReportInv, TypeOK, onDisk, ReportsHonest, CountedOnDisk, NoneForgotten,
                               NotOver, Up, Checkpoint

LEMMA EndReportKeepsInv ==
  ASSUME ReportInv, NEW b \in Bugs, EndReport(b)
  PROVE  ReportInv'
<1>1. PICK f \in WrittenReports(items[b], hand[b], FALSE) :
        /\ reports' = [reports EXCEPT ![b] = f]
        /\ Returns(b, IF f.status = "report_submitted" THEN "good" ELSE "bad")
        /\ current' = IF f.status = "report_submitted" THEN current \cup {b} ELSE current \ {b}
  BY DEF EndReport
<1>2. hand[b] \in Crashes /\ SignatureOf[hand[b]] = items[b] /\ items[b] \in Signatures
  BY DEF EndReport, ReportInv, OwnCrashInHand, TypeOK
<1>3. f \in Report /\ (f.status = "report_submitted" => f.sig = items[b] /\ f.about = hand[b])
  <2>1. f \in WrittenReports(items[b], hand[b], FALSE)
    BY <1>1
  <2> HIDE <1>1
  <2>2. f \in {[status |-> "report_submitted", sig |-> items[b], about |-> hand[b], streamed |-> FALSE]}
                 \cup {Unsubmitted("failed", hand[b]), Unsubmitted("failed", NoCrash)}
    BY <2>1 DEF WrittenReports
  <2>3. CASE f \in {Unsubmitted("failed", hand[b]), Unsubmitted("failed", NoCrash)}
    BY <1>2, <2>3, ReportTypes
  <2>4. CASE f = [status |-> "report_submitted", sig |-> items[b], about |-> hand[b], streamed |-> FALSE]
    <3>1. f \in Report
      BY <1>2, <2>4 DEF Report
    <3> QED
      BY <2>4, <3>1
  <2> QED
    BY <2>2, <2>3, <2>4
<1>4. reports' \in [Bugs -> Report] /\ ReportsHonest' /\ \A a \in Bugs \ {b} : reports'[a] = reports[a]
  BY <1>1, <1>2, <1>3 DEF ReportInv, TypeOK, ReportsHonest
<1>5. f.status = "report_submitted" => Checkpoint(b, items[b])'
  BY <1>1, <1>3 DEF Checkpoint, Returns, ReportInv, TypeOK
<1>6. current' \subseteq Bugs
  BY <1>1 DEF ReportInv, TypeOK
<1> QED
  BY <1>1, <1>4, <1>5, <1>6, ReturnKeepsInv DEF EndReport

LEMMA BugStepKeepsInv ==
  ASSUME ReportInv, NEW b \in Bugs, BugStep(b)
  PROVE  ReportInv'
<1>1. CASE BeginReport(b)
  BY <1>1, BeginKeepsInv DEF BeginReport, Turn, ReportInv, TypeOK
<1>2. CASE EndReport(b)
  BY <1>2, EndReportKeepsInv
<1>3. CASE WriteFails(b)
  <2>1. current' \subseteq Bugs
    BY <1>3 DEF WriteFails, ReportInv, TypeOK
  <2> QED
    BY <1>3, <2>1, RaiseKeepsInv DEF WriteFails
<1>4. CASE BeginPatch(b)
  <2>1. given' \in [Bugs -> Crashes \cup {NoCrash}]
    BY <1>4 DEF BeginPatch, ReportInv, TypeOK, Report
  <2> QED
    BY <1>4, <2>1, BeginKeepsInv DEF BeginPatch, Turn
<1>5. CASE ReadFails(b)
  <2>1. current' \subseteq Bugs
    BY <1>5 DEF ReadFails, ReportInv, TypeOK
  <2> QED
    BY <1>5, <2>1, RaiseKeepsInv DEF ReadFails, Turn, onDisk
<1>6. CASE EndPatch(b)
  <2>1. current' \subseteq Bugs /\ reports' \in [Bugs -> Report] /\ ReportsHonest'
    BY <1>6 DEF EndPatch, onDisk, ReportInv, TypeOK, ReportsHonest
  <2> QED
    BY <1>6, <2>1, ReturnKeepsInv DEF EndPatch, onDisk
<1> QED
  BY <1>1, <1>2, <1>3, <1>4, <1>5, <1>6 DEF BugStep

LEMMA FinishKeepsInv == ReportInv /\ Finish => ReportInv'
<1> SUFFICES ASSUME ReportInv, Finish PROVE ReportInv'
  OBVIOUS
<1>1. ExitCode \in 0 .. NoExit
  BY DEF ExitCode, NoExit
<1>2. current' \subseteq Bugs
  BY DEF Finish, ReportInv, TypeOK
<1> QED
  BY <1>1, <1>2, EndKeepsInv DEF Finish, onDisk

LEMMA KillKeepsInv == ReportInv /\ Kill => ReportInv'
<1> SUFFICES ASSUME ReportInv, Kill PROVE ReportInv'
  OBVIOUS
<1>1. 1 \in 0 .. NoExit
  BY DEF NoExit
<1>2. current' \subseteq Bugs
  BY DEF Kill, ReportInv, TypeOK
<1> QED
  BY <1>1, <1>2, EndKeepsInv DEF Kill

LEMMA NextKeepsInv == ReportInv /\ [Next]_vars => ReportInv'
<1> SUFFICES ASSUME ReportInv, [Next]_vars PROVE ReportInv'
  OBVIOUS
<1>1. CASE Next
  BY <1>1, LandKeepsInv, StreamKeepsInv, StartReportKeepsInv, StartPatchKeepsInv,
     FinishKeepsInv, KillKeepsInv, BugStepKeepsInv DEF Next
<1>2. CASE UNCHANGED vars
  BY <1>2 DEF vars, onDisk, inside, ReportInv, TypeOK, ReportsHonest, OwnCrashInHand, CountedOnDisk,
              NoneForgotten, NotOver, Up, Checkpoint
<1> QED
  BY <1>1, <1>2

-----------------------------------------------------------------------------
(* Theorems                                                                *)

THEOREM ReportInvariance == Spec => []ReportInv
BY InitInv, NextKeepsInv, PTL DEF Spec

\* Files and memory hold values of their types, for any number of runs.
THEOREM ReportTypeSafety == Spec => []TypeOK
<1>1. ReportInv => TypeOK
  BY DEF ReportInv
<1> QED
  BY <1>1, ReportInvariance, PTL

\* _load_report_checkpoint hands `report` only reports about the group they are
\* taken for, however resumed runs moved the numbers in between.
THEOREM CheckpointsAreOwn == Spec => []CheckpointIsOwn
<1>1. ReportInv => CheckpointIsOwn
  <2> SUFFICES ASSUME ReportInv, NEW b \in Bugs, at[b] = "skipped", ~reports[b].streamed
               PROVE  reports[b].about # NoCrash /\ SignatureOf[reports[b].about] = items[b]
    BY DEF CheckpointIsOwn
  <2>1. reports[b].status = "report_submitted" /\ reports[b].sig = items[b]
    BY DEF ReportInv, CountedOnDisk, Checkpoint
  <2> QED
    BY <2>1, ReportAssumption DEF ReportInv, ReportsHonest
<1> QED
  BY <1>1, ReportInvariance, PTL

\* The summary of neither command exits with 0 when a bug it numbered was not
\* done, whatever was skipped, failed or raised, and in whatever order.
THEOREM ExitZeroIsHonest == Spec => ExitZeroMeansAll
<1> DEFINE Honest == Up /\ exit' = 0 =>
                       \A b \in Bugs : items[b] # NoSignature =>
                         IF command.name = "report" THEN Checkpoint(b, items[b]) ELSE at[b] = "good"
<1>1. ASSUME ReportInv, [Next]_vars PROVE [Honest]_vars
  <2>1. ASSUME Ends(1) PROVE Honest
    BY <2>1 DEF Ends
  <2>2. CASE Finish
    <3>1. SUFFICES ASSUME ExitCode = 0, NEW b \in Bugs, items[b] # NoSignature
                   PROVE  IF command.name = "report" THEN Checkpoint(b, items[b]) ELSE at[b] = "good"
      BY <2>2 DEF Finish, Ends
    <3>2. at[b] \in {"skipped", "good"}
      BY <1>1, <2>2, <3>1 DEF Finish, Active, ExitCode, ReportInv, NoneForgotten, TypeOK
    <3> QED
      BY <1>1, <3>2 DEF ReportInv, CountedOnDisk
  <2>3. CASE ~Up
    BY <2>3
  <2>4. CASE StartReport \/ StartPatch \/ \E r \in Runs : LandResult(r) \/ StreamReport(r)
    BY <2>4 DEF StartReport, StartPatch, LandResult, StreamReport
  <2>5. ASSUME exit' = exit PROVE Honest
    BY <1>1, <2>5 DEF ReportInv, NotOver, NoExit
  <2> HIDE DEF Honest
  <2>6. ASSUME NEW b \in Bugs, Raises(b) PROVE Honest
    <3>1. CASE Returns(b, "raised")
      BY <2>5, <3>1 DEF Returns
    <3> QED
      BY <2>1, <2>6, <3>1 DEF Raises
  <2>7. ASSUME NEW b \in Bugs, BugStep(b) PROVE Honest
    <3>1. CASE WriteFails(b) \/ ReadFails(b)
      BY <2>6, <3>1 DEF WriteFails, ReadFails
    <3>2. CASE BeginReport(b) \/ EndReport(b) \/ BeginPatch(b) \/ EndPatch(b)
      <4>1. exit' = exit
        BY <3>2 DEF BeginReport, EndReport, BeginPatch, EndPatch, Returns
      <4> QED
        BY <2>5, <4>1
    <3> QED
      BY <2>7, <3>1, <3>2 DEF BugStep
  <2>8. CASE Kill
    BY <2>1, <2>8 DEF Kill
  <2>9. CASE UNCHANGED vars
    BY <2>5, <2>9 DEF vars
  <2> QED
    BY <1>1, <2>2, <2>4, <2>7, <2>8, <2>9 DEF Next
<1> QED
  BY <1>1, ReportInvariance, PTL DEF Spec, ExitZeroMeansAll
=============================================================================
