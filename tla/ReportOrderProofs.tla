-------------------------- MODULE ReportOrderProofs --------------------------
(***************************************************************************)
(* Proofs about the order of the groups in ReportBatch: `report` and       *)
(* `patch` derive bug_NN and its representative independently, and agree   *)
(* as long as the results do not change.                                   *)
(***************************************************************************)
EXTENDS ReportBatchProofs, FiniteSetTheorems

-----------------------------------------------------------------------------
(* Signatures are pairs of numbers                                         *)

\* The least and the greatest element that detection.py takes exist.
LEMMA MinIn ==
  ASSUME NEW S \in SUBSET Nat, S # {}
  PROVE  Min(S) \in S
<1>1. PICK x \in S : \A y \in S : ~(<<y, x>> \in OpToRel(<, Nat))
  BY NatLessThanWellFounded, WFMin
<1>2. \A y \in S : x <= y
  <2> TAKE y \in S
  <2>1. x \in Nat /\ y \in Nat
    OBVIOUS
  <2>2. ~(y < x)
    BY <1>1, <2>1 DEF OpToRel
  <2> QED
    BY <2>1, <2>2
<1> QED
  BY <1>2 DEF Min

LEMMA MaxIn ==
  ASSUME NEW n \in Nat, NEW S \in SUBSET (1 .. n), S # {}
  PROVE  Max(S) \in S
<1> DEFINE T == {n - x : x \in S}
<1>1. T \in SUBSET Nat /\ T # {}
  <2>1. \A x \in S : n - x \in Nat
    OBVIOUS
  <2> QED
    BY <2>1
<1>2. PICK m \in T : \A y \in T : ~(<<y, m>> \in OpToRel(<, Nat))
  BY <1>1, NatLessThanWellFounded, WFMin
<1>3. PICK x \in S : m = n - x
  BY <1>2
<1>4. \A y \in S : x >= y
  <2> TAKE y \in S
  <2>1. n - y \in T /\ n - y \in Nat /\ m \in Nat
    BY <1>1
  <2>2. ~(n - y < m)
    BY <1>2, <2>1 DEF OpToRel
  <2> QED
    BY <1>3, <2>2
<1> QED
  BY <1>4 DEF Max

\* One level of detection.py after the other returns a value of its type.
LEMMA ParsedBlock == \A output \in Seq(Block) : ParseDetection(output) \in Block
<1> SUFFICES ASSUME NEW output \in Seq(Block) PROVE ParseDetection(output) \in Block
  OBVIOUS
<1> DEFINE good == {i \in DOMAIN output : output[i].parsed}
<1>1. NoBlock \in Block
  BY DEF NoBlock, Block, Classes, Routes
<1>2. good # {} => Max(good) \in good
  <2>1. good \in SUBSET (1 .. Len(output)) /\ Len(output) \in Nat
    OBVIOUS
  <2> QED
    BY <2>1, MaxIn
<1>3. good # {} => output[Max(good)] \in Block
  BY <1>2
<1> QED
  BY <1>1, <1>3 DEF ParseDetection

LEMMA SeqElement ==
  ASSUME NEW T, NEW s \in Seq(T)
  PROVE  \A i \in DOMAIN s : s[i] \in T
OBVIOUS

LEMMA BlockFacts ==
  ASSUME NEW d \in Block
  PROVE  PrimaryClass(d) \in Nat /\ TriggerRoute(d) \in Nat
<1>1. /\ d.primary \in Nat /\ d.classes \in Seq(Nat) /\ d.http \in Seq([step : Nat, route : Nat])
  BY DEF Block, Classes, Routes
<1>2. PrimaryClass(d) \in Nat
  <2> DEFINE ranked == {p \in DOMAIN Precedence :
                          \E i \in DOMAIN d.classes : d.classes[i] = Precedence[p]}
  <2>1. ranked \in SUBSET Nat
    BY PrecedenceAssumption
  <2>2. ranked # {} => Min(ranked) \in DOMAIN Precedence
    BY <2>1, MinIn
  <2>3. ranked # {} => Precedence[Min(ranked)] \in Nat
    BY <2>2, PrecedenceAssumption
  <2>4. d.classes # <<>> => d.classes[1] \in Nat
    BY <1>1
  <2> QED
    BY <1>1, <2>3, <2>4 DEF PrimaryClass
<1>3. TriggerRoute(d) \in Nat
  <2> DEFINE tripped == {i \in DOMAIN d.http : d.http[i].step = d.trigger}
  <2>1. tripped \in SUBSET Nat
    BY <1>1
  <2>2. tripped # {} => Min(tripped) \in DOMAIN d.http
    BY <2>1, MinIn
  <2>3. \A i \in DOMAIN d.http : d.http[i] \in [step : Nat, route : Nat]
    BY <1>1, SeqElement
  <2>4. d.http # <<>> => Len(d.http) \in DOMAIN d.http
    BY <1>1
  <2>5. \A i \in DOMAIN d.http : d.http[i].route \in Nat
    BY <2>3
  <2> QED
    BY <2>2, <2>4, <2>5 DEF TriggerRoute
<1> QED
  BY <1>2, <1>3

\* signature() groups every crash by a class and a route, whatever its output
\* has: no block, no class, no triggering step.
THEOREM SignatureIsPair == \A c \in Crashes : SignatureOf[c] \in [class : Nat, route : Nat]
<1> SUFFICES ASSUME NEW c \in Crashes PROVE SignatureOf[c] \in [class : Nat, route : Nat]
  OBVIOUS
<1> DEFINE d == ParseDetection(CrashOf[c].output)
<1>1. CrashOf[c].output \in Seq(Block) /\ CrashOf[c].claim \in Nat
  BY ReportAssumption DEF Crash, Classes
<1>2. PrimaryClass(d) \in Nat /\ TriggerRoute(d) \in Nat
  BY <1>1, ParsedBlock, BlockFacts
<1>3. /\ FirstOf(PrimaryClass(d), FirstOf(CrashOf[c].claim, Unknown)) \in Nat
      /\ FirstOf(TriggerRoute(d), NoRoute) \in Nat
  BY <1>1, <1>2 DEF FirstOf, Unknown, NoRoute
<1> QED
  BY <1>3 DEF SignatureOf, Signature

-----------------------------------------------------------------------------
(* Numbers and representatives are unique                                  *)

LEMMA GroupIsPair ==
  ASSUME TypeOK
  PROVE  /\ Groups \subseteq [class : Nat, route : Nat]
         /\ PassedGroups \subseteq Groups
         /\ \A g : HasPassed(g) \in BOOLEAN
<1>1. \A r \in WithCrash : results[r].crash \in Crashes
  BY DEF WithCrash, TypeOK, Result
<1> QED
  BY <1>1, SignatureIsPair DEF Groups, PassedGroups, HasPassed

\* The sort key of both commands is a strict total order on the groups.
LEMMA OrderIsTotal ==
  ASSUME TypeOK, NEW g \in Groups, NEW h \in Groups
  PROVE  /\ ~Before(g, g)
         /\ g # h => Before(g, h) \/ Before(h, g)
         /\ \A k \in Groups : Before(k, g) /\ Before(g, h) => Before(k, h)
<1>1. /\ g \in [class : Nat, route : Nat] /\ h \in [class : Nat, route : Nat]
      /\ HasPassed(g) \in BOOLEAN /\ HasPassed(h) \in BOOLEAN
  BY GroupIsPair
<1>2. ~Before(g, g)
  BY <1>1 DEF Before, SignatureBefore
<1>3. g # h => Before(g, h) \/ Before(h, g)
  <2>1. g # h => g.class # h.class \/ g.route # h.route
    BY <1>1
  <2>2. g # h => SignatureBefore(g, h) \/ SignatureBefore(h, g)
    BY <1>1, <2>1 DEF SignatureBefore
  <2> QED
    BY <1>1, <2>2 DEF Before
<1>4. ASSUME NEW k \in Groups, Before(k, g), Before(g, h)
      PROVE  Before(k, h)
  <2>1. k \in [class : Nat, route : Nat] /\ HasPassed(k) \in BOOLEAN
    BY GroupIsPair
  <2>2. SignatureBefore(k, g) /\ SignatureBefore(g, h) => SignatureBefore(k, h)
    BY <1>1, <2>1 DEF SignatureBefore
  <2> QED
    BY <1>1, <1>4, <2>1, <2>2 DEF Before
<1> QED
  BY <1>2, <1>3, <1>4

LEMMA GroupsFinite ==
  ASSUME TypeOK
  PROVE  IsFiniteSet(Groups)
<1>1. IsFiniteSet(Runs)
  BY ReportAssumption, FS_Interval DEF Runs
<1>2. IsFiniteSet(WithCrash)
  BY <1>1, FS_Subset DEF WithCrash
<1> DEFINE f == [r \in WithCrash |-> SignatureOf[results[r].crash]]
<1>3. f \in Surjection(WithCrash, Groups)
  BY DEF Surjection, Groups
<1> QED
  BY <1>2, <1>3, FS_Surjection

\* A group that sorts before another has a smaller number.
LEMMA NumbersGrow ==
  ASSUME TypeOK, NEW g \in Groups, NEW h \in Groups, Before(g, h)
  PROVE  NumberOf(g, Groups) < NumberOf(h, Groups)
<1> DEFINE below(x) == {k \in Groups : Before(k, x)}
<1>1. IsFiniteSet(below(g)) /\ IsFiniteSet(below(h))
  BY GroupsFinite, FS_Subset
<1>2. g \notin below(g) /\ below(g) \cup {g} \subseteq below(h)
  BY OrderIsTotal
<1>3. /\ Cardinality(below(g)) \in Nat /\ Cardinality(below(h)) \in Nat
      /\ Cardinality(below(g) \cup {g}) = Cardinality(below(g)) + 1
  BY <1>1, <1>2, FS_AddElement, FS_CardinalityType
<1>4. Cardinality(below(g) \cup {g}) <= Cardinality(below(h))
  BY <1>1, <1>2, FS_Subset
<1> QED
  BY <1>3, <1>4 DEF NumberOf

\* The group that each bug_NN stands for, when all groups are numbered, and the
\* representative of each group.
Numbering    == {p \in Bugs \X Groups : NumberOf(p[2], Groups) = p[1]}
Representing == {p \in Runs \X Groups : IsRepresentative(p[1], p[2])}

LEMMA NumberIsUnique ==
  ASSUME TypeOK, NEW b \in Bugs, NEW g, NEW h, <<b, g>> \in Numbering, <<b, h>> \in Numbering
  PROVE  g = h
<1>1. b \in Nat
  BY ReportAssumption DEF Bugs
<1>2. /\ g \in Groups /\ NumberOf(g, Groups) = b
      /\ h \in Groups /\ NumberOf(h, Groups) = b
  BY DEF Numbering
<1> QED
  BY <1>1, <1>2, OrderIsTotal, NumbersGrow

\* --only-passed drops groups before they are numbered, and leaves the others
\* their numbers: the passed groups come first.
LEMMA PassedKeepNumber ==
  ASSUME TypeOK, NEW g \in PassedGroups
  PROVE  NumberOf(g, PassedGroups) = NumberOf(g, Groups)
<1>1. PassedGroups \subseteq Groups /\ HasPassed(g) = TRUE
  BY GroupIsPair DEF HasPassed
<1>2. \A h \in Groups : Before(h, g) => h \in PassedGroups
  BY <1>1, GroupIsPair DEF Before, HasPassed
<1>3. {h \in PassedGroups : Before(h, g)} = {h \in Groups : Before(h, g)}
  BY <1>1, <1>2
<1> QED
  BY <1>3 DEF NumberOf

LEMMA NumberedStands ==
  ASSUME TypeOK, NEW among \in {Groups, PassedGroups}, NEW b \in Bugs,
         Numbered(among)[b] # NoSignature
  PROVE  <<b, Numbered(among)[b]>> \in Numbering
<1> DEFINE g == Numbered(among)[b]
<1>1. g \in among /\ NumberOf(g, among) = b
  BY DEF Numbered
<1>2. CASE among = Groups
  BY <1>1, <1>2 DEF Numbering
<1>3. CASE among = PassedGroups
  BY <1>1, <1>3, PassedKeepNumber, GroupIsPair DEF Numbering
<1> QED
  BY <1>2, <1>3

\* _pick_representative has no ties: the path decides at last.
LEMMA RepresentativeIsUnique ==
  ASSUME TypeOK, NEW g, NEW r, NEW s, <<r, g>> \in Representing, <<s, g>> \in Representing
  PROVE  r = s
<1> SUFFICES ASSUME r # s PROVE FALSE
  OBVIOUS
<1>0. IsRepresentative(r, g) /\ IsRepresentative(s, g)
  BY DEF Representing
<1>1. KeyBefore(Key(r), Key(s)) /\ KeyBefore(Key(s), Key(r))
  BY <1>0 DEF IsRepresentative
<1>2. \A x \in {r, s} : \A i \in 1 .. 4 : Key(x)[i] \in Int
  <2> TAKE x \in {r, s}
  <2>1. x \in Runs /\ results[x].crash \in Crashes /\ results[x].score \in Nat
    <3>1. x \in Runs /\ results[x].crash # NoCrash
      BY <1>0 DEF IsRepresentative, Entries, WithCrash
    <3>2. results[x].crash \in Crashes \cup {NoCrash} /\ results[x].score \in Scores \cup {0}
      BY <3>1 DEF TypeOK, Result
    <3>3. \A score \in Scores \cup {0} : score \in Nat
      BY ReportAssumption
    <3> QED
      BY <3>1, <3>2, <3>3
  <2>2. StatusOrder(results[x]) \in Int /\ 0 - results[x].score \in Int
    BY <2>1 DEF StatusOrder
  <2>3. CrashOf[results[x].crash].poc \in Int /\ x \in Int
    BY <2>1, ReportAssumption DEF Crash, Runs
  <2> QED
    BY <2>2, <2>3 DEF Key
<1>3. PICK i \in 1 .. 4 : /\ Key(r)[i] < Key(s)[i]
                          /\ \A j \in 1 .. (i - 1) : Key(r)[j] = Key(s)[j]
  BY <1>1 DEF KeyBefore
<1>4. PICK k \in 1 .. 4 : /\ Key(s)[k] < Key(r)[k]
                          /\ \A j \in 1 .. (k - 1) : Key(s)[j] = Key(r)[j]
  BY <1>1 DEF KeyBefore
<1>5. i < k \/ i = k \/ k < i
  OBVIOUS
<1> QED
  BY <1>2, <1>3, <1>4, <1>5


-----------------------------------------------------------------------------
(* The commands agree                                                      *)

\* Coroutines work for the group of their number, on its representative.
NumbersKept ==
  /\ ~Up => \A b \in Bugs : at[b] = "none"
  /\ \A b \in Bugs : at[b] # "none" => <<b, items[b]>> \in Numbering
  /\ \A b \in Bugs : at[b] = "running" =>
       \E r \in Runs : <<r, items[b]>> \in Representing /\ hand[b] = results[r].crash

\* What is current is on disk, for the group of its number and about its
\* representative.
CurrentOnDisk ==
  \A b \in current :
    /\ reports[b].status = "report_submitted" /\ <<b, reports[b].sig>> \in Numbering
    /\ \E r \in Runs : /\ <<r, reports[b].sig>> \in Representing
                      /\ reports[b].about = results[r].crash

\* Without --fresh, what a report command has still to do is not current.
NotTakenAgain ==
  command.name = "report" /\ ~command.fresh => \A b \in Bugs : Active(b) => b \notin current

Agreement == NumbersKept /\ CurrentOnDisk /\ NotTakenAgain /\ PatchGetsCurrentReport

\* The numbers and the representatives depend on the results alone.
LEMMA SameResults ==
  ASSUME UNCHANGED results
  PROVE  Numbering' = Numbering /\ Representing' = Representing
<1>1. WithCrash' = WithCrash
  BY DEF WithCrash
<1>2. Groups' = Groups /\ \A g : Entries(g)' = Entries(g)
  BY <1>1 DEF Groups, Entries
<1>3. \A g : HasPassed(g)' = HasPassed(g)
  BY <1>1 DEF HasPassed, PassedGroups
<1>4. \A g, h : Before(g, h)' <=> Before(g, h)
  BY <1>3 DEF Before
<1>5. \A g : NumberOf(g, Groups)' = NumberOf(g, Groups)
  <2> TAKE g
  <2>1. {h \in Groups' : Before(h, g)'} = {h \in Groups : Before(h, g)}
    BY <1>2, <1>4
  <2> QED
    BY <2>1 DEF NumberOf
<1>6. \A r : Key(r)' = Key(r)
  BY DEF Key, StatusOrder
<1>7. \A r, g : IsRepresentative(r, g)' <=> IsRepresentative(r, g)
  BY <1>2, <1>6 DEF IsRepresentative, KeyBefore
<1> QED
  BY <1>2, <1>5, <1>7 DEF Numbering, Representing

\* A command that ends, or a coroutine that returns, leaves the others alone.
LEMMA EndAgrees ==
  ASSUME Agreement, NEW code, Ends(code), UNCHANGED results, CurrentOnDisk'
  PROVE  Agreement'
BY DEF Agreement, NumbersKept, NotTakenAgain, PatchGetsCurrentReport, Ends, Idle, Up

LEMMA ReturnAgrees ==
  ASSUME ReportInv, Agreement, NEW b \in Bugs, NEW how \in {"good", "bad", "raised"}, Returns(b, how), Up,
         at[b] \in {"waiting", "running"}, UNCHANGED results, CurrentOnDisk', current' \ {b} = current \ {b},
         command.name = "patch" => UNCHANGED current
  PROVE  Agreement'
<1>1. /\ at' = [at EXCEPT ![b] = how] /\ at'[b] = how /\ at \in [Bugs -> Steps]
      /\ \A a \in Bugs \ {b} : at'[a] = at[a] /\ hand'[a] = hand[a] /\ given'[a] = given[a]
      /\ UNCHANGED <<command, items>> /\ current \subseteq Bugs
  BY DEF Returns, ReportInv, TypeOK, Steps
<1>2. NumbersKept'
  <2>1. Numbering' = Numbering /\ Representing' = Representing
    BY SameResults
  <2> SUFFICES ASSUME NEW a \in Bugs, at'[a] # "none"
               PROVE  /\ <<a, items'[a]>> \in Numbering'
                      /\ at'[a] = "running" =>
                           \E r \in Runs : <<r, items'[a]>> \in Representing' /\ hand'[a] = results'[r].crash
    BY <1>1 DEF NumbersKept, Up
  <2>2. at[a] # "none" /\ items'[a] = items[a]
    BY <1>1
  <2>3. <<a, items'[a]>> \in Numbering'
    BY <2>1, <2>2 DEF Agreement, NumbersKept
  <2>4. ASSUME at'[a] = "running"
        PROVE  \E r \in Runs : <<r, items'[a]>> \in Representing' /\ hand'[a] = results'[r].crash
    BY <1>1, <2>1, <2>2, <2>4 DEF Agreement, NumbersKept
  <2> QED
    BY <2>3, <2>4
<1>3. NotTakenAgain'
  BY <1>1 DEF Agreement, NotTakenAgain, Active
<1>4. PatchGetsCurrentReport'
  BY <1>1 DEF Agreement, PatchGetsCurrentReport
<1> QED
  BY <1>2, <1>3, <1>4 DEF Agreement

LEMMA RaiseAgrees ==
  ASSUME ReportInv, Agreement, NEW b \in Bugs, Raises(b), Up, at[b] \in {"waiting", "running"},
         UNCHANGED results, CurrentOnDisk', current' \ {b} = current \ {b},
         command.name = "patch" => UNCHANGED current
  PROVE  Agreement'
BY ReturnAgrees, EndAgrees DEF Raises

\* Reports that are no longer current may change, the others keep their place.
LEMMA CurrentKept ==
  ASSUME ReportInv, CurrentOnDisk, UNCHANGED results, current' \subseteq current,
         \A a \in current' : reports'[a] = reports[a]
  PROVE  CurrentOnDisk'
<1>1. Numbering' = Numbering /\ Representing' = Representing
  BY SameResults
<1> QED
  BY <1>1 DEF CurrentOnDisk

LEMMA StartReportAgrees == ReportInv /\ Agreement /\ StartReport => Agreement'
<1> SUFFICES ASSUME ReportInv, Agreement, NEW chosen \in {Groups, PassedGroups}, ~Up,
                    items' = Numbered(chosen),
                    NEW parallel \in BOOLEAN, NEW fresh \in BOOLEAN, Starts("report", parallel, fresh),
                    at' = [b \in Bugs |->
                             IF items'[b] = NoSignature THEN "none"
                             ELSE IF ~fresh /\ Checkpoint(b, items'[b]) THEN "skipped"
                             ELSE "waiting"]
             PROVE  Agreement'
  BY DEF StartReport
<1>1. /\ UNCHANGED <<results, reports, current>> /\ command'.name = "report" /\ command'.fresh = fresh
      /\ TypeOK /\ current \subseteq Bugs
  BY DEF Starts, onDisk, ReportInv, TypeOK
<1>2. Numbering' = Numbering /\ Representing' = Representing
  BY <1>1, SameResults
<1>3. \A b \in Bugs : at'[b] # "none" => <<b, items'[b]>> \in Numbering
  BY <1>1, NumberedStands
<1>4. NumbersKept'
  BY <1>1, <1>2, <1>3 DEF NumbersKept, Up
<1>5. CurrentOnDisk'
  BY <1>1, CurrentKept DEF Agreement
<1>6. NotTakenAgain'
  <2> SUFFICES ASSUME ~fresh, NEW b \in Bugs, at'[b] = "waiting", b \in current PROVE FALSE
    BY <1>1 DEF NotTakenAgain, Active
  <2>1. reports[b].status = "report_submitted" /\ <<b, reports[b].sig>> \in Numbering
    BY DEF Agreement, CurrentOnDisk
  <2>2. reports[b].sig = items'[b]
    BY <1>1, <1>3, <2>1, NumberIsUnique
  <2> QED
    BY <2>1, <2>2 DEF Checkpoint
<1> QED
  BY <1>1, <1>4, <1>5, <1>6 DEF Agreement, PatchGetsCurrentReport

LEMMA StartPatchAgrees == ReportInv /\ Agreement /\ StartPatch => Agreement'
<1> SUFFICES ASSUME ReportInv, Agreement, NEW wanted, items' = OnlyBugs(wanted, Groups),
                    NEW parallel \in BOOLEAN, Starts("patch", parallel, FALSE),
                    at' = [b \in Bugs |-> IF items'[b] = NoSignature THEN "none" ELSE "waiting"]
             PROVE  Agreement'
  BY DEF StartPatch
<1>1. /\ UNCHANGED <<results, reports, current>> /\ command'.name = "patch"
      /\ TypeOK /\ current \subseteq Bugs
  BY DEF Starts, onDisk, ReportInv, TypeOK
<1>2. Numbering' = Numbering /\ Representing' = Representing
  BY <1>1, SameResults
<1>3. \A b \in Bugs : at'[b] # "none" => <<b, items'[b]>> \in Numbering
  <2> TAKE b \in Bugs
  <2>1. items'[b] = Numbered(Groups)[b] \/ items'[b] = NoSignature
    BY DEF OnlyBugs
  <2> QED
    BY <1>1, <2>1, NumberedStands
<1>4. NumbersKept'
  BY <1>1, <1>2, <1>3 DEF NumbersKept, Up
<1>5. CurrentOnDisk'
  BY <1>1, CurrentKept DEF Agreement
<1> QED
  BY <1>1, <1>4, <1>5 DEF Agreement, NotTakenAgain, PatchGetsCurrentReport

\* A resumed run makes nothing current, a streaming batch takes a report away.
LEMMA LandAgrees ==
  ASSUME ReportInv, Agreement, NEW r \in Runs, LandResult(r)
  PROVE  Agreement'
<1>1. /\ \A b \in Bugs : at[b] = "none"
      /\ command.name = "none" /\ current' = {} /\ UNCHANGED <<at, command>>
  BY DEF LandResult, inside, Agreement, NumbersKept, Up
<1> QED
  BY <1>1 DEF Agreement, NumbersKept, CurrentOnDisk, NotTakenAgain, PatchGetsCurrentReport, Up

LEMMA StreamAgrees ==
  ASSUME ReportInv, Agreement, NEW r \in Runs, StreamReport(r)
  PROVE  Agreement'
<1>1. /\ \A b \in Bugs : at[b] = "none"
      /\ command.name = "none" /\ UNCHANGED <<results, at, command>>
  BY DEF StreamReport, inside, Agreement, NumbersKept, Up
<1>2. current' \subseteq current /\ \A a \in current' : reports'[a] = reports[a]
  BY DEF StreamReport, ReportInv, TypeOK
<1>3. CurrentOnDisk'
  BY <1>1, <1>2, CurrentKept DEF Agreement
<1> QED
  BY <1>1, <1>3 DEF Agreement, NumbersKept, NotTakenAgain, PatchGetsCurrentReport, Up


\* A report or patch agent gets the representative of its group.
LEMMA BeginFacts ==
  ASSUME ReportInv, Agreement, NEW b \in Bugs, at[b] = "waiting", at' = [at EXCEPT ![b] = "running"],
         NEW r \in Runs, IsRepresentative(r, items[b]),
         hand' = [hand EXCEPT ![b] = results[r].crash], Up,
         UNCHANGED <<onDisk, command, items, current>>
  PROVE  NumbersKept' /\ CurrentOnDisk' /\ NotTakenAgain' /\ <<r, items[b]>> \in Representing
<1>1. /\ UNCHANGED <<results, reports, command, items, current>> /\ current \subseteq Bugs
      /\ at \in [Bugs -> Steps] /\ hand \in [Bugs -> Crashes \cup {NoCrash}]
  BY DEF onDisk, ReportInv, TypeOK, Steps
<1>2. Numbering' = Numbering /\ Representing' = Representing
  BY <1>1, SameResults
<1>3. <<r, items[b]>> \in Representing
  <2>1. <<b, items[b]>> \in Numbering
    BY DEF Agreement, NumbersKept
  <2> QED
    BY <2>1 DEF Numbering, Representing
<1>4. NumbersKept'
  <2> SUFFICES ASSUME NEW a \in Bugs, at'[a] # "none"
               PROVE  /\ <<a, items[a]>> \in Numbering
                      /\ at'[a] = "running" =>
                           \E q \in Runs : <<q, items[a]>> \in Representing /\ hand'[a] = results[q].crash
    BY <1>1, <1>2 DEF NumbersKept, Up
  <2>1. CASE a = b
    BY <1>1, <1>3, <2>1 DEF Agreement, NumbersKept
  <2>2. CASE a # b
    BY <1>1, <2>2 DEF Agreement, NumbersKept
  <2> QED
    BY <2>1, <2>2
<1>5. CurrentOnDisk'
  BY <1>1, CurrentKept DEF Agreement
<1>6. NotTakenAgain'
  BY <1>1 DEF Agreement, NotTakenAgain, Active
<1> QED
  BY <1>3, <1>4, <1>5, <1>6

LEMMA BeginReportAgrees ==
  ASSUME ReportInv, Agreement, NEW b \in Bugs, BeginReport(b)
  PROVE  Agreement'
<1>1. PICK r \in Runs : /\ IsRepresentative(r, items[b])
                        /\ hand' = [hand EXCEPT ![b] = results[r].crash]
  BY DEF BeginReport
<1>2. /\ at[b] = "waiting" /\ at' = [at EXCEPT ![b] = "running"] /\ Up
      /\ command.name = "report" /\ UNCHANGED <<onDisk, command, items, current>>
  BY DEF BeginReport, Turn, Up
<1>3. NumbersKept' /\ CurrentOnDisk' /\ NotTakenAgain'
  BY <1>1, <1>2, BeginFacts
<1> QED
  BY <1>2, <1>3 DEF Agreement, PatchGetsCurrentReport

\* `patch` picks the crash again that a current report is about.
LEMMA BeginPatchAgrees ==
  ASSUME ReportInv, Agreement, NEW b \in Bugs, BeginPatch(b)
  PROVE  Agreement'
<1>1. PICK r \in Runs : /\ IsRepresentative(r, items[b])
                        /\ hand' = [hand EXCEPT ![b] = results[r].crash]
  BY DEF BeginPatch
<1>2. /\ at[b] = "waiting" /\ at' = [at EXCEPT ![b] = "running"] /\ Up
      /\ command.name = "patch" /\ UNCHANGED <<onDisk, command, items, current>>
      /\ given' = [given EXCEPT ![b] = reports[b].about]
  BY DEF BeginPatch, Turn, Up
<1>3. NumbersKept' /\ CurrentOnDisk' /\ NotTakenAgain' /\ <<r, items[b]>> \in Representing
  BY <1>1, <1>2, BeginFacts
<1>4. TypeOK /\ <<b, items[b]>> \in Numbering
  BY <1>2 DEF ReportInv, Agreement, NumbersKept
<1>5. b \in current => reports[b].about = results[r].crash
  <2> SUFFICES ASSUME b \in current PROVE reports[b].about = results[r].crash
    OBVIOUS
  <2>1. reports[b].sig = items[b]
    BY <1>4, NumberIsUnique DEF Agreement, CurrentOnDisk
  <2>2. PICK s \in Runs : <<s, items[b]>> \in Representing /\ reports[b].about = results[s].crash
    BY <2>1 DEF Agreement, CurrentOnDisk
  <2> QED
    BY <1>3, <1>4, <2>2, RepresentativeIsUnique
<1>6. PatchGetsCurrentReport'
  <2> SUFFICES ASSUME NEW a \in current, at'[a] = "running" PROVE given'[a] = hand'[a]
    BY <1>2 DEF PatchGetsCurrentReport
  <2>1. CASE a = b
    BY <1>1, <1>2, <1>4, <1>5, <2>1 DEF TypeOK
  <2>2. CASE a # b
    BY <1>1, <1>2, <1>4, <2>2 DEF TypeOK, Agreement, PatchGetsCurrentReport
  <2> QED
    BY <2>1, <2>2
<1> QED
  BY <1>3, <1>6 DEF Agreement

\* A submitted report is about the representative that its agent was given.
LEMMA EndReportAgrees ==
  ASSUME ReportInv, Agreement, NEW b \in Bugs, EndReport(b)
  PROVE  Agreement'
<1>1. PICK f \in WrittenReports(items[b], hand[b], FALSE) :
        /\ reports' = [reports EXCEPT ![b] = f]
        /\ Returns(b, IF f.status = "report_submitted" THEN "good" ELSE "bad")
        /\ current' = IF f.status = "report_submitted" THEN current \cup {b} ELSE current \ {b}
  BY DEF EndReport
<1>2. /\ at[b] = "running" /\ command.name = "report" /\ Up /\ UNCHANGED results
      /\ reports \in [Bugs -> Report] /\ current \subseteq Bugs
  BY DEF EndReport, Up, ReportInv, TypeOK
<1>3. f.status = "report_submitted" => f.sig = items[b] /\ f.about = hand[b]
  BY <1>1 DEF WrittenReports, Unsubmitted
<1>4. Numbering' = Numbering /\ Representing' = Representing
  BY <1>2, SameResults
<1>5. CurrentOnDisk'
  <2> SUFFICES ASSUME NEW a \in current'
               PROVE  /\ reports'[a].status = "report_submitted" /\ <<a, reports'[a].sig>> \in Numbering
                      /\ \E r \in Runs : /\ <<r, reports'[a].sig>> \in Representing
                                        /\ reports'[a].about = results[r].crash
    BY <1>2, <1>4 DEF CurrentOnDisk
  <2>1. CASE a = b
    <3>1. f.status = "report_submitted" /\ reports'[a] = f
      BY <1>1, <1>2, <2>1
    <3> QED
      BY <1>2, <1>3, <2>1, <3>1 DEF Agreement, NumbersKept
  <2>2. CASE a # b
    <3>1. a \in current /\ reports'[a] = reports[a]
      BY <1>1, <1>2, <2>2
    <3> QED
      BY <3>1 DEF Agreement, CurrentOnDisk
  <2> QED
    BY <2>1, <2>2
<1>6. current' \ {b} = current \ {b}
  BY <1>1
<1> QED
  BY <1>1, <1>2, <1>5, <1>6, ReturnAgrees

LEMMA OtherBugStepsAgree ==
  ASSUME ReportInv, Agreement, NEW b \in Bugs, WriteFails(b) \/ ReadFails(b) \/ EndPatch(b)
  PROVE  Agreement'
<1>1. current \subseteq Bugs /\ reports \in [Bugs -> Report]
  BY DEF ReportInv, TypeOK
<1>2. /\ UNCHANGED results /\ Up /\ at[b] \in {"waiting", "running"}
      /\ current' \subseteq current /\ current' \ {b} = current \ {b}
      /\ \A a \in current' : reports'[a] = reports[a]
      /\ command.name = "patch" => UNCHANGED current
  BY <1>1 DEF WriteFails, ReadFails, EndPatch, Turn, Up, onDisk
<1>3. CurrentOnDisk'
  BY <1>2, CurrentKept DEF Agreement
<1>4. CASE EndPatch(b)
  BY <1>2, <1>3, <1>4, ReturnAgrees DEF EndPatch
<1>5. CASE WriteFails(b) \/ ReadFails(b)
  BY <1>2, <1>3, <1>5, RaiseAgrees DEF WriteFails, ReadFails
<1> QED
  BY <1>4, <1>5

LEMMA FinishKillAgree == ReportInv /\ Agreement /\ (Finish \/ Kill) => Agreement'
<1> SUFFICES ASSUME ReportInv, Agreement, Finish \/ Kill PROVE Agreement'
  OBVIOUS
<1>1. current \subseteq Bugs /\ reports \in [Bugs -> Report]
  BY DEF ReportInv, TypeOK
<1>2. /\ UNCHANGED results /\ current' \subseteq current
      /\ \A a \in current' : reports'[a] = reports[a]
      /\ \E code : Ends(code)
  BY <1>1 DEF Finish, Kill, onDisk
<1>3. CurrentOnDisk'
  BY <1>2, CurrentKept DEF Agreement
<1> QED
  BY <1>2, <1>3, EndAgrees

LEMMA NextAgrees == ReportInv /\ Agreement /\ [Next]_vars => Agreement'
<1> SUFFICES ASSUME ReportInv, Agreement, [Next]_vars PROVE Agreement'
  OBVIOUS
<1>1. CASE UNCHANGED vars
  <2>1. UNCHANGED <<results, reports, command, items, at, hand, given, current>>
    BY <1>1 DEF vars, onDisk, inside
  <2>2. Numbering' = Numbering /\ Representing' = Representing
    BY <2>1, SameResults
  <2> QED
    BY <2>1, <2>2 DEF Agreement, NumbersKept, CurrentOnDisk, NotTakenAgain, PatchGetsCurrentReport,
                      Active, Up
<1>2. ASSUME NEW b \in Bugs, BugStep(b) PROVE Agreement'
  BY <1>2, BeginReportAgrees, EndReportAgrees, BeginPatchAgrees, OtherBugStepsAgree DEF BugStep
<1> QED
  BY <1>1, <1>2, LandAgrees, StreamAgrees, StartReportAgrees, StartPatchAgrees, FinishKillAgree DEF Next

-----------------------------------------------------------------------------
(* Theorems                                                                *)

\* The numbers, the representatives and the reports go together at every step of
\* both commands, and between them.
THEOREM AgreementAlways == Spec => []Agreement
<1>1. Init => Agreement
  BY DEF Init, Idle, Agreement, NumbersKept, CurrentOnDisk, NotTakenAgain, PatchGetsCurrentReport, Up
<1> QED
  BY <1>1, NextAgrees, ReportInvariance, PTL DEF Spec

\* With the results unchanged, `patch` gives the agent of a bug the report on the
\* very crash it is given, whichever flags the report was made with.
THEOREM PatchReportsCurrent == Spec => []PatchGetsCurrentReport
<1>1. Agreement => PatchGetsCurrentReport
  BY DEF Agreement
<1> QED
  BY <1>1, AgreementAlways, PTL

\* `report` replaces a report that is current with --fresh only.
THEOREM CurrentNotRedone == Spec => SubmittedNotRedone
<1> DEFINE Kept == \A b \in current : reports'[b] # reports[b] /\ Up => command.fresh
<1>1. ASSUME ReportInv, Agreement, [Next]_vars PROVE [Kept]_vars
  <2> SUFFICES ASSUME NEW b \in current, reports'[b] # reports[b], Up PROVE command.fresh
    OBVIOUS
  <2>1. b \in Bugs /\ reports \in [Bugs -> Report] /\ command.fresh \in BOOLEAN
    BY <1>1 DEF ReportInv, TypeOK, CommandType
  <2>2. command.name = "report" /\ at[b] = "running"
    <3>1. ~UNCHANGED reports /\ ~UNCHANGED vars
      BY DEF vars, onDisk
    <3>2. CASE Kill
      BY <2>1, <3>1, <3>2 DEF Kill
    <3>3. CASE \E a \in Bugs : BugStep(a)
      <4>1. PICK a \in Bugs : EndReport(a) \/ WriteFails(a)
        BY <3>1, <3>3 DEF BugStep, BeginReport, BeginPatch, ReadFails, EndPatch, onDisk
      <4>2. command.name = "report" /\ at[a] = "running" /\ \E f : reports' = [reports EXCEPT ![a] = f]
        BY <4>1 DEF EndReport, WriteFails
      <4> QED
        BY <2>1, <4>2
    <3>4. CASE \E r \in Runs : LandResult(r) \/ StreamReport(r)
      BY <3>4 DEF LandResult, StreamReport
    <3>5. CASE StartReport \/ StartPatch \/ Finish
      BY <3>1, <3>5 DEF StartReport, StartPatch, Starts, Finish, onDisk
    <3> QED
      BY <1>1, <3>1, <3>2, <3>3, <3>4, <3>5 DEF Next
  <2> QED
    BY <1>1, <2>1, <2>2 DEF Agreement, NotTakenAgain, Active
<1> QED
  BY <1>1, ReportInvariance, AgreementAlways, PTL DEF Spec, SubmittedNotRedone

=============================================================================
