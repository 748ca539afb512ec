------------------------------- MODULE Detection -------------------------------
(***************************************************************************)
(* What src/harness/detection.py reads out of the output of a crash: the   *)
(* class and the route that dedup, `report` and `patch` group crashes by.  *)
(*                                                                         *)
(* Classes and routes are numbers in the order Python sorts their names    *)
(* in; 0 stands for None and for the empty string, which the code does not *)
(* tell apart.                                                             *)
(***************************************************************************)
EXTENDS Naturals, Sequences, FiniteSetsExt

CONSTANT Precedence  \* PRECEDENCE: classes, the highest first

ASSUME PrecedenceAssumption == Precedence \in Seq(Nat \ {0})

Classes == Nat
Routes  == Nat
NoRoute == 1   \* "<no-route>" sorts before every method name
Unknown == 99  \* "unknown" sorts after every class name

\* One <<<DETECTION>>> block: whether its JSON is an object, and what is in it.
Block == [parsed : BOOLEAN, primary : Classes, classes : Seq(Classes),
          http : Seq([step : Nat, route : Routes]), trigger : Nat]

NoBlock == [parsed |-> FALSE, primary |-> 0, classes |-> <<>>, http |-> <<>>, trigger |-> 0]

\* A crash of result.json: the agent's own crash_type, the blocks in
\* crash_output, and the length of the PoC.
Crash == [claim : Classes, output : Seq(Block), poc : Nat]

\* parse_detection: the last block that parses.
ParseDetection(output) ==
  LET good == {i \in DOMAIN output : output[i].parsed}
  IN  IF good = {} THEN NoBlock ELSE output[Max(good)]

\* primary_class: the runner's own; without it the first of PRECEDENCE that is
\* among the classes, or the first of the block when none of them is.
PrimaryClass(d) ==
  LET ranked == {p \in DOMAIN Precedence : \E i \in DOMAIN d.classes : d.classes[i] = Precedence[p]}
  IN  IF d.primary # 0 THEN d.primary
      ELSE IF ranked # {} THEN Precedence[Min(ranked)]
      ELSE IF d.classes # <<>> THEN d.classes[1] ELSE 0

\* trigger_route: the route of the first step with the index that tripped the
\* oracle, of the last step when none has it.
TriggerRoute(d) ==
  LET tripped == {i \in DOMAIN d.http : d.http[i].step = d.trigger}
  IN  IF d.http = <<>> THEN 0
      ELSE d.http[IF tripped # {} THEN Min(tripped) ELSE Len(d.http)].route

FirstOf(a, b) == IF a # 0 THEN a ELSE b

\* signature: what a crash is grouped by.
Signature(c) ==
  LET d == ParseDetection(c.output)
  IN  [class |-> FirstOf(PrimaryClass(d), FirstOf(c.claim, Unknown)),
       route |-> FirstOf(TriggerRoute(d), NoRoute)]
=============================================================================
