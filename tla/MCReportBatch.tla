---------------------------- MODULE MCReportBatch ----------------------------
(* Instances of ReportBatch for TLC: two classes of the precedence list    *)
(* whose names sort the other way round, a crash with a larger PoC, one    *)
(* that the agent misnamed and one without a block that parses.            *)
EXTENDS ReportBatch

Uncaught  == 7   \* UNCAUGHT_EXCEPTION
Integrity == 3   \* DATA_INTEGRITY_VIOLATION
Server    == 8   \* UNEXPECTED_5XX
GetRoute  == 2
PostRoute == 3

\* DATA_INTEGRITY_VIOLATION, CROSS_ACCOUNT_ACCESS, ORIGIN_ESCAPE, ...
SourcePrecedence == <<3, 2, 6, 1, 9, 5, 7, 8, 4>>

Steps == <<[step |-> 1, route |-> GetRoute], [step |-> 2, route |-> PostRoute]>>
Fired(primary, classes, trigger) ==
  [parsed |-> TRUE, primary |-> primary, classes |-> classes, http |-> Steps, trigger |-> trigger]

Named     == [claim |-> Integrity, poc |-> 1, output |-> <<Fired(Integrity, <<>>, 2), NoBlock>>]
Longer    == [Named EXCEPT !.poc = 2]
Misnamed  == [claim |-> Integrity, poc |-> 1, output |-> <<Fired(0, <<Server, Uncaught>>, 2)>>]
Unchecked == [claim |-> Server, poc |-> 1, output |-> <<NoBlock>>]

Contents == [named |-> Named, longer |-> Longer, misnamed |-> Misnamed, unchecked |-> Unchecked]

SomeCrashes == {"named", "longer", "misnamed"}
SomeContents == [c \in SomeCrashes |-> Contents[c]]
=============================================================================
