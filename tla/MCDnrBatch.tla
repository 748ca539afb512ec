------------------------------ MODULE MCDnrBatch ------------------------------
(***************************************************************************)
(* Instance of DnrBatch: a batch of two runs, beside it one of a target with *)
(* one run whose name starts with that of the first. A first draft says that *)
(* the PoC of the walk over the orders has not fired; a second, which passes, *)
(* that it has, with the account takeover as an incident of its own; a third *)
(* tells there of the injection. The agent writes them in any order: what    *)
(* they add is retracted and weakened too.                                   *)
(***************************************************************************)
EXTENDS DnrBatch

MCNumRuns == [t \in Targets |-> IF t = "dnrcanary" THEN 2 ELSE 1]
MCMatched == [t \in Targets |-> IF t = "dnrcanary" THEN Targets ELSE {t}]

Sqli == [text |-> {"/search", "attackerIp", "users", "hash", "app.py", "sql", "rows stated"},
         claims |-> {"/search", "sql", "app.py"}, verdict |-> "confirmed_exploited", poc |-> "verified"]
Idor == [text |-> {"/orders", "secondIp", "personalData", "app.py", "mechanism", "sql"},
         claims |-> {"/orders", "app.py"}, verdict |-> "confirmed_exploited", poc |-> "not verified"]
Takeover == [text |-> {"/login", "account", "secondIp"}, claims |-> {"/login"},
             verdict |-> "confirmed_exploited", poc |-> "none"]
Burst == [text |-> {"sqlmap", "sql", "/login"}, claims |-> {}, verdict |-> "none", poc |-> "none"]

Replayed == [Idor EXCEPT !.poc = "verified"]
Told == [Takeover EXCEPT !.text = @ \cup {"sql"}]

MCDrafts == {[incidents |-> i, ruledOut |-> {Burst}] :
               i \in {{Sqli, Idor}, {Sqli, Replayed, Takeover}, {Sqli, Replayed, Told}}}
===============================================================================
