---------------------------- MODULE TriageLedger ----------------------------
(***************************************************************************)
(* What streaming triage promises, without processes, locks, files or      *)
(* restarts: a ledger of distinct root causes, and for each graded crash   *)
(* at most one verdict, which assigns it to the bug of its own root cause. *)
(* StreamBatch with an honest judge implements it (StreamRefinement).      *)
(***************************************************************************)
EXTENDS Naturals, Sequences, Functions

CONSTANTS Runs, Causes, NoCrash

VARIABLES
  graded,  \* the graded crash of each run, or NoCrash
  ledger,  \* the root cause of bug 1, 2, ...
  verdict  \* the bug each run's crash was assigned to, 0 if none yet

ledgerVars == <<graded, ledger, verdict>>

Init ==
  /\ graded = [r \in Runs |-> NoCrash]
  /\ ledger = <<>>
  /\ verdict = [r \in Runs |-> 0]

\* A crash passes through grading: once per run, and for good.
Grade(r) ==
  /\ graded[r] = NoCrash
  /\ \E c \in Causes : graded' = [graded EXCEPT ![r] = c]
  /\ UNCHANGED <<ledger, verdict>>

\* A root cause that is not in the ledger gets the next bug number.
Register(r) ==
  /\ graded[r] # NoCrash /\ verdict[r] = 0
  /\ graded[r] \notin Range(ledger)
  /\ ledger' = Append(ledger, graded[r])
  /\ UNCHANGED <<graded, verdict>>

\* A crash is assigned, once, to the bug of its root cause.
Assign(r) ==
  /\ graded[r] # NoCrash /\ verdict[r] = 0
  /\ \E b \in DOMAIN ledger :
       /\ ledger[b] = graded[r]
       /\ verdict' = [verdict EXCEPT ![r] = b]
  /\ UNCHANGED <<graded, ledger>>

Next == \E r \in Runs : Grade(r) \/ Register(r) \/ Assign(r)

Spec == Init /\ [][Next]_ledgerVars
=============================================================================
