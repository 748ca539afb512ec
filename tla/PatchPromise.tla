---------------------------- MODULE PatchPromise ----------------------------
(***************************************************************************)
(* What `vuln-pipeline patch` promises of one bug, without containers,     *)
(* tiers, processes or the order of its writes: a bounded number of        *)
(* attempts, each an answer that is judged once and kept together with its *)
(* judgment; an outcome that tells the judgment of the last attempt.       *)
(* PatchLadder implements it (ImplementsPatchPromise).                     *)
(***************************************************************************)
EXTENDS Naturals

CONSTANTS
  Diffs,       \* patches
  None,        \* no answer, and nothing kept
  Empty,       \* an answer that is no patch
  MaxAttempts

VARIABLES
  step,      \* "closed" | "asking" for a patch | "judging" it
  attempts,  \* attempts that failed in this invocation
  answer,    \* the last answer of the invocation
  kept,      \* the patch that is kept, None if there is none to rely on
  good,      \* its judgment
  outcome    \* of the last invocation

promiseVars == <<step, attempts, answer, kept, good, outcome>>

Init ==
  /\ step = "closed" /\ attempts = 0 /\ answer = None
  /\ kept = None /\ good = FALSE /\ outcome = "none"

Close(o) == step' = "closed" /\ attempts' = 0 /\ answer' = None /\ outcome' = o

\* An attempt has failed, with a as the last answer: another one, or the end.
AttemptFails(a) ==
  IF attempts + 1 < MaxAttempts
  THEN step' = "asking" /\ attempts' = attempts + 1 /\ answer' = a /\ UNCHANGED outcome
  ELSE Close(IF a = None THEN "no_diff" ELSE "patch_rejected")

Start ==
  /\ step = "closed"
  /\ \/ step' = "asking" /\ outcome' = "none"
     \/ step' = "closed" /\ outcome' = "error"
  /\ UNCHANGED <<attempts, answer, kept, good>>

Answer ==
  /\ step = "asking"
  /\ step' = "judging" /\ answer' \in Diffs
  /\ UNCHANGED <<attempts, kept, good, outcome>>

\* No answer, or an unusable one, costs an attempt and leaves what is kept.
Waste ==
  /\ step = "asking"
  /\ AttemptFails(answer) \/ AttemptFails(Empty)
  /\ UNCHANGED <<kept, good>>

Verify ==
  /\ step = "judging"
  /\ kept' = answer /\ good' = TRUE
  /\ Close("patch_verified")

Reject ==
  /\ step = "judging"
  /\ kept' = answer /\ good' = FALSE
  /\ AttemptFails(answer)

\* An invocation breaks off and says so: what is kept stays, or, if it was
\* being replaced, cannot be relied on.
BreakOff ==
  /\ step # "closed"
  /\ Close("error") \/ Close("killed")
  /\ \/ UNCHANGED <<kept, good>>
     \/ step = "judging" /\ kept' = None /\ good' = FALSE

Next == Start \/ Answer \/ Waste \/ Verify \/ Reject \/ BreakOff

Spec == Init /\ [][Next]_promiseVars
=============================================================================
