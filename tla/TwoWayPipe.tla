----------------------------- MODULE TwoWayPipe -----------------------------
(***************************************************************************)
(* What a tunnel promises its two peers, who see neither threads nor       *)
(* deadlines: two independent directions, each of which hands over a       *)
(* prefix of what was sent; a direction is over when its sender has ended  *)
(* and everything is handed over, or when it is given up, and neither says *)
(* anything about the other one; the tunnel is closed when both are over.  *)
(* Egress implements it.                                                   *)
(***************************************************************************)
EXTENDS Naturals

CONSTANT Dirs

VARIABLES
  state,  \* "none", "open", "closed"
  sent,   \* pieces sent in each direction
  handed, \* pieces handed over in each direction
  ended,  \* directions whose sender has ended
  flow    \* of each direction: "flows", "drained", "given up"

pipeVars == <<state, sent, handed, ended, flow>>

Nothing == [d \in Dirs |-> 0]
Each(f) == [d \in Dirs |-> f]

Init ==
  /\ state = "none" /\ sent = Nothing /\ handed = Nothing /\ ended = {}
  /\ flow = Each("drained")

Open ==
  /\ state = "none" /\ state' = "open" /\ flow' = Each("flows")
  /\ UNCHANGED <<sent, handed, ended>>

Piece(d) ==
  /\ state = "open" /\ d \notin ended
  /\ sent' = [sent EXCEPT ![d] = @ + 1]
  /\ UNCHANGED <<state, handed, ended, flow>>

End(d) ==
  /\ state = "open" /\ d \notin ended /\ ended' = ended \cup {d}
  /\ UNCHANGED <<state, sent, handed, flow>>

HandOver(d) ==
  /\ state = "open" /\ flow[d] = "flows"
  /\ \E n \in (handed[d] + 1) .. sent[d] : handed' = [handed EXCEPT ![d] = n]
  /\ UNCHANGED <<state, sent, ended, flow>>

Drain(d) ==
  /\ state = "open" /\ flow[d] = "flows" /\ d \in ended /\ handed[d] = sent[d]
  /\ flow' = [flow EXCEPT ![d] = "drained"]
  /\ UNCHANGED <<state, sent, handed, ended>>

\* A socket broke, or there was nothing to hand over for too long.
GiveUp(d) ==
  /\ state = "open" /\ flow[d] = "flows"
  /\ flow' = [flow EXCEPT ![d] = "given up"]
  /\ UNCHANGED <<state, sent, handed, ended>>

Close ==
  /\ state = "open" /\ \A d \in Dirs : flow[d] # "flows"
  /\ state' = "closed" /\ UNCHANGED <<sent, handed, ended, flow>>

\* The tunnel is dropped after its end, or goes with the proxy before it.
Vanish ==
  /\ state # "none" /\ state' = "none"
  /\ sent' = Nothing /\ handed' = Nothing /\ ended' = {} /\ flow' = Each("drained")

Next ==
  \/ Open \/ Close \/ Vanish
  \/ \E d \in Dirs : Piece(d) \/ End(d) \/ HandOver(d) \/ Drain(d) \/ GiveUp(d)

Spec == Init /\ [][Next]_pipeVars
=============================================================================
