----------------------------- MODULE EgressTunnel -----------------------------
(***************************************************************************)
(* One CONNECT tunnel of scripts/egress_proxy.py: Handler._pump, with a    *)
(* relay thread for each direction that share the time of the last         *)
(* activity.  A direction is named by where its bytes go: "up" is relayed  *)
(* by the thread of the handler, "down" by the one it starts and joins.    *)
(*                                                                         *)
(* Bytes are counted in pieces.  A peer sends, ends its stream, stops      *)
(* draining, or says nothing any more, whenever it likes; recv takes any   *)
(* part of what has arrived and send any part of what was taken.           *)
(***************************************************************************)
EXTENDS Integers

CONSTANTS
  VpTunnelTimeout, \* the number in VP_TUNNEL_TIMEOUT, in ticks of the clock
  MaxUp, MaxDown   \* bound: pieces that are sent in each direction

ASSUME TunnelAssumption == VpTunnelTimeout \in Int /\ MaxUp \in Nat /\ MaxDown \in Nat

VARIABLES
  phase,   \* of the tunnel: "none", "open", or "closed"
  at,      \* where the thread of each direction is, or how it ended
  sent,    \* pieces that have arrived from the sender
  read,    \* pieces recv has returned
  fwd,     \* pieces send has taken
  fin,     \* directions whose sender has ended its stream
  stalled, \* directions whose receiver has stopped draining
  quiet,   \* now - last_activity, as each thread sees it
  silence  \* history: ticks since recv last returned a piece

tunnel == <<phase, at, sent, read, fwd, fin, stalled, quiet, silence>>

Dirs == {"up", "down"}
MaxSent == [d \in Dirs |-> IF d = "up" THEN MaxUp ELSE MaxDown]

\* _parse_tunnel_timeout: negative means disabled, like 0.
Timeout == IF VpTunnelTimeout > 0 THEN VpTunnelTimeout ELSE 0

\* A thread polls, has received a piece, or is in sendall; it ends at the end of
\* the stream, by the idle deadline, or by an OSError.
Relaying == {"poll", "stamp", "send"}
Ended(d) == at[d] \in {"eof", "idle", "error"}

NoTunnel ==
  /\ phase' = "none" /\ at' = [d \in Dirs |-> "eof"]
  /\ sent' = [d \in Dirs |-> 0] /\ read' = [d \in Dirs |-> 0] /\ fwd' = [d \in Dirs |-> 0]
  /\ fin' = {} /\ stalled' = {} /\ quiet' = [d \in Dirs |-> 0] /\ silence' = 0

TunnelInit ==
  /\ phase = "none" /\ at = [d \in Dirs |-> "eof"]
  /\ sent = [d \in Dirs |-> 0] /\ read = [d \in Dirs |-> 0] /\ fwd = [d \in Dirs |-> 0]
  /\ fin = {} /\ stalled = {} /\ quiet = [d \in Dirs |-> 0] /\ silence = 0

\* do_CONNECT has answered 200 and calls _pump.
Open ==
  /\ phase = "none" /\ phase' = "open"
  /\ at' = [d \in Dirs |-> "poll"]
  /\ UNCHANGED <<sent, read, fwd, fin, stalled, quiet, silence>>

-----------------------------------------------------------------------------
(* The peers and the clock                                                 *)

Arrive(d) ==
  /\ phase = "open" /\ d \notin fin /\ sent[d] < MaxSent[d]
  /\ sent' = [sent EXCEPT ![d] = @ + 1]
  /\ UNCHANGED <<phase, at, read, fwd, fin, stalled, quiet, silence>>

EndStream(d) ==
  /\ phase = "open" /\ d \notin fin /\ fin' = fin \cup {d}
  /\ UNCHANGED <<phase, at, sent, read, fwd, stalled, quiet, silence>>

\* It matters only when there is something to hand over.
Stall(d) ==
  /\ phase = "open" /\ at[d] = "send" /\ d \notin stalled /\ stalled' = stalled \cup {d}
  /\ UNCHANGED <<phase, at, sent, read, fwd, fin, quiet, silence>>

\* Ages above the deadline are not told apart.
Older(age) == IF age < Timeout THEN age + 1 ELSE age

Tick ==
  /\ phase = "open"
  /\ quiet' = [d \in Dirs |-> Older(quiet[d])] /\ silence' = Older(silence)
  /\ <<quiet, silence>>' # <<quiet, silence>>
  /\ UNCHANGED <<phase, at, sent, read, fwd, fin, stalled>>

-----------------------------------------------------------------------------
(* one_way                                                                 *)

\* Mutant: the end of a stream shuts both sockets down.
EndsBoth(d, how) == at' = [x \in Dirs |-> IF x = d \/ how = "eof" THEN how ELSE at[x]]

Ends(d, how) == at' = [at EXCEPT ![d] = how]

Readable(d) == read[d] < sent[d] \/ d \in fin

Reads(d) == (read[d] + 1) .. sent[d]

\* poll returns and recv with it.
Recv(d) ==
  /\ phase = "open" /\ at[d] = "poll" /\ Readable(d)
  /\ \/ /\ \E n \in Reads(d) : read' = [read EXCEPT ![d] = n]
        /\ Ends(d, "stamp") /\ silence' = 0
     \/ read[d] = sent[d] /\ Ends(d, "eof") /\ UNCHANGED <<read, silence>>
  /\ UNCHANGED <<phase, sent, fwd, fin, stalled, quiet>>

\* Mutant: a deadline for each direction.
OwnStamp(d) == [quiet EXCEPT ![d] = 0]

\* last_activity = time.monotonic()
Stamped(d) == [x \in Dirs |-> 0]

Stamp(d) ==
  /\ phase = "open" /\ at[d] = "stamp" /\ Ends(d, "send")
  /\ quiet' = Stamped(d)
  /\ UNCHANGED <<phase, sent, read, fwd, fin, stalled, silence>>

\* sendall hands over a part; with the last one the loop goes on.
Send(d) ==
  /\ phase = "open" /\ at[d] = "send" /\ d \notin stalled
  /\ \E n \in (fwd[d] + 1) .. read[d] :
       /\ fwd' = [fwd EXCEPT ![d] = n]
       /\ Ends(d, IF n = read[d] THEN "poll" ELSE "send")
  /\ UNCHANGED <<phase, sent, read, fin, stalled, quiet, silence>>

\* Mutant: only the client's socket has a timeout.
ClientTimesOut(d) ==
  /\ phase = "open" /\ at[d] = "send" /\ d = "down" /\ d \in stalled /\ Timeout > 0
  /\ Ends(d, "error")
  /\ UNCHANGED <<phase, sent, read, fwd, fin, stalled, quiet, silence>>

\* The socket timeout ends a sendall to a peer that stopped draining.
SendTimesOut(d) ==
  /\ phase = "open" /\ at[d] = "send" /\ d \in stalled /\ Timeout > 0
  /\ Ends(d, "error")
  /\ UNCHANGED <<phase, sent, read, fwd, fin, stalled, quiet, silence>>

\* A poll that times out ends the direction when the deadline has passed.
PollTimesOut(d) ==
  /\ phase = "open" /\ at[d] = "poll" /\ ~Readable(d)
  /\ Timeout > 0 /\ quiet[d] >= Timeout
  /\ Ends(d, "idle")
  /\ UNCHANGED <<phase, sent, read, fwd, fin, stalled, quiet, silence>>

\* A socket is reset under a recv or a send.
Breaks(d) ==
  /\ phase = "open" /\ at[d] \in {"poll", "send"} /\ Ends(d, "error")
  /\ UNCHANGED <<phase, sent, read, fwd, fin, stalled, quiet, silence>>

\* Mutant: the handler does not join the other thread.
CloseUnjoined ==
  /\ phase = "open" /\ Ended("up") /\ phase' = "closed"
  /\ UNCHANGED <<at, sent, read, fwd, fin, stalled, quiet, silence>>

\* The end of _pump: both directions are over, the sockets are closed.
Close ==
  /\ phase = "open" /\ \A d \in Dirs : Ended(d)
  /\ phase' = "closed"
  /\ UNCHANGED <<at, sent, read, fwd, fin, stalled, quiet, silence>>

\* The handler reads on: an end of stream, the timeout of the socket, or bytes
\* that are no request make it drop the connection.
Drop == phase = "closed" /\ NoTunnel

-----------------------------------------------------------------------------
Relay(d) == Recv(d) \/ Stamp(d) \/ Send(d) \/ SendTimesOut(d) \/ PollTimesOut(d)
Peer(d)  == Arrive(d) \/ EndStream(d) \/ Stall(d) \/ Breaks(d)

TunnelStep == (\E d \in Dirs : Relay(d) \/ Peer(d)) \/ Tick \/ Close \/ Drop

\* Threads are scheduled and time passes; peers owe nothing.
TunnelFairness ==
  /\ WF_tunnel((\E d \in Dirs : Relay(d)) \/ Close \/ Drop)
  /\ WF_tunnel(Tick)

-----------------------------------------------------------------------------
(* Properties                                                              *)

\* Values have their types, and nothing is relayed that was not received, nor
\* received that was not sent.
TunnelTypeOK ==
  /\ phase \in {"none", "open", "closed"}
  /\ at \in [Dirs -> Relaying \cup {"eof", "idle", "error"}]
  /\ sent \in [Dirs -> Nat] /\ read \in [Dirs -> Nat] /\ fwd \in [Dirs -> Nat]
  /\ \A d \in Dirs : fwd[d] <= read[d] /\ read[d] <= sent[d]
  /\ fin \subseteq Dirs /\ stalled \subseteq Dirs
  /\ quiet \in [Dirs -> 0 .. Timeout] /\ silence \in 0 .. Timeout

\* "let the opposite direction keep draining (a request's response can still be
\* in flight when the request side finishes)" (_pump): unless a socket broke or
\* the idle deadline passed, everything that was sent in either direction has
\* been handed over when the sockets are closed.
NothingCutOff ==
  phase = "closed" =>
    \/ \E d \in Dirs : at[d] \in {"idle", "error"}
    \/ \A d \in Dirs : fwd[d] = sent[d]

\* The refinement mapping to the pipe of the two peers.
FlowOf(end) == IF end \in Relaying THEN "flows" ELSE IF end = "eof" THEN "drained" ELSE "given up"
Flow        == [d \in Dirs |-> FlowOf(at[d])]

Pipe == INSTANCE TwoWayPipe WITH state <- phase, handed <- fwd, ended <- fin, flow <- Flow

\* A tunnel is two independent directions, whatever its threads share: each hands
\* over what was sent, in part or all of it, the end of one leaves the other as it
\* is, and the sockets are closed after both.
ImplementsTwoWayPipe == Pipe!Spec

\* "any byte relayed either way refreshes the deadline" (_pump): no direction
\* is ended as idle while the other one has received something within the
\* deadline, except in the moment between its recv and its stamp.
ReapedOnlyWhenQuiet ==
  [][\A d \in Dirs :
       at[d] = "poll" /\ at'[d] = "idle" /\ (\A x \in Dirs : at[x] # "stamp") =>
         silence >= Timeout]_tunnel

\* "Reaps tunnels whose peer died without a FIN": whatever its peers do, a
\* tunnel ends, unless reaping is disabled.
TunnelEnds == phase = "open" ~> phase = "none"
===============================================================================
