----------------------------- MODULE EgressProofs -----------------------------
(***************************************************************************)
(* Proofs about Egress, for every set of regions and environments, every   *)
(* VP_TUNNEL_TIMEOUT and any number of pieces.                             *)
(***************************************************************************)
EXTENDS Egress, TLAPS

\* A direction that polls has handed over what it read, one that saw the end of
\* the stream everything that was sent, and the sockets are closed after both.
RelayInv ==
  /\ \A d \in Dirs : at[d] = "poll" => fwd[d] = read[d]
  /\ \A d \in Dirs : phase # "none" /\ at[d] = "eof" => d \in fin /\ fwd[d] = sent[d]
  /\ phase = "none" => \A d \in Dirs : Ended(d) /\ fwd[d] = read[d]
  /\ phase = "closed" => \A d \in Dirs : Ended(d)

\* The shared deadline counts from the last piece that was stamped.
DeadlineInv ==
  \A d \in Dirs : (\A x \in Dirs : at[x] # "stamp") => quiet[d] <= silence

TunnelInv == TunnelTypeOK /\ RelayInv /\ DeadlineInv

LEMMA TimeoutType == Timeout \in Nat
BY TunnelAssumption DEF Timeout

-----------------------------------------------------------------------------
(* The tunnel                                                              *)

LEMMA TunnelInitInv == TunnelInit => TunnelInv
BY TimeoutType
DEF TunnelInit, TunnelInv, TunnelTypeOK, RelayInv, DeadlineInv, Relaying, Dirs, Ended

LEMMA NoTunnelInv == NoTunnel => TunnelInv'
BY TimeoutType
DEF NoTunnel, TunnelInv, TunnelTypeOK, RelayInv, DeadlineInv, Relaying, Dirs, Ended

LEMMA OpenKeepsInv == TunnelInv /\ Open => TunnelInv'
BY DEF Open, TunnelInv, TunnelTypeOK, RelayInv, DeadlineInv, Relaying, Ended

LEMMA PeerKeepsInv ==
  ASSUME TunnelInv, NEW d \in Dirs, Peer(d)
  PROVE  TunnelInv'
<1> USE DEF TunnelInv, TunnelTypeOK, RelayInv, DeadlineInv, Relaying, Ended
<1>1. CASE Arrive(d)
  BY <1>1 DEF Arrive
<1>2. CASE EndStream(d)
  BY <1>2 DEF EndStream
<1>3. CASE Stall(d)
  BY <1>3 DEF Stall
<1>4. CASE Breaks(d)
  BY <1>4 DEF Breaks, Ends
<1> QED
  BY <1>1, <1>2, <1>3, <1>4 DEF Peer

LEMMA TickKeepsInv == TunnelInv /\ Tick => TunnelInv'
<1> SUFFICES ASSUME TunnelInv, Tick PROVE TunnelInv'
  OBVIOUS
<1>1. \A m, n \in 0 .. Timeout : Older(m) \in 0 .. Timeout /\ (m <= n => Older(m) <= Older(n))
  BY TimeoutType DEF Older
<1> QED
  BY <1>1 DEF Tick, TunnelInv, TunnelTypeOK, RelayInv, DeadlineInv, Ended

LEMMA RelayKeepsInv ==
  ASSUME TunnelInv, NEW d \in Dirs, Relay(d)
  PROVE  TunnelInv'
<1> USE DEF TunnelInv, TunnelTypeOK, RelayInv, DeadlineInv, Relaying, Ended, Ends
<1>1. CASE Recv(d)
  <2>1. CASE /\ \E n \in Reads(d) : read' = [read EXCEPT ![d] = n]
             /\ at' = [at EXCEPT ![d] = "stamp"] /\ silence' = 0
    BY <1>1, <2>1, TimeoutType DEF Recv, Reads
  <2>2. CASE read[d] = sent[d] /\ at' = [at EXCEPT ![d] = "eof"] /\ UNCHANGED <<read, silence>>
    BY <1>1, <2>2 DEF Recv, Readable
  <2> QED
    BY <1>1, <2>1, <2>2 DEF Recv
<1>2. CASE Stamp(d)
  BY <1>2, TimeoutType DEF Stamp, Stamped
<1>3. CASE Send(d)
  BY <1>3 DEF Send
<1>4. CASE SendTimesOut(d)
  BY <1>4 DEF SendTimesOut
<1>5. CASE PollTimesOut(d)
  BY <1>5 DEF PollTimesOut
<1> QED
  BY <1>1, <1>2, <1>3, <1>4, <1>5 DEF Relay

LEMMA TunnelStepKeepsInv == TunnelInv /\ TunnelStep => TunnelInv'
<1> SUFFICES ASSUME TunnelInv, TunnelStep PROVE TunnelInv'
  OBVIOUS
<1>1. CASE Close
  BY <1>1 DEF Close, TunnelInv, TunnelTypeOK, RelayInv, DeadlineInv, Ended
<1>2. CASE Drop
  BY <1>2, NoTunnelInv DEF Drop
<1> QED
  BY <1>1, <1>2, PeerKeepsInv, RelayKeepsInv, TickKeepsInv DEF TunnelStep

LEMMA SameTunnelInv == TunnelInv /\ UNCHANGED tunnel => TunnelInv'
BY DEF TunnelInv, tunnel, TunnelTypeOK, RelayInv, DeadlineInv, Ended

-----------------------------------------------------------------------------
(* The environment rules of auth.py                                        *)

\* What a container is given makes the CLI call no host that required_egress_hosts
\* does not name, and the gates of both are the same, in any environment.
LEMMA RequiredCoversCalls ==
  ASSUME NEW e, RequiredHosts(e).says = "ok"
  PROVE  /\ ResolveAuth(e).says = "ok" =>
              Calls(ResolveAuth(e)) \subseteq RequiredHosts(e).hosts
         /\ ResolveAuth(e).says \notin {"both", "region", "fips"}
         /\ RequiredHosts(e).hosts \subseteq Hosts
BY DEF RequiredHosts, ResolveAuth, ResolveBedrock, BedrockPreflight, FastRegionRefused, Provider,
       Container, Refused, Calls, Hosts, GatewayConfigured, DerivableRegion

LEMMA ResolveType ==
  ASSUME NEW e
  PROVE  ResolveAuth(e) \in ContainerEnv
<1>1. BedrockPreflight(e) \in {"ok", "region", "fips"} /\
      (BedrockPreflight(e) = "ok" => e.region \in Regions)
  BY DEF BedrockPreflight, DerivableRegion
<1>2. ResolveBedrock(e) \in ContainerEnv
  BY <1>1 DEF ResolveBedrock, Container, Refused, ContainerEnv, Answers, FastRegionRefused, DerivableRegion
<1>3. \A why \in Answers : Refused(why) \in ContainerEnv
  BY DEF Refused, ContainerEnv
<1>4. \A name \in {"first_party", "vertex"} : Container(name, "", "") \in ContainerEnv
  BY DEF Container, ContainerEnv, Answers
<1> QED
  BY <1>2, <1>3, <1>4 DEF ResolveAuth, Answers

-----------------------------------------------------------------------------
(* The composition                                                         *)

EgressInv == TypeOK /\ TunnelInv /\ LaunchedReachesApi /\ GatesAgree

LEMMA EgressInitInv == Init => EgressInv
<1> SUFFICES ASSUME Init PROVE EgressInv
  OBVIOUS
<1>1. TunnelInv
  BY TunnelInitInv DEF Init
<1>2. launched \in ContainerEnv /\ launched.says = "none"
  BY DEF Init, Refused, ContainerEnv, Answers
<1> QED
  BY <1>1, <1>2 DEF Init, EgressInv, TypeOK, TunnelInv, LaunchedReachesApi, GatesAgree, Running, Down

LEMMA EgressNextInv == EgressInv /\ [Next]_vars => EgressInv'
<1> SUFFICES ASSUME EgressInv, [Next]_vars PROVE EgressInv'
  OBVIOUS
<1>0. TunnelInv => TunnelTypeOK
  BY DEF TunnelInv
<1>1. CASE RemoveProxy
  <2>1. TunnelInv'
    BY <1>1, NoTunnelInv DEF RemoveProxy
  <2> QED
    BY <1>1, <2>1 DEF RemoveProxy, EgressInv, TypeOK, TunnelInv, LaunchedReachesApi, GatesAgree,
                      Running, Down
<1>2. CASE StartProxy
  <2>1. TunnelInv'
    BY <1>2, SameTunnelInv DEF StartProxy, EgressInv
  <2>2. PICK e \in Envs :
          /\ e.allow # {} \/ RequiredHosts(e).says = "ok"
          /\ proxy' = [up |-> TRUE, allow |-> IF e.allow # {} THEN e.allow ELSE RequiredHosts(e).hosts]
    BY <1>2 DEF StartProxy
  <2>3. e.allow \subseteq Entries
    BY EgressAssumption DEF EnvType
  <2>4. proxy' \in [up : BOOLEAN, allow : SUBSET Entries]
    BY <2>2, <2>3, RequiredCoversCalls DEF Entries
  <2> QED
    BY <1>2, <2>1, <2>4 DEF StartProxy, EgressInv, TypeOK, TunnelInv, LaunchedReachesApi, GatesAgree,
                            Running
<1>3. CASE Launch
  <2>1. TunnelInv'
    BY <1>3, SameTunnelInv DEF Launch, EgressInv
  <2>2. PICK e \in Envs :
          launched' = IF EgressSatisfied(e, proxy.allow) THEN ResolveAuth(e) ELSE Refused("egress")
    BY <1>3 DEF Launch
  <2>3. CASE EgressSatisfied(e, proxy.allow)
    <3>1. RequiredHosts(e).says = "ok"
      BY <2>3 DEF EgressSatisfied
    <3>2. TypeOK'
      BY <1>3, <2>1, <2>2, <2>3, <3>1, ResolveType DEF Launch, EgressInv, TypeOK, TunnelInv
    <3>3. GatesAgree'
      BY <2>2, <2>3, <3>1, RequiredCoversCalls DEF GatesAgree
    <3>4. LaunchedReachesApi'
      <4> SUFFICES ASSUME launched'.says = "ok", NEW host \in Calls(launched')
                   PROVE  Allowed(host, proxy.allow)
        BY <1>3 DEF Launch, LaunchedReachesApi, Running
      <4>1. host \in RequiredHosts(e).hosts
        BY <2>2, <2>3, <3>1, RequiredCoversCalls
      <4>2. HostAllowed(host, proxy.allow)
        BY <2>3, <4>1 DEF EgressSatisfied
      <4>3. host \in Hosts
        BY <3>1, <4>1, RequiredCoversCalls
      <4> QED
        BY <4>2, <4>3 DEF Allowed
    <3> QED
      BY <2>1, <3>2, <3>3, <3>4 DEF EgressInv
  <2>4. CASE launched' = Refused("egress")
    <3>1. launched' \in ContainerEnv /\ launched'.says = "egress"
      BY <2>4 DEF Refused, ContainerEnv, Answers
    <3> QED
      BY <1>3, <2>1, <3>1 DEF Launch, EgressInv, TypeOK, TunnelInv, LaunchedReachesApi, GatesAgree,
                              Running
  <2> QED
    BY <2>2, <2>3, <2>4
<1>4. CASE PipelineEnds
  <2>1. TunnelInv'
    BY <1>4, SameTunnelInv DEF PipelineEnds, EgressInv
  <2>2. launched' \in ContainerEnv /\ launched'.says = "none"
    BY <1>4 DEF PipelineEnds, Refused, ContainerEnv, Answers
  <2> QED
    BY <1>4, <2>1, <2>2 DEF PipelineEnds, EgressInv, TypeOK, TunnelInv, LaunchedReachesApi,
                            GatesAgree, Running
<1>5. ASSUME TunnelInv', UNCHANGED <<proxy, launched, replaced>> PROVE EgressInv'
  BY <1>5 DEF EgressInv, TypeOK, TunnelInv, LaunchedReachesApi, GatesAgree, Running
<1>6. CASE RestartProxy
  BY <1>5, <1>6, NoTunnelInv DEF RestartProxy
<1>7. CASE Connect
  BY <1>5, <1>7, OpenKeepsInv DEF Connect, EgressInv
<1>8. CASE Relays
  BY <1>5, <1>8, TunnelStepKeepsInv DEF Relays, EgressInv
<1>9. CASE UNCHANGED vars
  BY <1>5, <1>9, SameTunnelInv DEF vars, EgressInv
<1> QED
  BY <1>1, <1>2, <1>3, <1>4, <1>6, <1>7, <1>8, <1>9 DEF Next

-----------------------------------------------------------------------------
(* Theorems                                                                *)

THEOREM EgressInvariance == Spec => []EgressInv
BY EgressInitInv, EgressNextInv, PTL DEF Spec

\* Values have their types and nothing is relayed that was not sent.
THEOREM EgressTypeSafety == Spec => []TypeOK
<1>1. EgressInv => TypeOK
  BY DEF EgressInv
<1> QED
  BY <1>1, EgressInvariance, PTL

\* The hosts the agent CLI calls are let through by the proxy that was checked,
\* in whatever environments the two scripts are started.
THEOREM ApiReachable == Spec => []LaunchedReachesApi
<1>1. EgressInv => LaunchedReachesApi
  BY DEF EgressInv
<1> QED
  BY <1>1, EgressInvariance, PTL

\* The gates of the launch are those of the check of vp-sandboxed.
THEOREM SameGates == Spec => []GatesAgree
<1>1. EgressInv => GatesAgree
  BY DEF EgressInv
<1> QED
  BY <1>1, EgressInvariance, PTL

\* _pump closes the sockets only when both directions have drained, unless one
\* broke or was idle.
THEOREM Drained == Spec => []NothingCutOff
<1>1. EgressInv => NothingCutOff
  BY DEF EgressInv, TunnelInv, RelayInv, NothingCutOff, Ended
<1> QED
  BY <1>1, EgressInvariance, PTL

\* No direction is reaped while the other one receives within the deadline.
THEOREM ReapedWhenQuiet == Spec => ReapedOnlyWhenQuiet
<1> DEFINE Reaping == \A d \in Dirs :
             at[d] = "poll" /\ at'[d] = "idle" /\ (\A x \in Dirs : at[x] # "stamp") =>
               silence >= Timeout
<1>1. ASSUME EgressInv, [Next]_vars PROVE [Reaping]_tunnel
  <2> SUFFICES ASSUME NEW d \in Dirs, at[d] = "poll", at'[d] = "idle",
                      \A x \in Dirs : at[x] # "stamp"
               PROVE  silence >= Timeout
    OBVIOUS
  <2>1. /\ at \in [Dirs -> Relaying \cup {"eof", "idle", "error"}]
        /\ quiet \in [Dirs -> 0 .. Timeout] /\ silence \in 0 .. Timeout
        /\ quiet[d] <= silence
    BY <1>1 DEF EgressInv, TunnelInv, TunnelTypeOK, DeadlineInv
  <2>2. CASE NoTunnel
    BY <2>2 DEF NoTunnel
  <2>3. CASE Open
    BY <2>3 DEF Open
  <2>4. ASSUME NEW x \in Dirs, Relay(x) PROVE silence >= Timeout
    <3>1. CASE PollTimesOut(x)
      <4>1. x = d
        BY <2>1, <3>1 DEF PollTimesOut, Ends
      <4> QED
        BY <2>1, <3>1, <4>1, TimeoutType DEF PollTimesOut
    <3>2. CASE Recv(x) \/ Stamp(x) \/ Send(x) \/ SendTimesOut(x)
      BY <2>1, <3>2 DEF Recv, Stamp, Send, SendTimesOut, Ends
    <3> QED
      BY <2>4, <3>1, <3>2 DEF Relay
  <2>5. ASSUME NEW x \in Dirs, Peer(x) PROVE silence >= Timeout
    BY <2>1, <2>5 DEF Peer, Arrive, EndStream, Stall, Breaks, Ends
  <2>6. CASE Tick \/ Close
    BY <2>6 DEF Tick, Close
  <2>7. CASE UNCHANGED tunnel
    BY <2>7 DEF tunnel
  <2>8. NoTunnel \/ Open \/ TunnelStep \/ UNCHANGED tunnel
    BY <1>1 DEF Next, vars, RemoveProxy, StartProxy, RestartProxy, Launch, PipelineEnds, Connect, Relays
  <2> QED
    BY <2>2, <2>3, <2>4, <2>5, <2>6, <2>7, <2>8 DEF TunnelStep, Drop
<1> QED
  BY <1>1, EgressInvariance, PTL DEF Spec, ReapedOnlyWhenQuiet

-----------------------------------------------------------------------------
(* The pipe                                                                *)

\* Between two tunnels nothing is left of the one before.
Clean ==
  phase = "none" =>
    /\ at = [d \in Dirs |-> "eof"] /\ fin = {}
    /\ sent = [d \in Dirs |-> 0] /\ fwd = [d \in Dirs |-> 0]

\* Every step is one of the tunnel, of its opening, or of its end.
LEMMA TunnelSteps ==
  [Next]_vars => NoTunnel \/ Open \/ TunnelStep \/ UNCHANGED tunnel
BY DEF Next, vars, RemoveProxy, StartProxy, RestartProxy, Launch, PipelineEnds, Connect, Relays

LEMMA CleanStep == Clean /\ [Next]_vars => Clean'
<1> SUFFICES ASSUME Clean, [Next]_vars PROVE Clean'
  OBVIOUS
<1>1. CASE NoTunnel
  BY <1>1 DEF NoTunnel, Clean
<1>2. CASE Open \/ Close
  BY <1>2 DEF Open, Close, Clean
<1>3. ASSUME NEW d \in Dirs, Relay(d) \/ Peer(d) PROVE Clean'
  BY <1>3 DEF Relay, Peer, Recv, Stamp, Send, SendTimesOut, PollTimesOut, Arrive, EndStream,
              Stall, Breaks, Clean
<1>4. CASE Tick
  BY <1>4 DEF Tick, Clean
<1>5. CASE UNCHANGED tunnel
  BY <1>5 DEF tunnel, Clean
<1> QED
  BY <1>1, <1>2, <1>3, <1>4, <1>5, TunnelSteps DEF TunnelStep, Drop

\* One direction ends, the flow of the other one is as it was.
LEMMA FlowStep ==
  ASSUME TunnelTypeOK, NEW d \in Dirs, NEW how, Ends(d, how)
  PROVE  Flow' = [Flow EXCEPT ![d] = FlowOf(how)]
<1>1. at' = [at EXCEPT ![d] = how] /\ DOMAIN at = Dirs
  BY DEF Ends, TunnelTypeOK
<1>2. \A x \in Dirs : at'[x] = IF x = d THEN how ELSE at[x]
  BY <1>1
<1> QED
  BY <1>2 DEF Flow

\* A direction that goes on flows on.
LEMMA SameFlow ==
  ASSUME TunnelTypeOK, NEW d \in Dirs, NEW how, Ends(d, how), FlowOf(how) = FlowOf(at[d])
  PROVE  UNCHANGED Flow
<1>1. at' = [at EXCEPT ![d] = how] /\ DOMAIN at = Dirs
  BY DEF Ends, TunnelTypeOK
<1>2. \A x \in Dirs : FlowOf(at'[x]) = FlowOf(at[x])
  BY <1>1
<1> QED
  BY <1>2 DEF Flow

LEMMA PeerPipe ==
  ASSUME TunnelInv, NEW d \in Dirs, Peer(d)
  PROVE  [Pipe!Next]_(Pipe!pipeVars)
<1>1. TunnelTypeOK
  BY DEF TunnelInv
<1>2. CASE Arrive(d)
  <2>1. Pipe!Piece(d)
    BY <1>2 DEF Arrive, Pipe!Piece, Flow
  <2> QED
    BY <2>1 DEF Pipe!Next
<1>3. CASE EndStream(d)
  <2>1. Pipe!End(d)
    BY <1>3 DEF EndStream, Pipe!End, Flow
  <2> QED
    BY <2>1 DEF Pipe!Next
<1>4. CASE Stall(d)
  BY <1>4 DEF Stall, Pipe!pipeVars, Flow
<1>5. CASE Breaks(d)
  <2>1. Flow[d] = "flows" /\ Flow' = [Flow EXCEPT ![d] = "given up"]
    BY <1>1, <1>5, FlowStep DEF Breaks, Flow, FlowOf, Relaying
  <2>2. Pipe!GiveUp(d)
    BY <1>5, <2>1 DEF Breaks, Pipe!GiveUp
  <2> QED
    BY <2>2 DEF Pipe!Next
<1> QED
  BY <1>2, <1>3, <1>4, <1>5 DEF Peer

LEMMA RelayPipe ==
  ASSUME TunnelInv, NEW d \in Dirs, Relay(d)
  PROVE  [Pipe!Next]_(Pipe!pipeVars)
<1>1. TunnelTypeOK
  BY DEF TunnelInv
<1>2. CASE Recv(d)
  <2>1. /\ phase = "open" /\ at[d] = "poll" /\ Readable(d)
        /\ UNCHANGED <<phase, sent, fwd, fin>>
    BY <1>2 DEF Recv
  <2>2. CASE Ends(d, "stamp")
    <3>1. UNCHANGED Flow
      BY <1>1, <2>1, <2>2, SameFlow DEF FlowOf, Relaying
    <3> QED
      BY <2>1, <3>1 DEF Pipe!pipeVars
  <2>3. CASE read[d] = sent[d] /\ Ends(d, "eof")
    <3>1. Flow[d] = "flows" /\ Flow' = [Flow EXCEPT ![d] = "drained"]
      BY <1>1, <2>1, <2>3, FlowStep DEF Flow, FlowOf, Relaying
    <3>2. d \in fin /\ fwd[d] = sent[d]
      BY <1>1, <2>1, <2>3 DEF Readable, TunnelInv, RelayInv, TunnelTypeOK
    <3>3. Pipe!Drain(d)
      BY <2>1, <3>1, <3>2 DEF Pipe!Drain
    <3> QED
      BY <3>3 DEF Pipe!Next
  <2> QED
    BY <1>2, <2>2, <2>3 DEF Recv
<1>3. CASE Stamp(d)
  <2>1. UNCHANGED Flow
    BY <1>1, <1>3, SameFlow DEF Stamp, FlowOf, Relaying
  <2> QED
    BY <1>3, <2>1 DEF Stamp, Pipe!pipeVars
<1>4. CASE Send(d)
  <2>1. PICK n \in (fwd[d] + 1) .. read[d] :
          /\ fwd' = [fwd EXCEPT ![d] = n]
          /\ Ends(d, IF n = read[d] THEN "poll" ELSE "send")
    BY <1>4 DEF Send
  <2>2. UNCHANGED Flow /\ Flow[d] = "flows"
    BY <1>1, <1>4, <2>1, SameFlow DEF Send, Flow, FlowOf, Relaying
  <2>3. n \in (fwd[d] + 1) .. sent[d]
    BY <1>1, <2>1 DEF TunnelTypeOK
  <2>4. Pipe!HandOver(d)
    BY <1>4, <2>1, <2>2, <2>3 DEF Send, Pipe!HandOver
  <2> QED
    BY <2>4 DEF Pipe!Next
<1>5. CASE SendTimesOut(d) \/ PollTimesOut(d)
  <2>1. PICK how \in {"error", "idle"} : Ends(d, how)
    BY <1>5 DEF SendTimesOut, PollTimesOut
  <2>2. Flow[d] = "flows" /\ Flow' = [Flow EXCEPT ![d] = "given up"]
    BY <1>1, <1>5, <2>1, FlowStep DEF SendTimesOut, PollTimesOut, Flow, FlowOf, Relaying
  <2>3. Pipe!GiveUp(d)
    BY <1>5, <2>2 DEF SendTimesOut, PollTimesOut, Pipe!GiveUp
  <2> QED
    BY <2>3 DEF Pipe!Next
<1> QED
  BY <1>2, <1>3, <1>4, <1>5 DEF Relay

LEMMA PipeStep == TunnelInv /\ Clean /\ [Next]_vars => [Pipe!Next]_(Pipe!pipeVars)
<1> SUFFICES ASSUME TunnelInv, Clean, [Next]_vars PROVE [Pipe!Next]_(Pipe!pipeVars)
  OBVIOUS
<1>1. CASE NoTunnel
  <2>1. Flow' = [d \in Dirs |-> "drained"]
    BY <1>1 DEF NoTunnel, Flow, FlowOf, Relaying
  <2>2. CASE phase # "none"
    <3>1. Pipe!Vanish
      BY <1>1, <2>1, <2>2 DEF NoTunnel, Pipe!Vanish, Pipe!Nothing, Pipe!Each
    <3> QED
      BY <3>1 DEF Pipe!Next
  <2>3. CASE phase = "none"
    <3>1. Flow = [d \in Dirs |-> "drained"]
      BY <2>3 DEF Clean, Flow, FlowOf, Relaying
    <3> QED
      BY <1>1, <2>1, <2>3, <3>1 DEF NoTunnel, Clean, Pipe!pipeVars
  <2> QED
    BY <2>2, <2>3
<1>2. CASE Open
  <2>1. Flow' = [d \in Dirs |-> "flows"]
    BY <1>2 DEF Open, Flow, FlowOf, Relaying
  <2>2. Pipe!Open
    BY <1>2, <2>1 DEF Open, Pipe!Open, Pipe!Each
  <2> QED
    BY <2>2 DEF Pipe!Next
<1>3. CASE Close
  <2>1. \A d \in Dirs : Flow[d] # "flows"
    BY <1>3 DEF Close, Ended, Flow, FlowOf, Relaying
  <2>2. Pipe!Close
    BY <1>3, <2>1 DEF Close, Pipe!Close, Flow
  <2> QED
    BY <2>2 DEF Pipe!Next
<1>4. CASE Tick \/ UNCHANGED tunnel
  BY <1>4 DEF Tick, tunnel, Pipe!pipeVars, Flow
<1>5. ASSUME NEW d \in Dirs, Relay(d) \/ Peer(d) PROVE [Pipe!Next]_(Pipe!pipeVars)
  BY <1>5, RelayPipe, PeerPipe
<1> QED
  BY <1>1, <1>2, <1>3, <1>4, <1>5, TunnelSteps DEF TunnelStep, Drop

\* To its peers a tunnel is a pipe of two independent directions, for every
\* timeout, any number of pieces and any interleaving of the two threads, the
\* peers and the scripts: what is handed over is a prefix of what was sent, a
\* direction that drained was drained, and its end does not end the other one.
THEOREM TunnelIsPipe == Spec => ImplementsTwoWayPipe
<1>1. Init => Pipe!Init /\ Clean
  BY DEF Init, TunnelInit, Clean, Pipe!Init, Pipe!Nothing, Pipe!Each, Flow, FlowOf, Relaying
<1>2. EgressInv => TunnelInv
  BY DEF EgressInv
<1>3. Clean /\ [Next]_vars => Clean'
  BY CleanStep
<1>4. TunnelInv /\ Clean /\ [Next]_vars => [Pipe!Next]_(Pipe!pipeVars)
  BY PipeStep
<1> QED
  BY <1>1, <1>2, <1>3, <1>4, EgressInvariance, PTL DEF Spec, ImplementsTwoWayPipe, Pipe!Spec
===============================================================================
