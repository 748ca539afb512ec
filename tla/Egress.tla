-------------------------------- MODULE Egress --------------------------------
(***************************************************************************)
(* The agent sandbox's way out: scripts/setup_sandbox.sh starts the proxy  *)
(* with an allowlist, bin/vp-sandboxed checks it and starts a pipeline,    *)
(* whose agents open tunnels through the proxy.  Each script reads the     *)
(* environment it is started in (auth.py), and that may have changed since *)
(* the other one ran.  One pipeline runs at a time and one of its tunnels  *)
(* is followed; refused CONNECTs change nothing.                           *)
(***************************************************************************)
EXTENDS Auth, EgressTunnel

CONSTANT Envs  \* environments the operator starts the scripts in

ASSUME EgressAssumption == Envs \subseteq EnvType /\ "" \notin Regions

VARIABLES
  proxy,    \* the proxy container: is it up, and its VP_EGRESS_ALLOW
  launched, \* what the running pipeline gives its containers, or why none runs
  replaced  \* history: the proxy was removed since the pipeline was started

vars == <<tunnel, proxy, launched, replaced>>

Down    == [up |-> FALSE, allow |-> {}]
Running == launched.says = "ok"

Init ==
  /\ TunnelInit
  /\ proxy = Down /\ launched = Refused("none") /\ replaced = FALSE

\* setup_sandbox.sh begins by removing the proxy, and its tunnels with it.
RemoveProxy ==
  /\ proxy.up /\ proxy' = Down
  /\ replaced' = Running
  /\ NoTunnel /\ UNCHANGED launched

\* It goes on unless it cannot derive the list; VP_EGRESS_ALLOW goes first.
StartProxy ==
  /\ ~proxy.up
  /\ \E e \in Envs :
       /\ e.allow # {} \/ RequiredHosts(e).says = "ok"
       /\ proxy' = [up |-> TRUE, allow |-> IF e.allow # {} THEN e.allow ELSE RequiredHosts(e).hosts]
  /\ UNCHANGED <<tunnel, launched, replaced>>

\* The proxy dies and docker restarts it with the same environment.
RestartProxy ==
  /\ proxy.up /\ phase # "none" /\ NoTunnel
  /\ UNCHANGED <<proxy, launched, replaced>>

\* vp-sandboxed checks the list and starts the pipeline, which resolves its own
\* environment from the same variables.
Launch ==
  /\ proxy.up /\ ~Running /\ phase = "none"
  /\ \E e \in Envs :
       launched' = IF EgressSatisfied(e, proxy.allow) THEN ResolveAuth(e) ELSE Refused("egress")
  /\ replaced' = FALSE
  /\ UNCHANGED <<tunnel, proxy>>

PipelineEnds ==
  /\ Running /\ launched' = Refused("none") /\ replaced' = FALSE
  /\ UNCHANGED <<tunnel, proxy>>

\* _allowed of the proxy
Allowed(host, allow) == host \in Hosts /\ HostAllowed(host, allow)

\* do_CONNECT: an agent asks for any host, its own API or another.
Connect ==
  /\ Running /\ proxy.up
  /\ \E host \in Hosts : Allowed(host, proxy.allow)
  /\ Open
  /\ UNCHANGED <<proxy, launched, replaced>>

Relays == TunnelStep /\ UNCHANGED <<proxy, launched, replaced>>

Next == RemoveProxy \/ StartProxy \/ RestartProxy \/ Launch \/ PipelineEnds \/ Connect \/ Relays

Spec == Init /\ [][Next]_vars
FairSpec == Spec /\ TunnelFairness

-----------------------------------------------------------------------------
(* Properties                                                              *)

\* Values have their types.
TypeOK ==
  /\ TunnelTypeOK
  /\ proxy \in [up : BOOLEAN, allow : SUBSET Entries]
  /\ launched \in ContainerEnv
  /\ replaced \in BOOLEAN

\* What the agent CLI of a running pipeline calls, by the variables its
\* containers are given, is what the proxy lets through, for every pair of
\* environments the two scripts were started in, as long as the proxy that was
\* checked is still there.
LaunchedReachesApi ==
  Running /\ ~replaced =>
    proxy.up /\ \A host \in Calls(launched) : Allowed(host, proxy.allow)

\* "a gate added to one path can't silently be missing from the other"
\* (_bedrock_preflight): after the check of vp-sandboxed the pipeline itself
\* refuses only for what the check does not look at, missing credentials.
GatesAgree == launched.says \notin {"both", "region", "fips"}
===============================================================================
