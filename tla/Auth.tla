--------------------------------- MODULE Auth ---------------------------------
(***************************************************************************)
(* src/harness/auth.py as functions of the environment: which provider a   *)
(* launch selects, what its agent containers are given, and which hosts    *)
(* the egress proxy must let through.  A SystemExit is an answer whose     *)
(* says is not "ok".  Warnings and credentials' values are left out.       *)
(***************************************************************************)
EXTENDS Naturals

CONSTANT Regions  \* regions whose endpoint the pipeline can derive

Falsey == {"", "0", "false", "no", "off"}  \* _FLAG_FALSEY

\* host:port names, and an entry of an allowlist that covers several of them.
Api        == <<"api.anthropic.com", "">>
Runtime(r) == <<"bedrock-runtime", r>>
AnyAws     == <<"*", "amazonaws.com">>
Hosts      == {Api} \cup {Runtime(r) : r \in Regions}
Entries    == Hosts \cup {AnyAws}

\* The variables the code reads: flags and regions as text ("" when unset),
\* whether credentials and gateway variables are there, and VP_EGRESS_ALLOW as
\* the set of its entries.
EnvType == [bedrock : STRING, vertex : STRING, fips : STRING, skipAuth : STRING,
            region : STRING, fastRegion : STRING,
            bearer : BOOLEAN, keyId : BOOLEAN, secret : BOOLEAN, baseUrl : BOOLEAN,
            apiKey : BOOLEAN, oauth : BOOLEAN, allow : SUBSET Entries]

\* _host_allowed
HostAllowed(host, allow) ==
  \E entry \in allow : entry = host \/ (entry = AnyAws /\ host[1] = "bedrock-runtime")

Set(flag) == flag \notin Falsey  \* _provider_flag

Provider(e) ==
  IF Set(e.bedrock) /\ Set(e.vertex) THEN "both"
  ELSE IF Set(e.bedrock) THEN "bedrock"
  ELSE IF Set(e.vertex) THEN "vertex"
  ELSE "first_party"

\* _validated_region
DerivableRegion(r) == r \in Regions

\* _bedrock_preflight: a region is there and derivable, and no FIPS endpoint.
BedrockPreflight(e) ==
  IF ~DerivableRegion(e.region) THEN "region"
  ELSE IF Set(e.fips) THEN "fips"
  ELSE "ok"

\* _small_fast_model_region
FastRegionRefused(e) == e.fastRegion # "" /\ ~DerivableRegion(e.fastRegion)

\* What a container is given: says is "ok", or why there is none.
Answers == {"ok", "none", "egress", "both", "region", "fips", "gateway", "credentials", "no auth"}
ContainerEnv == [says : Answers, provider : {"none", "first_party", "bedrock", "vertex"},
                 region : Regions \cup {""}, fast : Regions \cup {""}]

Container(name, region, fast) ==
  [says |-> "ok", provider |-> name, region |-> region, fast |-> fast]
Refused(why) == [says |-> why, provider |-> "none", region |-> "", fast |-> ""]

GatewayConfigured(e) == e.baseUrl \/ Set(e.skipAuth)

\* _resolve_bedrock_env
ResolveBedrock(e) ==
  IF BedrockPreflight(e) # "ok" THEN Refused(BedrockPreflight(e))
  ELSE IF ~(e.bearer \/ (e.keyId /\ e.secret))
       THEN Refused(IF GatewayConfigured(e) THEN "gateway" ELSE "credentials")
  ELSE IF FastRegionRefused(e) THEN Refused("region")
  ELSE Container("bedrock", e.region, e.fastRegion)

\* resolve_auth_env
ResolveAuth(e) ==
  LET p == Provider(e)
  IN  IF p = "both" THEN Refused("both")
      ELSE IF p = "bedrock" THEN ResolveBedrock(e)
      ELSE IF p = "vertex" THEN Container("vertex", "", "")
      ELSE IF e.apiKey \/ e.oauth THEN Container("first_party", "", "")
      ELSE Refused("no auth")

\* Mutants: the second region forgotten, and the gates of the launch left out.
OneHost(e) ==
  IF Provider(e) = "bedrock"
  THEN [says |-> IF FastRegionRefused(e) THEN "region" ELSE BedrockPreflight(e),
        hosts |-> {Runtime(e.region)}]
  ELSE IF Provider(e) = "first_party" THEN [says |-> "ok", hosts |-> {Api}]
  ELSE [says |-> Provider(e), hosts |-> {}]
Ungated(e) ==
  IF Provider(e) = "bedrock"
  THEN [says |-> IF e.region = "" THEN "region" ELSE "ok",
        hosts |-> {Runtime(e.region)} \cup (IF e.fastRegion = "" THEN {} ELSE {Runtime(e.fastRegion)})]
  ELSE IF Provider(e) = "first_party" THEN [says |-> "ok", hosts |-> {Api}]
  ELSE [says |-> Provider(e), hosts |-> {}]

\* required_egress_hosts: on Bedrock a second region has a host of its own, for
\* Vertex nothing is derived.
RequiredHosts(e) ==
  IF Provider(e) = "bedrock"
  THEN [says |-> IF FastRegionRefused(e) THEN "region" ELSE BedrockPreflight(e),
        hosts |-> {Runtime(e.region)} \cup (IF e.fastRegion = "" THEN {} ELSE {Runtime(e.fastRegion)})]
  ELSE IF Provider(e) = "first_party" THEN [says |-> "ok", hosts |-> {Api}]
  ELSE [says |-> Provider(e), hosts |-> {}]

\* check_egress_satisfied
EgressSatisfied(e, allow) ==
  /\ RequiredHosts(e).says = "ok"
  /\ \A host \in RequiredHosts(e).hosts : HostAllowed(host, allow)

\* The hosts the agent CLI calls, by the variables it is given.
Calls(c) ==
  IF c.provider = "bedrock"
  THEN {Runtime(c.region)} \cup (IF c.fast = "" THEN {} ELSE {Runtime(c.fast)})
  ELSE IF c.provider = "first_party" THEN {Api}
  ELSE {}
===============================================================================
