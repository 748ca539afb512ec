------------------------------- MODULE MCEgress -------------------------------
(***************************************************************************)
(* Instance of Egress: two regions and one that cannot be derived, every   *)
(* combination of provider flags, regions, credentials and allowlists that *)
(* auth.py tells apart.                                                    *)
(***************************************************************************)
EXTENDS Egress

Credentials ==
  {[bearer |-> b, keyId |-> k, secret |-> s] :
     <<b, k, s>> \in {<<TRUE, FALSE, FALSE>>, <<FALSE, TRUE, TRUE>>, <<FALSE, TRUE, FALSE>>}}

MCEnvs ==
  {[bedrock |-> bedrock, vertex |-> vertex, fips |-> fips, skipAuth |-> "0",
    region |-> region, fastRegion |-> fast,
    bearer |-> c.bearer, keyId |-> c.keyId, secret |-> c.secret, baseUrl |-> c.keyId,
    apiKey |-> key, oauth |-> FALSE, allow |-> allow] :
     bedrock \in {"", "true"}, vertex \in {"off", "1"}, fips \in {"", "1"},
     region \in {"", "us-east-1", "cn-north-1"}, fast \in {"", "eu-west-1", "cn-north-1"},
     c \in Credentials, key \in BOOLEAN, allow \in {{}, {Api}, {AnyAws}}}
===============================================================================
