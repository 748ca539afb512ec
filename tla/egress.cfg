SPECIFICATION FairSpec
CONSTANTS
  Regions = {"us-east-1", "eu-west-1"}
  VpTunnelTimeout = 2
  MaxUp = 1
  MaxDown = 2
  Envs <- MCEnvs
INVARIANTS
  LaunchedReachesApi
  GatesAgree
  NothingCutOff
PROPERTIES
  ImplementsTwoWayPipe
  ReapedOnlyWhenQuiet
  TunnelEnds
