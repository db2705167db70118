CONSTANTS
  p1 = p1
  p2 = p2
  p3 = p3
  NoFile = NoFile
  NotJson = NotJson
  NULL = NULL
  Procs <- MCProcs
  Defaults <- MCDefaults
  ConfigFiles <- MCFiles
  AnyIp = "0.0.0.0"
  BadIps = {"nowhere"}
  BadPaths = {"/"}
  MaxSeq = 2
  Seconds = {1, 2}
  MaxClients = 2
SYMMETRY MCSymmetry
SPECIFICATION Spec
INVARIANTS TypeOK LoopServes OneSurvives PidFileNames IdsDistinct TableKeepsFirst
CHECK_DEADLOCK FALSE
