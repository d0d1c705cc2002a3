SPECIFICATION FairSpec
CONSTANTS
  Commands = {"assets", "send"}
  daemon = "daemon"
  Statements = 8
INVARIANTS
  TypeOK
  CompleteIfCurrent
PROPERTIES
  ExitClean
  NoHalfDaemon
  ResetRecovers
