SPECIFICATION Spec
CONSTANTS
  Procs <- Pair
  Commands <- PairCommands
  Deposits <- TwoBlocks
  OperatorLocks <- PairLocks
  Own = "wallet"
  OpReturn = "op_return"
  Payee = "payee"
  MaxSlot = 9
  MaxExtra = 1
INVARIANTS
  TypeOK
  LocksHeld
  LocksReleased
  OperatorLocksKept
  FundedPlain
  Delivered
CHECK_DEADLOCK FALSE
