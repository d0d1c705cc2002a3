SPECIFICATION Spec
CONSTANTS
  Procs <- Single
  Commands <- SingleCommand
  Deposits <- TwoBlocks
  OperatorLocks <- NoLocks
  Own = "wallet"
  OpReturn = "op_return"
  Payee = "payee"
  MaxSlot = 9
  MaxExtra = 2
INVARIANTS
  OwnershipInputsFirst
CHECK_DEADLOCK FALSE
