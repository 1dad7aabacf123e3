\* Five observers, one of which restarts after its vote.
SPECIFICATION RestartSpec
CONSTANTS
  Observers = {1, 2, 3, 4, 5}
  FormulatorCount = 1
  Salts = {1, 2}
  MaxHeight = 1
  MaxBlocksPerFormulator = 1
  First = {1, 2, 3}
  Second = {1, 4, 5}
  Connecting = 3
ACTION_CONSTRAINTS Story HeardAgain
INVARIANT NoPanic
CHECK_DEADLOCK FALSE
