\* Two different blocks of one formulator, any number of rounds given up.
SPECIFICATION Spec
CONSTANTS
  Observers = {1, 2, 3}
  FormulatorCount = 1
  Salts = {1, 2}
  MaxHeight = 1
  MaxBlocksPerFormulator = 1
PROPERTY ImplementsVoting
CHECK_DEADLOCK FALSE
