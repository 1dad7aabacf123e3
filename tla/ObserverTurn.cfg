\* Two formulators with turns of two blocks: an observer falls behind, or a timeout cuts
\* the turn short.
SPECIFICATION MCSpec
CONSTANTS
  Observers = {1, 2, 3}
  FormulatorCount = 2
  Salts = {1}
  MaxHeight = 2
  MaxBlocksPerFormulator = 2
  MaxGiveUps = 3
  MaxRoundVotes = 6
  MaxAcks = 6
  Laggards = {3}
  Stories = {"behind", "cut"}
CONSTRAINTS Bound OwnAckFirst InStory
INVARIANTS TypeOK RoundHasTarget NoPanic
PROPERTY AppendOnly
CHECK_DEADLOCK FALSE
