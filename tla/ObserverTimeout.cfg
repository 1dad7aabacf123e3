\* Two formulators: observers change their vote and give up a round.
SPECIFICATION MCSpec
CONSTANTS
  Observers = {1, 2, 3}
  FormulatorCount = 2
  Salts = {1}
  MaxHeight = 1
  MaxBlocksPerFormulator = 1
  MaxGiveUps = 1
  MaxRoundVotes = 4
  MaxAcks = 4
  Laggards = {}
  Stories = {"any"}
CONSTRAINTS Bound OwnAckFirst
INVARIANTS OneVotePerHeight VoteLocked Agreement LeaderAgreement
CHECK_DEADLOCK FALSE
