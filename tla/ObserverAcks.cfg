\* Five observers as in the deployed configuration and two formulators, up to the choice
\* of the leader.
SPECIFICATION MCSpec
CONSTANTS
  Observers = {1, 2, 3, 4, 5}
  FormulatorCount = 2
  Salts = {}
  MaxHeight = 1
  MaxBlocksPerFormulator = 1
  MaxGiveUps = 0
  MaxRoundVotes = 5
  MaxAcks = 5
  Laggards = {}
  Stories = {"any"}
CONSTRAINTS Bound OwnAckFirst InPhases
VIEW WithoutMyVote
INVARIANTS LeaderAgreement AckDecides
CHECK_DEADLOCK FALSE
