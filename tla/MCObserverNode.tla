----------------------------- MODULE MCObserverNode -----------------------------
(***************************************************************************)
(* ObserverNode with the bounds TLC needs: how many rounds are given up,   *)
(* how many different round votes and acks are sent, and which observers   *)
(* fetch blocks from others.  OwnAckFirst, InPhases and InStory drop       *)
(* schedules where a run is out of reach otherwise.                        *)
(***************************************************************************)
EXTENDS ObserverNode

CONSTANTS
  MaxGiveUps,      \* bound: rounds given up, over all observers
  MaxRoundVotes,   \* bound: different round votes sent
  MaxAcks,         \* bound: different acks sent
  Laggards,        \* bound: the observers that queue fetched blocks
  Stories          \* bound: "behind", "cut" or "any"

VARIABLES
  giveUps,         \* rounds given up so far
  story            \* the story that a behaviour tells

GivesUp(o) ==
  /\ round[o].state \in {"RoundVoteAck", "BlockWait"}
  /\ round'[o] = NewVoteRound(Height(o) + 1)
  /\ chain' = chain

MCInit == Init /\ giveUps = 0 /\ story \in Stories

MCNext ==
  /\ Next
  /\ giveUps' = giveUps + Cardinality({o \in Observers : GivesUp(o)})
  /\ giveUps' <= MaxGiveUps
  /\ UNCHANGED story

MCSpec == MCInit /\ [][MCNext]_<<vars, giveUps, story>>

Sent(type) == Cardinality({m \in msgs : m.type = type})

Bound ==
  /\ Sent("RoundVote") <= MaxRoundVotes /\ Sent("RoundVoteAck") <= MaxAcks
  /\ \A o \in Observers \ Laggards : blockQ[o] = {}

\* Of the schedules that differ in whether an observer's own ack is among those it
\* selects from, only those in which it is.  The code allows the others too: acks
\* of others may be queued before the own one.
OwnAckFirst ==
  \A o \in Observers : round[o].state = "BlockWait" => round[o].myAck # {}

\* The observers that have sent a message of the type.
Senders(type) == {m.from : m \in {x \in msgs : x.type = type}}

\* Of the schedules that only differ in the order of steps that commute, one: the
\* observers state their round votes, then acknowledge, the smaller public hash first,
\* then any two of them select.  Up to there nothing is lost: a step reads the messages
\* sent so far, which only grow, and its own observer's round.
InPhases ==
  LET InStates(states) == {o \in Observers : round[o].state \in states}
      acking    == InStates({"RoundVoteAck", "BlockWait"})
      selecting == InStates({"BlockWait"})
      FromBelow(S) == \A o \in S, p \in Observers : p < o => p \in S
  IN  /\ FromBelow(Senders("RoundVote")) /\ FromBelow(acking)
      /\ acking # {} => Senders("RoundVote") = Observers
      /\ selecting # {} => acking = Observers
      /\ Cardinality(selecting) <= 1

\* What later steps depend on while no block is voted for: all but the own round vote,
\* which only BlockVoteState's replies restate.
WithoutMyVote ==
  <<chain, [o \in Observers |-> [round[o] EXCEPT !.myVote = {}]], genQ, blockQ, msgs, panicked, giveUps>>

\* The observers agree on whom to pass over.  They vote, acknowledge, vote for a block
\* and connect it in the order of their public hashes.
InStep ==
  LET Of(type, p) == {m \in msgs : m.type = type /\ m.from = p}
      Named(S)    == {m.vote.last : m \in S}
      votes       == {m \in msgs : m.type = "RoundVote"}
  IN  /\ \A m, x \in votes : m.vote.last = x.vote.last => m.vote.tc = x.vote.tc
      /\ \A o, p \in Observers : p < o =>
           /\ Height(p) >= Height(o)
           /\ Named(Of("RoundVote", o)) \subseteq Named(Of("RoundVote", p))
           /\ Named(Of("RoundVoteAck", o)) \subseteq Named(Of("RoundVoteAck", p))
           /\ \A m \in Of("BlockVote", o) : BlockVoteOf(p, m.hdr) \in msgs

\* "behind": a turn without timeouts, in which the laggards may fetch blocks.  "cut":
\* once all have the turn's first block they all give up, and may then pass the
\* formulator over.
InStory ==
  LET votes     == {m \in msgs : m.type = "RoundVote"}
      ackedNext == \E m \in msgs : m.type = "RoundVoteAck" /\ m.vote.last # <<>>
  IN  \/ story = "any"
      \/ story = "behind" /\ giveUps = 0 /\ \A m \in votes : m.vote.tc = 0
      \/ /\ story = "cut" /\ \A o \in Observers : blockQ[o] = {}
         /\ \A m \in votes : m.vote.last = <<>> => m.vote.tc = 0
         /\ giveUps > 0 => \A o \in Observers : Height(o) > 0
         /\ ackedNext => giveUps \in {0, Cardinality(Observers)}
         /\ InStep

=============================================================================
