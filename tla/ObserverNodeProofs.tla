--------------------------- MODULE ObserverNodeProofs --------------------------
(***************************************************************************)
(* The observers never fork, for every set of observers, every number of   *)
(* formulators and every height.  First the types of ObserverNode's state, *)
(* then the argument: an observer that has voted for a block stays locked  *)
(* on it until its chain has that height, so it votes once per height; two *)
(* majorities share an observer; hence a height has at most one block with *)
(* a majority of votes, and chains and queues hold only such blocks.       *)
(***************************************************************************)
EXTENDS ObserverNode, FiniteSetTheorems, SequenceTheorems, WellFoundedInduction, TLAPS

-----------------------------------------------------------------------------
(* Types *)

\* Headers are the sequences of contents up to MaxHeight.
LEMMA HeaderDef == Header = {s \in Seq(Content) : Len(s) <= MaxHeight}
<1>1. ASSUME NEW s \in Header PROVE s \in Seq(Content) /\ Len(s) <= MaxHeight
  <2>1. PICK n \in 0..MaxHeight : s \in [1..n -> Content]
    BY <1>1 DEF Header
  <2>2. n \in Nat
    BY MaxHeightAssumption
  <2> QED BY <2>1, <2>2, MaxHeightAssumption, IsASeq
<1>2. ASSUME NEW s \in Seq(Content), Len(s) <= MaxHeight PROVE s \in Header
  <2>1. Len(s) \in 0..MaxHeight /\ s \in [1..Len(s) -> Content]
    BY <1>2, MaxHeightAssumption, LenProperties
  <2> QED BY <2>1 DEF Header
<1> QED BY <1>1, <1>2

\* A block's hash determines the hashes of all blocks before it.
LEMMA HeaderPrefix ==
  ASSUME NEW s \in Header, NEW n \in 0..Len(s)
  PROVE  /\ SubSeq(s, 1, n) \in Header
         /\ Len(SubSeq(s, 1, n)) = n
         /\ \A h \in 0..n : SubSeq(SubSeq(s, 1, n), 1, h) = SubSeq(s, 1, h)
         /\ SubSeq(s, 1, Len(s)) = s
<1>1. s \in Seq(Content) /\ Len(s) \in Nat /\ Len(s) <= MaxHeight /\ n \in Nat
  BY HeaderDef
<1>2. SubSeq(s, 1, n) \in Seq(Content) /\ Len(SubSeq(s, 1, n)) = n
  BY <1>1
<1>3. SubSeq(s, 1, n) \in Header
  BY <1>1, <1>2, MaxHeightAssumption, HeaderDef
<1>4. ASSUME NEW h \in 0..n PROVE SubSeq(SubSeq(s, 1, n), 1, h) = SubSeq(s, 1, h)
  OBVIOUS
<1>5. SubSeq(s, 1, Len(s)) = s
  BY <1>1, SubSeqFull
<1> QED BY <1>2, <1>3, <1>4, <1>5

-----------------------------------------------------------------------------
(***************************************************************************)
(* Types.  TypeOK says of each message and round what TLC can evaluate;    *)
(* the proofs need their full structure.                                   *)
(***************************************************************************)

Forms == {TopRank(c, tc) : c \in Header, tc \in TimeoutCounts}

Vote ==
  {v \in [height : Nat, last : Header, tc : TimeoutCounts, form : Forms] :
     v.height = Len(v.last) + 1}

AckVote ==
  {v \in [height : Nat, last : Header, tc : TimeoutCounts, form : Forms, pub : Observers] :
     v.height = Len(v.last) + 1}

RoundVoteMsg == [type : {"RoundVote"}, from : Observers, vote : Vote]
AckMsg == [type : {"RoundVoteAck"}, from : Observers, vote : AckVote]
ReqMsg == [type : {"BlockReq"}, from : Observers, vote : AckVote]
GenMsg == [type : {"BlockGen"}, to : Observers, hdr : Header]
BlockVoteMsg == [type : {"BlockVote"}, from : Observers, hdr : Header]

Msg == RoundVoteMsg \cup AckMsg \cup ReqMsg \cup GenMsg \cup BlockVoteMsg

States == {"RoundVote", "RoundVoteAck", "BlockWait", "BlockVote"}

BlockRoundRec == [gen : Header, wait : Header]

BlockRoundMap == UNION {[D -> BlockRoundRec] : D \in SUBSET Nat}

Round == [state : States, target : Nat, myVote : SUBSET RoundVoteMsg,
          myAck : SUBSET AckMsg, min : AckVote \cup {NoVote}, brs : BlockRoundMap]

Gen == [hdr : Header, raw : BOOLEAN]

Types ==
  /\ chain \in [Observers -> Header]
  /\ round \in [Observers -> Round]
  /\ genQ \in [Observers -> SUBSET Gen]
  /\ blockQ \in [Observers -> SUBSET Header]
  /\ msgs \in SUBSET Msg
  /\ panicked \in SUBSET Observers

\* The header of the genesis is the empty sequence.
LEMMA EmptyHeader == <<>> \in Header /\ Len(<<>>) = 0
  BY HeaderDef, MaxHeightAssumption, EmptySeq

\* The height of a block is a number.
LEMMA LenHeader == \A s \in Header : Len(s) \in Nat
  BY HeaderDef, LenProperties

\* NewVoteRound returns a round.
LEMMA NewVoteRoundType == \A n \in Nat : NewVoteRound(n) \in Round
<1> SUFFICES ASSUME NEW n \in Nat PROVE NewVoteRound(n) \in Round
  OBVIOUS
<1> DEFINE D == n..(n + MaxBlocksPerFormulator - 1)
<1>1. D \in SUBSET Nat
  BY MaxBlocksAssumption
<1>2. NewBlockRound \in BlockRoundRec
  BY EmptyHeader DEF NewBlockRound, BlockRoundRec
<1>3. [h \in D |-> NewBlockRound] \in [D -> BlockRoundRec]
  BY <1>2
<1> HIDE DEF D
<1>4. [h \in D |-> NewBlockRound] \in BlockRoundMap
  BY <1>1, <1>3 DEF BlockRoundMap
<1> QED BY <1>4 DEF NewVoteRound, Round, States, D

\* A block round map stays one when an entry changes.
LEMMA BlockRoundExcept ==
  ASSUME NEW brs \in BlockRoundMap, NEW h, NEW hdr \in Header
  PROVE  /\ DOMAIN brs \in SUBSET Nat
         /\ \A x \in DOMAIN brs : brs[x] \in BlockRoundRec
         /\ [brs EXCEPT ![h].wait = hdr] \in BlockRoundMap
         /\ [brs EXCEPT ![h].gen = hdr] \in BlockRoundMap
<1>1. PICK D \in SUBSET Nat : brs \in [D -> BlockRoundRec]
  BY DEF BlockRoundMap
<1>2. [brs EXCEPT ![h].wait = hdr] \in [D -> BlockRoundRec]
  BY <1>1 DEF BlockRoundRec
<1>3. [brs EXCEPT ![h].gen = hdr] \in [D -> BlockRoundRec]
  BY <1>1 DEF BlockRoundRec
<1> QED BY <1>1, <1>2, <1>3 DEF BlockRoundMap

\* The initial state is typed.
LEMMA InitTypes == Init => Types
  BY EmptyHeader, NewVoteRoundType DEF Init, Types

\* What an observer sends is well formed.
LEMMA RoundVoteType ==
  ASSUME Types, NEW o \in Observers, NEW tc \in TimeoutCounts
  PROVE  RoundVoteOf(o, tc) \in RoundVoteMsg
<1>1. chain[o] \in Header /\ Height(o) \in Nat
  BY LenHeader DEF Types, Height
<1>2. TopRank(chain[o], tc) \in Forms
  BY <1>1 DEF Forms
<1> QED BY <1>1, <1>2 DEF RoundVoteOf, RoundVoteMsg, Vote, Height

\* The block vote of sendBlockVote is a message.
LEMMA BlockVoteType ==
  ASSUME NEW o \in Observers, NEW hdr \in Header
  PROVE  BlockVoteOf(o, hdr) \in BlockVoteMsg
  BY DEF BlockVoteOf, BlockVoteMsg

\* Restating a vote for the current height gives a vote.
LEMMA RestatedType ==
  ASSUME Types, NEW o \in Observers
  PROVE  /\ \A m \in RoundVoteMsg : Restated(o, m) \in RoundVoteMsg
         /\ \A m \in AckMsg : Restated(o, m) \in AckMsg
<1> DEFINE n == Height(o) + 1
           c == chain[o]
<1>1. c \in Header /\ n \in Nat /\ n = Len(c) + 1
  BY LenHeader DEF Types, Height
<1>2. 0 \in TimeoutCounts
  BY FormulatorsAssumption DEF TimeoutCounts
<1>3. \A m : Restated(o, m) = IF m.vote.height = n THEN m
               ELSE [m EXCEPT !.vote = [@ EXCEPT !.tc = 0, !.height = n, !.last = c]]
  BY DEF Restated
<1> HIDE DEF n, c
<1>4. ASSUME NEW m \in RoundVoteMsg PROVE Restated(o, m) \in RoundVoteMsg
  <2> DEFINE v == [m.vote EXCEPT !.tc = 0, !.height = n, !.last = c]
  <2>1. v \in Vote
    BY <1>1, <1>2 DEF RoundVoteMsg, Vote
  <2>2. Restated(o, m) = m \/ Restated(o, m) = [m EXCEPT !.vote = v]
    BY <1>3
  <2> HIDE DEF v
  <2> QED BY <2>1, <2>2 DEF RoundVoteMsg
<1>5. ASSUME NEW m \in AckMsg PROVE Restated(o, m) \in AckMsg
  <2> DEFINE v == [m.vote EXCEPT !.tc = 0, !.height = n, !.last = c]
  <2>1. v \in AckVote
    BY <1>1, <1>2 DEF AckMsg, AckVote
  <2>2. Restated(o, m) = m \/ Restated(o, m) = [m EXCEPT !.vote = v]
    BY <1>3
  <2> HIDE DEF v
  <2> QED BY <2>1, <2>2 DEF AckMsg
<1> QED BY <1>4, <1>5

\* The type tag of a message tells its fields.
LEMMA MsgByType ==
  ASSUME NEW m \in Msg
  PROVE  /\ m.type = "RoundVote" => m \in RoundVoteMsg
         /\ m.type = "RoundVoteAck" => m \in AckMsg
         /\ m.type = "BlockReq" => m \in ReqMsg
         /\ m.type = "BlockGen" => m \in GenMsg
         /\ m.type = "BlockVote" => m \in BlockVoteMsg
  BY DEF Msg, RoundVoteMsg, AckMsg, ReqMsg, GenMsg, BlockVoteMsg

\* Parked blocks that go back into the queue are block messages.
LEMMA RequeueType ==
  ASSUME NEW brs \in BlockRoundMap, NEW h
  PROVE  Requeue(brs, h) \in SUBSET Gen
<1>1. h \in DOMAIN brs => brs[h] \in BlockRoundRec
  BY EmptyHeader, BlockRoundExcept
<1> QED BY <1>1 DEF Requeue, Gen, BlockRoundRec

\* What an observer answers is well formed.
LEMMA ReplyTypes ==
  ASSUME Types, NEW o \in Observers, NEW p
  PROVE  /\ \A reply \in RoundVoteReplies(o, p) : reply \in SUBSET RoundVoteMsg
         /\ RoundVoteAckReply(o, p) \in SUBSET AckMsg
<1>1. round[o].myVote \in SUBSET RoundVoteMsg /\ round[o].myAck \in SUBSET AckMsg
  BY DEF Types, Round
<1>2. ASSUME NEW reply \in RoundVoteReplies(o, p) PROVE reply \in SUBSET RoundVoteMsg
  BY <1>1, RoundVoteType, RestatedType DEF RoundVoteReplies
<1>3. RoundVoteAckReply(o, p) \in SUBSET AckMsg
  BY <1>1, RestatedType DEF RoundVoteAckReply
<1> QED BY <1>2, <1>3

\* One observer's round changes.
LEMMA RoundExcept ==
  ASSUME Types, NEW o \in Observers, NEW r \in Round
  PROVE  [round EXCEPT ![o] = r] \in [Observers -> Round]
  BY DEF Types

\* A RoundVoteMessage leaves the state typed.
LEMMA HandleRoundVoteTypes ==
  ASSUME Types, NEW o \in Observers, HandleRoundVote(o)
  PROVE  Types'
<1>1. PICK rvs \in MessageMaps(o, "RoundVote") : \E min \in rvs :
        /\ round' = [round EXCEPT ![o] =
             [@ EXCEPT !.state = "RoundVoteAck", !.myVote = {m \in rvs : m.from = o}]]
        /\ msgs' = msgs \cup {RoundVoteAckOf(o, min)}
  BY DEF HandleRoundVote
<1>2. rvs \in SUBSET RoundVoteMsg
  BY MsgByType DEF MessageMaps, Types
<1>3. PICK min \in rvs : msgs' = msgs \cup {RoundVoteAckOf(o, min)}
  BY <1>1
<1>4. RoundVoteAckOf(o, min) \in AckMsg
  BY <1>2 DEF RoundVoteAckOf, AckMsg, AckVote, RoundVoteMsg, Vote
<1>5. msgs' \in SUBSET Msg
  BY <1>3, <1>4 DEF Types, Msg
<1>6. [round[o] EXCEPT !.state = "RoundVoteAck", !.myVote = {m \in rvs : m.from = o}]
        \in Round
  <2>1. round[o] \in Round /\ {m \in rvs : m.from = o} \in SUBSET RoundVoteMsg
    BY <1>2 DEF Types
  <2> QED BY <2>1 DEF Round, States
<1>7. round' \in [Observers -> Round]
  BY <1>1, <1>6, RoundExcept
<1> QED BY <1>5, <1>7 DEF Types, HandleRoundVote

\* A RoundVoteAckMessage leaves the state typed.
LEMMA HandleRoundVoteAckTypes ==
  ASSUME Types, NEW o \in Observers, HandleRoundVoteAck(o)
  PROVE  Types'
<1> DEFINE t == round[o].target
           Effect(acks, sel) ==
             /\ round' = [round EXCEPT ![o] =
                  [@ EXCEPT !.state = "BlockWait",
                            !.myAck = {m \in acks : m.from = o},
                            !.min = sel.vote,
                            !.brs = [BlockRoundsFor(o, sel.vote) EXCEPT ![t].wait = <<>>]]]
             /\ genQ' = [genQ EXCEPT ![o] = @ \cup Requeue(BlockRoundsFor(o, sel.vote), t)]
             /\ msgs' = msgs \cup
                  (IF sel.vote.pub = o
                   THEN {[type |-> "BlockReq", from |-> o, vote |-> sel.vote]} ELSE {})
<1>0. PICK acks \in MessageMaps(o, "RoundVoteAck") : \E sel \in acks : Effect(acks, sel)
  BY DEF HandleRoundVoteAck, MaySelect
<1>1. PICK sel \in acks : Effect(acks, sel)
  BY <1>0
<1>2. acks \in SUBSET AckMsg /\ sel.vote \in AckVote
  BY MsgByType DEF MessageMaps, Types, AckMsg
<1>3. BlockRoundsFor(o, sel.vote) \in BlockRoundMap
  <2> DEFINE r == round[o]
             D == {x \in DOMAIN r.brs : x < r.target + RemainBlocks(chain[o], sel.vote.tc)}
  <2>1. r.brs \in BlockRoundMap
    BY DEF Types, Round
  <2>2. DOMAIN r.brs \in SUBSET Nat /\ \A h \in DOMAIN r.brs : r.brs[h] \in BlockRoundRec
    BY <2>1, EmptyHeader, BlockRoundExcept
  <2>3. BlockRoundsFor(o, sel.vote) \in [D -> BlockRoundRec]
    BY <2>2, EmptyHeader DEF BlockRoundsFor, BlockRoundRec
  <2>4. D \in SUBSET Nat
    BY <2>2
  <2> HIDE DEF D
  <2> QED BY <2>3, <2>4 DEF BlockRoundMap
<1>4. [BlockRoundsFor(o, sel.vote) EXCEPT ![t].wait = <<>>] \in BlockRoundMap
  BY <1>3, EmptyHeader, BlockRoundExcept
<1>5. round' \in [Observers -> Round]
  <2> DEFINE mine == {m \in acks : m.from = o}
             brs == [BlockRoundsFor(o, sel.vote) EXCEPT ![t].wait = <<>>]
             v == sel.vote
  <2>1. round[o] \in Round /\ mine \in SUBSET AckMsg /\ v \in AckVote /\ brs \in BlockRoundMap
    BY <1>2, <1>4 DEF Types
  <2>2. round' = [round EXCEPT ![o] = [round[o] EXCEPT !.state = "BlockWait", !.myAck = mine,
                                                       !.min = v, !.brs = brs]]
    BY <1>1
  <2> HIDE DEF mine, brs, v
  <2>3. [round[o] EXCEPT !.state = "BlockWait", !.myAck = mine, !.min = v, !.brs = brs] \in Round
    BY <2>1 DEF Round, States
  <2> QED BY <2>2, <2>3, RoundExcept
<1>6. genQ' \in [Observers -> SUBSET Gen]
  BY <1>1, <1>3, RequeueType DEF Types
<1>7. msgs' \in SUBSET Msg
  <2>1. [type |-> "BlockReq", from |-> o, vote |-> sel.vote] \in ReqMsg
    BY <1>2 DEF ReqMsg
  <2> QED BY <1>1, <2>1 DEF Types, Msg
<1> QED BY <1>5, <1>6, <1>7 DEF Types, HandleRoundVoteAck

\* A round that has voted holds the block it voted for.
VoteInMap ==
  \A o \in Observers : round[o].state = "BlockVote" => round[o].target \in DOMAIN round[o].brs

\* An observer in BlockVoteState holds the header it voted for.
LEMMA VotedHeader ==
  ASSUME Types, VoteInMap, NEW o \in Observers, round[o].state = "BlockVote"
  PROVE  round[o].brs[round[o].target].gen \in Header
<1>1. round[o].brs \in BlockRoundMap
  BY DEF Types, Round
<1>2. round[o].brs[round[o].target] \in BlockRoundRec
  BY <1>1, EmptyHeader, BlockRoundExcept DEF VoteInMap
<1> QED BY <1>2 DEF BlockRoundRec

\* The answers add round votes, acks and the block vote of the round.
LEMMA AnswerTypes ==
  ASSUME Types, VoteInMap, NEW o \in Observers, NEW m \in msgs,
         AnswerRoundVote(o, m) \/ AnswerRoundVoteAck(o, m)
  PROVE  Types'
<1>1. BlockVoteReply(o, m.from) \in SUBSET BlockVoteMsg
  BY VotedHeader, BlockVoteType DEF BlockVoteReply
<1>2. msgs' \in SUBSET Msg
  <2>1. CASE AnswerRoundVote(o, m)
    <3>1. PICK reply \in RoundVoteReplies(o, m.from) :
            msgs' = msgs \cup reply \cup BlockVoteReply(o, m.from)
      BY <2>1 DEF AnswerRoundVote
    <3>2. reply \in SUBSET RoundVoteMsg
      BY ReplyTypes
    <3> QED BY <1>1, <3>1, <3>2 DEF Types, Msg
  <2>2. CASE AnswerRoundVoteAck(o, m)
    <3>1. msgs' = msgs \cup RoundVoteAckReply(o, m.from) \cup BlockVoteReply(o, m.from)
      BY <2>2 DEF AnswerRoundVoteAck
    <3>2. RoundVoteAckReply(o, m.from) \in SUBSET AckMsg
      BY ReplyTypes
    <3> QED BY <1>1, <3>1, <3>2 DEF Types, Msg
  <2> QED BY <2>1, <2>2
<1>3. UNCHANGED <<chain, round, genQ, blockQ, panicked>>
  BY DEF AnswerRoundVote, AnswerRoundVoteAck
<1> QED BY <1>2, <1>3 DEF Types

\* A BlockGenMessage leaves the state typed.
LEMMA HandleBlockGenTypes ==
  ASSUME Types, NEW o \in Observers, NEW g \in genQ[o], HandleBlockGen(o, g)
  PROVE  Types'
<1> DEFINE r == round[o]
           h == Len(g.hdr)
           early == [r EXCEPT !.brs = [r.brs EXCEPT ![h].wait = g.hdr]]
           vote == [r EXCEPT !.state = "BlockVote", !.brs = [r.brs EXCEPT ![h].gen = g.hdr]]
<1>1. g \in Gen /\ g.hdr \in Header /\ r \in Round
  BY DEF Types, Gen
<1>2. [r.brs EXCEPT ![h].wait = g.hdr] \in BlockRoundMap
  BY <1>1, BlockRoundExcept DEF Round
<1>3. [r.brs EXCEPT ![h].gen = g.hdr] \in BlockRoundMap
  BY <1>1, BlockRoundExcept DEF Round
<1>4. early \in Round
  <2> DEFINE brs == [r.brs EXCEPT ![h].wait = g.hdr]
  <2>1. early = [r EXCEPT !.brs = brs]
    BY <1>1 DEF Round
  <2>2. brs \in BlockRoundMap
    BY <1>2
  <2> HIDE DEF brs, early, r
  <2> QED BY <1>1, <2>1, <2>2 DEF Round
<1>5. vote \in Round
  <2> DEFINE brs == [r.brs EXCEPT ![h].gen = g.hdr]
  <2>1. vote = [r EXCEPT !.state = "BlockVote", !.brs = brs]
    BY <1>1 DEF Round
  <2>2. brs \in BlockRoundMap
    BY <1>3
  <2> HIDE DEF brs, vote, r
  <2> QED BY <1>1, <2>1, <2>2 DEF Round, States
<1>6. \/ round' = [round EXCEPT ![o] = early]
      \/ round' = [round EXCEPT ![o] = vote]
      \/ round' = [round EXCEPT ![o] = r]
  <2> DEFINE open == h \in DOMAIN r.brs /\ r.brs[h].gen = <<>>
             isEarly == \/ h > r.target
                        \/ h = r.target /\ r.state \in {"RoundVote", "RoundVoteAck"}
             isVote == open /\ ~isEarly /\ Acceptable(o, g.hdr)
  <2>1. round' = [round EXCEPT ![o] =
                    IF open /\ isEarly THEN early ELSE IF isVote THEN vote ELSE r]
    BY DEF HandleBlockGen
  <2> HIDE DEF open, isEarly, isVote, early, vote, r
  <2> QED BY <2>1
<1>7. round' \in [Observers -> Round]
  <2> HIDE DEF early, vote, r
  <2> QED BY <1>1, <1>4, <1>5, <1>6, RoundExcept
<1>8. genQ' \in [Observers -> SUBSET Gen]
  <2>1. genQ' = Relayed(o, g) \/ genQ' = [genQ EXCEPT ![o] = @ \ {g}]
    BY DEF HandleBlockGen
  <2> QED BY <1>1, <2>1 DEF Relayed, Types
<1>9. msgs' \in SUBSET Msg
  <2>1. msgs' = msgs \/ msgs' = msgs \cup {BlockVoteOf(o, g.hdr)}
    BY DEF HandleBlockGen
  <2> QED BY <1>1, <2>1, BlockVoteType DEF Types, Msg
<1> QED BY <1>7, <1>8, <1>9 DEF HandleBlockGen, Types

\* A BlockVoteMessage leaves the state typed.
LEMMA HandleBlockVoteTypes ==
  ASSUME Types, VoteInMap, NEW o \in Observers, HandleBlockVote(o)
  PROVE  Types'
<1> DEFINE r == round[o]
           hdr == r.brs[r.target].gen
           next == r.target + 1
           cont == [r EXCEPT !.state = "BlockWait", !.target = next]
<1>1. hdr \in Header
  BY VotedHeader DEF HandleBlockVote
<1>2. r \in Round /\ r.brs \in BlockRoundMap /\ next \in Nat
  BY DEF Types, Round
<1>3. chain' \in [Observers -> Header]
  BY <1>1 DEF HandleBlockVote, Types
<1>4. cont \in Round
  <2> HIDE DEF next, r
  <2> QED BY <1>2 DEF Round, States
<1>5. \/ UNCHANGED <<round, genQ>>
      \/ /\ round' = [round EXCEPT ![o] = cont]
         /\ genQ' = [genQ EXCEPT ![o] = @ \cup Requeue(r.brs, next)]
      \/ round' = [round EXCEPT ![o] = NewVoteRound(next)] /\ UNCHANGED genQ
  BY DEF HandleBlockVote
<1>6. round' \in [Observers -> Round] /\ genQ' \in [Observers -> SUBSET Gen]
  <2>1. NewVoteRound(next) \in Round /\ Requeue(r.brs, next) \in SUBSET Gen
    BY <1>2, NewVoteRoundType, RequeueType
  <2> HIDE DEF cont, next, r
  <2> QED BY <1>4, <1>5, <2>1, RoundExcept DEF Types
<1> QED BY <1>3, <1>6 DEF HandleBlockVote, Types

\* Fetching blocks leaves the state typed.
LEMMA FetchTypes ==
  ASSUME Types, NEW o \in Observers, NEW p \in Observers, NEW h \in 1..Height(p),
         HandleStatus(o, p, h) \/ HandleBlock(o, p, h)
  PROVE  Types'
<1>1. SubSeq(chain[p], 1, h) \in Header
  <2>1. chain[p] \in Header /\ h \in 0..Len(chain[p])
    BY LenHeader DEF Types, Height
  <2> QED BY <2>1, HeaderPrefix
<1>2. /\ UNCHANGED <<chain, round, genQ, msgs>>
      /\ panicked' = panicked \/ panicked' = panicked \cup {o}
      /\ blockQ' = blockQ \/ blockQ' = [blockQ EXCEPT ![o] = @ \cup {SubSeq(chain[p], 1, h)}]
  BY DEF HandleStatus, HandleBlock
<1> HIDE DEF HandleStatus, HandleBlock
<1> QED BY <1>1, <1>2 DEF Types

\* blockTimer leaves the state typed.
LEMMA BlockTimerTypes ==
  ASSUME Types, NEW o \in Observers, BlockTimer(o)
  PROVE  Types'
<1>1. QueuedRun(o) \cup {chain[o]} \in SUBSET Header
  BY DEF QueuedRun, Types
<1>2. /\ \E tip \in Header : chain' = [chain EXCEPT ![o] = tip]
      /\ \E S \in SUBSET blockQ[o] : blockQ' = [blockQ EXCEPT ![o] = S]
      /\ panicked' = panicked \/ panicked' = panicked \cup {o}
  BY <1>1 DEF BlockTimer, Reached
<1>3. UNCHANGED <<round, genQ, msgs>>
  BY DEF BlockTimer
<1> QED BY <1>2, <1>3 DEF Types

\* syncVoteRound returns a round, and leaves one in BlockVoteState as it was or for another state.
LEMMA SyncedType ==
  ASSUME Types, NEW o \in Observers
  PROVE  /\ Synced(o).round \in Round
         /\ Synced(o).requeued \in SUBSET Gen
         /\ Synced(o).round.state = "BlockVote" => Synced(o).round = round[o]
<1> DEFINE r == round[o]
           next == Height(o) + 1
           brs == [r.brs EXCEPT ![next].wait = IF r.brs[next].gen = <<>> THEN <<>> ELSE @]
<1>1. r \in Round /\ r.brs \in BlockRoundMap /\ next \in Nat
  BY LenHeader DEF Types, Round, Height
<1>2. CASE r.target >= next
  BY <1>1, <1>2 DEF Synced
<1>3. CASE ~(r.target >= next) /\ Continues(r, chain[o])
  <2>1. brs \in BlockRoundMap
    <3>1. next \in DOMAIN r.brs
      BY <1>3 DEF Continues, Height
    <3>2. r.brs[next].wait \in Header
      <4>1. r.brs[next] \in BlockRoundRec
        BY <1>1, <3>1, EmptyHeader, BlockRoundExcept
      <4> QED BY <4>1 DEF BlockRoundRec
    <3> DEFINE w == IF r.brs[next].gen = <<>> THEN <<>> ELSE r.brs[next].wait
    <3>3. w \in Header
      BY <3>2, EmptyHeader
    <3>4. brs = [r.brs EXCEPT ![next].wait = w]
      OBVIOUS
    <3> HIDE DEF w
    <3> QED BY <1>1, <3>3, <3>4, BlockRoundExcept
  <2> DEFINE x == [r EXCEPT !.target = next, !.state = "BlockWait", !.brs = brs]
  <2>2. Synced(o) = [round |-> x, requeued |-> Requeue(r.brs, next)]
    BY <1>3 DEF Synced
  <2>3. Requeue(r.brs, next) \in SUBSET Gen
    BY <1>1, RequeueType
  <2> HIDE DEF r, brs, next
  <2>4. x \in Round
    BY <1>1, <2>1 DEF Round, States
  <2>5. x.state = "BlockWait"
    BY <1>1 DEF Round
  <2> HIDE DEF x
  <2> QED BY <2>2, <2>3, <2>4, <2>5
<1>4. CASE ~(r.target >= next) /\ ~Continues(r, chain[o])
  <2>1. Synced(o) = [round |-> NewVoteRound(next), requeued |-> {}]
    BY <1>4 DEF Synced
  <2>2. NewVoteRound(next).state = "RoundVote"
    BY DEF NewVoteRound
  <2>3. NewVoteRound(next) \in Round
    BY <1>1, NewVoteRoundType
  <2> HIDE DEF next
  <2> QED BY <2>1, <2>2, <2>3
<1> QED BY <1>2, <1>3, <1>4

\* The vote timer leaves the state typed.
LEMMA VoteTimerTypes ==
  ASSUME Types, VoteInMap, NEW o \in Observers, VoteTimer(o)
  PROVE  Types'
<1> DEFINE r == Synced(o).round
<1>1. /\ r \in Round /\ Synced(o).requeued \in SUBSET Gen
      /\ r.state = "BlockVote" => r = round[o]
  BY SyncedType
<1>2. NewVoteRound(Height(o) + 1) \in Round
  BY NewVoteRoundType, LenHeader DEF Types, Height
<1>3. r.state = "BlockVote" => BlockVoteOf(o, r.brs[r.target].gen) \in BlockVoteMsg
  BY <1>1, VotedHeader, BlockVoteType
<1> HIDE DEF r
<1>4. round' \in [Observers -> Round]
  BY <1>1, <1>2, RoundExcept DEF VoteTimer, r
<1>5. msgs' \in SUBSET Msg
  BY <1>3, RoundVoteType DEF VoteTimer, r, Types, Msg
<1>6. genQ' \in [Observers -> SUBSET Gen]
  BY <1>1 DEF VoteTimer, Types
<1> QED BY <1>4, <1>5, <1>6 DEF VoteTimer, Types

\* A formulator that generates a block leaves the state typed.
LEMMA GenerateTypes ==
  ASSUME Types, Generate
  PROVE  Types'
<1>1. PICK req \in msgs : /\ req.type = "BlockReq"
                          /\ \E prev \in {req.vote.last} \cup {m.hdr : m \in {x \in msgs : x.type = "BlockGen"}} :
                               \E f \in Formulators, salt \in Salts : GenBlock(f, req, prev, salt)
  BY DEF Generate
<1>2. PICK prev \in {req.vote.last} \cup {m.hdr : m \in {x \in msgs : x.type = "BlockGen"}} :
             \E f \in Formulators, salt \in Salts : GenBlock(f, req, prev, salt)
  BY <1>1
<1>3. PICK f \in Formulators, salt \in Salts : GenBlock(f, req, prev, salt)
  BY <1>2
<1>4. /\ req.from \in Observers /\ req.vote.last \in Header /\ req.vote.tc \in TimeoutCounts
  <2>1. req \in ReqMsg
    BY <1>1, MsgByType DEF Types
  <2> QED BY <2>1 DEF ReqMsg, AckVote
<1>5. prev \in Header
  <2>1. \A m \in msgs : m.type = "BlockGen" => m.hdr \in Header
    BY MsgByType DEF Types, GenMsg
  <2> QED BY <1>2, <1>4, <2>1
<1> DEFINE tc == IF prev = req.vote.last THEN req.vote.tc ELSE 0
           hdr == Append(prev, [gen |-> f, tc |-> tc, salt |-> salt])
<1>6. hdr \in Header
  <2>1. tc \in TimeoutCounts
    BY <1>4, FormulatorsAssumption DEF TimeoutCounts
  <2>2. [gen |-> f, tc |-> tc, salt |-> salt] \in Content
    BY <2>1, <1>3 DEF Content
  <2>3. prev \in Seq(Content) /\ Len(hdr) <= MaxHeight
    BY <1>3, <1>5, HeaderDef DEF GenBlock
  <2>4. hdr \in Seq(Content)
    BY <2>2, <2>3, AppendProperties
  <2> QED BY <2>3, <2>4, HeaderDef
<1>7. /\ msgs' = msgs \cup {[type |-> "BlockGen", to |-> req.from, hdr |-> hdr]}
      /\ genQ' = [genQ EXCEPT ![req.from] = @ \cup {[hdr |-> hdr, raw |-> TRUE]}]
      /\ UNCHANGED <<chain, round, blockQ, panicked>>
  BY <1>3 DEF GenBlock
<1> HIDE DEF hdr
<1>8. [type |-> "BlockGen", to |-> req.from, hdr |-> hdr] \in GenMsg
  BY <1>4, <1>6 DEF GenMsg
<1>9. [hdr |-> hdr, raw |-> TRUE] \in Gen
  BY <1>6 DEF Gen
<1> QED BY <1>7, <1>8, <1>9 DEF Types, Msg

\* Every step keeps the types.
LEMMA NextTypes ==
  ASSUME Types, VoteInMap, [Next]_vars
  PROVE  Types'
<1>1. CASE UNCHANGED vars
  BY <1>1 DEF vars, Types
<1>2. CASE Generate
  BY <1>2, GenerateTypes
<1>3. ASSUME NEW o \in Observers, Step(o) PROVE Types'
  BY <1>3, HandleRoundVoteTypes, HandleRoundVoteAckTypes, HandleBlockVoteTypes, AnswerTypes,
     HandleBlockGenTypes, FetchTypes, BlockTimerTypes, VoteTimerTypes DEF Step
<1> QED BY <1>1, <1>2, <1>3 DEF Next

\* The proof's typing implies the one TLC checks.
LEMMA TypesImplyTypeOK == Types => TypeOK
<1> SUFFICES ASSUME Types PROVE TypeOK
  OBVIOUS
<1>1. ASSUME NEW o \in Observers
      PROVE  /\ round[o].state \in {"RoundVote", "RoundVoteAck", "BlockWait", "BlockVote"}
             /\ round[o].target \in Nat
             /\ round[o].brs \in BlockRoundMap
  BY DEF Types, Round, States
<1>2. ASSUME NEW o \in Observers, NEW h \in DOMAIN round[o].brs
      PROVE  h \in Nat /\ round[o].brs[h] \in [gen : Header, wait : Header]
  BY <1>1, EmptyHeader, BlockRoundExcept DEF BlockRoundRec
<1>3. ASSUME NEW m \in msgs
      PROVE  IF m.type \in {"BlockGen", "BlockVote"} THEN m.hdr \in Header
             ELSE m.vote.last \in Header /\ m.vote.height = Len(m.vote.last) + 1
  BY DEF Types, Msg, RoundVoteMsg, AckMsg, ReqMsg, GenMsg, BlockVoteMsg, Vote, AckVote
<1> QED BY <1>1, <1>2, <1>3 DEF TypeOK, Types, Gen

-----------------------------------------------------------------------------
(* Votes *)

\* The block that o's round votes for.
Voted(o) == round[o].brs[round[o].target].gen

\* A round in BlockVoteState holds the block that o has signed.
HoldsVote ==
  \A o \in Observers : round[o].state = "BlockVote" =>
    /\ round[o].target \in DOMAIN round[o].brs
    /\ Len(Voted(o)) = round[o].target
    /\ BlockVoteOf(o, Voted(o)) \in msgs

\* A signed block names the formulator of its timeout count.
ValidGenerator(hdr) ==
  /\ hdr # <<>> /\ Last(hdr).tc \in TimeoutCounts
  /\ Last(hdr).gen = TopRank(Front(hdr), Last(hdr).tc)

VotesValid == \A m \in BlockVotes : ValidGenerator(m.hdr)

Certified(hdr) ==
  \A h \in 1..Len(hdr) : Cardinality(Signers(SubSeq(hdr, 1, h))) >= Majority

BlocksCertified ==
  \A o \in Observers : /\ Certified(chain[o])
                       /\ \A x \in blockQ[o] : Certified(x)

IInv ==
  /\ Types
  /\ HoldsVote
  /\ VoteLocked
  /\ VotesValid
  /\ OneVotePerHeight
  /\ BlocksCertified
  /\ NoPanic

-----------------------------------------------------------------------------
(***************************************************************************)
(* Certified blocks are unique.                                            *)
(***************************************************************************)

\* n/2+1 is a number.
LEMMA MajorityType == Cardinality(Observers) \in Nat /\ Majority \in Nat \ {0}
  BY FS_CardinalityType, ObserversAssumption DEF Majority

\* Two majorities of the observers share one.
LEMMA MajoritiesMeet ==
  ASSUME NEW S \in SUBSET Observers, NEW T \in SUBSET Observers,
         Cardinality(S) >= Majority, Cardinality(T) >= Majority
  PROVE  S \cap T # {}
<1>1. Cardinality(Observers) \in Nat
  BY MajorityType
<1>2. Cardinality(S) \in Nat /\ Cardinality(T) \in Nat
  BY FS_Subset, FS_CardinalityType, ObserversAssumption
<1>3. Cardinality(S) + Cardinality(T) > Cardinality(Observers)
  BY <1>1, <1>2 DEF Majority
<1> QED BY <1>3, FS_MajoritiesIntersect, ObserversAssumption

\* A block with a majority of signatures has one.
LEMMA SomeSigner ==
  ASSUME NEW hdr, Cardinality(Signers(hdr)) >= Majority
  PROVE  \E o \in Observers : BlockVoteOf(o, hdr) \in msgs
<1>1. Signers(hdr) \in SUBSET Observers
  BY DEF Signers
<1>2. Signers(hdr) \cap Signers(hdr) # {}
  BY <1>1, MajoritiesMeet
<1> QED BY <1>2 DEF Signers

\* Two blocks of a height that both have a majority of signatures are the same.
LEMMA SignedOnce ==
  ASSUME OneVotePerHeight, NEW a, NEW b, Len(a) = Len(b),
         Cardinality(Signers(a)) >= Majority, Cardinality(Signers(b)) >= Majority
  PROVE  a = b
<1>1. Signers(a) \in SUBSET Observers /\ Signers(b) \in SUBSET Observers
  BY DEF Signers
<1>2. PICK o : o \in Signers(a) \cap Signers(b)
  BY <1>1, MajoritiesMeet
<1>3. BlockVoteOf(o, a) \in BlockVotes /\ BlockVoteOf(o, b) \in BlockVotes
  BY <1>2 DEF Signers, BlockVotes, BlockVoteOf
<1> QED BY <1>3 DEF OneVotePerHeight, BlockVoteOf

\* Two certified blocks agree up to every height they both reach.
LEMMA CertifiedUnique ==
  ASSUME OneVotePerHeight, NEW a \in Header, NEW b \in Header, Certified(a), Certified(b),
         NEW n \in Nat, n <= Len(a), n <= Len(b)
  PROVE  SubSeq(a, 1, n) = SubSeq(b, 1, n)
<1>1. Len(a) \in Nat /\ Len(b) \in Nat
  BY LenHeader
<1>2. CASE n = 0
  BY <1>2, SubSeqEmpty
<1>3. CASE n # 0
  <2>1. n \in 1..Len(a) /\ n \in 1..Len(b)
    BY <1>1, <1>3
  <2>2. Len(SubSeq(a, 1, n)) = n /\ Len(SubSeq(b, 1, n)) = n
    BY <1>1, HeaderPrefix
  <2> QED BY <2>1, <2>2, SignedOnce DEF Certified
<1> QED BY <1>2, <1>3

\* Of two certified blocks one is an ancestor of the other.
LEMMA CertifiedPrefix ==
  ASSUME OneVotePerHeight, NEW a \in Header, NEW b \in Header, Certified(a), Certified(b),
         Len(a) <= Len(b)
  PROVE  IsPrefix(a, b)
<1>1. Len(a) \in Nat
  BY LenHeader
<1>2. SubSeq(a, 1, Len(a)) = a
  BY <1>1, HeaderPrefix
<1>3. SubSeq(a, 1, Len(a)) = SubSeq(b, 1, Len(a))
  BY <1>1, CertifiedUnique
<1> QED BY <1>2, <1>3 DEF IsPrefix

\* Every ancestor of a certified block is certified.
LEMMA CertifiedParts ==
  ASSUME NEW a \in Header, Certified(a), NEW n \in 0..Len(a)
  PROVE  Certified(SubSeq(a, 1, n))
<1>1. Len(a) \in Nat
  BY LenHeader
<1>2. Len(SubSeq(a, 1, n)) = n
  BY HeaderPrefix
<1>3. ASSUME NEW h \in 1..n PROVE Cardinality(Signers(SubSeq(SubSeq(a, 1, n), 1, h))) >= Majority
  <2>1. SubSeq(SubSeq(a, 1, n), 1, h) = SubSeq(a, 1, h)
    BY <1>1, HeaderPrefix
  <2>2. h \in 1..Len(a)
    BY <1>1
  <2> QED BY <2>1, <2>2 DEF Certified
<1> QED BY <1>2, <1>3 DEF Certified

\* A block on a certified chain is certified by a majority of votes of its own.
LEMMA CertifiedNext ==
  ASSUME NEW a \in Header, a # <<>>, Certified(Front(a)), Cardinality(Signers(a)) >= Majority
  PROVE  Certified(a)
<1>1. Len(a) \in Nat /\ Len(a) # 0 /\ a \in Seq(Content)
  BY HeaderDef, EmptySeq, LenProperties
<1>2. Len(a) - 1 \in 0..Len(a)
  BY <1>1
<1>3. Len(Front(a)) = Len(a) - 1
  BY <1>2, HeaderPrefix DEF Front
<1>4. ASSUME NEW h \in 1..Len(a) PROVE Cardinality(Signers(SubSeq(a, 1, h))) >= Majority
  <2>1. CASE h = Len(a)
    BY <1>2, <2>1, HeaderPrefix
  <2>2. CASE h # Len(a)
    <3>1. h \in 1..(Len(a) - 1) /\ h \in 0..(Len(a) - 1)
      BY <1>1, <2>2
    <3>2. SubSeq(Front(a), 1, h) = SubSeq(a, 1, h)
      BY <1>2, <3>1, HeaderPrefix DEF Front
    <3> QED BY <1>3, <3>1, <3>2 DEF Certified
  <2> QED BY <2>1, <2>2
<1> QED BY <1>4 DEF Certified

-----------------------------------------------------------------------------
(***************************************************************************)
(* Steps that add no block vote: chains grow by certified blocks only, and *)
(* a locked round is left only when the chain has reached its height.      *)
(***************************************************************************)

KeepsLock(o) ==
  \/ /\ round[o].state = "BlockVote" /\ round'[o].state = "BlockVote"
     /\ round'[o].target = round[o].target
     /\ round[o].target \in DOMAIN round'[o].brs
     /\ round'[o].brs[round[o].target].gen = Voted(o)
  \/ /\ round'[o].state # "BlockVote"
     /\ round[o].state = "BlockVote" => round[o].target <= Len(chain'[o])

\* Without new votes the same blocks are certified.
LEMMA SameSigners ==
  ASSUME BlockVotes' = BlockVotes, NEW hdr
  PROVE  Signers(hdr)' = Signers(hdr) /\ Certified(hdr)' = Certified(hdr)
<1>1. ASSUME NEW x PROVE Signers(x)' = Signers(x)
  <2>1. \A o \in Observers : BlockVoteOf(o, x) \in msgs <=> BlockVoteOf(o, x) \in BlockVotes
    BY DEF BlockVotes, BlockVoteOf
  <2>2. \A o \in Observers : BlockVoteOf(o, x) \in msgs' <=> BlockVoteOf(o, x) \in BlockVotes'
    BY DEF BlockVotes, BlockVoteOf
  <2> QED BY <2>1, <2>2 DEF Signers, BlockVoteOf
<1> QED BY <1>1 DEF Certified

\* A step that casts no vote, keeps the locks and connects only certified blocks keeps IInv.
LEMMA NoNewVote ==
  ASSUME IInv, Types', BlockVotes' = BlockVotes, panicked' = {},
         \A o \in Observers :
           /\ KeepsLock(o)
           /\ Len(chain'[o]) >= Len(chain[o]) /\ Certified(chain'[o])
           /\ \A x \in blockQ'[o] : Certified(x)
  PROVE  IInv'
<1> USE DEF IInv
<1>1. HoldsVote'
  <2> SUFFICES ASSUME NEW o \in Observers, round'[o].state = "BlockVote"
               PROVE  /\ round'[o].target \in DOMAIN round'[o].brs
                      /\ Len(Voted(o)') = round'[o].target
                      /\ BlockVoteOf(o, Voted(o)') \in msgs'
    BY DEF HoldsVote, BlockVoteOf
  <2>1. /\ round[o].state = "BlockVote" /\ round'[o].target = round[o].target
        /\ round[o].target \in DOMAIN round'[o].brs /\ Voted(o)' = Voted(o)
    BY DEF KeepsLock, Voted
  <2>2. Len(Voted(o)) = round[o].target /\ BlockVoteOf(o, Voted(o)) \in BlockVotes
    BY <2>1 DEF HoldsVote, BlockVotes, BlockVoteOf
  <2> QED BY <2>1, <2>2 DEF BlockVotes
<1>2. VoteLocked'
  <2> SUFFICES ASSUME NEW m \in BlockVotes, Len(m.hdr) > Len(chain'[m.from])
               PROVE  /\ round'[m.from].state = "BlockVote"
                      /\ round'[m.from].target = Len(m.hdr)
                      /\ Voted(m.from)' = m.hdr
    BY DEF VoteLocked, Height, Voted
  <2>1. m.from \in Observers /\ m.hdr \in Header
    BY MsgByType DEF BlockVotes, Types, BlockVoteMsg
  <2>2. Len(m.hdr) \in Nat /\ Len(chain[m.from]) \in Nat /\ Len(chain'[m.from]) \in Nat
    BY <2>1, LenHeader DEF Types
  <2>3. Len(m.hdr) > Len(chain[m.from])
    BY <2>1, <2>2
  <2>4. round[m.from].state = "BlockVote" /\ round[m.from].target = Len(m.hdr)
        /\ Voted(m.from) = m.hdr
    BY <2>3 DEF VoteLocked, Height, Voted
  <2>5. ~(round[m.from].target <= Len(chain'[m.from]))
    BY <2>2, <2>4
  <2> QED BY <2>1, <2>4, <2>5 DEF KeepsLock, Voted
<1>3. VotesValid' /\ OneVotePerHeight'
  BY DEF VotesValid, OneVotePerHeight, ValidGenerator
<1>4. BlocksCertified'
  <2>1. \A x : Signers(x)' = Signers(x)
    BY SameSigners
  <2>2. ASSUME NEW o \in Observers
        PROVE  /\ \A h \in 1..Len(chain'[o]) :
                    Cardinality(Signers(SubSeq(chain'[o], 1, h))) >= Majority
               /\ \A x \in blockQ'[o] : \A h \in 1..Len(x) :
                    Cardinality(Signers(SubSeq(x, 1, h))) >= Majority
    BY DEF Certified
  <2> QED BY <2>1, <2>2, ZenonT(60) DEF BlocksCertified, Certified, Signers, BlockVoteOf
<1> QED BY <1>1, <1>2, <1>3, <1>4 DEF NoPanic

\* What a step does to the chains and the votes: nothing, or it connects blocks.
Quietly == BlockVotes' = BlockVotes /\ UNCHANGED chain

Connects(o) ==
  /\ BlockVotes' = BlockVotes
  /\ \E hdr \in Header : /\ chain' = [chain EXCEPT ![o] = hdr]
                         /\ Certified(hdr) /\ Len(hdr) >= Len(chain[o])

\* Steps that leave chains and queues alone.
LEMMA Quiet ==
  ASSUME IInv, Types', BlockVotes' = BlockVotes, UNCHANGED <<chain, blockQ, panicked>>,
         \A o \in Observers : KeepsLock(o)
  PROVE  IInv' /\ Quietly
<1>1. panicked' = {}
  BY DEF IInv, NoPanic
<1>2. ASSUME NEW o \in Observers
      PROVE  /\ Len(chain'[o]) >= Len(chain[o]) /\ Certified(chain'[o])
             /\ \A x \in blockQ'[o] : Certified(x)
  <2>1. Len(chain[o]) \in Nat
    BY LenHeader DEF IInv, Types
  <2> QED BY <2>1 DEF IInv, BlocksCertified
<1> QED BY <1>1, <1>2, NoNewVote DEF Quietly

\* Messages other than block votes do not add signers.
LEMMA AddsNoVote ==
  ASSUME NEW S, msgs' = msgs \cup S, \A m \in S : m.type # "BlockVote" \/ m \in msgs
  PROVE  BlockVotes' = BlockVotes
  BY DEF BlockVotes

\* A round that does not change keeps the lock of its vote.
LEMMA SameRoundKeepsLock ==
  ASSUME IInv, NEW o \in Observers, round'[o] = round[o]
  PROVE  KeepsLock(o)
  BY DEF IInv, HoldsVote, KeepsLock, Voted

\* It is enough to look at the observer that takes the step.
LEMMA OneRoundKeepsLock ==
  ASSUME IInv, NEW o \in Observers, NEW r, round' = [round EXCEPT ![o] = r], KeepsLock(o)
  PROVE  \A p \in Observers : KeepsLock(p)
<1> SUFFICES ASSUME NEW p \in Observers, p # o PROVE KeepsLock(p)
  OBVIOUS
<1>1. round'[p] = round[p]
  BY DEF IInv, Types
<1> QED BY <1>1, SameRoundKeepsLock

\* handleObserverMessage of a RoundVoteMessage keeps IInv.
LEMMA HandleRoundVoteIInv ==
  ASSUME IInv, Types', NEW o \in Observers, HandleRoundVote(o)
  PROVE  IInv' /\ Quietly
<1>1. PICK rvs \in MessageMaps(o, "RoundVote") : \E min \in rvs :
        /\ round' = [round EXCEPT ![o] =
             [@ EXCEPT !.state = "RoundVoteAck", !.myVote = {m \in rvs : m.from = o}]]
        /\ msgs' = msgs \cup {RoundVoteAckOf(o, min)}
  BY DEF HandleRoundVote
<1>2. BlockVotes' = BlockVotes
  <2>1. PICK min \in rvs : msgs' = msgs \cup {RoundVoteAckOf(o, min)}
    BY <1>1
  <2>2. RoundVoteAckOf(o, min).type # "BlockVote"
    BY DEF RoundVoteAckOf
  <2> QED BY <2>1, <2>2, AddsNoVote
<1>3. round[o] \in Round /\ round[o].state = "RoundVote"
  BY DEF IInv, Types, HandleRoundVote
<1>4. round'[o].state # "BlockVote"
  BY <1>1, <1>3 DEF IInv, Types, Round
<1>5. KeepsLock(o)
  BY <1>3, <1>4 DEF KeepsLock
<1>6. \A p \in Observers : KeepsLock(p)
  BY <1>1, <1>5, OneRoundKeepsLock
<1> QED BY <1>2, <1>6, Quiet DEF HandleRoundVote

\* handleObserverMessage of a RoundVoteAckMessage keeps IInv.
LEMMA HandleRoundVoteAckIInv ==
  ASSUME IInv, Types', NEW o \in Observers, HandleRoundVoteAck(o)
  PROVE  IInv' /\ Quietly
<1> DEFINE Effect(acks, sel) ==
             /\ round' = [round EXCEPT ![o] =
                  [@ EXCEPT !.state = "BlockWait", !.myAck = {m \in acks : m.from = o},
                            !.min = sel.vote,
                            !.brs = [BlockRoundsFor(o, sel.vote) EXCEPT ![round[o].target].wait = <<>>]]]
             /\ msgs' = msgs \cup
                  (IF sel.vote.pub = o
                   THEN {[type |-> "BlockReq", from |-> o, vote |-> sel.vote]} ELSE {})
<1>0. PICK acks \in MessageMaps(o, "RoundVoteAck") : \E sel \in acks : Effect(acks, sel)
  BY DEF HandleRoundVoteAck, MaySelect
<1>1. PICK sel \in acks : Effect(acks, sel)
  BY <1>0
<1>2. BlockVotes' = BlockVotes
  <2>1. [type |-> "BlockReq", from |-> o, vote |-> sel.vote].type # "BlockVote"
    OBVIOUS
  <2> QED BY <1>1, <2>1, AddsNoVote
<1>3. round[o] \in Round /\ round[o].state = "RoundVoteAck"
  BY DEF IInv, Types, HandleRoundVoteAck
<1>4. round'[o].state # "BlockVote"
  BY <1>1, <1>3 DEF IInv, Types, Round
<1>5. KeepsLock(o)
  BY <1>3, <1>4 DEF KeepsLock
<1>6. \A p \in Observers : KeepsLock(p)
  BY <1>1, <1>5, OneRoundKeepsLock
<1> QED BY <1>2, <1>6, Quiet DEF HandleRoundVoteAck

\* An observer that answers out of turn restates only votes it has cast.
LEMMA AnswerIInv ==
  ASSUME IInv, Types', NEW o \in Observers, NEW m \in msgs,
         AnswerRoundVote(o, m) \/ AnswerRoundVoteAck(o, m)
  PROVE  IInv' /\ Quietly
<1>1. \A x \in BlockVoteReply(o, m.from) : x \in msgs
  BY DEF IInv, HoldsVote, BlockVoteReply, Voted
<1>2. BlockVotes' = BlockVotes
  <2>1. CASE AnswerRoundVote(o, m)
    <3>1. PICK reply \in RoundVoteReplies(o, m.from) :
            msgs' = msgs \cup (reply \cup BlockVoteReply(o, m.from))
      BY <2>1 DEF AnswerRoundVote
    <3>2. reply \in SUBSET RoundVoteMsg
      BY ReplyTypes DEF IInv
    <3>3. \A x \in reply : x.type # "BlockVote"
      BY <3>2 DEF RoundVoteMsg
    <3> QED BY <1>1, <3>1, <3>3, AddsNoVote
  <2>2. CASE AnswerRoundVoteAck(o, m)
    <3>1. msgs' = msgs \cup (RoundVoteAckReply(o, m.from) \cup BlockVoteReply(o, m.from))
      BY <2>2 DEF AnswerRoundVoteAck
    <3>2. RoundVoteAckReply(o, m.from) \in SUBSET AckMsg
      BY ReplyTypes DEF IInv
    <3>3. \A x \in RoundVoteAckReply(o, m.from) : x.type # "BlockVote"
      BY <3>2 DEF AckMsg
    <3> QED BY <1>1, <3>1, <3>3, AddsNoVote
  <2> QED BY <2>1, <2>2
<1>3. UNCHANGED <<chain, round, blockQ, panicked>>
  BY DEF AnswerRoundVote, AnswerRoundVoteAck
<1>4. \A p \in Observers : KeepsLock(p)
  BY <1>3, SameRoundKeepsLock
<1> QED BY <1>2, <1>3, <1>4, Quiet

\* A formulator that generates the blocks of its turn keeps IInv.
LEMMA GenerateIInv ==
  ASSUME IInv, Types', Generate
  PROVE  IInv' /\ Quietly
<1>0. PICK req, prev, f, salt : GenBlock(f, req, prev, salt)
  BY DEF Generate
<1> DEFINE to == req.from
           hdr == Append(prev, [gen |-> f, tc |-> IF prev = req.vote.last THEN req.vote.tc ELSE 0,
                                salt |-> salt])
<1>1. msgs' = msgs \cup {[type |-> "BlockGen", to |-> to, hdr |-> hdr]}
  BY <1>0 DEF GenBlock
<1>2. UNCHANGED <<chain, round, blockQ, panicked>>
  BY <1>0 DEF GenBlock
<1>3. [type |-> "BlockGen", to |-> to, hdr |-> hdr].type # "BlockVote"
  OBVIOUS
<1>4. BlockVotes' = BlockVotes
  BY <1>1, <1>3, AddsNoVote
<1>5. \A p \in Observers : KeepsLock(p)
  BY <1>2, SameRoundKeepsLock
<1> QED BY <1>2, <1>4, <1>5, Quiet

-----------------------------------------------------------------------------
(***************************************************************************)
(* Fetching and connecting blocks.                                         *)
(***************************************************************************)

\* A block fetched from another observer was connected there.
LEMMA FetchIInv ==
  ASSUME IInv, Types', NEW o \in Observers, NEW p \in Observers, NEW h \in 1..Height(p),
         HandleStatus(o, p, h) \/ HandleBlock(o, p, h)
  PROVE  IInv' /\ Quietly
<1> DEFINE hdr == SubSeq(chain[p], 1, h)
<1>1. /\ chain[o] \in Header /\ chain[p] \in Header /\ blockQ[o] \in SUBSET Header
      /\ Len(chain[o]) \in Nat /\ Len(chain[p]) \in Nat
      /\ h \in Nat /\ h \in 0..Len(chain[p]) /\ h <= Len(chain[p])
      /\ Certified(chain[o]) /\ Certified(chain[p]) /\ OneVotePerHeight
  BY LenHeader DEF IInv, Types, Height, BlocksCertified
<1>2. hdr \in Header /\ Len(hdr) = h /\ SubSeq(hdr, 1, h) = hdr /\ Certified(hdr)
  BY <1>1, HeaderPrefix, CertifiedParts
<1>3. h <= Height(o) => SubSeq(chain[o], 1, h) = hdr
  BY <1>1, CertifiedUnique DEF Height
<1>4. ASSUME NEW x \in blockQ[o], Len(x) = h PROVE x = hdr
  <2>1. x \in Header /\ Certified(x)
    BY <1>1 DEF IInv, BlocksCertified
  <2>2. SubSeq(x, 1, h) = SubSeq(hdr, 1, h)
    BY <1>1, <1>2, <1>4, <2>1, CertifiedUnique
  <2>3. SubSeq(x, 1, h) = x
    BY <1>1, <1>4, <2>1, HeaderPrefix
  <2> QED BY <1>2, <2>2, <2>3
<1>5. /\ UNCHANGED <<chain, round, msgs>>
      /\ blockQ' = blockQ \/ blockQ' = [blockQ EXCEPT ![o] = @ \cup {hdr}]
  BY DEF HandleStatus, HandleBlock
<1>6. panicked' = {}
  <2>1. panicked = {}
    BY DEF IInv, NoPanic
  <2> HIDE DEF hdr
  <2>2. CASE HandleStatus(o, p, h)
    BY <1>3, <2>1, <2>2 DEF HandleStatus, hdr
  <2>3. CASE HandleBlock(o, p, h)
    <3>1. panicked' = IF (IF h <= Height(o) THEN hdr # SubSeq(chain[o], 1, h)
                          ELSE \E x \in {y \in blockQ[o] : Len(y) = h} : x # hdr)
                      THEN panicked \cup {o} ELSE panicked
      BY <2>3 DEF HandleBlock, hdr
    <3> QED BY <1>3, <1>4, <2>1, <3>1
  <2> QED BY <2>2, <2>3
<1>7. BlockVotes' = BlockVotes
  BY <1>5 DEF BlockVotes
<1>8. ASSUME NEW q \in Observers
      PROVE  /\ KeepsLock(q)
             /\ Len(chain'[q]) >= Len(chain[q]) /\ Certified(chain'[q])
             /\ \A x \in blockQ'[q] : Certified(x)
  <2>1. KeepsLock(q)
    BY <1>5, SameRoundKeepsLock
  <2>2. Len(chain'[q]) >= Len(chain[q]) /\ Certified(chain'[q])
    <3>1. Len(chain[q]) \in Nat
      BY LenHeader DEF IInv, Types
    <3> QED BY <1>5, <3>1 DEF IInv, BlocksCertified
  <2>3. \A x \in blockQ[q] : Certified(x)
    BY DEF IInv, BlocksCertified
  <2> HIDE DEF hdr
  <2>4. \A x \in blockQ'[q] : Certified(x)
    BY <1>2, <1>5, <2>3 DEF IInv, Types
  <2> QED BY <2>1, <2>2, <2>4
<1>9. IInv'
  BY <1>6, <1>7, <1>8, NoNewVote
<1> QED BY <1>5, <1>7, <1>9 DEF Quietly

\* What HandleBlockVote connects follows the chain and is certified.
LEMMA ConnectsCertified ==
  ASSUME IInv, NEW o \in Observers, HandleBlockVote(o)
  PROVE  /\ Voted(o) \in Header /\ Certified(Voted(o))
         /\ Len(Voted(o)) = Len(chain[o]) + 1 /\ Len(Voted(o)) = round[o].target
         /\ chain' = [chain EXCEPT ![o] = Voted(o)]
<1>1. round[o].state = "BlockVote" /\ ValidHeader(o, Voted(o))
      /\ Cardinality(Signers(Voted(o))) >= Majority /\ chain' = [chain EXCEPT ![o] = Voted(o)]
  BY DEF HandleBlockVote, Voted
<1>2. Voted(o) \in Header
  BY <1>1, VotedHeader DEF IInv, HoldsVote, VoteInMap, Voted
<1>3. Voted(o) # <<>> /\ Front(Voted(o)) = chain[o]
  BY <1>1 DEF ValidHeader
<1>4. Certified(Voted(o))
  BY <1>1, <1>2, <1>3, CertifiedNext DEF IInv, BlocksCertified
<1>5. Len(Voted(o)) = Len(chain[o]) + 1
  <2>1. Len(Voted(o)) \in Nat /\ Len(Voted(o)) # 0
    BY <1>2, <1>3, HeaderDef, EmptySeq, LenProperties
  <2>2. Len(Voted(o)) - 1 \in 0..Len(Voted(o))
    BY <2>1
  <2>3. Len(Front(Voted(o))) = Len(Voted(o)) - 1
    BY <1>2, <2>2, HeaderPrefix DEF Front
  <2> QED BY <1>3, <2>1, <2>3
<1>6. Len(Voted(o)) = round[o].target
  BY <1>1 DEF IInv, HoldsVote
<1> QED BY <1>1, <1>2, <1>4, <1>5, <1>6

\* The vote that completes the majority connects the block it certifies.
LEMMA HandleBlockVoteIInv ==
  ASSUME IInv, Types', NEW o \in Observers, HandleBlockVote(o)
  PROVE  IInv' /\ Connects(o)
<1>1. /\ Voted(o) \in Header /\ Certified(Voted(o))
      /\ Len(Voted(o)) = Len(chain[o]) + 1 /\ Len(Voted(o)) = round[o].target
      /\ chain' = [chain EXCEPT ![o] = Voted(o)]
  BY ConnectsCertified
<1>2. BlockVotes' = BlockVotes /\ UNCHANGED blockQ /\ panicked' = {}
  BY DEF HandleBlockVote, BlockVotes, IInv, NoPanic
<1>3. \A p \in Observers : KeepsLock(p)
  <2> DEFINE cont == [round[o] EXCEPT !.state = "BlockWait", !.target = round[o].target + 1]
  <2>1. \/ round' = round
        \/ round' = [round EXCEPT ![o] = cont]
        \/ round' = [round EXCEPT ![o] = NewVoteRound(round[o].target + 1)]
    BY DEF HandleBlockVote
  <2>2. cont.state = "BlockWait"
    BY DEF IInv, Types, Round
  <2>3. NewVoteRound(round[o].target + 1).state = "RoundVote"
    BY DEF NewVoteRound
  <2>4. round[o].target <= Len(chain'[o])
    <3>1. chain'[o] = Voted(o) /\ Len(Voted(o)) \in Nat
      BY <1>1, LenHeader DEF IInv, Types
    <3> QED BY <1>1, <3>1
  <2> HIDE DEF cont
  <2>5. CASE round' = round
    BY <2>5, SameRoundKeepsLock
  <2>6. CASE round' = [round EXCEPT ![o] = cont]
    <3>1. KeepsLock(o)
      BY <2>2, <2>4, <2>6 DEF KeepsLock, IInv, Types
    <3> QED BY <2>6, <3>1, OneRoundKeepsLock
  <2>7. CASE round' = [round EXCEPT ![o] = NewVoteRound(round[o].target + 1)]
    <3>1. KeepsLock(o)
      BY <2>3, <2>4, <2>7 DEF KeepsLock, IInv, Types
    <3> QED BY <2>7, <3>1, OneRoundKeepsLock
  <2> QED BY <2>1, <2>5, <2>6, <2>7
<1>4. ASSUME NEW p \in Observers
      PROVE  /\ Len(chain'[p]) >= Len(chain[p]) /\ Certified(chain'[p])
             /\ \A x \in blockQ'[p] : Certified(x)
  <2>1. Len(chain[p]) \in Nat /\ Certified(chain[p]) /\ \A x \in blockQ[p] : Certified(x)
    BY LenHeader DEF IInv, Types, BlocksCertified
  <2> QED BY <1>1, <1>2, <2>1 DEF IInv, Types
<1>5. IInv'
  BY <1>2, <1>3, <1>4, NoNewVote
<1>6. Len(Voted(o)) >= Len(chain[o])
  BY <1>1, LenHeader DEF IInv, Types
<1> QED BY <1>1, <1>2, <1>5, <1>6 DEF Connects

\* The blocks blockTimer finds in the queue are certified, follow each other and
\* are accepted by ConnectBlock.
LEMMA QueueConnectable ==
  ASSUME IInv, NEW o \in Observers,
         NEW x \in QueuedRun(o), NEW c \in QueuedRun(o) \cup {chain[o]}, Len(x) = Len(c) + 1
  PROVE  Connectable(c, x)
<1>1. x \in Header /\ c \in Header /\ Certified(x) /\ Certified(c) /\ OneVotePerHeight
  BY DEF QueuedRun, IInv, Types, BlocksCertified
<1>2. Len(x) \in Nat /\ Len(c) \in Nat
  BY <1>1, LenHeader
<1>3. Front(x) = c
  <2>1. SubSeq(x, 1, Len(c)) = SubSeq(c, 1, Len(c))
    BY <1>1, <1>2, CertifiedUnique
  <2>2. SubSeq(c, 1, Len(c)) = c
    BY <1>1, <1>2, HeaderPrefix
  <2>3. Front(x) = SubSeq(x, 1, Len(c))
    BY <1>2 DEF Front
  <2> QED BY <2>1, <2>2, <2>3
<1>4. Cardinality(Signers(x)) >= Majority
  <2>1. Len(x) \in 1..Len(x) /\ SubSeq(x, 1, Len(x)) = x
    BY <1>1, <1>2, HeaderPrefix
  <2> QED BY <1>1, <2>1 DEF Certified
<1>5. ValidGenerator(x)
  <2>1. PICK q \in Observers : BlockVoteOf(q, x) \in msgs
    BY <1>4, SomeSigner
  <2>2. BlockVoteOf(q, x) \in BlockVotes /\ BlockVoteOf(q, x).hdr = x
    BY <2>1 DEF BlockVotes, BlockVoteOf
  <2> QED BY <2>2 DEF IInv, VotesValid
<1> QED BY <1>3, <1>4, <1>5 DEF Connectable, ValidGenerator

\* blockTimer never panics, and connects a certified block.
LEMMA BlockTimerConnects ==
  ASSUME IInv, NEW o \in Observers, BlockTimer(o)
  PROVE  /\ \E tip \in QueuedRun(o) \cup {chain[o]} :
              /\ chain' = [chain EXCEPT ![o] = tip]
              /\ blockQ' = [blockQ EXCEPT ![o] = {x \in @ : Len(x) > Len(tip)}]
         /\ UNCHANGED <<round, msgs, panicked>>
<1>1. \A x \in QueuedRun(o), c \in QueuedRun(o) \cup {chain[o]} :
        Len(x) = Len(c) + 1 => Connectable(c, x)
  BY QueueConnectable
<1>2. Reached(o) = QueuedRun(o) \cup {chain[o]}
  BY <1>1 DEF Reached
<1>3. PICK tip \in QueuedRun(o) \cup {chain[o]} :
        LET refused == {x \in QueuedRun(o) : Len(x) = Len(tip) + 1}
        IN  /\ \A t \in QueuedRun(o) \cup {chain[o]} : Len(t) <= Len(tip)
            /\ chain' = [chain EXCEPT ![o] = tip]
            /\ blockQ' = [blockQ EXCEPT ![o] = {x \in @ : Len(x) > Len(tip)} \ refused]
            /\ panicked' = IF refused = {} THEN panicked ELSE panicked \cup {o}
  BY <1>2 DEF BlockTimer
<1>4. {x \in QueuedRun(o) : Len(x) = Len(tip) + 1} = {}
  <2>1. Len(tip) \in Nat
    BY LenHeader DEF QueuedRun, IInv, Types
  <2> QED BY <1>3, <2>1
<1>5. UNCHANGED <<round, msgs>>
  BY DEF BlockTimer
<1> QED BY <1>3, <1>4, <1>5

\* The run of queued blocks that blockTimer connects is certified.
LEMMA TipCertified ==
  ASSUME IInv, NEW o \in Observers, NEW tip \in QueuedRun(o) \cup {chain[o]}
  PROVE  tip \in Header /\ Certified(tip) /\ Len(tip) >= Len(chain[o])
<1>1. tip \in Header /\ Certified(tip)
  BY DEF QueuedRun, IInv, Types, BlocksCertified
<1>2. Len(tip) \in Nat /\ Len(chain[o]) \in Nat
  BY <1>1, LenHeader DEF IInv, Types
<1> QED BY <1>1, <1>2 DEF QueuedRun, Height

\* blockTimer connects fetched blocks and keeps IInv.
LEMMA BlockTimerIInv ==
  ASSUME IInv, Types', NEW o \in Observers, BlockTimer(o)
  PROVE  IInv' /\ Connects(o)
<1>1. PICK tip \in QueuedRun(o) \cup {chain[o]} :
              /\ chain' = [chain EXCEPT ![o] = tip]
              /\ blockQ' = [blockQ EXCEPT ![o] = {x \in @ : Len(x) > Len(tip)}]
  BY BlockTimerConnects
<1>2. Certified(tip) /\ Len(tip) >= Len(chain[o])
  BY TipCertified
<1>3. UNCHANGED <<round, msgs, panicked>>
  BY BlockTimerConnects
<1>4. BlockVotes' = BlockVotes /\ panicked' = {}
  BY <1>3 DEF BlockVotes, IInv, NoPanic
<1>5. ASSUME NEW p \in Observers
      PROVE  /\ KeepsLock(p)
             /\ Len(chain'[p]) >= Len(chain[p]) /\ Certified(chain'[p])
             /\ \A x \in blockQ'[p] : Certified(x)
  <2>1. KeepsLock(p)
    BY <1>3, SameRoundKeepsLock
  <2>2. Len(chain[p]) \in Nat /\ Certified(chain[p]) /\ \A x \in blockQ[p] : Certified(x)
    BY LenHeader DEF IInv, Types, BlocksCertified
  <2>3. chain'[p] = chain[p] \/ (p = o /\ chain'[p] = tip)
    BY <1>1 DEF IInv, Types
  <2>4. blockQ'[p] \subseteq blockQ[p]
    BY <1>1 DEF IInv, Types
  <2> QED BY <1>2, <2>1, <2>2, <2>3, <2>4
<1>6. IInv'
  BY <1>4, <1>5, NoNewVote
<1>7. tip \in Header
  BY TipCertified
<1> QED BY <1>1, <1>2, <1>4, <1>6, <1>7 DEF Connects

\* syncVoteRound leaves a round only when the chain has its target.
LEMMA SyncedKeepsLock ==
  ASSUME IInv, NEW o \in Observers
  PROVE  \/ Synced(o).round = round[o]
         \/ Synced(o).round.state # "BlockVote" /\ round[o].target <= Height(o)
<1>1. CASE round[o].target >= Height(o) + 1
  BY <1>1 DEF Synced
<1>2. CASE ~(round[o].target >= Height(o) + 1)
  <2>1. round[o].target <= Height(o)
    <3>1. round[o].target \in Nat /\ Height(o) \in Nat
      BY LenHeader DEF IInv, Types, Round, Height
    <3> QED BY <1>2, <3>1
  <2>2. Synced(o).round.state = "BlockVote" => Synced(o).round = round[o]
    BY SyncedType DEF IInv
  <2> QED BY <2>1, <2>2
<1> QED BY <1>1, <1>2

\* The vote timer gives no round up whose target was voted for.
LEMMA VoteTimerIInv ==
  ASSUME IInv, Types', NEW o \in Observers, VoteTimer(o)
  PROVE  IInv' /\ Quietly
<1> DEFINE r == Synced(o).round
           new == NewVoteRound(Height(o) + 1)
<1>1. r = round[o] \/ (r.state # "BlockVote" /\ round[o].target <= Height(o))
  BY SyncedKeepsLock
<1>2. r.state = "BlockVote" => BlockVoteOf(o, r.brs[r.target].gen) \in msgs
  <2>1. r.state = "BlockVote" => r = round[o]
    BY SyncedType DEF IInv
  <2> QED BY <2>1 DEF IInv, HoldsVote, Voted
<1>3. BlockVotes' = BlockVotes
  <2>1. \A tc : RoundVoteOf(o, tc).type # "BlockVote"
    BY DEF RoundVoteOf
  <2>2. \/ UNCHANGED msgs
        \/ \E tc \in TimeoutCounts : msgs' = msgs \cup {RoundVoteOf(o, tc)}
        \/ /\ r.state = "BlockVote"
           /\ msgs' = msgs \cup {BlockVoteOf(o, r.brs[r.target].gen)}
    BY DEF VoteTimer
  <2>3. CASE UNCHANGED msgs
    BY <2>3 DEF BlockVotes
  <2>4. CASE \E tc \in TimeoutCounts : msgs' = msgs \cup {RoundVoteOf(o, tc)}
    BY <2>1, <2>4, AddsNoVote
  <2>5. CASE r.state = "BlockVote" /\ msgs' = msgs \cup {BlockVoteOf(o, r.brs[r.target].gen)}
    BY <1>2, <2>5, AddsNoVote
  <2> QED BY <2>2, <2>3, <2>4, <2>5
<1>4. \/ round' = [round EXCEPT ![o] = r]
      \/ r.state # "BlockVote" /\ round' = [round EXCEPT ![o] = new]
  <2>1. r.state = "BlockVote" => r.target \in DOMAIN r.brs
    BY <1>1 DEF IInv, HoldsVote
  <2> QED BY <2>1 DEF VoteTimer, MayGiveUp
<1>5. new.state = "RoundVote"
  BY DEF NewVoteRound
<1>6. UNCHANGED <<chain, blockQ, panicked>>
  BY DEF VoteTimer
<1>7. KeepsLock(o)
  <2> HIDE DEF r, new
  <2>1. round'[o] = r \/ (r.state # "BlockVote" /\ round'[o] = new)
    BY <1>4 DEF IInv, Types
  <2>2. CASE r = round[o] /\ round'[o] = r
    BY <2>2, SameRoundKeepsLock
  <2>3. CASE round'[o].state # "BlockVote" /\ (r = round[o] => r.state # "BlockVote")
    BY <1>1, <1>6, <2>3 DEF KeepsLock, Height
  <2> QED BY <1>1, <1>5, <2>1, <2>2, <2>3
<1>8. \A p \in Observers : KeepsLock(p)
  <2> HIDE DEF r, new
  <2> QED BY <1>4, <1>7, OneRoundKeepsLock
<1> QED BY <1>3, <1>6, <1>8, Quiet

-----------------------------------------------------------------------------
(***************************************************************************)
(* Voting for a block.                                                     *)
(***************************************************************************)

\* The step in which o votes for hdr.
VotesFor(o, hdr) ==
  /\ round[o].state = "BlockWait"
  /\ Len(hdr) = round[o].target /\ Len(hdr) \in DOMAIN round[o].brs
  /\ ValidHeader(o, hdr) /\ ValidGenerator(hdr)
  /\ round' = [round EXCEPT ![o] =
       [round[o] EXCEPT !.state = "BlockVote",
                        !.brs = [round[o].brs EXCEPT ![Len(hdr)].gen = hdr]]]
  /\ msgs' = msgs \cup {BlockVoteOf(o, hdr)}
  /\ UNCHANGED <<chain, blockQ, panicked>>

\* Any other BlockGenMessage changes at most what is parked for an open height.
Parks(o, g) ==
  /\ \/ round' = [round EXCEPT ![o] = round[o]]
     \/ /\ Len(g.hdr) \in DOMAIN round[o].brs
        /\ round' = [round EXCEPT ![o] =
             [round[o] EXCEPT !.brs = [round[o].brs EXCEPT ![Len(g.hdr)].wait = g.hdr]]]
  /\ UNCHANGED <<chain, blockQ, msgs, panicked>>

\* A BlockGenMessage is voted for, or at most parked.
LEMMA BlockGenEffect ==
  ASSUME NEW o \in Observers, NEW g, HandleBlockGen(o, g)
  PROVE  VotesFor(o, g.hdr) \/ Parks(o, g)
<1> DEFINE r == round[o]
           h == Len(g.hdr)
           open == h \in DOMAIN r.brs /\ r.brs[h].gen = <<>>
           early == \/ h > r.target
                    \/ h = r.target /\ r.state \in {"RoundVote", "RoundVoteAck"}
           vote == open /\ ~early /\ Acceptable(o, g.hdr)
           parked == [r EXCEPT !.brs = [r.brs EXCEPT ![h].wait = g.hdr]]
           voted == [r EXCEPT !.state = "BlockVote", !.brs = [r.brs EXCEPT ![h].gen = g.hdr]]
<1>1. /\ round' = [round EXCEPT ![o] =
                     IF open /\ early THEN parked ELSE IF vote THEN voted ELSE r]
      /\ msgs' = msgs \cup (IF vote THEN {BlockVoteOf(o, g.hdr)} ELSE {})
      /\ UNCHANGED <<chain, blockQ, panicked>>
  BY DEF HandleBlockGen
<1>2. CASE vote
  <2>1. /\ r.state = "BlockWait" /\ h = r.target /\ h \in DOMAIN r.brs
        /\ ValidHeader(o, g.hdr) /\ ValidGenerator(g.hdr)
    BY <1>2 DEF Acceptable, ValidHeader, ValidGenerator
  <2>2. ~(open /\ early)
    BY <1>2
  <2> HIDE DEF parked, voted, open, early, vote, r, h
  <2>3. round' = [round EXCEPT ![o] = voted] /\ msgs' = msgs \cup {BlockVoteOf(o, g.hdr)}
    BY <1>1, <1>2, <2>2
  <2> USE DEF voted, r, h
  <2> QED BY <1>1, <2>1, <2>3 DEF VotesFor
<1>3. CASE ~vote
  <2>1. open /\ early => h \in DOMAIN r.brs
    OBVIOUS
  <2> HIDE DEF parked, voted, open, early, vote, r, h
  <2>2. /\ \/ open /\ early /\ round' = [round EXCEPT ![o] = parked]
           \/ round' = [round EXCEPT ![o] = r]
        /\ msgs' = msgs
    BY <1>1, <1>3
  <2> USE DEF parked, r, h
  <2> QED BY <1>1, <2>1, <2>2 DEF Parks
<1> QED BY <1>2, <1>3

\* Parking or dropping a generated block keeps IInv.
LEMMA ParksIInv ==
  ASSUME IInv, Types', NEW o \in Observers, NEW g, Parks(o, g)
  PROVE  IInv' /\ Quietly
<1> DEFINE r == round[o]
           h == Len(g.hdr)
           parked == [r EXCEPT !.brs = [r.brs EXCEPT ![h].wait = g.hdr]]
<1>1. r \in Round /\ r.brs \in BlockRoundMap
  BY DEF IInv, Types, Round
<1>2. BlockVotes' = BlockVotes /\ UNCHANGED <<chain, blockQ, panicked>>
  BY DEF Parks, BlockVotes
<1>3. CASE round' = [round EXCEPT ![o] = r]
  <2>1. \A p \in Observers : KeepsLock(p)
    BY <1>3, SameRoundKeepsLock DEF IInv, Types
  <2> QED BY <1>2, <2>1, Quiet
<1>4. CASE h \in DOMAIN r.brs /\ round' = [round EXCEPT ![o] = parked]
  <2>1. parked.state = r.state /\ parked.target = r.target
        /\ parked.brs = [r.brs EXCEPT ![h].wait = g.hdr]
    <3> HIDE DEF r, h
    <3> QED BY <1>1 DEF Round
  <2>2. DOMAIN parked.brs = DOMAIN r.brs
    BY <2>1
  <2>3. \A t \in DOMAIN r.brs : parked.brs[t].gen = r.brs[t].gen
    <3>1. \A t \in DOMAIN r.brs : r.brs[t] \in BlockRoundRec
      BY <1>1, EmptyHeader, BlockRoundExcept
    <3> HIDE DEF parked, r, h
    <3> QED BY <2>1, <3>1 DEF BlockRoundRec
  <2>4. r.state = "BlockVote" => r.target \in DOMAIN r.brs
    BY DEF IInv, HoldsVote
  <2>5. round'[o] = parked
    BY <1>4 DEF IInv, Types
  <2>6. KeepsLock(o)
    <3> HIDE DEF parked
    <3> QED BY <2>1, <2>2, <2>3, <2>4, <2>5 DEF KeepsLock, Voted
  <2>7. \A p \in Observers : KeepsLock(p)
    <3> HIDE DEF parked
    <3> QED BY <1>4, <2>6, OneRoundKeepsLock
  <2> QED BY <1>2, <2>7, Quiet
<1> QED BY <1>3, <1>4 DEF Parks

\* An observer that may vote has not voted at that height.
LEMMA FirstVote ==
  ASSUME IInv, NEW o \in Observers, NEW hdr \in Header, VotesFor(o, hdr)
  PROVE  /\ Len(hdr) = Len(chain[o]) + 1
         /\ \A m \in BlockVotes : m.from = o => Len(m.hdr) <= Len(chain[o])
<1>1. hdr # <<>> /\ Front(hdr) = chain[o] /\ round[o].state # "BlockVote"
  BY DEF VotesFor, ValidHeader
<1>2. Len(hdr) \in Nat /\ Len(hdr) # 0
  BY <1>1, HeaderDef, EmptySeq, LenProperties
<1>3. Len(Front(hdr)) = Len(hdr) - 1
  <2>1. Len(hdr) - 1 \in 0..Len(hdr)
    BY <1>2
  <2> QED BY <2>1, HeaderPrefix DEF Front
<1>4. Len(hdr) = Len(chain[o]) + 1
  BY <1>1, <1>2, <1>3
<1>5. ASSUME NEW m \in BlockVotes, m.from = o PROVE Len(m.hdr) <= Len(chain[o])
  <2>1. Len(m.hdr) \in Nat /\ Len(chain[o]) \in Nat
    <3>1. m \in BlockVoteMsg
      BY MsgByType DEF IInv, Types, BlockVotes
    <3> QED BY <3>1, LenHeader DEF IInv, Types, BlockVoteMsg
  <2>2. ~(Len(m.hdr) > Height(o))
    BY <1>1, <1>5 DEF IInv, VoteLocked
  <2> QED BY <2>1, <2>2 DEF Height
<1> QED BY <1>4, <1>5

\* A majority of signatures is not lost.
LEMMA SignersGrow ==
  ASSUME msgs \subseteq msgs', NEW hdr, Cardinality(Signers(hdr)) >= Majority
  PROVE  Cardinality(Signers(hdr)') >= Majority
<1>1. Signers(hdr) \subseteq Signers(hdr)' /\ Signers(hdr)' \subseteq Observers
  BY DEF Signers, BlockVoteOf
<1> DEFINE S == Signers(hdr)
           T == Signers(hdr)'
<1>2. S \in SUBSET T /\ T \in SUBSET Observers
  BY <1>1
<1>3. Cardinality(S) >= Majority
  OBVIOUS
<1> HIDE DEF S, T
<1>4. IsFiniteSet(T)
  BY <1>2, FS_Subset, ObserversAssumption
<1>5. IsFiniteSet(S) /\ Cardinality(S) <= Cardinality(T)
  BY <1>2, <1>4, FS_Subset
<1>6. Cardinality(S) \in Nat /\ Cardinality(T) \in Nat /\ Majority \in Nat
  BY <1>4, <1>5, FS_CardinalityType, MajorityType
<1>7. Cardinality(T) >= Majority
  BY <1>3, <1>5, <1>6
<1> QED BY <1>7 DEF T

\* The vote for a generated block is the first of its observer at that height.
LEMMA VotesForIInv ==
  ASSUME IInv, Types', NEW o \in Observers, NEW hdr \in Header, VotesFor(o, hdr)
  PROVE  IInv'
<1> DEFINE r == round[o]
           brs == [r.brs EXCEPT ![Len(hdr)].gen = hdr]
           voted == [r EXCEPT !.state = "BlockVote", !.brs = brs]
           v == BlockVoteOf(o, hdr)
<1>1. /\ Len(hdr) = Len(chain[o]) + 1
      /\ \A m \in BlockVotes : m.from = o => Len(m.hdr) <= Len(chain[o])
  BY FirstVote
<1>2. /\ round' = [round EXCEPT ![o] = voted] /\ msgs' = msgs \cup {v}
      /\ Len(hdr) = r.target /\ Len(hdr) \in DOMAIN r.brs /\ ValidGenerator(hdr)
      /\ UNCHANGED <<chain, blockQ, panicked>>
  BY DEF VotesFor
<1>3. BlockVotes' = BlockVotes \cup {v} /\ v.from = o /\ v.hdr = hdr
  BY <1>2 DEF BlockVotes, BlockVoteOf
<1>4. brs[r.target].gen = hdr /\ DOMAIN brs = DOMAIN r.brs
  <2>1. r.brs \in BlockRoundMap
    BY DEF IInv, Types, Round
  <2>2. \A t \in DOMAIN r.brs : r.brs[t] \in BlockRoundRec
    BY <2>1, EmptyHeader, BlockRoundExcept
  <2> HIDE DEF r
  <2> QED BY <1>2, <2>2 DEF BlockRoundRec
<1>5. voted.state = "BlockVote" /\ voted.target = r.target /\ voted.brs = brs
  <2>1. r \in Round
    BY DEF IInv, Types
  <2> HIDE DEF r, brs
  <2> QED BY <2>1 DEF Round
<1>6. round'[o] = voted /\ \A p \in Observers : p # o => round'[p] = round[p]
  BY <1>2 DEF IInv, Types
<1>7. /\ round'[o].state = "BlockVote" /\ round'[o].target = Len(hdr)
      /\ Len(hdr) \in DOMAIN round'[o].brs /\ round'[o].brs[Len(hdr)].gen = hdr
  <2> HIDE DEF voted, r, brs
  <2> QED BY <1>2, <1>4, <1>5, <1>6
<1> HIDE DEF voted, r, brs, v
<1>8. HoldsVote'
  <2> SUFFICES ASSUME NEW p \in Observers, round'[p].state = "BlockVote"
               PROVE  /\ round'[p].target \in DOMAIN round'[p].brs
                      /\ Len(Voted(p)') = round'[p].target
                      /\ BlockVoteOf(p, Voted(p)') \in msgs'
    BY DEF HoldsVote, BlockVoteOf
  <2>1. CASE p = o
    <3>1. Voted(p)' = hdr
      BY <1>7, <2>1 DEF Voted
    <3> QED BY <1>2, <1>7, <2>1, <3>1 DEF v
  <2>2. CASE p # o
    <3>1. Voted(p)' = Voted(p) /\ round'[p] = round[p]
      BY <1>6, <2>2 DEF Voted
    <3> QED BY <1>2, <3>1 DEF IInv, HoldsVote
  <2> QED BY <2>1, <2>2
<1>9. VoteLocked'
  <2> SUFFICES ASSUME NEW m \in BlockVotes', Len(m.hdr) > Len(chain[m.from])
               PROVE  /\ round'[m.from].state = "BlockVote"
                      /\ round'[m.from].target = Len(m.hdr)
                      /\ round'[m.from].brs[round'[m.from].target].gen = m.hdr
    BY <1>2 DEF VoteLocked, Height
  <2>1. CASE m = v
    BY <1>3, <1>7, <2>1
  <2>2. CASE m \in BlockVotes
    <3>1. m.from \in Observers /\ Len(m.hdr) \in Nat /\ Len(chain[m.from]) \in Nat
      <4>1. m \in BlockVoteMsg
        BY <2>2, MsgByType DEF IInv, Types, BlockVotes
      <4> QED BY <4>1, LenHeader DEF IInv, Types, BlockVoteMsg
    <3>2. m.from # o
      BY <1>1, <2>2, <3>1
    <3>3. round'[m.from] = round[m.from]
      BY <1>6, <3>1, <3>2
    <3> QED BY <2>2, <3>3 DEF IInv, VoteLocked, Height
  <2> QED BY <1>3, <2>1, <2>2
<1>10. VotesValid'
  <2>1. \A m \in BlockVotes' : ValidGenerator(m.hdr)
    BY <1>2, <1>3 DEF IInv, VotesValid
  <2> QED BY <2>1 DEF VotesValid, ValidGenerator
<1>11. OneVotePerHeight'
  <2> SUFFICES ASSUME NEW m \in BlockVotes', NEW x \in BlockVotes',
                      m.from = x.from, Len(m.hdr) = Len(x.hdr)
               PROVE  m.hdr = x.hdr
    BY DEF OneVotePerHeight
  <2>1. Len(chain[o]) \in Nat
    BY LenHeader DEF IInv, Types
  <2>2. \A y \in BlockVotes : y.from = o => Len(y.hdr) # Len(hdr)
    <3>1. \A y \in BlockVotes : Len(y.hdr) \in Nat
      BY MsgByType, LenHeader DEF IInv, Types, BlockVotes, BlockVoteMsg
    <3> QED BY <1>1, <2>1, <3>1
  <2>3. CASE m \in BlockVotes /\ x \in BlockVotes
    BY <2>3 DEF IInv, OneVotePerHeight
  <2>4. CASE m = v \/ x = v
    BY <1>3, <2>2, <2>4
  <2> QED BY <1>3, <2>3, <2>4
<1>12. BlocksCertified'
  <2>1. \A x : Cardinality(Signers(x)) >= Majority => Cardinality(Signers(x)') >= Majority
    BY <1>2, SignersGrow
  <2>2. ASSUME NEW x, Certified(x) PROVE Certified(x)'
    BY <2>1, <2>2 DEF Certified
  <2>3. ASSUME NEW p \in Observers PROVE Certified(chain[p]) /\ \A x \in blockQ[p] : Certified(x)
    BY DEF IInv, BlocksCertified
  <2>4. chain' = chain /\ blockQ' = blockQ
    BY <1>2
  <2>5. ASSUME NEW p \in Observers PROVE Certified(chain[p])' /\ \A x \in blockQ[p]' : Certified(x)'
    BY <2>2, <2>3, <2>4
  <2> QED BY <2>5 DEF BlocksCertified
<1> QED BY <1>2, <1>8, <1>9, <1>10, <1>11, <1>12 DEF IInv, NoPanic

\* handleObserverMessage of a BlockGenMessage keeps IInv.
LEMMA HandleBlockGenIInv ==
  ASSUME IInv, Types', NEW o \in Observers, NEW g \in genQ[o], HandleBlockGen(o, g)
  PROVE  IInv' /\ (Quietly \/ \E hdr \in Header : VotesFor(o, hdr))
<1>1. g.hdr \in Header
  BY DEF IInv, Types, Gen
<1> QED BY <1>1, BlockGenEffect, VotesForIInv, ParksIInv

-----------------------------------------------------------------------------
(***************************************************************************)
(* The theorems.                                                           *)
(***************************************************************************)

\* Nothing is voted for at the genesis.
LEMMA InitIInv == Init => IInv
<1> SUFFICES ASSUME Init PROVE IInv
  OBVIOUS
<1>1. Types
  BY InitTypes
<1>2. HoldsVote /\ VoteLocked /\ VotesValid /\ OneVotePerHeight /\ NoPanic
  BY DEF Init, HoldsVote, VoteLocked, VotesValid, OneVotePerHeight, NoPanic, BlockVotes,
         NewVoteRound
<1>3. BlocksCertified
  BY EmptyHeader DEF Init, BlocksCertified, Certified
<1> QED BY <1>1, <1>2, <1>3 DEF IInv

\* Every step keeps the invariant, and votes once, connects blocks, or changes
\* neither chains nor votes.
Effect ==
  \/ Quietly
  \/ \E o \in Observers : Connects(o) \/ \E hdr \in Header : VotesFor(o, hdr)

\* Every step keeps IInv and is one of the effects the abstract voting knows.
LEMMA NextEffect ==
  ASSUME IInv, [Next]_vars
  PROVE  IInv' /\ Effect
<1>1. Types'
  <2>1. Types /\ VoteInMap
    BY DEF IInv, HoldsVote, VoteInMap
  <2> QED BY <2>1, NextTypes
<1>2. CASE UNCHANGED vars
  <2>1. BlockVotes' = BlockVotes /\ UNCHANGED <<chain, round, blockQ, panicked>>
    BY <1>2 DEF vars, BlockVotes
  <2>2. \A o \in Observers : KeepsLock(o)
    BY <2>1, SameRoundKeepsLock
  <2> QED BY <1>1, <2>1, <2>2, Quiet DEF Effect
<1>3. CASE Generate
  BY <1>1, <1>3, GenerateIInv DEF Effect
<1>4. ASSUME NEW o \in Observers, Step(o) PROVE IInv' /\ Effect
  BY <1>1, <1>4, HandleRoundVoteIInv, HandleRoundVoteAckIInv, HandleBlockVoteIInv,
     AnswerIInv, HandleBlockGenIInv, FetchIInv, BlockTimerIInv, VoteTimerIInv DEF Step, Effect
<1> QED BY <1>2, <1>3, <1>4 DEF Next

\* IInv is inductive.
LEMMA NextIInv == IInv /\ [Next]_vars => IInv'
  BY NextEffect

\* The inductive invariant holds in every reachable state.
THEOREM Invariance == Spec => []IInv
  BY InitIInv, NextIInv, PTL DEF Spec

\* Every variable, message and queue keeps its type; round votes, acks and block
\* requests are always for the height after the hash they name.
THEOREM TypeCorrect == Spec => []TypeOK
<1>1. IInv => TypeOK
  BY TypesImplyTypeOK DEF IInv
<1> QED BY <1>1, Invariance, PTL

\* An observer never signs two blocks of one height.
THEOREM SingleVote == Spec => []OneVotePerHeight
<1>1. IInv => OneVotePerHeight
  BY DEF IInv
<1> QED BY <1>1, Invariance, PTL

\* A vote above the voter's chain keeps its round in BlockVoteState.
THEOREM LockHolds == Spec => []VoteLocked
<1>1. IInv => VoteLocked
  BY DEF IInv
<1> QED BY <1>1, Invariance, PTL

\* ErrFoundForkedBlock and the panic of blockTimer are unreachable.
THEOREM PanicFree == Spec => []NoPanic
<1>1. IInv => NoPanic
  BY DEF IInv
<1> QED BY <1>1, Invariance, PTL

\* No two observers ever connect different blocks at one height.
THEOREM NoFork == Spec => []Agreement
<1>1. IInv => Agreement
  <2> SUFFICES ASSUME IInv, NEW o \in Observers, NEW p \in Observers
               PROVE  IsPrefix(chain[o], chain[p]) \/ IsPrefix(chain[p], chain[o])
    BY DEF Agreement
  <2>1. /\ chain[o] \in Header /\ chain[p] \in Header
        /\ Certified(chain[o]) /\ Certified(chain[p]) /\ OneVotePerHeight
    BY DEF IInv, Types, BlocksCertified
  <2>2. Len(chain[o]) <= Len(chain[p]) \/ Len(chain[p]) <= Len(chain[o])
    BY <2>1, LenHeader
  <2> QED BY <2>1, <2>2, CertifiedPrefix
<1> QED BY <1>1, Invariance, PTL

\* A chain is only extended.
THEOREM ChainsGrow == Spec => AppendOnly
<1> DEFINE Grow == \A o \in Observers : IsPrefix(chain[o], chain'[o])
<1>1. IInv /\ [Next]_vars => [Grow]_vars
  <2> SUFFICES ASSUME IInv, [Next]_vars, NEW o \in Observers
               PROVE  IsPrefix(chain[o], chain'[o])
    OBVIOUS
  <2>1. chain[o] \in Header /\ Certified(chain[o]) /\ OneVotePerHeight /\ Len(chain[o]) \in Nat
    BY LenHeader DEF IInv, Types, BlocksCertified
  <2>2. CASE chain'[o] = chain[o]
    <3>1. SubSeq(chain[o], 1, Len(chain[o])) = chain[o]
      BY <2>1, HeaderPrefix
    <3> QED BY <2>1, <2>2, <3>1 DEF IsPrefix
  <2>3. ASSUME NEW hdr \in Header, chain'[o] = hdr, Certified(hdr), Len(hdr) >= Len(chain[o])
        PROVE  IsPrefix(chain[o], chain'[o])
    <3>1. Len(chain[o]) <= Len(hdr)
      BY <2>1, <2>3, LenHeader
    <3> QED BY <2>1, <2>3, <3>1, CertifiedPrefix
  <2>4. \/ chain'[o] = chain[o]
        \/ \E hdr \in Header : chain'[o] = hdr /\ Certified(hdr) /\ Len(hdr) >= Len(chain[o])
    BY NextEffect DEF Effect, Quietly, Connects, VotesFor, IInv, Types
  <2> QED BY <2>2, <2>3, <2>4
<1> QED BY <1>1, Invariance, PTL DEF Spec, AppendOnly

-----------------------------------------------------------------------------
(***************************************************************************)
(* A round has a block slot for its target, and the leader that a majority *)
(* has acknowledged.                                                       *)
(***************************************************************************)

\* A set of naturals has a least member.
LEMMA LeastNatural ==
  ASSUME NEW T \in SUBSET Nat, T # {}
  PROVE  \E x \in T : \A y \in T : x <= y
<1> DEFINE R == {ss \in Nat \X Nat : ss[1] < ss[2]}
<1>1. IsWellFoundedOn(R, Nat)
  BY NatLessThanWellFounded, Zenon DEF OpToRel
<1>2. \A x, y \in Nat : <<y, x>> \in R <=> y < x
  OBVIOUS
<1> HIDE DEF R
<1>3. PICK x \in T : \A y \in T : ~ (<<y, x>> \in R)
  BY <1>1, WFMin
<1>4. \A y \in T : ~(y < x)
  BY <1>2, <1>3
<1> QED BY <1>4

\* The tables after the blocks of c: each is the one before, moved by OnSaveData.
IsTables(t, c, n) ==
  t = [h \in 0..n |-> IF h = 0 THEN GenesisTable ELSE SaveBlock(t[h - 1], c[h].tc, c[h].salt)]

\* There are such tables: take the least height without and extend the ones before it.
LEMMA TablesExist ==
  ASSUME NEW c
  PROVE  \A n \in Nat : \E t : IsTables(t, c, n)
<1> DEFINE T == {n \in Nat : ~ \E t : IsTables(t, c, n)}
<1> SUFFICES ASSUME T # {} PROVE FALSE
  OBVIOUS
<1>1. PICK n \in T : \A y \in T : n <= y
  BY LeastNatural
<1>2. n \in Nat /\ ~ \E t : IsTables(t, c, n)
  OBVIOUS
<1>3. CASE n = 0
  <2>1. IsTables([h \in 0..n |-> GenesisTable], c, n)
    BY <1>3 DEF IsTables
  <2> QED BY <1>2, <2>1
<1>4. CASE n # 0
  <2>1. n - 1 \in Nat /\ ~(n <= n - 1)
    BY <1>2, <1>4
  <2>2. n - 1 \notin T
    BY <1>1, <2>1
  <2>3. PICK t : IsTables(t, c, n - 1)
    BY <2>1, <2>2
  <2> DEFINE g == [h \in 0..n |-> IF h < n THEN t[h] ELSE SaveBlock(t[n - 1], c[n].tc, c[n].salt)]
  <2>4. \A h \in 0..(n - 1) : t[h] = IF h = 0 THEN GenesisTable ELSE SaveBlock(t[h - 1], c[h].tc, c[h].salt)
    BY <2>3 DEF IsTables
  <2>5. ASSUME NEW h \in 0..n
        PROVE  g[h] = IF h = 0 THEN GenesisTable ELSE SaveBlock(g[h - 1], c[h].tc, c[h].salt)
    <3>1. CASE h = 0
      BY <1>2, <1>4, <2>1, <2>4, <3>1
    <3>2. CASE h # 0
      <4>1. g[h - 1] = t[h - 1]
        BY <1>2, <3>2
      <4>2. CASE h < n
        <5>1. g[h] = t[h] /\ h \in 0..(n - 1)
          BY <1>2, <4>2
        <5> QED BY <2>4, <3>2, <4>1, <5>1
      <4>3. CASE h = n
        BY <1>2, <3>2, <4>1, <4>3
      <4> QED BY <1>2, <4>2, <4>3
    <3> QED BY <3>1, <3>2
  <2>6. DOMAIN g = 0..n
    OBVIOUS
  <2> HIDE DEF g
  <2>7. g = [h \in 0..n |-> g[h]]
    BY <2>6 DEF g
  <2>8. IsTables(g, c, n)
    BY <2>5, <2>7 DEF IsTables
  <2> QED BY <1>2, <2>8
<1> QED BY <1>3, <1>4

\* OnSaveData ends a turn in time: RemainBlocks is never zero.
LEMMA TurnGoesOn ==
  ASSUME NEW c \in Header, NEW tc \in TimeoutCounts
  PROVE  RemainBlocks(c, tc) \in Nat \ {0}
<1>1. Len(c) \in Nat
  BY LenHeader
<1>2. PICK t : IsTables(t, c, Len(c)) /\ Table(c) = t[Len(c)]
  <2>1. \E t : t = [h \in 0..Len(c) |-> IF h = 0 THEN GenesisTable
                                        ELSE SaveBlock(t[h - 1], c[h].tc, c[h].salt)]
    BY <1>1, TablesExist DEF IsTables
  <2> QED BY <2>1 DEF Table, IsTables
<1> DEFINE Turns == 0..(MaxBlocksPerFormulator - 1)
           T == {n \in Nat : n <= Len(c) /\ t[n].same \notin Turns}
<1>3. T = {}
  <2> SUFFICES ASSUME T # {} PROVE FALSE
    OBVIOUS
  <2>1. PICK n \in T : \A y \in T : n <= y
    BY LeastNatural
  <2>2. n \in 0..Len(c) /\ t[n].same \notin Turns
    BY <1>1, <2>1
  <2>3. t[n] = IF n = 0 THEN GenesisTable ELSE SaveBlock(t[n - 1], c[n].tc, c[n].salt)
    BY <1>2, <2>2 DEF IsTables
  <2>4. CASE n = 0
    BY <2>2, <2>3, <2>4, MaxBlocksAssumption DEF GenesisTable
  <2>5. CASE n # 0
    <3>1. n - 1 \in Nat /\ n - 1 <= Len(c) /\ ~(n <= n - 1)
      BY <1>1, <2>2, <2>5
    <3>2. t[n - 1].same \in Turns
      BY <2>1, <3>1
    <3>3. SaveBlock(t[n - 1], c[n].tc, c[n].salt).same \in Turns
      BY <3>2, MaxBlocksAssumption DEF SaveBlock
    <3> QED BY <2>2, <2>3, <2>5, <3>3
  <2> QED BY <2>4, <2>5
<1>4. Table(c).same \in Turns
  BY <1>1, <1>2, <1>3
<1> QED BY <1>4, MaxBlocksAssumption DEF RemainBlocks

\* What a step leaves of o's round: a slot for the target, and as MinRoundVoteAck the
\* old one, none, or the ack that the loop over the acks selects.
RoundKept(o) ==
  /\ round'[o].target \in DOMAIN round'[o].brs
  /\ \/ round'[o].min \in {round[o].min, NoVote}
     \/ \E acks \in MessageMaps(o, "RoundVoteAck") : \E sel \in MaySelect(acks) :
          round'[o].min = sel.vote

\* A new round has the blocks of a turn.
LEMMA NewRoundKept ==
  ASSUME NEW o \in Observers, NEW n \in Nat, round'[o] = NewVoteRound(n)
  PROVE  RoundKept(o)
<1>1. n \in n..(n + MaxBlocksPerFormulator - 1)
  BY MaxBlocksAssumption
<1> QED BY <1>1, SMTT(30) DEF NewVoteRound, RoundKept

\* RoundVoteMessage.
LEMMA RoundVoteKept ==
  ASSUME Types, RoundHasTarget, NEW o \in Observers, HandleRoundVote(o)
  PROVE  RoundKept(o)
<1>1. PICK rvs : round' = [round EXCEPT ![o] =
                   [@ EXCEPT !.state = "RoundVoteAck", !.myVote = {m \in rvs : m.from = o}]]
  BY DEF HandleRoundVote
<1>2. round[o] \in Round /\ round[o].target \in DOMAIN round[o].brs
  BY DEF Types, RoundHasTarget
<1>3. round'[o] = [round[o] EXCEPT !.state = "RoundVoteAck", !.myVote = {m \in rvs : m.from = o}]
  BY <1>1 DEF Types
<1> QED BY <1>2, <1>3 DEF Round, RoundKept

\* RoundVoteAckMessage: the pruning of BlockRoundMap leaves the target, because a turn that
\* goes on has a block left.
LEMMA RoundVoteAckKept ==
  ASSUME Types, RoundHasTarget, NEW o \in Observers, HandleRoundVoteAck(o)
  PROVE  RoundKept(o)
<1> DEFINE t == round[o].target
           New(acks, sel) == [round[o] EXCEPT !.state = "BlockWait",
                                !.myAck = {m \in acks : m.from = o}, !.min = sel.vote,
                                !.brs = [BlockRoundsFor(o, sel.vote) EXCEPT ![t].wait = <<>>]]
<1>1. PICK acks \in MessageMaps(o, "RoundVoteAck") : \E sel \in MaySelect(acks) :
        round' = [round EXCEPT ![o] = New(acks, sel)]
  BY DEF HandleRoundVoteAck
<1>2. PICK sel \in MaySelect(acks) : round' = [round EXCEPT ![o] = New(acks, sel)]
  BY <1>1
<1>3. sel \in acks /\ Fits(o, sel.vote)
  BY DEF MaySelect, MessageMaps
<1>4. round[o] \in Round /\ t \in DOMAIN round[o].brs /\ t \in Nat /\ chain[o] \in Header
  BY DEF Types, RoundHasTarget, Round
<1>5. t < t + RemainBlocks(chain[o], sel.vote.tc)
  <2>1. RemainBlocks(chain[o], sel.vote.tc) \in Nat \ {0}
    BY <1>3, <1>4, TurnGoesOn DEF Fits
  <2> QED BY <1>4, <2>1
<1>6. t \in DOMAIN BlockRoundsFor(o, sel.vote)
  BY <1>4, <1>5 DEF BlockRoundsFor
<1>7. round'[o] = New(acks, sel)
  BY <1>2 DEF Types
<1>8. round'[o].target = t /\ round'[o].min = sel.vote
      /\ round'[o].brs = [BlockRoundsFor(o, sel.vote) EXCEPT ![t].wait = <<>>]
  BY <1>4, <1>7 DEF Round
<1>9. t \in DOMAIN round'[o].brs
  BY <1>6, <1>8
<1> HIDE DEF t, New
<1> QED BY <1>8, <1>9 DEF RoundKept

\* BlockGenMessage.
LEMMA BlockGenKept ==
  ASSUME Types, RoundHasTarget, NEW o \in Observers, NEW g, HandleBlockGen(o, g)
  PROVE  RoundKept(o)
<1>1. round[o] \in Round /\ round[o].target \in DOMAIN round[o].brs
  BY DEF Types, RoundHasTarget
<1> DEFINE r == round[o]
           h == Len(g.hdr)
           parked == [r EXCEPT !.brs = [r.brs EXCEPT ![h].wait = g.hdr]]
           voted == [r EXCEPT !.state = "BlockVote", !.brs = [r.brs EXCEPT ![h].gen = g.hdr]]
<1>2. \E new \in {parked, voted, r} : round' = [round EXCEPT ![o] = new]
  BY DEF HandleBlockGen
<1>3. round'[o] \in {parked, voted, r}
  BY <1>2 DEF Types
<1>4. /\ parked.target = r.target /\ DOMAIN parked.brs = DOMAIN r.brs /\ parked.min = r.min
      /\ voted.target = r.target /\ DOMAIN voted.brs = DOMAIN r.brs /\ voted.min = r.min
  BY <1>1 DEF Round
<1> HIDE DEF parked, voted
<1> QED BY <1>1, <1>3, <1>4 DEF RoundKept

\* BlockVoteMessage: the round goes on only to a block of the turn it has a slot for.
LEMMA BlockVoteKept ==
  ASSUME IInv, RoundHasTarget, NEW o \in Observers, HandleBlockVote(o)
  PROVE  RoundKept(o)
<1>1. /\ round \in [Observers -> Round] /\ round[o] \in Round
      /\ round[o].target \in DOMAIN round[o].brs /\ round[o].target \in Nat
  BY DEF IInv, Types, RoundHasTarget, Round
<1>2. Len(Voted(o)) = round[o].target
  BY DEF IInv, HoldsVote, HandleBlockVote
<1> DEFINE next == round[o].target + 1
<1>3. CASE UNCHANGED round
  BY <1>1, <1>3 DEF RoundKept
<1>4. CASE /\ Continues(round[o], Voted(o))
           /\ round' = [round EXCEPT ![o] = [@ EXCEPT !.state = "BlockWait", !.target = next]]
  <2>1. next \in DOMAIN round[o].brs
    BY <1>2, <1>4 DEF Continues
  <2>2. round'[o] = [round[o] EXCEPT !.state = "BlockWait", !.target = next]
    BY <1>1, <1>4
  <2> HIDE DEF next
  <2> QED BY <1>1, <2>1, <2>2 DEF Round, RoundKept
<1>5. CASE round' = [round EXCEPT ![o] = NewVoteRound(next)]
  <2>1. round'[o] = NewVoteRound(next) /\ next \in Nat
    BY <1>1, <1>5
  <2> QED BY <2>1, NewRoundKept
<1> QED BY <1>3, <1>4, <1>5 DEF HandleBlockVote, Voted

\* syncVoteRound: a round that follows the chain has a slot for its new target.
LEMMA SyncedKept ==
  ASSUME Types, RoundHasTarget, NEW o \in Observers
  PROVE  /\ Synced(o).round.target \in DOMAIN Synced(o).round.brs
         /\ Synced(o).round.min \in {round[o].min, NoVote}
<1> DEFINE r == round[o]
           next == Height(o) + 1
<1>1. r \in Round /\ r.target \in DOMAIN r.brs /\ next \in Nat
  BY LenHeader DEF Types, RoundHasTarget, Height
<1>2. CASE r.target >= next
  BY <1>1, <1>2 DEF Synced
<1>3. CASE ~(r.target >= next) /\ Continues(r, chain[o])
  <2> DEFINE w == IF r.brs[next].gen = <<>> THEN <<>> ELSE r.brs[next].wait
             new == [r EXCEPT !.target = next, !.state = "BlockWait",
                              !.brs = [r.brs EXCEPT ![next].wait = w]]
  <2>1. Synced(o).round = new
    BY <1>3 DEF Synced
  <2>2. next \in DOMAIN r.brs
    BY <1>3 DEF Continues, Height
  <2>3. new.target = next /\ DOMAIN new.brs = DOMAIN r.brs /\ new.min = r.min
    BY <1>1 DEF Round
  <2> HIDE DEF new, next
  <2> QED BY <2>1, <2>2, <2>3
<1>4. CASE ~(r.target >= next) /\ ~Continues(r, chain[o])
  <2>1. Synced(o).round = NewVoteRound(next)
    BY <1>4 DEF Synced
  <2>2. next \in next..(next + MaxBlocksPerFormulator - 1)
    BY <1>1, MaxBlocksAssumption
  <2> QED BY <2>1, <2>2 DEF NewVoteRound
<1> QED BY <1>2, <1>3, <1>4

\* voteTimer.
LEMMA VoteTimerKept ==
  ASSUME Types, RoundHasTarget, NEW o \in Observers, VoteTimer(o)
  PROVE  RoundKept(o)
<1>1. round \in [Observers -> Round] /\ Height(o) + 1 \in Nat
  BY LenHeader DEF Types, Height
<1>2. CASE round' = [round EXCEPT ![o] = Synced(o).round]
  <2>1. round'[o] = Synced(o).round
    BY <1>1, <1>2
  <2> QED BY <2>1, SyncedKept DEF RoundKept
<1>3. CASE round' = [round EXCEPT ![o] = NewVoteRound(Height(o) + 1)]
  <2>1. round'[o] = NewVoteRound(Height(o) + 1)
    BY <1>1, <1>3
  <2> QED BY <1>1, <2>1, NewRoundKept
<1> QED BY <1>2, <1>3 DEF VoteTimer

\* A step changes the round of the observer that takes it only.
LEMMA OtherRounds ==
  ASSUME Types, NEW o \in Observers, Step(o), NEW p \in Observers, p # o
  PROVE  round'[p] = round[p]
<1>1. round \in [Observers -> Round]
  BY DEF Types
<1>2. \/ UNCHANGED round
      \/ \E r : round' = [round EXCEPT ![o] = r]
  <2>1. CASE HandleRoundVote(o)
    BY <2>1 DEF HandleRoundVote
  <2>2. CASE HandleRoundVoteAck(o)
    BY <2>2 DEF HandleRoundVoteAck
  <2>3. CASE HandleBlockVote(o)
    BY <2>3 DEF HandleBlockVote
  <2>4. ASSUME NEW m, AnswerRoundVote(o, m) \/ AnswerRoundVoteAck(o, m) PROVE UNCHANGED round
    BY <2>4 DEF AnswerRoundVote, AnswerRoundVoteAck
  <2>5. ASSUME NEW g, HandleBlockGen(o, g) PROVE \E r : round' = [round EXCEPT ![o] = r]
    BY <2>5 DEF HandleBlockGen
  <2>6. ASSUME NEW q, NEW h, HandleStatus(o, q, h) \/ HandleBlock(o, q, h) PROVE UNCHANGED round
    BY <2>6 DEF HandleStatus, HandleBlock
  <2>7. CASE BlockTimer(o)
    BY <2>7 DEF BlockTimer
  <2>8. CASE VoteTimer(o)
    BY <2>8 DEF VoteTimer
  <2> QED BY <2>1, <2>2, <2>3, <2>4, <2>5, <2>6, <2>7, <2>8 DEF Step
<1> QED BY <1>1, <1>2

\* Every step leaves every round so.
LEMMA NextKept ==
  ASSUME IInv, RoundHasTarget, [Next]_vars, NEW p \in Observers
  PROVE  RoundKept(p)
<1>1. Types
  BY DEF IInv
<1>2. ASSUME round'[p] = round[p] PROVE RoundKept(p)
  BY <1>2 DEF RoundHasTarget, RoundKept
<1>3. CASE UNCHANGED vars \/ Generate
  <2>1. CASE UNCHANGED vars
    BY <1>2, <2>1 DEF vars
  <2>2. ASSUME NEW f, NEW req, NEW prev, NEW salt, GenBlock(f, req, prev, salt) PROVE RoundKept(p)
    BY <1>2, <2>2 DEF GenBlock
  <2> QED BY <1>3, <2>1, <2>2 DEF Generate
<1>4. ASSUME NEW o \in Observers, Step(o), p # o PROVE RoundKept(p)
  BY <1>1, <1>2, <1>4, OtherRounds
<1>5. CASE Step(p)
  <2>1. ASSUME NEW m, AnswerRoundVote(p, m) \/ AnswerRoundVoteAck(p, m) PROVE RoundKept(p)
    BY <1>2, <2>1 DEF AnswerRoundVote, AnswerRoundVoteAck
  <2>2. ASSUME NEW q, NEW h, HandleStatus(p, q, h) \/ HandleBlock(p, q, h) PROVE RoundKept(p)
    BY <1>2, <2>2 DEF HandleStatus, HandleBlock
  <2>3. CASE BlockTimer(p)
    BY <1>2, <2>3 DEF BlockTimer
  <2> QED BY <1>1, <1>5, <2>1, <2>2, <2>3, RoundVoteKept, RoundVoteAckKept, BlockGenKept,
             BlockVoteKept, VoteTimerKept DEF Step
<1> QED BY <1>3, <1>4, <1>5 DEF Next

\* BlockRoundMap always has an entry for the round's target.
THEOREM TargetHasSlot == Spec => []RoundHasTarget
<1>1. Init => RoundHasTarget
  <2>1. 1 \in 1..(1 + MaxBlocksPerFormulator - 1)
    BY MaxBlocksAssumption
  <2>2. NewVoteRound(1).target \in DOMAIN NewVoteRound(1).brs
    BY <2>1 DEF NewVoteRound
  <2> QED BY <2>2 DEF Init, RoundHasTarget
<1>2. IInv /\ RoundHasTarget /\ [Next]_vars => RoundHasTarget'
  <2> SUFFICES ASSUME IInv, RoundHasTarget, [Next]_vars, NEW p \in Observers
               PROVE  (round[p].target \in DOMAIN round[p].brs)'
    BY DEF RoundHasTarget
  <2> QED BY NextKept DEF RoundKept
<1> QED BY <1>1, <1>2, Invariance, PTL DEF Spec

-----------------------------------------------------------------------------
\* The acks that p has sent for the block after last.
AcksFor(p, last) == {m \in msgs : m.type = "RoundVoteAck" /\ m.from = p /\ m.vote.last = last}

\* The observers that acknowledged the timeout count tc, and those that acknowledged
\* pub as the leader.
Counting(last, tc) == {p \in Observers : \E m \in AcksFor(p, last) : m.vote.tc = tc}
Naming(last, pub) == {p \in Observers : \E m \in AcksFor(p, last) : m.vote.pub = pub}

\* A majority stands behind the formulator and the leader of v.
Chosen(v) ==
  /\ v.form = TopRank(v.last, v.tc)
  /\ Cardinality(Counting(v.last, v.tc)) >= Majority
  /\ Cardinality(Naming(v.last, v.pub)) >= Majority

LeadersChosen == \A o \in Observers : round[o].min # NoVote => Chosen(round[o].min)

\* Messages with different senders are as many as their senders.
LEMMA Senders ==
  ASSUME NEW S, \A m \in S : m.from \in Observers, \A m, x \in S : m.from = x.from => m = x,
         NEW P \in SUBSET Observers, \A m \in S : m.from \in P, Cardinality(S) >= Majority
  PROVE  Cardinality(P) >= Majority
<1> DEFINE f == [m \in S |-> m.from]
<1>1. f \in Injection(S, P)
  BY DEF Injection, IsInjective
<1>2. IsFiniteSet(P)
  BY FS_Subset, ObserversAssumption
<1>3. IsFiniteSet(S) /\ Cardinality(S) <= Cardinality(P)
  BY <1>1, <1>2, FS_Injection
<1>4. Cardinality(S) \in Nat /\ Cardinality(P) \in Nat
  BY <1>2, <1>3, FS_CardinalityType
<1> QED BY <1>3, <1>4, MajorityType

\* The ack that the loop selects is chosen.
LEMMA SelectedChosen ==
  ASSUME Types, NEW o \in Observers, NEW acks \in MessageMaps(o, "RoundVoteAck"),
         NEW sel \in MaySelect(acks)
  PROVE  Chosen(sel.vote)
<1>1. /\ \A m \in acks : m \in msgs /\ m.type = "RoundVoteAck" /\ Fits(o, m.vote)
      /\ \A m, x \in acks : m.from = x.from => m = x
  BY DEF MessageMaps
<1>2. \A m \in acks : m.from \in Observers
  BY <1>1, MsgByType DEF Types, AckMsg
<1>3. /\ sel \in acks
      /\ Cardinality({x \in acks : x.vote.tc = sel.vote.tc}) >= Majority
      /\ Cardinality({x \in acks : x.vote.pub = sel.vote.pub}) >= Majority
  BY DEF MaySelect
<1>4. /\ sel.vote.form = TopRank(sel.vote.last, sel.vote.tc)
      /\ \A m \in acks : m.vote.last = sel.vote.last
  BY <1>1, <1>3 DEF Fits
<1>5. Cardinality(Counting(sel.vote.last, sel.vote.tc)) >= Majority
  <2> DEFINE S == {x \in acks : x.vote.tc = sel.vote.tc}
             P == Counting(sel.vote.last, sel.vote.tc)
  <2>1. P \in SUBSET Observers /\ \A m \in S : m.from \in P
    BY <1>1, <1>2, <1>4 DEF Counting, AcksFor
  <2>2. /\ \A m \in S : m.from \in Observers
        /\ \A m, x \in S : m.from = x.from => m = x
        /\ Cardinality(S) >= Majority
    BY <1>1, <1>2, <1>3
  <2> HIDE DEF S, P
  <2>3. Cardinality(P) >= Majority
    BY <2>1, <2>2, Senders
  <2> QED BY <2>3 DEF P
<1>6. Cardinality(Naming(sel.vote.last, sel.vote.pub)) >= Majority
  <2> DEFINE S == {x \in acks : x.vote.pub = sel.vote.pub}
             P == Naming(sel.vote.last, sel.vote.pub)
  <2>1. P \in SUBSET Observers /\ \A m \in S : m.from \in P
    BY <1>1, <1>2, <1>4 DEF Naming, AcksFor
  <2>2. /\ \A m \in S : m.from \in Observers
        /\ \A m, x \in S : m.from = x.from => m = x
        /\ Cardinality(S) >= Majority
    BY <1>1, <1>2, <1>3
  <2> HIDE DEF S, P
  <2>3. Cardinality(P) >= Majority
    BY <2>1, <2>2, Senders
  <2> QED BY <2>3 DEF P
<1> QED BY <1>4, <1>5, <1>6 DEF Chosen

\* No step takes a message back.
LEMMA MessagesStay ==
  ASSUME [Next]_vars
  PROVE  msgs \subseteq msgs'
<1>1. CASE UNCHANGED vars
  BY <1>1 DEF vars
<1>2. ASSUME NEW f, NEW req, NEW prev, NEW salt, GenBlock(f, req, prev, salt) PROVE msgs \subseteq msgs'
  BY <1>2 DEF GenBlock
<1>3. ASSUME NEW o \in Observers, Step(o) PROVE msgs \subseteq msgs'
  <2>1. CASE HandleRoundVote(o)
    BY <2>1 DEF HandleRoundVote
  <2>2. CASE HandleRoundVoteAck(o)
    BY <2>2 DEF HandleRoundVoteAck
  <2>3. CASE HandleBlockVote(o)
    BY <2>3 DEF HandleBlockVote
  <2>4. ASSUME NEW m, AnswerRoundVote(o, m) \/ AnswerRoundVoteAck(o, m) PROVE msgs \subseteq msgs'
    BY <2>4 DEF AnswerRoundVote, AnswerRoundVoteAck
  <2>5. ASSUME NEW g, HandleBlockGen(o, g) PROVE msgs \subseteq msgs'
    BY <2>5 DEF HandleBlockGen
  <2>6. ASSUME NEW q, NEW h, HandleStatus(o, q, h) \/ HandleBlock(o, q, h) PROVE msgs \subseteq msgs'
    BY <2>6 DEF HandleStatus, HandleBlock
  <2>7. CASE BlockTimer(o)
    BY <2>7 DEF BlockTimer
  <2>8. CASE VoteTimer(o)
    BY <2>8 DEF VoteTimer
  <2> QED BY <1>3, <2>1, <2>2, <2>3, <2>4, <2>5, <2>6, <2>7, <2>8 DEF Step
<1> QED BY <1>1, <1>2, <1>3 DEF Next, Generate

\* A majority stays behind what it has chosen.
LEMMA ChosenStays ==
  ASSUME NEW v, Chosen(v), msgs \subseteq msgs'
  PROVE  Chosen(v)'
<1>1. \A p : AcksFor(p, v.last) \subseteq AcksFor(p, v.last)'
  BY DEF AcksFor
<1>2. ASSUME NEW P \in SUBSET Observers, NEW Q \in SUBSET Observers, P \subseteq Q,
             Cardinality(P) >= Majority
      PROVE  Cardinality(Q) >= Majority
  <2>1. IsFiniteSet(Q) /\ IsFiniteSet(P)
    BY FS_Subset, ObserversAssumption
  <2>2. Cardinality(P) <= Cardinality(Q) /\ Cardinality(P) \in Nat /\ Cardinality(Q) \in Nat
    BY <1>2, <2>1, FS_Subset, FS_CardinalityType
  <2> QED BY <1>2, <2>2, MajorityType
<1>3. Counting(v.last, v.tc) \subseteq Counting(v.last, v.tc)'
  BY <1>1 DEF Counting
<1>4. Naming(v.last, v.pub) \subseteq Naming(v.last, v.pub)'
  BY <1>1 DEF Naming
<1>5. /\ Counting(v.last, v.tc) \in SUBSET Observers /\ Counting(v.last, v.tc)' \in SUBSET Observers
      /\ Naming(v.last, v.pub) \in SUBSET Observers /\ Naming(v.last, v.pub)' \in SUBSET Observers
  BY DEF Counting, Naming
<1>6. Cardinality(Counting(v.last, v.tc)') >= Majority /\ Cardinality(Naming(v.last, v.pub)') >= Majority
  BY <1>2, <1>3, <1>4, <1>5 DEF Chosen
<1>7. v.form = TopRank(v.last, v.tc)
  BY DEF Chosen
<1> QED BY <1>6, <1>7 DEF Chosen

\* The leaders of two rounds on one hash are the same, or one observer has acknowledged two.
LEMMA ChosenAgree ==
  ASSUME Types, LeadersChosen
  PROVE  LeaderAgreement
<1> SUFFICES ASSUME NEW o \in Observers, NEW p \in Observers,
                    round[o].min # NoVote, round[p].min # NoVote,
                    round[o].min.last = round[p].min.last, round[o].min # round[p].min
             PROVE  \E m, x \in msgs :
                      /\ m.type = "RoundVoteAck" /\ x.type = "RoundVoteAck"
                      /\ m.from = x.from /\ m.vote.last = round[o].min.last
                      /\ x.vote.last = round[o].min.last /\ m.vote # x.vote
  BY DEF LeaderAgreement
<1>1. PICK a \in AckVote, b \in AckVote : a = round[o].min /\ b = round[p].min
  BY DEF Types, Round
<1>2. a # b /\ a.last = b.last /\ Chosen(a) /\ Chosen(b)
  BY <1>1 DEF LeadersChosen
<1>3. a.tc # b.tc \/ a.pub # b.pub
  <2> SUFFICES ASSUME a.tc = b.tc, a.pub = b.pub PROVE a = b
    BY <1>2
  <2>1. a.height = b.height /\ a.form = b.form
    BY <1>2 DEF AckVote, Chosen
  <2> QED BY <1>2, <2>1 DEF AckVote
<1>4. CASE a.tc # b.tc
  <2>1. Counting(a.last, a.tc) \in SUBSET Observers /\ Counting(a.last, b.tc) \in SUBSET Observers
    BY DEF Counting
  <2>2. Cardinality(Counting(a.last, a.tc)) >= Majority /\ Cardinality(Counting(a.last, b.tc)) >= Majority
    BY <1>2 DEF Chosen
  <2>3. PICK q : q \in Counting(a.last, a.tc) \cap Counting(a.last, b.tc)
    BY <2>1, <2>2, MajoritiesMeet
  <2>4. PICK m \in AcksFor(q, a.last) : m.vote.tc = a.tc
    BY <2>3 DEF Counting
  <2>5. PICK x \in AcksFor(q, a.last) : x.vote.tc = b.tc
    BY <2>3 DEF Counting
  <2> QED BY <1>1, <1>4, <2>4, <2>5 DEF AcksFor
<1>5. CASE a.pub # b.pub
  <2>1. Naming(a.last, a.pub) \in SUBSET Observers /\ Naming(a.last, b.pub) \in SUBSET Observers
    BY DEF Naming
  <2>2. Cardinality(Naming(a.last, a.pub)) >= Majority /\ Cardinality(Naming(a.last, b.pub)) >= Majority
    BY <1>2 DEF Chosen
  <2>3. PICK q : q \in Naming(a.last, a.pub) \cap Naming(a.last, b.pub)
    BY <2>1, <2>2, MajoritiesMeet
  <2>4. PICK m \in AcksFor(q, a.last) : m.vote.pub = a.pub
    BY <2>3 DEF Naming
  <2>5. PICK x \in AcksFor(q, a.last) : x.vote.pub = b.pub
    BY <2>3 DEF Naming
  <2> QED BY <1>1, <1>5, <2>4, <2>5 DEF AcksFor
<1> QED BY <1>3, <1>4, <1>5

\* One exchange of acks never yields two formulators or leaders: whatever observers choose
\* for one block, a majority of acks named it, and two majorities share an observer.
THEOREM OneLeader == Spec => []LeaderAgreement
<1>1. Init => LeadersChosen
  BY DEF Init, LeadersChosen, NewVoteRound
<1>2. IInv /\ RoundHasTarget /\ LeadersChosen /\ [Next]_vars => LeadersChosen'
  <2> SUFFICES ASSUME IInv, RoundHasTarget, LeadersChosen, [Next]_vars, NEW o \in Observers,
                      round'[o].min # NoVote
               PROVE  Chosen(round[o].min)'
    BY DEF LeadersChosen
  <2>1. msgs \subseteq msgs' /\ Types
    BY MessagesStay DEF IInv
  <2>2. PICK v : v = round'[o].min
    OBVIOUS
  <2>3. Chosen(v)
    <3>1. CASE v = round[o].min
      BY <2>2, <3>1 DEF LeadersChosen
    <3>2. ASSUME NEW acks \in MessageMaps(o, "RoundVoteAck"), NEW sel \in MaySelect(acks), v = sel.vote
          PROVE  Chosen(v)
      BY <2>1, <3>2, SelectedChosen
    <3> QED BY <2>2, <3>1, <3>2, NextKept DEF RoundKept
  <2>4. Chosen(v)'
    BY <2>1, <2>3, ChosenStays
  <2> QED BY <2>2, <2>4 DEF Chosen, Counting, Naming, AcksFor
<1>3. IInv /\ LeadersChosen => LeaderAgreement
  BY ChosenAgree DEF IInv
<1> QED BY <1>1, <1>2, <1>3, Invariance, TargetHasSlot, PTL DEF Spec

-----------------------------------------------------------------------------
(* ObserverNode implements BlockVoting: a step signs one block, connects certified blocks,
   or is a stutter. *)

\* The signatures of the abstract specification are the block votes.
LEMMA SignedIsSigners ==
  ASSUME Types, NEW hdr
  PROVE  Voting!Signed(hdr) = Signers(hdr)
<1>1. ASSUME NEW o \in Observers
      PROVE  [from |-> o, hdr |-> hdr] \in Signatures <=> BlockVoteOf(o, hdr) \in msgs
  <2>1. ASSUME BlockVoteOf(o, hdr) \in msgs PROVE [from |-> o, hdr |-> hdr] \in Signatures
    BY <2>1 DEF Signatures, BlockVotes, BlockVoteOf
  <2>2. ASSUME [from |-> o, hdr |-> hdr] \in Signatures PROVE BlockVoteOf(o, hdr) \in msgs
    <3>1. PICK m \in BlockVotes : [from |-> o, hdr |-> hdr] = [from |-> m.from, hdr |-> m.hdr]
      BY <2>2 DEF Signatures
    <3>2. m \in BlockVoteMsg /\ m \in msgs
      BY MsgByType DEF Types, BlockVotes
    <3>3. m.from = o /\ m.hdr = hdr /\ m.type = "BlockVote"
      BY <3>1, <3>2 DEF BlockVoteMsg
    <3>4. m = [type |-> m.type, from |-> m.from, hdr |-> m.hdr]
      BY <3>2 DEF BlockVoteMsg
    <3> QED BY <3>2, <3>3, <3>4 DEF BlockVoteOf
  <2> QED BY <2>1, <2>2
<1> QED BY <1>1 DEF Voting!Signed, Signers

\* The certified headers of the two specifications are the same.
LEMMA CertifiedIsCertified ==
  ASSUME Types, NEW hdr, Certified(hdr)
  PROVE  Voting!Certified(hdr)
<1>1. \A x : Signers(x) \in SUBSET Observers
  BY DEF Signers
<1>2. \A h \in 1..Len(hdr) : Signers(SubSeq(hdr, 1, h)) \in Quorums
  BY <1>1 DEF Certified, Quorums
<1> QED BY <1>2, SignedIsSigners DEF Voting!Certified

\* Rounds, timers, replies and queues implement BlockVoting.
THEOREM Refinement == Spec => ImplementsVoting
<1>1. Init => Voting!Init
  BY DEF Init, Voting!Init, Signatures, BlockVotes
<1>2. IInv /\ [Next]_vars => [Voting!Next]_<<chain, Signatures>>
  <2> SUFFICES ASSUME IInv, [Next]_vars PROVE [Voting!Next]_<<chain, Signatures>>
    OBVIOUS
  <2>1. CASE Quietly
    BY <2>1 DEF Quietly, Signatures
  <2>2. ASSUME NEW o \in Observers, Connects(o) PROVE [Voting!Next]_<<chain, Signatures>>
    <3>1. PICK hdr \in Header : /\ chain' = [chain EXCEPT ![o] = hdr]
                                /\ Certified(hdr) /\ Len(hdr) >= Len(chain[o])
      BY <2>2 DEF Connects
    <3>2. Signatures' = Signatures
      BY <2>2 DEF Connects, Signatures
    <3>3. CASE hdr = chain[o]
      BY <3>1, <3>2, <3>3 DEF IInv, Types
    <3>4. CASE hdr # chain[o]
      <4>1. IsPrefix(chain[o], hdr)
        BY <3>1, CertifiedPrefix, LenHeader DEF IInv, Types, BlocksCertified
      <4>2. Voting!Certified(hdr)
        BY <3>1, CertifiedIsCertified DEF IInv
      <4>3. Voting!Connect(o, hdr)
        BY <3>1, <3>2, <3>4, <4>1, <4>2
           DEF Voting!Connect, Voting!IsStrictPrefix, Voting!IsPrefix, IsPrefix
      <4> QED BY <4>3 DEF Voting!Next
    <3> QED BY <3>3, <3>4
  <2>3. ASSUME NEW o \in Observers, NEW hdr \in Header, VotesFor(o, hdr)
        PROVE  [Voting!Next]_<<chain, Signatures>>
    <3>1. hdr # <<>> /\ Front(hdr) = chain[o] /\ UNCHANGED chain
      BY <2>3 DEF VotesFor, ValidHeader
    <3>2. \A v \in Signatures : v.from = o => Len(v.hdr) # Len(hdr)
      <4>1. /\ Len(hdr) = Len(chain[o]) + 1
            /\ \A m \in BlockVotes : m.from = o => Len(m.hdr) <= Len(chain[o])
        BY <2>3, FirstVote
      <4>2. Len(chain[o]) \in Nat /\ \A m \in BlockVotes : Len(m.hdr) \in Nat
        BY MsgByType, LenHeader DEF IInv, Types, BlockVotes, BlockVoteMsg
      <4>3. \A m \in BlockVotes : m.from = o => Len(m.hdr) # Len(hdr)
        BY <4>1, <4>2
      <4> QED BY <4>3 DEF Signatures
    <3>3. Signatures' = Signatures \cup {[from |-> o, hdr |-> hdr]}
      <4>1. BlockVotes' = BlockVotes \cup {BlockVoteOf(o, hdr)}
        BY <2>3 DEF VotesFor, BlockVotes, BlockVoteOf
      <4> DEFINE v == BlockVoteOf(o, hdr)
      <4>2. [from |-> v.from, hdr |-> v.hdr] = [from |-> o, hdr |-> hdr]
        BY DEF BlockVoteOf
      <4> HIDE DEF v
      <4>3. Signatures' = {[from |-> m.from, hdr |-> m.hdr] : m \in BlockVotes \cup {v}}
        BY <4>1 DEF Signatures, v
      <4>4. {[from |-> m.from, hdr |-> m.hdr] : m \in BlockVotes \cup {v}}
              = Signatures \cup {[from |-> v.from, hdr |-> v.hdr]}
        BY DEF Signatures
      <4> QED BY <4>2, <4>3, <4>4
    <3>4. Voting!Sign(o, hdr)
      BY <3>1, <3>2, <3>3 DEF Voting!Sign, Voting!Front, Front
    <3> QED BY <3>4 DEF Voting!Next
  <2> QED BY <2>1, <2>2, <2>3, NextEffect DEF Effect
<1> QED BY <1>1, <1>2, Invariance, PTL DEF Spec, ImplementsVoting, Voting!Spec

=============================================================================
