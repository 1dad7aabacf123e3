----------------------------- MODULE ObserverNode -----------------------------
(***************************************************************************)
(* The observers of Proof-of-Formulator (pof/observer_node*.go,            *)
(* pof/vote_round.go): each votes which formulator is to generate the next *)
(* blocks (RoundVote), acknowledges the outcome (RoundVoteAck), waits for  *)
(* the generated block (BlockWait), votes for it (BlockVote) and connects  *)
(* it once a majority has, then goes on to the formulator's next block or  *)
(* starts a new round.  Observers that fall behind fetch connected blocks  *)
(* from the others.                                                        *)
(*                                                                         *)
(* Hashes are collision free: the hash of a block is the sequence of the   *)
(* contents of all blocks up to it, so that a header is such a sequence,   *)
(* its Height is Len, its PrevHash is Front, and <<>> is the genesis hash  *)
(* (and, where the code has a nil *BlockGenMessage, "no header").          *)
(*                                                                         *)
(* msgs holds every message ever sent.  A vote may be handled late, out of *)
(* order, several times or never.  The wait maps that park a vote until    *)
(* the round can use it are therefore implicit (it stays in msgs).  A      *)
(* BlockGenMessage is handled once by each observer that it is sent to;    *)
(* only then it is passed on, and it is parked or lost when it is early.   *)
(*                                                                         *)
(* RoundVoteMessageMap, RoundVoteAckMessageMap and BlockVoteMap are read   *)
(* as a whole only in the step that completes a quorum; later only the     *)
(* observer's own round vote and ack are.  So the handlings that fill a    *)
(* map and the one that completes it are one step, over the messages the   *)
(* map then holds, and the round keeps the own entries.  A vote's          *)
(* Timestamp and IsReply are left out: any vote of a sender may stand for  *)
(* it, and any vote may be answered, which allows more than the code does. *)
(*                                                                         *)
(* Which formulators an observer is connected to and does not ignore       *)
(* (adjustFormulatorMap) may change between any two steps, so that the     *)
(* first of them in the rank table is an arbitrary candidate.  The 30      *)
(* failed ticks after which a round is given up may be over at any tick.   *)
(***************************************************************************)
EXTENDS Ranks, Chains, FiniteSets

CONSTANTS
  Observers,     \* public hashes of the observers, in their byte order
  FormulatorCount,
  Salts,         \* what makes two blocks of one formulator differ; also the
                 \* hash space that a block's hash gives to forwardTop
  MaxHeight      \* bound: no voting for blocks above this height

ASSUME ObserversAssumption == IsFiniteSet(Observers) /\ Observers \subseteq Nat \ {0}
ASSUME FormulatorsAssumption == FormulatorCount \in Nat \ {0}
ASSUME SaltsAssumption == Salts \subseteq Nat
ASSUME MaxHeightAssumption == MaxHeight \in Nat

VARIABLES
  chain,     \* chain[o]: the blocks o has connected (its LastHash)
  round,     \* round[o]: ob.round
  genQ,      \* genQ[o]: the BlockGenMessages of ob.messageQueue
  blockQ,    \* blockQ[o]: ob.blockQ, received blocks above o's height
  msgs,      \* every message sent so far
  panicked   \* the observers that ran into a panic of handleObserverMessage or Run

vars == <<chain, round, genQ, blockQ, msgs, panicked>>

Formulators == 1..FormulatorCount

\* Timeout counts for which TopRank returns a rank: those below the number of
\* candidates.
TimeoutCounts == 0..(FormulatorCount - 1)

Content == [gen : Formulators, tc : TimeoutCounts, salt : Salts]

Header == UNION {[1..n -> Content] : n \in 0..MaxHeight}

\* observerKeyMap.Len()/2+1, of acks and of block votes.
Majority == Cardinality(Observers) \div 2 + 1

\* Mutant: a majority of round votes is enough.
MajorityRoundQuorum == Cardinality(Observers) \div 2 + 1

\* observerKeyMap.Len()/2+2, of round votes.
RoundQuorum == Cardinality(Observers) \div 2 + 2

-----------------------------------------------------------------------------
(***************************************************************************)
(* The rank table at the end of a chain.                                   *)
(***************************************************************************)

\* updateFormulatorList: a formulator that is new in the block enters two phases
\* after the smallest (0 in the empty table), at the place its address hashes to.
GenesisRank(f) == [addr |-> f, phase |-> 0 + 2, hs |-> f]

\* InitGenesis: the table of the formulators of the genesis block.
GenesisTable == [cands |-> [f \in Formulators |-> GenesisRank(f)], same |-> 0]

\* Consensus.rt and blocksBySameFormulator after the blocks of c.
Table(c) ==
  LET t[h \in 0..Len(c)] == IF h = 0 THEN GenesisTable
                            ELSE SaveBlock(t[h - 1], c[h].tc, c[h].salt)
  IN  t[Len(c)]

TopRank(c, tc) == Table(c).cands[tc + 1].addr

\* Mutant: the timeout counts as a block of the next formulator.
RemainAfterTimeout(c, tc) == MaxBlocksPerFormulator - Table(c).same - tc

\* The blocks left of the formulator's turn (RemainBlocks).
RemainBlocks(c, tc) ==
  IF tc = 0 THEN MaxBlocksPerFormulator - Table(c).same
            ELSE MaxBlocksPerFormulator

-----------------------------------------------------------------------------
(***************************************************************************)
(* The voting round.                                                       *)
(***************************************************************************)

NoVote == [height |-> 0, last |-> <<>>, tc |-> 0, form |-> 0, pub |-> 0]

NewBlockRound == [gen |-> <<>>, wait |-> <<>>]

NewVoteRound(TargetHeight) ==
  [state  |-> "RoundVote",
   target |-> TargetHeight,
   myVote |-> {},              \* RoundVoteMessageMap[myPublicHash], if any
   myAck  |-> {},              \* RoundVoteAckMessageMap[myPublicHash], if any
   min    |-> NoVote,          \* MinRoundVoteAck
   brs    |-> [h \in TargetHeight..(TargetHeight + MaxBlocksPerFormulator - 1)
                 |-> NewBlockRound]]

Height(o) == Len(chain[o])

RoundVoteOf(o, tc) ==
  [type |-> "RoundVote", from |-> o,
   vote |-> [height |-> Height(o) + 1, last |-> chain[o], tc |-> tc,
             form |-> TopRank(chain[o], tc)]]

BlockVoteOf(o, hdr) == [type |-> "BlockVote", from |-> o, hdr |-> hdr]

\* voteSorter: the vote with the smallest timeout count, of the smallest public
\* hash among those.
IsMinVote(m, rvs) ==
  \A x \in rvs : \/ m.vote.tc < x.vote.tc
                 \/ m.vote.tc = x.vote.tc /\ m.from <= x.from

\* sendRoundVoteAck, of the vote min.
RoundVoteAckOf(o, min) ==
  [type |-> "RoundVoteAck", from |-> o,
   vote |-> [height |-> min.vote.height, last |-> min.vote.last,
             tc |-> min.vote.tc, form |-> min.vote.form, pub |-> min.from]]

\* Mutant: the restated vote keeps the old LastHash.
RestatedOnOldHash(o, m) ==
  IF m.vote.height = Height(o) + 1 THEN m
  ELSE [m EXCEPT !.vote = [@ EXCEPT !.tc = 0, !.height = Height(o) + 1]]

\* A vote of an earlier block of this turn, as a BlockVoteState reply restates
\* it for the current height: TimeoutCount 0, Formulator as it was.
Restated(o, m) ==
  IF m.vote.height = Height(o) + 1 THEN m
  ELSE [m EXCEPT !.vote = [@ EXCEPT !.tc = 0, !.height = Height(o) + 1,
                                    !.last = chain[o]]]

\* What sendRoundVoteTo may send, as sets of at most one message.
RoundVoteReplies(o, to) ==
  LET r == round[o]
  IN  IF to = o THEN {{}}
      ELSE IF r.state = "BlockVote"
      THEN {{Restated(o, m) : m \in r.myVote}}
      ELSE {{}} \cup {{RoundVoteOf(o, tc)} : tc \in TimeoutCounts}

\* What sendRoundVoteAckTo sends.
RoundVoteAckReply(o, to) ==
  IF to = o THEN {}
  ELSE IF round[o].state = "BlockVote" THEN {Restated(o, m) : m \in round[o].myAck}
  ELSE round[o].myAck

\* sendBlockVoteTo, sent along with both when a block is voted for.
BlockVoteReply(o, to) ==
  LET r == round[o]
  IN  IF to # o /\ r.state = "BlockVote" /\ r.target \in DOMAIN r.brs
      THEN {BlockVoteOf(o, r.brs[r.target].gen)} ELSE {}

\* [check round] of RoundVoteMessage and RoundVoteAckMessage.
Fits(o, vote) ==
  /\ vote.height = round[o].target
  /\ vote.last = chain[o]
  /\ vote.tc \in TimeoutCounts
  /\ vote.form = TopRank(chain[o], vote.tc)

-----------------------------------------------------------------------------
(***************************************************************************)
(* handleObserverMessage, one action per message type.                     *)
(***************************************************************************)

\* Contents a message map of o's round may have: messages of the type that fit
\* the round, at most one per sender.
MessageMaps(o, type) ==
  {map \in SUBSET {m \in msgs : m.type = type /\ Fits(o, m.vote)} :
     \A m, x \in map : m.from = x.from => m = x}

\* RoundVoteMessage while round votes are collected, up to the one that makes
\* them a quorum: the observer acknowledges the smallest.
HandleRoundVote(o) ==
  /\ round[o].state = "RoundVote"
  /\ \E rvs \in MessageMaps(o, "RoundVote") : \E min \in rvs :
       /\ Cardinality(rvs) = RoundQuorum
       /\ IsMinVote(min, rvs)
       /\ round' = [round EXCEPT ![o] =
            [@ EXCEPT !.state = "RoundVoteAck", !.myVote = {m \in rvs : m.from = o}]]
       /\ msgs' = msgs \cup {RoundVoteAckOf(o, min)}
  /\ UNCHANGED <<chain, genQ, blockQ, panicked>>

\* RoundVoteMessage in a later state: the sender is told what o has voted.
AnswerRoundVote(o, m) ==
  /\ m.type = "RoundVote" /\ Fits(o, m.vote)
  /\ round[o].state # "RoundVote"
  /\ \E reply \in RoundVoteReplies(o, m.from) :
       msgs' = msgs \cup reply \cup BlockVoteReply(o, m.from)
  /\ UNCHANGED <<chain, round, genQ, blockQ, panicked>>

\* Mutant: the acks need not agree on the leader.
SelectByTimeoutCount(acks) ==
  {m \in acks : Cardinality({x \in acks : x.vote.tc = m.vote.tc}) >= Majority}

\* The loop over RoundVoteAckMessageMap takes the first ack at which both the
\* acks seen so far with its TimeoutCount and those with its PublicHash are a
\* majority.  Go visits a map in any order: these are the acks some order takes.
MaySelect(acks) ==
  {m \in acks :
     /\ Cardinality({x \in acks : x.vote.tc = m.vote.tc}) >= Majority
     /\ Cardinality({x \in acks : x.vote.pub = m.vote.pub}) >= Majority}

\* A parked BlockGenMessage put back into the queue; it has no packet to relay.
Requeue(brs, h) ==
  IF h \in DOMAIN brs /\ brs[h].wait # <<>> /\ brs[h].gen = <<>>
  THEN {[hdr |-> brs[h].wait, raw |-> FALSE]} ELSE {}

\* BlockRoundMap once the round waits for min's formulator: the heights of its
\* turn, without the parked blocks of others.
BlockRoundsFor(o, min) ==
  LET r == round[o]
  IN  [h \in {x \in DOMAIN r.brs : x < r.target + RemainBlocks(chain[o], min.tc)} |->
         IF r.brs[h].wait # <<>> /\ Last(r.brs[h].wait).gen # min.form
         THEN [r.brs[h] EXCEPT !.wait = <<>>] ELSE r.brs[h]]

\* RoundVoteAckMessage while acks are collected, up to the one with which the
\* loop finds its ack: the observer it names asks the formulator for blocks.
HandleRoundVoteAck(o) ==
  LET t == round[o].target
  IN  /\ round[o].state = "RoundVoteAck"
      /\ \E acks \in MessageMaps(o, "RoundVoteAck") : \E sel \in MaySelect(acks) :
           LET brs == BlockRoundsFor(o, sel.vote)
           IN  /\ round' = [round EXCEPT ![o] =
                    [@ EXCEPT !.state = "BlockWait",
                              !.myAck = {m \in acks : m.from = o},
                              !.min = sel.vote,
                              !.brs = [brs EXCEPT ![t].wait = <<>>]]]
               /\ genQ' = [genQ EXCEPT ![o] = @ \cup Requeue(brs, t)]
               /\ msgs' = msgs \cup
                    (IF sel.vote.pub = o
                     THEN {[type |-> "BlockReq", from |-> o, vote |-> sel.vote]} ELSE {})
      /\ UNCHANGED <<chain, blockQ, panicked>>

\* RoundVoteAckMessage in a later state.
AnswerRoundVoteAck(o, m) ==
  /\ m.type = "RoundVoteAck" /\ Fits(o, m.vote)
  /\ round[o].state \in {"BlockWait", "BlockVote"}
  /\ msgs' = msgs \cup RoundVoteAckReply(o, m.from) \cup BlockVoteReply(o, m.from)
  /\ UNCHANGED <<chain, round, genQ, blockQ, panicked>>

\* The observer that asked for the blocks passes what it gets on to the others.
Relayed(o, g) ==
  [p \in Observers |->
     IF p = o THEN genQ[o] \ {g}
     ELSE IF g.raw /\ round[o].min # NoVote /\ round[o].min.pub = o
     THEN genQ[p] \cup {g} ELSE genQ[p]]

\* Mutant: a block on any chain is valid.
HeaderOnAnyChain(o, hdr) == hdr # <<>>

\* ValidateHeader: hdr is the next block on o's chain.
ValidHeader(o, hdr) == hdr # <<>> /\ Front(hdr) = chain[o]

\* The checks of BlockGenMessage in BlockWaitState.
Acceptable(o, hdr) ==
  LET r == round[o]
      b == Last(hdr)
  IN  /\ r.state = "BlockWait" /\ Len(hdr) = r.target
      /\ b.tc \in TimeoutCounts
      /\ b.gen = TopRank(chain[o], b.tc)
      /\ b.gen = r.min.form
      /\ r.brs[r.target].wait \in {<<>>, hdr}
      /\ ValidHeader(o, hdr)

\* BlockGenMessage: parked when it is early, voted for when it is the block that
\* the round waits for, otherwise dropped; relayed unless o has a block already.
HandleBlockGen(o, g) ==
  LET r     == round[o]
      h     == Len(g.hdr)
      open  == h \in DOMAIN r.brs /\ r.brs[h].gen = <<>>
      early == \/ h > r.target
               \/ h = r.target /\ r.state \in {"RoundVote", "RoundVoteAck"}
      vote  == open /\ ~early /\ Acceptable(o, g.hdr)
  IN  /\ round' = [round EXCEPT ![o] =
           IF open /\ early THEN [r EXCEPT !.brs = [r.brs EXCEPT ![h].wait = g.hdr]]
           ELSE IF vote
           THEN [r EXCEPT !.state = "BlockVote", !.brs = [r.brs EXCEPT ![h].gen = g.hdr]]
           ELSE r]
      /\ genQ' = IF open THEN Relayed(o, g) ELSE [genQ EXCEPT ![o] = @ \ {g}]
      /\ msgs' = msgs \cup (IF vote THEN {BlockVoteOf(o, g.hdr)} ELSE {})
      /\ UNCHANGED <<chain, blockQ, panicked>>

\* The round goes on to the same formulator's block of the next height.
Continues(r, c) ==
  /\ r.min # NoVote /\ TopRank(c, 0) = r.min.form
  /\ Len(c) + 1 \in DOMAIN r.brs

\* Mutant: votes for other blocks of the height count.
SignersAtHeight(hdr) ==
  {p \in Observers : \E m \in msgs : /\ m.type = "BlockVote" /\ m.from = p
                                     /\ Len(m.hdr) = Len(hdr)}

\* The observers that have signed hdr.
Signers(hdr) == {p \in Observers : BlockVoteOf(p, hdr) \in msgs}

\* BlockVoteMessage for the block o has voted for, up to the one that makes the
\* votes a majority: o connects the block.  The handler then returns early when
\* o is connected to formulators none of which has a rank, and leaves the round
\* to syncVoteRound.  ConnectBlockWithContext is assumed to succeed here: o has
\* executed the block already, so that only its store could fail.
HandleBlockVote(o) ==
  LET r    == round[o]
      hdr  == r.brs[r.target].gen
      next == r.target + 1
  IN  /\ r.state = "BlockVote" /\ r.target \in DOMAIN r.brs
      /\ ValidHeader(o, hdr)
      /\ Cardinality(Signers(hdr)) >= Majority
      /\ chain' = [chain EXCEPT ![o] = hdr]
      /\ \/ UNCHANGED <<round, genQ>>
         \/ IF Continues(r, hdr)
            THEN /\ round' = [round EXCEPT ![o] =
                      [@ EXCEPT !.state = "BlockWait", !.target = next]]
                 /\ genQ' = [genQ EXCEPT ![o] = @ \cup Requeue(r.brs, next)]
            ELSE /\ round' = [round EXCEPT ![o] = NewVoteRound(next)]
                 /\ UNCHANGED genQ
      /\ UNCHANGED <<blockQ, msgs, panicked>>

\* StatusMessage of p, sent when p's height was h: another block than o's at that
\* height is a fork.  (Otherwise o asks for the blocks it lacks, and
\* HandleBlock may follow.)
HandleStatus(o, p, h) ==
  /\ h <= Height(o)
  /\ panicked' = IF SubSeq(chain[o], 1, h) # SubSeq(chain[p], 1, h)
                 THEN panicked \cup {o} ELSE panicked
  /\ UNCHANGED <<chain, round, genQ, blockQ, msgs>>

\* BlockMessage with p's block of height h: addBlock.
HandleBlock(o, p, h) ==
  LET hdr  == SubSeq(chain[p], 1, h)
      same == {x \in blockQ[o] : Len(x) = h}
      fork == IF h <= Height(o) THEN hdr # SubSeq(chain[o], 1, h)
              ELSE \E x \in same : x # hdr
  IN  /\ panicked' = IF fork THEN panicked \cup {o} ELSE panicked
      /\ blockQ' = IF h > Height(o) /\ same = {}
                   THEN [blockQ EXCEPT ![o] = @ \cup {hdr}] ELSE blockQ
      /\ UNCHANGED <<chain, round, genQ, msgs>>

-----------------------------------------------------------------------------
(***************************************************************************)
(* The timers of Run.                                                      *)
(***************************************************************************)

\* Mutant: as many signatures as round votes, n/2+2, are wanted.
ConnectableByRoundQuorum(c, hdr) ==
  /\ hdr # <<>> /\ Front(hdr) = c
  /\ Last(hdr).tc \in TimeoutCounts
  /\ Last(hdr).gen = TopRank(c, Last(hdr).tc)
  /\ Cardinality(Signers(hdr)) >= RoundQuorum

\* ConnectBlock's checks of a block on the chain c: header, generator, and the
\* signatures.  A block carries those of the votes with which it was connected
\* first, and ValidateSignature wants exactly n/2+1 observers.  As connecting
\* never fails, these are the first n/2+1 votes that HandleBlockVote counted:
\* the block carries them if so many have been sent.
Connectable(c, hdr) ==
  /\ hdr # <<>> /\ Front(hdr) = c
  /\ Last(hdr).tc \in TimeoutCounts
  /\ Last(hdr).gen = TopRank(c, Last(hdr).tc)
  /\ Cardinality(Signers(hdr)) >= Majority

\* The queued blocks that follow o's chain without a gap.
QueuedRun(o) ==
  {x \in blockQ[o] : /\ Len(x) > Height(o)
                     /\ \A h \in (Height(o) + 1)..Len(x) :
                          \E y \in blockQ[o] : Len(y) = h}

\* The chains ConnectBlock gets to with the run: o's own, and each queued block
\* with which all blocks up to it can be connected.
Reached(o) ==
  LET all == QueuedRun(o) \cup {chain[o]}
  IN  {t \in all : \A x \in QueuedRun(o), c \in all :
                    Len(x) = Len(c) + 1 /\ Len(x) <= Len(t) => Connectable(c, x)}

\* blockTimer: connects the run up to its end or to a block that is refused, which
\* is a panic, and drops the queued blocks it popped on the way.
BlockTimer(o) ==
  /\ \E x \in blockQ[o] : Len(x) <= Height(o) + 1
  /\ \E tip \in Reached(o) :
       LET refused == {x \in QueuedRun(o) : Len(x) = Len(tip) + 1}
       IN  /\ \A t \in Reached(o) : Len(t) <= Len(tip)
           /\ chain' = [chain EXCEPT ![o] = tip]
           /\ blockQ' = [blockQ EXCEPT ![o] = {x \in @ : Len(x) > Len(tip)} \ refused]
           /\ panicked' = IF refused = {} THEN panicked ELSE panicked \cup {o}
  /\ UNCHANGED <<round, genQ, msgs>>

\* syncVoteRound: when the chain went past the round's target, the round follows
\* it to the same formulator's next block or starts anew.
Synced(o) ==
  LET r    == round[o]
      next == Height(o) + 1
  IN  IF r.target >= next THEN [round |-> r, requeued |-> {}]
      ELSE IF Continues(r, chain[o])
      THEN [round |-> [r EXCEPT !.target = next, !.state = "BlockWait",
                         !.brs = [r.brs EXCEPT ![next].wait =
                                    IF r.brs[next].gen = <<>> THEN <<>> ELSE @]],
            requeued |-> Requeue(r.brs, next)]
      ELSE [round |-> NewVoteRound(next), requeued |-> {}]

\* Mutant: any round may be given up.
AnyRoundFails(r) == TRUE

\* IsFailable: a round that has voted for a block is never given up.
MayGiveUp(r) == ~(r.state = "BlockVote" /\ r.target \in DOMAIN r.brs)

\* voteTimer: the round is synced; then, if a formulator is connected, a round
\* vote or the block vote is sent (again), and a round that did not get on for
\* too long is given up.
VoteTimer(o) ==
  LET r == Synced(o).round
  IN  /\ \/ /\ round' = [round EXCEPT ![o] = r]
            /\ UNCHANGED msgs
         \/ /\ r.state = "RoundVote" /\ Height(o) < MaxHeight
            /\ \E tc \in TimeoutCounts : msgs' = msgs \cup {RoundVoteOf(o, tc)}
            /\ round' = [round EXCEPT ![o] = r]
         \/ /\ r.state = "BlockVote" /\ r.target \in DOMAIN r.brs
            /\ msgs' = msgs \cup {BlockVoteOf(o, r.brs[r.target].gen)}
            /\ round' = [round EXCEPT ![o] = r]
         \/ /\ MayGiveUp(r)
            /\ round' = [round EXCEPT ![o] = NewVoteRound(Height(o) + 1)]
            /\ UNCHANGED msgs
      /\ genQ' = [genQ EXCEPT ![o] = @ \cup Synced(o).requeued]
      /\ UNCHANGED <<chain, blockQ, panicked>>

-----------------------------------------------------------------------------
(***************************************************************************)
(* The formulators (pof/formulator_node_observer.go), seen from here: one  *)
(* asked for blocks generates the first on the requested hash and the      *)
(* others of its turn each on the one before, and sends them to the        *)
(* observer that asked.  Asked again it may generate other blocks.         *)
(***************************************************************************)
GenBlock(f, req, prev, salt) ==
  LET tc  == IF prev = req.vote.last THEN req.vote.tc ELSE 0
      hdr == Append(prev, [gen |-> f, tc |-> tc, salt |-> salt])
      gen == [type |-> "BlockGen", to |-> req.from, hdr |-> hdr]
  IN  /\ req.type = "BlockReq" /\ req.vote.form = f
      /\ Len(hdr) <= MaxHeight
      /\ gen \notin msgs
      /\ \/ prev = req.vote.last
         \/ /\ [type |-> "BlockGen", to |-> req.from, hdr |-> prev] \in msgs
            /\ IsStrictPrefix(req.vote.last, prev)
            /\ Len(hdr) < req.vote.height + RemainBlocks(req.vote.last, req.vote.tc)
      /\ msgs' = msgs \cup {gen}
      /\ genQ' = [genQ EXCEPT ![req.from] = @ \cup {[hdr |-> hdr, raw |-> TRUE]}]
      /\ UNCHANGED <<chain, round, blockQ, panicked>>

-----------------------------------------------------------------------------

Init ==
  /\ chain = [o \in Observers |-> <<>>]
  /\ round = [o \in Observers |-> NewVoteRound(1)]
  /\ genQ = [o \in Observers |-> {}]
  /\ blockQ = [o \in Observers |-> {}]
  /\ msgs = {}
  /\ panicked = {}

\* A panic ends the process.
Step(o) ==
  /\ o \notin panicked
  /\ \/ HandleRoundVote(o)
     \/ HandleRoundVoteAck(o)
     \/ HandleBlockVote(o)
     \/ \E m \in msgs : AnswerRoundVote(o, m) \/ AnswerRoundVoteAck(o, m)
     \/ \E g \in genQ[o] : HandleBlockGen(o, g)
     \/ \E p \in Observers \ {o} : \E h \in 1..Height(p) :
          HandleStatus(o, p, h) \/ HandleBlock(o, p, h)
     \/ BlockTimer(o)
     \/ VoteTimer(o)

Generate ==
  \E req \in {m \in msgs : m.type = "BlockReq"} :
    \E prev \in {req.vote.last} \cup {m.hdr : m \in {x \in msgs : x.type = "BlockGen"}} :
      \E f \in Formulators, salt \in Salts : GenBlock(f, req, prev, salt)

Next == (\E o \in Observers : Step(o)) \/ Generate

Spec == Init /\ [][Next]_vars

-----------------------------------------------------------------------------
(***************************************************************************)
(* Properties.                                                             *)
(***************************************************************************)

BlockVotes == {m \in msgs : m.type = "BlockVote"}

\* The signatures that the block votes carry.
Signatures == {[from |-> m.from, hdr |-> m.hdr] : m \in BlockVotes}

Quorums == {Q \in SUBSET Observers : Cardinality(Q) >= Majority}

Voting == INSTANCE BlockVoting WITH Headers <- Header, votes <- Signatures

\* The types of the state.  A round vote, an ack and a block request are for the
\* height after the hash they name, also when a later reply restates them.
TypeOK ==
  /\ chain \in [Observers -> Header]
  /\ \A o \in Observers :
       /\ round[o].state \in {"RoundVote", "RoundVoteAck", "BlockWait", "BlockVote"}
       /\ round[o].target \in Nat
       /\ \A h \in DOMAIN round[o].brs :
            /\ h \in Nat
            /\ round[o].brs[h] \in [gen : Header, wait : Header]
       /\ genQ[o] \subseteq [hdr : Header, raw : BOOLEAN]
       /\ blockQ[o] \subseteq Header
  /\ \A m \in msgs :
       IF m.type \in {"BlockGen", "BlockVote"} THEN m.hdr \in Header
       ELSE m.vote.last \in Header /\ m.vote.height = Len(m.vote.last) + 1
  /\ panicked \subseteq Observers

\* BlockRoundMap always has an entry for the round's target, also when a turn
\* ends, is cut short by a timeout or is overtaken by fetched blocks: a round
\* without one could never vote for a block.
RoundHasTarget == \A o \in Observers : round[o].target \in DOMAIN round[o].brs

\* No two observers ever connect different blocks at one height, however the
\* rounds are given up, restated and repeated: the lock on a voted block
\* (BlockVoteState is not failable) and the n/2+1 block votes exclude forks.
Agreement ==
  \A o, p \in Observers : IsPrefix(chain[o], chain[p]) \/ IsPrefix(chain[p], chain[o])

\* An observer never signs two different blocks of one height, also when a late
\* BlockGenMessage or a new round offers it another block after its vote.
OneVotePerHeight ==
  \A m, x \in BlockVotes : m.from = x.from /\ Len(m.hdr) = Len(x.hdr) => m.hdr = x.hdr

\* An observer that signed a block it has not connected yet stays in the round of
\* its vote and keeps the block: no give-up, late ack, parked or fetched block
\* takes it out before its chain has that height.
VoteLocked ==
  \A m \in BlockVotes :
    LET r == round[m.from]
    IN  Len(m.hdr) > Height(m.from) =>
          r.state = "BlockVote" /\ r.target = Len(m.hdr) /\ r.brs[r.target].gen = m.hdr

\* Neither ErrFoundForkedBlock (Status and Block messages) nor a block of blockQ
\* that ConnectBlock refuses (blockTimer) ever makes an observer panic, as long as
\* ConnectBlockWithContext does not fail.
NoPanic == panicked = {}

\* Two observers that choose different formulators or leaders for one block do so
\* only because some observer acknowledged twice, having given up its round
\* between: one exchange of acks never yields two leaders.
LeaderAgreement ==
  \A o, p \in Observers :
    LET a == round[o].min
        b == round[p].min
    IN  a # NoVote /\ b # NoVote /\ a.last = b.last /\ a # b
        => \E m, x \in msgs : /\ m.type = "RoundVoteAck" /\ x.type = "RoundVoteAck"
                              /\ m.from = x.from /\ m.vote.last = a.last
                              /\ x.vote.last = a.last /\ m.vote # x.vote

\* When each of five observers stated one round vote and acknowledged once, the acks
\* decide on a leader, whatever timeout counts they voted for and whichever votes
\* each of them heard: the n/2+2 round votes behind an ack leave only the two
\* smallest votes, one of which then has a majority of the acks.  n/2+1 round votes
\* would leave three, and a round vote changed on the way leaves more too.
AckDecides ==
  LET votes == {m \in msgs : m.type = "RoundVote"}
      acks  == {m \in msgs : m.type = "RoundVoteAck"}
  IN  /\ \A m, x \in votes : m.from = x.from => m = x
      /\ \A m, x \in acks : m.from = x.from => m = x
      /\ {m.from : m \in acks} = Observers
      => MaySelect(acks) # {}

\* The rounds, timers, replies and queues together are an implementation of
\* BlockVoting: what they do to chains and signatures is only what it allows.
ImplementsVoting == Voting!Spec

\* A chain is only extended: connecting a voted block or a run of queued blocks
\* never replaces a block connected before.
AppendOnly == [][\A o \in Observers : IsPrefix(chain[o], chain'[o])]_vars

=============================================================================
