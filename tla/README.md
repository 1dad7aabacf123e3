# Verification of the FLETA test net

TLA+ models of the FLETA Proof-of-Formulator blockchain (Go sources under `src/`), the
TLC configurations that check them on small instances, and TLAPS proofs of the
properties that matter most for every number of observers.

## 1. The system

*Formulators* generate blocks, ten in a turn, in the order of a rank table. *Observers*
(five when deployed) decide which formulator has the turn, vote on each block and connect
it once a majority has voted. Every node executes connected blocks on a *context* and
stores them in a *pile* (blocks) and a key-value *store* (state).

| part | state | operations | meets |
|---|---|---|---|
| observer node (`pof/observer_node*.go`, `vote_round.go`) | voting round, `blockQ`, `messageQueue`, `ignoreMap` | one handler per message, three timers under one mutex | other observers, formulators, chain |
| rank table, consensus (`pof/rank*.go`, `consensus*.go`) | candidates, `rankMap`, `blocksBySameFormulator` | `TopRank`, `forwardCandidates`, `forwardTop`, `addRank`, `removeRank`, `OnSaveData`, `ValidateSignature` | chain, observers, formulators |
| observer mesh, formulator service (`pof/observer_mesh.go`, `observer_formulator_service.go`) | peer maps | connect, remove, send, broadcast | network |
| formulator node (`pof/formulator_node*.go`) | `lastReqMessage`, `lastGenItemMap`, chain, pool | answer block requests, generate a turn, connect signed blocks | observers, peers, pool |
| chain, block creator (`core/chain`) | processes, services, store | `ConnectBlock`, `executeBlockOnContext`, `AddTx`, `Finalize` | consensus, context, store |
| context (`core/types/context*.go`) | stack of snapshots over a loader | accounts, account data, UTXO, process data, time slots; `Snapshot`, `Revert`, `Commit` | processes, store |
| store, pile (`core/chain/store.go`, `core/pile`) | key-value store, chunk files, caches | `StoreGenesis`, `StoreBlock`, `Open`, `LoadPile`, `AppendData` | disk |
| pool, queues, request timer (`core/txpool`, `common/queue`, `service/p2p/requesttimer.go`) | linked, sorted and expiring queues | push, pop, remove, expiry | nodes |
| p2p node (`service/p2p`) | status map, block queue, transaction queues | synchronise, flood | network |
| processes (`process/*`) | balances, stakes, policies | transactions, rewards at block end | context |
| services, commands (`service/*`, `cmd/*`) | - | wallet, HTTP, start-up | - |

What is hard to get right here: the observers change their minds (another formulator,
another leader, a given-up round) while earlier messages are still under way; a vote
must survive all of that; blocks arrive before the round that wants them; a node that
fell behind fetches blocks while its own round goes on; Go visits maps in any order;
and a process may die between any two writes. `PROJECT.json` lists these hazards by line.

The properties that make the observers correct: no two of them connect different blocks
at one height; none signs two blocks of one height; none reaches the panic on a forked
block; a round always has a block slot for its target; one exchange of acks gives one leader.

## 2. Modules

| module | models |
|---|---|
| `Ranks` | order of ranks, insertion, `forwardCandidates`, `forwardTop`, `OnSaveData` as operators |
| `BlockVoting` | abstract specification: sign at most one block per height on one's own chain, connect what a quorum has signed |
| `ObserverNode` | the observers, with the formulators and the network as they see them |
| `MCObserverNode` | bounds for TLC: rounds given up, different votes sent, who fetches blocks |
| `MCObserverRestart` | `ObserverNode` with one restart of an observer |
| `Chains` | last element, front and prefixes of sequences |
| `ObserverNodeProofs` | proofs: types, inductive invariant, agreement, absence of panics, refinement of `BlockVoting`, slots of rounds, leaders |

### ObserverNode and the code

| variable | code |
|---|---|
| `chain[o]` | the connected blocks; `Provider().Height()` is `Len`, `LastHash()` is the sequence itself |
| `round[o]` | `ob.round`: `state`, `target` (TargetHeight), `min` (MinRoundVoteAck), `brs` (BlockRoundMap with BlockGenMessage and BlockGenMessageWait), own round vote and ack |
| `genQ[o]` | the BlockGenMessages in `messageQueue`; `raw` tells whether the packet to relay is attached |
| `blockQ[o]` | `ob.blockQ` |
| `msgs` | every RoundVote, RoundVoteAck, BlockReq, BlockGen and BlockVote sent |
| `panicked` | observers that ran into a panic |

| action | code |
|---|---|
| `HandleRoundVote`, `AnswerRoundVote` | case `RoundVoteMessage`: collecting a quorum; answering in a later state |
| `HandleRoundVoteAck`, `AnswerRoundVoteAck` | case `RoundVoteAckMessage`: the loop that selects the leader, pruning of the block rounds, the block request, the parked block |
| `HandleBlockGen` | case `BlockGenMessage`: relay, park, check, vote |
| `HandleBlockVote` | case `BlockVoteMessage`: connect, continue the turn or start a round |
| `HandleStatus`, `HandleBlock` | cases `StatusMessage`, `BlockMessage` with `addBlock` and its panics |
| `BlockTimer`, `VoteTimer` | the timers of `Run`, with `syncVoteRound` and `resetVoteRound` |
| `GenBlock` | `FormulatorNode.genBlock`, on a request that its handler accepted |
| `Restart` (`MCObserverRestart`) | `NewObserverNode` on an existing chain |

How data and detail are abstracted:

- Hashes are collision free. A block is the sequence of contents up to it, a content is
  generator, timeout count and a salt that also serves as the hash space of `forwardTop`.
- Signatures are those of the named sender; key recovery and chain id checks are left out.
- The message maps are read as a whole only in the step that completes a quorum. The
  handlings that fill a map and the one that completes it are therefore one step over
  the messages the map then holds; the round keeps the observer's own entries, which are
  read later. Timestamp and IsReply only restrict which vote stands for a sender and
  which vote is answered, and are dropped.
- Messages stay in `msgs`: late, reordered, repeated and lost votes are all behaviours,
  and the wait maps for votes are implicit. BlockGenMessages are consumed, because it
  matters that they are relayed or parked once.
- Replies in RoundVoteState and RoundVoteAckState repeat what the vote timer sends or
  what was broadcast already; they are no actions of their own.
- Connected and ignored formulators are arbitrary at each step, so the formulator an
  observer votes for is any candidate. The 30 failed ticks may be over at any tick.
- A repeated identical block request is one message; the formulator may answer it with
  further, different blocks (it does after 30 s).
- Formulators generate valid blocks: the checks of execution and timestamp pass, or the
  message counts as never handled.
- `ConnectBlockWithContext` succeeds for a block with a majority of votes
  (`src/pof/observer_node_observer.go:613`). The observer executed the block before it voted,
  so that only its store can fail. When it does, the code keeps the vote and the round and
  tries again with the next vote. Two effects of that are not modelled: the block is then
  connected with more than the n/2+1 observer signatures that `ValidateSignature` wants
  (`src/pof/consensus.go:147`), and the rank table may have moved already
  (`src/pof/consensus.go:177`). Without failures every connected block carries the first n/2+1
  votes, which is why `Connectable` counts the signers of a block. `NoPanic`, `PanicFree` and
  `ImplementsVoting` rest on this assumption.
- Left out: `requestTimer`, `statusMap`, the limit of 100 blocks per tick, sleeping, and the
  `BlockGenRequestMessage` case, which is unreachable (value type in the switch,
  pointers from the decoder).

## 3. Runs

| run | instance | checks |
|---|---|---|
| `vote` | 3 observers, 1 formulator, 2 different blocks, height 1 | `ImplementsVoting` |
| `turn` | 3 observers, 2 formulators, turns of 2 blocks; observer 3 falls behind, or 3 rounds are given up | `TypeOK`, `RoundHasTarget`, `NoPanic`, `AppendOnly` |
| `timeout` | 3 observers, 2 formulators, 1 round given up | `OneVotePerHeight`, `VoteLocked`, `Agreement`, `LeaderAgreement` |
| `acks` | 5 observers, 2 formulators, up to the choice of the leader | `LeaderAgreement`, `AckDecides` |
| `restart` | 5 observers, 1 restart after a vote | `NoPanic`, violated |

Bounds and why they are enough to be interesting:

- `vote` is unconstrained: every interleaving of its instance, with any number of give-ups and
  with fetched blocks queued by everybody. Two blocks for one height is the least with which
  a second vote could differ.
- `turn` has turns of two blocks and tells two stories (`InStory`). In `behind` a block is parked,
  a turn continues, votes are restated, and observer 3 fetches blocks that overtake its round;
  that its queue is connected without a refusal is `NoPanic` here. Nobody gives up or is
  passed over. In `cut`, after the first block of a turn, all three observers give up, pass the
  formulator over and give the next one a turn of its own, whose first block they connect. There
  nobody queues fetched blocks, the observers agree on whom to pass over, act in the order of
  their public hashes (`InStep`), and give up only once the first block is connected everywhere.
  `TargetHasSlot` and `PanicFree` prove the two invariants without these bounds.
- `timeout` lets a vote change once and one round be given up in the middle, which puts two
  observers into different rounds of one height. `OwnAckFirst` drops schedules in which an
  observer does not count its own ack. Nobody queues fetched blocks.
- `acks` needs five observers: with three, n/2+2 is all of them. Each states one round vote for
  either formulator, and `InPhases` fixes the order of steps that commute: votes before acks,
  acks before selections, of which two are enough to compare leaders. The view `WithoutMyVote`
  leaves out a field that only answers in BlockVoteState read, which nobody reaches without
  blocks. Its point is the n/2+2: with n/2+1 round votes the acks may name three leaders and
  decide on none. `AckDecides` is about round votes that do not change. When they do the acks may
  split over three leaders with n/2+2 round votes too (1, 2 and 3 vote for timeout count 1, 4 and
  5 for 0, and 3 then changes to 0), and the round ends by its timeout.
- `restart` follows one story (who acts before and after the restart, commuting steps in a
  fixed order), because the full state space of five observers is out of reach. A story
  only removes behaviours, so its counterexample is one of the code.

No run checks deadlock: the bounded height ends every behaviour of the models.
None assumes fairness; all properties so far are safety properties.

### What `restart` shows

A block vote is in `ob.round` only. An observer that restarts after voting and before
connecting starts a fresh round (`NewObserverNode`, `src/pof/observer_node.go:61`) and may
vote for another block of the height. Observers 1, 2 and 3 vote for a block and 3 connects
it; 1 restarts, and 1, 4 and 5 vote for and connect another. The status of one side then
reaches `panic(chain.ErrFoundForkedBlock)` (`src/pof/observer_node_observer.go:739`), the
code's own assertion that there are no forks. `HeardAgain` keeps the story honest: the
restarted observer proceeds only with votes and acks of observers at its own height.

## 4. Proofs

For any finite set of observers, any number of formulators, any salts, heights and turn
lengths (the ASSUMEs of `Ranks` and `ObserverNode`, which the runs evaluate):

| theorem | statement |
|---|---|
| `Invariance` | `Spec => []IInv` |
| `TypeCorrect` | `Spec => []TypeOK` |
| `SingleVote` | `Spec => []OneVotePerHeight` |
| `LockHolds` | `Spec => []VoteLocked` |
| `PanicFree` | `Spec => []NoPanic` |
| `NoFork` | `Spec => []Agreement` |
| `ChainsGrow` | `Spec => AppendOnly` |
| `Refinement` | `Spec => ImplementsVoting` |
| `TargetHasSlot` | `Spec => []RoundHasTarget` |
| `OneLeader` | `Spec => []LeaderAgreement` |

The argument. `Agreement` is not inductive: it says nothing about votes under way. `IInv`
adds what carries it:

- `VoteLocked`: who has signed a block it has not connected is in BlockVoteState on that
  very block. This is where the code's rule matters that such a round is not failable.
- `HoldsVote`: conversely, a round in BlockVoteState holds a block that it has signed. So
  a first vote at a height is the only vote, and `OneVotePerHeight` is preserved.
- `VotesValid`: a signed block has the generator that the rank table gives for the chain
  before it, so that whoever fetches it can connect it.
- `BlocksCertified`: every chain and every block in `blockQ` is certified, that is signed
  by a majority at each of its heights.
- `NoPanic` itself, and `Types`, which says more than `TypeOK` where the proofs need it.

Two majorities of a finite set meet (`MajoritiesMeet`), a common member signed once
(`SignedOnce`), so certified blocks of one height are equal (`CertifiedUnique`) and certified
chains are prefixes of one another (`CertifiedPrefix`): that is `NoFork`, it makes the
comparisons in `HandleStatus` and `HandleBlock` succeed and the queued blocks
connectable, that is `PanicFree`. One lemma per action shows that it preserves `IInv`; most
actions neither vote nor connect and share the lemma `Quiet`. `Effect` sums up what a step
does to chains and votes, from which `ChainsGrow` and `Refinement` follow.

`TargetHasSlot` is about the length of a turn. The rank table after a chain is a recursive
function over its blocks; `TablesExist` and `TurnGoesOn` unfold it by taking the least height
at which the claim fails. `OnSaveData` moves the table on when a formulator has had
`MaxBlocksPerFormulator` blocks, so that `RemainBlocks` is never 0, a new round has a slot for
its target, and a turn that continues stays within the slots it has. For `OneLeader` the
invariant `LeadersChosen` says that behind the timeout count and behind the leader of every
selected ack stands a majority of acks that name it. Acks stay as sent, and two majorities
share an observer: if the choices differ, that observer has sent two different acks.

The theorems are about observers that do not restart, and whose connects do not fail: the
run `restart` shows that the first assumption is needed, section 2 says what the second
leaves out.

Only model-checked: `AckDecides` (it holds for five observers that keep their round votes, not for every number).
Liveness, `ENABLED` and what recursive definitions compute for every input are out of the
prover's reach and stay with TLC.

## 5. Not modelled yet, and the plan

1. Liveness of the observers: fair timers and delivery, the lost or parked block of a leader
   that gave up, votes split over two blocks.
2. `RankTable`: joining and leaving formulators, `rankMap` against `candidates`, every
   formulator eventually on top.
3. `Context`: the stack of snapshots with `Commit` and `Revert` as a refinement of a flat map;
   the block creator on top of it.
4. `Pile` and `Store` under crashes: what is readable after recovery is a prefix, and pile and
   key-value store agree; the chunk boundary.
5. `LinkedQueue`, `SortedQueue`, `ExpireQueue`, `TransactionPool` and `RequestTimer` against
   sequences and sets.
6. `FormulatorNode`: generation, signing and connecting with the lock released in between.
7. `vault` and `formulator` processes: conservation of balances, locked amounts and stakes.

Proofs planned with them: the table's order, refinement of the flat map, the recovery
invariant, refinement of the queues. Front ends, drivers, vendored code and
serialisation stay out: they are I/O or have no state of their own.
