-------------------------------- MODULE Ranks --------------------------------
(***************************************************************************)
(* The pure part of the Proof-of-Formulator rank table (pof/rank.go,       *)
(* pof/rank_table.go) and the way a connected block moves it               *)
(* (Consensus.OnSaveData, pof/consensus.go).                               *)
(*                                                                         *)
(* A rank is [addr, phase, hs]: the formulator's address, its phase and    *)
(* its hash space, both hashes abstracted to natural numbers that keep     *)
(* their order.  The uint64 score "phase<<32 + low 32 bits of hashSpace"   *)
(* orders ranks as the pair <<phase, hs>> does.                            *)
(*                                                                         *)
(* A table is [cands, same]: the sorted candidates and                     *)
(* blocksBySameFormulator, which OnSaveData advances together.             *)
(***************************************************************************)
EXTENDS Integers, Sequences

CONSTANT MaxBlocksPerFormulator

ASSUME MaxBlocksAssumption == MaxBlocksPerFormulator \in Nat \ {0}

\* Rank.Less: by score, then by address.
Less(a, b) ==
  \/ a.phase < b.phase
  \/ a.phase = b.phase /\ a.hs < b.hs
  \/ a.phase = b.phase /\ a.hs = b.hs /\ a.addr < b.addr

\* sort.Search with the predicate s.Less(ranks[i]): the first index that s goes
\* before, one past the end when there is none.
SearchRank(ranks, s) ==
  LET after == {i \in 1..Len(ranks) : Less(s, ranks[i])}
  IN  IF after = {} THEN Len(ranks) + 1
      ELSE CHOOSE i \in after : \A j \in after : i <= j

InsertRankToList(ranks, s) ==
  LET i == SearchRank(ranks, s)
  IN  SubSeq(ranks, 1, i - 1) \o <<s>> \o SubSeq(ranks, i, Len(ranks))

\* One turn of the loop in forwardCandidates: the skipped top falls two phases
\* behind and keeps its hash space.
SkipTop(ranks) ==
  InsertRankToList(Tail(ranks), [ranks[1] EXCEPT !.phase = @ + 2])

\* forwardCandidates: the first TimeoutCount candidates did not answer.
ForwardCandidates(ranks, TimeoutCount) ==
  LET skipped[i \in 0..TimeoutCount] ==
        IF i = 0 THEN ranks ELSE SkipTop(skipped[i - 1])
  IN  skipped[TimeoutCount]

\* forwardTop: the top has had its turn; the new block's hash gives it its place
\* in the next phase.
ForwardTop(ranks, hash) ==
  InsertRankToList(Tail(ranks), [ranks[1] EXCEPT !.phase = @ + 1, !.hs = hash])

\* Consensus.OnSaveData: the turn is over after MaxBlocksPerFormulator blocks, and
\* a timeout starts a new turn.  The formulator accounts are fixed here, so that
\* updateFormulatorList leaves the table alone.
SaveBlock(t, TimeoutCount, hash) ==
  LET cands == IF TimeoutCount > 0
               THEN ForwardCandidates(t.cands, TimeoutCount) ELSE t.cands
      same  == (IF TimeoutCount > 0 THEN 0 ELSE t.same) + 1
  IN  IF same >= MaxBlocksPerFormulator
      THEN [cands |-> ForwardTop(cands, hash), same |-> 0]
      ELSE [cands |-> cands, same |-> same]
=============================================================================
