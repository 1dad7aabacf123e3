----------------------------- MODULE BlockVoting -----------------------------
(***************************************************************************)
(* What the observers promise together: every observer has a growing chain *)
(* of blocks, signs at most one block of each height, and only one that    *)
(* follows its own chain, and connects only blocks that a quorum of them   *)
(* has signed.  How a block is agreed upon does not matter here.           *)
(*                                                                         *)
(* A block is the sequence of the contents of all blocks up to it.         *)
(***************************************************************************)
EXTENDS Chains

CONSTANTS
  Observers,
  Headers,     \* the blocks that may be signed
  Quorums      \* the sets of observers whose signatures connect a block

VARIABLES
  chain,       \* chain[o]: the blocks o has connected
  votes        \* the signatures given so far

Signed(hdr) == {o \in Observers : [from |-> o, hdr |-> hdr] \in votes}

Certified(hdr) ==
  \A h \in 1..Len(hdr) : Signed(SubSeq(hdr, 1, h)) \in Quorums

Init == chain = [o \in Observers |-> <<>>] /\ votes = {}

Sign(o, hdr) ==
  /\ hdr # <<>> /\ Front(hdr) = chain[o]
  /\ \A v \in votes : v.from = o => Len(v.hdr) # Len(hdr)
  /\ votes' = votes \cup {[from |-> o, hdr |-> hdr]}
  /\ UNCHANGED chain

Connect(o, hdr) ==
  /\ IsStrictPrefix(chain[o], hdr)
  /\ Certified(hdr)
  /\ chain' = [chain EXCEPT ![o] = hdr]
  /\ UNCHANGED votes

Next == \E o \in Observers, hdr \in Headers : Sign(o, hdr) \/ Connect(o, hdr)

Spec == Init /\ [][Next]_<<chain, votes>>
=============================================================================
