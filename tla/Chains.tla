------------------------------- MODULE Chains -------------------------------
(***************************************************************************)
(* Chains as sequences: what comes before the last element, the last       *)
(* element, and when one chain is an earlier state of another: the longer, *)
(* cut back to the height of the shorter, is the shorter.  SequencesExt    *)
(* has operators of these names too; modules with proofs do not extend it, *)
(* since the provers slow down with every definition in scope.             *)
(***************************************************************************)
EXTENDS Integers, Sequences

Front(s) == SubSeq(s, 1, Len(s) - 1)
Last(s) == s[Len(s)]

IsPrefix(old, new) == Len(old) <= Len(new) /\ old = SubSeq(new, 1, Len(old))
IsStrictPrefix(old, new) == IsPrefix(old, new) /\ old # new

=============================================================================
