-------------------------- MODULE MCHashedLinkedList --------------------------
(***************************************************************************)
(* Small instances of HashedLinkedList.  No order id and no list is        *)
(* special, so they may be exchanged.                                      *)
(***************************************************************************)
EXTENDS HashedLinkedList

Symmetry == Permutations(Lists) \cup Permutations(Ids)

=============================================================================
