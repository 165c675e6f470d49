------------------------------ MODULE AltosList ------------------------------
(***************************************************************************)
(* The intrusive doubly-linked lists of kernel/ao_list.h, as sequences of  *)
(* the elements linked on them.  An element that is on no list is linked   *)
(* to itself, so deleting it again changes nothing: ListDel of an absent   *)
(* element is the identity.                                                *)
(***************************************************************************)
EXTENDS Naturals, Sequences, Functions

(* The list q after ao_list_del of every element of S; the others keep     *)
(* their order.                                                            *)
ListDel(q, S) ==
  LET kept[n \in 0 .. Len(q)] ==
        IF n = 0 THEN << >>
        ELSE IF q[n] \in S THEN kept[n-1] ELSE Append(kept[n-1], q[n])
  IN  kept[Len(q)]

(* ao_list_insert after the predecessor of position i: e becomes the i-th  *)
(* element.                                                                *)
ListInsert(q, i, e) == SubSeq(q, 1, i-1) \o <<e>> \o SubSeq(q, i, Len(q))
=============================================================================
