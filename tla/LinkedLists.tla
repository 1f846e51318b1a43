---------------------------- MODULE LinkedLists -----------------------------
(***************************************************************************)
(* The linked lists of include/qemu/queue.h, as sequences: how an element  *)
(* is taken out of the middle of one.                                      *)
(***************************************************************************)
EXTENDS Naturals, Sequences

(* The list without its i-th element. *)
RemovedAt(list, i) == SubSeq(list, 1, i - 1) \o SubSeq(list, i + 1, Len(list))

(* The first of some places of a list. *)
First(at) == CHOOSE k \in at : \A j \in at : k <= j

(* The list without the first place that holds x, if one does. *)
Removed(list, x) ==
    LET at == {k \in DOMAIN list : list[k] = x}
    IN  IF at = {} THEN list ELSE RemovedAt(list, First(at))
=============================================================================
