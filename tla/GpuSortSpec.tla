---------------------------- MODULE GpuSortSpec ----------------------------
(***************************************************************************)
(* What one GpuSort segment promises its caller (spec section 4.5 and the  *)
(* comment at the end of gpusort_main): the result-index array of a        *)
(* segment starts as the rows in load order; a sort run either ends with   *)
(* the array a permutation of the segment's rows ordered by the sort key,  *)
(* or ends with an error status and no promise about the order.  Ties may  *)
(* end in any relative order (the network is not stable).                  *)
(***************************************************************************)
EXTENDS Naturals, Functions

CONSTANTS
  NItems,   \* possible values of kresults->nitems for a segment
  Keys      \* the sort-key values a row may carry

VARIABLES
  nitems,   \* number of rows in the segment
  key,      \* key[r]: the sort key of slot row r
  order,    \* order[k]: slot row at position k of the result array
  status    \* "running", "sorted" or "error"

vars == <<nitems, key, order, status>>

Pos == 0 .. nitems - 1

IsPermutation(o) == DOMAIN o = Pos /\ Range(o) = Pos

SortedByKey(o) == \A a, b \in DOMAIN o : a < b => key[o[a]] <= key[o[b]]

Init ==
  /\ nitems \in NItems
  /\ key \in [0 .. nitems - 1 -> Keys]
  /\ order = [k \in 0 .. nitems - 1 |-> k]
  /\ status = "running"

Finish ==
  /\ status = "running"
  /\ status' = "sorted"
  /\ order' \in [Pos -> Pos]
  /\ IsPermutation(order')
  /\ SortedByKey(order')
  /\ UNCHANGED <<nitems, key>>

Abort ==
  /\ status = "running"
  /\ status' = "error"
  /\ UNCHANGED <<nitems, key, order>>

Next == Abort \/ Finish

Spec == Init /\ [][Next]_vars /\ WF_vars(Next)

=============================================================================
