-------------------------- MODULE BoundedHistory --------------------------
(***************************************************************************)
(* What the dashboard's packet history promises: the last Size packets     *)
(* added since it was cleared, in the order they were added.               *)
(***************************************************************************)
EXTENDS Integers, Sequences

CONSTANTS Size, Values

VARIABLE items

Init == items = <<>>

Add(v) ==
  items' = Append(IF Len(items) < Size THEN items ELSE Tail(items), v)

Clear == items' = <<>>

Update(f) == items' = [i \in DOMAIN items |-> f[items[i]]]

Next ==
  \/ \E v \in Values : Add(v)
  \/ Clear
  \/ \E f \in [Values -> Values] : Update(f)

Spec == Init /\ [][Next]_items
=============================================================================
