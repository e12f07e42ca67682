---------------------------- MODULE HistoryRing ----------------------------
(***************************************************************************)
(* RingBuffer of the Go dashboard: the packet history behind /api/packets  *)
(* and /api/export.  Every method holds the buffer's lock for its whole    *)
(* body, so each is one action.                                            *)
(***************************************************************************)
EXTENDS Integers, Sequences

CONSTANTS
  Size,     (* NewRingBuffer(5000)                                          *)
  Values,   (* packets                                                      *)
  Zero      (* the zero value of an element never written                   *)

ASSUME SizeAssumption == Size \in Nat \ {0}
ASSUME ZeroAssumption == Zero \notin Values

VARIABLES data, head, count

vars == <<data, head, count>>

Slots == 0 .. Size - 1

Init ==
  /\ data = [i \in Slots |-> Zero]
  /\ head = 0
  /\ count = 0

(* Faulty variants: a Clear that forgets head, a newest-first read that    *)
(* starts at the slot to be written next, a read that always starts at 0.  *)
ClearKeepsHead ==
  /\ count' = 0
  /\ UNCHANGED <<data, head>>

ReversedFromHead(i) == (head - i + Size) % Size

StartAtZero == 0

Add(v) ==
  /\ data' = [data EXCEPT ![head] = v]
  /\ head' = (head + 1) % Size
  /\ count' = IF count < Size THEN count + 1 ELSE count

(* The elements stay where they are. *)
Clear ==
  /\ head' = 0
  /\ count' = 0
  /\ UNCHANGED data

(* The callback sees the first count slots, in the order of the slots. *)
Update(f) ==
  /\ data' = [i \in Slots |-> IF i < count THEN f[data[i]] ELSE data[i]]
  /\ UNCHANGED <<head, count>>

(* The slot of the i-th element (from 0), oldest first or newest first. *)
Start == IF count = Size THEN head ELSE 0
ForwardSlot(i)  == (Start + i) % Size
ReversedSlot(i) == (head - 1 - i + Size) % Size

GetAll(reversed) ==
  [i \in 1 .. count |-> data[IF reversed THEN ReversedSlot(i - 1) ELSE ForwardSlot(i - 1)]]

Next ==
  \/ \E v \in Values : Add(v)
  \/ Clear
  \/ \E f \in [Values -> Values] : Update(f)

Spec == Init /\ [][Next]_vars

-----------------------------------------------------------------------------
(* Types. *)
TypeOK ==
  /\ data \in [Slots -> Values \cup {Zero}]
  /\ head \in Slots
  /\ count \in 0 .. Size

(* Until the ring is full its elements are the slots below head, which is  *)
(* what Update and GetAll(false) rely on when they start from slot 0; and  *)
(* no element they visit was never written.                                *)
RingInv ==
  /\ TypeOK
  /\ count < Size => head = count
  /\ \A i \in Slots : i < count => data[i] \in Values

(* /api/packets, which reads newest first, and /api/export, which reads    *)
(* oldest first, show the same packets in opposite orders.                 *)
OrdersAgree ==
  \A i \in 1 .. count : GetAll(TRUE)[i] = GetAll(FALSE)[count + 1 - i]

History == INSTANCE BoundedHistory WITH items <- GetAll(FALSE)

(* The ring is the last Size packets since the last Clear: nothing older   *)
(* reappears after Clear or after head has wrapped, and an Update reaches  *)
(* every packet the history holds and no other.                            *)
ImplementsHistory == History!Spec
=============================================================================
