---------------------------- MODULE TicketQueue ----------------------------
(***************************************************************************)
(* What LockFreeQueue promises its callers.  A push claims the next        *)
(* ticket, and the element becomes visible when the push completes; a pop  *)
(* takes the oldest ticket, if its push has completed, and the node is     *)
(* free again when the pop completes.  Elements leave in ticket order.     *)
(*                                                                         *)
(* The queue is not a linearizable bounded FIFO: a push that has claimed   *)
(* its ticket and not completed hides every later element from pop, and a  *)
(* pop that has not completed makes push fail although fewer than Capacity *)
(* elements are waiting.  Callers must live with both.                     *)
(***************************************************************************)
EXTENDS Integers, Sequences

CONSTANTS Capacity, Producers, Consumers, Values, NoValue

VARIABLES
  items,  \* the elements in ticket order; ticket k is items[k]
  head,   \* the number of tickets pops have taken
  hold,   \* hold[t] : the ticket thread t is working on, 0 if none
  got     \* got[c] : what consumer c took last

tqvars == <<items, head, hold, got>>

Init ==
  /\ items = <<>>
  /\ head = 0
  /\ hold = [t \in Producers \cup Consumers |-> 0]
  /\ got = [c \in Consumers |-> NoValue]

(* Ticket k can be claimed once the element one lap earlier has left. *)
HasRoom ==
  LET earlier == Len(items) + 1 - Capacity
  IN /\ earlier <= head
     /\ earlier > 0 => \A c \in Consumers : hold[c] # earlier

(* The oldest element is there and its push has completed. *)
HasReady ==
  /\ head < Len(items)
  /\ \A p \in Producers : hold[p] # head + 1

Claim(p, v) ==
  /\ hold[p] = 0
  /\ HasRoom
  /\ items' = Append(items, v)
  /\ hold' = [hold EXCEPT ![p] = Len(items) + 1]
  /\ UNCHANGED <<head, got>>

Publish(p) ==
  /\ hold[p] # 0
  /\ hold' = [hold EXCEPT ![p] = 0]
  /\ UNCHANGED <<items, head, got>>

Take(c) ==
  /\ hold[c] = 0
  /\ HasReady
  /\ head' = head + 1
  /\ hold' = [hold EXCEPT ![c] = head + 1]
  /\ got' = [got EXCEPT ![c] = items[head + 1]]
  /\ UNCHANGED items

Release(c) ==
  /\ hold[c] # 0
  /\ hold' = [hold EXCEPT ![c] = 0]
  /\ UNCHANGED <<items, head, got>>

Next ==
  \/ \E p \in Producers : (\E v \in Values : Claim(p, v)) \/ Publish(p)
  \/ \E c \in Consumers : Take(c) \/ Release(c)

Spec == Init /\ [][Next]_tqvars
=============================================================================
