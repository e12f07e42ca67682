--------------------------- MODULE LockFreeQueue ---------------------------
(***************************************************************************)
(* The bounded multi-producer multi-consumer queue of packet_types.h, at   *)
(* the granularity of its atomic operations.  CaptureContext holds two of  *)
(* them: raw_queue (one producer, four consumers) and dissected_queue      *)
(* (four producers, one consumer).                                         *)
(*                                                                         *)
(* Every action is one access to shared memory: a load of a position, a    *)
(* load of a node's sequence, a compare-exchange, the copy of an element   *)
(* in or out of a node, a store of a node's sequence.  The accesses of     *)
(* different threads interleave freely.                                    *)
(***************************************************************************)
EXTENDS Integers, Sequences

CONSTANTS
  Capacity,    (* the number of nodes of buffer_                            *)
  Producers,   (* the threads that call push                                *)
  Consumers,   (* the threads that call pop                                 *)
  Values,      (* what is queued: RawPacket or PacketInfo records           *)
  NoValue,     (* the content of a node that was never written              *)
  MaxPush      (* bound: no call of push starts at position MaxPush         *)

(***************************************************************************)
(* The constructor is called with 8192.  With a single node the sequence   *)
(* of a published element would equal the next push position, so the       *)
(* protocol needs at least two.  A power of two makes pos & capacity_mask_ *)
(* the remainder modulo the capacity; every capacity the program passes is *)
(* one, and the model uses the remainder.                                  *)
(***************************************************************************)
ASSUME CapacityAssumption == Capacity \in Nat /\ Capacity >= 2
ASSUME ThreadsAssumption  == Producers \cap Consumers = {}
ASSUME ValuesAssumption   == NoValue \notin Values
ASSUME MaxPushAssumption  == MaxPush \in Nat

Threads == Producers \cup Consumers

VARIABLES
  enqueue_pos_,  \* the position the next push claims
  dequeue_pos_,  \* the position the next pop claims
  sequence,      \* sequence[i] : Node::sequence of buffer_[i]
  data,          \* data[i] : Node::data of buffer_[i]
  pc,            \* where each thread is in push or pop
  pos,           \* the local variable pos of each thread
  item,          \* the argument of push, or what pop has read
  pushed         \* history: the values in the order their positions were claimed

vars == <<enqueue_pos_, dequeue_pos_, sequence, data, pc, pos, item, pushed>>

Nodes == 0 .. Capacity - 1

(* The index of the node that position p uses. *)
Slot(p) == p % Capacity

PushStates == {"push_seq", "push_cas", "push_reload", "push_write", "push_publish"}
PopStates  == {"pop_seq", "pop_cas", "pop_reload", "pop_read", "pop_release"}

Goto(t, label) == pc' = [pc EXCEPT ![t] = label]

Init ==
  /\ enqueue_pos_ = 0
  /\ dequeue_pos_ = 0
  /\ sequence = [i \in Nodes |-> i]
  /\ data = [i \in Nodes |-> NoValue]
  /\ pc = [t \in Threads |-> "idle"]
  /\ pos = [t \in Threads |-> 0]
  /\ item = [t \in Threads |-> NoValue]
  /\ pushed = <<>>

-----------------------------------------------------------------------------
(* Faulty variants of push and pop, each with one slip in the protocol. *)

(* push takes a node that still holds an element. *)
PushIgnoresFull(t) ==
  /\ pc[t] = "push_seq"
  /\ Goto(t, IF sequence[Slot(pos[t])] <= pos[t] THEN "push_cas" ELSE "push_reload")
  /\ UNCHANGED <<enqueue_pos_, dequeue_pos_, sequence, data, pos, item, pushed>>

(* push gives up when its position is stale. *)
PushGivesUp(t) ==
  /\ pc[t] = "push_seq"
  /\ Goto(t, IF sequence[Slot(pos[t])] = pos[t] THEN "push_cas" ELSE "idle")
  /\ UNCHANGED <<enqueue_pos_, dequeue_pos_, sequence, data, pos, item, pushed>>

(* push publishes the node before the element is in it. *)
PushPublishesFirst(t) ==
  /\ pc[t] = "push_cas"
  /\ enqueue_pos_ = pos[t]
  /\ enqueue_pos_' = pos[t] + 1
  /\ sequence' = [sequence EXCEPT ![Slot(pos[t])] = pos[t] + 1]
  /\ pushed' = Append(pushed, item[t])
  /\ Goto(t, "push_write")
  /\ UNCHANGED <<dequeue_pos_, data, pos, item>>

(* A store in place of the compare-exchange. *)
PopStores(t) ==
  /\ pc[t] = "pop_cas"
  /\ dequeue_pos_' = pos[t] + 1
  /\ Goto(t, "pop_read")
  /\ UNCHANGED <<enqueue_pos_, sequence, data, pos, item, pushed>>

(* The node is released for the position before the right one. *)
PopReleasesMask(t) ==
  /\ pc[t] = "pop_release"
  /\ sequence' = [sequence EXCEPT ![Slot(pos[t])] = pos[t] + Capacity - 1]
  /\ Goto(t, "idle")
  /\ UNCHANGED <<enqueue_pos_, dequeue_pos_, data, pos, item, pushed>>

-----------------------------------------------------------------------------
(* push(data) *)

PushLoadPos(t, v) ==
  /\ pc[t] = "idle"
  /\ enqueue_pos_ < MaxPush
  /\ pos' = [pos EXCEPT ![t] = enqueue_pos_]
  /\ item' = [item EXCEPT ![t] = v]
  /\ Goto(t, "push_seq")
  /\ UNCHANGED <<enqueue_pos_, dequeue_pos_, sequence, data, pushed>>

(* diff = seq - pos decides: the node is free for this position, it still  *)
(* holds the element of the previous lap (return false), or pos is stale.  *)
PushLoadSeq(t) ==
  /\ pc[t] = "push_seq"
  /\ LET diff == sequence[Slot(pos[t])] - pos[t]
     IN Goto(t, CASE diff = 0 -> "push_cas"
                  [] diff < 0 -> "idle"
                  [] OTHER    -> "push_reload")
  /\ UNCHANGED <<enqueue_pos_, dequeue_pos_, sequence, data, pos, item, pushed>>

PushReload(t) ==
  /\ pc[t] = "push_reload"
  /\ pos' = [pos EXCEPT ![t] = enqueue_pos_]
  /\ Goto(t, "push_seq")
  /\ UNCHANGED <<enqueue_pos_, dequeue_pos_, sequence, data, item, pushed>>

PushCas(t) ==
  /\ pc[t] = "push_cas"
  /\ enqueue_pos_ = pos[t]
  /\ enqueue_pos_' = pos[t] + 1
  /\ pushed' = Append(pushed, item[t])
  /\ Goto(t, "push_write")
  /\ UNCHANGED <<dequeue_pos_, sequence, data, pos, item>>

(* A failed compare_exchange_weak stores the current position in pos.  It  *)
(* may also fail when the position is unchanged.                           *)
PushCasFails(t) ==
  /\ pc[t] = "push_cas"
  /\ pos' = [pos EXCEPT ![t] = enqueue_pos_]
  /\ Goto(t, "push_seq")
  /\ UNCHANGED <<enqueue_pos_, dequeue_pos_, sequence, data, item, pushed>>

PushWrite(t) ==
  /\ pc[t] = "push_write"
  /\ data' = [data EXCEPT ![Slot(pos[t])] = item[t]]
  /\ Goto(t, "push_publish")
  /\ UNCHANGED <<enqueue_pos_, dequeue_pos_, sequence, pos, item, pushed>>

PushPublish(t) ==
  /\ pc[t] = "push_publish"
  /\ sequence' = [sequence EXCEPT ![Slot(pos[t])] = pos[t] + 1]
  /\ Goto(t, "idle")
  /\ UNCHANGED <<enqueue_pos_, dequeue_pos_, data, pos, item, pushed>>

-----------------------------------------------------------------------------
(* pop(data) *)

PopLoadPos(t) ==
  /\ pc[t] = "idle"
  /\ pos' = [pos EXCEPT ![t] = dequeue_pos_]
  /\ Goto(t, "pop_seq")
  /\ UNCHANGED <<enqueue_pos_, dequeue_pos_, sequence, data, item, pushed>>

PopLoadSeq(t) ==
  /\ pc[t] = "pop_seq"
  /\ LET diff == sequence[Slot(pos[t])] - (pos[t] + 1)
     IN Goto(t, CASE diff = 0 -> "pop_cas"
                  [] diff < 0 -> "idle"
                  [] OTHER    -> "pop_reload")
  /\ UNCHANGED <<enqueue_pos_, dequeue_pos_, sequence, data, pos, item, pushed>>

PopReload(t) ==
  /\ pc[t] = "pop_reload"
  /\ pos' = [pos EXCEPT ![t] = dequeue_pos_]
  /\ Goto(t, "pop_seq")
  /\ UNCHANGED <<enqueue_pos_, dequeue_pos_, sequence, data, item, pushed>>

PopCas(t) ==
  /\ pc[t] = "pop_cas"
  /\ dequeue_pos_ = pos[t]
  /\ dequeue_pos_' = pos[t] + 1
  /\ Goto(t, "pop_read")
  /\ UNCHANGED <<enqueue_pos_, sequence, data, pos, item, pushed>>

PopCasFails(t) ==
  /\ pc[t] = "pop_cas"
  /\ pos' = [pos EXCEPT ![t] = dequeue_pos_]
  /\ Goto(t, "pop_seq")
  /\ UNCHANGED <<enqueue_pos_, dequeue_pos_, sequence, data, item, pushed>>

PopRead(t) ==
  /\ pc[t] = "pop_read"
  /\ item' = [item EXCEPT ![t] = data[Slot(pos[t])]]
  /\ Goto(t, "pop_release")
  /\ UNCHANGED <<enqueue_pos_, dequeue_pos_, sequence, data, pos, pushed>>

(* capacity_mask_ + 1 is the capacity. *)
PopRelease(t) ==
  /\ pc[t] = "pop_release"
  /\ sequence' = [sequence EXCEPT ![Slot(pos[t])] = pos[t] + Capacity]
  /\ Goto(t, "idle")
  /\ UNCHANGED <<enqueue_pos_, dequeue_pos_, data, pos, item, pushed>>

-----------------------------------------------------------------------------

PushStep(t) ==
  \/ \E v \in Values : PushLoadPos(t, v)
  \/ PushLoadSeq(t)
  \/ PushReload(t)
  \/ PushCas(t)
  \/ PushCasFails(t)
  \/ PushWrite(t)
  \/ PushPublish(t)

PopStep(t) ==
  \/ PopLoadPos(t)
  \/ PopLoadSeq(t)
  \/ PopReload(t)
  \/ PopCas(t)
  \/ PopCasFails(t)
  \/ PopRead(t)
  \/ PopRelease(t)

Next ==
  \/ \E t \in Producers : PushStep(t)
  \/ \E t \in Consumers : PopStep(t)

Spec == Init /\ [][Next]_vars

-----------------------------------------------------------------------------
(* Type correctness: positions and sequences are naturals, and a producer  *)
(* is never in pop nor a consumer in push.                                 *)
TypeOK ==
  /\ enqueue_pos_ \in Nat
  /\ dequeue_pos_ \in Nat
  /\ sequence \in [Nodes -> Nat]
  /\ data \in [Nodes -> Values \cup {NoValue}]
  /\ pc \in [Threads -> {"idle"} \cup PushStates \cup PopStates]
  /\ \A t \in Producers : pc[t] \in {"idle"} \cup PushStates
  /\ \A t \in Consumers : pc[t] \in {"idle"} \cup PopStates
  /\ pos \in [Threads -> Nat]
  /\ item \in [Threads -> Values \cup {NoValue}]
  /\ \A t \in Producers : pc[t] # "idle" => item[t] \in Values
  /\ pushed \in Seq(Values)

(* A thread that has won its compare-exchange and not yet stored the       *)
(* node's sequence.                                                        *)
Writing(t) == pc[t] \in {"push_write", "push_publish"}
Reading(t) == pc[t] \in {"pop_read", "pop_release"}
Owns(t)    == Writing(t) \/ Reading(t)

(* Between its compare-exchange and its store of the node's sequence a     *)
(* thread is alone on the node: node.data, which is not atomic, is never   *)
(* written by push while another push or a pop accesses it.                *)
ExclusiveNode ==
  \A t, u \in Threads : t # u /\ Owns(t) /\ Owns(u) => Slot(pos[t]) # Slot(pos[u])

(* What pop copies out is what the push that claimed the same position     *)
(* copied in: no element is lost, duplicated, torn between two pushes or   *)
(* handed out of order, however the two operations overlap with others.    *)
PopReturnsItsPush ==
  \A t \in Consumers :
    pc[t] = "pop_release" => /\ pos[t] < Len(pushed)
                             /\ item[t] = pushed[pos[t] + 1]

(* Claimed and not yet popped positions never exceed the capacity, and pop *)
(* never runs ahead of push.                                               *)
Bounded ==
  /\ dequeue_pos_ <= enqueue_pos_
  /\ enqueue_pos_ <= dequeue_pos_ + Capacity

-----------------------------------------------------------------------------
(***************************************************************************)
(* The inductive invariant.  The Capacity positions from dequeue_pos_ on   *)
(* use each node once.  One that is claimed has a published node or a      *)
(* producer at work on it; one that is not has a free node or a consumer   *)
(* at work on the element one lap earlier.                                 *)
(***************************************************************************)
WindowInv ==
  \A k \in dequeue_pos_ .. dequeue_pos_ + Capacity - 1 :
    IF k < enqueue_pos_
    THEN \/ sequence[Slot(k)] = k + 1
         \/ /\ sequence[Slot(k)] = k
            /\ \E p \in Producers : Writing(p) /\ pos[p] = k
    ELSE \/ sequence[Slot(k)] = k
         \/ /\ sequence[Slot(k)] = k + 1 - Capacity
            /\ \E c \in Consumers : Reading(c) /\ pos[c] = k - Capacity

(* A producer at work on a node has it at its own position. *)
WriterInv ==
  \A p \in Producers : Writing(p) =>
    /\ dequeue_pos_ <= pos[p] /\ pos[p] < enqueue_pos_
    /\ sequence[Slot(pos[p])] = pos[p]
    /\ item[p] = pushed[pos[p] + 1]
    /\ pc[p] = "push_publish" => data[Slot(pos[p])] = item[p]

(* A consumer at work on a node has it published at its own position. *)
ReaderInv ==
  \A c \in Consumers : Reading(c) =>
    /\ pos[c] < dequeue_pos_ /\ enqueue_pos_ <= pos[c] + Capacity
    /\ sequence[Slot(pos[c])] = pos[c] + 1
    /\ pc[c] = "pop_read" => data[Slot(pos[c])] = pushed[pos[c] + 1]
    /\ pc[c] = "pop_release" => item[c] = pushed[pos[c] + 1]

(* No two threads of one role work on the same position. *)
OwnersDiffer ==
  /\ \A p, q \in Producers : p # q /\ Writing(p) /\ Writing(q) => pos[p] # pos[q]
  /\ \A c, d \in Consumers : c # d /\ Reading(c) /\ Reading(d) => pos[c] # pos[d]

(* What a thread learnt from the node's sequence still holds if its        *)
(* compare-exchange can succeed: positions only grow.                      *)
CasInv ==
  /\ \A p \in Producers : pos[p] <= enqueue_pos_
  /\ \A c \in Consumers : pos[c] <= dequeue_pos_
  /\ \A p \in Producers : pc[p] = "push_cas" /\ pos[p] = enqueue_pos_ =>
       sequence[Slot(pos[p])] = pos[p]
  /\ \A c \in Consumers : pc[c] = "pop_cas" /\ pos[c] = dequeue_pos_ =>
       sequence[Slot(pos[c])] = pos[c] + 1

(* A published node holds the value pushed at its position. *)
DataInv ==
  /\ Len(pushed) = enqueue_pos_
  /\ \A k \in dequeue_pos_ .. enqueue_pos_ - 1 :
       sequence[Slot(k)] = k + 1 => data[Slot(k)] = pushed[k + 1]

IInv ==
  /\ TypeOK
  /\ Bounded
  /\ WindowInv
  /\ WriterInv
  /\ ReaderInv
  /\ OwnersDiffer
  /\ CasInv
  /\ DataInv

-----------------------------------------------------------------------------
(***************************************************************************)
(* Refinement.  A ticket is claimed and taken by the compare-exchanges;    *)
(* position p is ticket p + 1.  What a pop will copy out is fixed when it  *)
(* takes its ticket, so the later copy must not change it.                 *)
(***************************************************************************)
Held  == [t \in Threads |-> IF Owns(t) THEN pos[t] + 1 ELSE 0]
Taken == [c \in Consumers |-> IF pc[c] = "pop_read" THEN pushed[pos[c] + 1] ELSE item[c]]

TQ == INSTANCE TicketQueue WITH
        items <- pushed, head <- dequeue_pos_, hold <- Held, got <- Taken

(* Every step of push and pop is a step of TicketQueue or changes nothing  *)
(* a caller can see.                                                       *)
ImplementsTicketQueue == TQ!Spec

(* push returns false only when the queue is full or the pop of the        *)
(* element one lap earlier has taken its node and not released it; pop     *)
(* returns false only when nothing is claimed beyond its position or the   *)
(* push that claimed that position has not published, even though the      *)
(* position either works with may be stale by then.                        *)
HonestFailure ==
  [][/\ \A t \in Producers : pc[t] = "push_seq" /\ pc'[t] = "idle" => ~TQ!HasRoom
     /\ \A t \in Consumers : pc[t] = "pop_seq" /\ pc'[t] = "idle" => ~TQ!HasReady]_vars
=============================================================================
