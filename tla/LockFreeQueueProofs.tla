------------------------ MODULE LockFreeQueueProofs ------------------------
(***************************************************************************)
(* push and pop of packet_types.h are correct for every capacity of at     *)
(* least two, every number of threads and every interleaving.  The window  *)
(* of Capacity positions from dequeue_pos_ on maps one to one to the nodes *)
(* (SlotInjective), so an access to one node concerns one position only.   *)
(***************************************************************************)
EXTENDS LockFreeQueue, TLAPS

-----------------------------------------------------------------------------
(* The remainder as an index into the nodes. *)

(* Two different multiples of n are at least n apart. *)
LEMMA MultiplesApart ==
  ASSUME NEW n \in Nat, NEW a \in Int, NEW b \in Int, a < b
  PROVE  n * a + n <= n * b
<1>1. \A j, k \in Nat : j * k \in Nat
  OBVIOUS
<1>2. n * (b - a - 1) \in Nat
  BY <1>1
<1>3. n * (b - a - 1) = n * b - n * a - n
  OBVIOUS
<1> QED BY <1>2, <1>3

(* A number is a number of whole laps plus its remainder. *)
LEMMA ModDivision ==
  ASSUME NEW n \in Nat \ {0}, NEW x \in Nat
  PROVE  /\ x % n \in 0 .. n - 1
         /\ \E a \in Int : x = n * a + (x % n)
<1>1. x \div n \in Int /\ x = n * (x \div n) + (x % n) /\ x % n \in 0 .. n - 1
  OBVIOUS
<1> QED BY <1>1

(* Whatever is left after whole laps, and less than a lap, is the          *)
(* remainder.                                                              *)
LEMMA ModUnique ==
  ASSUME NEW n \in Nat \ {0}, NEW x \in Nat, NEW a \in Int, NEW r \in 0 .. n - 1,
         x = n * a + r
  PROVE  x % n = r
<1>1. PICK b \in Int : x = n * b + (x % n)
  BY ModDivision
<1>2. x % n \in 0 .. n - 1 /\ n * a \in Int /\ n * b \in Int
  BY ModDivision
<1>3. ~(a < b) /\ ~(b < a)
  BY <1>1, <1>2, MultiplesApart
<1>4. a = b
  BY <1>3
<1> QED BY <1>1, <1>2, <1>4

(* An index that runs past the end by less than a lap continues at the     *)
(* start.                                                                  *)
LEMMA ModWrap ==
  ASSUME NEW n \in Nat \ {0}, NEW x \in 0 .. 2 * n - 1
  PROVE  x % n = IF x < n THEN x ELSE x - n
<1>1. n * 0 = 0 /\ n * 1 = n
  OBVIOUS
<1>2. CASE x < n
  <2>1. x \in Nat /\ x \in 0 .. n - 1 /\ x = n * 0 + x
    BY <1>1, <1>2
  <2>2. x % n = x
    BY <2>1, ModUnique
  <2> QED BY <1>2, <2>2
<1>3. CASE ~(x < n)
  <2>1. x \in Nat /\ x - n \in 0 .. n - 1 /\ x = n * 1 + (x - n)
    BY <1>1, <1>3
  <2>2. x % n = x - n
    BY <2>1, ModUnique
  <2> QED BY <1>3, <2>2
<1> QED BY <1>2, <1>3

-----------------------------------------------------------------------------
(* pos & capacity_mask_ is an index of buffer_. *)
LEMMA SlotType == \A p \in Nat : Slot(p) \in Nodes
  BY CapacityAssumption DEF Slot, Nodes

(* A position is a number of whole laps plus the index of its node. *)
LEMMA SlotDivision ==
  ASSUME NEW p \in Nat
  PROVE  \E a \in Int : p = Capacity * a + Slot(p)
<1>1. Capacity \in Nat \ {0}
  BY CapacityAssumption
<1> QED BY <1>1, ModDivision DEF Slot

(* Positions less than a lap apart that share a node are equal. *)
LEMMA SlotInjective ==
  ASSUME NEW p \in Nat, NEW q \in Nat,
         Slot(p) = Slot(q), p < q + Capacity, q < p + Capacity
  PROVE  p = q
<1>1. PICK a \in Int : p = Capacity * a + Slot(p)
  BY SlotDivision
<1>2. PICK b \in Int : q = Capacity * b + Slot(p)
  BY SlotDivision
<1>3. ~(a < b) /\ ~(b < a)
  BY <1>1, <1>2, MultiplesApart, CapacityAssumption, SlotType DEF Nodes
<1> QED BY <1>1, <1>2, <1>3

(* A position and the one a lap later share a node. *)
LEMMA SlotNextLap ==
  ASSUME NEW p \in Nat
  PROVE  Slot(p + Capacity) = Slot(p)
<1>1. PICK a \in Int : p = Capacity * a + Slot(p)
  BY SlotDivision
<1>2. PICK b \in Int : p + Capacity = Capacity * b + Slot(p + Capacity)
  BY SlotDivision, CapacityAssumption
<1>3. Capacity * (a + 1) = Capacity * a + Capacity
  BY CapacityAssumption
<1>4. Slot(p) \in Nodes /\ Slot(p + Capacity) \in Nodes
  BY SlotType, CapacityAssumption
<1>5. ~(a + 1 < b) /\ ~(b < a + 1)
  BY <1>1, <1>2, <1>3, <1>4, MultiplesApart, CapacityAssumption DEF Nodes
<1>6. b = a + 1
  BY <1>5
<1> QED BY <1>1, <1>2, <1>3, <1>4, <1>6, CapacityAssumption DEF Nodes

-----------------------------------------------------------------------------

(* The types of the variables are preserved by every access to memory. *)
LEMMA TypeStep == TypeOK /\ [Next]_vars => TypeOK'
<1> SUFFICES ASSUME TypeOK, [Next]_vars PROVE TypeOK'
  OBVIOUS
<1> USE ThreadsAssumption, CapacityAssumption
    DEF TypeOK, Threads, Goto, PushStates, PopStates
<1>1. ASSUME NEW t \in Producers, NEW v \in Values, PushLoadPos(t, v) PROVE TypeOK'
  BY <1>1 DEF PushLoadPos
<1>2. ASSUME NEW t \in Producers, PushLoadSeq(t) PROVE TypeOK'
  BY <1>2 DEF PushLoadSeq
<1>3. ASSUME NEW t \in Producers, PushReload(t) PROVE TypeOK'
  BY <1>3 DEF PushReload
<1>4. ASSUME NEW t \in Producers, PushCas(t) PROVE TypeOK'
  BY <1>4 DEF PushCas
<1>5. ASSUME NEW t \in Producers, PushCasFails(t) PROVE TypeOK'
  BY <1>5 DEF PushCasFails
<1>6. ASSUME NEW t \in Producers, PushWrite(t) PROVE TypeOK'
  BY <1>6 DEF PushWrite
<1>7. ASSUME NEW t \in Producers, PushPublish(t) PROVE TypeOK'
  <2>1. pos[t] + 1 \in Nat
    OBVIOUS
  <2>2. sequence' \in [Nodes -> Nat]
    BY <1>7, <2>1 DEF PushPublish
  <2> QED BY <1>7, <2>2 DEF PushPublish
<1>8. ASSUME NEW t \in Consumers, PopLoadPos(t) PROVE TypeOK'
  BY <1>8 DEF PopLoadPos
<1>9. ASSUME NEW t \in Consumers, PopLoadSeq(t) PROVE TypeOK'
  BY <1>9 DEF PopLoadSeq
<1>10. ASSUME NEW t \in Consumers, PopReload(t) PROVE TypeOK'
  BY <1>10 DEF PopReload
<1>11. ASSUME NEW t \in Consumers, PopCas(t) PROVE TypeOK'
  BY <1>11 DEF PopCas
<1>12. ASSUME NEW t \in Consumers, PopCasFails(t) PROVE TypeOK'
  BY <1>12 DEF PopCasFails
<1>13. ASSUME NEW t \in Consumers, PopRead(t) PROVE TypeOK'
  BY <1>13, SlotType DEF PopRead
<1>14. ASSUME NEW t \in Consumers, PopRelease(t) PROVE TypeOK'
  <2>1. pos[t] + Capacity \in Nat
    OBVIOUS
  <2>2. sequence' \in [Nodes -> Nat]
    BY <1>14, <2>1 DEF PopRelease
  <2> QED BY <1>14, <2>2 DEF PopRelease
<1>15. CASE UNCHANGED vars
  BY <1>15 DEF vars
<1> QED
  BY <1>1, <1>2, <1>3, <1>4, <1>5, <1>6, <1>7, <1>8, <1>9, <1>10, <1>11, <1>12,
     <1>13, <1>14, <1>15 DEF Next, PushStep, PopStep

-----------------------------------------------------------------------------

(* The constructor establishes the inductive invariant. *)
LEMMA InvInit == Init => IInv
<1> SUFFICES ASSUME Init PROVE IInv
  OBVIOUS
<1> USE CapacityAssumption, ThreadsAssumption
<1>1. TypeOK
  BY DEF Init, TypeOK, Threads, Nodes, PushStates, PopStates
<1>2. Bounded
  BY DEF Init, Bounded
<1>3. WindowInv
  <2>1. ASSUME NEW k \in Nodes PROVE Slot(k) = k
    <3>1. k \in 0 .. 2 * Capacity - 1 /\ k < Capacity
      BY DEF Nodes
    <3> QED BY <3>1, ModWrap DEF Slot
  <2>2. \A k \in Nodes : k \in Nat /\ sequence[Slot(k)] = k
    BY <2>1 DEF Init, Nodes
  <2>3. dequeue_pos_ .. dequeue_pos_ + Capacity - 1 = Nodes
    <3>1. dequeue_pos_ = 0 /\ 0 + Capacity - 1 = Capacity - 1
      BY DEF Init
    <3> QED BY <3>1 DEF Nodes
  <2>4. \A k \in Nodes : ~(k < enqueue_pos_)
    <3>1. enqueue_pos_ = 0
      BY DEF Init
    <3> QED BY <2>2, <3>1
  <2> QED BY <2>2, <2>3, <2>4 DEF WindowInv
<1>4. WriterInv /\ ReaderInv /\ OwnersDiffer
  BY DEF Init, WriterInv, ReaderInv, OwnersDiffer, Writing, Reading, Threads
<1>5. CasInv
  BY DEF Init, CasInv, Threads
<1>6. DataInv
  BY DEF Init, DataInv
<1> QED BY <1>1, <1>2, <1>3, <1>4, <1>5, <1>6 DEF IInv

(* A thread that owns no node and touches no shared variable disturbs      *)
(* nothing, if what it has just learnt is true.                            *)
LEMMA QuietStep ==
  ASSUME IInv, TypeOK',
         UNCHANGED <<enqueue_pos_, dequeue_pos_, sequence, data, pushed>>,
         NEW t \in Threads, ~Owns(t), ~Owns(t)',
         \A u \in Threads : u # t => /\ pc'[u] = pc[u]
                                     /\ pos'[u] = pos[u]
                                     /\ item'[u] = item[u],
         t \in Producers =>
           /\ pos'[t] <= enqueue_pos_
           /\ pc'[t] = "push_cas" => sequence[Slot(pos'[t])] = pos'[t],
         t \in Consumers =>
           /\ pos'[t] <= dequeue_pos_
           /\ pc'[t] = "pop_cas" => sequence[Slot(pos'[t])] = pos'[t] + 1
  PROVE  IInv'
<1> USE DEF Threads
<1>1. \A u \in Threads : /\ Writing(u)' <=> Writing(u)
                         /\ Reading(u)' <=> Reading(u)
                         /\ Owns(u) => u # t
  BY DEF Owns, Writing, Reading
<1>2. Bounded'
  BY DEF IInv, Bounded
<1>3. WindowInv'
  BY <1>1 DEF IInv, WindowInv, Owns
<1>4. WriterInv'
  BY <1>1 DEF IInv, WriterInv, Owns
<1>5. ReaderInv'
  BY <1>1 DEF IInv, ReaderInv, Owns
<1>6. OwnersDiffer'
  BY <1>1 DEF IInv, OwnersDiffer, Owns
<1>7. CasInv'
  BY DEF IInv, CasInv
<1>8. DataInv'
  BY DEF IInv, DataInv
<1> QED BY <1>2, <1>3, <1>4, <1>5, <1>6, <1>7, <1>8 DEF IInv

-----------------------------------------------------------------------------

(* The nodes of the Capacity positions from dequeue_pos_ on are distinct. *)
LEMMA WindowSlots ==
  ASSUME IInv, NEW j \in Nat, NEW k \in Nat, Slot(j) = Slot(k),
         dequeue_pos_ <= j, j < dequeue_pos_ + Capacity,
         dequeue_pos_ <= k, k < dequeue_pos_ + Capacity
  PROVE  j = k
<1>1. j < k + Capacity /\ k < j + Capacity
  BY CapacityAssumption DEF IInv, TypeOK
<1> QED BY <1>1, SlotInjective

(* A node is never read for one position and written for another. *)
LEMMA WriterReaderApart ==
  ASSUME IInv, NEW p \in Producers, Writing(p), NEW c \in Consumers, Reading(c)
  PROVE  Slot(pos[p]) # Slot(pos[c])
<1>1. pos[p] \in Nat /\ pos[c] \in Nat /\ dequeue_pos_ \in Nat
  BY DEF IInv, TypeOK, Threads
<1>2. pos[c] < pos[p] /\ sequence[Slot(pos[p])] = pos[p] /\ sequence[Slot(pos[c])] = pos[c] + 1
  BY <1>1 DEF IInv, WriterInv, ReaderInv
<1>3. ASSUME Slot(pos[p]) = Slot(pos[c]) PROVE FALSE
  <2>1. pos[p] = pos[c] + 1
    BY <1>2, <1>3
  <2>2. pos[p] = pos[c]
    BY <1>1, <1>3, <2>1, SlotInjective, CapacityAssumption
  <2> QED BY <1>1, <2>1, <2>2
<1> QED BY <1>3

(* Two producers never write to the same node. *)
LEMMA WritersApart ==
  ASSUME IInv, NEW p \in Producers, Writing(p), NEW q \in Producers, Writing(q), p # q
  PROVE  Slot(pos[p]) # Slot(pos[q])
<1>1. pos[p] \in Nat /\ pos[q] \in Nat /\ dequeue_pos_ \in Nat /\ enqueue_pos_ \in Nat
  BY DEF IInv, TypeOK, Threads
<1>2. /\ dequeue_pos_ <= pos[p] /\ pos[p] < dequeue_pos_ + Capacity
      /\ dequeue_pos_ <= pos[q] /\ pos[q] < dequeue_pos_ + Capacity
  BY <1>1, CapacityAssumption DEF IInv, WriterInv, Bounded
<1>3. pos[p] # pos[q]
  BY DEF IInv, OwnersDiffer
<1> QED BY <1>1, <1>2, <1>3, WindowSlots

(* Two consumers never read the same node. *)
LEMMA ReadersApart ==
  ASSUME IInv, NEW c \in Consumers, Reading(c), NEW d \in Consumers, Reading(d), c # d
  PROVE  Slot(pos[c]) # Slot(pos[d])
<1>1. pos[c] \in Nat /\ pos[d] \in Nat /\ dequeue_pos_ \in Nat /\ enqueue_pos_ \in Nat
  BY DEF IInv, TypeOK, Threads
<1>2. pos[c] < pos[d] + Capacity /\ pos[d] < pos[c] + Capacity
  BY <1>1, CapacityAssumption DEF IInv, ReaderInv, Bounded
<1>3. pos[c] # pos[d]
  BY DEF IInv, OwnersDiffer
<1> QED BY <1>1, <1>2, <1>3, SlotInjective

(* Claiming a position: the node is free, so a lap is never overtaken. *)
LEMMA PushCasInv ==
  ASSUME IInv, TypeOK', NEW t \in Producers, PushCas(t) PROVE IInv'
<1> USE CapacityAssumption, ThreadsAssumption
<1> DEFINE e == enqueue_pos_
           d == dequeue_pos_
<1>1. /\ e \in Nat /\ d \in Nat /\ pos[t] = e /\ e' = e + 1
      /\ sequence[Slot(e)] = e /\ Len(pushed) = e
      /\ UNCHANGED <<dequeue_pos_, sequence, data, pos, item>>
  BY DEF IInv, TypeOK, PushCas, CasInv, DataInv
<1>2. /\ ~Owns(t) /\ Writing(t)' /\ pc'[t] = "push_write"
      /\ \A u \in Threads : u # t => pc'[u] = pc[u]
      /\ \A u \in Threads \ {t} : /\ Writing(u)' <=> Writing(u)
                                  /\ Reading(u)' <=> Reading(u)
      /\ ~Reading(t)'
  BY DEF IInv, TypeOK, PushCas, Owns, Writing, Reading, Goto, Threads
<1>3. /\ pushed' \in Seq(Values) /\ Len(pushed') = e + 1
      /\ pushed'[e + 1] = item[t]
      /\ \A k \in Nat : k < e => pushed'[k + 1] = pushed[k + 1]
  <2>1. pushed \in Seq(Values) /\ item[t] \in Values /\ pushed' = Append(pushed, item[t])
    BY DEF IInv, TypeOK, PushCas
  <2> QED BY <1>1, <2>1
<1>4. e < d + Capacity
  <2> SUFFICES ASSUME e = d + Capacity PROVE FALSE
    BY <1>1 DEF IInv, Bounded
  <2>1. Slot(e) = Slot(d)
    BY <1>1, SlotNextLap
  <2>2. sequence[Slot(d)] = d + 1 \/ sequence[Slot(d)] = d
    BY <1>1 DEF IInv, WindowInv
  <2> QED BY <1>1, <2>1, <2>2
<1>5. Bounded'
  BY <1>1, <1>4 DEF IInv, Bounded
<1>6. WindowInv'
  <2> SUFFICES ASSUME NEW k \in d .. d + Capacity - 1
               PROVE  IF k < e + 1
                      THEN \/ sequence[Slot(k)] = k + 1
                           \/ /\ sequence[Slot(k)] = k
                              /\ \E p \in Producers : Writing(p)' /\ pos[p] = k
                      ELSE \/ sequence[Slot(k)] = k
                           \/ /\ sequence[Slot(k)] = k + 1 - Capacity
                              /\ \E c \in Consumers : Reading(c)' /\ pos[c] = k - Capacity
    BY <1>1 DEF WindowInv
  <2>1. k \in Nat
    BY <1>1
  <2>2. CASE k < e
    <3>1. \A p \in Producers : Writing(p) => Writing(p)'
      BY <1>2 DEF Threads
    <3> QED BY <1>1, <2>1, <2>2, <3>1 DEF IInv, WindowInv
  <2>3. CASE k = e
    BY <1>1, <1>2, <2>3
  <2>4. CASE k > e
    <3>1. \A c \in Consumers : Reading(c) => Reading(c)'
      BY <1>2 DEF Threads
    <3> QED BY <1>1, <2>1, <2>4, <3>1 DEF IInv, WindowInv
  <2> QED BY <1>1, <2>1, <2>2, <2>3, <2>4
<1>7. WriterInv'
  <2> SUFFICES ASSUME NEW p \in Producers, Writing(p)'
               PROVE  /\ d <= pos[p] /\ pos[p] < e + 1
                      /\ sequence[Slot(pos[p])] = pos[p]
                      /\ item[p] = pushed'[pos[p] + 1]
                      /\ pc'[p] = "push_publish" => data[Slot(pos[p])] = item[p]
    BY <1>1 DEF WriterInv
  <2>1. CASE p = t
    BY <1>1, <1>2, <1>3, <2>1 DEF IInv, Bounded
  <2>2. CASE p # t
    <3>1. Writing(p) /\ pc'[p] = pc[p] /\ pos[p] \in Nat
      BY <1>2, <2>2 DEF Threads, IInv, TypeOK
    <3> QED BY <1>1, <1>3, <3>1 DEF IInv, WriterInv
  <2> QED BY <2>1, <2>2
<1>8. ReaderInv'
  <2> SUFFICES ASSUME NEW c \in Consumers, Reading(c)'
               PROVE  /\ pos[c] < d /\ e + 1 <= pos[c] + Capacity
                      /\ sequence[Slot(pos[c])] = pos[c] + 1
                      /\ pc'[c] = "pop_read" => data[Slot(pos[c])] = pushed'[pos[c] + 1]
                      /\ pc'[c] = "pop_release" => item[c] = pushed'[pos[c] + 1]
    BY <1>1 DEF ReaderInv
  <2>1. Reading(c) /\ pc'[c] = pc[c] /\ pos[c] \in Nat
    BY <1>2 DEF Threads, IInv, TypeOK
  <2>2. /\ pos[c] < d /\ e <= pos[c] + Capacity
        /\ sequence[Slot(pos[c])] = pos[c] + 1 /\ d <= e
    BY <1>1, <2>1 DEF IInv, ReaderInv, Bounded
  <2>3. e # pos[c] + Capacity
    <3> SUFFICES ASSUME e = pos[c] + Capacity PROVE FALSE
      OBVIOUS
    <3>1. Slot(e) = Slot(pos[c])
      BY <2>1, SlotNextLap
    <3> QED BY <1>1, <2>1, <2>2, <3>1
  <2>4. pushed'[pos[c] + 1] = pushed[pos[c] + 1]
    BY <1>1, <1>3, <2>1, <2>2
  <2> QED BY <1>1, <2>1, <2>2, <2>3, <2>4 DEF IInv, ReaderInv
<1>9. OwnersDiffer'
  <2>1. \A p \in Producers : Writing(p) => pos[p] < e
    BY DEF IInv, WriterInv
  <2>2. \A p, q \in Producers : p # q /\ Writing(p)' /\ Writing(q)' => pos[p] # pos[q]
    BY <1>1, <1>2, <2>1 DEF IInv, OwnersDiffer, Threads
  <2>3. \A p, q \in Consumers : p # q /\ Reading(p)' /\ Reading(q)' => pos[p] # pos[q]
    BY <1>2 DEF IInv, OwnersDiffer, Threads
  <2> QED BY <1>1, <2>2, <2>3 DEF OwnersDiffer
<1>10. CasInv'
  <2>1. \A p \in Producers : pos[p] \in Nat /\ pos[p] <= e
    BY DEF IInv, TypeOK, CasInv, Threads
  <2>2. \A p \in Producers : pos[p] <= e + 1 /\ pos[p] # e + 1
    BY <1>1, <2>1
  <2>3. \A c \in Consumers : pc'[c] = pc[c]
    BY <1>2 DEF Threads
  <2> QED BY <1>1, <2>2, <2>3 DEF IInv, CasInv
<1>11. DataInv'
  <2> SUFFICES ASSUME NEW k \in d .. e, sequence[Slot(k)] = k + 1
               PROVE  data[Slot(k)] = pushed'[k + 1]
    BY <1>1, <1>3 DEF DataInv
  <2>1. k \in Nat /\ k < e
    BY <1>1
  <2> QED BY <1>1, <1>3, <2>1 DEF IInv, DataInv
<1> QED BY <1>5, <1>6, <1>7, <1>8, <1>9, <1>10, <1>11 DEF IInv

(* Copying the element in disturbs no node another thread relies on. *)
LEMMA PushWriteInv ==
  ASSUME IInv, TypeOK', NEW t \in Producers, PushWrite(t) PROVE IInv'
<1> USE CapacityAssumption, ThreadsAssumption
<1>1. /\ UNCHANGED <<enqueue_pos_, dequeue_pos_, sequence, pos, item, pushed>>
      /\ Writing(t) /\ data \in [Nodes -> Values \cup {NoValue}]
      /\ data' = [data EXCEPT ![Slot(pos[t])] = item[t]]
      /\ enqueue_pos_ \in Nat /\ dequeue_pos_ \in Nat
      /\ \A u \in Threads : pos[u] \in Nat
  BY DEF IInv, TypeOK, PushWrite, Writing
<1>2. \A u \in Threads : /\ Writing(u)' <=> Writing(u)
                         /\ Reading(u)' <=> Reading(u)
                         /\ u # t => pc'[u] = pc[u]
  BY DEF IInv, TypeOK, PushWrite, Writing, Reading, Goto, Threads
<1>3. \A i \in Nodes : i # Slot(pos[t]) => data'[i] = data[i]
  BY <1>1
<1>4. data'[Slot(pos[t])] = item[t]
  BY <1>1, SlotType DEF Threads
<1>5. Bounded' /\ WindowInv' /\ OwnersDiffer'
  BY <1>1, <1>2 DEF IInv, Bounded, WindowInv, OwnersDiffer, Threads
<1>6. WriterInv'
  <2> SUFFICES ASSUME NEW p \in Producers, Writing(p)
               PROVE  pc'[p] = "push_publish" => data'[Slot(pos[p])] = item[p]
    BY <1>1, <1>2 DEF WriterInv, IInv, Threads
  <2>1. CASE p = t
    BY <1>4, <2>1
  <2>2. CASE p # t
    <3>1. Slot(pos[p]) \in Nodes /\ Slot(pos[p]) # Slot(pos[t]) /\ pc'[p] = pc[p]
      BY <1>1, <1>2, <2>2, SlotType, WritersApart DEF Threads
    <3> QED BY <1>3, <3>1 DEF IInv, WriterInv
  <2> QED BY <2>1, <2>2
<1>7. ReaderInv'
  <2> SUFFICES ASSUME NEW c \in Consumers, Reading(c)
               PROVE  /\ pc'[c] = pc[c]
                      /\ data'[Slot(pos[c])] = data[Slot(pos[c])]
    BY <1>1, <1>2 DEF ReaderInv, IInv, Threads
  <2>1. Slot(pos[c]) \in Nodes /\ Slot(pos[c]) # Slot(pos[t])
    BY <1>1, SlotType, WriterReaderApart DEF Threads
  <2> QED BY <1>2, <1>3, <2>1 DEF Threads
<1>8. CasInv'
  <2>1. \A u \in Threads : pc'[u] \in {"push_cas", "pop_cas"} => pc'[u] = pc[u]
    BY <1>2 DEF PushWrite, Goto, IInv, TypeOK
  <2> QED BY <1>1, <2>1 DEF IInv, CasInv, Threads
<1>9. DataInv'
  <2> SUFFICES ASSUME NEW k \in dequeue_pos_ .. enqueue_pos_ - 1, sequence[Slot(k)] = k + 1
               PROVE  data'[Slot(k)] = data[Slot(k)]
    BY <1>1 DEF DataInv, IInv
  <2>1. k \in Nat /\ pos[t] \in Nat
    BY <1>1 DEF Threads
  <2>2. /\ dequeue_pos_ <= k /\ k < dequeue_pos_ + Capacity
        /\ dequeue_pos_ <= pos[t] /\ pos[t] < dequeue_pos_ + Capacity
        /\ sequence[Slot(pos[t])] = pos[t]
    BY <1>1, <2>1 DEF IInv, WriterInv, Bounded
  <2>3. Slot(k) # Slot(pos[t])
    BY <2>1, <2>2, WindowSlots
  <2> QED BY <1>3, <2>1, <2>3, SlotType
<1> QED BY <1>5, <1>6, <1>7, <1>8, <1>9 DEF IInv

(* Storing pos + 1 hands the node to the pop of the same position. *)
LEMMA PushPublishInv ==
  ASSUME IInv, TypeOK', NEW t \in Producers, PushPublish(t) PROVE IInv'
<1> USE CapacityAssumption, ThreadsAssumption
<1> DEFINE e == enqueue_pos_
           d == dequeue_pos_
<1>1. /\ UNCHANGED <<enqueue_pos_, dequeue_pos_, data, pos, item, pushed>>
      /\ Writing(t) /\ sequence \in [Nodes -> Nat]
      /\ sequence' = [sequence EXCEPT ![Slot(pos[t])] = pos[t] + 1]
      /\ e \in Nat /\ d \in Nat /\ pc[t] = "push_publish"
      /\ \A u \in Threads : pos[u] \in Nat
  BY DEF IInv, TypeOK, PushPublish, Writing
<1>2. /\ ~Owns(t)' /\ pc'[t] = "idle"
      /\ \A u \in Threads : u # t => /\ Writing(u)' <=> Writing(u)
                                     /\ Reading(u)' <=> Reading(u)
                                     /\ pc'[u] = pc[u]
  BY DEF IInv, TypeOK, PushPublish, Owns, Writing, Reading, Goto, Threads
<1>3. \A i \in Nodes : i # Slot(pos[t]) => sequence'[i] = sequence[i]
  BY <1>1
<1>4. sequence'[Slot(pos[t])] = pos[t] + 1
  BY <1>1, SlotType DEF Threads
<1>5. /\ d <= pos[t] /\ pos[t] < e /\ pos[t] < d + Capacity /\ pos[t] \in Nat
      /\ sequence[Slot(pos[t])] = pos[t]
      /\ data[Slot(pos[t])] = pushed[pos[t] + 1]
  BY <1>1 DEF IInv, WriterInv, Bounded, Threads
<1>6. Bounded'
  BY <1>1 DEF IInv, Bounded
<1>7. ASSUME NEW k \in Nat, d <= k, k < d + Capacity, k # pos[t]
      PROVE  sequence'[Slot(k)] = sequence[Slot(k)]
  <2>1. Slot(k) # Slot(pos[t])
    BY <1>5, <1>7, WindowSlots
  <2> QED BY <1>3, <2>1, SlotType
<1>8. WindowInv'
  <2> SUFFICES ASSUME NEW k \in d .. d + Capacity - 1
               PROVE  IF k < e
                      THEN \/ sequence'[Slot(k)] = k + 1
                           \/ /\ sequence'[Slot(k)] = k
                              /\ \E p \in Producers : Writing(p)' /\ pos[p] = k
                      ELSE \/ sequence'[Slot(k)] = k
                           \/ /\ sequence'[Slot(k)] = k + 1 - Capacity
                              /\ \E c \in Consumers : Reading(c)' /\ pos[c] = k - Capacity
    BY <1>1 DEF WindowInv
  <2>1. k \in Nat
    BY <1>1
  <2>2. CASE k = pos[t]
    BY <1>4, <1>5, <2>2
  <2>3. CASE k # pos[t]
    <3>1. sequence'[Slot(k)] = sequence[Slot(k)]
      BY <1>1, <1>7, <2>1, <2>3
    <3>2. \A p \in Producers : Writing(p) /\ pos[p] = k => Writing(p)'
      BY <1>2, <2>3 DEF Threads
    <3>3. \A c \in Consumers : Reading(c) => Reading(c)'
      BY <1>2 DEF Threads
    <3> QED BY <3>1, <3>2, <3>3 DEF IInv, WindowInv
  <2> QED BY <2>2, <2>3
<1>9. WriterInv'
  <2> SUFFICES ASSUME NEW p \in Producers, Writing(p)'
               PROVE  /\ Writing(p) /\ pc'[p] = pc[p]
                      /\ sequence'[Slot(pos[p])] = sequence[Slot(pos[p])]
    BY <1>1 DEF WriterInv, IInv
  <2>1. p # t
    BY <1>2 DEF Owns
  <2>2. Writing(p) /\ pc'[p] = pc[p]
    BY <1>2, <2>1 DEF Threads
  <2>3. Slot(pos[p]) \in Nodes /\ Slot(pos[p]) # Slot(pos[t])
    BY <1>1, <2>1, <2>2, SlotType, WritersApart DEF Threads
  <2> QED BY <1>3, <2>2, <2>3
<1>10. ReaderInv'
  <2> SUFFICES ASSUME NEW c \in Consumers, Reading(c)'
               PROVE  /\ Reading(c) /\ pc'[c] = pc[c]
                      /\ sequence'[Slot(pos[c])] = sequence[Slot(pos[c])]
    BY <1>1 DEF ReaderInv, IInv
  <2>1. Reading(c) /\ pc'[c] = pc[c]
    BY <1>2 DEF Threads
  <2>2. Slot(pos[c]) \in Nodes /\ Slot(pos[c]) # Slot(pos[t])
    BY <1>1, <2>1, SlotType, WriterReaderApart DEF Threads
  <2> QED BY <1>3, <2>1, <2>2
<1>11. OwnersDiffer'
  BY <1>1, <1>2 DEF IInv, OwnersDiffer, Threads, Owns
<1>12. CasInv'
  <2>1. ASSUME NEW p \in Producers, pc'[p] = "push_cas", pos[p] = e
        PROVE  sequence'[Slot(pos[p])] = pos[p]
    <3>1. sequence[Slot(e)] = e
      BY <1>2, <2>1 DEF IInv, CasInv, Threads
    <3>2. Slot(e) # Slot(pos[t])
      BY <1>5, <3>1
    <3> QED BY <1>1, <1>3, <2>1, <3>1, <3>2, SlotType
  <2>2. ASSUME NEW c \in Consumers, pc'[c] = "pop_cas", pos[c] = d
        PROVE  sequence'[Slot(pos[c])] = pos[c] + 1
    <3>1. sequence[Slot(d)] = d + 1
      BY <1>2, <2>2 DEF IInv, CasInv, Threads
    <3>2. d # pos[t]
      BY <1>1, <1>5, <3>1
    <3> QED BY <1>1, <1>7, <2>2, <3>1, <3>2
  <2> QED BY <1>1, <2>1, <2>2 DEF IInv, CasInv
<1>13. DataInv'
  <2> SUFFICES ASSUME NEW k \in d .. e - 1, sequence'[Slot(k)] = k + 1
               PROVE  data[Slot(k)] = pushed[k + 1]
    BY <1>1 DEF DataInv, IInv
  <2>1. k \in Nat /\ d <= k /\ k < d + Capacity
    BY <1>1 DEF IInv, Bounded
  <2>2. CASE k = pos[t]
    BY <1>5, <2>2
  <2>3. CASE k # pos[t]
    BY <1>7, <2>1, <2>3 DEF IInv, DataInv
  <2> QED BY <2>2, <2>3
<1> QED BY <1>6, <1>8, <1>9, <1>10, <1>11, <1>12, <1>13 DEF IInv

(* Taking a position: its push has stored the sequence. *)
LEMMA PopCasInv ==
  ASSUME IInv, TypeOK', NEW t \in Consumers, PopCas(t) PROVE IInv'
<1> USE CapacityAssumption, ThreadsAssumption
<1> DEFINE e == enqueue_pos_
           d == dequeue_pos_
<1>1. /\ e \in Nat /\ d \in Nat /\ pos[t] = d /\ d' = d + 1
      /\ sequence[Slot(d)] = d + 1
      /\ UNCHANGED <<enqueue_pos_, sequence, data, pos, item, pushed>>
      /\ \A u \in Threads : pos[u] \in Nat
  BY DEF IInv, TypeOK, PopCas, CasInv
<1>2. /\ ~Owns(t) /\ Reading(t)' /\ pc'[t] = "pop_read"
      /\ \A u \in Threads : u # t => /\ Writing(u)' <=> Writing(u)
                                     /\ Reading(u)' <=> Reading(u)
                                     /\ pc'[u] = pc[u]
  BY DEF IInv, TypeOK, PopCas, Owns, Writing, Reading, Goto, Threads
<1>3. d < e
  <2> SUFFICES ASSUME d = e PROVE FALSE
    BY <1>1 DEF IInv, Bounded
  <2>1. sequence[Slot(d)] = d \/ sequence[Slot(d)] = d + 1 - Capacity
    BY <1>1 DEF IInv, WindowInv
  <2> QED BY <1>1, <2>1
<1>4. e <= d + Capacity
  BY DEF IInv, Bounded
<1>5. Bounded'
  BY <1>1, <1>3, <1>4 DEF Bounded
<1>6. WindowInv'
  <2> SUFFICES ASSUME NEW k \in d + 1 .. d + 1 + Capacity - 1
               PROVE  IF k < e
                      THEN \/ sequence[Slot(k)] = k + 1
                           \/ /\ sequence[Slot(k)] = k
                              /\ \E p \in Producers : Writing(p)' /\ pos[p] = k
                      ELSE \/ sequence[Slot(k)] = k
                           \/ /\ sequence[Slot(k)] = k + 1 - Capacity
                              /\ \E c \in Consumers : Reading(c)' /\ pos[c] = k - Capacity
    BY <1>1 DEF WindowInv
  <2>1. k \in Nat
    BY <1>1
  <2>2. CASE k = d + Capacity
    <3>1. Slot(k) = Slot(d)
      BY <1>1, <2>2, SlotNextLap
    <3>2. ~(k < e)
      BY <1>1, <1>4, <2>2
    <3>3. sequence[Slot(k)] = k + 1 - Capacity /\ pos[t] = k - Capacity
      BY <1>1, <2>2, <3>1
    <3> QED BY <1>2, <3>2, <3>3
  <2>3. CASE k # d + Capacity
    <3>1. \A p \in Producers : Writing(p) => Writing(p)'
      BY <1>2 DEF Threads
    <3>2. \A c \in Consumers : Reading(c) => Reading(c)'
      BY <1>2 DEF Threads
    <3>3. k \in d .. d + Capacity - 1
      BY <1>1, <2>1, <2>3
    <3> QED BY <3>1, <3>2, <3>3 DEF IInv, WindowInv
  <2> QED BY <2>2, <2>3
<1>7. WriterInv'
  <2> SUFFICES ASSUME NEW p \in Producers, Writing(p)'
               PROVE  Writing(p) /\ pc'[p] = pc[p] /\ d + 1 <= pos[p]
    BY <1>1 DEF WriterInv, IInv
  <2>1. Writing(p) /\ pc'[p] = pc[p] /\ pos[p] \in Nat
    BY <1>1, <1>2 DEF Threads
  <2>2. d <= pos[p] /\ sequence[Slot(pos[p])] = pos[p]
    BY <2>1 DEF IInv, WriterInv
  <2> QED BY <1>1, <2>1, <2>2
<1>8. ReaderInv'
  <2> SUFFICES ASSUME NEW c \in Consumers, Reading(c)'
               PROVE  /\ pos[c] < d + 1 /\ e <= pos[c] + Capacity
                      /\ sequence[Slot(pos[c])] = pos[c] + 1
                      /\ pc'[c] = "pop_read" => data[Slot(pos[c])] = pushed[pos[c] + 1]
                      /\ pc'[c] = "pop_release" => item[c] = pushed[pos[c] + 1]
    BY <1>1 DEF ReaderInv
  <2>1. CASE c = t
    <3>1. data[Slot(d)] = pushed[d + 1]
      BY <1>1, <1>3 DEF IInv, DataInv
    <3> QED BY <1>1, <1>2, <1>4, <2>1, <3>1
  <2>2. CASE c # t
    <3>1. Reading(c) /\ pc'[c] = pc[c] /\ pos[c] \in Nat
      BY <1>1, <1>2, <2>2 DEF Threads
    <3> QED BY <1>1, <3>1 DEF IInv, ReaderInv
  <2> QED BY <2>1, <2>2
<1>9. OwnersDiffer'
  <2>1. \A c \in Consumers : Reading(c) => pos[c] < d
    BY DEF IInv, ReaderInv
  <2>2. \A b, c \in Consumers : b # c /\ Reading(b)' /\ Reading(c)' => pos[b] # pos[c]
    BY <1>1, <1>2, <2>1 DEF IInv, OwnersDiffer, Threads
  <2>3. \A p, q \in Producers : p # q /\ Writing(p)' /\ Writing(q)' => pos[p] # pos[q]
    BY <1>2 DEF IInv, OwnersDiffer, Threads
  <2> QED BY <1>1, <2>2, <2>3 DEF OwnersDiffer
<1>10. CasInv'
  <2>1. \A c \in Consumers : pos[c] \in Nat /\ pos[c] <= d
    BY <1>1 DEF IInv, CasInv, Threads
  <2>2. \A c \in Consumers : pos[c] <= d + 1 /\ pos[c] # d + 1
    BY <1>1, <2>1
  <2>3. \A p \in Producers : pc'[p] = pc[p]
    BY <1>2 DEF Threads
  <2> QED BY <1>1, <2>2, <2>3 DEF IInv, CasInv
<1>11. DataInv'
  <2>1. \A k \in d + 1 .. e - 1 : k \in d .. e - 1
    BY <1>1
  <2> QED BY <1>1, <2>1 DEF IInv, DataInv
<1> QED BY <1>5, <1>6, <1>7, <1>8, <1>9, <1>10, <1>11 DEF IInv

(* Copying the element out reads what the push wrote. *)
LEMMA PopReadInv ==
  ASSUME IInv, TypeOK', NEW t \in Consumers, PopRead(t) PROVE IInv'
<1> USE ThreadsAssumption
<1>1. /\ UNCHANGED <<enqueue_pos_, dequeue_pos_, sequence, data, pos, pushed>>
      /\ item' = [item EXCEPT ![t] = data[Slot(pos[t])]] /\ pc[t] = "pop_read"
      /\ pc' = [pc EXCEPT ![t] = "pop_release"] /\ Reading(t)
  BY DEF PopRead, Goto, Reading
<1>2. \A u \in Threads : /\ Writing(u)' <=> Writing(u)
                         /\ Reading(u)' <=> Reading(u)
                         /\ u # t => pc'[u] = pc[u] /\ item'[u] = item[u]
  BY <1>1 DEF IInv, TypeOK, Writing, Reading
<1>3. item'[t] = data[Slot(pos[t])] /\ pc'[t] = "pop_release"
  BY <1>1 DEF IInv, TypeOK, Threads
<1>4. Bounded' /\ WindowInv' /\ OwnersDiffer' /\ DataInv'
  BY <1>1, <1>2 DEF IInv, Bounded, WindowInv, OwnersDiffer, DataInv, Threads
<1>5. WriterInv'
  BY <1>1, <1>2 DEF IInv, WriterInv, Threads
<1>6. ReaderInv'
  BY <1>1, <1>2, <1>3 DEF IInv, ReaderInv, Threads
<1>7. CasInv'
  BY <1>1, <1>2, <1>3 DEF IInv, CasInv, Threads
<1> QED BY <1>4, <1>5, <1>6, <1>7 DEF IInv

(* Storing pos + capacity hands the node to the push one lap later. *)
LEMMA PopReleaseInv ==
  ASSUME IInv, TypeOK', NEW t \in Consumers, PopRelease(t) PROVE IInv'
<1> USE CapacityAssumption, ThreadsAssumption
<1> DEFINE e == enqueue_pos_
           d == dequeue_pos_
           n == pos[t] + Capacity
<1>1. /\ UNCHANGED <<enqueue_pos_, dequeue_pos_, data, pos, item, pushed>>
      /\ Reading(t) /\ sequence \in [Nodes -> Nat]
      /\ sequence' = [sequence EXCEPT ![Slot(pos[t])] = n]
      /\ e \in Nat /\ d \in Nat
      /\ \A u \in Threads : pos[u] \in Nat
  BY DEF IInv, TypeOK, PopRelease, Reading
<1>2. /\ ~Owns(t)' /\ pc'[t] = "idle"
      /\ \A u \in Threads : u # t => /\ Writing(u)' <=> Writing(u)
                                     /\ Reading(u)' <=> Reading(u)
                                     /\ pc'[u] = pc[u]
  BY DEF IInv, TypeOK, PopRelease, Owns, Writing, Reading, Goto, Threads
<1>3. /\ pos[t] \in Nat /\ n \in Nat /\ pos[t] < d /\ e <= n
      /\ d <= n /\ n < d + Capacity
      /\ sequence[Slot(pos[t])] = pos[t] + 1
  BY <1>1 DEF IInv, ReaderInv, Bounded, Threads
<1>4. Slot(n) = Slot(pos[t])
  BY <1>3, SlotNextLap
<1>5. \A i \in Nodes : i # Slot(n) => sequence'[i] = sequence[i]
  BY <1>1, <1>4
<1>6. sequence'[Slot(n)] = n
  BY <1>1, <1>3, <1>4, SlotType
<1>7. ASSUME NEW k \in Nat, d <= k, k < d + Capacity, k # n
      PROVE  sequence'[Slot(k)] = sequence[Slot(k)]
  <2>1. Slot(k) # Slot(n)
    BY <1>3, <1>7, WindowSlots
  <2> QED BY <1>5, <2>1, SlotType
<1>8. Bounded'
  BY <1>1 DEF IInv, Bounded
<1>9. WindowInv'
  <2> SUFFICES ASSUME NEW k \in d .. d + Capacity - 1
               PROVE  IF k < e
                      THEN \/ sequence'[Slot(k)] = k + 1
                           \/ /\ sequence'[Slot(k)] = k
                              /\ \E p \in Producers : Writing(p)' /\ pos[p] = k
                      ELSE \/ sequence'[Slot(k)] = k
                           \/ /\ sequence'[Slot(k)] = k + 1 - Capacity
                              /\ \E c \in Consumers : Reading(c)' /\ pos[c] = k - Capacity
    BY <1>1 DEF WindowInv
  <2>1. k \in Nat
    BY <1>1
  <2>2. CASE k = n
    BY <1>1, <1>3, <1>6, <2>2
  <2>3. CASE k # n
    <3>1. sequence'[Slot(k)] = sequence[Slot(k)]
      BY <1>1, <1>7, <2>1, <2>3
    <3>2. \A p \in Producers : Writing(p) => Writing(p)'
      BY <1>2 DEF Threads
    <3>3. \A c \in Consumers : Reading(c) /\ pos[c] = k - Capacity => Reading(c)'
      BY <1>2, <1>3, <2>1, <2>3 DEF Threads
    <3> QED BY <3>1, <3>2, <3>3 DEF IInv, WindowInv
  <2> QED BY <2>2, <2>3
<1>10. WriterInv'
  <2> SUFFICES ASSUME NEW p \in Producers, Writing(p)'
               PROVE  /\ Writing(p) /\ pc'[p] = pc[p]
                      /\ sequence'[Slot(pos[p])] = sequence[Slot(pos[p])]
    BY <1>1 DEF WriterInv, IInv
  <2>1. Writing(p) /\ pc'[p] = pc[p]
    BY <1>2 DEF Threads
  <2>2. Slot(pos[p]) \in Nodes /\ Slot(pos[p]) # Slot(n)
    BY <1>1, <1>4, <2>1, SlotType, WriterReaderApart DEF Threads
  <2> QED BY <1>5, <2>1, <2>2
<1>11. ReaderInv'
  <2> SUFFICES ASSUME NEW c \in Consumers, Reading(c)'
               PROVE  /\ Reading(c) /\ pc'[c] = pc[c]
                      /\ sequence'[Slot(pos[c])] = sequence[Slot(pos[c])]
    BY <1>1 DEF ReaderInv, IInv
  <2>1. c # t
    BY <1>2 DEF Owns
  <2>2. Reading(c) /\ pc'[c] = pc[c]
    BY <1>2, <2>1 DEF Threads
  <2>3. Slot(pos[c]) \in Nodes /\ Slot(pos[c]) # Slot(n)
    BY <1>1, <1>4, <2>1, <2>2, SlotType, ReadersApart DEF Threads
  <2> QED BY <1>5, <2>2, <2>3
<1>12. OwnersDiffer'
  BY <1>1, <1>2 DEF IInv, OwnersDiffer, Threads, Owns
<1>13. CasInv'
  <2>1. ASSUME NEW p \in Producers, pc'[p] = "push_cas", pos[p] = e
        PROVE  sequence'[Slot(pos[p])] = pos[p]
    <3>1. sequence[Slot(e)] = e
      BY <1>2, <2>1 DEF IInv, CasInv, Threads
    <3>2. CASE e = n
      BY <1>6, <2>1, <3>2
    <3>3. CASE e # n
      <4>1. d <= e /\ e < d + Capacity
        BY <1>1, <1>3 DEF IInv, Bounded
      <4> QED BY <1>1, <1>7, <2>1, <3>1, <3>3, <4>1
    <3> QED BY <3>2, <3>3
  <2>2. ASSUME NEW c \in Consumers, pc'[c] = "pop_cas", pos[c] = d
        PROVE  sequence'[Slot(pos[c])] = pos[c] + 1
    <3>1. sequence[Slot(d)] = d + 1
      BY <1>2, <2>2 DEF IInv, CasInv, Threads
    <3>2. Slot(d) # Slot(n)
      BY <1>1, <1>3, <1>4, <3>1
    <3> QED BY <1>1, <1>5, <2>2, <3>1, <3>2, SlotType
  <2> QED BY <1>1, <2>1, <2>2 DEF IInv, CasInv
<1>14. DataInv'
  <2> SUFFICES ASSUME NEW k \in d .. e - 1
               PROVE  sequence'[Slot(k)] = sequence[Slot(k)]
    BY <1>1 DEF DataInv, IInv
  <2>1. k \in Nat /\ d <= k /\ k < d + Capacity /\ k # n
    BY <1>1, <1>3 DEF IInv, Bounded
  <2> QED BY <1>7, <2>1
<1> QED BY <1>8, <1>9, <1>10, <1>11, <1>12, <1>13, <1>14 DEF IInv

-----------------------------------------------------------------------------

(* The loads and the failed compare-exchanges of push. *)
LEMMA PushQuietInv ==
  ASSUME IInv, TypeOK', NEW t \in Producers,
         \/ \E v \in Values : PushLoadPos(t, v)
         \/ PushLoadSeq(t) \/ PushReload(t) \/ PushCasFails(t)
  PROVE  IInv'
<1> USE ThreadsAssumption
<1>1. /\ t \in Threads /\ t \notin Consumers /\ enqueue_pos_ \in Nat /\ pos[t] \in Nat
      /\ pos \in [Threads -> Nat] /\ pos[t] <= enqueue_pos_
      /\ pc \in [Threads -> {"idle"} \cup PushStates \cup PopStates]
      /\ item \in [Threads -> Values \cup {NoValue}]
      /\ sequence[Slot(pos[t])] \in Nat
  BY SlotType DEF IInv, TypeOK, CasInv, Threads
<1>2. /\ UNCHANGED <<enqueue_pos_, dequeue_pos_, sequence, data, pushed>>
      /\ ~Owns(t) /\ ~Owns(t)'
      /\ \A u \in Threads : u # t => /\ pc'[u] = pc[u]
                                     /\ pos'[u] = pos[u]
                                     /\ item'[u] = item[u]
  BY <1>1 DEF PushLoadPos, PushLoadSeq, PushReload, PushCasFails, Goto, Owns, Writing, Reading
<1>3. /\ pos'[t] <= enqueue_pos_
      /\ pc'[t] = "push_cas" => sequence[Slot(pos'[t])] = pos'[t]
  BY <1>1 DEF PushLoadPos, PushLoadSeq, PushReload, PushCasFails, Goto
<1> QED BY <1>1, <1>2, <1>3, QuietStep

(* The loads and the failed compare-exchanges of pop. *)
LEMMA PopQuietInv ==
  ASSUME IInv, TypeOK', NEW t \in Consumers,
         PopLoadPos(t) \/ PopLoadSeq(t) \/ PopReload(t) \/ PopCasFails(t)
  PROVE  IInv'
<1> USE ThreadsAssumption
<1>1. /\ t \in Threads /\ t \notin Producers /\ dequeue_pos_ \in Nat /\ pos[t] \in Nat
      /\ pos \in [Threads -> Nat] /\ pos[t] <= dequeue_pos_
      /\ pc \in [Threads -> {"idle"} \cup PushStates \cup PopStates]
      /\ sequence[Slot(pos[t])] \in Nat
  BY SlotType DEF IInv, TypeOK, CasInv, Threads
<1>2. /\ UNCHANGED <<enqueue_pos_, dequeue_pos_, sequence, data, pushed>>
      /\ ~Owns(t) /\ ~Owns(t)'
      /\ \A u \in Threads : u # t => /\ pc'[u] = pc[u]
                                     /\ pos'[u] = pos[u]
                                     /\ item'[u] = item[u]
  BY <1>1 DEF PopLoadPos, PopLoadSeq, PopReload, PopCasFails, Goto, Owns, Writing, Reading
<1>3. /\ pos'[t] <= dequeue_pos_
      /\ pc'[t] = "pop_cas" => sequence[Slot(pos'[t])] = pos'[t] + 1
  BY <1>1 DEF PopLoadPos, PopLoadSeq, PopReload, PopCasFails, Goto
<1> QED BY <1>1, <1>2, <1>3, QuietStep

(* Every access to shared memory preserves the inductive invariant. *)
LEMMA InvStep == IInv /\ [Next]_vars => IInv'
<1> SUFFICES ASSUME IInv, [Next]_vars PROVE IInv'
  OBVIOUS
<1>1. TypeOK'
  BY TypeStep DEF IInv
<1>2. ASSUME NEW t \in Producers, PushStep(t) PROVE IInv'
  BY <1>1, <1>2, PushQuietInv, PushCasInv, PushWriteInv, PushPublishInv DEF PushStep
<1>3. ASSUME NEW t \in Consumers, PopStep(t) PROVE IInv'
  BY <1>1, <1>3, PopQuietInv, PopCasInv, PopReadInv, PopReleaseInv DEF PopStep
<1>4. CASE UNCHANGED vars
  BY <1>4 DEF vars, IInv, TypeOK, Bounded, WindowInv, WriterInv, ReaderInv, OwnersDiffer,
              CasInv, DataInv, Writing, Reading
<1> QED BY <1>2, <1>3, <1>4 DEF Next

(* Whatever the capacity, the threads and the order of their accesses to   *)
(* memory, positions, sequences and nodes keep their types.                *)
THEOREM TypeCorrect == Spec => []TypeOK
<1>1. Init => TypeOK
  BY InvInit DEF IInv
<1>2. TypeOK /\ [Next]_vars => TypeOK'
  BY TypeStep
<1> QED BY <1>1, <1>2, PTL DEF Spec

(* The inductive invariant of push and pop holds in every reachable state. *)
THEOREM Invariance == Spec => []IInv
<1> QED BY InvInit, InvStep, PTL DEF Spec

(* The plain accesses to node.data in push and pop never race: between its *)
(* compare-exchange and its release store a thread is alone on its node.   *)
THEOREM NodesAreExclusive == Spec => []ExclusiveNode
<1>1. IInv => ExclusiveNode
  <2> SUFFICES ASSUME IInv, NEW t \in Threads, NEW u \in Threads, t # u, Owns(t), Owns(u)
               PROVE  Slot(pos[t]) # Slot(pos[u])
    BY DEF ExclusiveNode
  <2>1. /\ t \in Producers => Writing(t)
        /\ t \in Consumers => Reading(t)
        /\ u \in Producers => Writing(u)
        /\ u \in Consumers => Reading(u)
    BY ThreadsAssumption DEF IInv, TypeOK, Owns, Writing, Reading, PushStates, PopStates
  <2> QED BY <2>1, WritersApart, ReadersApart, WriterReaderApart DEF Threads
<1> QED BY <1>1, Invariance, PTL

(* pop copies out exactly what the push with the same position copied in.  *)
THEOREM PopsMatchPushes == Spec => []PopReturnsItsPush
<1>1. IInv => PopReturnsItsPush
  <2> SUFFICES ASSUME IInv, NEW t \in Consumers, pc[t] = "pop_release"
               PROVE  pos[t] < Len(pushed) /\ item[t] = pushed[pos[t] + 1]
    BY DEF PopReturnsItsPush
  <2>1. pos[t] \in Nat /\ dequeue_pos_ \in Nat /\ enqueue_pos_ \in Nat
    BY DEF IInv, TypeOK, Threads
  <2> QED BY <2>1 DEF IInv, ReaderInv, Reading, Bounded, DataInv
<1> QED BY <1>1, Invariance, PTL

(* No more than Capacity positions are ever claimed and not yet popped.    *)
THEOREM QueueIsBounded == Spec => []Bounded
<1>1. IInv => Bounded
  BY DEF IInv
<1> QED BY <1>1, Invariance, PTL
-----------------------------------------------------------------------------

(* A position that pops have passed uses a node that a later position of   *)
(* the window uses too, so its sequence has moved on.                      *)
LEMMA PassedSequence ==
  ASSUME IInv, NEW p \in Nat, p < dequeue_pos_
  PROVE  sequence[Slot(p)] >= p + 1
<1> USE CapacityAssumption
<1> DEFINE d == dequeue_pos_
           e == enqueue_pos_
<1>1. d \in Nat /\ e \in Nat
  BY DEF IInv, TypeOK
<1>2. PICK a \in Int : d = Capacity * a + Slot(d)
  BY <1>1, SlotDivision
<1>3. PICK b \in Int : p = Capacity * b + Slot(p)
  BY SlotDivision
<1>4. Slot(p) \in Nodes /\ Slot(d) \in Nodes
  BY <1>1, SlotType
<1>5. PICK c \in Int : /\ Capacity * c + Slot(p) >= d
                       /\ Capacity * c + Slot(p) < d + Capacity
  <2>0. Capacity * a \in Int
    OBVIOUS
  <2>1. CASE Slot(p) >= Slot(d)
    <3>1. Capacity * a + Slot(p) >= d /\ Capacity * a + Slot(p) < d + Capacity
      BY <1>1, <1>2, <1>4, <2>0, <2>1 DEF Nodes
    <3> QED BY <3>1
  <2>2. CASE Slot(p) < Slot(d)
    <3>1. Capacity * (a + 1) = Capacity * a + Capacity
      OBVIOUS
    <3>2. Capacity * (a + 1) + Slot(p) >= d /\ Capacity * (a + 1) + Slot(p) < d + Capacity
      BY <1>1, <1>2, <1>4, <2>0, <2>2, <3>1 DEF Nodes
    <3>3. a + 1 \in Int
      OBVIOUS
    <3> QED BY <3>2, <3>3
  <2> QED BY <1>4, <2>1, <2>2 DEF Nodes
<1> DEFINE k == Capacity * c + Slot(p)
<1>6. k \in Nat /\ d <= k /\ k < d + Capacity /\ Capacity * c \in Int /\ Capacity * b \in Int
  <2>1. Capacity * c \in Int /\ Capacity * b \in Int
    OBVIOUS
  <2> QED BY <1>1, <1>4, <1>5, <2>1 DEF Nodes
<1>7. k >= p + Capacity
  <2>1. Capacity * b < Capacity * c
    BY <1>1, <1>3, <1>4, <1>6 DEF Nodes
  <2>2. b < c
    <3>1. ~(c < b)
      BY <1>6, <2>1, MultiplesApart
    <3>2. c # b
      BY <1>6, <2>1
    <3> QED BY <3>1, <3>2
  <2>3. Capacity * b + Capacity <= Capacity * c
    BY <2>2, MultiplesApart
  <2> QED BY <1>3, <1>4, <1>6, <2>3 DEF Nodes
<1>8. Slot(k) = Slot(p)
  <2>1. Capacity \in Nat \ {0} /\ Slot(p) \in 0 .. Capacity - 1
    BY <1>4 DEF Nodes
  <2>2. k % Capacity = Slot(p)
    BY <1>6, <2>1, ModUnique
  <2> QED BY <2>2 DEF Slot
<1> HIDE DEF k
<1>9. \/ sequence[Slot(k)] = k + 1
      \/ sequence[Slot(k)] = k
      \/ sequence[Slot(k)] = k + 1 - Capacity
  BY <1>1, <1>6 DEF IInv, WindowInv
<1> QED BY <1>6, <1>7, <1>8, <1>9

-----------------------------------------------------------------------------
(***************************************************************************)
(* LockFreeQueue implements TicketQueue: what CapturePipeline assumes of   *)
(* its two queues is what push and pop deliver, for every capacity and     *)
(* every set of threads.  Only the two compare-exchanges and the two       *)
(* stores of a node's sequence are visible to callers; every other access  *)
(* to memory leaves the mapped state unchanged.                            *)
(***************************************************************************)

(* An empty queue is an empty ticket queue. *)
LEMMA MapInit == Init => TQ!Init
<1> SUFFICES ASSUME Init PROVE TQ!Init
  OBVIOUS
<1>1. Held = [t \in Producers \cup Consumers |-> 0]
  BY DEF Init, Held, Owns, Writing, Reading, Threads
<1>2. Taken = [c \in Consumers |-> NoValue]
  BY DEF Init, Taken, Threads
<1> QED BY <1>1, <1>2 DEF Init, TQ!Init

(* A step that claims, takes and releases no position is invisible. *)
LEMMA MapQuiet ==
  ASSUME UNCHANGED <<pushed, dequeue_pos_>>,
         \A t \in Threads : /\ Owns(t)' <=> Owns(t)
                            /\ Owns(t) => pos'[t] = pos[t],
         \A c \in Consumers : Taken'[c] = Taken[c]
  PROVE  UNCHANGED TQ!tqvars
<1>1. Held' = Held
  BY DEF Held
<1>2. Taken' = Taken
  BY DEF Taken
<1> QED BY <1>1, <1>2 DEF TQ!tqvars

(* The loads and the failed compare-exchanges. *)
LEMMA MapLoads ==
  ASSUME TypeOK,
         \/ \E t \in Producers : \/ \E v \in Values : PushLoadPos(t, v)
                                \/ PushLoadSeq(t) \/ PushReload(t) \/ PushCasFails(t)
         \/ \E t \in Consumers : \/ PopLoadPos(t) \/ PopLoadSeq(t)
                                \/ PopReload(t) \/ PopCasFails(t)
  PROVE  UNCHANGED TQ!tqvars
<1> USE ThreadsAssumption
    DEF TypeOK, Threads, Goto, Owns, Writing, Reading, Taken
<1>1. ASSUME NEW t \in Producers,
             \/ \E v \in Values : PushLoadPos(t, v)
             \/ PushLoadSeq(t) \/ PushReload(t) \/ PushCasFails(t)
      PROVE  UNCHANGED TQ!tqvars
  <2>1. /\ UNCHANGED <<pushed, dequeue_pos_>>
        /\ \A u \in Threads : /\ Owns(u)' <=> Owns(u)
                              /\ Owns(u) => pos'[u] = pos[u]
    BY <1>1 DEF PushLoadPos, PushLoadSeq, PushReload, PushCasFails
  <2>2. \A c \in Consumers : pc'[c] = pc[c] /\ pos'[c] = pos[c] /\ item'[c] = item[c]
    BY <1>1 DEF PushLoadPos, PushLoadSeq, PushReload, PushCasFails
  <2> QED BY <2>1, <2>2, MapQuiet
<1>2. ASSUME NEW t \in Consumers,
             PopLoadPos(t) \/ PopLoadSeq(t) \/ PopReload(t) \/ PopCasFails(t)
      PROVE  UNCHANGED TQ!tqvars
  <2>1. /\ UNCHANGED <<pushed, dequeue_pos_, item>>
        /\ \A u \in Threads : /\ Owns(u)' <=> Owns(u)
                              /\ Owns(u) => pos'[u] = pos[u]
                              /\ pc'[u] = "pop_read" <=> pc[u] = "pop_read"
    BY <1>2 DEF PopLoadPos, PopLoadSeq, PopReload, PopCasFails
  <2> QED BY <2>1, MapQuiet
<1> QED BY <1>1, <1>2

(* A push claims its ticket when its compare-exchange succeeds. *)
LEMMA MapPushCas ==
  ASSUME IInv, IInv', NEW t \in Producers, PushCas(t)
  PROVE  TQ!Claim(t, item[t])
<1> USE CapacityAssumption, ThreadsAssumption
<1>1. /\ enqueue_pos_ \in Nat /\ dequeue_pos_ \in Nat /\ Len(pushed) = enqueue_pos_
      /\ pos[t] = enqueue_pos_ /\ enqueue_pos_' = enqueue_pos_ + 1
      /\ UNCHANGED <<dequeue_pos_, pos, item>>
      /\ pushed' = Append(pushed, item[t]) /\ pushed \in Seq(Values)
      /\ pc[t] = "push_cas" /\ pc' = [pc EXCEPT ![t] = "push_write"]
      /\ \A u \in Threads : pos[u] \in Nat
      /\ item[t] \in Values
  BY DEF IInv, TypeOK, DataInv, PushCas, Goto
<1>2. \A u \in Threads : /\ Owns(u)' <=> (u = t \/ Owns(u))
                         /\ u # t => pc'[u] = pc[u]
  BY <1>1 DEF IInv, TypeOK, Owns, Writing, Reading
<1>3. ~Owns(t) /\ \A c \in Consumers : Owns(c) => Reading(c)
  BY <1>1 DEF IInv, TypeOK, Owns, Writing, Reading, PopStates
<1>4. Held[t] = 0
  BY <1>3 DEF Held, Threads
<1>5. TQ!HasRoom
  <2>1. Len(pushed) + 1 - Capacity <= dequeue_pos_
    BY <1>1 DEF IInv, Bounded
  <2>2. ASSUME NEW c \in Consumers, Len(pushed) + 1 - Capacity > 0
        PROVE  Held[c] # Len(pushed) + 1 - Capacity
    <3>1. CASE Owns(c)
      <4>1. Reading(c)' /\ pos[c] \in Nat
        BY <1>1, <1>2, <1>3, <3>1 DEF Threads, Reading
      <4>2. enqueue_pos_ + 1 <= pos[c] + Capacity
        BY <1>1, <4>1 DEF IInv, ReaderInv
      <4> QED BY <1>1, <3>1, <4>1, <4>2 DEF Held, Threads
    <3>2. CASE ~Owns(c)
      BY <1>1, <2>2, <3>2 DEF Held, Threads
    <3> QED BY <3>1, <3>2
  <2> QED BY <2>1, <2>2 DEF TQ!HasRoom
<1>6. Held' = [Held EXCEPT ![t] = Len(pushed) + 1]
  <2>1. \A u \in Threads : Held'[u] = IF u = t THEN Len(pushed) + 1 ELSE Held[u]
    BY <1>1, <1>2 DEF Held
  <2> QED BY <2>1 DEF Held
<1>7. Taken' = Taken
  <2>1. ASSUME NEW c \in Consumers PROVE Taken'[c] = Taken[c]
    <3>1. pc'[c] = pc[c] /\ pos[c] \in Nat
      BY <1>1, <1>2 DEF Threads
    <3>2. pc[c] = "pop_read" => pos[c] < enqueue_pos_
      BY <1>1, <3>1 DEF IInv, ReaderInv, Reading, Bounded
    <3>3. pc[c] = "pop_read" => pushed'[pos[c] + 1] = pushed[pos[c] + 1]
      BY <1>1, <3>1, <3>2
    <3> QED BY <1>1, <3>1, <3>3 DEF Taken
  <2> QED BY <2>1 DEF Taken
<1> QED BY <1>1, <1>4, <1>5, <1>6, <1>7 DEF TQ!Claim

(* The copy into the node is invisible. *)
LEMMA MapPushWrite ==
  ASSUME IInv, NEW t \in Producers, PushWrite(t) PROVE UNCHANGED TQ!tqvars
<1>1. /\ UNCHANGED <<pushed, dequeue_pos_, pos, item>>
      /\ \A u \in Threads : /\ Owns(u)' <=> Owns(u)
                            /\ pc'[u] = "pop_read" <=> pc[u] = "pop_read"
  BY DEF IInv, TypeOK, PushWrite, Goto, Owns, Writing, Reading
<1> QED BY <1>1, MapQuiet DEF Taken, Threads

(* A push completes when it stores the sequence. *)
LEMMA MapPushPublish ==
  ASSUME IInv, NEW t \in Producers, PushPublish(t) PROVE TQ!Publish(t)
<1> USE ThreadsAssumption
<1>1. /\ UNCHANGED <<pushed, dequeue_pos_, pos, item>> /\ Owns(t)
      /\ \A u \in Threads : /\ Owns(u)' <=> u # t /\ Owns(u)
                            /\ pc'[u] = "pop_read" <=> pc[u] = "pop_read"
  BY DEF IInv, TypeOK, PushPublish, Goto, Owns, Writing, Reading
<1>2. Held' = [Held EXCEPT ![t] = 0]
  BY <1>1 DEF Held
<1>3. Taken' = Taken
  BY <1>1 DEF Taken, Threads
<1>4. Held[t] # 0
  BY <1>1 DEF Held, Threads, IInv, TypeOK
<1> QED BY <1>1, <1>2, <1>3, <1>4 DEF TQ!Publish

(* A pop takes its ticket, and its element, when its compare-exchange succeeds. *)
LEMMA MapPopCas ==
  ASSUME IInv, IInv', NEW t \in Consumers, PopCas(t) PROVE TQ!Take(t)
<1> USE CapacityAssumption, ThreadsAssumption
<1>1. /\ enqueue_pos_ \in Nat /\ dequeue_pos_ \in Nat /\ Len(pushed) = enqueue_pos_
      /\ pos[t] = dequeue_pos_ /\ dequeue_pos_' = dequeue_pos_ + 1
      /\ UNCHANGED <<enqueue_pos_, pushed, pos, item>>
      /\ pc[t] = "pop_cas" /\ pc' = [pc EXCEPT ![t] = "pop_read"]
      /\ \A u \in Threads : pos[u] \in Nat
  BY DEF IInv, TypeOK, DataInv, PopCas, Goto
<1>2. \A u \in Threads : /\ Owns(u)' <=> (u = t \/ Owns(u))
                         /\ pc'[u] = "pop_read" <=> (u = t \/ pc[u] = "pop_read")
  BY <1>1 DEF IInv, TypeOK, Owns, Writing, Reading
<1>3. ~Owns(t)
  BY <1>1 DEF Owns, Writing, Reading
<1>4. Held[t] = 0
  BY <1>3 DEF Held, Threads
<1>5. TQ!HasReady
  <2>1. dequeue_pos_ < Len(pushed)
    BY <1>1 DEF IInv, Bounded
  <2>2. ASSUME NEW p \in Producers PROVE Held[p] # dequeue_pos_ + 1
    <3>1. CASE Owns(p)
      <4>1. Owns(p)' /\ pos[p] \in Nat
        BY <1>1, <1>2, <3>1 DEF Threads
      <4>2. Writing(p)'
        BY <4>1 DEF IInv, TypeOK, Owns, Writing, Reading, PushStates
      <4>3. dequeue_pos_ + 1 <= pos[p]
        BY <1>1, <4>2 DEF IInv, WriterInv
      <4> QED BY <1>1, <3>1, <4>1, <4>3 DEF Held, Threads
    <3>2. CASE ~Owns(p)
      BY <1>1, <3>2 DEF Held, Threads
    <3> QED BY <3>1, <3>2
  <2> QED BY <2>1, <2>2 DEF TQ!HasReady
<1>6. Held' = [Held EXCEPT ![t] = dequeue_pos_ + 1]
  <2>1. \A u \in Threads : Held'[u] = IF u = t THEN dequeue_pos_ + 1 ELSE Held[u]
    BY <1>1, <1>2 DEF Held
  <2> QED BY <2>1 DEF Held
<1>7. Taken' = [Taken EXCEPT ![t] = pushed[dequeue_pos_ + 1]]
  <2>1. \A c \in Consumers : Taken'[c] = IF c = t THEN pushed[dequeue_pos_ + 1] ELSE Taken[c]
    BY <1>1, <1>2 DEF Taken, Threads
  <2> QED BY <2>1 DEF Taken
<1> QED BY <1>1, <1>4, <1>5, <1>6, <1>7 DEF TQ!Take

(* The copy out of the node yields the element already taken. *)
LEMMA MapPopRead ==
  ASSUME IInv, NEW t \in Consumers, PopRead(t) PROVE UNCHANGED TQ!tqvars
<1>1. /\ UNCHANGED <<pushed, dequeue_pos_, pos>> /\ pc[t] = "pop_read"
      /\ \A u \in Threads : Owns(u)' <=> Owns(u)
      /\ \A u \in Threads : u # t => pc'[u] = pc[u] /\ item'[u] = item[u]
      /\ pc'[t] = "pop_release" /\ item'[t] = data[Slot(pos[t])]
  BY DEF IInv, TypeOK, PopRead, Goto, Owns, Writing, Reading, Threads
<1>2. data[Slot(pos[t])] = pushed[pos[t] + 1]
  BY <1>1 DEF IInv, ReaderInv, Reading
<1> QED BY <1>1, <1>2, MapQuiet DEF Taken, Threads

(* A pop completes when it stores the sequence. *)
LEMMA MapPopRelease ==
  ASSUME IInv, NEW t \in Consumers, PopRelease(t) PROVE TQ!Release(t)
<1>1. /\ UNCHANGED <<pushed, dequeue_pos_, pos, item>> /\ Owns(t)
      /\ \A u \in Threads : /\ Owns(u)' <=> u # t /\ Owns(u)
                            /\ pc'[u] = "pop_read" <=> pc[u] = "pop_read"
  BY DEF IInv, TypeOK, PopRelease, Goto, Owns, Writing, Reading
<1>2. Held' = [Held EXCEPT ![t] = 0]
  BY <1>1 DEF Held
<1>3. Taken' = Taken
  BY <1>1 DEF Taken, Threads
<1>4. Held[t] # 0
  BY <1>1 DEF Held, Threads, IInv, TypeOK
<1> QED BY <1>1, <1>2, <1>3, <1>4 DEF TQ!Release

(* Every step of push and pop is a step of the ticket queue or invisible,  *)
(* so the queue hands each element out once, in the order its position was *)
(* claimed, whatever the threads do.                                       *)
THEOREM Implements == Spec => ImplementsTicketQueue
<1>1. IInv /\ IInv' /\ [Next]_vars => [TQ!Next]_(TQ!tqvars)
  <2> SUFFICES ASSUME IInv, IInv', [Next]_vars PROVE [TQ!Next]_(TQ!tqvars)
    OBVIOUS
  <2>1. ASSUME NEW t \in Producers, PushStep(t) PROVE TQ!Next \/ UNCHANGED TQ!tqvars
    <3>1. item[t] \in Values \/ ~PushCas(t)
      BY DEF IInv, TypeOK, PushCas
    <3>2. PushCas(t) => TQ!Next
      BY <3>1, MapPushCas DEF TQ!Next
    <3>3. PushPublish(t) => TQ!Next
      BY MapPushPublish DEF TQ!Next
    <3> QED BY <2>1, <3>2, <3>3, MapLoads, MapPushWrite DEF PushStep, IInv
  <2>2. ASSUME NEW t \in Consumers, PopStep(t) PROVE TQ!Next \/ UNCHANGED TQ!tqvars
    <3>1. PopCas(t) => TQ!Next
      BY MapPopCas DEF TQ!Next
    <3>2. PopRelease(t) => TQ!Next
      BY MapPopRelease DEF TQ!Next
    <3> QED BY <2>2, <3>1, <3>2, MapLoads, MapPopRead DEF PopStep, IInv
  <2>3. CASE UNCHANGED vars
    BY <2>3 DEF vars, TQ!tqvars, Held, Taken, Owns, Writing, Reading
  <2> QED BY <2>1, <2>2, <2>3 DEF Next
<1> QED BY <1>1, MapInit, Invariance, PTL DEF Spec, ImplementsTicketQueue, TQ!Spec

(* push reports "full" and pop reports "empty" only when the queue is, or  *)
(* when an operation that has claimed the node in question is unfinished.  *)
THEOREM FailuresAreHonest == Spec => HonestFailure
<1> USE CapacityAssumption, ThreadsAssumption
<1>1. ASSUME IInv, [Next]_vars, NEW t \in Producers, pc[t] = "push_seq", pc'[t] = "idle"
      PROVE  ~TQ!HasRoom
  <2>1. /\ pos[t] \in Nat /\ enqueue_pos_ \in Nat /\ dequeue_pos_ \in Nat
        /\ pos[t] <= enqueue_pos_ /\ sequence[Slot(pos[t])] \in Nat
        /\ dequeue_pos_ <= enqueue_pos_ /\ enqueue_pos_ <= dequeue_pos_ + Capacity
        /\ pc \in [Threads -> {"idle"} \cup PushStates \cup PopStates]
        /\ Len(pushed) = enqueue_pos_
    BY <1>1, SlotType DEF IInv, TypeOK, CasInv, Bounded, DataInv, Threads
  <2>2. PushLoadSeq(t)
    <3>1. ASSUME NEW u \in Producers, PushStep(u), u # t PROVE FALSE
      BY <1>1, <2>1, <3>1 DEF PushStep, PushLoadPos, PushLoadSeq, PushReload, PushCas,
           PushCasFails, PushWrite, PushPublish, Goto, Threads
    <3>2. ASSUME NEW u \in Consumers, PopStep(u) PROVE FALSE
      BY <1>1, <2>1, <3>2 DEF PopStep, PopLoadPos, PopLoadSeq, PopReload, PopCas,
           PopCasFails, PopRead, PopRelease, Goto, Threads
    <3>3. PushStep(t)
      BY <1>1, <3>1, <3>2 DEF Next, vars
    <3> QED BY <1>1, <3>3 DEF PushStep, PushLoadPos, PushReload, PushCas, PushCasFails,
              PushWrite, PushPublish
  <2>3. sequence[Slot(pos[t])] < pos[t]
    BY <1>1, <2>1, <2>2 DEF PushLoadSeq, Goto, Threads
  <2>4. ~(pos[t] < dequeue_pos_)
    BY <1>1, <2>1, <2>3, PassedSequence
  <2>5. CASE enqueue_pos_ # dequeue_pos_ + Capacity
    <3>1. pos[t] \in dequeue_pos_ .. dequeue_pos_ + Capacity - 1
      BY <2>1, <2>4, <2>5
    <3>2. IF pos[t] < enqueue_pos_
          THEN sequence[Slot(pos[t])] = pos[t] + 1 \/ sequence[Slot(pos[t])] = pos[t]
          ELSE \/ sequence[Slot(pos[t])] = pos[t]
               \/ \E c \in Consumers : Reading(c) /\ pos[c] = pos[t] - Capacity
      BY <1>1, <3>1 DEF IInv, WindowInv
    <3>3. PICK c \in Consumers : Reading(c) /\ pos[c] = enqueue_pos_ - Capacity
      BY <2>1, <2>3, <3>2
    <3>4. pos[c] \in Nat
      BY <1>1 DEF IInv, TypeOK, Threads
    <3>5. Held[c] = Len(pushed) + 1 - Capacity /\ Len(pushed) + 1 - Capacity > 0
      BY <2>1, <3>3, <3>4 DEF Held, Owns, Threads
    <3> QED BY <3>5 DEF TQ!HasRoom
  <2>6. CASE enqueue_pos_ = dequeue_pos_ + Capacity
    BY <2>1, <2>6 DEF TQ!HasRoom
  <2> QED BY <2>5, <2>6
<1>2. ASSUME IInv, [Next]_vars, NEW t \in Consumers, pc[t] = "pop_seq", pc'[t] = "idle"
      PROVE  ~TQ!HasReady
  <2>1. /\ pos[t] \in Nat /\ enqueue_pos_ \in Nat /\ dequeue_pos_ \in Nat
        /\ pos[t] <= dequeue_pos_ /\ sequence[Slot(pos[t])] \in Nat
        /\ dequeue_pos_ <= enqueue_pos_
        /\ pc \in [Threads -> {"idle"} \cup PushStates \cup PopStates]
        /\ Len(pushed) = enqueue_pos_
    BY <1>2, SlotType DEF IInv, TypeOK, CasInv, Bounded, DataInv, Threads
  <2>2. PopLoadSeq(t)
    <3>1. ASSUME NEW u \in Producers, PushStep(u) PROVE FALSE
      BY <1>2, <2>1, <3>1 DEF PushStep, PushLoadPos, PushLoadSeq, PushReload, PushCas,
           PushCasFails, PushWrite, PushPublish, Goto, Threads
    <3>2. ASSUME NEW u \in Consumers, PopStep(u), u # t PROVE FALSE
      BY <1>2, <2>1, <3>2 DEF PopStep, PopLoadPos, PopLoadSeq, PopReload, PopCas,
           PopCasFails, PopRead, PopRelease, Goto, Threads
    <3>3. PopStep(t)
      BY <1>2, <3>1, <3>2 DEF Next, vars
    <3> QED BY <1>2, <3>3 DEF PopStep, PopLoadPos, PopReload, PopCas, PopCasFails,
              PopRead, PopRelease
  <2>3. sequence[Slot(pos[t])] < pos[t] + 1
    BY <1>2, <2>1, <2>2 DEF PopLoadSeq, Goto, Threads
  <2>4. pos[t] = dequeue_pos_
    BY <1>2, <2>1, <2>3, PassedSequence
  <2>5. CASE dequeue_pos_ < enqueue_pos_
    <3>1. \/ sequence[Slot(pos[t])] = pos[t] + 1
          \/ \E p \in Producers : Writing(p) /\ pos[p] = pos[t]
      BY <1>2, <2>1, <2>4, <2>5 DEF IInv, WindowInv
    <3>2. PICK p \in Producers : Writing(p) /\ pos[p] = dequeue_pos_
      BY <2>1, <2>3, <2>4, <3>1
    <3>3. Held[p] = dequeue_pos_ + 1
      BY <3>2 DEF Held, Owns, Threads
    <3> QED BY <3>3 DEF TQ!HasReady
  <2>6. CASE ~(dequeue_pos_ < enqueue_pos_)
    BY <2>1, <2>6 DEF TQ!HasReady
  <2> QED BY <2>5, <2>6
<1>3. IInv /\ [Next]_vars =>
        [/\ \A t \in Producers : pc[t] = "push_seq" /\ pc'[t] = "idle" => ~TQ!HasRoom
         /\ \A t \in Consumers : pc[t] = "pop_seq" /\ pc'[t] = "idle" => ~TQ!HasReady]_vars
  BY <1>1, <1>2
<1> QED BY <1>3, Invariance, PTL DEF Spec, HonestFailure
=============================================================================
