------------------------- MODULE HistoryRingProofs -------------------------
(***************************************************************************)
(* The packet history is right for every ring size: head, count and the    *)
(* two index formulas of GetAll describe the last Size packets.            *)
(***************************************************************************)
EXTENDS HistoryRing, SequenceTheorems, TLAPS

(* The remainder without a division: the quotient is 0 or 1. *)
LEMMA RingWrap == \A x \in 0 .. 2 * Size - 1 : x % Size = IF x < Size THEN x ELSE x - Size
<1> SUFFICES ASSUME NEW x \in 0 .. 2 * Size - 1
             PROVE  x % Size = IF x < Size THEN x ELSE x - Size
  OBVIOUS
<1> DEFINE q == x \div Size
           r == x % Size
<1>1. Size \in Nat \ {0} /\ x \in Nat /\ x < 2 * Size
  BY SizeAssumption
<1>2. q \in Int /\ r \in 0 .. Size - 1 /\ x = Size * q + r
  BY <1>1
<1> HIDE DEF q, r
<1>3. \A j, k \in Nat : j * k \in Nat
  OBVIOUS
<1>4. q >= 0
  <2>1. SUFFICES ASSUME q < 0 PROVE FALSE
    BY <1>2
  <2>2. Size * (0 - q - 1) \in Nat
    BY <1>1, <1>2, <1>3, <2>1
  <2>3. Size * (0 - q - 1) = 0 - Size * q - Size
    BY <1>1, <1>2
  <2> QED BY <1>1, <1>2, <2>2, <2>3
<1>5. q < 2
  <2>1. SUFFICES ASSUME q >= 2 PROVE FALSE
    BY <1>2
  <2>2. Size * (q - 2) \in Nat
    BY <1>1, <1>2, <1>3, <2>1
  <2>3. Size * (q - 2) = Size * q - 2 * Size
    BY <1>1, <1>2
  <2> QED BY <1>1, <1>2, <2>2, <2>3
<1>6. x = r \/ x = Size + r
  BY <1>1, <1>2, <1>4, <1>5
<1> QED BY <1>1, <1>2, <1>6 DEF r

(* head wraps to the first slot after the last one. *)
LEMMA NextHead ==
  ASSUME NEW h \in Slots
  PROVE  (h + 1) % Size = IF h + 1 = Size THEN 0 ELSE h + 1
<1> DEFINE x == h + 1
<1>1. x \in 0 .. 2 * Size - 1
  BY SizeAssumption DEF Slots
<1>2. x % Size = IF x < Size THEN x ELSE x - Size
  BY <1>1, RingWrap
<1> QED BY <1>2, SizeAssumption DEF Slots

(* The constructor establishes the invariant of the ring. *)
LEMMA RingInit == Init => RingInv
<1> USE SizeAssumption
<1> QED BY DEF Init, RingInv, TypeOK, Slots

(* Every method preserves the invariant of the ring. *)
LEMMA RingStep == RingInv /\ [Next]_vars => RingInv'
<1> SUFFICES ASSUME RingInv, [Next]_vars PROVE RingInv'
  OBVIOUS
<1> USE SizeAssumption DEF RingInv, TypeOK
<1>1. ASSUME NEW v \in Values, Add(v) PROVE RingInv'
  <2>1. head' = IF head + 1 = Size THEN 0 ELSE head + 1
    BY <1>1, NextHead DEF Add
  <2>2. TypeOK'
    BY <1>1, <2>1 DEF Add, Slots
  <2>3. (count < Size => head = count)'
    BY <1>1, <2>1 DEF Add, Slots
  <2>4. \A i \in Slots : i < count' => data'[i] \in Values
    BY <1>1 DEF Add, Slots
  <2> QED BY <2>2, <2>3, <2>4
<1>2. CASE Clear
  BY <1>2 DEF Clear, Slots
<1>3. ASSUME NEW f \in [Values -> Values], Update(f) PROVE RingInv'
  BY <1>3 DEF Update, Slots
<1>4. CASE UNCHANGED vars
  BY <1>4 DEF vars
<1> QED BY <1>1, <1>2, <1>3, <1>4 DEF Next

(* Update and GetAll only ever visit slots that Add has written. *)
THEOREM RingIsSound == Spec => []RingInv
  BY RingInit, RingStep, PTL DEF Spec

(* The slot of the i-th element without the remainder. *)
LEMMA ForwardIndex ==
  ASSUME RingInv, NEW i \in 0 .. count - 1
  PROVE  /\ ForwardSlot(i) = IF count = Size
                             THEN IF head + i < Size THEN head + i ELSE head + i - Size
                             ELSE i
         /\ ForwardSlot(i) \in Slots
<1> USE SizeAssumption DEF RingInv, TypeOK, Slots
<1> DEFINE x == Start + i
<1>1. x \in 0 .. 2 * Size - 1
  BY DEF Start
<1>2. x % Size = IF x < Size THEN x ELSE x - Size
  BY <1>1, RingWrap
<1> QED BY <1>1, <1>2 DEF ForwardSlot, Start

(* The two index formulas count the same slots from opposite ends. *)
LEMMA ReversedIndex ==
  ASSUME RingInv, NEW i \in 0 .. count - 1
  PROVE  ReversedSlot(i) = ForwardSlot(count - 1 - i)
<1> DEFINE x == head - 1 - i + Size
           j == count - 1 - i
<1>1. /\ Size \in Nat /\ Size > 0 /\ head \in 0 .. Size - 1 /\ count \in 0 .. Size
      /\ count < Size => head = count
  BY SizeAssumption DEF RingInv, TypeOK, Slots
<1>2. x \in 0 .. 2 * Size - 1 /\ j \in 0 .. count - 1
  BY <1>1
<1>3. x % Size = IF x < Size THEN x ELSE x - Size
  BY <1>2, RingWrap
<1>4. ForwardSlot(j) = IF count = Size
                       THEN IF head + j < Size THEN head + j ELSE head + j - Size
                       ELSE j
  <2> HIDE DEF j
  <2> QED BY <1>2, ForwardIndex
<1>5. x % Size = ForwardSlot(j)
  BY <1>1, <1>3, <1>4
<1> QED BY <1>5 DEF ReversedSlot

(* The list of /api/packets is the list of /api/export reversed. *)
THEOREM OrdersAlwaysAgree == Spec => []OrdersAgree
<1>1. RingInv => OrdersAgree
  <2> SUFFICES ASSUME RingInv, NEW i \in 1 .. count
               PROVE  GetAll(TRUE)[i] = GetAll(FALSE)[count + 1 - i]
    BY DEF OrdersAgree
  <2>1. count \in Nat /\ i - 1 \in 0 .. count - 1 /\ count + 1 - i \in 1 .. count
    BY DEF RingInv, TypeOK
  <2>2. ReversedSlot(i - 1) = ForwardSlot(count - 1 - (i - 1))
    BY <2>1, ReversedIndex
  <2>3. count - 1 - (i - 1) = count + 1 - i - 1
    BY <2>1
  <2> QED BY <2>1, <2>2, <2>3 DEF GetAll
<1> QED BY <1>1, RingIsSound, PTL
-----------------------------------------------------------------------------

(* The slot of the i-th element (from 1), oldest first, without remainders, *)
(* and the list of all elements.                                            *)
Place(i) == IF count = Size
            THEN IF head + i - 1 < Size THEN head + i - 1 ELSE head + i - 1 - Size
            ELSE i - 1

Listing ==
  /\ GetAll(FALSE) \in Seq(Values)
  /\ Len(GetAll(FALSE)) = count
  /\ \A i \in 1 .. count : GetAll(FALSE)[i] = data[Place(i)]

(* GetAll(FALSE) lists the elements by their places. *)
LEMMA ForwardList == RingInv => Listing
<1> SUFFICES ASSUME RingInv PROVE Listing
  OBVIOUS
<1>1. /\ Size \in Nat /\ Size > 0 /\ head \in 0 .. Size - 1 /\ count \in 0 .. Size
      /\ count < Size => head = count
      /\ \A i \in 0 .. Size - 1 : i < count => data[i] \in Values
  BY SizeAssumption DEF RingInv, TypeOK, Slots
<1>2. ASSUME NEW i \in 1 .. count
      PROVE  /\ ForwardSlot(i - 1) = Place(i)
             /\ data[ForwardSlot(i - 1)] \in Values
  <2> DEFINE j == i - 1
  <2>1. j \in 0 .. count - 1
    BY <1>1
  <2>2. ForwardSlot(j) = IF count = Size
                         THEN IF head + j < Size THEN head + j ELSE head + j - Size
                         ELSE j
    <3> HIDE DEF j
    <3> QED BY <2>1, ForwardIndex
  <2>3. ForwardSlot(j) \in 0 .. Size - 1 /\ ForwardSlot(j) < count
    BY <1>1, <2>1, <2>2
  <2> QED BY <1>1, <2>1, <2>2, <2>3 DEF Place
<1>3. GetAll(FALSE) = [i \in 1 .. count |-> data[ForwardSlot(i - 1)]]
  BY DEF GetAll
<1>4. GetAll(FALSE) \in Seq(Values) /\ Len(GetAll(FALSE)) = count
  <2>1. GetAll(FALSE) \in [1 .. count -> Values]
    BY <1>2, <1>3
  <2>2. count \in Nat
    BY <1>1
  <2> DEFINE all == GetAll(FALSE)
  <2> HIDE DEF all
  <2>3. all \in [1 .. count -> Values]
    BY <2>1 DEF all
  <2>4. all \in Seq(Values) /\ Len(all) = count
    BY <2>2, <2>3
  <2> QED BY <2>4 DEF all
<1>5. \A i \in 1 .. count : GetAll(FALSE)[i] = data[Place(i)]
  BY <1>2, <1>3
<1> QED BY <1>4, <1>5 DEF Listing

(* Appending to a list with room, and to a full one. *)
LEMMA AppendList ==
  ASSUME NEW old \in Seq(Values), NEW new \in Seq(Values), NEW v \in Values,
         Len(new) = Len(old) + 1,
         \A i \in 1 .. Len(old) : new[i] = old[i],
         new[Len(old) + 1] = v
  PROVE  new = Append(old, v)
<1>1. /\ Append(old, v) \in Seq(Values) /\ Len(Append(old, v)) = Len(old) + 1
      /\ Len(old) \in Nat
      /\ \A i \in 1 .. Len(old) : Append(old, v)[i] = old[i]
      /\ Append(old, v)[Len(old) + 1] = v
  OBVIOUS
<1>2. \A i \in 1 .. Len(new) : new[i] = Append(old, v)[i]
  BY <1>1
<1> QED BY <1>1, <1>2, SeqEqual

(* A list that has moved up by one with v at its end is Append(Tail(s), v): *)
(* what Add does to a full ring.                                           *)
LEMMA ShiftList ==
  ASSUME NEW old \in Seq(Values), NEW new \in Seq(Values), NEW v \in Values,
         Len(new) = Len(old), Len(old) > 0,
         \A i \in 1 .. Len(old) - 1 : new[i] = old[i + 1],
         new[Len(old)] = v
  PROVE  new = Append(Tail(old), v)
<1>1. Len(old) \in Nat /\ old # <<>>
  OBVIOUS
<1>2. /\ Tail(old) \in Seq(Values) /\ Len(Tail(old)) = Len(old) - 1
      /\ \A i \in 1 .. Len(old) - 1 : Tail(old)[i] = old[i + 1]
  BY <1>1, HeadTailProperties
<1>3. \A i \in 1 .. Len(Tail(old)) : new[i] = Tail(old)[i]
  BY <1>1, <1>2
<1>4. Len(new) = Len(Tail(old)) + 1 /\ new[Len(Tail(old)) + 1] = v
  BY <1>1, <1>2
<1> QED BY <1>2, <1>3, <1>4, AppendList

(* Add appends, and drops the oldest element when the ring is full. *)
LEMMA AddMaps ==
  ASSUME RingInv, Listing, Listing', NEW v \in Values, Add(v)
  PROVE  History!Add(v)
<1>1. /\ Size \in Nat /\ Size > 0 /\ head \in 0 .. Size - 1 /\ count \in 0 .. Size
      /\ count < Size => head = count
      /\ data' = [data EXCEPT ![head] = v]
      /\ head' = IF head + 1 = Size THEN 0 ELSE head + 1
      /\ count' = IF count < Size THEN count + 1 ELSE count
      /\ data \in [0 .. Size - 1 -> Values \cup {Zero}]
  BY SizeAssumption, NextHead DEF RingInv, TypeOK, Slots, Add
<1>2. PICK old \in Seq(Values) : /\ old = GetAll(FALSE) /\ Len(old) = count
                                 /\ \A i \in 1 .. count : old[i] = data[Place(i)]
  BY DEF Listing
<1>3. PICK new \in Seq(Values) : /\ new = GetAll(FALSE)' /\ Len(new) = count'
                                 /\ \A i \in 1 .. count' : new[i] = data'[Place(i)']
  BY DEF Listing
<1>2a. Len(old) = count /\ \A i \in 1 .. count : old[i] = data[Place(i)]
  BY <1>2
<1>3a. Len(new) = count' /\ \A i \in 1 .. count' : new[i] = data'[Place(i)']
  BY <1>3
<1>4. CASE count < Size
  <2>1. \A i \in 1 .. count + 1 : Place(i)' = i - 1
    BY <1>1, <1>4 DEF Place
  <2>2. \A i \in 1 .. count : Place(i) = i - 1
    BY <1>1, <1>4 DEF Place
  <2>3. ASSUME NEW i \in 1 .. count PROVE new[i] = old[i]
    <3>1. i \in 1 .. count' /\ i \in 1 .. count + 1 /\ i - 1 \in 0 .. Size - 1 /\ i - 1 # head
      BY <1>1, <1>4
    <3>2. new[i] = data'[i - 1] /\ old[i] = data[i - 1]
      BY <1>2a, <1>3a, <2>1, <2>2, <3>1
    <3> QED BY <1>1, <3>1, <3>2
  <2>4. new[count + 1] = v
    BY <1>1, <1>3a, <1>4, <2>1
  <2>5. new = Append(old, v)
    BY <1>1, <1>2a, <1>3a, <1>4, <2>3, <2>4, AppendList
  <2> QED BY <1>2, <1>3, <1>4, <2>5 DEF History!Add
<1>5. CASE ~(count < Size)
  <2>1. count = Size /\ count' = Size
    BY <1>1, <1>5
  <2>2. \A i \in 1 .. Size - 1 : /\ Place(i)' = Place(i + 1)
                                  /\ Place(i + 1) \in 0 .. Size - 1
                                  /\ Place(i + 1) # head
    BY <1>1, <2>1 DEF Place
  <2>3. Place(Size)' = head
    BY <1>1, <2>1 DEF Place
  <2>4. ASSUME NEW i \in 1 .. Size - 1 PROVE new[i] = old[i + 1]
    <3>1. i \in 1 .. count' /\ i + 1 \in 1 .. count
      BY <1>1, <2>1
    <3>2. new[i] = data'[Place(i)'] /\ old[i + 1] = data[Place(i + 1)]
      BY <1>2a, <1>3a, <3>1
    <3>3. data'[Place(i + 1)] = data[Place(i + 1)]
      BY <1>1, <2>2
    <3> QED BY <2>2, <3>2, <3>3
  <2>5. new[Size] = v
    BY <1>1, <1>3a, <2>1, <2>3
  <2>6. new = Append(Tail(old), v)
    BY <1>1, <1>2a, <1>3a, <2>1, <2>4, <2>5, ShiftList
  <2> QED BY <1>2, <1>3, <1>5, <2>6 DEF History!Add
<1> QED BY <1>4, <1>5

(* Clear empties the list. *)
LEMMA ClearMaps ==
  ASSUME Listing', Clear PROVE History!Clear
<1>1. PICK new \in Seq(Values) : new = GetAll(FALSE)' /\ Len(new) = 0
  BY DEF Listing, Clear
<1>2. Len(new) = 0
  BY <1>1
<1>3. new = <<>>
  BY <1>2
<1> QED BY <1>1, <1>3 DEF History!Clear

(* Update changes every element of the list, each by the callback. *)
LEMMA UpdateMaps ==
  ASSUME RingInv, Listing, Listing', NEW f \in [Values -> Values], Update(f)
  PROVE  History!Update(f)
<1>1. /\ Size \in Nat /\ Size > 0 /\ head \in 0 .. Size - 1 /\ count \in 0 .. Size
      /\ head' = head /\ count' = count
      /\ data' = [i \in 0 .. Size - 1 |-> IF i < count THEN f[data[i]] ELSE data[i]]
  BY SizeAssumption DEF RingInv, TypeOK, Slots, Update
<1>2. PICK old \in Seq(Values) : /\ old = GetAll(FALSE) /\ Len(old) = count
                                 /\ \A i \in 1 .. count : old[i] = data[Place(i)]
  BY DEF Listing
<1>3. PICK new \in Seq(Values) : /\ new = GetAll(FALSE)' /\ Len(new) = count'
                                 /\ \A i \in 1 .. count' : new[i] = data'[Place(i)']
  BY DEF Listing
<1>4. \A i \in 1 .. count : /\ Place(i)' = Place(i)
                            /\ Place(i) \in 0 .. Size - 1 /\ Place(i) < count
  BY <1>1 DEF Place
<1>2a. Len(old) = count /\ \A i \in 1 .. count : old[i] = data[Place(i)]
  BY <1>2
<1>3a. Len(new) = count' /\ \A i \in 1 .. count' : new[i] = data'[Place(i)']
  BY <1>3
<1>5. ASSUME NEW i \in 1 .. count PROVE new[i] = f[old[i]]
  <2>1. data'[Place(i)] = f[data[Place(i)]]
    BY <1>1, <1>4
  <2> QED BY <1>1, <1>2a, <1>3a, <1>4, <2>1
<1>6. DOMAIN old = 1 .. count /\ DOMAIN new = 1 .. count
  BY <1>1, <1>2a, <1>3a
<1>7. new = [i \in DOMAIN new |-> new[i]]
  OBVIOUS
<1>8. new = [i \in DOMAIN old |-> f[old[i]]]
  BY <1>5, <1>6, <1>7
<1> QED BY <1>2, <1>3, <1>8 DEF History!Update

(* The history a browser is shown is the last Size packets added since the *)
(* last clear, for every size of the ring.                                 *)
THEOREM RingIsHistory == Spec => ImplementsHistory
<1>1. Init => History!Init
  <2> SUFFICES ASSUME Init PROVE GetAll(FALSE) = <<>>
    BY DEF History!Init
  <2>1. PICK all \in Seq(Values) : all = GetAll(FALSE) /\ Len(all) = 0
    BY RingInit, ForwardList DEF Init, Listing
  <2>2. Len(all) = 0
    BY <2>1
  <2>3. all = <<>>
    BY <2>2
  <2> QED BY <2>1, <2>3
<1>2. RingInv /\ Listing /\ Listing' /\ [Next]_vars => [History!Next]_(GetAll(FALSE))
  <2> SUFFICES ASSUME RingInv, Listing, Listing', [Next]_vars
               PROVE  History!Next \/ UNCHANGED GetAll(FALSE)
    OBVIOUS
  <2>1. ASSUME NEW v \in Values, Add(v) PROVE History!Next
    BY <2>1, AddMaps DEF History!Next
  <2>2. CASE Clear
    BY <2>2, ClearMaps DEF History!Next
  <2>3. ASSUME NEW f \in [Values -> Values], Update(f) PROVE History!Next
    BY <2>3, UpdateMaps DEF History!Next
  <2>4. CASE UNCHANGED vars
    BY <2>4 DEF vars, GetAll, ForwardSlot, ReversedSlot, Start
  <2> QED BY <2>1, <2>2, <2>3, <2>4 DEF Next
<1> QED BY <1>1, <1>2, RingIsSound, ForwardList, PTL DEF Spec, ImplementsHistory, History!Spec
=============================================================================
