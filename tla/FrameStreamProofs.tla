------------------------ MODULE FrameStreamProofs ------------------------
(***************************************************************************)
(* FrameStream keeps its place in the stream for every frame length, every *)
(* buffer of at least three frames and every way the stream is cut into    *)
(* reads.                                                                  *)
(***************************************************************************)
EXTENDS FrameStream, TLAPS

(* Whole frames divide without a remainder. *)
LEMMA DivExact ==
  ASSUME NEW n \in Nat \ {0}, NEW a \in Nat, NEW x \in Nat, x = n * a
  PROVE  x % n = 0 /\ x \div n = a
<1> DEFINE q == x \div n
           r == x % n
<1>1. q \in Int /\ r \in 0 .. n - 1 /\ n * a = n * q + r
  OBVIOUS
<1> HIDE DEF q, r
<1>2. \A j, k \in Nat : j * k \in Nat
  OBVIOUS
<1>3. a <= q
  <2>1. SUFFICES ASSUME a > q PROVE FALSE
    BY <1>1
  <2>2. n * (a - q - 1) \in Nat
    BY <1>1, <1>2, <2>1
  <2>3. n * (a - q - 1) = n * a - n * q - n
    BY <1>1
  <2> QED BY <1>1, <2>2, <2>3
<1>4. q <= a
  <2>1. SUFFICES ASSUME q > a PROVE FALSE
    BY <1>1
  <2>2. n * (q - a - 1) \in Nat
    BY <1>1, <1>2, <2>1
  <2>3. n * (q - a - 1) = n * q - n * a - n
    BY <1>1
  <2> QED BY <1>1, <2>2, <2>3
<1>5. q = a
  BY <1>1, <1>3, <1>4
<1>6. r = 0
  BY <1>1, <1>5
<1> QED BY <1>5, <1>6 DEF q, r

(* The room a read finds is within the allocation. *)
LEMMA RoomFits ==
  ASSUME StreamInv, conn = "read"
  PROVE  Room \in Nat /\ len + Room <= Allocated
BY FrameAssumption DEF Room, StreamInv, TypeOK

(* At a frame boundary the bytes verify exactly if the secret is right,    *)
(* and the frame is the one after those already published.                 *)
LEMMA AtBoundary ==
  ASSUME StreamInv
  PROVE  Start % FrameLen = 0 /\ FrameAtStart = Len(published)
<1>1. /\ Start \in Nat
      /\ Len(published) \in Nat
      /\ Start = FrameLen * Len(published)
  BY DEF StreamInv, TypeOK, Start
<1>2. FrameLen \in Nat \ {0}
  BY FrameAssumption
<1>3. Start % FrameLen = 0 /\ Start \div FrameLen = Len(published)
  BY <1>1, <1>2, DivExact
<1> QED BY <1>3 DEF FrameAtStart

(* A new connection has consumed nothing. *)
LEMMA StreamInit == Init => StreamInv
BY FrameAssumption DEF Init, StreamInv, TypeOK, Start, FramesWhole, RefusedByKey, Keys

(* A read never reaches the limit, so it only moves the end of the buffer. *)
LEMMA StreamRead ==
  ASSUME StreamInv, NEW n \in 1 .. Room, ReadBuf(n)
  PROVE  StreamInv'
<1>1. conn = "read"
  BY DEF ReadBuf
<1>2. Room \in Nat /\ len + Room <= Allocated
  BY <1>1, RoomFits
<1>3. /\ len \in Nat /\ taken \in Nat /\ spare \in Nat
      /\ Allocated \in Nat /\ Limit \in Nat /\ Allocated <= Limit
  BY FrameAssumption DEF StreamInv, TypeOK
<1>4. n \in Nat /\ n <= Room
  BY <1>2
<1>5. ~(len + n > Limit)
  BY <1>2, <1>3, <1>4
<1>6. /\ taken' = taken + n
      /\ len' = len + n
      /\ spare' = Room - n
      /\ conn' = "parse"
      /\ key' = key /\ published' = published
  BY <1>5 DEF ReadBuf
<1>7. taken' \in Nat /\ len' \in Nat /\ spare' \in Nat /\ len' + spare' <= Allocated
  BY <1>2, <1>3, <1>4, <1>6
<1>8. Start' = Start /\ len' <= taken'
  BY <1>3, <1>4, <1>6 DEF StreamInv, Start
<1> QED BY <1>6, <1>7, <1>8 DEF StreamInv, TypeOK, FramesWhole, RefusedByKey

(* A frame that verifies is the next one. *)
LEMMA StreamParse ==
  ASSUME StreamInv, ParseFrame
  PROVE  StreamInv'
<1>1. FrameAtStart = Len(published)
  BY AtBoundary
<1>2. /\ published' = Append(published, Len(published))
      /\ len' = len - FrameLen
      /\ key' = key /\ conn' = "parse" /\ taken' = taken /\ spare' = spare
      /\ len >= FrameLen
  BY <1>1 DEF ParseFrame
<1>3. /\ len \in Nat /\ taken \in Nat /\ spare \in Nat /\ published \in Seq(Nat)
      /\ FrameLen \in Nat /\ Allocated \in Nat
      /\ len <= taken /\ len + spare <= Allocated
  BY FrameAssumption DEF StreamInv, TypeOK
<1>4. published' \in Seq(Nat) /\ Len(published') = Len(published) + 1
  BY <1>2, <1>3
<1>5. FramesWhole'
  <2> SUFFICES ASSUME NEW i \in 1 .. Len(published')
               PROVE  published'[i] = i - 1
    BY DEF FramesWhole
  <2>1. CASE i <= Len(published)
    <3>1. i \in 1 .. Len(published) /\ published'[i] = published[i]
      BY <1>2, <1>3, <2>1
    <3> QED BY <3>1 DEF StreamInv, FramesWhole
  <2>2. CASE i = Len(published) + 1
    BY <1>2, <1>3, <2>2
  <2> QED BY <1>3, <1>4, <2>1, <2>2
<1>6. Start' = Start + FrameLen
  BY <1>2, <1>3 DEF Start
<1>7. FrameLen * (Len(published) + 1) = FrameLen * Len(published) + FrameLen
  BY <1>3
<1>8. Start' = FrameLen * Len(published')
  BY <1>4, <1>6, <1>7 DEF StreamInv
<1>9. len' \in Nat /\ len' <= taken' /\ len' + spare' <= Allocated
  BY <1>2, <1>3
<1> QED BY <1>2, <1>3, <1>4, <1>5, <1>8, <1>9 DEF StreamInv, TypeOK, RefusedByKey

(* A frame that does not verify was signed with another secret. *)
LEMMA StreamRefuse ==
  ASSUME StreamInv, RefuseFrame
  PROVE  StreamInv'
<1>1. key # ServiceKey
  BY AtBoundary DEF RefuseFrame, Verifies
<1>2. /\ UNCHANGED <<key, taken, len, spare, published>>
      /\ conn' = "refused"
  BY DEF RefuseFrame
<1>3. Start' = Start
  BY <1>2 DEF Start
<1> QED BY <1>1, <1>2, <1>3 DEF StreamInv, TypeOK, FramesWhole, RefusedByKey

(* Every read, parsed frame, refusal and end of the handler keeps its place. *)
LEMMA StreamStep == StreamInv /\ [Next]_vars => StreamInv'
<1> SUFFICES ASSUME StreamInv, [Next]_vars
             PROVE  StreamInv'
  OBVIOUS
<1>1. ASSUME NEW n \in 1 .. Room, ReadBuf(n)
      PROVE  StreamInv'
  BY <1>1, StreamRead
<1>2. CASE StreamEnds
  <2>1. Start' = Start
    BY <1>2 DEF StreamEnds, Start
  <2> QED BY <1>2, <2>1 DEF StreamEnds, StreamInv, TypeOK, FramesWhole, RefusedByKey
<1>3. CASE ParseFrame
  BY <1>3, StreamParse
<1>4. CASE RefuseFrame
  BY <1>4, StreamRefuse
<1>5. CASE ParseEnds
  <2>1. Start' = Start
    BY <1>5 DEF ParseEnds, Start
  <2> QED BY <1>5, <2>1 DEF ParseEnds, StreamInv, TypeOK, FramesWhole, RefusedByKey
<1>6. CASE Ended \/ UNCHANGED vars
  <2>1. UNCHANGED vars
    BY <1>6 DEF Ended
  <2>2. Start' = Start
    BY <2>1 DEF vars, Start
  <2> QED BY <2>1, <2>2 DEF vars, StreamInv, TypeOK, FramesWhole, RefusedByKey
<1> QED BY <1>1, <1>2, <1>3, <1>4, <1>5, <1>6 DEF Next

(* handle_cpp_connection never loses its place: what the parse loop of the *)
(* handler has consumed is always a whole number of frames.                *)
THEOREM StreamKeepsPlace == Spec => []StreamInv
BY StreamInit, StreamStep, PTL DEF Spec

(* The frames given to tx.send are the frames of the stream in order, with *)
(* no bound on their number.                                               *)
THEOREM FramesStayWhole == Spec => []FramesWhole
<1>1. StreamInv => FramesWhole
  BY DEF StreamInv
<1> QED BY <1>1, StreamKeepsPlace, PTL

(* The HMAC test refuses a connection only for its secret. *)
THEOREM RefusalsAreKeys == Spec => []RefusedByKey
<1>1. StreamInv => RefusedByKey
  BY DEF StreamInv
<1> QED BY <1>1, StreamKeepsPlace, PTL

(* The branch that clears an overgrown buffer is never taken. *)
THEOREM BufferIsNeverCleared == Spec => []NeverCleared
<1>1. StreamInv => NeverCleared
  BY FrameAssumption DEF StreamInv, TypeOK, NeverCleared
<1> QED BY <1>1, StreamKeepsPlace, PTL

(* Whenever the handler waits in read_buf it has published every whole     *)
(* frame it received.                                                      *)
THEOREM NothingIsHeldBack == Spec => []AllPublished
<1>1. StreamInv => AllPublished
  BY DEF StreamInv, AllPublished
<1> QED BY <1>1, StreamKeepsPlace, PTL
=============================================================================
