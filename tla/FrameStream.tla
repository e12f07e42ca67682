---------------------------- MODULE FrameStream ----------------------------
(***************************************************************************)
(* handle_cpp_connection of the packet service: one capture program writes *)
(* fixed-size frames (a PacketInfo and its HMAC) to a TLS stream, and the  *)
(* handler cuts the stream back into frames.  A byte is its offset in the  *)
(* stream, so frame k is the bytes from FrameLen * k on; a read returns    *)
(* any number of bytes, and the stream may end or fail anywhere.           *)
(***************************************************************************)
EXTENDS Integers, Sequences

CONSTANTS
  FrameLen,   (* TOTAL_MSG_SIZE                                             *)
  Allocated,  (* BytesMut::with_capacity(TOTAL_MSG_SIZE * 10)               *)
  Reserve,    (* the argument of buffer.reserve                             *)
  Limit,      (* 2 * 1024 * 1024                                            *)
  MaxFrames   (* bound: frames on the stream                                *)

ASSUME FrameAssumption ==
  /\ FrameLen \in Nat \ {0}
  /\ Reserve \in 1 .. FrameLen
  /\ Allocated \in Nat /\ Allocated >= 3 * FrameLen
  /\ Limit \in Nat /\ Allocated <= Limit
  /\ MaxFrames \in Nat

VARIABLES
  key,        \* the secret the capture program signs with
  conn,       \* "read", "parse", or how the connection ended
  taken,      \* bytes read from the stream
  len,        \* buffer.len(): the last len bytes read
  spare,      \* buffer.capacity() - buffer.len()
  published   \* the frames given to tx.send, by number

vars == <<key, conn, taken, len, spare, published>>

(* The capture program takes its secret from PACSNI_SHARED_SECRET or from  *)
(* a default; SHARED_SECRET of the service is that default.                *)
Keys == {"default", "configured"}
ServiceKey == "default"

(* The first byte in the buffer, and the number of the frame it belongs to. *)
Start == taken - len
FrameAtStart == Start \div FrameLen

Init ==
  /\ key \in Keys
  /\ conn = "read"
  /\ taken = 0
  /\ len = 0
  /\ spare = Allocated
  /\ published = <<>>

-----------------------------------------------------------------------------
(* Faulty variants of the handler's steps. *)

(* The room grows instead of being reclaimed. *)
RoomGrows == IF spare < FrameLen /\ spare < Reserve THEN Allocated ELSE spare

(* A limit of one frame instead of two megabytes. *)
ReadBufClearsEarly(n) ==
  /\ conn = "read"
  /\ taken + n <= FrameLen * MaxFrames
  /\ taken' = taken + n
  /\ IF len + n > FrameLen
     THEN /\ len' = 0
          /\ spare' = spare
          /\ UNCHANGED conn
     ELSE /\ len' = len + n
          /\ spare' = IF spare >= n THEN spare - n ELSE 0
          /\ conn' = "parse"
  /\ UNCHANGED <<key, published>>

(* The frame stays in the buffer. *)
ParseKeeps ==
  /\ conn = "parse"
  /\ len >= FrameLen
  /\ Start % FrameLen = 0 /\ key = ServiceKey
  /\ Len(published) < MaxFrames
  /\ published' = Append(published, FrameAtStart)
  /\ UNCHANGED <<key, conn, taken, len, spare>>

(* One frame per read: if in place of while. *)
ParseOnce ==
  /\ conn = "parse"
  /\ len >= FrameLen
  /\ Start % FrameLen = 0 /\ key = ServiceKey
  /\ published' = Append(published, FrameAtStart)
  /\ len' = len - FrameLen
  /\ conn' = "read"
  /\ UNCHANGED <<key, taken, spare>>

-----------------------------------------------------------------------------
(* buffer.reserve: BytesMut moves what it holds to the front of its        *)
(* allocation when that frees enough and the bytes already consumed are at *)
(* least as many as the ones it holds, which less than a frame left in an  *)
(* allocation of three always satisfies.                                   *)
Room == IF spare < FrameLen /\ spare < Reserve THEN Allocated - len ELSE spare

(* read_buf returns between one byte and the room; a buffer that has grown *)
(* past the limit is cleared, whatever it holds.                           *)
ReadBuf(n) ==
  /\ conn = "read"
  /\ taken + n <= FrameLen * MaxFrames
  /\ taken' = taken + n
  /\ IF len + n > Limit
     THEN /\ len' = 0
          /\ spare' = Room + len
          /\ UNCHANGED conn
     ELSE /\ len' = len + n
          /\ spare' = Room - n
          /\ conn' = "parse"
  /\ UNCHANGED <<key, published>>

(* The stream ends, or read_buf fails. *)
StreamEnds ==
  /\ conn = "read"
  /\ conn' \in {"closed", "failed"}
  /\ UNCHANGED <<key, taken, len, spare, published>>

(* hmac::verify: the bytes are one whole frame, signed with our secret. *)
Verifies == Start % FrameLen = 0 /\ key = ServiceKey

ParseFrame ==
  /\ conn = "parse"
  /\ len >= FrameLen
  /\ Verifies
  /\ published' = Append(published, FrameAtStart)
  /\ len' = len - FrameLen
  /\ UNCHANGED <<key, conn, taken, spare>>

RefuseFrame ==
  /\ conn = "parse"
  /\ len >= FrameLen
  /\ ~Verifies
  /\ conn' = "refused"
  /\ UNCHANGED <<key, taken, len, spare, published>>

ParseEnds ==
  /\ conn = "parse"
  /\ len < FrameLen
  /\ conn' = "read"
  /\ UNCHANGED <<key, taken, len, spare, published>>

Ended ==
  /\ conn \in {"closed", "failed", "refused"}
  /\ UNCHANGED vars

Next ==
  \/ \E n \in 1 .. Room : ReadBuf(n)
  \/ StreamEnds
  \/ ParseFrame
  \/ RefuseFrame
  \/ ParseEnds
  \/ Ended

Spec == Init /\ [][Next]_vars

-----------------------------------------------------------------------------
(* Types. *)
TypeOK ==
  /\ key \in Keys
  /\ conn \in {"read", "parse", "closed", "failed", "refused"}
  /\ taken \in Nat
  /\ len \in Nat
  /\ spare \in Nat
  /\ published \in Seq(Nat)

(* However the stream is cut into reads, the frames published are the      *)
(* frames written: none lost, none twice, none out of order, none made of  *)
(* two halves.                                                             *)
FramesWhole ==
  \A i \in 1 .. Len(published) : published[i] = i - 1

(* The connection is refused because of its secret and never because the   *)
(* handler lost its place in the stream.                                   *)
RefusedByKey ==
  conn = "refused" => key # ServiceKey

(* The buffer never grows to where it would be cleared, which would lose   *)
(* the place in the stream.                                                *)
NeverCleared ==
  len <= Limit /\ len + spare <= Allocated

(* Nothing is dropped in between: between two reads the buffer holds less  *)
(* than one frame, and all before it was published.                        *)
AllPublished ==
  conn = "read" => /\ len < FrameLen
                   /\ Start = FrameLen * Len(published)

(* The inductive invariant: what was consumed is whole frames, and the     *)
(* buffer always has room.                                                 *)
StreamInv ==
  /\ TypeOK
  /\ len <= taken
  /\ Start = FrameLen * Len(published)
  /\ len + spare <= Allocated
  /\ conn = "read" => len < FrameLen
  /\ FramesWhole
  /\ RefusedByKey
=============================================================================
