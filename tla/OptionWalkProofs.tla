-------------------------- MODULE OptionWalkProofs --------------------------
(***************************************************************************)
(* The loops of the dissectors stay in bounds and move forward for regions *)
(* of every length and with every content.                                 *)
(***************************************************************************)
EXTENDS OptionWalk, TLAPS

(* The assumptions on the constants, as facts about each value. *)
LEMMA Values ==
  /\ \A l \in Byte : l \in Int /\ 0 <= l /\ l <= 255
  /\ \A l \in Word : l \in Int /\ 0 <= l
  /\ \A l \in Host : l \in Int /\ 0 <= l /\ l <= 32
  BY ByteAssumption, WordAssumption, HostAssumption

(* What a TCP option is read for lies within the option, and the blocks of *)
(* a SACK option fit in tcp_sack_edges.                                    *)
LEMMA OptionReadsFit ==
  ASSUME NEW kind \in Byte, NEW l \in Byte, l >= 2
  PROVE  /\ OptionReads(kind, l) \in Nat /\ OptionReads(kind, l) <= l
         /\ l >= 10 => Blocks(l) \in Nat /\ 8 * Blocks(l) <= 32
<1>1. l \in 0 .. 255
  BY ByteAssumption
<1>2. (l - 2) \div 8 \in Nat /\ 8 * ((l - 2) \div 8) <= l - 2
  BY <1>1
<1>3. Blocks(l) \in Nat /\ 8 * Blocks(l) <= 32 /\ 8 * Blocks(l) <= l - 2
  BY <1>1, <1>2 DEF Blocks, Least
<1> QED
  BY <1>1, <1>3 DEF OptionReads

(* Every walk starts inside its region. *)
LEMMA InitInv == Init => WalkInv
  BY LensAssumption, WalksAssumption
  DEF Init, WalkInv, TypeOK, Place, AccessesFit, Overrun, Room, Ended

(* Every turn keeps the invariant, one loop after the other. *)
LEMMA StepInv == WalkInv /\ [Next]_vars => WalkInv'
<1> SUFFICES ASSUME WalkInv, [Next]_vars PROVE WalkInv'
  OBVIOUS
<1> USE Values
    DEF WalkInv, TypeOK, Place, AccessesFit, Overrun, Room, Ended, Goes, Keeps, Turn, Least
<1>1. CASE TcpOption
  <2>1. walk = "tcp" /\ pc = "loop" /\ pos < len
    BY <1>1 DEF TcpOption
  <2>2. PICK kind \in Byte :
          \/ kind = 0 /\ Goes("done", pos, pos + 1, 0)
          \/ kind = 1 /\ Goes("loop", pos + 1, pos + 1, 0)
          \/ kind > 1 /\ pos + 1 >= len /\ Goes("done", pos, pos + 1, 0)
          \/ /\ kind > 1 /\ pos + 1 < len
             /\ \E l \in Byte :
                  \/ ~Fits(l) /\ Goes("done", pos, pos + 2, 0)
                  \/ /\ Fits(l)
                     /\ Goes("loop", pos + l, pos + OptionReads(kind, l),
                             IF kind = 5 /\ l >= 10 THEN 8 * Blocks(l) ELSE 0)
    BY <1>1 DEF TcpOption
  <2>3. CASE kind = 0 /\ Goes("done", pos, pos + 1, 0)
    BY <1>1, <2>1, <2>3 DEF TcpOption
  <2>4. CASE kind = 1 /\ Goes("loop", pos + 1, pos + 1, 0)
    BY <1>1, <2>1, <2>4 DEF TcpOption
  <2>5. CASE kind > 1 /\ pos + 1 >= len /\ Goes("done", pos, pos + 1, 0)
    BY <1>1, <2>1, <2>5 DEF TcpOption
  <2>6. ASSUME pos + 1 < len, NEW l \in Byte, ~Fits(l), Goes("done", pos, pos + 2, 0)
        PROVE  WalkInv'
    BY <1>1, <2>1, <2>6 DEF TcpOption
  <2>7. ASSUME NEW l \in Byte, Fits(l),
               Goes("loop", pos + l, pos + OptionReads(kind, l),
                    IF kind = 5 /\ l >= 10 THEN 8 * Blocks(l) ELSE 0)
        PROVE  WalkInv'
    <3>1. l \in 0 .. 255 /\ l >= 2 /\ pos + l <= len
      BY <2>7 DEF Fits
    <3>2. OptionReads(kind, l) \in Nat /\ OptionReads(kind, l) <= l
      BY <3>1, OptionReadsFit
    <3>3. l >= 10 => Blocks(l) \in Nat /\ 8 * Blocks(l) <= 32
      BY <3>1, OptionReadsFit
    <3>4. UNCHANGED <<end, out>>
      BY <1>1 DEF TcpOption
    <3> HIDE DEF Least
    <3> QED
      BY <2>1, <2>7, <3>1, <3>2, <3>3, <3>4
  <2> QED
    BY <2>2, <2>3, <2>4, <2>5, <2>6, <2>7
<1>2. CASE DhcpOption
  BY <1>2 DEF DhcpOption
<1>3. CASE LldpTlv
  BY <1>3 DEF LldpTlv
<1>4. CASE DnsLabel
  BY <1>4 DEF DnsLabel
<1>5. CASE DnsEnd
  BY <1>5 DEF DnsEnd
<1>6. CASE SniSession
  BY <1>6 DEF SniSession
<1>7. CASE SniCiphers
  BY <1>7 DEF SniCiphers
<1>8. CASE SniCompression
  BY <1>8 DEF SniCompression
<1>9. CASE SniExtensions
  BY <1>9 DEF SniExtensions
<1>10. CASE SniExtension
  BY <1>10 DEF SniExtension
<1>11. CASE TextByte
  BY <1>11 DEF TextByte
<1>12. CASE TextEnd
  BY <1>12 DEF TextEnd
<1>13. CASE TextHost
  BY <1>13 DEF TextHost
<1>14. CASE LoopEnds
  BY <1>14 DEF LoopEnds
<1>15. CASE UNCHANGED vars
  BY <1>15 DEF vars
<1> QED
  BY <1>1, <1>2, <1>3, <1>4, <1>5, <1>6, <1>7, <1>8, <1>9, <1>10, <1>11, <1>12, <1>13, <1>14, <1>15
  DEF Next

(* The dissectors keep the inductive invariant for every region. *)
THEOREM WalkInvariance == Spec => []WalkInv
<1> QED
  BY InitInv, StepInv, PTL DEF Spec

(* For regions of every length and content, no loop of a dissector reads   *)
(* or writes outside of what it was given, the stated exceptions aside.    *)
THEOREM WalksFit == Spec => []AccessesFit
<1>1. WalkInv => AccessesFit
  BY DEF WalkInv
<1> QED
  BY <1>1, WalkInvariance, PTL

(* Every turn of every loop moves forward or ends it. *)
THEOREM WalksAdvance == Spec => Advances
<1>1. ASSUME WalkInv, [Next]_vars PROVE [pos' > pos \/ pc' # "loop"]_vars
  <2> SUFFICES ASSUME Next PROVE pos' > pos \/ pc' # "loop"
    BY <1>1
  <2> USE <1>1, Values DEF WalkInv, TypeOK, Goes, Turn, Least
  <2>1. CASE TcpOption \/ DhcpOption
    BY <2>1 DEF TcpOption, DhcpOption, Fits
  <2>2. CASE LldpTlv
    BY <2>2 DEF LldpTlv
  <2>3. CASE DnsLabel \/ DnsEnd
    BY <2>3 DEF DnsLabel, DnsEnd, Place, Room
  <2>4. CASE SniSession \/ SniCiphers \/ SniCompression \/ SniExtensions \/ SniExtension
    BY <2>4 DEF SniSession, SniCiphers, SniCompression, SniExtensions, SniExtension
  <2>5. CASE TextByte \/ TextEnd \/ TextHost \/ LoopEnds
    BY <2>5 DEF TextByte, TextEnd, TextHost, LoopEnds
  <2> QED
    BY <2>1, <2>2, <2>3, <2>4, <2>5 DEF Next
<1> QED
  BY <1>1, WalkInvariance, PTL DEF Spec, Advances
=============================================================================
