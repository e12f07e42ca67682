------------------------- MODULE PacketFeedProofs -------------------------
(***************************************************************************)
(* The feed of the dashboard is in order, loses nothing without a report   *)
(* while a connection lasts, and is counted exactly, for every number of   *)
(* capture connections and every size of the channel, of the sockets and   *)
(* of packetChan, whatever the network does.                               *)
(***************************************************************************)
EXTENDS PacketFeed, SequenceTheorems, FiniteSetTheorems, TLAPS

(* The state the service starts in has the types. *)
LEMMA TypeInit == Init => TypeOK
<1> SUFFICES ASSUME Init PROVE TypeOK
  OBVIOUS
<1>1. <<>> \in Seq(Nat)
  OBVIOUS
<1> QED BY <1>1, FeedAssumption DEF Init, TypeOK

(* Every step preserves the types. *)
LEMMA TypeStep == TypeOK /\ ConnsInv /\ ReaderInv /\ [Next]_vars => TypeOK'
<1> SUFFICES ASSUME TypeOK, ConnsInv, ReaderInv, [Next]_vars PROVE TypeOK'
  OBVIOUS
<1> USE FeedAssumption DEF TypeOK, HandlerGoto, service, tasks, dash
<1>1. ASSUME NEW s \in Sources, Publish(s) PROVE TypeOK'
  BY <1>1 DEF Publish
<1>2. ASSUME NEW s \in Sources, CountPacket(s) PROVE TypeOK'
  BY <1>2 DEF CountPacket
<1>3. ASSUME ReportMetrics PROVE TypeOK'
  BY <1>3 DEF ReportMetrics
<1>4. ASSUME NEW c \in Conns, Subscribe(c) PROVE TypeOK'
  <2>1. sent + 1 \in Nat \ {0}
    OBVIOUS
  <2>2. next' \in [Conns -> Nat \ {0}] /\ start' \in [Conns -> Nat \ {0}]
    BY <1>4, <2>1 DEF Subscribe
  <2> QED BY <1>4, <2>2 DEF Subscribe
<1>5. ASSUME NEW c \in Conns, Recv(c) PROVE TypeOK'
  <2>1. next[c] + 1 \in Nat \ {0}
    OBVIOUS
  <2>2. next' \in [Conns -> Nat \ {0}]
    BY <1>5, <2>1 DEF Recv
  <2> QED BY <1>5, <2>2 DEF Recv
<1>6. ASSUME NEW c \in Conns, Lagged(c) PROVE TypeOK'
  <2>1. Oldest \in Nat \ {0}
    BY DEF Oldest
  <2>2. skipped[c] \cup (next[c] .. Oldest - 1) \in SUBSET Nat
    BY <2>1
  <2> QED BY <1>6, <2>1, <2>2 DEF Lagged
<1>7. ASSUME NEW c \in Conns, WriteLine(c) PROVE TypeOK'
  <2>1. Append(sock[c], next[c] - 1) \in Seq(Nat)
    OBVIOUS
  <2>2. sock' \in [Conns -> Seq(Nat)]
    BY <1>7, <2>1 DEF WriteLine
  <2> QED BY <1>7, <2>2 DEF WriteLine
<1>8. ASSUME NEW c \in Conns, WriteFails(c) PROVE TypeOK'
  BY <1>8 DEF WriteFails
<1>9. ASSUME Break PROVE TypeOK'
  BY <1>9 DEF Break, Conns
<1>10. ASSUME DialFails PROVE TypeOK'
  BY <1>10 DEF DialFails
<1>11. ASSUME DialSucceeds PROVE TypeOK'
  <2>1. cur' \in 0 .. MaxConns
    BY <1>11 DEF DialSucceeds
  <2>2. handler' \in [Conns -> {"none", "accept", "recv", "write", "ended"}]
    BY <1>11 DEF DialSucceeds
  <2> QED BY <1>11, <2>1, <2>2 DEF DialSucceeds
<1>12. ASSUME ScanLine PROVE TypeOK'
  <2>1. cur \in Conns /\ sock[cur] \in Seq(Nat) /\ sock[cur] # <<>>
    BY <1>12 DEF ScanLine, ReaderInv, Conns
  <2>2. Head(sock[cur]) \in Nat /\ Tail(sock[cur]) \in Seq(Nat)
    BY <2>1
  <2> QED BY <1>12, <2>2 DEF ScanLine
<1>13. ASSUME PushChan PROVE TypeOK'
  BY <1>13 DEF PushChan
<1>14. ASSUME ScanEnds PROVE TypeOK'
  <2>1. sock' \in [Conns -> Seq(Nat)]
    BY <1>14, EmptySeq DEF ScanEnds
  <2> QED BY <1>14, <2>1 DEF ScanEnds
<1>15. ASSUME TakeChan PROVE TypeOK'
  <2>1. Head(chan) \in Nat /\ Tail(chan) \in Seq(Nat)
    BY <1>15 DEF TakeChan
  <2> QED BY <1>15, <2>1 DEF TakeChan
<1>16. ASSUME UNCHANGED vars PROVE TypeOK'
  BY <1>16 DEF vars
<1> QED BY <1>1, <1>2, <1>3, <1>4, <1>5, <1>6, <1>7, <1>8, <1>9, <1>10, <1>11, <1>12,
           <1>13, <1>14, <1>15, <1>16 DEF Next, HandlerStep, ReaderStep

(* The dashboard's connection, once there is one. *)
LEMMA CurConn == TypeOK => (cur \in Conns <=> cur # 0)
BY FeedAssumption DEF TypeOK, Conns

-----------------------------------------------------------------------------
(* The connections *)

(* A step of one task leaves the connections in order. *)
LEMMA ConnsHandler ==
  ASSUME TypeOK, ConnsInv, NEW c \in Conns, HandlerStep(c)
  PROVE  ConnsInv'
<1> USE FeedAssumption DEF TypeOK, ConnsInv, Subscribed, HandlerGoto, service, tasks, dash
<1>1. \A d \in Conns : /\ start[d] \in Nat \ {0} /\ next[d] \in Nat \ {0}
                       /\ handler[d] \in {"none", "accept", "recv", "write", "ended"}
  OBVIOUS
<1>2. CASE Subscribe(c)
  BY <1>1, <1>2 DEF Subscribe
<1>3. CASE Recv(c)
  BY <1>1, <1>3 DEF Recv
<1>4. CASE Lagged(c)
  <2>1. Oldest \in Nat \ {0} /\ Oldest <= sent + 1
    BY DEF Oldest
  <2> QED BY <1>1, <1>4, <2>1 DEF Lagged
<1>5. CASE WriteLine(c)
  BY <1>1, <1>5 DEF WriteLine
<1>6. CASE WriteFails(c)
  BY <1>1, <1>6 DEF WriteFails
<1> QED BY <1>2, <1>3, <1>4, <1>5, <1>6 DEF HandlerStep

(* Every step does. *)
LEMMA ConnsStep == TypeOK /\ ConnsInv /\ ReaderInv /\ [Next]_vars => ConnsInv'
<1> SUFFICES ASSUME TypeOK, ConnsInv, ReaderInv, [Next]_vars PROVE ConnsInv'
  OBVIOUS
<1> USE FeedAssumption DEF TypeOK, ConnsInv, Subscribed, service, tasks, dash
<1>1. ASSUME NEW s \in Sources, Publish(s) PROVE ConnsInv'
  BY <1>1 DEF Publish
<1>2. ASSUME NEW s \in Sources, CountPacket(s) PROVE ConnsInv'
  BY <1>2 DEF CountPacket
<1>3. ASSUME ReportMetrics PROVE ConnsInv'
  BY <1>3 DEF ReportMetrics
<1>4. ASSUME NEW c \in Conns, HandlerStep(c) PROVE ConnsInv'
  BY <1>4, ConnsHandler
<1>5. ASSUME Break PROVE ConnsInv'
  BY <1>5 DEF Break, Conns
<1>6. ASSUME DialFails PROVE ConnsInv'
  BY <1>6 DEF DialFails
<1>7. ASSUME DialSucceeds PROVE ConnsInv'
  <2>1. cur \in Nat /\ cur' = cur + 1 /\ cur + 1 \in Conns
    BY <1>7 DEF DialSucceeds, Conns
  <2>2. handler' = [handler EXCEPT ![cur + 1] = "accept"] /\ handler[cur + 1] = "none"
    BY <1>7, <2>1 DEF DialSucceeds, HandlerGoto
  <2>3. UNCHANGED <<sent, next, start, skipped, sock, broken>>
    BY <1>7 DEF DialSucceeds
  <2>4. broken' \subseteq 1 .. cur'
    BY <2>1, <2>3
  <2>5. \A c \in Conns : c \in Nat /\ (c > cur' <=> handler'[c] = "none")
    BY <2>1, <2>2 DEF Conns
  <2>6. \A c \in Conns : /\ start'[c] <= next'[c] /\ next'[c] <= sent' + 1
                         /\ ~(handler'[c] \in {"recv", "write", "ended"})
                              => sock'[c] = <<>> /\ skipped'[c] = {} /\ start'[c] = next'[c]
    BY <2>1, <2>2, <2>3
  <2> QED BY <2>4, <2>5, <2>6
<1>8. ASSUME ScanLine PROVE ConnsInv'
  <2>1. cur \in Conns /\ sock[cur] # <<>>
    BY <1>8 DEF ScanLine, ReaderInv, Conns
  <2> QED BY <1>8, <2>1 DEF ScanLine
<1>9. ASSUME PushChan PROVE ConnsInv'
  BY <1>9 DEF PushChan
<1>10. ASSUME ScanEnds PROVE ConnsInv'
  BY <1>10 DEF ScanEnds
<1>11. ASSUME TakeChan PROVE ConnsInv'
  BY <1>11 DEF TakeChan
<1>12. ASSUME UNCHANGED vars PROVE ConnsInv'
  BY <1>12 DEF vars
<1> QED BY <1>1, <1>2, <1>3, <1>4, <1>5, <1>6, <1>7, <1>8, <1>9, <1>10, <1>11, <1>12
        DEF Next, ReaderStep

(* The reader never dials with a connection in use. *)
LEMMA ReaderPreserved ==
  TypeOK /\ ConnsInv /\ ReaderInv /\ [Next]_vars => ReaderInv'
<1> SUFFICES ASSUME TypeOK, ConnsInv, ReaderInv, [Next]_vars PROVE ReaderInv'
  OBVIOUS
<1> USE FeedAssumption DEF TypeOK, ReaderInv, service, tasks, dash
<1>1. ASSUME NEW s \in Sources, Publish(s) PROVE ReaderInv'
  BY <1>1 DEF Publish
<1>2. ASSUME NEW s \in Sources, CountPacket(s) PROVE ReaderInv'
  BY <1>2 DEF CountPacket
<1>3. ASSUME ReportMetrics PROVE ReaderInv'
  BY <1>3 DEF ReportMetrics
<1>4. ASSUME NEW c \in Conns, HandlerStep(c) PROVE ReaderInv'
  <2>1. UNCHANGED <<broken, cur, reader>>
    BY <1>4 DEF HandlerStep, Subscribe, Recv, Lagged, WriteLine, WriteFails
  <2>2. cur \in broken => sock'[cur] = sock[cur]
    BY <1>4 DEF HandlerStep, Subscribe, Recv, Lagged, WriteLine, WriteFails
  <2> QED BY <2>1, <2>2
<1>5. ASSUME Break PROVE ReaderInv'
  BY <1>5 DEF Break
<1>6. ASSUME DialFails PROVE ReaderInv'
  BY <1>6 DEF DialFails
<1>7. ASSUME DialSucceeds PROVE ReaderInv'
  BY <1>7 DEF DialSucceeds
<1>8. ASSUME ScanLine PROVE ReaderInv'
  BY <1>8 DEF ScanLine
<1>9. ASSUME PushChan PROVE ReaderInv'
  BY <1>9 DEF PushChan
<1>10. ASSUME ScanEnds PROVE ReaderInv'
  BY <1>10 DEF ScanEnds
<1>11. ASSUME TakeChan PROVE ReaderInv'
  BY <1>11 DEF TakeChan
<1>12. ASSUME UNCHANGED vars PROVE ReaderInv'
  BY <1>12 DEF vars
<1> QED BY <1>1, <1>2, <1>3, <1>4, <1>5, <1>6, <1>7, <1>8, <1>9, <1>10, <1>11, <1>12
        DEF Next, ReaderStep

-----------------------------------------------------------------------------
(* Sequences that change hands *)

(* What leaves the front of a sequence for the end of the one before it    *)
(* leaves the two together as they were.                                   *)
LEMMA HeadMoves ==
  ASSUME NEW s \in Seq(Nat), NEW t \in Seq(Nat), t # <<>>
  PROVE  (s \o <<Head(t)>>) \o Tail(t) = s \o t
<1>1. Head(t) \in Nat /\ Tail(t) \in Seq(Nat) /\ <<Head(t)>> \in Seq(Nat)
  OBVIOUS
<1>2. <<Head(t)>> \o Tail(t) = t
  BY <1>1
<1>3. (s \o <<Head(t)>>) \o Tail(t) = s \o (<<Head(t)>> \o Tail(t))
  BY <1>1, ConcatAssociative
<1> QED BY <1>2, <1>3

(* What is appended to a sequence follows it. *)
LEMMA AppendMoves ==
  ASSUME NEW s \in Seq(Nat), NEW t \in Seq(Nat), NEW e \in Nat
  PROVE  (s \o Append(t, e)) \o <<>> = (s \o t) \o <<e>>
<1>1. <<e>> \in Seq(Nat) /\ Append(t, e) \in Seq(Nat) /\ Append(t, e) = t \o <<e>>
  BY AppendProperties, AppendIsConcat
<1>2. s \o Append(t, e) \in Seq(Nat) /\ s \o (t \o <<e>>) = (s \o t) \o <<e>>
  BY <1>1, ConcatProperties, ConcatAssociative
<1> QED BY <1>1, <1>2, ConcatEmptySeq

(* The parts of the feed are sequences of packets. *)
LEMMA FeedType ==
  ASSUME TypeOK
  PROVE  /\ Scanned \in Seq(Nat) /\ OnWire \in Seq(Nat) /\ InHand \in Seq(Nat)
         /\ got \o chan \in Seq(Nat)
         /\ (got \o chan) \o Scanned \in Seq(Nat)
         /\ ((got \o chan) \o Scanned) \o OnWire \in Seq(Nat)
         /\ Feed \in Seq(Nat) /\ Len(Feed) \in Nat
<1>1. Scanned \in Seq(Nat)
  BY DEF TypeOK, Scanned
<1>2. OnWire \in Seq(Nat)
  <2>1. cur # 0 => cur \in Conns
    BY FeedAssumption DEF TypeOK, Conns
  <2> QED BY <2>1 DEF TypeOK, OnWire
<1>3. InHand \in Seq(Nat)
  <2>1. cur # 0 => cur \in Conns
    BY FeedAssumption DEF TypeOK, Conns
  <2>2. cur # 0 => next[cur] - 1 \in Nat
    BY <2>1 DEF TypeOK
  <2> QED BY <2>2 DEF InHand
<1>4. got \o chan \in Seq(Nat)
  BY ConcatProperties DEF TypeOK
<1>5. (got \o chan) \o Scanned \in Seq(Nat)
  BY <1>1, <1>4, ConcatProperties
<1>6. ((got \o chan) \o Scanned) \o OnWire \in Seq(Nat)
  BY <1>2, <1>5, ConcatProperties
<1>7. Feed \in Seq(Nat)
  BY <1>3, <1>6, ConcatProperties DEF Feed
<1> QED BY <1>1, <1>2, <1>3, <1>4, <1>5, <1>6, <1>7, LenProperties

(* The length of the feed is a number, before a step and after it. *)
LEMMA FeedLen == TypeOK => Len(Feed) \in Nat
BY FeedType

(* The processor takes a packet. *)
LEMMA FeedTake ==
  ASSUME TypeOK, TakeChan
  PROVE  Feed' = Feed
<1>1. got' \o chan' = got \o chan
  <2>1. got \in Seq(Nat) /\ chan \in Seq(Nat) /\ chan # <<>>
    BY DEF TypeOK, TakeChan
  <2>2. Append(got, Head(chan)) = got \o <<Head(chan)>>
    BY <2>1, AppendIsConcat, HeadTailProperties
  <2> QED BY <2>1, <2>2, HeadMoves DEF TakeChan
<1>2. Scanned' = Scanned /\ OnWire' = OnWire /\ InHand' = InHand
  BY DEF TakeChan, Scanned, OnWire, InHand, tasks
<1> QED BY <1>1, <1>2 DEF Feed

(* The reader puts its packet on packetChan. *)
LEMMA FeedPush ==
  ASSUME TypeOK, PushChan
  PROVE  Feed' = Feed
<1>1. got \in Seq(Nat) /\ chan \in Seq(Nat) /\ line \in Nat
  BY DEF TypeOK
<1>2. Scanned = <<line>> /\ Scanned' = <<>> /\ got' = got /\ chan' = Append(chan, line)
  BY DEF PushChan, Scanned
<1>3. (got' \o chan') \o Scanned' = (got \o chan) \o Scanned
  BY <1>1, <1>2, AppendMoves
<1>4. OnWire' = OnWire /\ InHand' = InHand
  BY DEF PushChan, OnWire, InHand, tasks
<1> QED BY <1>3, <1>4 DEF Feed

(* The reader takes a line off the connection. *)
LEMMA FeedScan ==
  ASSUME TypeOK, ReaderInv, ScanLine
  PROVE  Feed' = Feed
<1>1. cur \in Conns /\ cur # 0
  BY FeedAssumption DEF TypeOK, ReaderInv, ScanLine, Conns
<1>2. sock[cur] \in Seq(Nat) /\ sock[cur] # <<>>
  BY <1>1 DEF TypeOK, ScanLine
<1>3. Scanned = <<>> /\ Scanned' = <<Head(sock[cur])>>
  BY DEF ScanLine, Scanned
<1>4. OnWire = sock[cur] /\ OnWire' = Tail(sock[cur])
  BY <1>1 DEF TypeOK, ScanLine, OnWire
<1>5. (got \o chan) \o Scanned = got \o chan
  BY <1>3, FeedType, ConcatEmptySeq
<1>6. ((got \o chan) \o Scanned') \o OnWire' = ((got \o chan) \o Scanned) \o OnWire
  <2>1. got \o chan \in Seq(Nat)
    BY FeedType
  <2>2. ((got \o chan) \o <<Head(sock[cur])>>) \o Tail(sock[cur]) = (got \o chan) \o sock[cur]
    BY <1>2, <2>1, HeadMoves
  <2> QED BY <1>3, <1>4, <1>5, <2>2
<1>7. got' = got /\ chan' = chan /\ InHand' = InHand
  BY DEF ScanLine, InHand, tasks
<1> QED BY <1>6, <1>7 DEF Feed

(* The task of the connection writes its packet to the socket. *)
LEMMA FeedWrite ==
  ASSUME TypeOK, cur \in Conns, cur \notin broken, WriteLine(cur)
  PROVE  Feed' = Feed
<1>1. cur # 0 /\ sock[cur] \in Seq(Nat) /\ next[cur] - 1 \in Nat
  BY FeedAssumption DEF TypeOK, Conns
<1>2. OnWire = sock[cur] /\ OnWire' = Append(sock[cur], next[cur] - 1)
  BY <1>1 DEF TypeOK, WriteLine, OnWire, dash
<1>3. InHand = <<next[cur] - 1>> /\ InHand' = <<>>
  BY <1>1 DEF TypeOK, WriteLine, HandlerGoto, InHand, dash
<1>4. got' = got /\ chan' = chan /\ Scanned' = Scanned
  BY DEF WriteLine, Scanned, dash
<1>5. (got \o chan) \o Scanned \in Seq(Nat)
  BY FeedType
<1>6. (((got \o chan) \o Scanned) \o Append(sock[cur], next[cur] - 1)) \o <<>>
        = (((got \o chan) \o Scanned) \o sock[cur]) \o <<next[cur] - 1>>
  BY <1>1, <1>5, AppendMoves
<1> QED BY <1>2, <1>3, <1>4, <1>6 DEF Feed

(* It takes the next packet from the channel. *)
LEMMA FeedRecv ==
  ASSUME TypeOK, cur \in Conns, Recv(cur)
  PROVE  Feed' = Append(Feed, next[cur])
<1>1. cur # 0 /\ next[cur] \in Nat
  BY FeedAssumption DEF TypeOK, Conns
<1>2. InHand = <<>> /\ InHand' = <<next[cur]>>
  BY <1>1 DEF TypeOK, Recv, HandlerGoto, InHand, dash
<1>3. got' = got /\ chan' = chan /\ Scanned' = Scanned /\ OnWire' = OnWire
  BY DEF Recv, Scanned, OnWire, dash
<1>4. Feed = ((got \o chan) \o Scanned) \o OnWire
  BY <1>2, FeedType, ConcatEmptySeq DEF Feed
<1>5. Feed' = Feed \o <<next[cur]>>
  BY <1>2, <1>3, <1>4 DEF Feed
<1> QED BY <1>1, <1>5, FeedType, AppendIsConcat

-----------------------------------------------------------------------------
(* What a step can do to the feed *)

(* A stretch of the feed is gone and the rest has closed up. *)
Thinned ==
  \E n, k \in Nat :
    /\ Len(Feed') + k = Len(Feed)
    /\ \A i \in 1 .. Len(Feed') : Feed'[i] = Feed[IF i <= n THEN i ELSE i + k]

(* Taking the middle out of three sequences thins them. *)
LEMMA MiddleOut ==
  ASSUME NEW s \in Seq(Nat), NEW w \in Seq(Nat), NEW h \in Seq(Nat)
  PROVE  /\ Len(s \o h) + Len(w) = Len((s \o w) \o h)
         /\ \A i \in 1 .. Len(s \o h) :
              (s \o h)[i] = ((s \o w) \o h)[IF i <= Len(s) THEN i ELSE i + Len(w)]
<1>1. Len(s) \in Nat /\ Len(w) \in Nat /\ Len(h) \in Nat
  BY LenProperties
<1>2. s \o w \in Seq(Nat) /\ Len(s \o w) = Len(s) + Len(w)
  BY ConcatProperties
<1>3. /\ Len(s \o h) = Len(s) + Len(h)
      /\ Len((s \o w) \o h) = Len(s) + Len(w) + Len(h)
  BY <1>1, <1>2, ConcatProperties
<1>4. ASSUME NEW i \in 1 .. Len(s \o h)
      PROVE  (s \o h)[i] = ((s \o w) \o h)[IF i <= Len(s) THEN i ELSE i + Len(w)]
  <2>1. i \in Nat /\ i >= 1 /\ i <= Len(s) + Len(h)
    BY <1>1, <1>3
  <2>2. CASE i <= Len(s)
    <3>1. (s \o h)[i] = s[i]
      BY <1>1, <2>1, <2>2, ConcatProperties
    <3>2. (s \o w)[i] = s[i]
      BY <1>1, <2>1, <2>2, ConcatProperties
    <3>3. ((s \o w) \o h)[i] = (s \o w)[i]
      BY <1>1, <1>2, <2>1, <2>2, ConcatProperties
    <3> QED BY <2>2, <3>1, <3>2, <3>3
  <2>3. CASE ~(i <= Len(s))
    <3>1. (s \o h)[i] = h[i - Len(s)]
      BY <1>1, <2>1, <2>3, ConcatProperties
    <3>2. /\ i + Len(w) \in 1 .. Len(s \o w) + Len(h)
          /\ ~(i + Len(w) <= Len(s \o w))
          /\ i + Len(w) - Len(s \o w) = i - Len(s)
      BY <1>1, <1>2, <2>1, <2>3
    <3>3. ((s \o w) \o h)[i + Len(w)] = h[i + Len(w) - Len(s \o w)]
      BY <1>2, <3>2, ConcatProperties
    <3> QED BY <2>3, <3>1, <3>2, <3>3
  <2> QED BY <2>2, <2>3
<1> QED BY <1>1, <1>3, <1>4

(* Dropping the end of a sequence thins it. *)
LEMMA EndOff ==
  ASSUME NEW s \in Seq(Nat), NEW h \in Seq(Nat)
  PROVE  /\ Len(s) + Len(h) = Len(s \o h)
         /\ \A i \in 1 .. Len(s) : s[i] = (s \o h)[IF i <= Len(s) THEN i ELSE i + Len(h)]
<1>1. Len(s) \in Nat /\ Len(h) \in Nat
  BY LenProperties
<1> QED BY <1>1, ConcatProperties

(* The connection is given up with what was on it. *)
LEMMA FeedScanEnds ==
  ASSUME TypeOK, ReaderInv, ScanEnds
  PROVE  Thinned
<1>1. cur \in Conns /\ cur # 0
  BY FeedAssumption DEF TypeOK, ReaderInv, ScanEnds, Conns
<1> DEFINE s == (got \o chan) \o Scanned
<1>2. s \in Seq(Nat) /\ OnWire \in Seq(Nat) /\ InHand \in Seq(Nat)
  BY FeedType
<1>3. OnWire' = <<>>
  BY <1>1 DEF TypeOK, ScanEnds, OnWire
<1>4. got' = got /\ chan' = chan /\ Scanned' = Scanned /\ InHand' = InHand
  BY DEF ScanEnds, Scanned, InHand, tasks
<1>5. Feed = (s \o OnWire) \o InHand
  BY DEF Feed
<1>6. Feed' = s \o InHand
  <2>1. Feed' = (s \o <<>>) \o InHand
    BY <1>3, <1>4 DEF Feed
  <2> QED BY <1>2, <2>1, ConcatEmptySeq
<1> HIDE DEF s
<1>7. /\ Len(s) \in Nat /\ Len(OnWire) \in Nat
      /\ Len(Feed') + Len(OnWire) = Len(Feed)
      /\ \A i \in 1 .. Len(Feed') :
           Feed'[i] = Feed[IF i <= Len(s) THEN i ELSE i + Len(OnWire)]
  BY <1>2, <1>5, <1>6, MiddleOut, LenProperties
<1> QED BY <1>7 DEF Thinned

(* The packet in the task's hand does not get through. *)
LEMMA FeedDropped ==
  ASSUME TypeOK, cur \in Conns, cur \in broken, WriteLine(cur) \/ WriteFails(cur)
  PROVE  Thinned
<1>1. cur # 0
  BY FeedAssumption DEF Conns
<1> DEFINE s == ((got \o chan) \o Scanned) \o OnWire
<1>2. s \in Seq(Nat) /\ InHand \in Seq(Nat)
  BY FeedType
<1>3. InHand' = <<>>
  BY <1>1 DEF TypeOK, WriteLine, WriteFails, HandlerGoto, InHand, dash
<1>4. got' = got /\ chan' = chan /\ Scanned' = Scanned /\ OnWire' = OnWire
  BY DEF WriteLine, WriteFails, Scanned, OnWire, dash
<1>5. Feed = s \o InHand
  BY DEF Feed
<1>6. Feed' = s
  <2>1. Feed' = s \o <<>>
    BY <1>3, <1>4 DEF Feed
  <2> QED BY <1>2, <2>1, ConcatEmptySeq
<1> HIDE DEF s
<1>7. /\ Len(s) \in Nat /\ Len(InHand) \in Nat
      /\ Len(Feed') + Len(InHand) = Len(Feed)
      /\ \A i \in 1 .. Len(Feed') :
           Feed'[i] = Feed[IF i <= Len(s) THEN i ELSE i + Len(InHand)]
  BY <1>2, <1>5, <1>6, EndOff, LenProperties
<1> QED BY <1>7 DEF Thinned

(* The dashboard turns to a new connection; the packet in the hand of the  *)
(* old one's task will never reach it.                                     *)
LEMMA FeedDials ==
  ASSUME TypeOK, ConnsInv, ReaderInv, DialSucceeds
  PROVE  Thinned
<1>1. cur \in Nat /\ cur' = cur + 1 /\ cur + 1 \in Conns /\ cur' # 0
  BY FeedAssumption DEF TypeOK, DialSucceeds, Conns
<1> DEFINE s == ((got \o chan) \o Scanned) \o OnWire
<1>2. s \in Seq(Nat) /\ InHand \in Seq(Nat)
  BY FeedType
<1>3. handler[cur + 1] = "none" /\ sock[cur + 1] = <<>>
  BY <1>1 DEF ConnsInv, Subscribed
<1>4. OnWire = <<>> /\ OnWire' = <<>>
  BY <1>1, <1>3 DEF ReaderInv, DialSucceeds, OnWire
<1>5. InHand' = <<>>
  BY <1>1 DEF TypeOK, DialSucceeds, HandlerGoto, InHand
<1>6. got' = got /\ chan' = chan /\ Scanned' = Scanned
  BY DEF DialSucceeds, Scanned
<1>7. Feed = s \o InHand
  BY DEF Feed
<1>8. Feed' = s
  <2>1. Feed' = s \o <<>>
    BY <1>4, <1>5, <1>6 DEF Feed
  <2> QED BY <1>2, <2>1, ConcatEmptySeq
<1> HIDE DEF s
<1>9. /\ Len(s) \in Nat /\ Len(InHand) \in Nat
      /\ Len(Feed') + Len(InHand) = Len(Feed)
      /\ \A i \in 1 .. Len(Feed') :
           Feed'[i] = Feed[IF i <= Len(s) THEN i ELSE i + Len(InHand)]
  BY <1>2, <1>7, <1>8, EndOff, LenProperties
<1> QED BY <1>9 DEF Thinned

(* The steps of the tasks: only the one of the dashboard's connection can  *)
(* change the feed, by adding the next packet or losing the last one.      *)
LEMMA FeedHandler ==
  ASSUME TypeOK, NEW c \in Conns, HandlerStep(c)
  PROVE  \/ Feed' = Feed
         \/ cur \in broken /\ Thinned
         \/ c = cur /\ Recv(c)
<1>1. got' = got /\ chan' = chan /\ Scanned' = Scanned /\ cur' = cur
  BY DEF HandlerStep, Subscribe, Recv, Lagged, WriteLine, WriteFails, Scanned, dash
<1>2. CASE c # cur
  <2>1. cur # 0 => cur \in Conns
    BY FeedAssumption DEF TypeOK, Conns
  <2>2. cur # 0 => sock'[cur] = sock[cur] /\ handler'[cur] = handler[cur] /\ next'[cur] = next[cur]
    BY <1>2, <2>1 DEF TypeOK, HandlerStep, Subscribe, Recv, Lagged, WriteLine, WriteFails, HandlerGoto
  <2>3. OnWire' = OnWire /\ InHand' = InHand
    BY <1>1, <2>2 DEF OnWire, InHand
  <2> QED BY <1>1, <2>3 DEF Feed
<1>3. CASE c = cur /\ (Subscribe(c) \/ Lagged(c))
  <2>1. handler[cur] # "write" /\ handler'[cur] # "write" /\ sock' = sock
    BY <1>3 DEF TypeOK, Subscribe, Lagged, HandlerGoto
  <2>2. OnWire' = OnWire /\ InHand' = InHand
    BY <1>1, <2>1 DEF OnWire, InHand
  <2> QED BY <1>1, <2>2 DEF Feed
<1>4. CASE c = cur /\ c \notin broken /\ (WriteLine(c) \/ WriteFails(c))
  <2>1. WriteLine(cur)
    BY <1>4 DEF WriteFails
  <2> QED BY <1>4, <2>1, FeedWrite
<1>5. CASE c = cur /\ c \in broken /\ (WriteLine(c) \/ WriteFails(c))
  BY <1>5, FeedDropped
<1> QED BY <1>2, <1>3, <1>4, <1>5 DEF HandlerStep

(* A step leaves the feed as it is, takes a part out of it, or appends     *)
(* what the receiver of the dashboard's connection gets next.              *)
LEMMA FeedChange ==
  ASSUME TypeOK, ConnsInv, ReaderInv, [Next]_vars
  PROVE  \/ Feed' = Feed
         \/ Thinned /\ (cur' \in broken' \/ DialSucceeds)
         \/ cur \in Conns /\ Recv(cur)
<1> USE DEF Feed, Scanned, OnWire, InHand, service, tasks, dash
<1>1. ASSUME NEW s \in Sources, Publish(s) PROVE Feed' = Feed
  BY <1>1 DEF Publish
<1>2. ASSUME NEW s \in Sources, CountPacket(s) PROVE Feed' = Feed
  BY <1>2 DEF CountPacket
<1>3. ASSUME ReportMetrics PROVE Feed' = Feed
  BY <1>3 DEF ReportMetrics
<1>4. ASSUME Break PROVE Feed' = Feed
  BY <1>4 DEF Break
<1>5. ASSUME DialFails PROVE Feed' = Feed
  BY <1>5 DEF DialFails
<1>6. ASSUME UNCHANGED vars PROVE Feed' = Feed
  BY <1>6 DEF vars
<1> USE DEF Feed
<1>7. ASSUME NEW c \in Conns, HandlerStep(c)
      PROVE  \/ Feed' = Feed
             \/ Thinned /\ cur' \in broken'
             \/ cur \in Conns /\ Recv(cur)
  <2>1. UNCHANGED <<cur, broken>>
    BY <1>7 DEF HandlerStep, Subscribe, Recv, Lagged, WriteLine, WriteFails
  <2> HIDE DEF Feed, Scanned, OnWire, InHand
  <2> QED BY <1>7, <2>1, FeedHandler
<1>8. ASSUME ScanEnds PROVE Thinned /\ cur' \in broken'
  <2>1. cur' \in broken'
    BY <1>8 DEF ScanEnds
  <2> HIDE DEF Feed, Scanned, OnWire, InHand
  <2> QED BY <1>8, <2>1, FeedScanEnds
<1> HIDE DEF Feed, Scanned, OnWire, InHand
<1> QED BY <1>1, <1>2, <1>3, <1>4, <1>5, <1>6, <1>7, <1>8, FeedDials, FeedScan, FeedPush, FeedTake
        DEF Next, ReaderStep

(* What is left of a thinned feed was in it before, in the same order. *)
LEMMA ThinnedKeeps ==
  ASSUME TypeOK, TypeOK', Thinned
  PROVE  /\ \A i \in 1 .. Len(Feed') : \E j \in 1 .. Len(Feed) : Feed'[i] = Feed[j]
         /\ FeedInOrder => FeedInOrder'
<1>1. Len(Feed) \in Nat /\ Len(Feed') \in Nat
  <2>1. Len(Feed) \in Nat
    BY FeedType
  <2>2. (Len(Feed) \in Nat)'
    BY FeedLen, PTL
  <2> QED BY <2>1, <2>2
<1>2. PICK n \in Nat, k \in Nat :
        /\ Len(Feed') + k = Len(Feed)
        /\ \A i \in 1 .. Len(Feed') : Feed'[i] = Feed[IF i <= n THEN i ELSE i + k]
  BY DEF Thinned
<1> DEFINE at(i) == IF i <= n THEN i ELSE i + k
<1>3. \A i \in 1 .. Len(Feed') : at(i) \in 1 .. Len(Feed) /\ Feed'[i] = Feed[at(i)]
  BY <1>1, <1>2
<1>4. \A i, j \in 1 .. Len(Feed') : i < j => at(i) < at(j)
  BY <1>1
<1>5. FeedInOrder => FeedInOrder'
  BY <1>3, <1>4 DEF FeedInOrder
<1> QED BY <1>3, <1>5

-----------------------------------------------------------------------------
(* The feed is in order and has no hidden gap *)

(* A receiver never goes back, and a new one starts behind all packets. *)
LEMMA ReceiverAdvances ==
  ASSUME TypeOK, ConnsInv, ReaderInv, [Next]_vars
  PROVE  /\ sent' \in Nat /\ sent <= sent'
         /\ cur' # 0 /\ Subscribed(cur)' =>
              /\ cur' \in Conns /\ next'[cur'] \in Nat
              /\ \/ cur' = cur /\ Subscribed(cur) /\ next[cur] <= next'[cur]
                 \/ next'[cur'] = sent + 1
<1> USE FeedAssumption DEF TypeOK, Subscribed, HandlerGoto, service, tasks, dash
<1>1. ASSUME sent' \in Nat, sent <= sent', UNCHANGED <<cur, handler, next>>
      PROVE  /\ sent' \in Nat /\ sent <= sent'
             /\ cur' # 0 /\ Subscribed(cur)' =>
                  /\ cur' \in Conns /\ next'[cur'] \in Nat
                  /\ cur' = cur /\ Subscribed(cur) /\ next[cur] <= next'[cur]
  BY <1>1 DEF Conns
<1>2. ASSUME NEW s \in Sources, Publish(s) \/ CountPacket(s)
      PROVE  sent' \in Nat /\ sent <= sent' /\ UNCHANGED <<cur, handler, next>>
  BY <1>2 DEF Publish, CountPacket
<1>3. ASSUME ReportMetrics \/ Break \/ DialFails \/ ScanLine \/ PushChan \/ ScanEnds
                \/ TakeChan \/ UNCHANGED vars
      PROVE  sent' \in Nat /\ sent <= sent' /\ UNCHANGED <<cur, handler, next>>
  BY <1>3 DEF ReportMetrics, Break, DialFails, ScanLine, PushChan, ScanEnds, TakeChan, vars
<1>4. ASSUME NEW c \in Conns, HandlerStep(c)
      PROVE  /\ sent' \in Nat /\ sent <= sent'
             /\ cur' # 0 /\ Subscribed(cur)' =>
                  /\ cur' \in Conns /\ next'[cur'] \in Nat
                  /\ \/ cur' = cur /\ Subscribed(cur) /\ next[cur] <= next'[cur]
                     \/ next'[cur'] = sent + 1
  <2>1. sent' = sent /\ cur' = cur /\ (cur # 0 => cur \in Conns)
    BY <1>4 DEF HandlerStep, Subscribe, Recv, Lagged, WriteLine, WriteFails, Conns
  <2>2. CASE Subscribe(c)
    BY <2>1, <2>2 DEF Subscribe
  <2>3. CASE Recv(c)
    BY <2>1, <2>3 DEF Recv
  <2>4. CASE Lagged(c)
    <3>1. Oldest \in Nat
      BY DEF Oldest
    <3> QED BY <2>1, <2>4, <3>1 DEF Lagged
  <2>5. CASE WriteLine(c) \/ WriteFails(c)
    BY <2>1, <2>5 DEF WriteLine, WriteFails
  <2> QED BY <1>4, <2>2, <2>3, <2>4, <2>5 DEF HandlerStep
<1>5. ASSUME DialSucceeds
      PROVE  /\ sent' \in Nat /\ sent <= sent'
             /\ ~Subscribed(cur)'
  <2>1. cur' = cur + 1 /\ cur + 1 \in Conns
    BY <1>5 DEF DialSucceeds, Conns
  <2>2. handler'[cur + 1] = "accept" /\ sent' = sent
    BY <1>5, <2>1 DEF DialSucceeds
  <2> QED BY <2>1, <2>2
<1> QED BY <1>1, <1>2, <1>3, <1>4, <1>5 DEF Next, ReaderStep

(* The packets of the feed stay below the one that comes next. *)
LEMMA BelowStep ==
  ASSUME TypeOK, TypeOK', ConnsInv, ReaderInv, FeedBelow, [Next]_vars
  PROVE  FeedBelow'
<1>1. /\ Feed \in Seq(Nat) /\ Len(Feed) \in Nat
      /\ \A i \in 1 .. Len(Feed) : Feed[i] \in Nat
  BY FeedType
<1>2. sent \in Nat /\ (cur # 0 => cur \in Conns /\ next[cur] \in Nat)
  BY CurConn DEF TypeOK
<1>3. CASE \A i \in 1 .. Len(Feed') : \E j \in 1 .. Len(Feed) : Feed'[i] = Feed[j]
  <2> SUFFICES ASSUME NEW i \in 1 .. Len(Feed')
               PROVE  /\ Feed'[i] <= sent'
                      /\ cur' # 0 /\ Subscribed(cur)' => Feed'[i] < next'[cur']
    BY DEF FeedBelow
  <2>1. PICK j \in 1 .. Len(Feed) : Feed'[i] = Feed[j]
    BY <1>3
  <2>2. /\ Feed[j] \in Nat /\ Feed[j] <= sent
        /\ cur # 0 /\ Subscribed(cur) => Feed[j] < next[cur]
    BY <1>1 DEF FeedBelow
  <2> QED BY <1>2, <2>1, <2>2, ReceiverAdvances
<1>4. CASE cur \in Conns /\ Recv(cur)
  <2>1. next[cur] \in Nat /\ next[cur] <= sent /\ cur # 0 /\ Subscribed(cur)
    BY <1>4, CurConn DEF TypeOK, Recv, Subscribed
  <2>2. Feed' = Append(Feed, next[cur])
    BY <1>4, FeedRecv
  <2>3. sent' = sent /\ cur' = cur /\ next'[cur'] = next[cur] + 1
    BY <1>4 DEF TypeOK, Recv, service, dash
  <2>4. \A i \in 1 .. Len(Feed') : Feed'[i] <= next[cur] /\ Feed'[i] \in Nat
    <3>1. \A i \in 1 .. Len(Feed) : Feed[i] < next[cur]
      BY <2>1 DEF FeedBelow
    <3> QED BY <1>1, <2>1, <2>2, <3>1
  <2> QED BY <1>2, <2>1, <2>3, <2>4 DEF FeedBelow
<1>5. CASE Feed' = Feed
  BY <1>3, <1>5
<1>6. CASE Thinned
  BY <1>3, <1>6, ThinnedKeeps
<1> QED BY <1>4, <1>5, <1>6, FeedChange

(* The feed stays in order. *)
LEMMA OrderStep ==
  ASSUME TypeOK, TypeOK', ConnsInv, ReaderInv, FeedBelow, FeedInOrder, [Next]_vars
  PROVE  FeedInOrder'
<1>1. CASE Feed' = Feed
  BY <1>1 DEF FeedInOrder
<1>2. CASE Thinned
  BY <1>2, ThinnedKeeps
<1>3. CASE cur \in Conns /\ Recv(cur)
  <2>1. Feed \in Seq(Nat) /\ Len(Feed) \in Nat /\ \A i \in 1 .. Len(Feed) : Feed[i] \in Nat
    BY FeedType
  <2>2. next[cur] \in Nat /\ cur # 0 /\ Subscribed(cur)
    BY <1>3, CurConn DEF TypeOK, Recv, Subscribed
  <2>3. Feed' = Append(Feed, next[cur])
    BY <1>3, FeedRecv
  <2>4. \A i \in 1 .. Len(Feed) : Feed[i] < next[cur]
    BY <2>2 DEF FeedBelow
  <2> QED BY <2>1, <2>2, <2>3, <2>4 DEF FeedInOrder
<1> QED BY <1>1, <1>2, <1>3, FeedChange

(* No packet drops out of the account of a connection that lasts. *)
LEMMA GapsStep ==
  ASSUME TypeOK, TypeOK', ConnsInv, ReaderInv, GapsAreReported, [Next]_vars
  PROVE  GapsAreReported'
<1> SUFFICES ASSUME cur' \in Conns \ broken',
                    NEW p \in start'[cur'] .. next'[cur'] - 1
             PROVE  p \in skipped'[cur'] \/ \E i \in 1 .. Len(Feed') : Feed'[i] = p
  BY DEF GapsAreReported
<1>1. /\ Feed \in Seq(Nat) /\ Len(Feed) \in Nat
      /\ cur' \in Conns /\ p \in Int /\ start'[cur'] <= p /\ p <= next'[cur'] - 1
  <2>1. start'[cur'] \in Nat /\ next'[cur'] \in Nat
    BY DEF TypeOK
  <2> QED BY <2>1, FeedType
<1>2. CASE DialSucceeds
  <2>1. start'[cur'] = next'[cur'] /\ next'[cur'] \in Nat
    <3>1. cur' = cur + 1 /\ cur \in Nat /\ UNCHANGED <<start, next>>
      BY <1>2 DEF DialSucceeds, TypeOK
    <3>2. handler[cur + 1] = "none"
      BY <1>1, <3>1 DEF ConnsInv, Conns
    <3> QED BY <1>1, <3>1, <3>2 DEF ConnsInv, Subscribed, TypeOK
  <2> QED BY <1>1, <2>1
<1>3. CASE cur \in Conns /\ Recv(cur)
  <2>1. /\ cur' = cur /\ cur \notin broken /\ start' = start /\ skipped' = skipped
        /\ next'[cur] = next[cur] + 1 /\ next[cur] \in Nat
    BY <1>3 DEF Recv, TypeOK, dash
  <2>2. Feed' = Append(Feed, next[cur])
    BY <1>3, FeedRecv
  <2>3. /\ Len(Feed') = Len(Feed) + 1 /\ Feed'[Len(Feed) + 1] = next[cur]
        /\ \A i \in 1 .. Len(Feed) : Feed'[i] = Feed[i]
    BY <1>1, <2>1, <2>2
  <2>4. CASE p = next[cur]
    BY <1>1, <2>3, <2>4
  <2>5. CASE p # next[cur]
    <3>1. p \in start[cur] .. next[cur] - 1
      BY <1>1, <2>1, <2>5
    <3>2. p \in skipped[cur] \/ \E i \in 1 .. Len(Feed) : Feed[i] = p
      BY <1>3, <2>1, <3>1 DEF GapsAreReported
    <3> QED BY <1>1, <2>1, <2>3, <3>2
  <2> QED BY <2>4, <2>5
<1>4. CASE Feed' = Feed /\ ~DialSucceeds /\ ~(cur \in Conns /\ Recv(cur))
  <2>1. cur' = cur /\ cur \notin broken
    BY <1>4 DEF Next, ReaderStep, HandlerStep, Publish, CountPacket, ReportMetrics, Subscribe, Recv,
         Lagged, WriteLine, WriteFails, Break, DialFails, ScanLine, PushChan, ScanEnds, TakeChan,
         vars, dash
  <2>2. CASE \E c \in Conns : Subscribe(c) \/ Lagged(c) \/ Recv(c)
    <3>1. PICK c \in Conns : Subscribe(c) \/ Lagged(c) \/ Recv(c)
      BY <2>2
    <3>2. CASE c = cur /\ Subscribe(c)
      <4>1. start'[cur] = next'[cur] /\ next'[cur] \in Nat
        BY <3>2 DEF Subscribe, TypeOK
      <4> QED BY <1>1, <2>1, <4>1
    <3>3. CASE c = cur /\ Lagged(c)
      <4>1. /\ start' = start /\ next'[cur] = Oldest
            /\ skipped'[cur] = skipped[cur] \cup (next[cur] .. Oldest - 1)
        BY <3>3 DEF Lagged, TypeOK
      <4>2. Oldest \in Nat /\ next[cur] \in Nat
        BY <1>1, <2>1, FeedAssumption DEF Oldest, TypeOK
      <4>3. CASE p >= next[cur]
        BY <1>1, <2>1, <4>1, <4>2, <4>3
      <4>4. CASE ~(p >= next[cur])
        <5>1. p \in start[cur] .. next[cur] - 1
          BY <1>1, <2>1, <4>1, <4>2, <4>4 DEF TypeOK
        <5> QED BY <1>1, <1>4, <2>1, <4>1, <5>1 DEF GapsAreReported
      <4> QED BY <4>3, <4>4
    <3>4. CASE c # cur
      <4>1. /\ start'[cur] = start[cur] /\ next'[cur] = next[cur] /\ skipped'[cur] = skipped[cur]
        BY <1>1, <2>1, <3>1, <3>4 DEF Subscribe, Recv, Lagged, TypeOK
      <4> QED BY <1>1, <1>4, <2>1, <4>1 DEF GapsAreReported
    <3> QED BY <1>4, <3>1, <3>2, <3>3, <3>4
  <2>3. CASE ~ \E c \in Conns : Subscribe(c) \/ Lagged(c) \/ Recv(c)
    <3>1. UNCHANGED <<start, next, skipped>>
      BY <1>4, <2>3 DEF Next, ReaderStep, HandlerStep, Publish, CountPacket, ReportMetrics,
           WriteLine, WriteFails, Break, DialFails, ScanLine, PushChan, ScanEnds, TakeChan,
           vars, tasks
    <3> QED BY <1>1, <1>4, <2>1, <3>1 DEF GapsAreReported
  <2> QED BY <2>2, <2>3
<1> QED BY <1>2, <1>3, <1>4, FeedChange

-----------------------------------------------------------------------------
(* FeedInv is inductive. *)
THEOREM FeedInvariant == Spec => []FeedInv
<1>1. Init => FeedInv
  <2> SUFFICES ASSUME Init PROVE FeedInv
    OBVIOUS
  <2>1. TypeOK
    BY TypeInit
  <2>2. ConnsInv /\ ReaderInv
    BY FeedAssumption DEF Init, ConnsInv, ReaderInv, Subscribed, Conns
  <2>3. Feed = <<>>
    BY EmptySeq, ConcatEmptySeq DEF Init, Feed, Scanned, OnWire, InHand
  <2>4. FeedBelow
    BY <2>3 DEF FeedBelow
  <2> QED BY <2>1, <2>2, <2>4 DEF FeedInv
<1>2. FeedInv /\ [Next]_vars => FeedInv'
  BY TypeStep, ConnsStep, ReaderPreserved, BelowStep DEF FeedInv
<1> QED BY <1>1, <1>2, PTL DEF Spec

(* The dashboard never sees a packet twice or out of order: packetChan,    *)
(* the socket and the broadcast channel hand packets on in order, and a    *)
(* new connection of the reader starts behind all that it has seen.        *)
THEOREM FeedOrdered == Spec => []FeedInOrder
<1>1. Init => FeedInOrder
  <2> SUFFICES ASSUME Init PROVE FeedInOrder
    OBVIOUS
  <2>1. Feed = <<>>
    BY EmptySeq, ConcatEmptySeq DEF Init, Feed, Scanned, OnWire, InHand
  <2> QED BY <2>1 DEF FeedInOrder
<1>2. FeedInv /\ FeedInv' /\ FeedInOrder /\ [Next]_vars => FeedInOrder'
  BY OrderStep DEF FeedInv
<1> QED BY <1>1, <1>2, FeedInvariant, PTL DEF Spec

(* While a connection lasts, handle_go_connection forwards a packet or     *)
(* reports it with RecvError::Lagged.                                      *)
THEOREM NoHiddenGap == Spec => []GapsAreReported
<1>1. Init => GapsAreReported
  BY FeedAssumption DEF Init, GapsAreReported, Conns
<1>2. FeedInv /\ FeedInv' /\ GapsAreReported /\ [Next]_vars => GapsAreReported'
  BY GapsStep DEF FeedInv
<1> QED BY <1>1, <1>2, FeedInvariant, PTL DEF Spec

(* RecvError::Lagged only gives up packets that Capacity newer ones have   *)
(* pushed out of the channel.                                              *)
THEOREM SkippedIsOld == Spec => []OnlyOldSkipped
<1>1. Init => OnlyOldSkipped
  BY DEF Init, OnlyOldSkipped
<1>2. FeedInv /\ OnlyOldSkipped /\ [Next]_vars => OnlyOldSkipped'
  <2> SUFFICES ASSUME FeedInv, OnlyOldSkipped, [Next]_vars PROVE OnlyOldSkipped'
    OBVIOUS
  <2> USE FeedAssumption DEF TypeOK, service, tasks, dash
  <2>1. TypeOK /\ ConnsInv
    BY DEF FeedInv
  <2>2. \A c \in Conns : \A q \in skipped[c] : q \in Nat
    BY <2>1
  <2>3. ASSUME NEW c \in Conns, Subscribe(c) PROVE OnlyOldSkipped'
    <3>1. skipped[c] = {}
      BY <2>1, <2>3 DEF Subscribe, ConnsInv, Subscribed
    <3> QED BY <2>1, <2>2, <2>3, <3>1 DEF Subscribe, OnlyOldSkipped
  <2>4. ASSUME NEW c \in Conns, Lagged(c) PROVE OnlyOldSkipped'
    <3>1. Oldest \in Nat /\ next[c] \in Nat /\ start[c] \in Nat /\ start[c] <= next[c]
      BY <2>1 DEF Oldest, ConnsInv
    <3>2. \A q \in next[c] .. Oldest - 1 : q >= start[c] /\ q + Capacity <= sent
      BY <2>1, <2>4, <3>1 DEF Lagged, Oldest
    <3>3. \A q \in skipped'[c] : q >= start[c] /\ q + Capacity <= sent
      BY <2>1, <2>4, <3>2 DEF Lagged, OnlyOldSkipped
    <3> QED BY <2>1, <2>2, <2>4, <3>3 DEF Lagged, OnlyOldSkipped
  <2>5. CASE sent' \in Nat /\ sent <= sent' /\ UNCHANGED <<start, skipped>>
    BY <2>1, <2>2, <2>5 DEF OnlyOldSkipped
  <2>6. ASSUME NEW s \in Sources, Publish(s) \/ CountPacket(s) PROVE OnlyOldSkipped'
    BY <2>1, <2>5, <2>6 DEF Publish, CountPacket
  <2>7. ASSUME NEW c \in Conns, Recv(c) \/ WriteLine(c) \/ WriteFails(c) PROVE OnlyOldSkipped'
    BY <2>1, <2>5, <2>7 DEF Recv, WriteLine, WriteFails
  <2>8. CASE ReportMetrics \/ Break \/ ReaderStep \/ TakeChan \/ UNCHANGED vars
    BY <2>1, <2>5, <2>8 DEF ReportMetrics, Break, ReaderStep, DialFails, DialSucceeds, ScanLine,
         PushChan, ScanEnds, TakeChan, vars
  <2> QED BY <2>3, <2>4, <2>6, <2>7, <2>8 DEF Next, HandlerStep
<1> QED BY <1>1, <1>2, FeedInvariant, PTL DEF Spec

-----------------------------------------------------------------------------
(* The sources between their send and their fetch_add are finitely many,   *)
(* and PACKET_COUNT misses exactly their packets.                          *)
MetricsInv == IsFiniteSet(adding) /\ MetricsAddUp

(* The METRICS lines, PACKET_COUNT and the packets about to be counted add *)
(* up to what was published, whenever the swap of the reporter runs.       *)
THEOREM MetricsExact == Spec => []MetricsAddUp
<1>1. Init => MetricsInv
  BY FS_EmptySet DEF Init, MetricsInv, MetricsAddUp
<1>2. FeedInv /\ MetricsInv /\ [Next]_vars => MetricsInv'
  <2> SUFFICES ASSUME FeedInv, MetricsInv, [Next]_vars PROVE MetricsInv'
    OBVIOUS
  <2>1. sent \in Nat /\ count \in Nat /\ reported \in Nat /\ Cardinality(adding) \in Nat
    BY FS_CardinalityType DEF FeedInv, TypeOK, MetricsInv
  <2>2. ASSUME NEW s \in Sources, Publish(s) PROVE MetricsInv'
    <3>1. IsFiniteSet(adding') /\ Cardinality(adding') = Cardinality(adding) + 1
      BY <2>2, FS_AddElement DEF Publish, MetricsInv
    <3> QED BY <2>1, <2>2, <3>1 DEF Publish, MetricsInv, MetricsAddUp
  <2>3. ASSUME NEW s \in Sources, CountPacket(s) PROVE MetricsInv'
    <3>1. IsFiniteSet(adding') /\ Cardinality(adding') = Cardinality(adding) - 1
      BY <2>3, FS_RemoveElement DEF CountPacket, MetricsInv
    <3> QED BY <2>1, <2>3, <3>1 DEF CountPacket, MetricsInv, MetricsAddUp
  <2>4. CASE ReportMetrics
    BY <2>1, <2>4 DEF ReportMetrics, MetricsInv, MetricsAddUp
  <2>5. CASE \/ \E c \in Conns : HandlerStep(c)
             \/ Break \/ ReaderStep \/ TakeChan \/ UNCHANGED vars
    <3>1. UNCHANGED service
      BY <2>5 DEF HandlerStep, Subscribe, Recv, Lagged, WriteLine, WriteFails, Break, ReaderStep,
           DialFails, DialSucceeds, ScanLine, PushChan, ScanEnds, TakeChan, vars, service
    <3> QED BY <3>1 DEF service, MetricsInv, MetricsAddUp
  <2> QED BY <2>2, <2>3, <2>4, <2>5 DEF Next
<1>3. MetricsInv => MetricsAddUp
  BY DEF MetricsInv
<1> QED BY <1>1, <1>2, <1>3, FeedInvariant, PTL DEF Spec
=============================================================================
