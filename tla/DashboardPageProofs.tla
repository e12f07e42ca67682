------------------------ MODULE DashboardPageProofs ------------------------
(***************************************************************************)
(* The pages lose no packet in a way that is not accounted for, and the    *)
(* last status told to them is right unless toggles overlap: for every     *)
(* number of pages and of toggle requests, all capacities, and every       *)
(* interleaving of the server's handlers with the pages.                   *)
(***************************************************************************)
EXTENDS DashboardPage, SequenceTheorems, TLAPS

-----------------------------------------------------------------------------
(* Sequences: what the lists and the channels hold *)

(* The elements of a sequence by position. *)
LEMMA SeqView ==
  ASSUME NEW S, NEW s \in Seq(S)
  PROVE  /\ Len(s) \in Nat /\ DOMAIN s = 1 .. Len(s)
         /\ \A i \in 1 .. Len(s) : s[i] \in S
         /\ Range(s) = {s[i] : i \in 1 .. Len(s)}
BY DEF Range

(* After a push or a send: one more at the end. *)
LEMMA AppendView ==
  ASSUME NEW S, NEW s \in Seq(S), NEW a \in S
  PROVE  /\ Append(s, a) \in Seq(S) /\ Len(Append(s, a)) = Len(s) + 1
         /\ \A x : (\E i \in 1 .. Len(s) + 1 : x = Append(s, a)[i])
                      <=> x = a \/ \E i \in 1 .. Len(s) : x = s[i]
<1> DEFINE t == Append(s, a)
           n == Len(s)
<1>1. /\ n \in Nat /\ t \in Seq(S) /\ Len(t) = n + 1 /\ t[n + 1] = a
      /\ \A i \in 1 .. n : t[i] = s[i]
  BY AppendProperties, LenProperties
<1>2. n + 1 \in 1 .. n + 1 /\ \A i \in 1 .. n + 1 : i = n + 1 \/ i \in 1 .. n
  BY <1>1
<1>3. \A i \in 1 .. n : i \in 1 .. n + 1
  BY <1>1
<1> HIDE DEF t, n
<1>4. \A x : (\E i \in 1 .. n + 1 : x = t[i]) <=> x = a \/ \E i \in 1 .. n : x = s[i]
  BY <1>1, <1>2, <1>3
<1> QED BY <1>1, <1>4 DEF t, n

(* After a shift or a receive: all but the first. *)
LEMMA TailView ==
  ASSUME NEW S, NEW s \in Seq(S), s # <<>>
  PROVE  /\ Head(s) \in S /\ Tail(s) \in Seq(S) /\ Len(Tail(s)) = Len(s) - 1
         /\ Len(s) - 1 \in Nat
         /\ \A x : (\E i \in 1 .. Len(s) : x = s[i])
                      <=> x = Head(s) \/ \E i \in 1 .. Len(s) - 1 : x = Tail(s)[i]
<1> DEFINE t == Tail(s)
           n == Len(s)
<1>1. /\ t \in Seq(S) /\ Len(t) = n - 1
      /\ \A i \in 1 .. n - 1 : t[i] = s[i + 1]
  BY HeadTailProperties
<1>2. Head(s) = s[1] /\ n \in Nat \ {0} /\ Head(s) \in S
  BY EmptySeq
<1>3. \A i \in 1 .. n : i = 1 \/ (i - 1 \in 1 .. n - 1 /\ (i - 1) + 1 = i)
  BY <1>2
<1>4. 1 \in 1 .. n /\ n - 1 \in Nat /\ \A i \in 1 .. n - 1 : i + 1 \in 1 .. n
  BY <1>2
<1> HIDE DEF t, n
<1>5. ASSUME NEW i \in 1 .. n
      PROVE  s[i] = Head(s) \/ \E j \in 1 .. n - 1 : s[i] = t[j]
  <2>1. CASE i = 1
    BY <1>2, <2>1
  <2>2. CASE i # 1
    <3>1. i - 1 \in 1 .. n - 1 /\ t[i - 1] = s[i]
      BY <1>1, <1>3, <2>2
    <3> QED BY <3>1
  <2> QED BY <2>1, <2>2
<1>6. \A x : (\E i \in 1 .. n : x = s[i]) <=> x = Head(s) \/ \E i \in 1 .. n - 1 : x = t[i]
  BY <1>1, <1>2, <1>4, <1>5
<1> QED BY <1>1, <1>2, <1>4, <1>6 DEF t, n

(* The ranges of the two. *)
LEMMA AppendRange ==
  ASSUME NEW S, NEW s \in Seq(S), NEW a \in S
  PROVE  Range(Append(s, a)) = Range(s) \cup {a}
<1>1. Append(s, a) \in Seq(S) /\ Len(Append(s, a)) = Len(s) + 1
  BY AppendView
<1>2. Range(s) = {s[i] : i \in 1 .. Len(s)}
  BY SeqView
<1>3. Range(Append(s, a)) = {Append(s, a)[i] : i \in 1 .. Len(s) + 1}
  BY <1>1, SeqView
<1>4. \A x : x \in Range(Append(s, a)) <=> x = a \/ x \in Range(s)
  BY <1>2, <1>3, AppendView
<1> QED BY <1>4

LEMMA TailRange ==
  ASSUME NEW S, NEW s \in Seq(S), s # <<>>
  PROVE  Range(s) = Range(Tail(s)) \cup {Head(s)}
<1>1. Tail(s) \in Seq(S) /\ Len(Tail(s)) = Len(s) - 1
  BY TailView
<1>2. Range(s) = {s[i] : i \in 1 .. Len(s)}
  BY SeqView
<1>3. Range(Tail(s)) = {Tail(s)[i] : i \in 1 .. Len(s) - 1}
  BY <1>1, SeqView
<1>4. \A x : (\E i \in 1 .. Len(s) : x = s[i])
              <=> x = Head(s) \/ \E i \in 1 .. Len(s) - 1 : x = Tail(s)[i]
  BY TailView
<1>5. \A x : x \in Range(s) <=> x = Head(s) \/ x \in Range(Tail(s))
  BY <1>2, <1>3, <1>4, Zenon
<1> QED BY <1>5

(* The empty list of a new page and of one that was cleared. *)
LEMMA EmptyView ==
  ASSUME NEW S
  PROVE  <<>> \in Seq(S) /\ Len(<<>>) = 0 /\ Range(<<>>) = {}
<1>1. <<>> \in Seq(S) /\ Len(<<>>) = 0
  BY EmptySeq
<1>2. DOMAIN <<>> = {}
  OBVIOUS
<1>3. Range(<<>>) = {}
  BY <1>2 DEF Range
<1> QED BY <1>1, <1>3

(* The answer of /api/packets has what the history has. *)
LEMMA ReverseView ==
  ASSUME NEW S, NEW s \in Seq(S)
  PROVE  Reverse(s) \in Seq(S) /\ Len(Reverse(s)) = Len(s) /\ Range(Reverse(s)) = Range(s)
<1> DEFINE n == Len(s)
           t == Reverse(s)
<1>1. n \in Nat /\ DOMAIN s = 1 .. n /\ \A i \in 1 .. n : s[i] \in S
  BY SeqView
<1>2. t = [i \in 1 .. n |-> s[n + 1 - i]]
  BY <1>1 DEF Reverse
<1>3. \A i \in 1 .. n : n + 1 - i \in 1 .. n /\ n + 1 - (n + 1 - i) = i
  BY <1>1
<1>4. t \in [1 .. n -> S]
  BY <1>1, <1>2, <1>3
<1>5. t \in Seq(S) /\ Len(t) = n
  BY <1>1, <1>4
<1>6. Range(s) = {s[i] : i \in 1 .. n} /\ Range(t) = {t[i] : i \in 1 .. n}
  BY <1>5, SeqView
<1>7. \A i \in 1 .. n : t[i] = s[n + 1 - i] /\ s[i] = t[n + 1 - i]
  BY <1>2, <1>3
<1> HIDE DEF t, n
<1>8. Range(t) = Range(s)
  BY <1>3, <1>6, <1>7
<1> QED BY <1>5, <1>8 DEF t, n

-----------------------------------------------------------------------------
(* The state of the server and of the pages *)

(* The kinds of messages. *)
LEMMA MessageKinds ==
  ASSUME NEW m \in Messages
  PROVE  /\ m.isScanning \in BOOLEAN
         /\ m.index \in Indices \cup {0}
         /\ m.type = "packet" => m.index \in Indices
         /\ m.type # "packet" => m.index = 0
<1>1. CASE \E n \in Indices : m = PacketMsg(n)
  BY <1>1 DEF PacketMsg
<1>2. CASE \E b \in BOOLEAN : m = StatusMsg(b)
  BY <1>2 DEF StatusMsg
<1>3. CASE m = ClearMsg
  BY <1>3 DEF ClearMsg
<1> QED BY <1>1, <1>2, <1>3 DEF Messages

(* The numbers a channel carries. *)
Carried(q) == {q[i].index : i \in DOMAIN q}

LEMMA CarriedView ==
  ASSUME NEW q \in Seq(Messages)
  PROVE  /\ Carried(q) \subseteq Indices \cup {0}
         /\ \A x : x \in Carried(q) <=> \E m \in Range(q) : x = m.index
<1>1. /\ DOMAIN q = 1 .. Len(q) /\ \A i \in 1 .. Len(q) : q[i] \in Messages
      /\ Range(q) = {q[i] : i \in 1 .. Len(q)}
  BY SeqView
<1>2. Carried(q) \subseteq Indices \cup {0}
  BY <1>1, MessageKinds DEF Carried
<1>3. \A x : x \in Carried(q) <=> \E m \in Range(q) : x = m.index
  BY <1>1 DEF Carried
<1> QED BY <1>2, <1>3

(* A send adds a number, a receive takes one away. *)
LEMMA CarriedMoves ==
  ASSUME NEW q \in Seq(Messages)
  PROVE  /\ \A m \in Messages : Carried(Append(q, m)) = Carried(q) \cup {m.index}
         /\ q # <<>> => Carried(q) = Carried(Tail(q)) \cup {Head(q).index}
<1>1. ASSUME NEW m \in Messages
      PROVE  Carried(Append(q, m)) = Carried(q) \cup {m.index}
  <2>1. Append(q, m) \in Seq(Messages) /\ Range(Append(q, m)) = Range(q) \cup {m}
    BY AppendView, AppendRange
  <2>2. \A x : x \in Carried(Append(q, m)) <=> \E n \in Range(q) \cup {m} : x = n.index
    BY <2>1, CarriedView
  <2> QED BY <2>2, CarriedView
<1>2. ASSUME q # <<>>
      PROVE  Carried(q) = Carried(Tail(q)) \cup {Head(q).index}
  <2>1. Tail(q) \in Seq(Messages) /\ Range(q) = Range(Tail(q)) \cup {Head(q)}
    BY <1>2, TailView, TailRange
  <2>2. \A x : x \in Carried(Tail(q)) <=> \E n \in Range(Tail(q)) : x = n.index
    BY <2>1, CarriedView
  <2>3. \A x : x \in Carried(q) <=> \E n \in Range(Tail(q)) \cup {Head(q)} : x = n.index
    BY <2>1, CarriedView
  <2> QED BY <2>2, <2>3
<1> QED BY <1>1, <1>2

(* push and shift of the page: the new packet is in, the limit is kept. *)
LEMMA PushedView ==
  ASSUME NEW s \in Seq(Indices), Len(s) <= HistorySize, NEW n \in Indices
  PROVE  /\ Pushed(s, n) \in Seq(Indices) /\ Len(Pushed(s, n)) <= HistorySize
         /\ n \in Range(Pushed(s, n))
<1> DEFINE t == Append(s, n)
<1>1. /\ t \in Seq(Indices) /\ Len(t) = Len(s) + 1 /\ Len(s) \in Nat
      /\ Range(t) = Range(s) \cup {n} /\ t[Len(s) + 1] = n
  BY AppendView, AppendRange, AppendProperties, LenProperties
<1>2. HistorySize \in Nat /\ HistorySize > 0
  BY PageAssumption
<1>3. Pushed(s, n) = IF Len(t) > HistorySize THEN Tail(t) ELSE t
  BY DEF Pushed
<1> HIDE DEF t
<1>4. CASE ~(Len(t) > HistorySize)
  BY <1>1, <1>2, <1>3, <1>4
<1>5. CASE Len(t) > HistorySize
  <2>1. t # <<>> /\ Len(s) = HistorySize
    BY <1>1, <1>2, <1>5
  <2>2. Tail(t) \in Seq(Indices) /\ Len(Tail(t)) = Len(s) /\ Len(s) > 0
    BY <1>1, <1>2, <2>1, TailView
  <2>3. Tail(t)[Len(s)] = n
    <3>1. \A i \in 1 .. Len(Tail(t)) : Tail(t)[i] = t[i + 1]
      BY <1>1, <2>1, HeadTailProperties
    <3>2. Len(s) \in 1 .. Len(Tail(t))
      BY <1>1, <2>2
    <3> QED BY <1>1, <3>1, <3>2
  <2>4. n \in Range(Tail(t))
    <3>1. Range(Tail(t)) = {Tail(t)[i] : i \in 1 .. Len(s)}
      BY <2>2, SeqView
    <3>2. Len(s) \in 1 .. Len(s)
      BY <1>1, <2>2
    <3> QED BY <2>3, <3>1, <3>2
  <2> QED BY <1>1, <1>3, <1>5, <2>1, <2>2, <2>4
<1> QED BY <1>4, <1>5

(* The history after a packet: what it had, and the packet. *)
LEMMA HistoryAdds ==
  ASSUME TypeOK, NEW n \in Indices, Hist!Add(n)
  PROVE  /\ history' \in Seq(Indices) /\ Len(history') <= HistorySize
         /\ Range(history') \subseteq Range(history) \cup {n}
<1> DEFINE old == IF Len(history) < HistorySize THEN history ELSE Tail(history)
<1>1. /\ history \in Seq(Indices) /\ Len(history) \in Nat /\ Len(history) <= HistorySize
      /\ HistorySize \in Nat /\ HistorySize > 0
  <2>1. history \in Seq(Indices) /\ Len(history) <= HistorySize
    BY DEF TypeOK
  <2> QED BY <2>1, PageAssumption, SeqView
<1>2. /\ old \in Seq(Indices) /\ Len(old) \in Nat /\ Len(old) < HistorySize
      /\ Range(old) \subseteq Range(history)
  <2>1. CASE Len(history) < HistorySize
    BY <1>1, <2>1
  <2>2. CASE ~(Len(history) < HistorySize)
    <3>1. history # <<>> /\ old = Tail(history)
      BY <1>1, <2>2
    <3>2. /\ Tail(history) \in Seq(Indices) /\ Len(Tail(history)) = Len(history) - 1
          /\ Range(Tail(history)) \subseteq Range(history)
      BY <1>1, <3>1, TailView, TailRange
    <3>3. Len(history) - 1 \in Nat /\ Len(history) - 1 < HistorySize
      BY <1>1, <2>2
    <3> QED BY <3>1, <3>2, <3>3
  <2> QED BY <2>1, <2>2
<1>3. history' = Append(old, n)
  BY DEF Hist!Add
<1> HIDE DEF old
<1>4. history' \in Seq(Indices) /\ Len(history') = Len(old) + 1 /\ Range(history') = Range(old) \cup {n}
  BY <1>2, <1>3, AppendView, AppendRange
<1> QED BY <1>1, <1>2, <1>4

(* A broadcast: no channel loses a message, and those with room get it. *)
LEMMA BroadcastView ==
  ASSUME TypeOK, NEW m \in Messages, Broadcast(m)
  PROVE  /\ chan' \in [Pages -> Seq(Messages)]
         /\ \A p \in Pages :
              /\ Len(chan'[p]) <= ChanRoom
              /\ Carried(chan[p]) \subseteq Carried(chan'[p])
              /\ HasRoom(p) => m.index \in Carried(chan'[p])
<1>1. chan' = [p \in Pages |-> IF HasRoom(p) THEN Append(chan[p], m) ELSE chan[p]]
  BY DEF Broadcast
<1>2. ChanRoom \in Nat
  BY PageAssumption
<1>3. ASSUME NEW p \in Pages
      PROVE  /\ chan'[p] \in Seq(Messages) /\ Len(chan'[p]) <= ChanRoom
             /\ Carried(chan[p]) \subseteq Carried(chan'[p])
             /\ HasRoom(p) => m.index \in Carried(chan'[p])
  <2>1. chan[p] \in Seq(Messages) /\ Len(chan[p]) <= ChanRoom /\ Len(chan[p]) \in Nat
    <3>1. chan[p] \in Seq(Messages) /\ Len(chan[p]) <= ChanRoom
      BY DEF TypeOK
    <3> QED BY <3>1, SeqView
  <2>2. CASE HasRoom(p)
    <3>1. chan'[p] = Append(chan[p], m) /\ Len(chan[p]) < ChanRoom
      BY <1>1, <2>2 DEF HasRoom
    <3>2. Append(chan[p], m) \in Seq(Messages) /\ Len(Append(chan[p], m)) = Len(chan[p]) + 1
      BY <2>1, AppendView
    <3>3. Carried(Append(chan[p], m)) = Carried(chan[p]) \cup {m.index}
      BY <2>1, CarriedMoves
    <3>4. Len(chan[p]) + 1 <= ChanRoom
      BY <1>2, <2>1, <3>1
    <3> QED BY <3>1, <3>2, <3>3, <3>4
  <2>3. CASE ~HasRoom(p)
    BY <1>1, <2>1, <2>3
  <2> QED BY <2>2, <2>3
<1>4. chan' \in [Pages -> Seq(Messages)]
  BY <1>1, <1>3
<1> QED BY <1>3, <1>4

-----------------------------------------------------------------------------
(* Types, in three parts: the server's own variables, what it hands out,   *)
(* and what the pages hold.                                                *)

ServerOK ==
  /\ isScanning \in BOOLEAN
  /\ filterStr \in Filters \cup {""}
  /\ packetCounter \in 0 .. MaxPackets
  /\ toggle \in [Requests -> {"new", "read", "send", "done"}]
  /\ seen \in [Requests -> BOOLEAN]
  /\ overlap \in BOOLEAN /\ lastStatus \in BOOLEAN
  /\ clients \subseteq Pages
  /\ breaks \in 0 .. MaxBreaks

FeedOK ==
  /\ history \in Seq(Indices) /\ Len(history) <= HistorySize
  /\ chan \in [Pages -> Seq(Messages)]
  /\ \A p \in Pages : Len(chan[p]) <= ChanRoom

ViewOK ==
  /\ ws \in [Pages -> {"none", "connecting", "open"}]
  /\ fetch \in [Pages -> {"none", "asked", "answer", "done"}]
  /\ answer \in [Pages -> Seq(Indices)]
  /\ answered \in [Pages -> BOOLEAN]
  /\ list \in [Pages -> Seq(Indices)]
  /\ label \in [Pages -> BOOLEAN]
  /\ missed \in [Pages -> SUBSET (Indices \cup {0})]
  /\ \A p \in Pages : Len(answer[p]) <= HistorySize /\ Len(list[p]) <= HistorySize

LEMMA TypeParts == TypeOK <=> ServerOK /\ FeedOK /\ ViewOK
BY DEF TypeOK, ServerOK, FeedOK, ViewOK

(* The number of the next packet. *)
LEMMA NextIndex ==
  ASSUME TypeOK, packetCounter < MaxPackets
  PROVE  packetCounter + 1 \in Indices /\ packetCounter + 1 \in 0 .. MaxPackets
<1>1. packetCounter \in 0 .. MaxPackets
  BY DEF TypeOK
<1>2. MaxPackets \in Nat
  BY PageAssumption
<1>3. packetCounter + 1 \in 1 .. MaxPackets /\ packetCounter + 1 \in 0 .. MaxPackets
  BY <1>1, <1>2
<1> QED BY <1>3 DEF Indices

LEMMA ServerTypes ==
  ASSUME TypeOK, [Next]_vars
  PROVE  ServerOK'
<1>0. ServerOK
  BY TypeParts
<1>1. CASE ProcessPacket
  <2>1. packetCounter' \in 0 .. MaxPackets
    BY <1>1, NextIndex DEF ProcessPacket
  <2> QED BY <1>0, <1>1, <2>1 DEF ServerOK, ProcessPacket, toggles
<1>2. CASE ClearHistory
  BY <1>0, <1>2 DEF ServerOK, ClearHistory, toggles
<1>3. CASE \E f \in Filters \cup {""} : SetFilter(f)
  BY <1>0, <1>3 DEF ServerOK, SetFilter, toggles
<1>4. CASE \E r \in Requests : ToggleFlip(r)
  BY <1>0, <1>4 DEF ServerOK, ToggleFlip
<1>5. CASE \E r \in Requests : ToggleRead(r)
  BY <1>0, <1>5 DEF ServerOK, ToggleRead, control
<1>6. CASE \E r \in Requests : ToggleSend(r)
  BY <1>0, <1>6 DEF ServerOK, ToggleSend, control
<1>7. CASE \E p \in Pages : OpenPage(p) \/ AnswerFetch(p) \/ ShowAnswer(p) \/ Receive(p)
  BY <1>0, <1>7 DEF ServerOK, OpenPage, AnswerFetch, ShowAnswer, Receive, control, toggles
<1>8. CASE \E p \in Pages : Register(p)
  BY <1>0, <1>8 DEF ServerOK, Register, control, toggles
<1>9. CASE \E p \in Pages : WsBreak(p)
  <2>1. breaks \in 0 .. MaxBreaks /\ breaks < MaxBreaks /\ breaks' = breaks + 1
    BY <1>0, <1>9 DEF ServerOK, WsBreak
  <2>2. MaxBreaks \in Nat
    BY PageAssumption
  <2>3. breaks' \in 0 .. MaxBreaks
    BY <2>1, <2>2
  <2> QED BY <1>0, <1>9, <2>3 DEF ServerOK, WsBreak, control, toggles
<1>10. CASE UNCHANGED vars
  BY <1>0, <1>10 DEF ServerOK, vars, control, toggles
<1> QED BY <1>1, <1>2, <1>3, <1>4, <1>5, <1>6, <1>7, <1>8, <1>9, <1>10 DEF Next

(* The messages of the server. *)
LEMMA MessageTypes ==
  ASSUME TypeOK
  PROVE  /\ \A n \in Indices : PacketMsg(n) \in Messages /\ PacketMsg(n).index = n
         /\ ClearMsg \in Messages
         /\ StatusMsg(isScanning) \in Messages
         /\ \A r \in Requests : StatusMsg(seen[r]) \in Messages
<1>1. isScanning \in BOOLEAN /\ \A r \in Requests : seen[r] \in BOOLEAN
  BY DEF TypeOK
<1> QED BY <1>1 DEF Messages, PacketMsg

LEMMA FeedTypes ==
  ASSUME TypeOK, [Next]_vars
  PROVE  FeedOK'
<1>0. FeedOK
  BY TypeParts
<1>1. CASE ProcessPacket
  <2> DEFINE n == packetCounter + 1
  <2>1. n \in Indices /\ PacketMsg(n) \in Messages
    BY <1>1, NextIndex, MessageTypes DEF ProcessPacket
  <2>2. CASE Hist!Add(n) /\ Broadcast(PacketMsg(n))
    <3> HIDE DEF n
    <3>1. history' \in Seq(Indices) /\ Len(history') <= HistorySize
      BY <2>1, <2>2, HistoryAdds
    <3>2. chan' \in [Pages -> Seq(Messages)] /\ \A p \in Pages : Len(chan'[p]) <= ChanRoom
      BY <2>1, <2>2, BroadcastView
    <3> QED BY <3>1, <3>2 DEF FeedOK
  <2>3. CASE UNCHANGED <<history, chan>>
    BY <1>0, <2>3 DEF FeedOK
  <2> QED BY <1>1, <2>2, <2>3 DEF ProcessPacket
<1>2. CASE ClearHistory
  <2>1. history' = <<>> /\ Broadcast(ClearMsg)
    BY <1>2 DEF ClearHistory, Hist!Clear
  <2>2. history' \in Seq(Indices) /\ Len(history') <= HistorySize
    BY <2>1, EmptyView, PageAssumption
  <2>3. chan' \in [Pages -> Seq(Messages)] /\ \A p \in Pages : Len(chan'[p]) <= ChanRoom
    BY <2>1, MessageTypes, BroadcastView
  <2> QED BY <2>2, <2>3 DEF FeedOK
<1>3. CASE \E f \in Filters \cup {""} : SetFilter(f)
  <2>1. Broadcast(StatusMsg(isScanning)) /\ history' = history
    BY <1>3 DEF SetFilter
  <2>2. chan' \in [Pages -> Seq(Messages)] /\ \A p \in Pages : Len(chan'[p]) <= ChanRoom
    BY <2>1, MessageTypes, BroadcastView
  <2> QED BY <1>0, <2>1, <2>2 DEF FeedOK
<1>4. CASE \E r \in Requests : ToggleFlip(r) \/ ToggleRead(r)
  BY <1>0, <1>4 DEF FeedOK, ToggleFlip, ToggleRead, control
<1>5. CASE \E r \in Requests : ToggleSend(r)
  <2>1. PICK r \in Requests : Broadcast(StatusMsg(seen[r])) /\ history' = history
    BY <1>5 DEF ToggleSend, control
  <2>2. chan' \in [Pages -> Seq(Messages)] /\ \A p \in Pages : Len(chan'[p]) <= ChanRoom
    BY <2>1, MessageTypes, BroadcastView
  <2> QED BY <1>0, <2>1, <2>2 DEF FeedOK
<1>6. CASE \E p \in Pages : OpenPage(p) \/ AnswerFetch(p) \/ ShowAnswer(p) \/ Register(p)
  BY <1>0, <1>6 DEF FeedOK, OpenPage, AnswerFetch, ShowAnswer, Register, control
<1>7. CASE \E p \in Pages : Receive(p) \/ WsBreak(p)
  <2>1. PICK p \in Pages : Receive(p) \/ WsBreak(p)
    BY <1>7
  <2>2. \E q \in Seq(Messages) : chan' = [chan EXCEPT ![p] = q] /\ Len(q) <= ChanRoom
    <3>1. CASE Receive(p)
      <4>1. chan[p] \in Seq(Messages) /\ chan[p] # <<>> /\ Len(chan[p]) <= ChanRoom
        BY <1>0, <3>1 DEF FeedOK, Receive
      <4>2. /\ Tail(chan[p]) \in Seq(Messages) /\ Len(Tail(chan[p])) = Len(chan[p]) - 1
            /\ Len(chan[p]) - 1 \in Nat /\ Len(chan[p]) \in Nat
        BY <4>1, TailView, SeqView
      <4>3. Len(Tail(chan[p])) <= ChanRoom
        BY <4>1, <4>2, PageAssumption
      <4> QED BY <3>1, <4>2, <4>3 DEF Receive
    <3>2. CASE WsBreak(p)
      <4>1. <<>> \in Seq(Messages) /\ Len(<<>>) = 0 /\ 0 <= ChanRoom
        BY EmptyView, PageAssumption
      <4>2. chan' = [chan EXCEPT ![p] = <<>>]
        BY <3>2 DEF WsBreak
      <4>3. Len(<<>>) <= ChanRoom
        BY <4>1
      <4> QED BY <4>1, <4>2, <4>3
    <3> QED BY <2>1, <3>1, <3>2
  <2>3. history' = history
    BY <2>1 DEF Receive, WsBreak, control
  <2> QED BY <1>0, <2>2, <2>3 DEF FeedOK
<1>8. CASE UNCHANGED vars
  BY <1>0, <1>8 DEF FeedOK, vars, control
<1> QED BY <1>1, <1>2, <1>3, <1>4, <1>5, <1>6, <1>7, <1>8 DEF Next

(* What onmessage makes of the list of packets: a packet is on it, and a   *)
(* status leaves it alone.                                                 *)
LEMMA ReceivedList ==
  ASSUME TypeOK, NEW p \in Pages, Receive(p)
  PROVE  /\ \E s \in Seq(Indices) : list' = [list EXCEPT ![p] = s] /\ Len(s) <= HistorySize
         /\ Head(chan[p]) \in Messages
         /\ Head(chan[p]).index \in Range(list'[p]) \cup {0}
<1> DEFINE m == Head(chan[p])
           s == CASE m.type = "packet" -> Pushed(list[p], m.index)
                  [] m.type = "clear"  -> <<>>
                  [] OTHER             -> list[p]
<1>1. chan[p] \in Seq(Messages) /\ chan[p] # <<>>
  BY DEF TypeOK, Receive
<1>2. m \in Messages
  BY <1>1, TailView
<1>3. list \in [Pages -> Seq(Indices)] /\ list[p] \in Seq(Indices) /\ Len(list[p]) <= HistorySize
  BY DEF TypeOK
<1>4. list' = [list EXCEPT ![p] = s]
  BY DEF Receive
<1> HIDE DEF m
<1>5. s \in Seq(Indices) /\ Len(s) <= HistorySize /\ m.index \in Range(s) \cup {0}
  <2>1. CASE m.type = "packet"
    <3>1. m.index \in Indices /\ s = Pushed(list[p], m.index)
      BY <1>2, <2>1, MessageKinds
    <3>2. /\ Pushed(list[p], m.index) \in Seq(Indices)
          /\ Len(Pushed(list[p], m.index)) <= HistorySize
          /\ m.index \in Range(Pushed(list[p], m.index))
      BY <1>3, <3>1, PushedView
    <3> HIDE DEF s
    <3> QED BY <3>1, <3>2
  <2>2. CASE m.type # "packet"
    <3>1. m.index = 0 /\ (s = <<>> \/ s = list[p])
      BY <1>2, <2>2, MessageKinds
    <3>2. <<>> \in Seq(Indices) /\ Len(<<>>) <= HistorySize
      BY EmptyView, PageAssumption
    <3> HIDE DEF s
    <3> QED BY <1>3, <3>1, <3>2
  <2> QED BY <2>1, <2>2
<1> HIDE DEF s
<1>6. list'[p] = s
  BY <1>3, <1>4
<1> QED BY <1>2, <1>4, <1>5, <1>6 DEF m

(* The pages' side: at most one page moves in a step. *)
LEMMA ViewTypes ==
  ASSUME TypeOK, [Next]_vars
  PROVE  ViewOK'
<1>0. ViewOK /\ FeedOK /\ ServerOK
  BY TypeParts
<1>1. CASE ProcessPacket
  <2> DEFINE n == packetCounter + 1
  <2>1. n \in Indices
    BY <1>1, NextIndex DEF ProcessPacket
  <2>2. \/ missed' = [p \in Pages |-> missed[p] \cup (IF p \in Unaware THEN {n} ELSE {})]
        \/ missed' = missed
    BY <1>1 DEF ProcessPacket
  <2>3. missed \in [Pages -> SUBSET (Indices \cup {0})]
    BY <1>0 DEF ViewOK
  <2> HIDE DEF n
  <2>4. missed' \in [Pages -> SUBSET (Indices \cup {0})]
    BY <2>1, <2>2, <2>3
  <2> QED BY <1>0, <1>1, <2>4 DEF ViewOK, ProcessPacket, page
<1>2. CASE \/ ClearHistory
           \/ \E f \in Filters \cup {""} : SetFilter(f)
           \/ \E r \in Requests : ToggleFlip(r) \/ ToggleRead(r) \/ ToggleSend(r)
  BY <1>0, <1>2 DEF ViewOK, ClearHistory, SetFilter, ToggleFlip, ToggleRead, ToggleSend, page
<1>3. CASE \E p \in Pages : OpenPage(p)
  BY <1>0, <1>3 DEF ViewOK, ServerOK, OpenPage
<1>4. CASE \E p \in Pages : AnswerFetch(p)
  <2>1. PICK p \in Pages : AnswerFetch(p)
    BY <1>4
  <2> DEFINE a == Reverse(history)
  <2>2. a \in Seq(Indices) /\ Len(a) <= HistorySize
    <3>1. history \in Seq(Indices) /\ Len(history) <= HistorySize
      BY <1>0 DEF FeedOK
    <3> QED BY <3>1, ReverseView
  <2>3. answer' = [answer EXCEPT ![p] = a]
    BY <2>1 DEF AnswerFetch
  <2> HIDE DEF a
  <2> QED BY <1>0, <2>1, <2>2, <2>3 DEF ViewOK, ServerOK, AnswerFetch
<1>5. CASE \E p \in Pages : ShowAnswer(p)
  <2>1. PICK p \in Pages : ShowAnswer(p)
    BY <1>5
  <2> DEFINE lost == Range(list[p]) \ Range(answer[p])
  <2>2. lost \subseteq Indices
    <3>1. list[p] \in Seq(Indices)
      BY <1>0 DEF ViewOK
    <3> QED BY <3>1, SeqView
  <2>3. missed' = [missed EXCEPT ![p] = @ \cup lost]
    BY <2>1 DEF ShowAnswer
  <2> HIDE DEF lost
  <2>4. missed' \in [Pages -> SUBSET (Indices \cup {0})]
    BY <1>0, <2>2, <2>3 DEF ViewOK
  <2>5. <<>> \in Seq(Indices) /\ Len(<<>>) <= HistorySize
    BY EmptyView, PageAssumption
  <2>6. answer' \in [Pages -> Seq(Indices)] /\ \A q \in Pages : Len(answer'[q]) <= HistorySize
    BY <1>0, <2>1, <2>5 DEF ViewOK, ShowAnswer
  <2>7. list' \in [Pages -> Seq(Indices)] /\ \A q \in Pages : Len(list'[q]) <= HistorySize
    BY <1>0, <2>1 DEF ViewOK, ShowAnswer
  <2> QED BY <1>0, <2>1, <2>4, <2>6, <2>7 DEF ViewOK, ShowAnswer
<1>6. CASE \E p \in Pages : Register(p)
  BY <1>0, <1>6 DEF ViewOK, Register
<1>7. CASE \E p \in Pages : Receive(p)
  <2>1. PICK p \in Pages : Receive(p)
    BY <1>7
  <2>2. \E s \in Seq(Indices) : list' = [list EXCEPT ![p] = s] /\ Len(s) <= HistorySize
    BY <2>1, ReceivedList
  <2>3. list' \in [Pages -> Seq(Indices)] /\ \A q \in Pages : Len(list'[q]) <= HistorySize
    BY <1>0, <2>2 DEF ViewOK
  <2> DEFINE lost == Range(list[p]) \ Range(list'[p])
  <2>4. lost \subseteq Indices
    <3>1. list[p] \in Seq(Indices)
      BY <1>0 DEF ViewOK
    <3> QED BY <3>1, SeqView
  <2>5. missed' = [missed EXCEPT ![p] = @ \cup lost]
    BY <2>1 DEF Receive
  <2> HIDE DEF lost
  <2>6. missed' \in [Pages -> SUBSET (Indices \cup {0})]
    BY <1>0, <2>4, <2>5 DEF ViewOK
  <2>7. Head(chan[p]).isScanning \in BOOLEAN
    <3>1. chan[p] \in Seq(Messages) /\ chan[p] # <<>>
      BY <1>0, <2>1 DEF FeedOK, Receive
    <3> QED BY <3>1, TailView, MessageKinds
  <2>8. label' \in [Pages -> BOOLEAN]
    BY <1>0, <2>1, <2>7 DEF ViewOK, Receive
  <2> QED BY <1>0, <2>1, <2>3, <2>6, <2>8 DEF ViewOK, Receive
<1>8. CASE \E p \in Pages : WsBreak(p)
  <2>1. PICK p \in Pages : WsBreak(p)
    BY <1>8
  <2>2. Carried(chan[p]) \subseteq Indices \cup {0}
    <3>1. chan[p] \in Seq(Messages)
      BY <1>0 DEF FeedOK
    <3> QED BY <3>1, CarriedView
  <2>3. missed' = [missed EXCEPT ![p] = IF fetch[p] = "asked" THEN @ ELSE @ \cup Carried(chan[p])]
    BY <2>1 DEF WsBreak, Carried
  <2>4. missed' \in [Pages -> SUBSET (Indices \cup {0})]
    BY <1>0, <2>2, <2>3 DEF ViewOK
  <2> QED BY <1>0, <2>1, <2>4 DEF ViewOK, WsBreak
<1>9. CASE UNCHANGED vars
  BY <1>0, <1>9 DEF ViewOK, vars, page
<1> QED BY <1>1, <1>2, <1>3, <1>4, <1>5, <1>6, <1>7, <1>8, <1>9 DEF Next

LEMMA TypeStep ==
  ASSUME TypeOK, [Next]_vars
  PROVE  TypeOK'
<1>1. ServerOK' /\ FeedOK' /\ ViewOK'
  BY ServerTypes, FeedTypes, ViewTypes
<1> QED BY <1>1 DEF TypeOK, ServerOK, FeedOK, ViewOK


-----------------------------------------------------------------------------
(* The status *)

(* A step that is not of a toggle or a filter change leaves alone all that *)
(* the status depends on.                                                  *)
LEMMA StatusUntouched ==
  ASSUME \/ ProcessPacket \/ ClearHistory
         \/ \E p \in Pages : \/ OpenPage(p) \/ AnswerFetch(p) \/ ShowAnswer(p)
                             \/ Register(p) \/ Receive(p) \/ WsBreak(p)
         \/ UNCHANGED vars
  PROVE  UNCHANGED <<isScanning, toggle, seen, overlap, lastStatus>>
BY DEF ProcessPacket, ClearHistory, OpenPage, AnswerFetch, ShowAnswer, Register, Receive,
       WsBreak, vars, control, toggles

(* A toggle that starts while another is under way counts as an overlap,   *)
(* so that without one the value a toggle has read is the one it set.      *)
LEMMA ToggleStep ==
  ASSUME TypeOK, ToggleInv, StatusUnlessOverlap, [Next]_vars
  PROVE  ToggleInv' /\ StatusUnlessOverlap'
<1>0. toggle \in [Requests -> {"new", "read", "send", "done"}] /\ seen \in [Requests -> BOOLEAN]
  BY DEF TypeOK
<1>1. CASE \E f \in Filters \cup {""} : SetFilter(f)
  <2>1. UNCHANGED <<isScanning, toggle, seen, overlap>> /\ lastStatus' = isScanning
    BY <1>1 DEF SetFilter, toggles
  <2> QED BY <2>1 DEF ToggleInv, StatusUnlessOverlap, UnderWay
<1>2. CASE \E r \in Requests : ToggleFlip(r)
  <2>1. PICK r \in Requests : ToggleFlip(r)
    BY <1>2
  <2>2. /\ toggle' = [toggle EXCEPT ![r] = "read"]
        /\ ~overlap' => \A q \in Requests : ~UnderWay(q)
    BY <2>1 DEF ToggleFlip, UnderWay
  <2>3. toggle'[r] = "read" /\ \A q \in Requests : q # r => toggle'[q] = toggle[q]
    BY <1>0, <2>2
  <2>4. ~Settled'
    BY <2>3 DEF Settled
  <2>5. ToggleInv'
    BY <2>2, <2>3 DEF ToggleInv, UnderWay
  <2> QED BY <2>4, <2>5 DEF StatusUnlessOverlap
<1>3. CASE \E r \in Requests : ToggleRead(r)
  <2>1. PICK r \in Requests : ToggleRead(r)
    BY <1>3
  <2>2. /\ toggle[r] = "read" /\ UNCHANGED <<isScanning, overlap>>
        /\ toggle' = [toggle EXCEPT ![r] = "send"] /\ seen' = [seen EXCEPT ![r] = isScanning]
    BY <2>1 DEF ToggleRead, control
  <2>3. /\ toggle'[r] = "send" /\ seen'[r] = isScanning
        /\ \A q \in Requests : q # r => toggle'[q] = toggle[q] /\ seen'[q] = seen[q]
    BY <1>0, <2>2
  <2>4. ~Settled'
    BY <2>3 DEF Settled
  <2>5. ToggleInv'
    BY <2>2, <2>3 DEF ToggleInv, UnderWay
  <2> QED BY <2>4, <2>5 DEF StatusUnlessOverlap
<1>4. CASE \E r \in Requests : ToggleSend(r)
  <2>1. PICK r \in Requests : ToggleSend(r)
    BY <1>4
  <2>2. /\ toggle[r] = "send" /\ UNCHANGED <<isScanning, overlap, seen>>
        /\ toggle' = [toggle EXCEPT ![r] = "done"] /\ lastStatus' = seen[r]
    BY <2>1 DEF ToggleSend, control
  <2>3. toggle'[r] = "done" /\ \A q \in Requests : q # r => toggle'[q] = toggle[q]
    BY <1>0, <2>2
  <2>4. ~overlap => lastStatus' = isScanning
    BY <2>2 DEF ToggleInv
  <2>5. ToggleInv'
    BY <2>2, <2>3 DEF ToggleInv, UnderWay
  <2> QED BY <2>2, <2>4, <2>5 DEF StatusUnlessOverlap
<1>5. CASE UNCHANGED <<isScanning, toggle, seen, overlap, lastStatus>>
  BY <1>5 DEF ToggleInv, StatusUnlessOverlap, Settled, UnderWay
<1> QED BY <1>1, <1>2, <1>3, <1>4, <1>5, StatusUntouched DEF Next

-----------------------------------------------------------------------------
(* The packets *)

(* What a page shows, is about to show, or has lost in a known way. *)
Known(p) == Range(list[p]) \cup Range(answer[p]) \cup InChannel(p) \cup missed[p]

Fetched(p) == fetch[p] \in {"answer", "done"}

(* The indices in flight to a page, by the channel's content. *)
LEMMA KnownView ==
  ASSUME NEW p \in Pages
  PROVE  /\ Known(p)  = Range(list[p]) \cup Range(answer[p]) \cup Carried(chan[p]) \cup missed[p]
         /\ Known(p)' = Range(list'[p]) \cup Range(answer'[p]) \cup Carried(chan'[p]) \cup missed'[p]
BY DEF Known, InChannel, Carried

(* The packets of the history have an index. *)
LEMMA HistoryIndices ==
  ASSUME TypeOK
  PROVE  Range(history) \subseteq Indices /\ 0 \notin Indices
<1>1. history \in Seq(Indices)
  BY DEF TypeOK
<1>2. Range(history) \subseteq Indices
  BY <1>1, SeqView
<1> QED BY <1>2 DEF Indices

(* A broadcast that is not of a packet: nothing becomes unknown. *)
LEMMA KnownKept ==
  ASSUME TypeOK, NEW p \in Pages, NEW m \in Messages, Broadcast(m),
         UNCHANGED <<list, answer, missed>>
  PROVE  Known(p) \subseteq Known(p)'
<1>1. Carried(chan[p]) \subseteq Carried(chan'[p])
  BY BroadcastView
<1> QED BY <1>1, KnownView

(* A stored packet is sent to the page, or the page asks for it later, or  *)
(* it is missed.                                                           *)
LEMMA PacketExplained ==
  ASSUME TypeOK, MissingIsExplained, ProcessPacket, NEW p \in Pages, Fetched(p)'
  PROVE  Range(history)' \subseteq Known(p)'
<1> DEFINE n == packetCounter + 1
           m == PacketMsg(n)
<1>1. n \in Indices /\ m \in Messages /\ m.index = n
  BY NextIndex, MessageTypes DEF ProcessPacket
<1>2. Fetched(p) /\ UNCHANGED <<list, answer>>
  BY DEF ProcessPacket, Fetched, page
<1>3. Range(history) \subseteq Known(p)
  BY <1>2 DEF MissingIsExplained, Known, Fetched
<1>4. CASE /\ Hist!Add(n) /\ Broadcast(m)
           /\ missed' = [q \in Pages |-> missed[q] \cup (IF q \in Unaware THEN {n} ELSE {})]
  <2> HIDE DEF n, m
  <2>1. Range(history') \subseteq Range(history) \cup {n}
    BY <1>1, <1>4, HistoryAdds
  <2>2. /\ Carried(chan[p]) \subseteq Carried(chan'[p])
        /\ HasRoom(p) => n \in Carried(chan'[p])
    BY <1>1, <1>4, BroadcastView
  <2>3. missed[p] \subseteq missed'[p] /\ (p \in Unaware => n \in missed'[p])
    BY <1>4
  <2>4. HasRoom(p) \/ p \in Unaware
    BY <1>2 DEF Unaware, Fetched
  <2>5. n \in Known(p)' /\ Known(p) \subseteq Known(p)'
    BY <1>2, <2>2, <2>3, <2>4, KnownView
  <2> QED BY <1>3, <2>1, <2>5
<1>5. CASE UNCHANGED <<history, chan, missed>>
  <2>1. Known(p)' = Known(p)
    BY <1>2, <1>5, KnownView
  <2> QED BY <1>3, <1>5, <2>1
<1> QED BY <1>4, <1>5 DEF ProcessPacket

(* A message taken from the channel is on the list, or was no packet; what *)
(* it pushed off the list is missed.                                       *)
LEMMA ReceiveExplained ==
  ASSUME TypeOK, NEW p \in Pages, Receive(p)
  PROVE  Known(p) \subseteq Known(p)' \cup {0}
<1>1. chan \in [Pages -> Seq(Messages)] /\ missed \in [Pages -> SUBSET (Indices \cup {0})]
  BY DEF TypeOK
<1>2. chan[p] \in Seq(Messages) /\ chan[p] # <<>>
  BY <1>1 DEF Receive
<1>3. Carried(chan[p]) = Carried(Tail(chan[p])) \cup {Head(chan[p]).index}
  BY <1>2, CarriedMoves
<1>4. chan'[p] = Tail(chan[p]) /\ answer' = answer
  BY <1>1 DEF Receive
<1>5. missed'[p] = missed[p] \cup (Range(list[p]) \ Range(list'[p]))
  BY <1>1 DEF Receive
<1>6. Head(chan[p]).index \in Range(list'[p]) \cup {0}
  BY ReceivedList
<1> QED BY <1>3, <1>4, <1>5, <1>6, KnownView

(* What a failed WebSocket held is missed. *)
LEMMA BreakExplained ==
  ASSUME TypeOK, NEW p \in Pages, WsBreak(p), Fetched(p)
  PROVE  Known(p) \subseteq Known(p)'
<1>1. missed \in [Pages -> SUBSET (Indices \cup {0})]
  BY DEF TypeOK
<1>2. fetch[p] # "asked" /\ UNCHANGED <<list, answer>>
  BY DEF WsBreak, Fetched
<1>3. missed'[p] = missed[p] \cup Carried(chan[p])
  BY <1>1, <1>2 DEF WsBreak, Carried
<1> QED BY <1>2, <1>3, KnownView

(* The answer has the whole history when it is made, and replaces a list   *)
(* whose other packets are missed.                                         *)
LEMMA AnswerExplained ==
  ASSUME TypeOK, NEW p \in Pages
  PROVE  /\ AnswerFetch(p) => Range(history) \subseteq Known(p)'
         /\ ShowAnswer(p) => Known(p) \subseteq Known(p)'
<1>1. /\ history \in Seq(Indices) /\ answer \in [Pages -> Seq(Indices)]
      /\ list \in [Pages -> Seq(Indices)] /\ missed \in [Pages -> SUBSET (Indices \cup {0})]
  BY DEF TypeOK
<1>2. ASSUME AnswerFetch(p)
      PROVE  Range(history) \subseteq Known(p)'
  <2>1. answer'[p] = Reverse(history)
    BY <1>1, <1>2 DEF AnswerFetch
  <2>2. Range(Reverse(history)) = Range(history)
    BY <1>1, ReverseView
  <2> QED BY <2>1, <2>2, KnownView
<1>3. ASSUME ShowAnswer(p)
      PROVE  Known(p) \subseteq Known(p)'
  <2>1. list'[p] = answer[p] /\ chan' = chan
    BY <1>1, <1>3 DEF ShowAnswer
  <2>2. missed'[p] = missed[p] \cup (Range(list[p]) \ Range(answer[p]))
    BY <1>1, <1>3 DEF ShowAnswer
  <2> QED BY <2>1, <2>2, KnownView
<1> QED BY <1>2, <1>3

(* A step of one page changes nothing that another one knows. *)
LEMMA OthersKnow ==
  ASSUME TypeOK, NEW p \in Pages, NEW q \in Pages, p # q,
         \/ OpenPage(q) \/ AnswerFetch(q) \/ ShowAnswer(q)
         \/ Register(q) \/ Receive(q) \/ WsBreak(q)
  PROVE  Known(p)' = Known(p) /\ fetch'[p] = fetch[p]
<1>1. /\ chan \in [Pages -> Seq(Messages)] /\ answer \in [Pages -> Seq(Indices)]
      /\ list \in [Pages -> Seq(Indices)] /\ missed \in [Pages -> SUBSET (Indices \cup {0})]
      /\ fetch \in [Pages -> {"none", "asked", "answer", "done"}]
  BY DEF TypeOK
<1>2. /\ chan'[p] = chan[p] /\ answer'[p] = answer[p] /\ list'[p] = list[p]
      /\ missed'[p] = missed[p] /\ fetch'[p] = fetch[p]
  BY <1>1 DEF OpenPage, AnswerFetch, ShowAnswer, Register, Receive, WsBreak
<1> QED BY <1>2, KnownView

LEMMA MissingStep ==
  ASSUME TypeOK, MissingIsExplained, [Next]_vars
  PROVE  MissingIsExplained'
<1> SUFFICES ASSUME NEW p \in Pages, Fetched(p)'
             PROVE  Range(history)' \subseteq Known(p)'
  BY DEF MissingIsExplained, Fetched, Known
<1>0. Fetched(p) => Range(history) \subseteq Known(p)
  BY DEF MissingIsExplained, Fetched, Known
<1>1. CASE ProcessPacket
  BY <1>1, PacketExplained
<1>2. CASE ClearHistory
  <2>1. history' = <<>>
    BY <1>2 DEF ClearHistory, Hist!Clear
  <2> QED BY <2>1, EmptyView
<1>3. CASE (\E f \in Filters \cup {""} : SetFilter(f)) \/ (\E r \in Requests : ToggleSend(r))
  <2>1. PICK m \in Messages : Broadcast(m)
    BY <1>3, MessageTypes DEF SetFilter, ToggleSend
  <2>2. UNCHANGED <<history, fetch, list, answer, missed>>
    BY <1>3 DEF SetFilter, ToggleSend, control, page
  <2> QED BY <1>0, <2>1, <2>2, KnownKept DEF Fetched
<1>4. CASE \E r \in Requests : ToggleFlip(r) \/ ToggleRead(r)
  <2>1. UNCHANGED <<history, fetch, list, answer, chan, missed>>
    BY <1>4 DEF ToggleFlip, ToggleRead, control, page
  <2> QED BY <1>0, <2>1, KnownView DEF Fetched
<1>5. CASE \E q \in Pages : \/ OpenPage(q) \/ AnswerFetch(q) \/ ShowAnswer(q)
                            \/ Register(q) \/ Receive(q) \/ WsBreak(q)
  <2>1. PICK q \in Pages : \/ OpenPage(q) \/ AnswerFetch(q) \/ ShowAnswer(q)
                           \/ Register(q) \/ Receive(q) \/ WsBreak(q)
    BY <1>5
  <2>2. history' = history /\ fetch \in [Pages -> {"none", "asked", "answer", "done"}]
    BY <2>1 DEF OpenPage, AnswerFetch, ShowAnswer, Register, Receive, WsBreak, control, TypeOK
  <2>3. CASE p # q
    BY <1>0, <2>1, <2>2, <2>3, OthersKnow DEF Fetched
  <2>4. CASE p = q
    <3>1. ASSUME OpenPage(p) PROVE FALSE
      BY <2>2, <3>1 DEF OpenPage, Fetched
    <3>2. CASE AnswerFetch(p)
      BY <2>2, <3>2, AnswerExplained
    <3>3. CASE ShowAnswer(p)
      BY <1>0, <2>2, <3>3, AnswerExplained DEF ShowAnswer, Fetched
    <3>4. CASE Register(p)
      <4>1. UNCHANGED <<fetch, list, answer, chan, missed>>
        BY <3>4 DEF Register
      <4> QED BY <1>0, <2>2, <4>1, KnownView DEF Fetched
    <3>5. CASE Receive(p)
      <4>1. Fetched(p)
        BY <3>5 DEF Receive, Fetched
      <4> QED BY <1>0, <2>2, <3>5, <4>1, ReceiveExplained, HistoryIndices
    <3>6. CASE WsBreak(p)
      <4>1. Fetched(p)
        BY <3>6 DEF WsBreak, Fetched
      <4> QED BY <1>0, <2>2, <3>6, <4>1, BreakExplained
    <3> QED BY <2>1, <2>4, <3>1, <3>2, <3>3, <3>4, <3>5, <3>6
  <2> QED BY <2>3, <2>4
<1>6. CASE UNCHANGED vars
  <2>1. UNCHANGED <<history, fetch, list, answer, chan, missed>>
    BY <1>6 DEF vars, control, page
  <2> QED BY <1>0, <2>1, KnownView DEF Fetched
<1> QED BY <1>1, <1>2, <1>3, <1>4, <1>5, <1>6 DEF Next

-----------------------------------------------------------------------------
(* The theorems *)

LEMMA PageInit ==
  ASSUME Init
  PROVE  PageInv
<1>1. /\ \A S : <<>> \in Seq(S) /\ Len(<<>>) = 0
      /\ MaxPackets \in Nat /\ MaxBreaks \in Nat /\ HistorySize >= 0 /\ ChanRoom >= 0
  BY EmptyView, PageAssumption
<1>2. TypeOK
  <2>1. ServerOK
    <3>1. 0 \in 0 .. MaxPackets /\ 0 \in 0 .. MaxBreaks
      BY <1>1
    <3>2. packetCounter = 0 /\ breaks = 0
      BY DEF Init
    <3>3. /\ toggle \in [Requests -> {"new", "read", "send", "done"}]
          /\ seen \in [Requests -> BOOLEAN]
          /\ isScanning \in BOOLEAN /\ filterStr \in Filters \cup {""}
          /\ overlap \in BOOLEAN /\ lastStatus \in BOOLEAN /\ clients \subseteq Pages
      BY DEF Init
    <3> QED BY <3>1, <3>2, <3>3 DEF ServerOK
  <2>2. FeedOK
    BY <1>1 DEF Init, FeedOK
  <2>3. ViewOK
    BY <1>1 DEF Init, ViewOK
  <2> QED BY <2>1, <2>2, <2>3, TypeParts
<1>3. ToggleInv /\ StatusUnlessOverlap
  BY DEF Init, ToggleInv, StatusUnlessOverlap, UnderWay
<1>4. MissingIsExplained
  BY DEF Init, MissingIsExplained
<1> QED BY <1>2, <1>3, <1>4 DEF PageInv

LEMMA PageStep ==
  ASSUME PageInv, [Next]_vars
  PROVE  PageInv'
<1>1. TypeOK' /\ ToggleInv' /\ StatusUnlessOverlap' /\ MissingIsExplained'
  BY TypeStep, ToggleStep, MissingStep DEF PageInv
<1> QED BY <1>1 DEF PageInv

(* The server and its pages keep their invariant: the types (the list of a *)
(* page never outgrows its limit, nor a channel its room), at most one     *)
(* toggle under way until two overlap, and the two properties below.       *)
THEOREM PageInvariant == Spec => []PageInv
<1>1. Init => PageInv
  BY PageInit
<1>2. PageInv /\ [Next]_vars => PageInv'
  BY PageStep
<1> QED BY <1>1, <1>2, PTL DEF Spec

(* Every packet of the history that a page whose fetch was answered does   *)
(* not show, and will not, was lost in one of the known ways: the fetch    *)
(* and the WebSocket of the page leave no other gap, in whichever order    *)
(* the answer, the registration and the messages come.                     *)
THEOREM MissingExplained == Spec => []MissingIsExplained
<1>1. PageInv => MissingIsExplained
  BY DEF PageInv
<1> QED BY <1>1, PageInvariant, PTL

(* The last status the server told its pages is the right one when no      *)
(* toggle is under way, unless toggles overlapped: for any number of       *)
(* toggle requests and filter changes.                                     *)
THEOREM StatusRight == Spec => []StatusUnlessOverlap
<1>1. PageInv => StatusUnlessOverlap
  BY DEF PageInv
<1> QED BY <1>1, PageInvariant, PTL

=============================================================================
