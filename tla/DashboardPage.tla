--------------------------- MODULE DashboardPage ---------------------------
(***************************************************************************)
(* The dashboard's server and the browser pages it feeds.  The processor   *)
(* stores a packet and broadcasts it; the handlers of / clear the history, *)
(* pause and resume the scan, and set the filter; every page fetches the   *)
(* history once, gets the broadcasts over a WebSocket, and opens a new one *)
(* when it closes.                                                         *)
(*                                                                         *)
(* What a handler does while it holds mu is one action: the others that    *)
(* take mu wait, and what does not take mu (a page registering, a toggle's *)
(* broadcast) commutes with it.  A packet is its index.                    *)
(***************************************************************************)
EXTENDS Integers, Sequences, FiniteSets, Functions

CONSTANTS
  Pages,        (* browser pages                                            *)
  Requests,     (* the requests of /?action=toggle                          *)
  Filters,      (* filter strings besides the empty one                     *)
  HistorySize,  (* of historyBuffer, and of the page's list                 *)
  ChanRoom,     (* capacity of a client's channel                           *)
  MaxPackets,   (* bound: packetCounter                                     *)
  MaxBreaks     (* bound: WebSocket failures                                *)

ASSUME PageAssumption ==
  /\ HistorySize \in Nat \ {0}
  /\ ChanRoom \in Nat \ {0}
  /\ MaxPackets \in Nat
  /\ MaxBreaks \in Nat

VARIABLES
  isScanning,
  filterStr,
  packetCounter,
  history,      \* historyBuffer, oldest first
  toggle,       \* where each toggle request is
  seen,         \* the isScanning each has read for its broadcast
  overlap,      \* history: two toggle requests were under way at once
  lastStatus,   \* history: isScanning of the last status message broadcast
  clients,      \* the pages with a registered channel
  chan,         \* the channel of each page
  ws,           \* the WebSocket as the page sees it
  fetch,        \* the page's request for /api/packets
  answer,       \* the packets of its answer
  answered,     \* the isScanning of its answer
  list,         \* packets of the page
  label,        \* the status label of the page
  missed,       \* history: the packets each page has lost track of
  breaks

control == <<isScanning, filterStr, packetCounter, history>>
toggles == <<toggle, seen, overlap>>
page    == <<ws, fetch, answer, answered, list, label>>
vars    == <<control, toggles, lastStatus, clients, chan, page, missed, breaks>>

Hist == INSTANCE BoundedHistory WITH Size <- HistorySize, Values <- {}, items <- history

PacketMsg(n) == [type |-> "packet", index |-> n, isScanning |-> FALSE]
StatusMsg(s) == [type |-> "status", index |-> 0, isScanning |-> s]
ClearMsg     == [type |-> "clear", index |-> 0, isScanning |-> FALSE]

Reverse(s) == [i \in DOMAIN s |-> s[Len(s) + 1 - i]]

Init ==
  /\ isScanning = TRUE
  /\ filterStr = ""
  /\ packetCounter = 0
  /\ history = <<>>
  /\ toggle = [r \in Requests |-> "new"]
  /\ seen = [r \in Requests |-> FALSE]
  /\ overlap = FALSE
  /\ lastStatus = TRUE
  /\ clients = {}
  /\ chan = [p \in Pages |-> <<>>]
  /\ ws = [p \in Pages |-> "none"]
  /\ fetch = [p \in Pages |-> "none"]
  /\ answer = [p \in Pages |-> <<>>]
  /\ answered = [p \in Pages |-> FALSE]
  /\ list = [p \in Pages |-> <<>>]
  /\ label = [p \in Pages |-> FALSE]
  /\ missed = [p \in Pages |-> {}]
  /\ breaks = 0

-----------------------------------------------------------------------------
(* Faulty variants of the server and of the page. *)

(* The toggle announces the value it replaced. *)
ToggleReadsInverse(r) ==
  /\ toggle[r] = "read"
  /\ seen' = [seen EXCEPT ![r] = ~isScanning]
  /\ toggle' = [toggle EXCEPT ![r] = "send"]
  /\ UNCHANGED <<control, overlap, lastStatus, clients, chan, page, missed, breaks>>

(* The answer of the fetch is ignored by a page that has packets. *)
ShowAnswerOnce(p) ==
  /\ fetch[p] = "answer"
  /\ list' = [list EXCEPT ![p] = IF @ = <<>> THEN answer[p] ELSE @]
  /\ label' = [label EXCEPT ![p] = answered[p]]
  /\ fetch' = [fetch EXCEPT ![p] = "done"]
  /\ answer' = [answer EXCEPT ![p] = <<>>]
  /\ UNCHANGED <<control, toggles, lastStatus, clients, chan, ws, answered, missed, breaks>>

(* The page's list has no limit. *)
PushedUnbounded(s, n) == Append(s, n)

-----------------------------------------------------------------------------
(* broadcast: a message that finds a channel full is dropped. *)
HasRoom(p) == p \in clients /\ Len(chan[p]) < ChanRoom

Broadcast(msg) ==
  chan' = [p \in Pages |-> IF HasRoom(p) THEN Append(chan[p], msg) ELSE chan[p]]

(* The pages that neither get a broadcast packet nor ask for it any more. *)
Unaware == {p \in Pages : fetch[p] \in {"answer", "done"} /\ ~HasRoom(p)}

(* The processor: while the scan is paused packets are thrown away; one    *)
(* that the filter rejects is numbered and not stored.                     *)
ProcessPacket ==
  LET n == packetCounter + 1
  IN /\ isScanning
     /\ packetCounter < MaxPackets
     /\ packetCounter' = n
     /\ \/ /\ Hist!Add(n)
           /\ Broadcast(PacketMsg(n))
           /\ missed' = [p \in Pages |-> missed[p] \cup (IF p \in Unaware THEN {n} ELSE {})]
        \/ /\ filterStr # ""
           /\ UNCHANGED <<history, chan, missed>>
     /\ UNCHANGED <<isScanning, filterStr, toggles, lastStatus, clients, page, breaks>>

ClearHistory ==
  /\ Hist!Clear
  /\ Broadcast(ClearMsg)
  /\ UNCHANGED <<isScanning, filterStr, packetCounter, toggles, lastStatus, clients, page,
                 missed, breaks>>

SetFilter(f) ==
  /\ filterStr # f
  /\ filterStr' = f
  /\ Broadcast(StatusMsg(isScanning))
  /\ lastStatus' = isScanning
  /\ UNCHANGED <<isScanning, packetCounter, history, toggles, clients, page, missed, breaks>>

-----------------------------------------------------------------------------
(* /?action=toggle: mu is held for the change only; isScanning is read     *)
(* again for the message, and the broadcast is a third step.               *)
ToggleFlip(r) ==
  /\ toggle[r] = "new"
  /\ isScanning' = ~isScanning
  /\ toggle' = [toggle EXCEPT ![r] = "read"]
  /\ overlap' = (overlap \/ \E q \in Requests : toggle[q] \in {"read", "send"})
  /\ UNCHANGED <<filterStr, packetCounter, history, seen, lastStatus, clients, chan, page,
                 missed, breaks>>

ToggleRead(r) ==
  /\ toggle[r] = "read"
  /\ seen' = [seen EXCEPT ![r] = isScanning]
  /\ toggle' = [toggle EXCEPT ![r] = "send"]
  /\ UNCHANGED <<control, overlap, lastStatus, clients, chan, page, missed, breaks>>

ToggleSend(r) ==
  /\ toggle[r] = "send"
  /\ Broadcast(StatusMsg(seen[r]))
  /\ lastStatus' = seen[r]
  /\ toggle' = [toggle EXCEPT ![r] = "done"]
  /\ UNCHANGED <<control, seen, overlap, clients, page, missed, breaks>>

-----------------------------------------------------------------------------
(* The page *)

(* The page is rendered with the current status; its script then asks for  *)
(* the packets and opens the WebSocket.                                    *)
OpenPage(p) ==
  /\ ws[p] = "none"
  /\ ws' = [ws EXCEPT ![p] = "connecting"]
  /\ fetch' = [fetch EXCEPT ![p] = "asked"]
  /\ label' = [label EXCEPT ![p] = isScanning]
  /\ UNCHANGED <<control, toggles, lastStatus, clients, chan, answer, answered, list, missed, breaks>>

(* /api/packets: newest first. *)
AnswerFetch(p) ==
  /\ fetch[p] = "asked"
  /\ answer' = [answer EXCEPT ![p] = Reverse(history)]
  /\ answered' = [answered EXCEPT ![p] = isScanning]
  /\ fetch' = [fetch EXCEPT ![p] = "answer"]
  /\ UNCHANGED <<control, toggles, lastStatus, clients, chan, ws, list, label, missed, breaks>>

(* displayData: the answer replaces what the page has. *)
ShowAnswer(p) ==
  /\ fetch[p] = "answer"
  /\ list' = [list EXCEPT ![p] = answer[p]]
  /\ missed' = [missed EXCEPT ![p] = @ \cup (Range(list[p]) \ Range(answer[p]))]
  /\ label' = [label EXCEPT ![p] = answered[p]]
  /\ fetch' = [fetch EXCEPT ![p] = "done"]
  /\ answer' = [answer EXCEPT ![p] = <<>>]
  /\ UNCHANGED <<control, toggles, lastStatus, clients, chan, ws, answered, breaks>>

(* serveWs registers the page's channel. *)
Register(p) ==
  /\ ws[p] = "connecting"
  /\ ws' = [ws EXCEPT ![p] = "open"]
  /\ clients' = clients \cup {p}
  /\ UNCHANGED <<control, toggles, lastStatus, chan, fetch, answer, answered, list, label,
                 missed, breaks>>

(* push, and shift when the list has grown past its limit. *)
Pushed(s, n) ==
  LET t == Append(s, n) IN IF Len(t) > HistorySize THEN Tail(t) ELSE t

(* onmessage *)
Receive(p) ==
  LET msg == Head(chan[p])
  IN /\ ws[p] = "open"
     /\ chan[p] # <<>>
     /\ chan' = [chan EXCEPT ![p] = Tail(@)]
     /\ list' = [list EXCEPT ![p] = CASE msg.type = "packet" -> Pushed(@, msg.index)
                                      [] msg.type = "clear"  -> <<>>
                                      [] OTHER               -> @]
     /\ missed' = [missed EXCEPT ![p] = @ \cup (Range(list[p]) \ Range(list'[p]))]
     /\ label' = [label EXCEPT ![p] = IF msg.type = "status" THEN msg.isScanning ELSE @]
     /\ UNCHANGED <<control, toggles, lastStatus, clients, ws, fetch, answer, answered, breaks>>

(* The WebSocket fails with what is still in the channel, and the page     *)
(* will open another.  The old channel stays in clients until the next     *)
(* message for it cannot be written; no page reads it.                     *)
WsBreak(p) ==
  /\ ws[p] = "open"
  /\ breaks < MaxBreaks
  /\ breaks' = breaks + 1
  /\ ws' = [ws EXCEPT ![p] = "connecting"]
  /\ clients' = clients \ {p}
  /\ chan' = [chan EXCEPT ![p] = <<>>]
  /\ missed' = [missed EXCEPT ![p] =
                  IF fetch[p] = "asked" THEN @ ELSE @ \cup {chan[p][i].index : i \in DOMAIN chan[p]}]
  /\ UNCHANGED <<control, toggles, lastStatus, fetch, answer, answered, list, label>>

Next ==
  \/ ProcessPacket
  \/ ClearHistory
  \/ \E f \in Filters \cup {""} : SetFilter(f)
  \/ \E r \in Requests : ToggleFlip(r)
  \/ \E r \in Requests : ToggleRead(r)
  \/ \E r \in Requests : ToggleSend(r)
  \/ \E p \in Pages : OpenPage(p)
  \/ \E p \in Pages : AnswerFetch(p)
  \/ \E p \in Pages : ShowAnswer(p)
  \/ \E p \in Pages : Register(p)
  \/ \E p \in Pages : Receive(p)
  \/ \E p \in Pages : WsBreak(p)

Spec == Init /\ [][Next]_vars

-----------------------------------------------------------------------------
Indices == 1 .. MaxPackets

Messages ==
  {PacketMsg(n) : n \in Indices} \cup {StatusMsg(s) : s \in BOOLEAN} \cup {ClearMsg}

(* Types.  The page's list never outgrows the history's limit. *)
TypeOK ==
  /\ isScanning \in BOOLEAN
  /\ filterStr \in Filters \cup {""}
  /\ packetCounter \in 0 .. MaxPackets
  /\ history \in Seq(Indices) /\ Len(history) <= HistorySize
  /\ toggle \in [Requests -> {"new", "read", "send", "done"}]
  /\ seen \in [Requests -> BOOLEAN]
  /\ overlap \in BOOLEAN /\ lastStatus \in BOOLEAN
  /\ clients \subseteq Pages
  /\ chan \in [Pages -> Seq(Messages)]
  /\ ws \in [Pages -> {"none", "connecting", "open"}]
  /\ fetch \in [Pages -> {"none", "asked", "answer", "done"}]
  /\ answer \in [Pages -> Seq(Indices)]
  /\ answered \in [Pages -> BOOLEAN]
  /\ list \in [Pages -> Seq(Indices)]
  /\ label \in [Pages -> BOOLEAN]
  /\ missed \in [Pages -> SUBSET (Indices \cup {0})]
  /\ \A p \in Pages :
       /\ Len(chan[p]) <= ChanRoom
       /\ Len(answer[p]) <= HistorySize
       /\ Len(list[p]) <= HistorySize
  /\ breaks \in 0 .. MaxBreaks

InChannel(p) == {chan[p][i].index : i \in DOMAIN chan[p]}

(* A packet of the history that a page neither shows nor is about to show  *)
(* was lost in one of the known ways: broadcast before the page registered *)
(* and after its fetch was answered, dropped by a full channel or a failed *)
(* WebSocket, replaced by a late answer, wiped by a clear that was meant   *)
(* for older packets, or shifted out of the list.                          *)
MissingIsExplained ==
  \A p \in Pages : fetch[p] \in {"answer", "done"} =>
    Range(history) \subseteq
      Range(list[p]) \cup Range(answer[p]) \cup InChannel(p) \cup missed[p]

Settled == \A r \in Requests : toggle[r] \in {"new", "done"}

(* Unless two toggles overlap, the last status told to the pages is the    *)
(* right one when no toggle is under way, although isScanning is read      *)
(* after mu is released and filter changes announce it too.                *)
StatusUnlessOverlap ==
  Settled /\ ~overlap => lastStatus = isScanning

UnderWay(r) == toggle[r] \in {"read", "send"}

(* As long as toggles do not overlap there is one under way at most, and   *)
(* what it has read for its message is still true.                         *)
ToggleInv ==
  ~overlap => /\ \A q, r \in Requests : UnderWay(q) /\ UnderWay(r) => q = r
              /\ \A r \in Requests : toggle[r] = "send" => seen[r] = isScanning

(* What every step of the server, of a toggle and of a page preserves. *)
PageInv ==
  /\ TypeOK
  /\ ToggleInv
  /\ StatusUnlessOverlap
  /\ MissingIsExplained
=============================================================================
