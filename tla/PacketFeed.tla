----------------------------- MODULE PacketFeed -----------------------------
(***************************************************************************)
(* From the packet service to the dashboard: capture connections publish   *)
(* to a tokio broadcast channel, one task per dashboard connection copies  *)
(* the channel to its socket, and the dashboard's reader goroutine fills   *)
(* packetChan and dials again when its connection breaks.  A packet is the *)
(* number of its tx.send.                                                  *)
(***************************************************************************)
EXTENDS Integers, Sequences, FiniteSets

CONSTANTS
  Sources,      (* the connections of capture programs                      *)
  Capacity,     (* of the broadcast channel: 100, which tokio rounds to 128 *)
  SocketRoom,   (* lines the kernel holds for one connection                *)
  ChanRoom,     (* capacity of packetChan                                   *)
  MinInterval,  (* the shortest and the longest wait before a dial, and the *)
  MaxInterval,  (* width of the integers the wait is computed with          *)
  Width,
  MaxPackets,   (* bound: packets published                                 *)
  MaxConns,     (* bound: connections the dashboard makes                   *)
  MaxFailures   (* bound: consecutiveFailures                               *)

ASSUME FeedAssumption ==
  /\ Capacity \in Nat \ {0}
  /\ SocketRoom \in Nat \ {0}
  /\ ChanRoom \in Nat \ {0}
  /\ MaxPackets \in Nat
  /\ MaxConns \in Nat \ {0}
  /\ MaxFailures \in Nat \ {0}

ASSUME BackoffAssumption ==
  /\ MinInterval \in Nat \ {0}
  /\ MaxInterval \in Nat /\ MinInterval <= MaxInterval
  /\ Width \in Nat /\ 2 * MaxInterval < 2 ^ (Width - 1)

Conns == 1 .. MaxConns

VARIABLES
  sent,      \* packets given to tx.send
  adding,    \* the sources between tx.send and PACKET_COUNT.fetch_add
  count,     \* PACKET_COUNT
  reported,  \* the sum of the METRICS lines
  handler,   \* where handle_go_connection is, for each connection
  next,      \* the packet each receiver gets next
  start,     \* the first packet each receiver can get
  skipped,   \* the packets each receiver was told it missed
  sock,      \* the lines on each connection
  broken,    \* the connections that have failed
  cur,       \* the dashboard's connection, the last one it made
  reader,    \* where the reader goroutine is
  failures,  \* consecutiveFailures
  line,      \* the packet the reader has scanned
  chan,      \* packetChan
  got        \* what was taken from packetChan, in order

service == <<sent, adding, count, reported>>
tasks   == <<handler, next, start, skipped>>
dash    == <<cur, reader, failures, line, chan, got>>
vars    == <<service, tasks, sock, broken, dash>>

Init ==
  /\ sent = 0
  /\ adding = {}
  /\ count = 0
  /\ reported = 0
  /\ handler = [c \in Conns |-> "none"]
  /\ next = [c \in Conns |-> 1]
  /\ start = [c \in Conns |-> 1]
  /\ skipped = [c \in Conns |-> {}]
  /\ sock = [c \in Conns |-> <<>>]
  /\ broken = {}
  /\ cur = 0
  /\ reader = "dial"
  /\ failures = 0
  /\ line = 0
  /\ chan = <<>>
  /\ got = <<>>

-----------------------------------------------------------------------------
(* Faulty variants of the service and of the reader. *)

(* The counter is read and not reset. *)
MetricsWithoutReset ==
  /\ reported' = reported + count
  /\ UNCHANGED <<sent, adding, count, tasks, sock, broken, dash>>

(* The receiver starts one packet early. *)
SubscribeEarly(c) ==
  /\ handler[c] = "accept"
  /\ next' = [next EXCEPT ![c] = sent]
  /\ start' = [start EXCEPT ![c] = sent]
  /\ handler' = [handler EXCEPT ![c] = "recv"]
  /\ UNCHANGED <<service, skipped, sock, broken, dash>>

(* The receiver starts with what the channel still holds. *)
SubscribeReplays(c) ==
  /\ handler[c] = "accept"
  /\ LET oldest == IF sent > Capacity THEN sent - Capacity + 1 ELSE 1
     IN /\ next' = [next EXCEPT ![c] = oldest]
        /\ start' = [start EXCEPT ![c] = oldest]
  /\ handler' = [handler EXCEPT ![c] = "recv"]
  /\ UNCHANGED <<service, skipped, sock, broken, dash>>

(* The listener serves one connection at a time. *)
SubscribeInTurn(c) ==
  /\ handler[c] = "accept"
  /\ \A d \in Conns : d < c => handler[d] = "ended"
  /\ next' = [next EXCEPT ![c] = sent + 1]
  /\ start' = [start EXCEPT ![c] = sent + 1]
  /\ handler' = [handler EXCEPT ![c] = "recv"]
  /\ UNCHANGED <<service, skipped, sock, broken, dash>>

(* The newest packet is left until another follows. *)
RecvLate(c) ==
  /\ handler[c] = "recv"
  /\ sent - Capacity < next[c] /\ next[c] < sent
  /\ next' = [next EXCEPT ![c] = next[c] + 1]
  /\ handler' = [handler EXCEPT ![c] = "write"]
  /\ UNCHANGED <<service, start, skipped, sock, broken, dash>>

(* A receiver that lags throws everything away. *)
LaggedToEnd(c) ==
  /\ handler[c] = "recv"
  /\ next[c] + Capacity <= sent
  /\ skipped' = [skipped EXCEPT ![c] = @ \cup (next[c] .. sent)]
  /\ next' = [next EXCEPT ![c] = sent + 1]
  /\ UNCHANGED <<service, handler, start, sock, broken, dash>>

(* The reader drops a packet when packetChan is full. *)
PushChanDrops ==
  /\ reader = "push"
  /\ chan' = IF Len(chan) < ChanRoom THEN Append(chan, line) ELSE chan
  /\ line' = 0
  /\ reader' = "scan"
  /\ UNCHANGED <<service, tasks, sock, broken, cur, failures, got>>

-----------------------------------------------------------------------------
(* The service: publishing and its metrics *)

Publish(s) ==
  /\ s \notin adding
  /\ sent < MaxPackets
  /\ sent' = sent + 1
  /\ adding' = adding \cup {s}
  /\ UNCHANGED <<count, reported, tasks, sock, broken, dash>>

CountPacket(s) ==
  /\ s \in adding
  /\ adding' = adding \ {s}
  /\ count' = count + 1
  /\ UNCHANGED <<sent, reported, tasks, sock, broken, dash>>

(* Once a second, packets or not: the swap, and the line it prints. *)
ReportMetrics ==
  /\ reported' = reported + count
  /\ count' = 0
  /\ UNCHANGED <<sent, adding, tasks, sock, broken, dash>>

-----------------------------------------------------------------------------
(* handle_go_connection *)

HandlerGoto(c, label) == handler' = [handler EXCEPT ![c] = label]

(* The listener has accepted the connection and tx.subscribe runs. *)
Subscribe(c) ==
  /\ handler[c] = "accept"
  /\ next' = [next EXCEPT ![c] = sent + 1]
  /\ start' = [start EXCEPT ![c] = sent + 1]
  /\ HandlerGoto(c, "recv")
  /\ UNCHANGED <<service, skipped, sock, broken, dash>>

(* The oldest packet the channel still holds. *)
Oldest == IF sent > Capacity THEN sent - Capacity + 1 ELSE 1

Recv(c) ==
  /\ handler[c] = "recv"
  /\ Oldest <= next[c] /\ next[c] <= sent
  /\ next' = [next EXCEPT ![c] = next[c] + 1]
  /\ HandlerGoto(c, "write")
  /\ UNCHANGED <<service, start, skipped, sock, broken, dash>>

(* RecvError::Lagged: the receiver moves on to the oldest packet. *)
Lagged(c) ==
  /\ handler[c] = "recv"
  /\ next[c] < Oldest
  /\ skipped' = [skipped EXCEPT ![c] = @ \cup (next[c] .. Oldest - 1)]
  /\ next' = [next EXCEPT ![c] = Oldest]
  /\ UNCHANGED <<service, handler, start, sock, broken, dash>>

(* write_all waits for room.  On a connection that has failed it may still *)
(* succeed, the line going nowhere, until it returns the error.            *)
WriteLine(c) ==
  /\ handler[c] = "write"
  /\ \/ /\ c \notin broken
        /\ Len(sock[c]) < SocketRoom
        /\ sock' = [sock EXCEPT ![c] = Append(@, next[c] - 1)]
     \/ /\ c \in broken
        /\ UNCHANGED sock
  /\ HandlerGoto(c, "recv")
  /\ UNCHANGED <<service, next, start, skipped, broken, dash>>

WriteFails(c) ==
  /\ handler[c] = "write"
  /\ c \in broken
  /\ HandlerGoto(c, "ended")
  /\ UNCHANGED <<service, next, start, skipped, sock, broken, dash>>

HandlerStep(c) ==
  \/ Subscribe(c)
  \/ Recv(c)
  \/ Lagged(c)
  \/ WriteLine(c)
  \/ WriteFails(c)

(* The network fails.  The last connection of the bound stays. *)
Break ==
  /\ cur \in Conns \ (broken \cup {MaxConns})
  /\ broken' = broken \cup {cur}
  /\ UNCHANGED <<service, tasks, sock, dash>>

-----------------------------------------------------------------------------
(* The reader goroutine of the dashboard *)

(* minInterval * (1 << (failures - 1)) in Width-bit two's complement. *)
Doubled[k \in Nat] ==
  IF k = 0 THEN MinInterval ELSE (2 * Doubled[k - 1]) % 2 ^ Width

Signed(x) == IF x >= 2 ^ (Width - 1) THEN x - 2 ^ Width ELSE x

(* A faulty variant that only tests for a wait too long. *)
BackoffUnchecked(n) ==
  LET backoff == Signed(Doubled[n - 1])
  IN IF backoff > MaxInterval THEN MaxInterval ELSE backoff

Backoff(n) ==
  LET backoff == Signed(Doubled[n - 1])
  IN IF backoff > MaxInterval \/ backoff < MinInterval THEN MaxInterval ELSE backoff

DialFails ==
  /\ reader = "dial"
  /\ failures < MaxFailures
  /\ failures' = failures + 1
  /\ UNCHANGED <<service, tasks, sock, broken, cur, reader, line, chan, got>>

(* The dial succeeds before the service accepts. *)
DialSucceeds ==
  /\ reader = "dial"
  /\ cur < MaxConns
  /\ cur' = cur + 1
  /\ HandlerGoto(cur + 1, "accept")
  /\ failures' = 0
  /\ reader' = "scan"
  /\ UNCHANGED <<service, next, start, skipped, sock, broken, line, chan, got>>

ScanLine ==
  /\ reader = "scan"
  /\ sock[cur] # <<>>
  /\ line' = Head(sock[cur])
  /\ sock' = [sock EXCEPT ![cur] = Tail(@)]
  /\ reader' = "push"
  /\ UNCHANGED <<service, tasks, broken, cur, failures, chan, got>>

(* The send on packetChan blocks while the channel is full. *)
PushChan ==
  /\ reader = "push"
  /\ Len(chan) < ChanRoom
  /\ chan' = Append(chan, line)
  /\ line' = 0
  /\ reader' = "scan"
  /\ UNCHANGED <<service, tasks, sock, broken, cur, failures, got>>

(* Scan fails; what was still on the connection is lost. *)
ScanEnds ==
  /\ reader = "scan"
  /\ cur \in broken
  /\ sock' = [sock EXCEPT ![cur] = <<>>]
  /\ failures' = failures + 1
  /\ reader' = "dial"
  /\ UNCHANGED <<service, tasks, broken, cur, line, chan, got>>

ReaderStep == DialFails \/ DialSucceeds \/ ScanLine \/ PushChan \/ ScanEnds

(* The processor goroutine takes a packet. *)
TakeChan ==
  /\ chan # <<>>
  /\ got' = Append(got, Head(chan))
  /\ chan' = Tail(chan)
  /\ UNCHANGED <<service, tasks, sock, broken, cur, reader, failures, line>>

Next ==
  \/ \E s \in Sources : Publish(s)
  \/ \E s \in Sources : CountPacket(s)
  \/ ReportMetrics
  \/ \E c \in Conns : HandlerStep(c)
  \/ Break
  \/ ReaderStep
  \/ TakeChan

Spec == Init /\ [][Next]_vars

(***************************************************************************)
(* Tasks and goroutines that can run are scheduled.  Nothing is assumed of *)
(* the network, of the capture connections, or of a dial succeeding beyond *)
(* the bound on consecutive failures.                                      *)
(***************************************************************************)
Fairness ==
  /\ \A c \in Conns : WF_vars(HandlerStep(c))
  /\ WF_vars(ReaderStep)
  /\ WF_vars(TakeChan)

FairSpec == Spec /\ Fairness

-----------------------------------------------------------------------------
(* Types. *)
TypeOK ==
  /\ sent \in Nat /\ count \in Nat /\ reported \in Nat
  /\ adding \subseteq Sources
  /\ handler \in [Conns -> {"none", "accept", "recv", "write", "ended"}]
  /\ next \in [Conns -> Nat \ {0}]
  /\ start \in [Conns -> Nat \ {0}]
  /\ skipped \in [Conns -> SUBSET Nat]
  /\ sock \in [Conns -> Seq(Nat)]
  /\ broken \subseteq Conns
  /\ cur \in 0 .. MaxConns
  /\ reader \in {"dial", "scan", "push"}
  /\ failures \in Nat
  /\ line \in Nat
  /\ chan \in Seq(Nat)
  /\ got \in Seq(Nat)

(* Every packet the dashboard has, in the order it has them: processed, in *)
(* packetChan, at the reader, on the connection, and in the hand of the    *)
(* connection's task.                                                      *)
Scanned == IF reader = "push" THEN <<line>> ELSE <<>>
OnWire  == IF cur = 0 THEN <<>> ELSE sock[cur]
InHand  == IF cur # 0 /\ handler[cur] = "write" THEN <<next[cur] - 1>> ELSE <<>>
Feed    == got \o chan \o Scanned \o OnWire \o InHand

(* The receiver of connection c exists. *)
Subscribed(c) == handler[c] \in {"recv", "write", "ended"}

(* The connections that were not made are untouched; a receiver stands     *)
(* between its first packet and the newest one, and before it exists       *)
(* nothing was sent on its connection and nothing skipped.                 *)
ConnsInv ==
  /\ broken \subseteq 1 .. cur
  /\ \A c \in Conns :
       /\ c > cur <=> handler[c] = "none"
       /\ start[c] <= next[c] /\ next[c] <= sent + 1
       /\ ~Subscribed(c) => sock[c] = <<>> /\ skipped[c] = {} /\ start[c] = next[c]

(* The reader dials only when it has no connection or has given up the     *)
(* last one, with all that was on it.                                      *)
ReaderInv ==
  /\ reader # "dial" => cur # 0
  /\ reader = "dial" /\ cur # 0 => cur \in broken /\ sock[cur] = <<>>

(* Nothing the dashboard has is newer than what was published, and what    *)
(* the receiver of its connection gets next is newer than all of it.       *)
FeedBelow ==
  \A i \in 1 .. Len(Feed) :
    /\ Feed[i] <= sent
    /\ cur # 0 /\ Subscribed(cur) => Feed[i] < next[cur]

(* What every step of the service, of its tasks and of the dashboard       *)
(* preserves: types, connections that are used one after the other, and a  *)
(* feed that the next packet always extends at its end.                    *)
FeedInv ==
  /\ TypeOK
  /\ ConnsInv
  /\ ReaderInv
  /\ FeedBelow

(* The dashboard never sees a packet twice or out of order, also across a  *)
(* lag and across reconnections, while the task of a broken connection is  *)
(* still running next to that of the new one.                              *)
FeedInOrder ==
  \A i, j \in 1 .. Len(Feed) : i < j => Feed[i] < Feed[j]

(* While a connection lasts, every packet published since its subscription *)
(* is on its way, still in the channel, or was reported as skipped.        *)
GapsAreReported ==
  cur \in Conns \ broken =>
    \A p \in start[cur] .. next[cur] - 1 :
      p \in skipped[cur] \/ \E i \in 1 .. Len(Feed) : Feed[i] = p

(* A slow dashboard loses only packets the channel has already overwritten: *)
(* the newest Capacity packets stay available to it.                        *)
OnlyOldSkipped ==
  \A c \in Conns : \A p \in skipped[c] : p >= start[c] /\ p + Capacity <= sent

(* No packet is counted twice or lost between the METRICS lines, although  *)
(* the swap runs between the publication of a packet and its count.        *)
MetricsAddUp ==
  sent = reported + count + Cardinality(adding)

(* The wait before a dial stays between the two intervals however often    *)
(* the dial fails: the shift that overflows never yields a small number.   *)
BackoffInRange ==
  failures > 0 => /\ Backoff(failures) \in MinInterval .. MaxInterval
                  /\ failures > 1 => Backoff(failures - 1) <= Backoff(failures)

(* A packet published while the dashboard is subscribed reaches the        *)
(* processor or is reported as skipped, unless the connection breaks: no   *)
(* full buffer on the way waits for another for ever.                      *)
DeliversOrReports ==
  \A p \in 1 .. MaxPackets :
    (cur # 0 /\ handler[cur] \in {"recv", "write"} /\ p \in start[cur] .. sent)
      ~> (\/ cur \in broken
          \/ cur # 0 /\ p \in skipped[cur]
          \/ \E i \in 1 .. Len(got) : got[i] = p)

(* The dashboard subscribes again after every failure, although the task   *)
(* of the broken connection may wait for a packet that never comes.        *)
Resubscribes ==
  (reader = "dial" \/ cur \in broken)
    ~> (cur \in Conns \ broken /\ handler[cur] \in {"recv", "write"})
=============================================================================
