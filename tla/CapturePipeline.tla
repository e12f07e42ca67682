-------------------------- MODULE CapturePipeline --------------------------
(***************************************************************************)
(* The capture program: main connects to the packet service, starts the    *)
(* threads and runs pcap_loop, whose callback fills raw_queue; workers     *)
(* dissect and fill dissected_queue; one sender writes to the TLS stream.  *)
(* SIGINT or SIGTERM, or a pcap error, ends it: every loop tests           *)
(* keep_running and then drains its queue.                                 *)
(*                                                                         *)
(* The queues are two instances of TicketQueue, which LockFreeQueue        *)
(* implements; a push or pop that fails does so because the queue has no   *)
(* room or no ready element (LockFreeQueue!HonestFailure).  Between two    *)
(* steps of a thread any other thread may run.  A packet is its number in  *)
(* capture order, and stays that number when dissected.                    *)
(***************************************************************************)
EXTENDS Integers, Sequences, FiniteSets

CONSTANTS
  Workers,       (* the num_workers threads                                 *)
  RawCapacity,   (* capacity of raw_queue                                   *)
  DisCapacity,   (* capacity of dissected_queue                             *)
  MaxPackets,    (* bound: frames the interface delivers                    *)
  Faults         (* the peer faults that may happen: "stall", "close"       *)

ASSUME PipelineAssumption ==
  /\ RawCapacity \in Nat /\ RawCapacity >= 2
  /\ DisCapacity \in Nat /\ DisCapacity >= 2
  /\ MaxPackets \in Nat
  /\ Faults \subseteq {"stall", "close"}
  /\ IsFiniteSet(Workers) /\ Workers # {}

Main    == "main"
Sender  == "sender"
Packets == 1 .. MaxPackets
None    == 0

ASSUME ThreadsAssumption == Main \notin Workers /\ Sender \notin Workers

VARIABLES
  keep_running,  \* the global flag
  break_loop,    \* pcap_breakloop was called
  link,          \* the TLS connection and what its peer does
  main,          \* where main is
  worker,        \* where each worker is
  draining,      \* which threads are in the loop after keep_running
  sender,        \* where the sender is
  stats,         \* where monitor_pcap_stats is
  captured,      \* the number of frames packet_handler was given
  lost,          \* lost[p] : why packet p will never be sent, "no" if it may
  wire,          \* what was written to the peer, in order
  rawItems, rawHead, rawHold, rawGot,   \* raw_queue
  disItems, disHead, disHold, disGot    \* dissected_queue

rawq == <<rawItems, rawHead, rawHold, rawGot>>
disq == <<disItems, disHead, disHold, disGot>>
mainvars == <<keep_running, break_loop, link, main, stats>>
vars == <<mainvars, worker, draining, sender, captured, lost, wire, rawq, disq>>

Raw == INSTANCE TicketQueue WITH
         Capacity <- RawCapacity, Producers <- {Main}, Consumers <- Workers,
         Values <- Packets, NoValue <- None,
         items <- rawItems, head <- rawHead, hold <- rawHold, got <- rawGot

Dis == INSTANCE TicketQueue WITH
         Capacity <- DisCapacity, Producers <- Workers, Consumers <- {Sender},
         Values <- Packets, NoValue <- None,
         items <- disItems, head <- disHead, hold <- disHold, got <- disGot

Init ==
  /\ keep_running = TRUE
  /\ break_loop = FALSE
  /\ link = "none"
  /\ main = "connect"
  /\ worker = [w \in Workers |-> "off"]
  /\ draining = [t \in Workers \cup {Sender} |-> FALSE]
  /\ sender = "off"
  /\ stats = "off"
  /\ captured = 0
  /\ lost = [p \in Packets |-> "no"]
  /\ wire = <<>>
  /\ Raw!Init
  /\ Dis!Init

Alive == main \notin {"exit", "killed"}

-----------------------------------------------------------------------------
(* Faulty variants of the threads, each with one plausible slip. *)

(* The handler forgets pcap_breakloop. *)
SignalWithoutBreak ==
  /\ keep_running
  /\ keep_running' = FALSE
  /\ UNCHANGED <<break_loop, link, main, stats, worker, draining, sender,
                 captured, lost, wire, rawq, disq>>

(* The worker ends without its draining loop. *)
WorkerSkipsDrain(w) ==
  /\ worker[w] = "check"
  /\ worker' = [worker EXCEPT ![w] = IF keep_running THEN "pop" ELSE "done"]
  /\ UNCHANGED <<mainvars, draining, sender, captured, lost, wire, rawq, disq>>

(* The worker ignores that pop found nothing. *)
WorkerIgnoresEmpty(w) ==
  /\ worker[w] = "pop"
  /\ \/ /\ Raw!Take(w)
        /\ worker' = [worker EXCEPT ![w] = "release"]
     \/ /\ ~Raw!HasReady
        /\ worker' = [worker EXCEPT ![w] = "push"]
        /\ UNCHANGED rawq
  /\ UNCHANGED <<mainvars, draining, sender, captured, lost, wire, disq>>

(* The worker takes the newest frame. *)
WorkerPopsNewest(w) ==
  /\ worker[w] = "pop"
  /\ \/ /\ Raw!HasReady
        /\ rawHold[Main] = 0
        /\ rawGot' = [rawGot EXCEPT ![w] = rawItems[Len(rawItems)]]
        /\ rawItems' = SubSeq(rawItems, 1, Len(rawItems) - 1)
        /\ rawHold' = [rawHold EXCEPT ![w] = rawHead + 1]
        /\ worker' = [worker EXCEPT ![w] = "release"]
        /\ UNCHANGED rawHead
     \/ /\ ~Raw!HasReady
        /\ worker' = [worker EXCEPT ![w] = IF draining[w] THEN "done" ELSE "check"]
        /\ UNCHANGED rawq
  /\ UNCHANGED <<mainvars, draining, sender, captured, lost, wire, disq>>

(* The worker drops its packet when dissected_queue is full. *)
WorkerDrops(w) ==
  /\ worker[w] = "push"
  /\ \/ /\ Dis!Claim(w, rawGot[w])
        /\ worker' = [worker EXCEPT ![w] = "publish"]
        /\ UNCHANGED lost
     \/ /\ ~Dis!HasRoom
        /\ worker' = [worker EXCEPT ![w] = IF draining[w] THEN "pop" ELSE "check"]
        /\ lost' = [lost EXCEPT ![rawGot[w]] = "stopped"]
        /\ UNCHANGED disq
  /\ UNCHANGED <<mainvars, draining, sender, captured, wire, rawq>>

(* The sender may send a record again that was written. *)
SendsAgain ==
  /\ sender = "send"
  /\ \/ /\ link = "up"
        /\ Len(wire) < 2 * MaxPackets
        /\ wire' = Append(wire, disGot[Sender])
        /\ UNCHANGED lost
     \/ /\ link = "closed"
        /\ lost' = [lost EXCEPT ![disGot[Sender]] = "closed"]
        /\ UNCHANGED wire
  /\ sender' \in {"send", "check"}
  /\ UNCHANGED <<mainvars, worker, draining, captured, rawq, disq>>

-----------------------------------------------------------------------------
(* Outside the program *)

(* signal_handler: runs in any thread at any time.  The pcap handle is set *)
(* before main tries to connect.                                           *)
Signal ==
  /\ keep_running
  /\ keep_running' = FALSE
  /\ break_loop' = TRUE
  /\ UNCHANGED <<link, main, stats, worker, draining, sender, captured, lost, wire, rawq, disq>>

PeerStalls ==
  /\ "stall" \in Faults
  /\ link = "up"
  /\ link' = "stalled"
  /\ UNCHANGED <<keep_running, break_loop, main, stats, worker, draining, sender,
                 captured, lost, wire, rawq, disq>>

PeerResumes ==
  /\ link = "stalled"
  /\ link' = "up"
  /\ UNCHANGED <<keep_running, break_loop, main, stats, worker, draining, sender,
                 captured, lost, wire, rawq, disq>>

PeerCloses ==
  /\ "close" \in Faults
  /\ link \in {"up", "stalled"}
  /\ link' = "closed"
  /\ UNCHANGED <<keep_running, break_loop, main, stats, worker, draining, sender,
                 captured, lost, wire, rawq, disq>>

-----------------------------------------------------------------------------
(* main *)

(* The connection loop: one attempt per turn, for as long as keep_running. *)
ConnectCheck ==
  /\ main = "connect"
  /\ main' = IF keep_running THEN "connecting" ELSE "start"
  /\ UNCHANGED <<keep_running, break_loop, link, stats, worker, draining, sender,
                 captured, lost, wire, rawq, disq>>

ConnectFails ==
  /\ main = "connecting"
  /\ main' = "connect"
  /\ UNCHANGED <<keep_running, break_loop, link, stats, worker, draining, sender,
                 captured, lost, wire, rawq, disq>>

(* inet_pton rejects the address of the service: main returns at once. *)
AddressInvalid ==
  /\ main = "connecting"
  /\ main' = "exit"
  /\ UNCHANGED <<keep_running, break_loop, link, stats, worker, draining, sender,
                 captured, lost, wire, rawq, disq>>

ConnectSucceeds ==
  /\ main = "connecting"
  /\ link' = "up"
  /\ main' = "start"
  /\ UNCHANGED <<keep_running, break_loop, stats, worker, draining, sender,
                 captured, lost, wire, rawq, disq>>

(* The threads are started only if there is a connection and no signal has *)
(* arrived in the meantime.                                                *)
StartThreads ==
  /\ main = "start"
  /\ IF keep_running /\ link # "none"
     THEN /\ main' = "capture"
          /\ worker' = [w \in Workers |-> "check"]
          /\ sender' = "check"
          /\ stats' = "run"
     ELSE /\ main' = "stop"
          /\ UNCHANGED <<worker, sender, stats>>
  /\ UNCHANGED <<keep_running, break_loop, link, draining, captured, lost, wire, rawq, disq>>

(* packet_handler: the result of push is ignored, so a frame that finds    *)
(* raw_queue full is gone.                                                 *)
HandlePacket ==
  /\ main = "capture"
  /\ captured < MaxPackets
  /\ captured' = captured + 1
  /\ \/ /\ Raw!Claim(Main, captured + 1)
        /\ main' = "publish"
        /\ UNCHANGED lost
     \/ /\ ~Raw!HasRoom
        /\ lost' = [lost EXCEPT ![captured + 1] = "raw full"]
        /\ UNCHANGED <<main, rawq>>
  /\ UNCHANGED <<keep_running, break_loop, link, stats, worker, draining, sender, wire, disq>>

PublishRaw ==
  /\ main = "publish"
  /\ Raw!Publish(Main)
  /\ main' = "capture"
  /\ UNCHANGED <<keep_running, break_loop, link, stats, worker, draining, sender,
                 captured, lost, wire, disq>>

(* pcap_loop returns between two packets, after pcap_breakloop. *)
LoopBreaks ==
  /\ main = "capture"
  /\ break_loop
  /\ main' = "stop"
  /\ UNCHANGED <<keep_running, break_loop, link, stats, worker, draining, sender,
                 captured, lost, wire, rawq, disq>>

(* pcap_loop returns with an error, the interface going down for one. *)
LoopFails ==
  /\ main = "capture"
  /\ main' = "stop"
  /\ UNCHANGED <<keep_running, break_loop, link, stats, worker, draining, sender,
                 captured, lost, wire, rawq, disq>>

StopRunning ==
  /\ main = "stop"
  /\ keep_running' = FALSE
  /\ main' = "join workers"
  /\ UNCHANGED <<break_loop, link, stats, worker, draining, sender, captured, lost, wire, rawq, disq>>

(* The three joins, in the order of the code.  A thread that was never     *)
(* started is not joinable.                                                *)
Join ==
  /\ \/ /\ main = "join workers"
        /\ \A w \in Workers : worker[w] \in {"off", "done"}
        /\ main' = "join sender"
     \/ /\ main = "join sender"
        /\ sender \in {"off", "done"}
        /\ main' = "join stats"
     \/ /\ main = "join stats"
        /\ stats \in {"off", "done"}
        /\ main' = "exit"
  /\ UNCHANGED <<keep_running, break_loop, link, stats, worker, draining, sender,
                 captured, lost, wire, rawq, disq>>

MainStep ==
  \/ ConnectCheck
  \/ ConnectFails
  \/ AddressInvalid
  \/ ConnectSucceeds
  \/ StartThreads
  \/ PublishRaw
  \/ LoopBreaks
  \/ StopRunning
  \/ Join

-----------------------------------------------------------------------------
(* worker_thread_main *)

(* Where a thread goes after one element: the test of keep_running, or the *)
(* next pop of the draining loop.                                          *)
LoopHead(t) == IF draining[t] THEN "pop" ELSE "check"

WorkerGoto(w, label) == worker' = [worker EXCEPT ![w] = label]

WorkerCheck(w) ==
  /\ worker[w] = "check"
  /\ draining' = [draining EXCEPT ![w] = ~keep_running]
  /\ WorkerGoto(w, "pop")
  /\ UNCHANGED <<mainvars, sender, captured, lost, wire, rawq, disq>>

WorkerPop(w) ==
  /\ worker[w] = "pop"
  /\ \/ /\ Raw!Take(w)
        /\ WorkerGoto(w, "release")
     \/ /\ ~Raw!HasReady
        /\ WorkerGoto(w, IF draining[w] THEN "done" ELSE "check")
        /\ UNCHANGED rawq
  /\ UNCHANGED <<mainvars, draining, sender, captured, lost, wire, disq>>

(* The pop completes and the frame is dissected. *)
WorkerDissect(w) ==
  /\ worker[w] = "release"
  /\ Raw!Release(w)
  /\ WorkerGoto(w, "push")
  /\ UNCHANGED <<mainvars, draining, sender, captured, lost, wire, disq>>

(* A failed push is repeated: without condition in the draining loop,      *)
(* after a test of keep_running otherwise.                                 *)
WorkerPush(w) ==
  /\ worker[w] = "push"
  /\ \/ /\ Dis!Claim(w, rawGot[w])
        /\ WorkerGoto(w, "publish")
     \/ /\ ~Dis!HasRoom
        /\ WorkerGoto(w, IF draining[w] THEN "push" ELSE "retry")
        /\ UNCHANGED disq
  /\ UNCHANGED <<mainvars, draining, sender, captured, lost, wire, rawq>>

WorkerRetry(w) ==
  /\ worker[w] = "retry"
  /\ IF keep_running
     THEN /\ WorkerGoto(w, "push")
          /\ UNCHANGED lost
     ELSE /\ WorkerGoto(w, "check")
          /\ lost' = [lost EXCEPT ![rawGot[w]] = "stopped"]
  /\ UNCHANGED <<mainvars, draining, sender, captured, wire, rawq, disq>>

WorkerPublish(w) ==
  /\ worker[w] = "publish"
  /\ Dis!Publish(w)
  /\ WorkerGoto(w, LoopHead(w))
  /\ UNCHANGED <<mainvars, draining, sender, captured, lost, wire, rawq>>

WorkerStep(w) ==
  \/ WorkerCheck(w)
  \/ WorkerPop(w)
  \/ WorkerDissect(w)
  \/ WorkerPush(w)
  \/ WorkerRetry(w)
  \/ WorkerPublish(w)

-----------------------------------------------------------------------------
(* sender_thread_main *)

SenderCheck ==
  /\ sender = "check"
  /\ draining' = [draining EXCEPT ![Sender] = ~keep_running]
  /\ sender' = "pop"
  /\ UNCHANGED <<mainvars, worker, captured, lost, wire, rawq, disq>>

SenderPop ==
  /\ sender = "pop"
  /\ \/ /\ Dis!Take(Sender)
        /\ sender' = "release"
     \/ /\ ~Dis!HasReady
        /\ sender' = IF draining[Sender] THEN "done" ELSE "check"
        /\ UNCHANGED disq
  /\ UNCHANGED <<mainvars, worker, draining, captured, lost, wire, rawq>>

SenderRelease ==
  /\ sender = "release"
  /\ Dis!Release(Sender)
  /\ sender' = "send"
  /\ UNCHANGED <<mainvars, worker, draining, captured, lost, wire, rawq>>

(* send_packet_info: while the peer does not read, SSL_write times out and *)
(* is retried; after the peer has closed it fails and the record is        *)
(* dropped.                                                                *)
SendPacketInfo ==
  /\ sender = "send"
  /\ \/ /\ link = "up"
        /\ wire' = Append(wire, disGot[Sender])
        /\ UNCHANGED lost
     \/ /\ link = "closed"
        /\ lost' = [lost EXCEPT ![disGot[Sender]] = "closed"]
        /\ UNCHANGED wire
  /\ sender' = LoopHead(Sender)
  /\ UNCHANGED <<mainvars, worker, draining, captured, rawq, disq>>

SenderStep == SenderCheck \/ SenderPop \/ SenderRelease \/ SendPacketInfo

(* SIGPIPE has its default action: a write to a connection the peer has    *)
(* reset may end the process.                                              *)
BrokenPipe ==
  /\ sender = "send"
  /\ link = "closed"
  /\ main' = "killed"
  /\ UNCHANGED <<keep_running, break_loop, link, stats, worker, draining, sender,
                 captured, lost, wire, rawq, disq>>

-----------------------------------------------------------------------------
(* monitor_pcap_stats: reads counters and sleeps until keep_running falls. *)
StatsStop ==
  /\ stats = "run"
  /\ ~keep_running
  /\ stats' = "done"
  /\ UNCHANGED <<keep_running, break_loop, link, main, worker, draining, sender,
                 captured, lost, wire, rawq, disq>>

Ended == ~Alive /\ UNCHANGED vars

Next ==
  \/ Alive /\ \/ Signal
              \/ PeerStalls
              \/ PeerResumes
              \/ PeerCloses
              \/ MainStep
              \/ HandlePacket
              \/ LoopFails
              \/ \E w \in Workers : WorkerStep(w)
              \/ SenderStep
              \/ BrokenPipe
              \/ StatsStop
  \/ Ended

Spec == Init /\ [][Next]_vars

(***************************************************************************)
(* Every thread that can run is scheduled; a connection attempt ends; and  *)
(* pcap_loop returns after pcap_breakloop because its reads time out.      *)
(* Nothing is assumed of signals, frames, the interface or the peer.       *)
(***************************************************************************)
Fairness ==
  /\ WF_vars(Alive /\ MainStep)
  /\ WF_vars(Alive /\ LoopBreaks)
  /\ \A w \in Workers : WF_vars(Alive /\ WorkerStep(w))
  /\ WF_vars(Alive /\ SenderStep)
  /\ WF_vars(Alive /\ StatsStop)

FairSpec == Spec /\ Fairness

-----------------------------------------------------------------------------
Places == {"off", "check", "pop", "release", "push", "publish", "retry", "send", "done"}

(* Types, and what each queue may hold. *)
TypeOK ==
  /\ keep_running \in BOOLEAN
  /\ break_loop \in BOOLEAN
  /\ link \in {"none", "up", "stalled", "closed"}
  /\ main \in {"connect", "connecting", "start", "capture", "publish", "stop", "join workers",
               "join sender", "join stats", "exit", "killed"}
  /\ worker \in [Workers -> Places]
  /\ draining \in [Workers \cup {Sender} -> BOOLEAN]
  /\ sender \in Places
  /\ stats \in {"off", "run", "done"}
  /\ captured \in 0 .. MaxPackets
  /\ lost \in [Packets -> {"no", "raw full", "stopped", "closed"}]
  /\ wire \in Seq(Packets)
  /\ rawItems \in Seq(Packets) /\ rawHead \in 0 .. Len(rawItems)
  /\ disItems \in Seq(Packets) /\ disHead \in 0 .. Len(disItems)
  /\ rawHold \in [{Main} \cup Workers -> Nat] /\ rawGot \in [Workers -> 0 .. MaxPackets]
  /\ disHold \in [{Sender} \cup Workers -> Nat] /\ disGot \in [{Sender} -> 0 .. MaxPackets]

(* The packets in each place on the way to the wire. *)
Held      == {w \in Workers : worker[w] \in {"release", "push", "retry"}}
InRaw     == {rawItems[k] : k \in rawHead + 1 .. Len(rawItems)}
AtWorkers == {rawGot[w] : w \in Held}
InDis     == {disItems[k] : k \in disHead + 1 .. Len(disItems)}
AtSender  == {disGot[Sender] : t \in {u \in {Sender} : sender \in {"release", "send"}}}
Sent      == {wire[k] : k \in 1 .. Len(wire)}
Lost      == {p \in Packets : lost[p] # "no"}

(* Nothing runs before main starts the threads; keep_running falls with a  *)
(* signal or after pcap_loop; and a worker that has ended found raw_queue  *)
(* drained, for good unless a signal stopped it.                           *)
ShutdownInv ==
  /\ main \in {"connect", "connecting", "start"} =>
       sender = "off" /\ \A w \in Workers : worker[w] = "off"
  /\ main \in {"capture", "publish"} => \A w \in Workers : worker[w] # "off"
  /\ main \in {"join sender", "join stats", "exit"} =>
       \A w \in Workers : worker[w] \in {"off", "done"}
  /\ ~keep_running => \/ break_loop
                      \/ main \in {"join workers", "join sender", "join stats", "exit", "killed"}
  /\ rawHold[Main] # 0 => main \in {"publish", "killed"}
  /\ \A w \in Workers :
       /\ draining[w] => ~keep_running
       /\ worker[w] = "off" => rawItems = <<>>
       /\ worker[w] = "done" => draining[w] /\ (~break_loop => rawHead = Len(rawItems))

(* The frames in raw_queue, in the order of capture, are later than all    *)
(* that were taken from it.                                                *)
RawInv ==
  /\ \A i \in 1 .. Len(rawItems) :
       /\ rawItems[i] <= captured
       /\ \A j \in 1 .. Len(rawItems) : i < j => rawItems[i] < rawItems[j]
  /\ \A m \in rawHead + 1 .. Len(rawItems) :
       /\ lost[rawItems[m]] = "no"
       /\ \A w \in Held : rawGot[w] < rawItems[m]
       /\ \A k \in 1 .. Len(disItems) : disItems[k] < rawItems[m]

(* A packet is at one worker only, not lost, and not yet in                *)
(* dissected_queue.                                                        *)
HeldInv ==
  \A w \in Held :
    /\ rawGot[w] \in 1 .. captured /\ lost[rawGot[w]] = "no"
    /\ \A v \in Held : rawGot[v] = rawGot[w] => v = w
    /\ \A k \in 1 .. Len(disItems) : disItems[k] # rawGot[w]

(* The sender has sent or dropped this many elements of dissected_queue.   *)
Gone == IF sender \in {"release", "send"} THEN disHead - 1 ELSE disHead

(* A packet enters dissected_queue once, and is not lost while it is there *)
(* or at the sender.                                                       *)
DisInv ==
  /\ sender \in {"release", "send"} => disHead > 0 /\ disGot[Sender] = disItems[disHead]
  /\ \A k \in 1 .. Len(disItems) :
       /\ disItems[k] <= captured
       /\ \A m \in 1 .. Len(disItems) : disItems[k] = disItems[m] => k = m
       /\ k > Gone => lost[disItems[k]] = "no"

(* The wire has what left dissected_queue, in that order. *)
WireInv ==
  /\ \A i \in 1 .. Len(wire) : \E a \in 1 .. Gone : wire[i] = disItems[a]
  /\ \A i, j \in 1 .. Len(wire) : i < j =>
       \E a, b \in 1 .. Gone : a < b /\ wire[i] = disItems[a] /\ wire[j] = disItems[b]

(* A frame that has not been captured is not lost. *)
UnseenInv == \A p \in Packets : p > captured => lost[p] = "no"

(* The packets that may still follow element k although they are earlier. *)
Late(k) ==
  {p \in Packets : /\ p < disItems[k]
                   /\ \/ \E m \in k + 1 .. Len(disItems) : p = disItems[m]
                      \/ p \in AtWorkers}

(* Only the workers besides the one that pushed element k can hold them. *)
LateInv ==
  \A k \in 1 .. Len(disItems) : Cardinality(Late(k)) < Cardinality(Workers)

(* What every step of the pipeline preserves: each packet has one way to   *)
(* go, the queues keep its place in line, and only the other workers can   *)
(* hold an earlier one back.                                               *)
FlowInv ==
  /\ TypeOK
  /\ ShutdownInv
  /\ RawInv
  /\ HeldInv
  /\ DisInv
  /\ WireInv
  /\ UnseenInv
  /\ LateInv

(* Every frame given to packet_handler is in exactly one place: waiting,   *)
(* at one worker, at the sender, on the wire once, or known to be lost.    *)
(* No retry, failed push or shutdown path loses or repeats a packet        *)
(* without taking one of the three documented exits.                       *)
Accounted ==
  /\ InRaw \cup AtWorkers \cup InDis \cup AtSender \cup Sent \cup Lost = 1 .. captured
  /\ (Len(rawItems) - rawHead) + Cardinality(Held) + (Len(disItems) - disHead)
       + Cardinality(AtSender) + Len(wire) + Cardinality(Lost) = captured

(* How far dissection by several workers reorders the stream: a packet     *)
(* overtakes at most one earlier packet per other worker.                  *)
OvertakesFew ==
  \A i \in 1 .. Len(wire) :
    Cardinality({j \in i + 1 .. Len(wire) : wire[j] < wire[i]}) < Cardinality(Workers)

(* When pcap_loop ends by itself and not by a signal, nothing is pushed to *)
(* raw_queue any more once keep_running falls, and the draining loops of   *)
(* the workers leave it empty however the workers were interrupted.        *)
DrainsRaw ==
  main = "exit" /\ ~break_loop => InRaw = {}

(* The one way shutdown can hang: the sender has ended, dissected_queue is *)
(* full, and a draining worker repeats a push that can never succeed.      *)
Stranded ==
  /\ sender = "done"
  /\ ~Dis!HasRoom
  /\ \E w \in Workers : draining[w] /\ worker[w] = "push"

(* After keep_running falls the process ends, or it is stranded, or the    *)
(* peer no longer reads.                                                   *)
StopsOrStrands ==
  ~keep_running ~> (~Alive \/ Stranded \/ link = "stalled")

(* With the peer reading and no shutdown, whatever raw_queue accepted of a *)
(* finite burst reaches the wire: no worker drops a packet for want of     *)
(* room, and no worker and the sender wait for each other.                 *)
BurstDrains ==
  []<>(\/ \A p \in 1 .. captured : p \in Sent \/ lost[p] = "raw full"
       \/ ~keep_running \/ link # "up" \/ ~Alive)

(* Every shutdown gets as far as the message that announces it. *)
StopEnds == ~keep_running ~> ~Alive
=============================================================================
