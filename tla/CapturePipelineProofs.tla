----------------------- MODULE CapturePipelineProofs -----------------------
(***************************************************************************)
(* The capture program accounts for every frame, reorders no more than its *)
(* workers can, and drains raw_queue when pcap_loop ends by itself: for    *)
(* every number of workers, all capacities and every interleaving of the   *)
(* threads, signals and faults of the peer.                                *)
(***************************************************************************)
EXTENDS CapturePipeline, SequenceTheorems, FiniteSetTheorems, TLAPS

(* The sender has a packet in its hand. *)
Busy == sender \in {"release", "send"}

-----------------------------------------------------------------------------
(* What a step does to the packets.  A step is one of the eight that move  *)
(* one packet, or moves none.                                              *)

store == <<rawItems, rawHead, rawGot, disItems, disHead, disGot>>

Quiet ==
  /\ UNCHANGED <<captured, lost, wire, store>>
  /\ Held' = Held /\ Busy' = Busy

Accepts ==
  /\ captured < MaxPackets
  /\ captured' = captured + 1
  /\ rawItems' = Append(rawItems, captured + 1)
  /\ UNCHANGED <<lost, wire, rawHead, rawGot, disItems, disHead, disGot>>
  /\ Held' = Held /\ Busy' = Busy

Overflows ==
  /\ captured < MaxPackets
  /\ captured' = captured + 1
  /\ lost' = [lost EXCEPT ![captured + 1] = "raw full"]
  /\ UNCHANGED <<wire, store>>
  /\ Held' = Held /\ Busy' = Busy

Fetches(w) ==
  /\ w \notin Held /\ rawHead < Len(rawItems)
  /\ rawHead' = rawHead + 1
  /\ rawGot' = [rawGot EXCEPT ![w] = rawItems[rawHead + 1]]
  /\ UNCHANGED <<captured, lost, wire, rawItems, disItems, disHead, disGot>>
  /\ Held' = Held \cup {w} /\ Busy' = Busy

Forwards(w) ==
  /\ w \in Held
  /\ disItems' = Append(disItems, rawGot[w])
  /\ UNCHANGED <<captured, lost, wire, rawItems, rawHead, rawGot, disHead, disGot>>
  /\ Held' = Held \ {w} /\ Busy' = Busy

Abandons(w) ==
  /\ w \in Held
  /\ lost' = [lost EXCEPT ![rawGot[w]] = "stopped"]
  /\ UNCHANGED <<captured, wire, store>>
  /\ Held' = Held \ {w} /\ Busy' = Busy

Collects ==
  /\ ~Busy /\ Busy' /\ disHead < Len(disItems)
  /\ disHead' = disHead + 1
  /\ disGot' = [disGot EXCEPT ![Sender] = disItems[disHead + 1]]
  /\ UNCHANGED <<captured, lost, wire, rawItems, rawHead, rawGot, disItems>>
  /\ Held' = Held

Sends ==
  /\ Busy /\ ~Busy'
  /\ wire' = Append(wire, disGot[Sender])
  /\ UNCHANGED <<captured, lost, store>>
  /\ Held' = Held

Discards ==
  /\ Busy /\ ~Busy'
  /\ lost' = [lost EXCEPT ![disGot[Sender]] = "closed"]
  /\ UNCHANGED <<captured, wire, store>>
  /\ Held' = Held

(* A worker that goes from one place to another of the same kind leaves    *)
(* the set of those that hold a packet alone.                              *)
LEMMA HeldMoves ==
  ASSUME TypeOK, NEW w \in Workers, NEW place \in Places, worker' = [worker EXCEPT ![w] = place]
  PROVE  Held' = IF place \in {"release", "push", "retry"} THEN Held \cup {w} ELSE Held \ {w}
BY DEF TypeOK, Held

(* The steps of a worker. *)
LEMMA WorkerKinds ==
  ASSUME TypeOK, NEW w \in Workers, WorkerStep(w)
  PROVE  Quiet \/ Fetches(w) \/ Forwards(w) \/ Abandons(w)
<1> USE DEF WorkerGoto, mainvars, rawq, disq, store, Places
<1>1. sender' = sender
  BY DEF WorkerStep, WorkerCheck, WorkerPop, WorkerDissect, WorkerPush, WorkerRetry, WorkerPublish
<1>2. Busy' = Busy
  BY <1>1 DEF Busy
<1>3. w \in Held <=> worker[w] \in {"release", "push", "retry"}
  BY DEF Held
<1>4. CASE WorkerCheck(w)
  <2>1. Held' = Held \ {w}
    BY <1>4, HeldMoves DEF WorkerCheck
  <2> QED BY <1>2, <1>3, <1>4, <2>1 DEF WorkerCheck, Quiet
<1>5. CASE WorkerPop(w)
  <2>1. CASE Raw!Take(w) /\ worker' = [worker EXCEPT ![w] = "release"]
    <3>1. Held' = Held \cup {w}
      BY <2>1, HeldMoves
    <3> QED BY <1>2, <1>3, <1>5, <2>1, <3>1 DEF WorkerPop, Raw!Take, Raw!HasReady, Fetches
  <2>2. CASE worker' = [worker EXCEPT ![w] = IF draining[w] THEN "done" ELSE "check"] /\ UNCHANGED rawq
    <3>1. Held' = Held \ {w}
      BY <2>2, HeldMoves
    <3> QED BY <1>2, <1>3, <1>5, <2>2, <3>1 DEF WorkerPop, Quiet
  <2> QED BY <1>5, <2>1, <2>2 DEF WorkerPop
<1>6. CASE WorkerDissect(w)
  <2>1. Held' = Held \cup {w}
    BY <1>6, HeldMoves DEF WorkerDissect
  <2> QED BY <1>2, <1>3, <1>6, <2>1 DEF WorkerDissect, Raw!Release, Quiet
<1>7. CASE WorkerPush(w)
  <2>1. CASE Dis!Claim(w, rawGot[w]) /\ worker' = [worker EXCEPT ![w] = "publish"]
    <3>1. Held' = Held \ {w}
      BY <2>1, HeldMoves
    <3> QED BY <1>2, <1>3, <1>7, <2>1, <3>1 DEF WorkerPush, Dis!Claim, Forwards
  <2>2. CASE worker' = [worker EXCEPT ![w] = IF draining[w] THEN "push" ELSE "retry"] /\ UNCHANGED disq
    <3>1. Held' = Held \cup {w}
      BY <2>2, HeldMoves
    <3> QED BY <1>2, <1>3, <1>7, <2>2, <3>1 DEF WorkerPush, Quiet
  <2> QED BY <1>7, <2>1, <2>2 DEF WorkerPush
<1>8. CASE WorkerRetry(w)
  <2>1. CASE keep_running
    <3>1. Held' = Held \cup {w}
      BY <1>8, <2>1, HeldMoves DEF WorkerRetry
    <3> QED BY <1>2, <1>3, <1>8, <2>1, <3>1 DEF WorkerRetry, Quiet
  <2>2. CASE ~keep_running
    <3>1. Held' = Held \ {w}
      BY <1>8, <2>2, HeldMoves DEF WorkerRetry
    <3> QED BY <1>2, <1>3, <1>8, <2>2, <3>1 DEF WorkerRetry, Abandons
  <2> QED BY <2>1, <2>2
<1>9. CASE WorkerPublish(w)
  <2>1. Held' = Held \ {w}
    BY <1>9, HeldMoves DEF WorkerPublish, LoopHead
  <2> QED BY <1>2, <1>3, <1>9, <2>1 DEF WorkerPublish, Dis!Publish, Quiet
<1> QED BY <1>4, <1>5, <1>6, <1>7, <1>8, <1>9 DEF WorkerStep

(* The steps of the sender. *)
LEMMA SenderKinds ==
  ASSUME TypeOK, SenderStep
  PROVE  Quiet \/ Collects \/ Sends \/ Discards
<1> USE DEF mainvars, rawq, disq, store, Busy
<1>1. Held' = Held
  BY DEF SenderStep, SenderCheck, SenderPop, SenderRelease, SendPacketInfo, Held
<1>2. CASE SenderCheck
  BY <1>1, <1>2 DEF SenderCheck, Quiet
<1>3. CASE SenderPop
  BY <1>1, <1>3 DEF SenderPop, Dis!Take, Dis!HasReady, Quiet, Collects
<1>4. CASE SenderRelease
  BY <1>1, <1>4 DEF SenderRelease, Dis!Release, Quiet
<1>5. CASE SendPacketInfo
  BY <1>1, <1>5 DEF SendPacketInfo, LoopHead, Sends, Discards
<1> QED BY <1>2, <1>3, <1>4, <1>5 DEF SenderStep

(* The steps of main, of the statistics thread and of the world. *)
LEMMA OtherKinds ==
  ASSUME TypeOK, ShutdownInv,
         \/ Signal \/ PeerStalls \/ PeerResumes \/ PeerCloses
         \/ MainStep \/ HandlePacket \/ LoopFails \/ BrokenPipe \/ StatsStop \/ Ended
         \/ UNCHANGED vars
  PROVE  Quiet \/ Accepts \/ Overflows
<1> USE DEF mainvars, rawq, disq, store, Busy
<1>1. CASE StartThreads
  <2>1. Held = {} /\ Held' = {} /\ sender \notin {"release", "send"}
    <3>1. sender = "off" /\ \A w \in Workers : worker[w] = "off"
      BY <1>1 DEF StartThreads, ShutdownInv
    <3>2. \A w \in Workers : worker'[w] \in {"check", "off"}
      BY <1>1, <3>1 DEF StartThreads
    <3> QED BY <3>1, <3>2 DEF Held
  <2> QED BY <1>1, <2>1 DEF StartThreads, Quiet
<1>2. CASE HandlePacket
  BY <1>2 DEF HandlePacket, Raw!Claim, Held, Accepts, Overflows
<1>3. CASE PublishRaw
  BY <1>3 DEF PublishRaw, Raw!Publish, Held, Quiet
<1>4. CASE Signal \/ PeerStalls \/ PeerResumes \/ PeerCloses \/ ConnectCheck \/ ConnectFails
             \/ AddressInvalid \/ ConnectSucceeds \/ LoopBreaks \/ StopRunning \/ Join
             \/ LoopFails \/ BrokenPipe \/ StatsStop \/ Ended \/ UNCHANGED vars
  <2>1. UNCHANGED <<worker, sender, captured, lost, wire, rawq, disq>>
    BY <1>4 DEF Signal, PeerStalls, PeerResumes, PeerCloses, ConnectCheck, ConnectFails,
         AddressInvalid, ConnectSucceeds, LoopBreaks, StopRunning, Join, LoopFails, BrokenPipe,
         StatsStop, Ended, vars
  <2> QED BY <2>1 DEF Held, Quiet
<1> QED BY <1>1, <1>2, <1>3, <1>4 DEF MainStep

(* There is no other way to move a packet. *)
LEMMA StepKinds ==
  ASSUME TypeOK, ShutdownInv, [Next]_vars
  PROVE  \/ Quiet \/ Accepts \/ Overflows
         \/ \E w \in Workers : Fetches(w) \/ Forwards(w) \/ Abandons(w)
         \/ Collects \/ Sends \/ Discards
BY WorkerKinds, SenderKinds, OtherKinds DEF Next

-----------------------------------------------------------------------------
(* Types *)

(* The conjuncts of TypeOK about the threads, the tickets and the packets. *)
ControlOK ==
  /\ keep_running \in BOOLEAN /\ break_loop \in BOOLEAN
  /\ link \in {"none", "up", "stalled", "closed"}
  /\ main \in {"connect", "connecting", "start", "capture", "publish", "stop",
               "join workers", "join sender", "join stats", "exit", "killed"}
  /\ worker \in [Workers -> Places]
  /\ draining \in [Workers \cup {Sender} -> BOOLEAN]
  /\ sender \in Places
  /\ stats \in {"off", "run", "done"}

HoldOK ==
  /\ rawHold \in [{Main} \cup Workers -> Nat]
  /\ disHold \in [{Sender} \cup Workers -> Nat]

PacketsOK ==
  /\ captured \in 0 .. MaxPackets
  /\ lost \in [Packets -> {"no", "raw full", "stopped", "closed"}]
  /\ wire \in Seq(Packets)
  /\ rawItems \in Seq(Packets) /\ rawHead \in 0 .. Len(rawItems)
  /\ disItems \in Seq(Packets) /\ disHead \in 0 .. Len(disItems)
  /\ rawGot \in [Workers -> 0 .. MaxPackets]
  /\ disGot \in [{Sender} -> 0 .. MaxPackets]

(* Together they are TypeOK. *)
LEMMA TypeParts == TypeOK <=> ControlOK /\ HoldOK /\ PacketsOK
BY DEF TypeOK, ControlOK, HoldOK, PacketsOK

(* The threads stay in their places, main in its own. *)
LEMMA ControlTypes ==
  ASSUME ControlOK, [Next]_vars
  PROVE  ControlOK'
<1> USE DEF ControlOK, Places, mainvars
<1>1. ASSUME NEW w \in Workers, WorkerStep(w) PROVE ControlOK'
  <2>1. UNCHANGED <<mainvars, sender>>
    BY <1>1 DEF WorkerStep, WorkerCheck, WorkerPop, WorkerDissect, WorkerPush, WorkerRetry, WorkerPublish
  <2>2. \/ worker' = worker
        \/ \E place \in Places : worker' = [worker EXCEPT ![w] = place]
    BY <1>1 DEF WorkerStep, WorkerCheck, WorkerPop, WorkerDissect, WorkerPush, WorkerRetry,
         WorkerPublish, WorkerGoto, LoopHead
  <2>3. draining' = draining \/ draining' = [draining EXCEPT ![w] = ~keep_running]
    BY <1>1 DEF WorkerStep, WorkerCheck, WorkerPop, WorkerDissect, WorkerPush, WorkerRetry, WorkerPublish
  <2>4. worker' \in [Workers -> Places]
    BY <2>2
  <2>5. draining' \in [Workers \cup {Sender} -> BOOLEAN]
    BY <2>3
  <2> QED BY <2>1, <2>4, <2>5
<1>2. ASSUME SenderStep PROVE ControlOK'
  BY <1>2 DEF SenderStep, SenderCheck, SenderPop, SenderRelease, SendPacketInfo, LoopHead
<1>3. CASE Signal \/ PeerStalls \/ PeerResumes \/ PeerCloses
  BY <1>3 DEF Signal, PeerStalls, PeerResumes, PeerCloses
<1>4. CASE ConnectCheck \/ ConnectFails \/ AddressInvalid \/ ConnectSucceeds
  BY <1>4 DEF ConnectCheck, ConnectFails, AddressInvalid, ConnectSucceeds
<1>5. CASE StartThreads
  BY <1>5 DEF StartThreads
<1>6. CASE HandlePacket \/ PublishRaw
  BY <1>6 DEF HandlePacket, PublishRaw
<1>7. CASE LoopBreaks \/ LoopFails \/ StopRunning \/ Join
  BY <1>7 DEF LoopBreaks, LoopFails, StopRunning, Join
<1>8. CASE BrokenPipe \/ StatsStop \/ Ended \/ UNCHANGED vars
  BY <1>8 DEF BrokenPipe, StatsStop, Ended, vars
<1> HIDE DEF ControlOK
<1> QED BY <1>1, <1>2, <1>3, <1>4, <1>5, <1>6, <1>7, <1>8 DEF Next, MainStep

(* The numbers and packets of a state, one by one. *)
LEMMA Facts ==
  ASSUME TypeOK
  PROVE  /\ MaxPackets \in Nat /\ captured \in Nat /\ captured <= MaxPackets
         /\ Len(wire) \in Nat /\ \A i \in 1 .. Len(wire) : wire[i] \in Packets
         /\ Len(rawItems) \in Nat /\ rawHead \in Nat /\ rawHead <= Len(rawItems)
         /\ \A i \in 1 .. Len(rawItems) : rawItems[i] \in Packets
         /\ Len(disItems) \in Nat /\ disHead \in Nat /\ disHead <= Len(disItems)
         /\ \A i \in 1 .. Len(disItems) : disItems[i] \in Packets
         /\ \A w \in Workers : rawGot[w] \in Nat
         /\ disGot[Sender] \in Nat
         /\ \A p \in Packets : p \in Nat /\ p >= 1 /\ p <= MaxPackets
<1>1. MaxPackets \in Nat
  BY PipelineAssumption
<1>2. captured \in Nat /\ captured <= MaxPackets
  <2>1. captured \in 0 .. MaxPackets
    BY DEF TypeOK
  <2> QED BY <1>1, <2>1
<1>3. wire \in Seq(Packets) /\ rawItems \in Seq(Packets) /\ disItems \in Seq(Packets)
  BY DEF TypeOK
<1>4. Len(wire) \in Nat /\ Len(rawItems) \in Nat /\ Len(disItems) \in Nat
  BY <1>3
<1>5. /\ \A i \in 1 .. Len(wire) : wire[i] \in Packets
      /\ \A i \in 1 .. Len(rawItems) : rawItems[i] \in Packets
      /\ \A i \in 1 .. Len(disItems) : disItems[i] \in Packets
  BY <1>3
<1>6. rawHead \in 0 .. Len(rawItems) /\ disHead \in 0 .. Len(disItems)
  BY DEF TypeOK
<1>7. /\ rawHead \in Nat /\ rawHead <= Len(rawItems)
      /\ disHead \in Nat /\ disHead <= Len(disItems)
  BY <1>4, <1>6
<1>8. /\ \A w \in Workers : rawGot[w] \in 0 .. MaxPackets
      /\ disGot[Sender] \in 0 .. MaxPackets
  BY DEF TypeOK
<1>9. /\ \A w \in Workers : rawGot[w] \in Nat
      /\ disGot[Sender] \in Nat
  BY <1>1, <1>8
<1>10. \A p \in Packets : p \in Nat /\ p >= 1 /\ p <= MaxPackets
  BY <1>1 DEF Packets
<1> QED BY <1>1, <1>2, <1>4, <1>5, <1>7, <1>9, <1>10

(* The tickets the threads work on. *)
LEMMA HoldTypes ==
  ASSUME TypeOK, [Next]_vars
  PROVE  HoldOK'
<1>1. /\ rawHead + 1 \in Nat /\ Len(rawItems) + 1 \in Nat
      /\ disHead + 1 \in Nat /\ Len(disItems) + 1 \in Nat
  BY Facts
<1>2. HoldOK
  BY TypeParts
<1> USE DEF HoldOK, rawq, disq
<1>3. ASSUME NEW w \in Workers, WorkerStep(w) PROVE HoldOK'
  BY <1>1, <1>2, <1>3 DEF WorkerStep, WorkerCheck, WorkerPop, WorkerDissect, WorkerPush, WorkerRetry,
       WorkerPublish, Raw!Take, Raw!Release, Dis!Claim, Dis!Publish
<1>4. CASE SenderStep
  BY <1>1, <1>2, <1>4 DEF SenderStep, SenderCheck, SenderPop, SenderRelease, SendPacketInfo,
       Dis!Take, Dis!Release
<1>5. CASE HandlePacket
  <2>1. disHold' = disHold
    BY <1>5 DEF HandlePacket
  <2>2. \/ rawHold' = [rawHold EXCEPT ![Main] = Len(rawItems) + 1]
        \/ rawHold' = rawHold
    BY <1>5 DEF HandlePacket, Raw!Claim
  <2> QED BY <1>1, <1>2, <2>1, <2>2
<1>6. CASE PublishRaw
  BY <1>2, <1>6 DEF PublishRaw, Raw!Publish
<1>7. CASE \/ Signal \/ PeerStalls \/ PeerResumes \/ PeerCloses \/ ConnectCheck \/ ConnectFails
           \/ AddressInvalid \/ ConnectSucceeds \/ StartThreads \/ LoopBreaks \/ StopRunning \/ Join
           \/ LoopFails \/ BrokenPipe \/ StatsStop \/ Ended \/ UNCHANGED vars
  <2>1. UNCHANGED <<rawHold, disHold>>
    BY <1>7 DEF Signal, PeerStalls, PeerResumes, PeerCloses, ConnectCheck, ConnectFails,
         AddressInvalid, ConnectSucceeds, StartThreads, LoopBreaks, StopRunning, Join,
         LoopFails, BrokenPipe, StatsStop, Ended, vars
  <2> QED BY <1>2, <2>1
<1> HIDE DEF HoldOK
<1> QED BY <1>3, <1>4, <1>5, <1>6, <1>7 DEF Next, MainStep

(* The packets. *)
LEMMA PacketTypes ==
  ASSUME TypeOK, ShutdownInv, HeldInv, DisInv, [Next]_vars
  PROVE  PacketsOK'
<1> USE DEF PacketsOK, store
<1> DEFINE Why == {"no", "raw full", "stopped", "closed"}
<1>1. PacketsOK
  BY TypeParts
<1>2. CASE Quiet
  BY <1>1, <1>2 DEF Quiet
<1>3. ASSUME captured < MaxPackets, captured' = captured + 1
      PROVE  captured + 1 \in Packets /\ captured' \in 0 .. MaxPackets
  BY <1>3, Facts DEF Packets
<1>4. CASE Accepts
  <2>1. captured + 1 \in Packets /\ captured' \in 0 .. MaxPackets
    BY <1>3, <1>4 DEF Accepts
  <2>2. rawItems' \in Seq(Packets) /\ Len(rawItems') = Len(rawItems) + 1
    BY <1>1, <1>4, <2>1, AppendProperties DEF Accepts
  <2>3. rawHead \in 0 .. Len(rawItems')
    BY <2>2, Facts
  <2> QED BY <1>1, <1>4, <2>1, <2>2, <2>3 DEF Accepts
<1>5. CASE Overflows
  <2>1. captured + 1 \in Packets /\ captured' \in 0 .. MaxPackets
    BY <1>3, <1>5 DEF Overflows
  <2>2. lost' \in [Packets -> Why]
    BY <1>1, <1>5 DEF Overflows
  <2> QED BY <1>1, <1>5, <2>1, <2>2 DEF Overflows
<1>6. ASSUME NEW w \in Workers, Fetches(w)
      PROVE  PacketsOK'
  <2>1. rawHead + 1 \in 1 .. Len(rawItems) /\ rawHead + 1 \in 0 .. Len(rawItems)
    BY <1>6, Facts DEF Fetches
  <2>2. rawItems[rawHead + 1] \in 0 .. MaxPackets
    BY <2>1, Facts
  <2>3. rawGot' \in [Workers -> 0 .. MaxPackets]
    BY <1>1, <1>6, <2>2 DEF Fetches
  <2> QED BY <1>1, <1>6, <2>1, <2>3 DEF Fetches
<1>7. ASSUME NEW w \in Workers, Forwards(w)
      PROVE  PacketsOK'
  <2>1. rawGot[w] \in Packets
    BY <1>7, Facts DEF Forwards, HeldInv, Packets
  <2>2. disItems' \in Seq(Packets) /\ Len(disItems') = Len(disItems) + 1
    BY <1>1, <1>7, <2>1, AppendProperties DEF Forwards
  <2>3. disHead \in 0 .. Len(disItems')
    BY <2>2, Facts
  <2> QED BY <1>1, <1>7, <2>2, <2>3 DEF Forwards
<1>8. ASSUME NEW w \in Workers, Abandons(w)
      PROVE  PacketsOK'
  BY <1>1, <1>8 DEF Abandons
<1>9. CASE Collects
  <2>1. disHead + 1 \in 1 .. Len(disItems) /\ disHead + 1 \in 0 .. Len(disItems)
    BY <1>9, Facts DEF Collects
  <2>2. disItems[disHead + 1] \in 0 .. MaxPackets
    BY <2>1, Facts
  <2>3. disGot' \in [{Sender} -> 0 .. MaxPackets]
    BY <1>1, <1>9, <2>2 DEF Collects
  <2> QED BY <1>1, <1>9, <2>1, <2>3 DEF Collects
<1>10. CASE Sends
  <2>1. disHead \in 1 .. Len(disItems) /\ disGot[Sender] = disItems[disHead]
    BY <1>10, Facts DEF Sends, Busy, DisInv
  <2>2. disGot[Sender] \in Packets
    BY <2>1, Facts
  <2> QED BY <1>1, <1>10, <2>2, AppendProperties DEF Sends
<1>11. CASE Discards
  <2>1. lost' \in [Packets -> Why]
    BY <1>1, <1>11 DEF Discards
  <2> QED BY <1>1, <1>11, <2>1 DEF Discards
<1> HIDE DEF PacketsOK
<1> QED BY <1>2, <1>4, <1>5, <1>6, <1>7, <1>8, <1>9, <1>10, <1>11, StepKinds

(* Every step preserves the types. *)
LEMMA TypeStep ==
  ASSUME TypeOK, ShutdownInv, HeldInv, DisInv, [Next]_vars
  PROVE  TypeOK'
<1>1. ControlOK'
  BY TypeParts, ControlTypes
<1>2. HoldOK' /\ PacketsOK'
  BY HoldTypes, PacketTypes
<1> QED BY <1>1, <1>2, TypeParts, PTL

-----------------------------------------------------------------------------
(* Shutdown *)

(* An ended worker leaves nothing behind: when its last pop found no       *)
(* element, main was no longer between the two halves of a push.           *)
LEMMA ShutdownWorker ==
  ASSUME TypeOK, ShutdownInv, Alive, NEW w \in Workers, WorkerStep(w)
  PROVE  ShutdownInv'
<1>1. /\ worker \in [Workers -> Places] /\ draining \in [Workers \cup {Sender} -> BOOLEAN]
      /\ rawHold \in [{Main} \cup Workers -> Nat]
      /\ Len(rawItems) \in Nat /\ rawHead \in Nat /\ rawHead <= Len(rawItems)
  BY Facts DEF TypeOK
<1>2. w # Main /\ w # Sender
  BY ThreadsAssumption
<1>3. UNCHANGED <<keep_running, break_loop, main, sender>>
  BY DEF WorkerStep, WorkerCheck, WorkerPop, WorkerDissect, WorkerPush, WorkerRetry, WorkerPublish,
         mainvars
<1>4. rawItems' = rawItems /\ rawHold'[Main] = rawHold[Main]
  BY <1>1, <1>2 DEF WorkerStep, WorkerCheck, WorkerPop, WorkerDissect, WorkerPush, WorkerRetry,
         WorkerPublish, Raw!Take, Raw!Release, rawq
<1>5. rawHead' = rawHead \/ rawHead < Len(rawItems)
  BY DEF WorkerStep, WorkerCheck, WorkerPop, WorkerDissect, WorkerPush, WorkerRetry,
         WorkerPublish, Raw!Take, Raw!HasReady, Raw!Release, rawq
<1>6. worker[w] \notin {"off", "done"} /\ worker'[w] # "off"
  BY <1>1 DEF WorkerStep, WorkerCheck, WorkerPop, WorkerDissect, WorkerPush, WorkerRetry,
         WorkerPublish, WorkerGoto, LoopHead
<1>7. \A v \in Workers : v # w => worker'[v] = worker[v] /\ draining'[v] = draining[v]
  BY <1>1, <1>2 DEF WorkerStep, WorkerCheck, WorkerPop, WorkerDissect, WorkerPush, WorkerRetry,
         WorkerPublish, WorkerGoto
<1>8. draining'[w] => ~keep_running
  BY <1>1 DEF ShutdownInv, WorkerStep, WorkerCheck, WorkerPop, WorkerDissect, WorkerPush, WorkerRetry,
         WorkerPublish, WorkerGoto
<1>9. ASSUME worker'[w] = "done"
      PROVE  draining'[w] /\ (~break_loop => rawHead' = Len(rawItems))
  <2>1. WorkerPop(w) /\ ~Raw!HasReady /\ draining[w] /\ draining' = draining /\ rawHead' = rawHead
    BY <1>1, <1>9 DEF WorkerStep, WorkerCheck, WorkerPop, WorkerDissect, WorkerPush, WorkerRetry,
         WorkerPublish, WorkerGoto, LoopHead, rawq
  <2>2. ASSUME ~break_loop PROVE rawHead = Len(rawItems)
    <3>1. ~keep_running
      BY <2>1 DEF ShutdownInv
    <3>2. main \in {"join workers", "join sender", "join stats", "exit", "killed"}
      BY <2>2, <3>1 DEF ShutdownInv
    <3>3. main # "killed"
      BY DEF Alive
    <3>4. rawHold[Main] = 0
      BY <3>2, <3>3 DEF ShutdownInv
    <3>5. ~(rawHead < Len(rawItems))
      BY <1>1, <2>1, <3>4 DEF Raw!HasReady
    <3> QED BY <1>1, <3>5
  <2> QED BY <2>1, <2>2
<1>10. ASSUME NEW v \in Workers, worker'[v] = "done"
       PROVE  draining'[v] /\ (~break_loop => rawHead' = Len(rawItems))
  <2>1. CASE v = w
    BY <1>9, <1>10, <2>1
  <2>2. CASE v # w
    <3>1. worker[v] = "done" /\ draining'[v] = draining[v]
      BY <1>7, <1>10, <2>2
    <3>2. draining[v] /\ (~break_loop => rawHead = Len(rawItems))
      BY <3>1 DEF ShutdownInv
    <3> QED BY <1>1, <1>5, <3>1, <3>2
  <2> QED BY <2>1, <2>2
<1> QED BY <1>3, <1>4, <1>6, <1>7, <1>8, <1>10 DEF ShutdownInv

(* Every step keeps the shutdown in order. *)
LEMMA ShutdownStep ==
  ASSUME TypeOK, ShutdownInv, [Next]_vars
  PROVE  ShutdownInv'
<1>1. /\ worker \in [Workers -> Places] /\ draining \in [Workers \cup {Sender} -> BOOLEAN]
      /\ rawHold \in [{Main} \cup Workers -> Nat]
  BY DEF TypeOK
<1> USE DEF ShutdownInv, rawq, mainvars
<1>2. ASSUME Alive, NEW w \in Workers, WorkerStep(w) PROVE ShutdownInv'
  BY <1>2, ShutdownWorker
<1>3. CASE SenderStep
  <2>1. UNCHANGED <<mainvars, worker, rawq>>
    BY <1>3 DEF SenderStep, SenderCheck, SenderPop, SenderRelease, SendPacketInfo
  <2>2. \A w \in Workers : draining'[w] = draining[w]
    BY <1>1, <1>3, ThreadsAssumption DEF SenderStep, SenderCheck, SenderPop, SenderRelease, SendPacketInfo
  <2>3. sender # "off"
    BY <1>3 DEF SenderStep, SenderCheck, SenderPop, SenderRelease, SendPacketInfo
  <2> QED BY <2>1, <2>2, <2>3
<1>4. CASE Signal
  BY <1>4 DEF Signal
<1>5. CASE PeerStalls \/ PeerResumes \/ PeerCloses \/ StatsStop \/ Ended \/ UNCHANGED vars
  <2>1. UNCHANGED <<keep_running, break_loop, main, sender, worker, draining, rawItems, rawHead, rawHold>>
    BY <1>5 DEF PeerStalls, PeerResumes, PeerCloses, StatsStop, Ended, vars
  <2> QED BY <2>1
<1>6. CASE ConnectCheck \/ ConnectFails \/ AddressInvalid \/ ConnectSucceeds
  <2>1. /\ main \in {"connect", "connecting"} /\ main' \in {"connect", "connecting", "start", "exit"}
        /\ UNCHANGED <<keep_running, break_loop, sender, worker, draining, rawItems, rawHead, rawHold>>
    BY <1>6 DEF ConnectCheck, ConnectFails, AddressInvalid, ConnectSucceeds
  <2> QED BY <2>1
<1>7. CASE StartThreads
  <2>1. CASE keep_running /\ link # "none"
    <3>1. /\ main' = "capture" /\ \A w \in Workers : worker'[w] = "check"
          /\ UNCHANGED <<keep_running, break_loop, draining, rawq>>
      BY <1>7, <2>1 DEF StartThreads
    <3>2. rawHold[Main] = 0
      BY <1>7 DEF StartThreads
    <3> QED BY <2>1, <3>1, <3>2
  <2>2. CASE ~(keep_running /\ link # "none")
    <3>1. /\ main = "start" /\ main' = "stop"
          /\ UNCHANGED <<worker, sender, keep_running, break_loop, draining, rawq>>
      BY <1>7, <2>2 DEF StartThreads
    <3> QED BY <3>1
  <2> QED BY <2>1, <2>2
<1>8. CASE HandlePacket
  <2>1. /\ main = "capture" /\ main' \in {"capture", "publish"}
        /\ UNCHANGED <<keep_running, break_loop, worker, draining, sender, rawHead>>
    BY <1>8 DEF HandlePacket, Raw!Claim
  <2>2. main' = "publish" \/ UNCHANGED rawq
    BY <1>8 DEF HandlePacket
  <2>3. \A w \in Workers : worker[w] # "off"
    BY <2>1
  <2>4. \A w \in Workers : worker[w] = "done" => break_loop
    BY <2>1
  <2> QED BY <2>1, <2>2, <2>3, <2>4
<1>9. CASE PublishRaw
  <2>1. /\ main = "publish" /\ main' = "capture" /\ rawHold'[Main] = 0
        /\ UNCHANGED <<keep_running, break_loop, worker, draining, sender, rawItems, rawHead>>
    BY <1>1, <1>9 DEF PublishRaw, Raw!Publish
  <2> QED BY <2>1
<1>10. CASE LoopBreaks \/ LoopFails
  <2>1. /\ main = "capture" /\ main' = "stop"
        /\ UNCHANGED <<keep_running, break_loop, sender, worker, draining, rawItems, rawHead, rawHold>>
    BY <1>10 DEF LoopBreaks, LoopFails
  <2> QED BY <2>1
<1>11. CASE StopRunning
  <2>1. /\ main = "stop" /\ main' = "join workers" /\ ~keep_running'
        /\ UNCHANGED <<break_loop, sender, worker, draining, rawItems, rawHead, rawHold>>
    BY <1>11 DEF StopRunning
  <2> QED BY <2>1
<1>12. CASE Join
  BY <1>12 DEF Join
<1>13. CASE BrokenPipe
  BY <1>13 DEF BrokenPipe
<1> HIDE DEF ShutdownInv
<1> QED BY <1>2, <1>3, <1>4, <1>5, <1>6, <1>7, <1>8, <1>9, <1>10, <1>11, <1>12, <1>13
        DEF Next, MainStep

-----------------------------------------------------------------------------
(* The way of a packet *)

(* The parts of FlowInv that say where packets are. *)
PacketInv == RawInv /\ HeldInv /\ DisInv /\ WireInv /\ UnseenInv

LEMMA QuietKeeps ==
  ASSUME TypeOK, PacketInv, Quiet
  PROVE  PacketInv'
<1>1. Gone' = Gone /\ (sender \in {"release", "send"})' = (sender \in {"release", "send"})
  BY DEF Quiet, Busy, Gone, store
<1>2. UNCHANGED <<captured, lost, wire, rawItems, rawHead, rawGot, disItems, disHead, disGot>>
  BY DEF Quiet, store
<1>3. Held' = Held
  BY DEF Quiet
<1>4. RawInv' /\ HeldInv' /\ UnseenInv'
  BY <1>2, <1>3 DEF PacketInv, RawInv, HeldInv, UnseenInv
<1>5. DisInv' /\ WireInv'
  BY <1>1, <1>2 DEF PacketInv, DisInv, WireInv
<1> QED BY <1>4, <1>5 DEF PacketInv

(* The element after the last, and the others, of a sequence that grew. *)
LEMMA Appended ==
  ASSUME NEW q \in Seq(Packets), NEW p \in Packets
  PROVE  /\ Len(Append(q, p)) = Len(q) + 1
         /\ Append(q, p)[Len(q) + 1] = p
         /\ \A i \in 1 .. Len(q) : Append(q, p)[i] = q[i]
BY AppendProperties

(* The next frame has a number. *)
LEMMA NextFrame ==
  ASSUME TypeOK, captured < MaxPackets
  PROVE  captured + 1 \in Packets /\ captured \in Nat
BY Facts DEF Packets

(* The wire is a matter of itself and of what left dissected_queue. *)
LEMMA WireSame ==
  ASSUME WireInv, wire' = wire, disItems' = disItems, Gone' = Gone
  PROVE  WireInv'
BY DEF WireInv

(* packet_handler pushes a frame: it is later than every other. *)
LEMMA AcceptsKeeps ==
  ASSUME TypeOK, PacketInv, Accepts
  PROVE  PacketInv'
<1> DEFINE n == Len(rawItems)
<1>1. captured + 1 \in Packets /\ captured \in Nat /\ rawItems \in Seq(Packets)
  BY NextFrame DEF Accepts, TypeOK
<1>2. /\ Len(rawItems') = n + 1 /\ rawItems'[n + 1] = captured + 1
      /\ \A i \in 1 .. n : rawItems'[i] = rawItems[i]
  BY <1>1, Appended DEF Accepts
<1>3. /\ captured' = captured + 1
      /\ UNCHANGED <<lost, wire, rawHead, rawGot, disItems, disHead, disGot>>
      /\ Held' = Held /\ (sender' \in {"release", "send"} <=> sender \in {"release", "send"})
  BY DEF Accepts, Busy
<1>4. n \in Nat /\ \A i \in 1 .. n + 1 : i \in 1 .. n \/ i = n + 1
  BY Facts
<1>5. lost[captured + 1] = "no"
  BY <1>1, Facts DEF PacketInv, UnseenInv
<1>6. \A w \in Held : w \in Workers /\ rawGot[w] \in Nat /\ rawGot[w] < captured + 1
  BY Facts DEF PacketInv, HeldInv, Held
<1>7. \A k \in 1 .. Len(disItems) : disItems[k] \in Nat /\ disItems[k] < captured + 1
  BY Facts DEF PacketInv, DisInv
<1>8. \A i \in 1 .. n : rawItems[i] \in Nat /\ rawItems[i] < captured + 1
  BY Facts DEF PacketInv, RawInv
<1>9. RawInv'
  <2>1. \A i \in 1 .. n + 1 :
          /\ rawItems'[i] <= captured + 1
          /\ \A j \in 1 .. n + 1 : i < j => rawItems'[i] < rawItems'[j]
    <3> SUFFICES ASSUME NEW i \in 1 .. n + 1
                 PROVE  /\ rawItems'[i] <= captured + 1
                        /\ \A j \in 1 .. n + 1 : i < j => rawItems'[i] < rawItems'[j]
      OBVIOUS
    <3>1. CASE i = n + 1
      BY <1>1, <1>2, <1>4, <3>1
    <3>2. CASE i \in 1 .. n
      <4>1. rawItems'[i] = rawItems[i] /\ rawItems[i] \in Nat /\ rawItems[i] < captured + 1
        BY <1>2, <1>8, <3>2
      <4>2. \A j \in 1 .. n : i < j => rawItems[i] < rawItems[j]
        BY <3>2 DEF PacketInv, RawInv
      <4> QED BY <1>1, <1>2, <1>4, <4>1, <4>2
    <3> QED BY <1>4, <3>1, <3>2
  <2>2. \A m \in rawHead + 1 .. n + 1 :
          /\ lost[rawItems'[m]] = "no"
          /\ \A w \in Held : rawGot[w] < rawItems'[m]
          /\ \A k \in 1 .. Len(disItems) : disItems[k] < rawItems'[m]
    <3> SUFFICES ASSUME NEW m \in rawHead + 1 .. n + 1
                 PROVE  /\ lost[rawItems'[m]] = "no"
                        /\ \A w \in Held : rawGot[w] < rawItems'[m]
                        /\ \A k \in 1 .. Len(disItems) : disItems[k] < rawItems'[m]
      OBVIOUS
    <3>1. CASE m = n + 1
      BY <1>2, <1>5, <1>6, <1>7, <3>1
    <3>2. CASE m # n + 1
      <4>1. m \in rawHead + 1 .. n /\ m \in 1 .. n
        BY <1>4, <3>2, Facts
      <4> QED BY <1>2, <4>1 DEF PacketInv, RawInv
    <3> QED BY <3>1, <3>2
  <2> QED BY <1>2, <1>3, <2>1, <2>2 DEF RawInv
<1>10. HeldInv' /\ UnseenInv'
  <2>1. \A w \in Held : rawGot[w] \in 1 .. captured + 1
    BY Facts DEF PacketInv, HeldInv
  <2>2. \A p \in Packets : p > captured + 1 => p > captured
    BY Facts
  <2> QED BY <1>3, <2>1, <2>2 DEF PacketInv, HeldInv, UnseenInv
<1>11. DisInv'
  <2>1. Gone' = Gone
    BY <1>3 DEF Gone
  <2>2. \A k \in 1 .. Len(disItems) : disItems[k] <= captured + 1
    BY <1>7, Facts
  <2> QED BY <1>3, <2>1, <2>2 DEF PacketInv, DisInv
<1>12. WireInv'
  <2>1. Gone' = Gone
    BY <1>3 DEF Gone
  <2> QED BY <1>3, <2>1, WireSame DEF PacketInv
<1> QED BY <1>9, <1>10, <1>11, <1>12 DEF PacketInv

(* packet_handler finds raw_queue full: the frame is in no queue yet. *)
LEMMA OverflowsKeeps ==
  ASSUME TypeOK, PacketInv, Overflows
  PROVE  PacketInv'
<1>1. captured + 1 \in Packets /\ captured \in Nat
  BY NextFrame DEF Overflows
<1>2. /\ captured' = captured + 1
      /\ UNCHANGED <<wire, rawItems, rawHead, rawGot, disItems, disHead, disGot>>
      /\ Held' = Held /\ (sender' \in {"release", "send"} <=> sender \in {"release", "send"})
  BY DEF Overflows, Busy, store
<1>3. \A p \in Packets : p # captured + 1 => lost'[p] = lost[p]
  BY DEF Overflows, TypeOK
<1>4. Gone' = Gone
  BY <1>2 DEF Gone
<1>5. \A w \in Held : /\ rawGot[w] \in Packets /\ rawGot[w] # captured + 1
                      /\ rawGot[w] \in 1 .. captured + 1
  BY Facts DEF PacketInv, HeldInv, Held, Packets
<1>6. \A k \in 1 .. Len(disItems) : /\ disItems[k] \in Packets /\ disItems[k] # captured + 1
                                    /\ disItems[k] <= captured + 1
  BY Facts DEF PacketInv, DisInv
<1>7. \A i \in 1 .. Len(rawItems) : /\ rawItems[i] \in Packets /\ rawItems[i] # captured + 1
                                    /\ rawItems[i] <= captured + 1
  BY Facts DEF PacketInv, RawInv
<1>8. RawInv'
  <2>1. \A m \in rawHead + 1 .. Len(rawItems) : m \in 1 .. Len(rawItems)
    BY Facts
  <2> QED BY <1>2, <1>3, <1>7, <2>1 DEF PacketInv, RawInv
<1>9. HeldInv'
  BY <1>2, <1>3, <1>5 DEF PacketInv, HeldInv
<1>10. DisInv'
  BY <1>2, <1>3, <1>4, <1>6 DEF PacketInv, DisInv
<1>11. WireInv'
  BY <1>2, <1>4, WireSame DEF PacketInv
<1>12. UnseenInv'
  <2>1. \A p \in Packets : p > captured + 1 => p > captured /\ p # captured + 1
    BY Facts
  <2> QED BY <1>2, <1>3, <2>1 DEF PacketInv, UnseenInv
<1> QED BY <1>8, <1>9, <1>10, <1>11, <1>12 DEF PacketInv

(* A worker takes the oldest frame of raw_queue. *)
LEMMA FetchesKeeps ==
  ASSUME TypeOK, PacketInv, NEW w \in Workers, Fetches(w)
  PROVE  PacketInv'
<1> DEFINE h == rawHead + 1
           n == Len(rawItems)
<1>1. /\ h \in 1 .. n /\ h \in rawHead + 1 .. n /\ n \in Nat /\ h \in Nat
      /\ \A m \in h + 1 .. n : m \in rawHead + 1 .. n /\ m \in 1 .. n /\ h < m
  BY Facts DEF Fetches
<1>2. rawItems[h] \in Packets /\ rawItems[h] \in Nat
  BY <1>1, Facts
<1>3. /\ rawHead' = h /\ rawGot'[w] = rawItems[h] /\ w \notin Held
      /\ \A v \in Workers : v # w => rawGot'[v] = rawGot[v]
      /\ UNCHANGED <<captured, lost, wire, rawItems, disItems, disHead, disGot>>
      /\ Held' = Held \cup {w}
      /\ (sender' \in {"release", "send"} <=> sender \in {"release", "send"})
  BY DEF Fetches, Busy, TypeOK
<1>4. /\ lost[rawItems[h]] = "no" /\ rawItems[h] <= captured
      /\ \A v \in Held : rawGot[v] < rawItems[h]
      /\ \A k \in 1 .. Len(disItems) : disItems[k] < rawItems[h]
      /\ \A m \in h + 1 .. n : rawItems[h] < rawItems[m]
  BY <1>1 DEF PacketInv, RawInv
<1>5. \A v \in Held : v \in Workers /\ v # w /\ rawGot[v] \in Nat /\ rawGot'[v] = rawGot[v]
  BY <1>3, Facts DEF Held
<1>6. \A k \in 1 .. Len(disItems) : disItems[k] \in Nat
  BY Facts
<1>7. RawInv'
  <2>1. \A m \in h + 1 .. n :
          /\ lost[rawItems[m]] = "no"
          /\ \A v \in Held \cup {w} : rawGot'[v] < rawItems[m]
          /\ \A k \in 1 .. Len(disItems) : disItems[k] < rawItems[m]
    BY <1>1, <1>3, <1>4, <1>5 DEF PacketInv, RawInv
  <2> QED BY <1>3, <2>1 DEF PacketInv, RawInv
<1>8. HeldInv'
  <2>1. rawItems[h] \in 1 .. captured
    BY <1>2, <1>4, Facts
  <2>2. \A v \in Held : rawGot'[v] # rawGot'[w]
    BY <1>2, <1>3, <1>4, <1>5
  <2>3. \A k \in 1 .. Len(disItems) : disItems[k] # rawItems[h]
    BY <1>2, <1>4, <1>6
  <2> QED BY <1>3, <1>4, <1>5, <2>1, <2>2, <2>3 DEF PacketInv, HeldInv
<1>9. Gone' = Gone
  BY <1>3 DEF Gone
<1>10. DisInv'
  BY <1>3, <1>9 DEF PacketInv, DisInv
<1>11. WireInv'
  BY <1>3, <1>9, WireSame DEF PacketInv
<1>12. UnseenInv'
  BY <1>3 DEF PacketInv, UnseenInv
<1> QED BY <1>7, <1>8, <1>10, <1>11, <1>12 DEF PacketInv

(* The sender has not come further than dissected_queue. *)
LEMMA GoneFacts ==
  ASSUME TypeOK, DisInv
  PROVE  /\ Gone \in Nat /\ Gone <= disHead /\ Gone <= Len(disItems)
         /\ Busy => Gone + 1 = disHead
         /\ ~Busy => Gone = disHead
BY Facts DEF DisInv, Gone, Busy

(* A worker pushes its packet to dissected_queue. *)
LEMMA ForwardsKeeps ==
  ASSUME TypeOK, PacketInv, NEW w \in Workers, Forwards(w)
  PROVE  PacketInv'
<1> DEFINE n == Len(disItems)
<1>1. /\ w \in Held /\ rawGot[w] \in Packets /\ rawGot[w] \in Nat /\ rawGot[w] <= captured
      /\ lost[rawGot[w]] = "no"
  <2>1. w \in Held /\ rawGot[w] \in 1 .. captured /\ lost[rawGot[w]] = "no"
    BY DEF Forwards, PacketInv, HeldInv
  <2> QED BY <2>1, Facts DEF Packets
<1>2. /\ n \in Nat /\ Len(disItems') = n + 1 /\ disItems'[n + 1] = rawGot[w]
      /\ \A k \in 1 .. n : disItems'[k] = disItems[k]
  <2>1. disItems \in Seq(Packets)
    BY DEF TypeOK
  <2> QED BY <1>1, <2>1, Appended, Facts DEF Forwards
<1>3. /\ UNCHANGED <<captured, lost, wire, rawItems, rawHead, rawGot, disHead, disGot>>
      /\ Held' = Held \ {w}
      /\ (sender' \in {"release", "send"} <=> sender \in {"release", "send"})
  BY DEF Forwards, Busy
<1>4. \A k \in 1 .. n + 1 : k \in 1 .. n \/ k = n + 1
  BY <1>2
<1>5. RawInv'
  BY <1>1, <1>2, <1>3, <1>4 DEF PacketInv, RawInv
<1>6. HeldInv'
  <2>1. \A v \in Held \ {w} : rawGot[v] # rawGot[w]
    BY <1>1 DEF PacketInv, HeldInv
  <2> QED BY <1>1, <1>2, <1>3, <1>4, <2>1 DEF PacketInv, HeldInv
<1>7. Gone' = Gone /\ Gone \in Nat /\ Gone <= n
  BY <1>3, GoneFacts DEF Gone, PacketInv
<1>8. DisInv'
  <2>1. \A k \in 1 .. n : disItems[k] # rawGot[w]
    BY <1>1 DEF PacketInv, HeldInv
  <2>2. \A k \in 1 .. n + 1 :
          /\ disItems'[k] <= captured
          /\ k > Gone => lost[disItems'[k]] = "no"
    BY <1>1, <1>2, <1>4 DEF PacketInv, DisInv
  <2>3. \A k, m \in 1 .. n + 1 : disItems'[k] = disItems'[m] => k = m
    BY <1>1, <1>2, <1>4, <2>1 DEF PacketInv, DisInv
  <2>4. sender' \in {"release", "send"} => disHead' > 0 /\ disGot'[Sender] = disItems'[disHead']
    <3> SUFFICES ASSUME sender \in {"release", "send"}
                 PROVE  disHead > 0 /\ disGot[Sender] = disItems'[disHead]
      BY <1>3
    <3>1. disHead > 0 /\ disGot[Sender] = disItems[disHead]
      BY DEF PacketInv, DisInv
    <3>2. disHead \in 1 .. n
      BY <3>1, Facts
    <3> QED BY <1>2, <3>1, <3>2
  <2> QED BY <1>2, <1>3, <1>7, <2>2, <2>3, <2>4 DEF DisInv
<1>9. WireInv'
  <2>1. \A a \in 1 .. Gone : disItems'[a] = disItems[a]
    BY <1>2, <1>7
  <2> QED BY <1>3, <1>7, <2>1 DEF PacketInv, WireInv
<1>10. UnseenInv'
  BY <1>3 DEF PacketInv, UnseenInv
<1> QED BY <1>5, <1>6, <1>8, <1>9, <1>10 DEF PacketInv

(* A worker gives its packet up. *)
LEMMA AbandonsKeeps ==
  ASSUME TypeOK, PacketInv, NEW w \in Workers, Abandons(w)
  PROVE  PacketInv'
<1>1. /\ w \in Held /\ rawGot[w] \in Packets /\ rawGot[w] \in Nat /\ rawGot[w] <= captured
  <2>1. w \in Held /\ rawGot[w] \in 1 .. captured
    BY DEF Abandons, PacketInv, HeldInv
  <2> QED BY <2>1, Facts DEF Packets
<1>2. /\ UNCHANGED <<captured, wire, rawItems, rawHead, rawGot, disItems, disHead, disGot>>
      /\ Held' = Held \ {w}
      /\ (sender' \in {"release", "send"} <=> sender \in {"release", "send"})
      /\ \A p \in Packets : p # rawGot[w] => lost'[p] = lost[p]
  BY DEF Abandons, Busy, store, TypeOK
<1>3. \A v \in Held \ {w} : rawGot[v] \in Packets /\ rawGot[v] # rawGot[w]
  <2>1. \A v \in Held \ {w} : rawGot[v] \in 1 .. captured /\ rawGot[v] # rawGot[w]
    BY <1>1 DEF PacketInv, HeldInv
  <2> QED BY <2>1, Facts DEF Packets
<1>4. \A k \in 1 .. Len(disItems) : disItems[k] \in Packets /\ disItems[k] # rawGot[w]
  BY <1>1, Facts DEF PacketInv, HeldInv
<1>5. \A m \in rawHead + 1 .. Len(rawItems) : rawItems[m] \in Packets /\ rawItems[m] # rawGot[w]
  <2>1. \A m \in rawHead + 1 .. Len(rawItems) : m \in 1 .. Len(rawItems)
    BY Facts
  <2>2. \A m \in rawHead + 1 .. Len(rawItems) : rawItems[m] \in Nat /\ rawItems[m] \in Packets
    BY <2>1, Facts
  <2> QED BY <1>1, <2>2 DEF PacketInv, RawInv
<1>6. RawInv'
  BY <1>2, <1>5 DEF PacketInv, RawInv
<1>7. HeldInv'
  BY <1>2, <1>3 DEF PacketInv, HeldInv
<1>8. Gone' = Gone
  BY <1>2 DEF Gone
<1>9. DisInv'
  BY <1>2, <1>4, <1>8 DEF PacketInv, DisInv
<1>10. WireInv'
  BY <1>2, <1>8, WireSame DEF PacketInv
<1>11. UnseenInv'
  <2>1. \A p \in Packets : p > captured => p # rawGot[w]
    BY <1>1, Facts
  <2> QED BY <1>2, <2>1 DEF PacketInv, UnseenInv
<1> QED BY <1>6, <1>7, <1>9, <1>10, <1>11 DEF PacketInv

(* The sender takes the oldest element of dissected_queue. *)
LEMMA CollectsKeeps ==
  ASSUME TypeOK, PacketInv, Collects
  PROVE  PacketInv'
<1>1. /\ disHead' = disHead + 1 /\ disGot'[Sender] = disItems[disHead + 1]
      /\ UNCHANGED <<captured, lost, wire, rawItems, rawHead, rawGot, disItems>>
      /\ Held' = Held
      /\ sender' \in {"release", "send"} /\ sender \notin {"release", "send"}
  BY DEF Collects, Busy, TypeOK
<1>2. Gone' = Gone /\ disHead' > 0
  <2>1. disHead \in Nat
    BY Facts
  <2>2. disHead' > 0 /\ disHead' - 1 = disHead
    BY <1>1, <2>1
  <2>3. Gone' = disHead' - 1 /\ Gone = disHead
    BY <1>1 DEF Gone
  <2> QED BY <2>2, <2>3
<1>3. RawInv' /\ HeldInv' /\ UnseenInv'
  BY <1>1 DEF PacketInv, RawInv, HeldInv, UnseenInv
<1>4. DisInv'
  BY <1>1, <1>2 DEF PacketInv, DisInv
<1>5. WireInv'
  BY <1>1, <1>2, WireSame DEF PacketInv
<1> QED BY <1>3, <1>4, <1>5 DEF PacketInv

(* The sender writes its packet after all those before it. *)
LEMMA SendsKeeps ==
  ASSUME TypeOK, PacketInv, Sends
  PROVE  PacketInv'
<1> DEFINE n == Len(wire)
<1>1. /\ UNCHANGED <<captured, lost, rawItems, rawHead, rawGot, disItems, disHead, disGot>>
      /\ Held' = Held
      /\ sender \in {"release", "send"} /\ sender' \notin {"release", "send"}
      /\ wire' = Append(wire, disGot[Sender])
  BY DEF Sends, Busy, store
<1>2. Gone' = disHead /\ Gone \in Nat /\ Gone + 1 = disHead /\ disHead <= Len(disItems)
  <2>1. Gone' = disHead
    BY <1>1 DEF Gone
  <2> QED BY <1>1, <2>1, GoneFacts, Facts DEF PacketInv, Busy
<1>3. disGot[Sender] = disItems[disHead]
  BY <1>1 DEF PacketInv, DisInv
<1>4. disItems[disHead] \in Packets
  BY <1>2, Facts
<1>5. /\ n \in Nat /\ Len(wire') = n + 1 /\ wire'[n + 1] = disItems[disHead]
      /\ \A i \in 1 .. n : wire'[i] = wire[i]
  <2>1. wire \in Seq(Packets)
    BY DEF TypeOK
  <2> QED BY <1>1, <1>3, <1>4, <2>1, Appended, Facts
<1>6. RawInv' /\ HeldInv' /\ UnseenInv'
  BY <1>1 DEF PacketInv, RawInv, HeldInv, UnseenInv
<1>7. DisInv'
  <2>1. \A k \in 1 .. Len(disItems) : k > disHead => k > Gone
    BY <1>2
  <2> QED BY <1>1, <1>2, <2>1 DEF PacketInv, DisInv
<1>8. WireInv'
  <2>1. \A i \in 1 .. n + 1 : i \in 1 .. n \/ i = n + 1
    BY <1>5
  <2>2. disHead \in 1 .. disHead /\ \A a \in 1 .. Gone : a \in 1 .. disHead /\ a < disHead
    BY <1>2
  <2>3. ASSUME NEW i \in 1 .. n + 1
        PROVE  \E a \in 1 .. disHead : wire'[i] = disItems[a]
    <3>1. CASE i \in 1 .. n
      <4>1. PICK a \in 1 .. Gone : wire[i] = disItems[a]
        BY <3>1 DEF PacketInv, WireInv
      <4> QED BY <1>5, <2>2, <3>1, <4>1
    <3>2. CASE i = n + 1
      BY <1>5, <2>2, <3>2
    <3> QED BY <2>1, <3>1, <3>2
  <2>4. ASSUME NEW i \in 1 .. n + 1, NEW j \in 1 .. n + 1, i < j
        PROVE  \E a, b \in 1 .. disHead : a < b /\ wire'[i] = disItems[a] /\ wire'[j] = disItems[b]
    <3>1. i \in 1 .. n
      BY <1>5, <2>4
    <3>2. CASE j \in 1 .. n
      <4>1. PICK a \in 1 .. Gone, b \in 1 .. Gone : a < b /\ wire[i] = disItems[a] /\ wire[j] = disItems[b]
        BY <2>4, <3>1, <3>2 DEF PacketInv, WireInv
      <4> QED BY <1>5, <2>2, <3>1, <3>2, <4>1
    <3>3. CASE j = n + 1
      <4>1. PICK a \in 1 .. Gone : wire[i] = disItems[a]
        BY <3>1 DEF PacketInv, WireInv
      <4> QED BY <1>5, <2>2, <3>1, <3>3, <4>1
    <3> QED BY <2>1, <3>2, <3>3
  <2>5. /\ \A i \in 1 .. n + 1 : \E a \in 1 .. disHead : wire'[i] = disItems[a]
        /\ \A i, j \in 1 .. n + 1 : i < j =>
             \E a, b \in 1 .. disHead : a < b /\ wire'[i] = disItems[a] /\ wire'[j] = disItems[b]
    BY <2>3, <2>4
  <2>6. Gone' = disHead /\ Len(wire') = n + 1 /\ disItems' = disItems
    BY <1>1, <1>2, <1>5
  <2>7. 1 .. Len(wire') = 1 .. n + 1 /\ 1 .. Gone' = 1 .. disHead
    BY <2>6
  <2>8. \A i \in 1 .. Len(wire') : \E a \in 1 .. Gone' : wire'[i] = disItems'[a]
    BY <2>5, <2>6, <2>7, Zenon
  <2>9. \A i, j \in 1 .. Len(wire') : i < j =>
          \E a, b \in 1 .. Gone' : a < b /\ wire'[i] = disItems'[a] /\ wire'[j] = disItems'[b]
    <3> TAKE i, j \in 1 .. Len(wire')
    <3> HAVE i < j
    <3>1. i \in 1 .. n + 1 /\ j \in 1 .. n + 1
      BY <2>7
    <3>2. PICK a \in 1 .. disHead, b \in 1 .. disHead :
                 a < b /\ wire'[i] = disItems[a] /\ wire'[j] = disItems[b]
      BY <2>4, <3>1
    <3> QED BY <2>6, <2>7, <3>2
  <2> QED BY <2>8, <2>9, Zenon DEF WireInv
<1> QED BY <1>6, <1>7, <1>8 DEF PacketInv

(* The peer has closed and the sender drops its packet. *)
LEMMA DiscardsKeeps ==
  ASSUME TypeOK, PacketInv, Discards
  PROVE  PacketInv'
<1> DEFINE p == disItems[disHead]
<1>1. /\ UNCHANGED <<captured, wire, rawItems, rawHead, rawGot, disItems, disHead, disGot>>
      /\ Held' = Held
      /\ sender \in {"release", "send"} /\ sender' \notin {"release", "send"}
  BY DEF Discards, Busy, store
<1>2. /\ Gone' = disHead /\ Gone \in Nat /\ Gone + 1 = disHead
      /\ disHead \in 1 .. Len(disItems)
  <2>1. Gone' = disHead
    BY <1>1 DEF Gone
  <2> QED BY <1>1, <2>1, GoneFacts, Facts DEF PacketInv, Busy
<1>3. p \in Packets /\ p \in Nat /\ p <= captured
  BY <1>2, Facts DEF PacketInv, DisInv
<1>4. \A q \in Packets : q # p => lost'[q] = lost[q]
  <2>1. disGot[Sender] = p
    BY <1>1 DEF PacketInv, DisInv
  <2> QED BY <2>1 DEF Discards, TypeOK
<1>5. \A m \in rawHead + 1 .. Len(rawItems) : rawItems[m] \in Packets /\ rawItems[m] # p
  <2>1. \A m \in rawHead + 1 .. Len(rawItems) : m \in 1 .. Len(rawItems)
    BY Facts
  <2>2. \A m \in rawHead + 1 .. Len(rawItems) : rawItems[m] \in Nat /\ rawItems[m] \in Packets
    BY <2>1, Facts
  <2> QED BY <1>2, <1>3, <2>2 DEF PacketInv, RawInv
<1>6. \A w \in Held : rawGot[w] \in Packets /\ rawGot[w] # p
  <2>1. \A w \in Held : rawGot[w] \in 1 .. captured /\ rawGot[w] # p
    BY <1>2 DEF PacketInv, HeldInv
  <2> QED BY <2>1, Facts DEF Packets
<1>7. \A k \in 1 .. Len(disItems) : k > disHead => k > Gone /\ disItems[k] \in Packets /\ disItems[k] # p
  <2>1. \A k \in 1 .. Len(disItems) : k > disHead => k > Gone /\ k # disHead
    BY <1>2
  <2> QED BY <1>2, <2>1, Facts DEF PacketInv, DisInv
<1>8. RawInv'
  BY <1>1, <1>4, <1>5 DEF PacketInv, RawInv
<1>9. HeldInv'
  BY <1>1, <1>4, <1>6 DEF PacketInv, HeldInv
<1>10. DisInv'
  BY <1>1, <1>2, <1>4, <1>7 DEF PacketInv, DisInv
<1>11. WireInv'
  <2>1. \A a \in 1 .. Gone : a \in 1 .. disHead
    BY <1>2
  <2> QED BY <1>1, <1>2, <2>1 DEF PacketInv, WireInv
<1>12. UnseenInv'
  <2>1. \A q \in Packets : q > captured => q # p
    BY <1>3, Facts
  <2> QED BY <1>1, <1>4, <2>1 DEF PacketInv, UnseenInv
<1> QED BY <1>8, <1>9, <1>10, <1>11, <1>12 DEF PacketInv

(* Every step keeps the packets in line. *)
LEMMA PacketStep ==
  ASSUME TypeOK, ShutdownInv, PacketInv, [Next]_vars
  PROVE  PacketInv'
BY StepKinds, QuietKeeps, AcceptsKeeps, OverflowsKeeps, FetchesKeeps, ForwardsKeeps,
   AbandonsKeeps, CollectsKeeps, SendsKeeps, DiscardsKeeps

-----------------------------------------------------------------------------
(* Overtaking *)

(* A function has no more values than arguments. *)
LEMMA SmallImage ==
  ASSUME NEW W, IsFiniteSet(W), NEW f, NEW T, T \subseteq {f[v] : v \in W}
  PROVE  IsFiniteSet(T) /\ Cardinality(T) <= Cardinality(W)
<1> DEFINE V == {f[v] : v \in W}
           g == [v \in W |-> f[v]]
<1>1. g \in Surjection(W, V)
  BY DEF Surjection
<1> HIDE DEF V, g
<1>2. IsFiniteSet(V) /\ Cardinality(V) <= Cardinality(W)
  BY <1>1, FS_Surjection
<1>3. IsFiniteSet(T) /\ Cardinality(T) <= Cardinality(V)
  BY <1>2, FS_Subset DEF V
<1>4. Cardinality(T) \in Nat /\ Cardinality(V) \in Nat /\ Cardinality(W) \in Nat
  BY <1>2, <1>3, FS_CardinalityType
<1> QED BY <1>2, <1>3, <1>4

(* There are finitely many packets. *)
LEMMA PacketsFinite == IsFiniteSet(Packets)
<1>1. 1 \in Int /\ MaxPackets \in Int
  BY PipelineAssumption
<1> QED BY <1>1, FS_Interval DEF Packets

(* Few packets stay few when none is added. *)
LEMMA LateShrinks ==
  ASSUME TypeOK, NEW S, NEW T, S \subseteq Packets, T \subseteq S,
         Cardinality(S) < Cardinality(Workers)
  PROVE  Cardinality(T) < Cardinality(Workers)
<1>2. IsFiniteSet(S)
  BY PacketsFinite, FS_Subset
<1>3. IsFiniteSet(T) /\ Cardinality(T) <= Cardinality(S)
  BY <1>2, FS_Subset
<1>4. Cardinality(T) \in Nat /\ Cardinality(S) \in Nat /\ Cardinality(Workers) \in Nat
  BY <1>2, <1>3, PipelineAssumption, FS_CardinalityType
<1> QED BY <1>3, <1>4

(* No step but a push to dissected_queue puts an earlier packet behind an  *)
(* element: a worker fetches only packets that are later than all of them. *)
LEMMA LateSame ==
  ASSUME TypeOK, PacketInv, LateInv, disItems' = disItems,
         AtWorkers' \subseteq AtWorkers \cup {rawItems[m] : m \in rawHead + 1 .. Len(rawItems)}
  PROVE  LateInv'
<1> SUFFICES ASSUME NEW k \in 1 .. Len(disItems)
             PROVE  Cardinality(Late(k)') < Cardinality(Workers)
  BY DEF LateInv
<1>1. \A m \in rawHead + 1 .. Len(rawItems) : disItems[k] < rawItems[m] /\ ~(rawItems[m] < disItems[k])
  <2>1. \A m \in rawHead + 1 .. Len(rawItems) : m \in 1 .. Len(rawItems)
    BY Facts
  <2>2. \A m \in rawHead + 1 .. Len(rawItems) : rawItems[m] \in Nat
    BY <2>1, Facts
  <2>3. disItems[k] \in Nat
    BY Facts
  <2>4. \A m \in rawHead + 1 .. Len(rawItems) : disItems[k] < rawItems[m]
    BY DEF PacketInv, RawInv
  <2> QED BY <2>2, <2>3, <2>4
<1>2. \A p \in AtWorkers' : p \in AtWorkers \/ ~(p < disItems[k])
  BY <1>1
<1>3. Late(k)' \subseteq Late(k) /\ Late(k) \subseteq Packets
  BY <1>2 DEF Late
<1>4. Cardinality(Late(k)) < Cardinality(Workers)
  BY DEF LateInv
<1> QED BY <1>3, <1>4, LateShrinks

(* A worker pushes its packet: what can still follow it and is earlier is  *)
(* at one of the other workers.                                            *)
LEMMA LateForwards ==
  ASSUME TypeOK, PacketInv, LateInv, NEW w \in Workers, Forwards(w)
  PROVE  LateInv'
<1> DEFINE n == Len(disItems)
<1>1. /\ w \in Held /\ Held \subseteq Workers /\ Held' = Held \ {w} /\ rawGot' = rawGot
      /\ disItems' = Append(disItems, rawGot[w])
  BY DEF Forwards, Held
<1>2. rawGot[w] \in Packets
  BY <1>1, Facts DEF PacketInv, HeldInv, Packets
<1>3. /\ n \in Nat /\ Len(disItems') = n + 1 /\ disItems'[n + 1] = rawGot[w]
      /\ \A i \in 1 .. n : disItems'[i] = disItems[i]
  <2>1. disItems \in Seq(Packets)
    BY DEF TypeOK
  <2> QED BY <1>1, <1>2, <2>1, Appended, Facts
<1>4. AtWorkers' = {rawGot[v] : v \in Held \ {w}}
  BY <1>1 DEF AtWorkers
<1>5. AtWorkers' \subseteq AtWorkers /\ rawGot[w] \in AtWorkers
  BY <1>1, <1>4 DEF AtWorkers
<1> SUFFICES ASSUME NEW k \in 1 .. n + 1
             PROVE  Cardinality(Late(k)') < Cardinality(Workers)
  BY <1>3 DEF LateInv
<1>6. CASE k \in 1 .. n
  <2>1. \A m \in k + 1 .. n + 1 : m = n + 1 \/ (m \in k + 1 .. n /\ m \in 1 .. n)
    BY <1>3, <1>6
  <2>2. \A p : (\E m \in k + 1 .. n + 1 : p = disItems'[m])
                 => p = rawGot[w] \/ \E m \in k + 1 .. n : p = disItems[m]
    BY <1>3, <2>1
  <2>3. disItems'[k] = disItems[k] /\ Len(disItems') = n + 1
    BY <1>3, <1>6
  <2>4. Late(k)' \subseteq Late(k) /\ Late(k) \subseteq Packets
    BY <1>5, <2>2, <2>3 DEF Late
  <2>5. Cardinality(Late(k)) < Cardinality(Workers)
    BY <1>6 DEF LateInv
  <2> QED BY <2>4, <2>5, LateShrinks
<1>7. CASE k = n + 1
  <2>1. k + 1 .. Len(disItems') = {}
    BY <1>3, <1>7
  <2>2. Late(k)' \subseteq {rawGot[v] : v \in Workers \ {w}}
    <3>1. Late(k)' \subseteq AtWorkers'
      BY <2>1 DEF Late
    <3> QED BY <1>1, <1>4, <3>1
  <2>3. IsFiniteSet(Workers \ {w}) /\ Cardinality(Workers \ {w}) = Cardinality(Workers) - 1
    BY PipelineAssumption, FS_RemoveElement
  <2>4. IsFiniteSet(Late(k)') /\ Cardinality(Late(k)') <= Cardinality(Workers) - 1
    BY <2>2, <2>3, SmallImage
  <2>5. Cardinality(Late(k)') \in Nat /\ Cardinality(Workers) \in Nat
    BY <2>4, PipelineAssumption, FS_CardinalityType
  <2> QED BY <2>4, <2>5
<1> QED BY <1>3, <1>6, <1>7

(* Every step keeps the number of packets that can overtake small. *)
LEMMA LateStep ==
  ASSUME TypeOK, ShutdownInv, PacketInv, LateInv, [Next]_vars
  PROVE  LateInv'
<1>1. CASE disItems' = disItems /\ rawGot' = rawGot /\ Held' \subseteq Held
  <2>1. AtWorkers' \subseteq AtWorkers
    BY <1>1 DEF AtWorkers
  <2> QED BY <1>1, <2>1, LateSame
<1>2. ASSUME NEW w \in Workers, Fetches(w)
      PROVE  LateInv'
  <2>1. rawHead + 1 \in rawHead + 1 .. Len(rawItems)
    BY <1>2, Facts DEF Fetches
  <2>2. /\ disItems' = disItems /\ Held' = Held \cup {w}
        /\ rawGot'[w] = rawItems[rawHead + 1]
        /\ \A v \in Held : v \in Workers /\ v # w /\ rawGot'[v] = rawGot[v]
    BY <1>2 DEF Fetches, TypeOK, Held
  <2>3. AtWorkers' \subseteq AtWorkers \cup {rawItems[m] : m \in rawHead + 1 .. Len(rawItems)}
    BY <2>1, <2>2 DEF AtWorkers
  <2> QED BY <2>2, <2>3, LateSame
<1>3. CASE Quiet \/ Accepts \/ Overflows \/ Collects \/ Sends \/ Discards
  BY <1>1, <1>3 DEF Quiet, Accepts, Overflows, Collects, Sends, Discards, store
<1>4. ASSUME NEW w \in Workers, Abandons(w)
      PROVE  LateInv'
  BY <1>1, <1>4 DEF Abandons, store
<1> QED BY <1>2, <1>3, <1>4, LateForwards, StepKinds

-----------------------------------------------------------------------------
(* Accounting *)

(* What is left of a queue when an element is pushed. *)
LEMMA TailGrows ==
  ASSUME NEW q \in Seq(Packets), NEW p \in Packets, NEW h \in Nat, h <= Len(q)
  PROVE  /\ Len(Append(q, p)) = Len(q) + 1
         /\ {Append(q, p)[k] : k \in h + 1 .. Len(q) + 1} = {q[k] : k \in h + 1 .. Len(q)} \cup {p}
<1>1. /\ Len(q) \in Nat /\ Len(Append(q, p)) = Len(q) + 1
      /\ Append(q, p)[Len(q) + 1] = p
      /\ \A i \in 1 .. Len(q) : Append(q, p)[i] = q[i]
  BY Appended
<1>2. /\ \A k \in h + 1 .. Len(q) : k \in 1 .. Len(q) /\ k \in h + 1 .. Len(q) + 1
      /\ \A k \in h + 1 .. Len(q) + 1 : k = Len(q) + 1 \/ k \in h + 1 .. Len(q)
      /\ Len(q) + 1 \in h + 1 .. Len(q) + 1
  BY <1>1
<1> QED BY <1>1, <1>2

(* What is left of a queue when its oldest element is taken. *)
LEMMA TailShrinks ==
  ASSUME NEW q \in Seq(Packets), NEW h \in Nat, h < Len(q)
  PROVE  {q[k] : k \in h + 1 .. Len(q)} = {q[k] : k \in (h + 1) + 1 .. Len(q)} \cup {q[h + 1]}
<1>1. Len(q) \in Nat
  OBVIOUS
<1>2. h + 1 .. Len(q) = ((h + 1) + 1 .. Len(q)) \cup {h + 1}
  BY <1>1
<1> QED BY <1>2

(* One more packet is known to be lost. *)
LEMMA LostGrows ==
  ASSUME TypeOK, NEW p \in Packets, lost[p] = "no",
         NEW why \in {"raw full", "stopped", "closed"}, lost' = [lost EXCEPT ![p] = why]
  PROVE  Lost' = Lost \cup {p} /\ Cardinality(Lost') = Cardinality(Lost) + 1
<1>1. Lost' = Lost \cup {p} /\ p \notin Lost
  BY DEF TypeOK, Lost
<1>2. IsFiniteSet(Lost)
  BY PacketsFinite, FS_Subset DEF Lost
<1> QED BY <1>1, <1>2, FS_AddElement

(* The sender holds one packet or none. *)
LEMMA SenderHolds ==
  /\ Busy => AtSender = {disGot[Sender]} /\ Cardinality(AtSender) = 1
  /\ ~Busy => AtSender = {} /\ Cardinality(AtSender) = 0
<1>1. Busy => AtSender = {disGot[Sender]}
  BY DEF Busy, AtSender
<1>2. ~Busy => AtSender = {}
  BY DEF Busy, AtSender
<1> QED BY <1>1, <1>2, FS_Singleton, FS_EmptySet

(* The numbers that are added up. *)
LEMMA Counts ==
  ASSUME TypeOK
  PROVE  /\ Cardinality(Held) \in Nat /\ IsFiniteSet(Held)
         /\ Cardinality(Lost) \in Nat
         /\ Cardinality(AtSender) \in Nat
         /\ rawItems \in Seq(Packets) /\ disItems \in Seq(Packets) /\ wire \in Seq(Packets)
<1>1. IsFiniteSet(Held)
  BY PipelineAssumption, FS_Subset DEF Held
<1>2. IsFiniteSet(Lost)
  BY PacketsFinite, FS_Subset DEF Lost
<1>3. Cardinality(AtSender) \in Nat
  BY SenderHolds
<1> QED BY <1>1, <1>2, <1>3, FS_CardinalityType DEF TypeOK

(* The same, numbers only. *)
LEMMA Numbers ==
  ASSUME TypeOK
  PROVE  /\ Len(rawItems) \in Nat /\ rawHead \in Nat /\ Len(disItems) \in Nat /\ disHead \in Nat
         /\ Len(wire) \in Nat /\ Cardinality(Held) \in Nat
         /\ Cardinality(Lost) \in Nat /\ Cardinality(AtSender) \in Nat
BY Facts, Counts

(* The first conjunct of Accounted, and the second. *)
Everywhere == InRaw \cup AtWorkers \cup InDis \cup AtSender \cup Sent \cup Lost

RawCount    == Len(rawItems) - rawHead
HeldCount   == Cardinality(Held)
DisCount    == Len(disItems) - disHead
SenderCount == Cardinality(AtSender)
WireCount   == Len(wire)
LostCount   == Cardinality(Lost)

(* What is not lost, and with it what is. *)
UnderWay == RawCount + HeldCount + DisCount + SenderCount + WireCount

Total == UnderWay + LostCount

(* The terms of the sum are numbers. *)
LEMMA CountTypes ==
  ASSUME TypeOK
  PROVE  /\ RawCount \in Int /\ HeldCount \in Int /\ DisCount \in Int
         /\ SenderCount \in Int /\ WireCount \in Int /\ LostCount \in Int
         /\ UnderWay \in Int
<1>1. /\ RawCount \in Int /\ HeldCount \in Int /\ DisCount \in Int
      /\ SenderCount \in Int /\ WireCount \in Int /\ LostCount \in Int
  BY Numbers DEF RawCount, HeldCount, DisCount, SenderCount, WireCount, LostCount
<1> QED BY <1>1 DEF UnderWay

(* The captured frames are one more when a frame arrives. *)
LEMMA OneMore ==
  ASSUME TypeOK, captured' = captured + 1
  PROVE  1 .. captured' = (1 .. captured) \cup {captured + 1}
BY Facts

(* Nothing moves. *)
LEMMA QuietAccounts ==
  ASSUME TypeOK, Quiet
  PROVE  Everywhere' = Everywhere /\ Total' = Total /\ captured' = captured
<1>1. UNCHANGED <<captured, lost, wire, rawItems, rawHead, rawGot, disItems, disHead, disGot>>
      /\ Held' = Held /\ Busy' = Busy
  BY DEF Quiet, store
<1>2. AtSender' = AtSender
  BY <1>1 DEF AtSender, Busy
<1>3. InRaw' = InRaw /\ AtWorkers' = AtWorkers /\ InDis' = InDis /\ Sent' = Sent /\ Lost' = Lost
  BY <1>1 DEF InRaw, AtWorkers, InDis, Sent, Lost
<1> QED BY <1>1, <1>2, <1>3 DEF Everywhere, Total, UnderWay,
         RawCount, HeldCount, DisCount, SenderCount, WireCount, LostCount

(* A frame arrives, and finds room or not. *)
LEMMA ArrivalAccounts ==
  ASSUME TypeOK, PacketInv, Accepts \/ Overflows
  PROVE  /\ Everywhere' = Everywhere \cup {captured + 1}
         /\ Total' = Total + 1
         /\ captured' = captured + 1
<1>1. captured + 1 \in Packets /\ captured' = captured + 1 /\ lost[captured + 1] = "no"
  <2>1. captured < MaxPackets /\ captured' = captured + 1
    BY DEF Accepts, Overflows
  <2>2. captured + 1 \in Packets /\ captured + 1 > captured
    BY <2>1, NextFrame
  <2> QED BY <2>1, <2>2 DEF PacketInv, UnseenInv
<1>2. CASE Accepts
  <2>1. /\ rawItems' = Append(rawItems, captured + 1)
        /\ UNCHANGED <<lost, wire, rawHead, rawGot, disItems, disHead, disGot>>
        /\ Held' = Held /\ Busy' = Busy
    BY <1>2 DEF Accepts
  <2>2. InRaw' = InRaw \cup {captured + 1} /\ Len(rawItems') = Len(rawItems) + 1
    <3>1. rawHead \in Nat /\ rawHead <= Len(rawItems) /\ rawItems \in Seq(Packets)
      BY Facts, Counts
    <3> QED BY <1>1, <2>1, <3>1, TailGrows DEF InRaw
  <2>3. AtSender' = AtSender
    BY <2>1 DEF AtSender, Busy
  <2>4. AtWorkers' = AtWorkers /\ InDis' = InDis /\ Sent' = Sent /\ Lost' = Lost
    BY <2>1 DEF AtWorkers, InDis, Sent, Lost
  <2>5. Everywhere' = Everywhere \cup {captured + 1}
    BY <2>2, <2>3, <2>4 DEF Everywhere
  <2>6. Total' = Total + 1
    <3>1. RawCount' = RawCount + 1
      BY <2>1, <2>2, Numbers DEF RawCount
    <3>2. UNCHANGED <<HeldCount, DisCount, SenderCount, WireCount, LostCount>>
      BY <2>1, <2>3, <2>4 DEF HeldCount, DisCount, SenderCount, WireCount, LostCount
    <3>3. UnderWay' = UnderWay + 1
      BY <3>1, <3>2, CountTypes DEF UnderWay
    <3> QED BY <3>1, <3>2, <3>3, CountTypes DEF Total
  <2> QED BY <1>1, <2>5, <2>6
<1>3. CASE Overflows
  <2>1. /\ lost' = [lost EXCEPT ![captured + 1] = "raw full"]
        /\ UNCHANGED <<wire, rawItems, rawHead, rawGot, disItems, disHead, disGot>>
        /\ Held' = Held /\ Busy' = Busy
    BY <1>3 DEF Overflows, store
  <2>2. Lost' = Lost \cup {captured + 1} /\ Cardinality(Lost') = Cardinality(Lost) + 1
    BY <1>1, <2>1, LostGrows
  <2>3. AtSender' = AtSender
    BY <2>1 DEF AtSender, Busy
  <2>4. InRaw' = InRaw /\ AtWorkers' = AtWorkers /\ InDis' = InDis /\ Sent' = Sent
    BY <2>1 DEF InRaw, AtWorkers, InDis, Sent
  <2>5. Everywhere' = Everywhere \cup {captured + 1}
    BY <2>2, <2>3, <2>4 DEF Everywhere
  <2>6. Total' = Total + 1
    <3>1. LostCount' = LostCount + 1
      BY <2>2 DEF LostCount
    <3>2. UNCHANGED <<RawCount, HeldCount, DisCount, SenderCount, WireCount>>
      BY <2>1, <2>3 DEF RawCount, HeldCount, DisCount, SenderCount, WireCount
    <3>3. UnderWay' = UnderWay
      BY <3>1, <3>2, CountTypes DEF UnderWay
    <3> QED BY <3>1, <3>2, <3>3, CountTypes DEF Total
  <2> QED BY <1>1, <2>5, <2>6
<1> QED BY <1>2, <1>3

(* A worker takes a frame, passes its packet on or gives it up. *)
LEMMA WorkerAccounts ==
  ASSUME TypeOK, PacketInv, NEW w \in Workers, Fetches(w) \/ Forwards(w) \/ Abandons(w)
  PROVE  Everywhere' = Everywhere /\ Total' = Total /\ captured' = captured
<1>1. ASSUME w \in Held, rawGot' = rawGot, Held' = Held \ {w}
      PROVE  /\ AtWorkers = AtWorkers' \cup {rawGot[w]}
             /\ Cardinality(Held') = Cardinality(Held) - 1
             /\ rawGot[w] \in Packets /\ lost[rawGot[w]] = "no"
  <2>1. AtWorkers = AtWorkers' \cup {rawGot[w]}
    BY <1>1 DEF AtWorkers
  <2>2. Cardinality(Held') = Cardinality(Held) - 1
    BY <1>1, Counts, FS_RemoveElement
  <2>3. rawGot[w] \in Packets /\ lost[rawGot[w]] = "no"
    BY <1>1, Facts DEF PacketInv, HeldInv, Packets
  <2> QED BY <2>1, <2>2, <2>3
<1>2. CASE Fetches(w)
  <2> DEFINE p == rawItems[rawHead + 1]
  <2>1. /\ rawHead < Len(rawItems) /\ rawHead' = rawHead + 1
        /\ UNCHANGED <<captured, lost, wire, rawItems, disItems, disHead, disGot>>
        /\ w \notin Held /\ Held' = Held \cup {w} /\ Busy' = Busy
    BY <1>2 DEF Fetches
  <2>2. rawGot'[w] = p /\ \A v \in Held : rawGot'[v] = rawGot[v]
    BY <1>2 DEF Fetches, TypeOK, Held
  <2>3. InRaw = InRaw' \cup {p}
    <3>1. rawHead \in Nat /\ rawItems \in Seq(Packets)
      BY Facts, Counts
    <3> QED BY <2>1, <3>1, TailShrinks DEF InRaw
  <2>4. AtWorkers' = AtWorkers \cup {p}
    BY <2>1, <2>2 DEF AtWorkers
  <2>5. Cardinality(Held') = Cardinality(Held) + 1
    BY <2>1, Counts, FS_AddElement
  <2>6. AtSender' = AtSender
    BY <2>1 DEF AtSender, Busy
  <2>7. InDis' = InDis /\ Sent' = Sent /\ Lost' = Lost
    BY <2>1 DEF InDis, Sent, Lost
  <2> HIDE DEF p
  <2>8. Everywhere' = Everywhere
    BY <2>3, <2>4, <2>6, <2>7 DEF Everywhere
  <2>9. Total' = Total
    <3>1. RawCount' = RawCount - 1
      BY <2>1, Numbers DEF RawCount
    <3>2. HeldCount' = HeldCount + 1
      BY <2>5 DEF HeldCount
    <3>3. UNCHANGED <<DisCount, SenderCount, WireCount, LostCount>>
      BY <2>1, <2>6, <2>7 DEF DisCount, SenderCount, WireCount, LostCount
    <3>4. UnderWay' = UnderWay
      BY <3>1, <3>2, <3>3, CountTypes DEF UnderWay
    <3> QED BY <3>1, <3>2, <3>3, <3>4, CountTypes DEF Total
  <2> QED BY <2>1, <2>8, <2>9
<1>3. CASE Forwards(w)
  <2>1. /\ disItems' = Append(disItems, rawGot[w])
        /\ UNCHANGED <<captured, lost, wire, rawItems, rawHead, rawGot, disHead, disGot>>
        /\ w \in Held /\ Held' = Held \ {w} /\ Busy' = Busy
    BY <1>3 DEF Forwards
  <2>2. InDis' = InDis \cup {rawGot[w]} /\ Len(disItems') = Len(disItems) + 1
    <3>1. disHead \in Nat /\ disHead <= Len(disItems) /\ disItems \in Seq(Packets)
      BY Facts, Counts
    <3>2. rawGot[w] \in Packets
      BY <1>1, <2>1
    <3> QED BY <2>1, <3>1, <3>2, TailGrows DEF InDis
  <2>3. AtSender' = AtSender
    BY <2>1 DEF AtSender, Busy
  <2>4. InRaw' = InRaw /\ Sent' = Sent /\ Lost' = Lost
    BY <2>1 DEF InRaw, Sent, Lost
  <2>5. Everywhere' = Everywhere
    BY <1>1, <2>1, <2>2, <2>3, <2>4 DEF Everywhere
  <2>6. Total' = Total
    <3>1. HeldCount' = HeldCount - 1
      BY <1>1, <2>1 DEF HeldCount
    <3>2. DisCount' = DisCount + 1
      BY <2>1, <2>2, Numbers DEF DisCount
    <3>3. UNCHANGED <<RawCount, SenderCount, WireCount, LostCount>>
      BY <2>1, <2>3, <2>4 DEF RawCount, SenderCount, WireCount, LostCount
    <3>4. UnderWay' = UnderWay
      BY <3>1, <3>2, <3>3, CountTypes DEF UnderWay
    <3> QED BY <3>1, <3>2, <3>3, <3>4, CountTypes DEF Total
  <2> QED BY <2>1, <2>5, <2>6
<1>4. CASE Abandons(w)
  <2>1. /\ lost' = [lost EXCEPT ![rawGot[w]] = "stopped"]
        /\ UNCHANGED <<captured, wire, rawItems, rawHead, rawGot, disItems, disHead, disGot>>
        /\ w \in Held /\ Held' = Held \ {w} /\ Busy' = Busy
    BY <1>4 DEF Abandons, store
  <2>2. Lost' = Lost \cup {rawGot[w]} /\ Cardinality(Lost') = Cardinality(Lost) + 1
    BY <1>1, <2>1, LostGrows
  <2>3. AtSender' = AtSender
    BY <2>1 DEF AtSender, Busy
  <2>4. InRaw' = InRaw /\ Sent' = Sent /\ InDis' = InDis
    BY <2>1 DEF InRaw, Sent, InDis
  <2>5. Everywhere' = Everywhere
    BY <1>1, <2>1, <2>2, <2>3, <2>4 DEF Everywhere
  <2>6. Total' = Total
    <3>1. HeldCount' = HeldCount - 1
      BY <1>1, <2>1 DEF HeldCount
    <3>2. LostCount' = LostCount + 1
      BY <2>2 DEF LostCount
    <3>3. UNCHANGED <<RawCount, DisCount, SenderCount, WireCount>>
      BY <2>1, <2>3 DEF RawCount, DisCount, SenderCount, WireCount
    <3>4. UnderWay' = UnderWay - 1
      BY <3>1, <3>2, <3>3, CountTypes DEF UnderWay
    <3> QED BY <3>1, <3>2, <3>3, <3>4, CountTypes DEF Total
  <2> QED BY <2>1, <2>5, <2>6
<1> QED BY <1>2, <1>3, <1>4

(* The sender takes a packet, writes it or drops it. *)
LEMMA SenderAccounts ==
  ASSUME TypeOK, PacketInv, Collects \/ Sends \/ Discards
  PROVE  Everywhere' = Everywhere /\ Total' = Total /\ captured' = captured
<1> DEFINE p == disGot[Sender]
<1>1. ASSUME Busy
      PROVE  p \in Packets /\ lost[p] = "no"
  <2>1. disHead > 0 /\ p = disItems[disHead]
    BY <1>1 DEF Busy, PacketInv, DisInv
  <2>2. disHead \in 1 .. Len(disItems) /\ disHead > Gone
    <3>1. Gone = disHead - 1
      BY <1>1 DEF Busy, Gone
    <3> QED BY <2>1, <3>1, Facts
  <2> QED BY <2>1, <2>2, Facts DEF PacketInv, DisInv
<1>2. CASE Collects
  <2> DEFINE q == disItems[disHead + 1]
  <2>1. /\ ~Busy /\ Busy' /\ disHead < Len(disItems) /\ disHead' = disHead + 1
        /\ UNCHANGED <<captured, lost, wire, rawItems, rawHead, rawGot, disItems>>
        /\ Held' = Held
    BY <1>2 DEF Collects
  <2>2. disGot'[Sender] = q
    BY <1>2 DEF Collects, TypeOK
  <2>3. InDis = InDis' \cup {q}
    <3>1. disHead \in Nat /\ disItems \in Seq(Packets)
      BY Facts, Counts
    <3> QED BY <2>1, <3>1, TailShrinks DEF InDis
  <2>4. AtSender = {} /\ Cardinality(AtSender) = 0
    BY <2>1, SenderHolds
  <2>5. AtSender' = {q} /\ Cardinality(AtSender') = 1
    <3>1. AtSender' = {disGot'[Sender]}
      BY <2>1 DEF Busy, AtSender
    <3> QED BY <2>2, <3>1, FS_Singleton
  <2>6. InRaw' = InRaw /\ AtWorkers' = AtWorkers /\ Sent' = Sent /\ Lost' = Lost
    BY <2>1 DEF InRaw, AtWorkers, Sent, Lost
  <2> HIDE DEF q
  <2>7. Everywhere' = Everywhere
    BY <2>3, <2>4, <2>5, <2>6 DEF Everywhere
  <2>8. Total' = Total
    <3>1. DisCount' = DisCount - 1
      BY <2>1, Numbers DEF DisCount
    <3>2. SenderCount' = SenderCount + 1
      BY <2>4, <2>5 DEF SenderCount
    <3>3. UNCHANGED <<RawCount, HeldCount, WireCount, LostCount>>
      BY <2>1, <2>6 DEF RawCount, HeldCount, WireCount, LostCount
    <3>4. UnderWay' = UnderWay
      BY <3>1, <3>2, <3>3, CountTypes DEF UnderWay
    <3> QED BY <3>1, <3>2, <3>3, <3>4, CountTypes DEF Total
  <2> QED BY <2>1, <2>7, <2>8
<1>3. ASSUME Busy, ~Busy'
      PROVE  AtSender = {p} /\ AtSender' = {} /\ Cardinality(AtSender) = Cardinality(AtSender') + 1
  <2>1. AtSender = {p} /\ Cardinality(AtSender) = 1
    BY <1>3, SenderHolds
  <2>2. AtSender' = {}
    BY <1>3 DEF Busy, AtSender
  <2>3. Cardinality(AtSender') = 0
    BY <2>2, FS_EmptySet
  <2> QED BY <2>1, <2>2, <2>3
<1>4. CASE Sends
  <2>1. /\ Busy /\ ~Busy' /\ wire' = Append(wire, p)
        /\ UNCHANGED <<captured, lost, rawItems, rawHead, rawGot, disItems, disHead, disGot>>
        /\ Held' = Held
    BY <1>4 DEF Sends, store
  <2>2. Sent' = Sent \cup {p} /\ Len(wire') = Len(wire) + 1
    <3>1. wire \in Seq(Packets) /\ Len(wire) \in Nat /\ p \in Packets
      BY <1>1, <2>1, Counts, Facts
    <3>2. /\ Len(Append(wire, p)) = Len(wire) + 1
          /\ {Append(wire, p)[k] : k \in 0 + 1 .. Len(wire) + 1} = {wire[k] : k \in 0 + 1 .. Len(wire)} \cup {p}
      BY <3>1, TailGrows
    <3>3. 0 + 1 = 1
      OBVIOUS
    <3> HIDE DEF p
    <3> QED BY <2>1, <3>2, <3>3 DEF Sent
  <2>3. AtSender = {p} /\ AtSender' = {} /\ Cardinality(AtSender) = Cardinality(AtSender') + 1
    BY <1>3, <2>1
  <2>4. InRaw' = InRaw /\ AtWorkers' = AtWorkers /\ InDis' = InDis /\ Lost' = Lost
    BY <2>1 DEF InRaw, AtWorkers, InDis, Lost
  <2> HIDE DEF p
  <2>5. Everywhere' = Everywhere
    BY <2>2, <2>3, <2>4 DEF Everywhere
  <2>6. Total' = Total
    <3>1. SenderCount' = SenderCount - 1
      BY <2>3, <2>1, SenderHolds, FS_EmptySet DEF SenderCount
    <3>2. WireCount' = WireCount + 1
      BY <2>2 DEF WireCount
    <3>3. UNCHANGED <<RawCount, HeldCount, DisCount, LostCount>>
      BY <2>1, <2>4 DEF RawCount, HeldCount, DisCount, LostCount
    <3>4. UnderWay' = UnderWay
      BY <3>1, <3>2, <3>3, CountTypes DEF UnderWay
    <3> QED BY <3>1, <3>2, <3>3, <3>4, CountTypes DEF Total
  <2> QED BY <2>1, <2>5, <2>6
<1>5. CASE Discards
  <2>1. /\ Busy /\ ~Busy' /\ lost' = [lost EXCEPT ![p] = "closed"]
        /\ UNCHANGED <<captured, wire, rawItems, rawHead, rawGot, disItems, disHead, disGot>>
        /\ Held' = Held
    BY <1>5 DEF Discards, store
  <2>2. Lost' = Lost \cup {p} /\ Cardinality(Lost') = Cardinality(Lost) + 1
    BY <1>1, <2>1, LostGrows
  <2>3. AtSender = {p} /\ AtSender' = {} /\ Cardinality(AtSender) = Cardinality(AtSender') + 1
    BY <1>3, <2>1
  <2>4. InRaw' = InRaw /\ AtWorkers' = AtWorkers /\ InDis' = InDis /\ Sent' = Sent
    BY <2>1 DEF InRaw, AtWorkers, InDis, Sent
  <2> HIDE DEF p
  <2>5. Everywhere' = Everywhere
    BY <2>2, <2>3, <2>4 DEF Everywhere
  <2>6. Total' = Total
    <3>1. SenderCount' = SenderCount - 1
      BY <2>3, <2>1, SenderHolds, FS_EmptySet DEF SenderCount
    <3>2. LostCount' = LostCount + 1
      BY <2>2 DEF LostCount
    <3>3. UNCHANGED <<RawCount, HeldCount, DisCount, WireCount>>
      BY <2>1, <2>4 DEF RawCount, HeldCount, DisCount, WireCount
    <3>4. UnderWay' = UnderWay - 1
      BY <3>1, <3>2, <3>3, CountTypes DEF UnderWay
    <3> QED BY <3>1, <3>2, <3>3, <3>4, CountTypes DEF Total
  <2> QED BY <2>1, <2>5, <2>6
<1> QED BY <1>2, <1>4, <1>5

(* Every step keeps the books. *)
LEMMA AccountedStep ==
  ASSUME TypeOK, ShutdownInv, PacketInv, Accounted, [Next]_vars
  PROVE  Accounted'
<1>1. Everywhere = 1 .. captured /\ Total = captured
  BY DEF Accounted, Everywhere, Total, UnderWay,
         RawCount, HeldCount, DisCount, SenderCount, WireCount, LostCount
<1>2. CASE Accepts \/ Overflows
  <2>1. Everywhere' = Everywhere \cup {captured + 1} /\ Total' = Total + 1 /\ captured' = captured + 1
    BY <1>2, ArrivalAccounts
  <2>2. 1 .. captured' = (1 .. captured) \cup {captured + 1}
    BY <2>1, OneMore
  <2>3. Everywhere' = 1 .. captured' /\ Total' = captured'
    BY <1>1, <2>1, <2>2
  <2> QED BY <2>3 DEF Accounted, Everywhere, Total, UnderWay,
         RawCount, HeldCount, DisCount, SenderCount, WireCount, LostCount
<1>3. CASE Everywhere' = Everywhere /\ Total' = Total /\ captured' = captured
  <2>1. Everywhere' = 1 .. captured' /\ Total' = captured'
    BY <1>1, <1>3
  <2> QED BY <2>1 DEF Accounted, Everywhere, Total, UnderWay,
         RawCount, HeldCount, DisCount, SenderCount, WireCount, LostCount
<1> QED BY <1>2, <1>3, QuietAccounts, WorkerAccounts, SenderAccounts, StepKinds

-----------------------------------------------------------------------------
(* The theorems *)

(* Nothing has moved when the program starts. *)
LEMMA FlowInit == Init => FlowInv /\ Accounted
<1> SUFFICES ASSUME Init PROVE FlowInv /\ Accounted
  OBVIOUS
<1>1. /\ rawItems = <<>> /\ disItems = <<>> /\ wire = <<>> /\ captured = 0
      /\ rawHead = 0 /\ disHead = 0 /\ sender = "off" /\ main = "connect" /\ keep_running
      /\ rawHold = [t \in {Main} \cup Workers |-> 0] /\ rawGot = [w \in Workers |-> None]
      /\ disHold = [t \in Workers \cup {Sender} |-> 0] /\ disGot = [t \in {Sender} |-> None]
  BY DEF Init, Raw!Init, Dis!Init
<1>2. MaxPackets \in Nat
  BY PipelineAssumption
<1>3. TypeOK
  <2>1. <<>> \in Seq(Packets) /\ Len(<<>>) = 0 /\ 0 \in 0 .. 0 /\ 0 \in 0 .. MaxPackets /\ 0 \in Nat
    BY <1>2
  <2> QED BY <1>1, <2>1 DEF TypeOK, Init, Places, None
<1>4. Held = {} /\ \A k \in 1 .. Len(<<>>) : FALSE
  BY DEF Held, Init
<1>5. ShutdownInv
  BY <1>1 DEF ShutdownInv, Init
<1>6. RawInv /\ HeldInv /\ DisInv /\ WireInv /\ UnseenInv /\ LateInv
  <2>1. \A k \in 0 + 1 .. Len(<<>>) : FALSE
    BY <1>4
  <2> QED BY <1>1, <1>4, <2>1 DEF Init, RawInv, HeldInv, DisInv, WireInv, UnseenInv, LateInv, Gone
<1>7. Accounted
  <2>1. /\ InRaw = {} /\ AtWorkers = {} /\ InDis = {} /\ AtSender = {} /\ Sent = {} /\ Lost = {}
        /\ 1 .. captured = {}
    BY <1>1, <1>4 DEF InRaw, AtWorkers, InDis, AtSender, Sent, Lost, Init
  <2>2. Cardinality({}) = 0 /\ Len(<<>>) = 0
    BY FS_EmptySet
  <2> QED BY <1>1, <1>4, <2>1, <2>2 DEF Accounted
<1> QED BY <1>3, <1>5, <1>6, <1>7 DEF FlowInv

(* Every step preserves both. *)
LEMMA FlowStep == FlowInv /\ Accounted /\ [Next]_vars => FlowInv' /\ Accounted'
<1> SUFFICES ASSUME FlowInv, Accounted, [Next]_vars PROVE FlowInv' /\ Accounted'
  OBVIOUS
<1>1. TypeOK /\ ShutdownInv /\ HeldInv /\ DisInv /\ PacketInv /\ LateInv
  BY DEF FlowInv, PacketInv
<1>2. TypeOK'
  BY <1>1, TypeStep
<1>3. ShutdownInv'
  BY <1>1, ShutdownStep
<1>4. PacketInv'
  BY <1>1, PacketStep
<1>5. LateInv'
  BY <1>1, LateStep
<1>6. Accounted'
  BY <1>1, AccountedStep
<1> QED BY <1>2, <1>3, <1>4, <1>5, <1>6 DEF FlowInv, PacketInv

(* Each packet has one way to go through the two queues, whatever the      *)
(* threads, the signal handler and the peer do in between: what the steps  *)
(* of packet_handler, the workers, the sender and main preserve.           *)
THEOREM FlowInvariant == Spec => []FlowInv
<1>1. Init => FlowInv /\ Accounted
  BY FlowInit
<1>2. FlowInv /\ Accounted /\ [Next]_vars => FlowInv' /\ Accounted'
  BY FlowStep
<1> QED BY <1>1, <1>2, PTL DEF Spec

(* No frame given to packet_handler disappears or is sent twice: it waits  *)
(* in a queue, is at one worker or the sender, is on the wire once, or is  *)
(* lost through a full raw_queue, a stop during a retried push or a closed *)
(* connection.                                                             *)
THEOREM FramesAccounted == Spec => []Accounted
<1>1. Init => FlowInv /\ Accounted
  BY FlowInit
<1>2. FlowInv /\ Accounted /\ [Next]_vars => FlowInv' /\ Accounted'
  BY FlowStep
<1> QED BY <1>1, <1>2, PTL DEF Spec

(* When pcap_loop ends by itself, the draining loops of worker_thread_main *)
(* leave raw_queue empty before main returns.                              *)
THEOREM RawDrained == Spec => []DrainsRaw
<1>1. FlowInv => DrainsRaw
  <2> SUFFICES ASSUME TypeOK, ShutdownInv, main = "exit", ~break_loop
               PROVE  InRaw = {}
    BY DEF FlowInv, DrainsRaw
  <2>1. PICK w \in Workers : TRUE
    BY PipelineAssumption
  <2>2. worker[w] \in {"off", "done"}
    BY DEF ShutdownInv
  <2>3. rawHead = Len(rawItems)
    <3>1. CASE worker[w] = "off"
      <4>1. rawItems = <<>>
        BY <3>1 DEF ShutdownInv
      <4> QED BY <4>1, Facts
    <3>2. CASE worker[w] = "done"
      BY <3>2 DEF ShutdownInv
    <3> QED BY <2>2, <3>1, <3>2
  <2>4. rawHead + 1 .. Len(rawItems) = {}
    BY <2>3, Facts
  <2> QED BY <2>4 DEF InRaw
<1> QED BY <1>1, FlowInvariant, PTL

(* Dissection by several workers reorders the stream only so far: a packet *)
(* is written before at most one earlier packet per other worker.          *)
THEOREM FewOvertake == Spec => []OvertakesFew
<1>1. FlowInv => OvertakesFew
  <2> SUFFICES ASSUME TypeOK, DisInv, WireInv, LateInv, NEW i \in 1 .. Len(wire)
               PROVE  Cardinality({j \in i + 1 .. Len(wire) : wire[j] < wire[i]}) < Cardinality(Workers)
    BY DEF FlowInv, OvertakesFew
  <2> DEFINE J == {j \in i + 1 .. Len(wire) : wire[j] < wire[i]}
             g == [j \in J |-> wire[j]]
  <2>1. PICK a \in 1 .. Gone : wire[i] = disItems[a]
    BY DEF WireInv
  <2>2. 1 .. Gone \subseteq 1 .. Len(disItems)
    BY Facts DEF Gone
  <2>3. \A j \in J : j \in 1 .. Len(wire) /\ j \in Nat /\ i < j
    BY Facts
  <2>4. \A j \in J : wire[j] \in Late(a)
    <3> TAKE j \in J
    <3>1. PICK b \in 1 .. Gone, c \in 1 .. Gone : b < c /\ wire[i] = disItems[b] /\ wire[j] = disItems[c]
      BY <2>3 DEF WireInv
    <3>2. b = a
      BY <2>1, <2>2, <3>1 DEF DisInv
    <3>3. c \in a + 1 .. Len(disItems)
      <4>1. c \in 1 .. Len(disItems) /\ a \in 1 .. Len(disItems) /\ Len(disItems) \in Nat
        BY <2>2, <3>1, Facts
      <4>2. a < c
        BY <3>1, <3>2
      <4> QED BY <4>1, <4>2
    <3>4. wire[j] \in Packets /\ wire[j] < disItems[a]
      BY <2>1, <2>3, Facts
    <3> QED BY <3>1, <3>3, <3>4 DEF Late
  <2>5. \A j, k \in J : wire[j] = wire[k] => j = k
    <3>1. ASSUME NEW j \in J, NEW k \in J, j < k
          PROVE  wire[j] # wire[k]
      <4>1. PICK b \in 1 .. Gone, c \in 1 .. Gone : b < c /\ wire[j] = disItems[b] /\ wire[k] = disItems[c]
        BY <2>3, <3>1 DEF WireInv
      <4>2. b # c
        BY <4>1
      <4> QED BY <2>2, <4>1, <4>2 DEF DisInv
    <3>2. \A j, k \in J : j < k \/ k < j \/ j = k
      BY <2>3
    <3> HIDE DEF J
    <3> QED BY <3>1, <3>2
  <2> HIDE DEF J
  <2>6. g \in Injection(J, Late(a))
    <3>1. g \in [J -> Late(a)]
      BY <2>4
    <3>2. \A j, k \in J : g[j] = g[k] => j = k
      BY <2>5
    <3> HIDE DEF g
    <3> QED BY <3>1, <3>2 DEF Injection, IsInjective
  <2> HIDE DEF g
  <2>7. IsFiniteSet(Late(a))
    BY PacketsFinite, FS_Subset DEF Late
  <2>8. IsFiniteSet(J) /\ Cardinality(J) <= Cardinality(Late(a))
    BY <2>6, <2>7, FS_Injection
  <2>9. Cardinality(Late(a)) < Cardinality(Workers)
    BY <2>2 DEF LateInv
  <2>10. Cardinality(J) \in Nat /\ Cardinality(Late(a)) \in Nat /\ Cardinality(Workers) \in Nat
    BY <2>7, <2>8, PipelineAssumption, FS_CardinalityType
  <2>11. Cardinality(J) < Cardinality(Workers)
    BY <2>8, <2>9, <2>10
  <2> QED BY <2>11 DEF J
<1> QED BY <1>1, FlowInvariant, PTL

-----------------------------------------------------------------------------
(* The hang *)

(* Once the sender has ended nobody takes from dissected_queue, and a full *)
(* one stays full.                                                         *)
LEMMA FullForGood ==
  ASSUME TypeOK, ShutdownInv, [Next]_vars, sender = "done", ~Dis!HasRoom
  PROVE  sender' = "done" /\ ~Dis!HasRoom'
<1> DEFINE Kept == /\ disItems' = disItems /\ disHead' = disHead
                   /\ disHold'[Sender] = disHold[Sender] /\ sender' = sender
<1>1. disHold \in [{Sender} \cup Workers -> Nat]
  BY DEF TypeOK
<1>2. Kept => sender' = "done" /\ ~Dis!HasRoom'
  BY DEF Dis!HasRoom
<1>3. ASSUME NEW w \in Workers, WorkerStep(w) PROVE Kept
  <2>1. w # Sender
    BY ThreadsAssumption
  <2>2. CASE WorkerPush(w)
    BY <2>2 DEF WorkerPush, Dis!Claim, disq
  <2>3. CASE WorkerPublish(w)
    BY <1>1, <2>1, <2>3 DEF WorkerPublish, Dis!Publish
  <2>4. CASE WorkerCheck(w) \/ WorkerPop(w) \/ WorkerDissect(w) \/ WorkerRetry(w)
    BY <2>4 DEF WorkerCheck, WorkerPop, WorkerDissect, WorkerRetry, disq
  <2> QED BY <1>3, <2>2, <2>3, <2>4 DEF WorkerStep
<1>4. ~SenderStep /\ ~BrokenPipe /\ ~StartThreads
  BY DEF SenderStep, SenderCheck, SenderPop, SenderRelease, SendPacketInfo, BrokenPipe,
       StartThreads, ShutdownInv
<1>5. CASE \/ Signal \/ PeerStalls \/ PeerResumes \/ PeerCloses \/ ConnectCheck \/ ConnectFails
           \/ AddressInvalid \/ ConnectSucceeds \/ LoopBreaks \/ StopRunning \/ Join \/ PublishRaw
           \/ LoopFails \/ HandlePacket \/ StatsStop \/ Ended \/ UNCHANGED vars
  <2>1. Kept
    BY <1>5 DEF Signal, PeerStalls, PeerResumes, PeerCloses, ConnectCheck, ConnectFails,
         AddressInvalid, ConnectSucceeds, LoopBreaks, StopRunning, Join, PublishRaw, LoopFails,
         HandlePacket, StatsStop, Ended, vars, disq
  <2> QED BY <1>2, <2>1
<1> HIDE DEF Kept
<1> QED BY <1>2, <1>3, <1>4, <1>5 DEF Next, MainStep

(* A draining worker whose push fails is back at the push. *)
LEMMA PusherStays ==
  ASSUME TypeOK, ShutdownInv, [Next]_vars, ~Dis!HasRoom,
         NEW w \in Workers, draining[w], worker[w] = "push"
  PROVE  draining'[w] /\ worker'[w] = "push"
<1>1. worker \in [Workers -> Places] /\ draining \in [Workers \cup {Sender} -> BOOLEAN]
  BY DEF TypeOK
<1>2. ASSUME NEW v \in Workers, WorkerStep(v) PROVE draining'[w] /\ worker'[w] = "push"
  <2>1. CASE v # w
    BY <1>1, <1>2, <2>1 DEF WorkerStep, WorkerCheck, WorkerPop, WorkerDissect, WorkerPush,
         WorkerRetry, WorkerPublish, WorkerGoto
  <2>2. CASE v = w
    <3>1. WorkerPush(w)
      BY <1>2, <2>2 DEF WorkerStep, WorkerCheck, WorkerPop, WorkerDissect, WorkerRetry, WorkerPublish
    <3>2. worker' = [worker EXCEPT ![w] = "push"] /\ draining' = draining
      BY <3>1 DEF WorkerPush, Dis!Claim, WorkerGoto
    <3> QED BY <1>1, <3>2
  <2> QED BY <2>1, <2>2
<1>3. CASE SenderStep
  <2>1. worker' = worker
    BY <1>3 DEF SenderStep, SenderCheck, SenderPop, SenderRelease, SendPacketInfo
  <2>2. draining'[w] = draining[w]
    BY <1>1, <1>3, ThreadsAssumption DEF SenderStep, SenderCheck, SenderPop, SenderRelease, SendPacketInfo
  <2> QED BY <2>1, <2>2
<1>4. ~StartThreads
  BY DEF StartThreads, ShutdownInv
<1>5. CASE \/ Signal \/ PeerStalls \/ PeerResumes \/ PeerCloses \/ ConnectCheck \/ ConnectFails
           \/ AddressInvalid \/ ConnectSucceeds \/ LoopBreaks \/ StopRunning \/ Join \/ PublishRaw
           \/ LoopFails \/ HandlePacket \/ BrokenPipe \/ StatsStop \/ Ended \/ UNCHANGED vars
  <2>1. UNCHANGED <<worker, draining>>
    BY <1>5 DEF Signal, PeerStalls, PeerResumes, PeerCloses, ConnectCheck, ConnectFails,
         AddressInvalid, ConnectSucceeds, LoopBreaks, StopRunning, Join, PublishRaw, LoopFails,
         HandlePacket, BrokenPipe, StatsStop, Ended, vars
  <2> QED BY <2>1
<1> QED BY <1>2, <1>3, <1>4, <1>5 DEF Next, MainStep

(* main waits for that worker. *)
LEMMA MainWaits ==
  ASSUME TypeOK, ShutdownInv, [Next]_vars, Alive, sender = "done",
         NEW w \in Workers, worker[w] = "push"
  PROVE  Alive'
<1>1. main \notin {"connect", "connecting", "start", "join sender", "join stats", "exit"}
  BY DEF ShutdownInv
<1>2. main' = main \/ main' \in {"capture", "publish", "stop", "join workers", "join sender"}
  <2>1. CASE \E v \in Workers : WorkerStep(v)
    BY <2>1 DEF WorkerStep, WorkerCheck, WorkerPop, WorkerDissect, WorkerPush, WorkerRetry,
         WorkerPublish, mainvars
  <2>2. CASE SenderStep
    BY <2>2 DEF SenderStep, SenderCheck, SenderPop, SenderRelease, SendPacketInfo, mainvars
  <2>3. ~BrokenPipe /\ ~ConnectCheck /\ ~ConnectFails /\ ~AddressInvalid /\ ~ConnectSucceeds /\ ~StartThreads
    BY <1>1 DEF BrokenPipe, ConnectCheck, ConnectFails, AddressInvalid, ConnectSucceeds, StartThreads
  <2>4. CASE \/ LoopBreaks \/ StopRunning \/ Join \/ PublishRaw \/ LoopFails \/ HandlePacket
    BY <1>1, <2>4 DEF LoopBreaks, StopRunning, Join, PublishRaw, LoopFails, HandlePacket
  <2>5. CASE \/ Signal \/ PeerStalls \/ PeerResumes \/ PeerCloses \/ StatsStop \/ Ended \/ UNCHANGED vars
    BY <2>5 DEF Signal, PeerStalls, PeerResumes, PeerCloses, StatsStop, Ended, vars, mainvars
  <2> QED BY <2>1, <2>2, <2>3, <2>4, <2>5 DEF Next, MainStep
<1> QED BY <1>2 DEF Alive

(* A step out of the hang of the shutdown does not exist: a process in     *)
(* which the sender has ended while a draining worker repeats its push     *)
(* into a full dissected_queue stays like that, and never ends by itself.  *)
HangIsForever == [][Stranded /\ Alive => Stranded' /\ Alive']_vars

(* No signal, packet, thread or answer of the peer gets the capture        *)
(* program out of its hang, for every capacity and number of workers.      *)
THEOREM HangStays == Spec => HangIsForever
<1>1. FlowInv /\ [Next]_vars => [Stranded /\ Alive => Stranded' /\ Alive']_vars
  <2> SUFFICES ASSUME TypeOK, ShutdownInv, [Next]_vars, Stranded, Alive
               PROVE  Stranded' /\ Alive'
    BY DEF FlowInv
  <2>1. PICK w \in Workers : draining[w] /\ worker[w] = "push"
    BY DEF Stranded
  <2>2. sender = "done" /\ ~Dis!HasRoom
    BY DEF Stranded
  <2>3. sender' = "done" /\ ~Dis!HasRoom'
    BY <2>2, FullForGood
  <2>4. draining'[w] /\ worker'[w] = "push"
    BY <2>1, <2>2, PusherStays
  <2>5. Alive'
    BY <2>1, <2>2, MainWaits
  <2> QED BY <2>3, <2>4, <2>5 DEF Stranded
<1> QED BY <1>1, FlowInvariant, PTL DEF Spec, HangIsForever


-----------------------------------------------------------------------------
(* What an exit leaves behind *)

(* main passes the join of the sender only when the sender has ended. *)
SenderJoined == main \in {"join stats", "exit"} => sender \in {"off", "done"}

LEMMA SenderJoins ==
  ASSUME TypeOK, ShutdownInv, SenderJoined, [Next]_vars
  PROVE  SenderJoined'
<1> USE DEF SenderJoined
<1>1. CASE \E w \in Workers : WorkerStep(w)
  BY <1>1 DEF WorkerStep, WorkerCheck, WorkerPop, WorkerDissect, WorkerPush, WorkerRetry,
       WorkerPublish, mainvars
<1>2. CASE SenderStep
  <2>1. main' = main /\ sender \notin {"off", "done"}
    BY <1>2 DEF SenderStep, SenderCheck, SenderPop, SenderRelease, SendPacketInfo, mainvars
  <2> QED BY <2>1
<1>3. CASE ConnectCheck \/ ConnectFails \/ AddressInvalid \/ ConnectSucceeds
  <2>1. main \in {"connect", "connecting"} /\ sender' = sender
    BY <1>3 DEF ConnectCheck, ConnectFails, AddressInvalid, ConnectSucceeds
  <2>2. sender = "off"
    BY <2>1 DEF ShutdownInv
  <2> QED BY <2>1, <2>2
<1>4. CASE Join
  BY <1>4 DEF Join
<1>5. CASE \/ StartThreads \/ LoopBreaks \/ StopRunning \/ PublishRaw \/ LoopFails
           \/ HandlePacket \/ BrokenPipe
  <2>1. main' \in {"capture", "publish", "stop", "join workers", "killed"}
    BY <1>5 DEF StartThreads, LoopBreaks, StopRunning, PublishRaw, LoopFails, HandlePacket, BrokenPipe
  <2> QED BY <2>1
<1>6. CASE Signal \/ PeerStalls \/ PeerResumes \/ PeerCloses \/ StatsStop \/ Ended \/ UNCHANGED vars
  BY <1>6 DEF Signal, PeerStalls, PeerResumes, PeerCloses, StatsStop, Ended, vars, mainvars
<1> HIDE DEF SenderJoined
<1> QED BY <1>1, <1>2, <1>3, <1>4, <1>5, <1>6 DEF Next, MainStep

(* After an exit of main no packet is in the hands of a thread: each frame *)
(* was sent, is known to be lost, or was left in a queue, in raw_queue     *)
(* only after a signal.                                                    *)
ExitLeavesQueues ==
  main = "exit" =>
    /\ 1 .. captured = Sent \cup Lost \cup InDis \cup InRaw
    /\ ~break_loop => 1 .. captured = Sent \cup Lost \cup InDis

(* The joins of main are in an order that lets no thread take a packet     *)
(* with it: what a shutdown loses, it loses from the queues or in one of   *)
(* the ways that lost records.                                             *)
THEOREM ExitIsClean == Spec => []ExitLeavesQueues
<1>1. Init => FlowInv /\ Accounted /\ SenderJoined
  <2>1. Init => SenderJoined
    BY DEF Init, SenderJoined
  <2> QED BY <2>1, FlowInit
<1>2. FlowInv /\ Accounted /\ SenderJoined /\ [Next]_vars => FlowInv' /\ Accounted' /\ SenderJoined'
  <2>1. FlowInv /\ SenderJoined /\ [Next]_vars => SenderJoined'
    BY SenderJoins DEF FlowInv
  <2> QED BY <2>1, FlowStep
<1>3. FlowInv /\ Accounted /\ SenderJoined /\ DrainsRaw => ExitLeavesQueues
  <2> SUFFICES ASSUME ShutdownInv, Accounted, SenderJoined, DrainsRaw, main = "exit"
               PROVE  /\ 1 .. captured = Sent \cup Lost \cup InDis \cup InRaw
                      /\ ~break_loop => InRaw = {}
    BY DEF FlowInv, ExitLeavesQueues
  <2>1. AtWorkers = {}
    <3>1. \A w \in Workers : worker[w] \in {"off", "done"}
      BY DEF ShutdownInv
    <3>2. Held = {}
      BY <3>1 DEF Held
    <3> QED BY <3>2 DEF AtWorkers
  <2>2. AtSender = {}
    BY DEF SenderJoined, AtSender
  <2>3. InRaw \cup AtWorkers \cup InDis \cup AtSender \cup Sent \cup Lost = 1 .. captured
    BY DEF Accounted
  <2>4. ~break_loop => InRaw = {}
    BY DEF DrainsRaw
  <2> QED BY <2>1, <2>2, <2>3, <2>4
<1> QED BY <1>1, <1>2, <1>3, RawDrained, PTL DEF Spec

=============================================================================
