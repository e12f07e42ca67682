----------------------------- MODULE GeoLookup -----------------------------
(***************************************************************************)
(* How a packet of the dashboard gets its country.  The processor asks the *)
(* cache; on a miss it queues the address for geoWorker, labels the packet *)
(* "searching..." and stores it.  geoWorker looks the address up in the    *)
(* database, adds it to the cache, saves the cache to disk and relabels    *)
(* the packets of the history.  The processor holds mu, geoWorker does     *)
(* not, so they interleave at every lock of the cache and of the history.  *)
(* The process may be killed at any time and started again.                *)
(*                                                                         *)
(* The country and the city of an address are represented by the address.  *)
(* What is broadcast to the browsers is not part of this module.           *)
(***************************************************************************)
EXTENDS Integers, Sequences, FiniteSets, Functions

CONSTANTS
  Ips,            (* public addresses                                       *)
  Flows,          (* the pairs <<source, destination>> packets have         *)
  Known,          (* those geoDB.City returns no error for: also those      *)
                  (* without a record, which are shown as "unknown"         *)
  CacheCapacity,  (* of geoCache                                            *)
  ChanRoom,       (* of geoReqChan                                          *)
  HistorySize,    (* of historyBuffer                                       *)
  MaxPackets,     (* bound: packets processed by one process                *)
  MaxRestarts     (* bound: restarts                                        *)

ASSUME GeoAssumption ==
  /\ Known \subseteq Ips /\ IsFiniteSet(Known)
  /\ CacheCapacity \in Nat \ {0}
  /\ ChanRoom \in Nat \ {0}
  /\ HistorySize \in Nat \ {0}
  /\ MaxPackets \in Nat /\ MaxRestarts \in Nat

Private   == "private"
Searching == "searching..."
NoCity    == ""
Nowhere   == ""

ASSUME LabelsAssumption == Ips \cap {Private, Searching, NoCity, Nowhere} = {}

Addresses == Ips \cup {Private}

ASSUME FlowsAssumption == Flows \subseteq Addresses \X Addresses

VARIABLES
  geoDB,          \* the database could be opened
  cache, list,    \* geoCache
  disk,           \* geocache.json: the addresses in it, and whether it is whole
  geoReqChan,     \* the addresses queued for geoWorker
  history,        \* historyBuffer
  packetCounter,
  proc,           \* where the processor is
  pkt,            \* the packet it works on
  worker,         \* where geoWorker is
  ip,             \* the address it works on
  saving,         \* what saveGeoCacheToDisk took from the cache
  missed,         \* history: the packets whose request came to nothing
  unanswered,     \* history: the addresses geoWorker took and gave up
  restarts

procvars   == <<proc, pkt, packetCounter>>
workervars == <<worker, ip, saving>>
vars == <<geoDB, cache, list, disk, geoReqChan, history, procvars, workervars,
          missed, unanswered, restarts>>

Lru  == INSTANCE LruCache WITH Capacity <- CacheCapacity
Hist == INSTANCE BoundedHistory WITH Size <- HistorySize, Values <- {}, items <- history

NoPacket == [index |-> 0, src |-> Private, dst |-> Private, country |-> Private, city |-> NoCity]

(* The address a packet is looked up by. *)
Looked(p) == IF p.src # Private THEN p.src ELSE p.dst

Init ==
  /\ geoDB \in BOOLEAN
  /\ Lru!Init
  /\ disk = [whole |-> FALSE, keys |-> {}]
  /\ geoReqChan = <<>>
  /\ history = <<>>
  /\ packetCounter = 0
  /\ proc = "idle"
  /\ pkt = NoPacket
  /\ worker = "idle"
  /\ ip = Nowhere
  /\ saving = {}
  /\ missed = {}
  /\ unanswered = {}
  /\ restarts = 0

-----------------------------------------------------------------------------
(* Faulty variants of the two goroutines. *)

(* The request is queued whatever the channel holds. *)
RequestUnbounded ==
  /\ proc = "request"
  /\ geoReqChan' = Append(geoReqChan, Looked(pkt))
  /\ proc' = "filter"
  /\ UNCHANGED <<geoDB, cache, list, disk, history, pkt, packetCounter, workervars,
                 missed, unanswered, restarts>>

(* geoWorker returns on an error. *)
LookupFailsForGood ==
  /\ worker = "lookup"
  /\ ip \notin Known
  /\ Lru!Remove(ip)
  /\ unanswered' = unanswered \cup {ip}
  /\ ip' = Nowhere
  /\ worker' = "ended"
  /\ UNCHANGED <<geoDB, disk, geoReqChan, history, procvars, saving, missed, restarts>>

(* Only the packets from the address are relabelled, not those to it. *)
RelabelledSource(p) ==
  IF ip = p.src THEN [p EXCEPT !.country = ip, !.city = ip] ELSE p

(* A country that is there is kept. *)
RelabelledOnce(p) ==
  IF ip \in {p.src, p.dst}
  THEN [p EXCEPT !.country = IF @ = Searching THEN ip ELSE @, !.city = ip]
  ELSE p

-----------------------------------------------------------------------------
(* The processor goroutine *)

(* A packet is numbered and the cache is asked.  A cached answer holds the *)
(* city too, but only the country and its code are taken from it.          *)
ProcessPacket(src, dst) ==
  LET p == [index |-> packetCounter + 1, src |-> src, dst |-> dst,
            country |-> Private, city |-> NoCity]
      addr == Looked(p)
  IN /\ proc = "idle"
     /\ packetCounter < MaxPackets
     /\ packetCounter' = packetCounter + 1
     /\ \/ /\ addr = Private
           /\ pkt' = p
           /\ proc' = "filter"
           /\ UNCHANGED <<cache, list>>
        \/ /\ addr # Private
           /\ Lru!Hit(addr)
           /\ pkt' = [p EXCEPT !.country = cache[addr]]
           /\ proc' = "filter"
        \/ /\ addr # Private
           /\ Lru!Miss(addr)
           /\ pkt' = [p EXCEPT !.country = Searching]
           /\ proc' = "request"
     /\ UNCHANGED <<geoDB, disk, geoReqChan, history, workervars, missed, unanswered, restarts>>

(* The request is dropped when the channel is full. *)
RequestLookup ==
  /\ proc = "request"
  /\ IF Len(geoReqChan) < ChanRoom
     THEN /\ geoReqChan' = Append(geoReqChan, Looked(pkt))
          /\ UNCHANGED missed
     ELSE /\ missed' = missed \cup {pkt.index}
          /\ UNCHANGED geoReqChan
  /\ proc' = "filter"
  /\ UNCHANGED <<geoDB, cache, list, disk, history, pkt, packetCounter, workervars, unanswered,
                 restarts>>

(* The packet matches the filter and is kept, or does not match. *)
StorePacket ==
  /\ proc = "filter"
  /\ Hist!Add(pkt)
  /\ proc' = "idle"
  /\ pkt' = NoPacket
  /\ UNCHANGED <<geoDB, cache, list, disk, geoReqChan, packetCounter, workervars,
                 missed, unanswered, restarts>>

FilterOut ==
  /\ proc = "filter"
  /\ proc' = "idle"
  /\ pkt' = NoPacket
  /\ UNCHANGED <<geoDB, cache, list, disk, geoReqChan, history, packetCounter, workervars,
                 missed, unanswered, restarts>>

(* /?action=clear waits for mu. *)
ClearHistory ==
  /\ proc = "idle"
  /\ Hist!Clear
  /\ UNCHANGED <<geoDB, cache, list, disk, geoReqChan, procvars, workervars,
                 missed, unanswered, restarts>>

-----------------------------------------------------------------------------
(* geoWorker *)

(* Without a database the request is given up. *)
TakeRequest ==
  /\ worker = "idle"
  /\ geoReqChan # <<>>
  /\ geoReqChan' = Tail(geoReqChan)
  /\ IF geoDB
     THEN /\ ip' = Head(geoReqChan)
          /\ worker' = "lookup"
          /\ UNCHANGED unanswered
     ELSE /\ unanswered' = unanswered \cup {Head(geoReqChan)}
          /\ UNCHANGED <<ip, worker>>
  /\ UNCHANGED <<geoDB, cache, list, disk, history, procvars, saving, missed, restarts>>

(* City returns an error.  The packets that wait for the address keep      *)
(* their label.                                                            *)
LookupFails ==
  /\ worker = "lookup"
  /\ ip \notin Known
  /\ Lru!Remove(ip)
  /\ unanswered' = unanswered \cup {ip}
  /\ ip' = Nowhere
  /\ worker' = "idle"
  /\ UNCHANGED <<geoDB, disk, geoReqChan, history, procvars, saving, missed, restarts>>

LookupSucceeds ==
  /\ worker = "lookup"
  /\ ip \in Known
  /\ Lru!Add(ip, ip)
  /\ worker' = "save"
  /\ UNCHANGED <<geoDB, disk, geoReqChan, history, procvars, ip, saving,
                 missed, unanswered, restarts>>

(* saveGeoCacheToDisk: the copy of the cache, then WriteFile, which first  *)
(* empties the file.                                                       *)
SaveBegins ==
  /\ worker = "save"
  /\ saving' = DOMAIN cache
  /\ disk' = [whole |-> FALSE, keys |-> {}]
  /\ worker' = "write"
  /\ UNCHANGED <<geoDB, cache, list, geoReqChan, history, procvars, ip,
                 missed, unanswered, restarts>>

SaveEnds ==
  /\ worker = "write"
  /\ disk' = [whole |-> TRUE, keys |-> saving]
  /\ saving' = {}
  /\ worker' = "update"
  /\ UNCHANGED <<geoDB, cache, list, geoReqChan, history, procvars, ip,
                 missed, unanswered, restarts>>

Relabelled(p) ==
  IF ip \in {p.src, p.dst} THEN [p EXCEPT !.country = ip, !.city = ip] ELSE p

(* The packet that the processor has labelled and not yet stored is not    *)
(* relabelled.                                                             *)
UpdateHistory ==
  /\ worker = "update"
  /\ Hist!Update([p \in Range(history) |-> Relabelled(p)])
  /\ missed' = IF /\ proc = "filter"
                  /\ pkt.country = Searching
                  /\ Looked(pkt) = ip
                  /\ ip \notin Range(geoReqChan)
               THEN missed \cup {pkt.index}
               ELSE missed
  /\ ip' = Nowhere
  /\ worker' = "idle"
  /\ UNCHANGED <<geoDB, cache, list, disk, geoReqChan, procvars, saving, unanswered, restarts>>

WorkerStep ==
  \/ TakeRequest
  \/ LookupFails
  \/ LookupSucceeds
  \/ SaveBegins
  \/ SaveEnds
  \/ UpdateHistory

-----------------------------------------------------------------------------
(* The process is killed and started again: loadGeoCache reads what is on  *)
(* the disk, and a file that is not whole does not parse.                  *)
Restart ==
  /\ restarts < MaxRestarts
  /\ restarts' = restarts + 1
  /\ IF disk.whole
     THEN Lru!Load([k \in disk.keys |-> k])
     ELSE cache' = [k \in {} |-> k] /\ list' = <<>>
  /\ geoReqChan' = <<>>
  /\ history' = <<>>
  /\ packetCounter' = 0
  /\ proc' = "idle"
  /\ pkt' = NoPacket
  /\ worker' = "idle"
  /\ ip' = Nowhere
  /\ saving' = {}
  /\ missed' = {}
  /\ unanswered' = {}
  /\ UNCHANGED <<geoDB, disk>>

Next ==
  \/ \E flow \in Flows : ProcessPacket(flow[1], flow[2])
  \/ RequestLookup
  \/ StorePacket
  \/ FilterOut
  \/ ClearHistory
  \/ WorkerStep
  \/ Restart

Spec == Init /\ [][Next]_vars

(* Both goroutines are scheduled; packets, clicks and kills may not come.  *)
Fairness ==
  /\ WF_vars(RequestLookup \/ StorePacket \/ FilterOut)
  /\ WF_vars(WorkerStep)

FairSpec == Spec /\ Fairness

-----------------------------------------------------------------------------
Labels  == Ips \cup {Private, Searching}
Packets == [index : 0 .. MaxPackets, src : Addresses, dst : Addresses,
            country : Labels, city : Ips \cup {NoCity}]

(* Types. *)
TypeOK ==
  /\ geoDB \in BOOLEAN
  /\ list \in Seq(Ips)
  /\ disk \in [whole : BOOLEAN, keys : SUBSET Ips]
  /\ geoReqChan \in Seq(Ips) /\ Len(geoReqChan) <= ChanRoom
  /\ history \in Seq(Packets) /\ Len(history) <= HistorySize
  /\ packetCounter \in 0 .. MaxPackets
  /\ proc \in {"idle", "request", "filter"}
  /\ pkt \in Packets
  /\ worker \in {"idle", "lookup", "save", "write", "update"}
  /\ ip \in Ips \cup {Nowhere}
  /\ saving \in SUBSET Ips
  /\ missed \subseteq 1 .. MaxPackets
  /\ unanswered \subseteq Ips

(* The cache is consistent whatever it went through, and only holds        *)
(* addresses whose lookup succeeded, also after a restart from a file that *)
(* was being written when the process was killed.                          *)
CacheSound ==
  /\ Lru!CacheAgrees
  /\ \A k \in DOMAIN cache : k \in Known /\ cache[k] = k
  /\ disk.whole => disk.keys \subseteq Known /\ Cardinality(disk.keys) <= CacheCapacity

(* The addresses geoWorker has yet to relabel packets for. *)
Pending == Range(geoReqChan) \cup (IF worker = "idle" THEN {} ELSE {ip})

(* A packet that waits for its country: geoWorker will come to its         *)
(* address, or has given it up, or the packet's request came to nothing.   *)
Tracked(p) ==
  p.country = Searching =>
    Looked(p) \in Pending \/ Looked(p) \in unanswered \/ p.index \in missed

(* geoWorker gives an address up for no other reasons than these. *)
GivenUp(addr) == ~geoDB \/ addr \notin Known

(* A packet of the history that says "searching..." has a lookup under way *)
(* or may say so for ever, for one of four reasons: its request found the  *)
(* channel full (getCountry), geoWorker relabelled the history between its *)
(* request and its arrival there (Update), or geoWorker took its address   *)
(* and had no database, or got an error from City.  There is no fifth.     *)
SearchingIsPending ==
  /\ \A i \in 1 .. Len(history) : Tracked(history[i])
  /\ \A addr \in unanswered : GivenUp(addr)

Coherent(p) ==
  /\ p.country \in Ips => p.country \in {p.src, p.dst}
  /\ p.city # NoCity => p.city = p.country
  /\ p.country = Private => p.src = Private /\ p.dst = Private

(* Country and city of a packet are those of one of its own addresses, and *)
(* of the same one.                                                        *)
LabelsCoherent == \A i \in 1 .. Len(history) : Coherent(history[i])

(* geoWorker has an address in hand from the channel to the history, and   *)
(* saves no more than the cache held.                                      *)
WorkerInv ==
  /\ worker # "idle" => geoDB /\ ip \in Ips
  /\ worker \in {"save", "write", "update"} => ip \in Known
  /\ saving \subseteq Known /\ Cardinality(saving) <= CacheCapacity

(* The packet that is not in the history yet obeys the same rules.         *)
PacketInv ==
  /\ Coherent(pkt)
  /\ proc = "idle" => pkt = NoPacket
  /\ proc = "request" => pkt.country = Searching /\ Looked(pkt) \in Ips
  /\ proc = "filter" => Tracked(pkt)
  /\ proc # "idle" => pkt.index > 0

(* What every step of the two goroutines and a restart preserves. *)
GeoInv ==
  /\ TypeOK
  /\ CacheSound
  /\ WorkerInv
  /\ PacketInv
  /\ SearchingIsPending
  /\ LabelsCoherent

InHistory(n) == {history[i] : i \in {j \in 1 .. Len(history) : history[j].index = n}}

(* Every lookup ends, those that fail included: a packet whose request was *)
(* accepted and that was stored before geoWorker came to it is relabelled, *)
(* unless it leaves the history first or geoWorker gives its address up,   *)
(* which by SearchingIsPending it does only without a database or when     *)
(* City returns an error.                                                  *)
LookupsEnd ==
  \A n \in 1 .. MaxPackets :
    (\E p \in InHistory(n) : p.country = Searching /\ n \notin missed)
      ~> (\A p \in InHistory(n) : p.country # Searching \/ Looked(p) \in unanswered)
=============================================================================
