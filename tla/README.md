# A verification of pacsni

pacsni captures packets in C++, relays them through a Rust service and shows
them in a Go dashboard with a JavaScript page. This directory holds TLA+ models
of the parts of it that keep state, the TLC configurations that check them on
small instances, and TLAPS proofs of the results that hold for every size.
`PROJECT.json` maps every definition to the lines it models, and lists the runs,
the faulty variants each property is tested against, the hazards of the code and
the theorems.

Check a model with `tlc -config MCLockFreeQueue.cfg MCLockFreeQueue`, and the
proofs of a module with `tlapm LockFreeQueueProofs.tla`.

## 1. The system

```
 libpcap -> packet_handler -> raw_queue -> workers -> dissected_queue -> sender
    (src/cpp)                                                              | TLS, frames
                                                                           v
 tokio broadcast channel <- handle_cpp_connection  (src/rust/packet_service)
    | one task per dashboard connection: handle_go_connection
    v TCP, a line of JSON per packet
 reader goroutine -> packetChan -> processor -> historyBuffer, clients
    (src/go/dashboard)               |  ^           |
                          geoReqChan v  | geoCache  v WebSocket, /api/packets
                                  geoWorker       script.js
```

| Component | State | Operations | Talks to |
|---|---|---|---|
| `LockFreeQueue` (`packet_types.h`) | two positions, a sequence and an element per node | `push`, `pop` | shared memory of the capture program's threads |
| Capture pipeline (`packet_capture.cpp`) | `keep_running`, two queues, the threads, the TLS connection | connection loop, `packet_handler`, workers, sender, statistics, signal handler, joins | libpcap, the service |
| Dissectors (`dissect_raw_packet`, `protocol_dissectors.cpp`) | the record under construction | Ethernet, VLAN, IP, extension headers, ICMP, TCP, UDP, ARP, STP, LLDP and the application protocols | called by the workers |
| Wire format (`PacketInfo`, `handlers.rs`) | none | 1024 bytes, written as a struct and read field by field | capture program, service |
| Frame handler (`handle_cpp_connection`) | a `BytesMut` | read, verify, parse, publish | the capture program, the broadcast channel |
| Packet conversion (`model.rs`) | none | `PacketInfo` to `DashboardPacket` | called by the frame handler |
| Broadcast and dashboard tasks (`main.rs`, `handle_go_connection`) | the channel, a receiver per connection, `PACKET_COUNT` | publish, receive, lag, write, metrics | the dashboard |
| Reader (`main.go`) | the connection, `consecutiveFailures`, `packetChan` | dial, back-off, scan, send | the service, the processor |
| Packet history (`RingBuffer`) | `data`, `head`, `count` | `Add`, `Clear`, `Update`, `GetAll` | processor, `geoWorker`, HTTP handlers |
| Processor and GeoIP (`main.go`) | `packetCounter`, `geoCache`, `geoReqChan`, `geocache.json` | process, request, look up, save, relabel, load | history, disk, database |
| Dashboard control (`main.go`) | `isScanning`, `filterStr`, `clients` | clear, toggle, filter, `/api/packets`, `/api/export`, `/ws` | the pages |
| Page (`script.js`) | `packets`, status label, WebSocket | fetch, `onmessage`, reconnect, render | the dashboard |

What is hard to test here:

- **Interleavings.** The queue's protocol of positions and sequences; workers and
  sender that each decide for themselves when a shutdown is over; `geoWorker`,
  which works on the history without the lock the processor holds; HTTP handlers
  that release `mu` between a change and its announcement; a page that fetches
  and subscribes independently.
- **Limits.** Seven bounded buffers stand between the interface and the page, and
  each has its own answer when it is full: drop silently (`raw_queue`,
  `geoReqChan`, a client's channel), wait (`dissected_queue`, the sockets,
  `packetChan`), overwrite and report (the broadcast channel), overwrite (the
  history), evict (`geoCache`).
- **Cuts.** Reads of the service end anywhere in a frame; connections break and
  come back; the dashboard may be killed while it writes its cache.
- **Numbers.** Wrapping indices, a shift that overflows, a release one lap ahead.
- **Lengths.** A frame is cut anywhere; 256 bytes of it are kept next to the
  length pcap delivered; header lengths, options, labels and TLVs say for
  themselves how long they are; one struct is described in two languages.

`hazards` in `PROJECT.json` lists them line by line with the properties that
would catch each.

## 2. The models

A module `MCx` only instantiates `x` for TLC. Each module has a section of
*faulty variants*: operators that carry one plausible slip each. They are not
part of any specification; they show that the properties notice such a slip.

### `TicketQueue`, `LockFreeQueue`: the queue

`LockFreeQueue` models `push` and `pop` one access to shared memory at a time:
load the position, load the node's sequence, compare-exchange (which may fail
spuriously), copy the element, store the sequence. `pc` says which access a
thread makes next and `pos` and `item` are its locals. `pushed` is a history
variable. `TicketQueue` is what callers may rely on: elements leave in the order
of their tickets; a push that is not finished hides every later element; a pop
that is not finished keeps its node. It is *not* a linearizable FIFO of
`Capacity` elements: a call may fail while another is half done.

Assumed: interleaved atomics (the acquire and release orders of the code publish
`node.data` between the thread that stores a sequence and the one that reads
it); positions that do not wrap (64 bits); a capacity of at least two. The code
masks with `capacity - 1`, which is the remainder for a power of two, and the
only capacity it passes is 8192.

### `CapturePipeline`: capture, workers, sender and shutdown

Two instances of `TicketQueue` joined by the threads of `packet_capture.cpp`.
A packet is its number in capture order. Each thread's place is a variable
(`main`, `worker`, `sender`, `stats`), and `draining` tells the loop over
`keep_running` from the one after it. Outside the program, the interface
delivers frames or fails, a signal arrives at any time, and the peer stalls,
resumes or closes. `lost` records why a packet will never be sent.
Command line, interface selection and TLS set-up come before the first state.

### `NetworkFrames`, `Dissection`, `WireFormat`: one frame, from the wire to the service

`NetworkFrames` is the environment: a frame is a record of its headers, and
`Packet` gives the numbers in it by offset and width. `Dissection` follows one
frame: `Capture` is `packet_handler` (a prefix of the frame, at most 256 bytes of
it, and the length that pcap delivered), then one action per layer of
`dissect_raw_packet`, with one step per VLAN tag and per extension header. The
dissector only sees what `Read` returns: a number that was stored, or
`frame.noise` for anything outside the stored bytes, which stands for whatever
the stack held there. `info` starts as noise too, because the code declares it
and does not initialise it. `calls` records which region each nested dissector
was handed. `Decode` is the reader of `handlers.rs` followed by the conversions
of `model.rs`.

`WireFormat` holds the struct and the reader as two sequences of names and
sizes. A field is found by its byte offset, so a field that is moved or resized
on one side only is read from another's bytes. Texts are a name and a number; an
address is the pair of its first twelve and last four bytes, which is all the
two address formats tell apart. The two times of a record are left out. An application protocol is known by its first
byte instead of its first few.

### `OptionWalk`: the loops inside the dissectors

TCP options, DHCP options, LLDP TLVs, DNS labels, the extensions of a
ClientHello and the copied line of a text, each over a region of `len` bytes
whose content is arbitrary: a byte is chosen when it is read. One action per
turn; `readTo` and `wroteTo` say how far the turn reached in the region and in
its destination. A walk that ends in a copy of negative length is `"undefined"`.
`dissect_tls_sni` is modelled although `dissect_raw_packet` cannot reach it
(section 4).

### `FrameStream`: frames from a byte stream

`handle_cpp_connection` for one connection. A byte is its offset in the stream,
so the model need not carry bytes to say where frames begin. A read takes any
number of bytes from one to the room of the buffer. `Room` models
`BytesMut::reserve`: the reservation (1024) is smaller than a frame (1088), the
test before it is for a frame, and the consumed front of the allocation is
reclaimed. HMAC verification succeeds for one whole frame signed with the
service's secret and for nothing else.

### `PacketFeed`: from the service to the dashboard

The broadcast channel is the number of packets sent and, per receiver, the next
one it gets; the channel holds the last `Capacity` of them. Connections are
numbered; the task of a broken connection lives on next to that of its successor
until a write fails. The reader's back-off is computed in `Width`-bit two's
complement, as the shift of `main.go:529` is.

### `BoundedHistory`, `HistoryRing`: the packet history

`HistoryRing` is `RingBuffer`; `BoundedHistory` is what it promises, the last
`Size` packets since the last `Clear`. The other dashboard models use
`BoundedHistory` directly.

### `LruCache`, `GeoLookup`: countries

`GeoLookup` interleaves the processor and `geoWorker` at every lock of the cache
and of the history, with `LruCache` as the cache. Restart is a kill at any
point, also between the truncation and the end of the write of
`geocache.json`. The country and the city of an address are represented by the
address. `Known` are the addresses for which `geoDB.City` returns no error
(`main.go:409`); one without a record is among them, and is cached and shown as
"unknown". `missed` records the packets whose own request came to nothing (a
full channel, a relabelling before the packet was stored) and `unanswered` the
addresses that `geoWorker` took from the channel and gave up (no database, an
error of `City`).

### `DashboardPage`: control and pages

The processor's broadcasts, the handlers of `/` and `/api/packets`, `serveWs`,
and the page: its fetch, its WebSocket, its list and its status label. What a
handler does while it holds `mu` is one action; the toggle handler is three,
because it reads `isScanning` and broadcasts after it has released `mu`.
`missed` records the packets a page lost track of and `overlap` that two toggles
were under way at once.

## 3. The runs

| Run | Instance | What it shows |
|---|---|---|
| `queue` | 2 producers, 2 consumers, 2 nodes, 3 pushes' worth of positions | Exclusive access to a node, pops match pushes, honest failures, the refinement, and that `IInv` holds |
| `pipeline` | 2 workers, queues of 2, 4 frames, a stalling and closing peer | Every frame is in one place or lost in a known way; bounded reordering; `raw_queue` is drained when `pcap_loop` ends by itself; `FlowInv` holds |
| `pipeline_liveness` | 2 workers, queues of 2, 3 frames | Shutdown ends or strands in one known way; a burst drains |
| `pipeline_strands` | 1 worker | **Violation**: shutdown can hang |
| `history` | 3 slots, 3 values | The ring is the bounded history, in both directions |
| `frames` | frames of 4 bytes, a buffer of 3 frames, 6 frames | Every cutting of the stream gives back its frames |
| `feed` | a channel of 2, 4 packets, 2 connections, 12 failures | Order, reported gaps, metrics, back-off, delivery, resubscription; `FeedInv` holds |
| `geo` | 3 addresses, one of which cannot be looked up, with and without a database, a cache of 1, a channel of 1, a history of 2, 3 packets, 1 restart | Consistent cache, explained labels, lookups end; `GeoInv` holds |
| `page` | 1 page, 2 toggles, a history of 2, 3 packets, 1 broken WebSocket | Missing packets are explained; status right unless toggles overlap; `PageInv` holds |
| `dissect` | 1752 frames: 20 transports with payloads around the sizes VXLAN and NTP are tested for, TCP with five sets of options, behind up to 2 tags, IPv4 headers of 16 to 24 bytes, fragments, chains of up to 11 extension headers; ARP, LLDP, STP, an unknown type; cut at every byte of the headers; 3 values of what is not stored | Nothing in a record that is not in the frame, whole frames described completely (section 4 names what is excepted), the service sees the record |
| `walks` | 6 loops, regions of 0 to 132 bytes, the bytes at which a test changes its outcome | Every turn stays inside and moves forward; every walk ends |
| `arp` | the frames without IP | **Violation**: the addresses of an ARP packet are not the ones recorded |

**Why these bounds.** Every buffer has the smallest size at which it can be empty,
full (or has one place where partly full makes no difference), and more packets
pass than any one of them holds, so every limit is met and every index wraps. Two threads of
each role make every pair of roles race. The bounds are named constants that
only stop the production of work (`MaxPush`, `MaxPackets`, `MaxFrames`,
`MaxConns`, `MaxFailures`, `MaxBreaks`, `MaxRestarts`); the reactions to it are
never bounded. The back-off intervals keep the ratio of the code's (30), and
the integer is as much wider than them as it takes for a product to wrap to a
negative number, to a positive one and to zero within twelve failures. Workers run the same code on the same state, which makes the symmetry
of `pipeline` sound; no liveness run uses symmetry.
Where deadlock can only be the end of the program, a model says so with an
explicit `Ended` step; only `walks`, whose loops simply return, turns the
deadlock check off. In `dissect` the frames carry distinct numbers in distinct
fields, so a number read from the wrong place shows; the values of noise are
chosen to mean something where they are read (a protocol, a fragment header, a
port). In `walks` the regions lie on both sides of the sizes of the
destinations (32, 64, 128) and of the 43 bytes of a ClientHello.

**Fairness.** Weak fairness of threads, tasks and goroutines that can run: they
are scheduled by the kernel and by the two runtimes, and none waits on a lock
another keeps. `WalkEnds` only assumes that a worker goes on with its loop.
`pcap_loop` returns after `pcap_breakloop`, because its reads time out. Nothing
is assumed of signals, traffic, the interface, the peer or the network; a dial
eventually succeeds in `feed` only in the sense that consecutive failures are
bounded.

## 4. What the checks found

1. **Shutdown can hang** (`pipeline_strands`, `packet_capture.cpp:423`). The
   sender ends at the first empty `pop` after `keep_running` falls. A worker that
   then drains into a full `dissected_queue` repeats its push for ever, and the
   join waits for it. `StopsOrStrands` shows that this is the only way to hang
   while the peer reads, and `HangStays` proves that nothing leads out of it. By
   the same race a packet may be left in `dissected_queue` after a shutdown that
   ends; `ExitIsClean` proves that it is nowhere else.
2. **ARP addresses** (`arp`, `packet_capture.cpp:366`). The protocol addresses of
   an ARP packet are at `8 + hln` and `12 + 2 * hln`; the code copies from
   `8 + 2 * hln` and `12 + 3 * hln`. `NothingInvented` and `RecordComplete`
   leave these two fields out for ARP and hold for all others.

What a property excepts by name, because the code does it:

- *"searching..." for ever* (`SearchingIsPending`), for one of four reasons: a
  full `geoReqChan` drops the request (`main.go:363`); `geoWorker` relabels the
  history between the request and the `Add` of the packet that asked
  (`main.go:427`); there is no database (`main.go:403`); `City` returns an error
  (`main.go:409`). There is no fifth. `LookupsEnd` says that `geoWorker` comes to
  every accepted request, and relabels its packets or gives their address up.
- *Stale status* (`main.go:741`, `StatusUnlessOverlap`). `isScanning` is read and
  sent outside `mu`, so of two overlapping toggles the older status may be told
  last. Only overlapping toggles matter.
- *Short frames* (`packet_capture.cpp:274`). A frame of fewer than 14 captured
  bytes is sent as an uninitialised record.
- *Extension headers* (`TransportTruth`, `Unpromised`). The walk over them
  changes `info.protocol` and neither `l4_offset` nor the `IpInfo` that
  `parse_transport_layer` gets. Behind one, `RecordComplete` promises the numbers
  of Ethernet and IP, the protocol the chain ends in, and that ports, TCP header,
  VXLAN and NTP numbers are zero, whatever the frame says; the numbers of ICMP
  and IGMP, which are read from the extension header, are not promised. A
  fragment header is read without a length test (`FragmentCut`).
- *Later fragments* (`Unpromised`, `Plain`). Their data is read as a transport
  header: no number behind the IP header is promised.
- *TCP over IPv6* (`Unpromised`, `RecordComplete`). The payload length is computed
  from the flow label (`protocol_dissectors.cpp:96`), so neither the end of the
  payload region nor the VXLAN number is promised.
- *Cut payloads* (`Unpromised`). The lengths of payloads come from the headers,
  so the VXLAN and NTP numbers of a frame that was not captured whole are not
  promised.
- *Ports 53 and 67 or 68 in one packet* (`ServiceSeesRecord`). The dissector
  tests them in one order (`packet_capture.cpp:349`), the service in the other
  (`model.rs:87`).
- *Two reads behind the region* (`Overrun`): `payload[43]` after a test for 43
  bytes, and up to 32 bytes of a host name behind the end of an HTTP request.
- *An empty LLDP TLV* (`AccessesFit`) of a chassis or port asks for a copy of -1
  bytes (`protocol_dissectors.cpp:243`).

Met while modelling, and visible in the models: the service's secret is a
constant (`main.rs:17`) while the capture program's is configurable, so a
configured secret is refused at its first frame (`RefusalsAreKeys` shows that
nothing else is refused); a cache hit gives a packet its country and never its
city (`main.go:591`); the branch of the frame handler that clears an overgrown
buffer is unreachable (`NeverCleared`); `/api/packets` answers newest first, live
packets are appended and `script.js:366` reverses the whole, so the page is not
newest first as its comment says; only 256 bytes of a frame are stored while
lengths are tested against what pcap delivered, and the magic number of DHCP
lies at byte 278 of an untagged frame, behind them; `dissect_tls_sni` and the
text `TCP Keep-Alive` cannot be reached, because `tls_sni` and `payload_len` are
still zero when they are tested (`packet_capture.cpp:345`,
`protocol_dissectors.cpp:302`); nothing calls `dissect_nd` and
`parse_tcp_options`.

## 5. What is proved

Proofs are for every value of the constants, from the `ASSUME`s of the modules.

- **The queue** (`LockFreeQueueProofs`, for every capacity of at least two, every
  set of producers and consumers): `TypeCorrect`, `Invariance`,
  `NodesAreExclusive`, `PopsMatchPushes`, `QueueIsBounded`. None of these
  properties is inductive. `IInv` is about the window of `Capacity` positions
  from `dequeue_pos_` on, which uses each node once (`SlotInjective`): a claimed
  position has a published node or one producer at work on it; an unclaimed one
  has a free node or one consumer at work on the element a lap earlier
  (`WindowInv`). What a thread learnt from a sequence is still true if its
  compare-exchange can succeed, because positions only grow (`CasInv`). Steps
  that only load are handled once (`QuietStep`), and each writing step has a
  lemma of its own.
- **The refinement** (also `LockFreeQueueProofs`): `Implements`, and
  `FailuresAreHonest`, which says that a call fails only when the abstract queue
  offers no room or no ready element. This is what entitles `CapturePipeline` to
  use `TicketQueue` in place of the nodes.
- **The history** (`HistoryRingProofs`, for every size): `RingIsSound`,
  `OrdersAlwaysAgree`, `RingIsHistory`. `RingInv` adds that a ring that is not
  full starts at slot 0, which `Update` and the oldest-first reading rely on.
- **The frames** (`FrameStreamProofs`, for every frame size, reservation, buffer
  of at least three frames and limit no smaller than the buffer):
  `StreamKeepsPlace`, `FramesStayWhole`, `RefusalsAreKeys`,
  `BufferIsNeverCleared`, `NothingIsHeldBack`. `StreamInv` says that what was
  consumed is a whole number of frames and that buffer and room fit the
  allocation.
- **The loops of the dissectors** (`OptionWalkProofs`, for regions of every length
  and every content): `WalkInvariance`, `WalksFit`, `WalksAdvance`. `AccessesFit`
  speaks of the last turn only and is not inductive: the next one needs to know
  where the walk stands. `WalkInv` adds that the end of the extensions lies in
  the region, that a DNS name leaves room for its terminator, that a ClientHello
  is read from byte 43 of at least 43, and that a line is shorter than its
  destination. The other walks test everything they rely on in the turn itself.
- **The pipeline** (`CapturePipelineProofs`, for every capacity of at least two,
  every finite non-empty set of workers and any number of frames, with every
  signal, interface error and fault of the peer): `FlowInvariant`,
  `FramesAccounted`, `RawDrained`, `FewOvertake`, `HangStays`, `ExitIsClean`. The
  first three after `FlowInvariant` are properties of the runs; they speak of
  all threads at once and none is inductive. `FlowInv` says where the packets
  are: what was taken from a queue is its prefix, in capture order in
  `raw_queue` (`RawInv`); no two workers hold the same packet, and none that is
  queued, sent or lost (`HeldInv`, `DisInv`, `WireInv`); no frame is lost before
  it is captured (`UnseenInv`). `ShutdownInv` ties `keep_running`,
  `break_loop` and the joins to the places of the threads, which is what
  `DrainsRaw` needs: without a signal, a worker that has left its draining loop
  found `raw_queue` empty after the last push. `LateInv` is behind `OvertakesFew`:
  the earlier packets that follow an element of `dissected_queue`, or may still
  follow it, are fewer than the workers, because each was in the hands of another
  worker when the element was pushed. The proof first shows that every
  action moves one packet in one of eight ways or moves none (`StepKinds`) and
  then keeps each conjunct for each way, so the actions are opened once.
  `Accounted` is proved by counting: each way moves one from one term of its sum
  to another. `HangIsForever` is an action property: a stranded process stays
  stranded and alive, because a full `dissected_queue` only gets room from a
  sender that has ended, and because `ShutdownInv` keeps `main` at the join of
  the workers. `ExitLeavesQueues` says what a return of `main` may leave behind;
  it takes one more fact about the second join (`SenderJoined`).
- **The feed** (`PacketFeedProofs`, for every size of the channel, the socket and
  `packetChan`, and any number of packets and connections): `FeedInvariant`,
  `FeedOrdered`, `NoHiddenGap`, `SkippedIsOld`, `MetricsExact`. `Feed` is all that
  the dashboard has received or will receive from the packets under way.
  `ConnsInv` and `ReaderInv` say that connections are used one after the other
  and what the task of one that is over can still do; `FeedBelow` that the
  packet the current receiver gets next is larger than all of `Feed`, which makes
  a reconnection harmless while an old task is running. Each step extends `Feed`
  at its end, takes elements out of it or moves them inside it (`FeedChange`).
- **The lookups** (`GeoLookupProofs`, for every set of addresses, a finite set of
  them whose lookup succeeds, and every size of cache, channel and history): `GeoInvariant`,
  `CacheIsSound`, `SearchesPend`, `LabelsAgree`. `HitKeeps`, `AddKeeps`,
  `RemoveKeeps` and `LoadKeeps` say that each operation of the cache keeps list
  and map the same set of keys without repetition and within the capacity.
  `GeoInv` adds what the goroutines carry across their locks: `geoWorker` has an
  address in hand from the channel to the relabelling, one whose lookup succeeded
  from the lookup on, and saves only what
  the cache held (`WorkerInv`), and the packet the processor has not yet stored
  obeys the rules of the stored ones (`PacketInv`). `TrackedKeeps` is the argument
  for `SearchesPend`: an address leaves the pending ones only into `unanswered` or
  when the history has been relabelled for it, and `GivenUpStep` that it gets into
  `unanswered` only without a database or after an error. The labels the program
  writes in the place of a country are assumed to differ from every country.

- **The pages** (`DashboardPageProofs`, for every set of pages and of toggle
  requests, all capacities and any number of packets and broken WebSockets):
  `PageInvariant`, `MissingExplained`, `StatusRight`. `StatusUnlessOverlap` only
  speaks of moments without a toggle under way and is not inductive: `ToggleInv`
  adds that until two toggles overlap there is one under way at most, and that
  the value it has read outside `mu` is still the current one. `MissingIsExplained`
  is kept by every step on its own, given the types: `Known` is what a page
  shows, is about to show or has lost in a known way, and for each handler of the
  server and of the page a lemma says what it does to `Known` (`PacketExplained`,
  `AnswerExplained`, `ReceiveExplained`, `BreakExplained`, `KnownKept`,
  `OthersKnow`).

The remainders that the provers do not know about open `LockFreeQueueProofs`
(`ModDivision`, `ModUnique`, `ModWrap`), and the lemmas about appending to,
shortening and reversing a sequence open `DashboardPageProofs`.

**Only model-checked**: everything about liveness and fairness, which the prover
does not handle (`StopsOrStrands`, `BurstDrains`, `DeliversOrReports`,
`Resubscribes`, `LookupsEnd`, `WalkEnds`); `BackoffInRange`, because what the
recursive function `Doubled` computes takes induction over data, and because the
back-off grows monotonically for the code's numbers but not for all that the
assumptions allow (not for intervals of 9 and 31 in 7 bits); and the three
properties of `Dissection`. These compare a record with a frame whose content is
put together by recursive functions, over chains of extension headers and TCP
options of any length, and with a layout of 52 fields whose offsets are a
recursive sum: what such a function computes for every input takes induction
over data. The run `dissect` checks them for the families of frames of
`MCDissection`, each cut at every byte of its headers.

## 6. Not modelled

- Entropy, byte statistics, the time between packets, the printing of MAC and
  IGMP addresses, vendor names, rendering, search: functions of one packet that
  no other part depends on.
- The texts the dissectors print, beyond which of them was chosen.
- The filter language; a filter may reject any packet.
- `/api/export`, `seenIPs`, the `geo_update` message, the channel a closed
  WebSocket leaves in `clients` until the next write fails.
- TLS handshakes, certificates, sockets' options, command lines, build files.

## 7. Plan

Done, in this order: the queue and its proofs; the pipeline; the history and its
proofs; the frames and their proofs; the feed; the lookups; the pages; the
dissectors with the wire format and the conversions; the loops inside the
dissectors and their proofs; the proofs of the feed, of the pipeline and of the
lookups with the cache; the proofs of the pages, of the hang and of what an exit
leaves behind.

Left, models:

1. The filter of the processor (`main.go:606`) as operators against a reference
   definition, with the `stream:` prefix the page writes and the one the
   dashboard reads.
2. `geo_update` messages to the pages, ordered against the packet they concern;
   the status label of a page; `seenIPs` and its reset.
3. Recency of `LruCache`: what was used last is evicted last.
4. A composition of `FrameStream` and `PacketFeed`: from a byte stream to the
   dashboard, with several capture programs.

Left, proofs:

1. `Dissection`: the clauses that do not depend on how a frame is built, such as
   that the regions handed to the nested dissectors end with the capture.
2. `CapturePipeline` over `LockFreeQueue` in place of `TicketQueue`, from
   `Implements`.
