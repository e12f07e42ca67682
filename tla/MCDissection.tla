---------------------------- MODULE MCDissection ----------------------------
(* Dissection over families of frames: every branch of the dissector, with *)
(* up to two tags, IPv4 options, fragments and chains of extension headers *)
(* (also one of eleven), with payloads on both sides of the smallest the   *)
(* dissectors look at, each cut at every byte of its headers, just         *)
(* behind them, around the 256 bytes RawPacket stores, and not at all.     *)
EXTENDS Dissection

CONSTANTS Noise

Base == [tags |-> 0, etype |-> IPv4, first |-> 69, off |-> 0, exts |-> <<>>, proto |-> 6,
         a |-> 5000, b |-> 6000, words |-> 5, win |-> 9, data |-> 20, body |-> 71, hln |-> 6, noise |-> 0]

Transports ==
  {[Base EXCEPT !.a = 80, !.words = 10], [Base EXCEPT !.b = 4789, !.words = 15],
   [Base EXCEPT !.win = 0, !.data = 0, !.words = 6],
   [Base EXCEPT !.words = 4], [Base EXCEPT !.b = 443, !.body = 83, !.words = 8],
   [Base EXCEPT !.proto = 17, !.b = 53], [Base EXCEPT !.proto = 17, !.a = 68, !.b = 53],
   [Base EXCEPT !.proto = 17, !.a = 68, !.b = 67, !.data = 250],
   [Base EXCEPT !.proto = 17, !.b = 123, !.data = 48, !.body = 3], [Base EXCEPT !.proto = 17],
   [Base EXCEPT !.b = 4789, !.data = 8], [Base EXCEPT !.a = 4789, !.data = 7],
   [Base EXCEPT !.a = 4789, !.b = 80, !.data = 60],
   [Base EXCEPT !.proto = 17, !.a = 123, !.data = 47],
   [Base EXCEPT !.proto = 17, !.a = 123, !.b = 53, !.data = 60]}
  \cup {[Base EXCEPT !.proto = p, !.a = 3, !.b = 1, !.data = 24] : p \in {1, 2, 47, 58, 89}}

Chains == {<<>>, <<<<0, 8>>>>, <<<<44, 8>>>>, <<<<60, 16>>, <<44, 8>>>>, [i \in 1 .. 11 |-> <<43, 8>>]}

Frames4 ==
  {[f EXCEPT !.tags = t, !.first = 64 + w, !.off = o, !.noise = x] :
     f \in Transports, t \in {0, 2}, w \in {4, 5, 6}, o \in {0, 8192, 185}, x \in Noise}
Frames6 ==
  {[f EXCEPT !.tags = t, !.etype = IPv6, !.first = 96, !.exts = e, !.noise = x] :
     f \in Transports, t \in {0, 1}, e \in Chains, x \in Noise}
FramesOther ==
  {[Base EXCEPT !.tags = t, !.etype = y, !.a = m, !.data = 40, !.noise = x] :
     t \in {0, 1, 2}, y \in {ARP, LLDP, 100, 39000}, m \in {0, 1}, x \in Noise}

MCFrames == Frames4 \cup Frames6 \cup FramesOther

MCCuts(f) ==
  LET size == Size(f)
      headers == IF IsIp(f) THEN Payload(f) ELSE L3(f) + 28
  IN  {c \in 0 .. size : c <= headers + 1 \/ c \in {MAX_PAYLOAD_SIZE - 1, MAX_PAYLOAD_SIZE, size}}
=============================================================================
