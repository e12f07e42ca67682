--------------------------- MODULE NetworkFrames ---------------------------
(***************************************************************************)
(* Frames as they are on the wire, the input of the dissectors.  A frame   *)
(* is described by a record, and Packet gives its content as a function    *)
(* from <<offset, width>> to the number that stands there, for the fields  *)
(* the program looks at.  What is read anywhere else, or at another width, *)
(* is frame.noise.                                                         *)
(*                                                                         *)
(*   tags    number of VLAN tags          etype  EtherType after the tags  *)
(*   first   first byte after Ethernet: version and header words of IPv4   *)
(*   off     flags and fragment offset of IPv4                             *)
(*   exts    IPv6 extension headers, each <<its type, its bytes>>          *)
(*   proto   protocol of the transport    a, b   ports, or type and code   *)
(*   words   header words of TCP          win    window of TCP             *)
(*   data    bytes after the last header  body   first byte of them        *)
(*   hln     bytes of a hardware address in ARP                            *)
(***************************************************************************)
EXTENDS Integers, Sequences, TLC

IPv4 == 2048
ARP  == 2054
IPv6 == 34525
VLAN == 33024
QinQ == 34984
LLDP == 35020

StpMac == 1
HostMac == 2
MacOf(f) == IF f.etype <= 1500 /\ f.a = 0 THEN StpMac ELSE HostMac

Src == 1001
Dst == 1002
Seq32 == 1003
Ack32 == 1004
Group == 1005
Vni == 1006
Ident == 1007
Mss == 1009
Magic == 1010
Ws == 11
Edges == 1012
TsVal == 1013
TsEcr == 1014
SrcMac == 1008
Ttl == 64
Tos == 7
Label == 9
Tag(i) == 100 + i

L3(f) == 14 + 4 * f.tags
IsIp(f) == f.etype \in {IPv4, IPv6}
IsV6(f) == f.first \div 16 = 6
IpHeader(f) == IF IsV6(f) THEN 40 ELSE 4 * (f.first % 16)
ExtStart(f, i) ==
  LET at[k \in 1 .. Len(f.exts) + 1] ==
        IF k = 1 THEN L3(f) + 40 ELSE at[k - 1] + f.exts[k - 1][2]
  IN  at[i]
L4(f) == IF IsV6(f) THEN ExtStart(f, Len(f.exts) + 1) ELSE L3(f) + IpHeader(f)

(* The TCP options that fill a header of f.words words: kind and bytes. *)
Options(f) ==
  CASE f.words = 6  -> <<<<2, 4>>>>
    [] f.words = 8  -> <<<<1, 1>>, <<1, 1>>, <<5, 10>>>>
    [] f.words = 10 -> <<<<2, 4>>, <<4, 2>>, <<8, 10>>, <<1, 1>>, <<3, 3>>>>
    [] f.words = 15 -> <<<<29, 20>>, <<5, 18>>, <<0, 1>>>>
    [] OTHER        -> <<>>

TransportHeader(f) == CASE f.proto = 6 -> 4 * f.words [] f.proto = 17 -> 8 [] OTHER -> 0
Payload(f) == L4(f) + TransportHeader(f)
LaterFragment(f) == ~IsV6(f) /\ f.off % 8192 # 0

Size(f) ==
  CASE IsIp(f)       -> Payload(f) + f.data
    [] f.etype = ARP -> L3(f) + 16 + 2 * f.hln
    [] OTHER         -> L3(f) + f.data

(* The content of a header, shifted to where the header is. *)
At(base, content) ==
  [k \in {<<base + j[1], j[2]>> : j \in DOMAIN content} |-> content[<<k[1] - base, k[2]>>]]

EthernetPart(f) ==
  (<<0, 6>> :> MacOf(f)) @@ (<<6, 6>> :> SrcMac) @@ (<<L3(f) - 2, 2>> :> f.etype)
  @@ [k \in {<<12 + 4 * i, 2>> : i \in 0 .. f.tags - 1} |-> IF k[1] < L3(f) - 6 THEN QinQ ELSE VLAN]
  @@ [k \in {<<14 + 4 * i, 2>> : i \in 0 .. f.tags - 1} |-> 8192 + Tag((k[1] - 14) \div 4)]

NextAfter(f, i) == IF i < Len(f.exts) THEN f.exts[i + 1][1] ELSE f.proto

IpPart(f) ==
  IF IsV6(f)
  THEN At(L3(f), (<<0, 1>> :> f.first) @@ (<<0, 4>> :> 6 * 2^28 + Tos * 2^20 + Label)
                 @@ (<<6, 1>> :> NextAfter(f, 0)) @@ (<<7, 1>> :> Ttl)
                 @@ (<<8, 16>> :> Src) @@ (<<24, 16>> :> Dst))
       @@ [k \in {<<ExtStart(f, i), 1>> : i \in DOMAIN f.exts} |->
             NextAfter(f, CHOOSE i \in DOMAIN f.exts : ExtStart(f, i) = k[1])]
       @@ [k \in {<<ExtStart(f, i) + 1, 1>> : i \in DOMAIN f.exts} |->
             LET i == CHOOSE i \in DOMAIN f.exts : ExtStart(f, i) + 1 = k[1]
             IN  f.exts[i][2] \div 8 - 1]
  ELSE At(L3(f), (<<0, 1>> :> f.first) @@ (<<1, 1>> :> Tos) @@ (<<2, 2>> :> Size(f) - L3(f))
                 @@ (<<4, 2>> :> Ident) @@ (<<6, 2>> :> f.off) @@ (<<8, 1>> :> Ttl)
                 @@ (<<9, 1>> :> f.proto) @@ (<<12, 4>> :> Src) @@ (<<16, 4>> :> Dst))

OptionStart(f, i) ==
  LET at[k \in 1 .. i] == IF k = 1 THEN 20 ELSE at[k - 1] + Options(f)[k - 1][2]
  IN  at[i]

OptionPart(f) ==
  LET value(o) == CASE o[1] = 2 -> <<2, 2>> :> Mss [] o[1] = 3 -> <<2, 1>> :> Ws
                    [] o[1] = 5 -> <<2, o[2] - 2>> :> Edges
                    [] o[1] = 8 -> (<<2, 4>> :> TsVal) @@ (<<6, 4>> :> TsEcr)
                    [] OTHER    -> <<>>
      option(o) == (<<0, 1>> :> o[1]) @@ (IF o[2] > 1 THEN <<1, 1>> :> o[2] ELSE <<>>) @@ value(o)
      first[i \in 0 .. Len(Options(f))] ==
        IF i = 0 THEN <<>> ELSE first[i - 1] @@ At(OptionStart(f, i), option(Options(f)[i]))
  IN  first[Len(Options(f))]

TransportPart(f) ==
  CASE f.proto = 6 ->
         At(L4(f), (<<0, 2>> :> f.a) @@ (<<2, 2>> :> f.b) @@ (<<4, 4>> :> Seq32) @@ (<<8, 4>> :> Ack32)
                   @@ (<<12, 1>> :> 16 * f.words) @@ (<<13, 1>> :> 16) @@ (<<14, 2>> :> f.win)
                   @@ OptionPart(f))
    [] f.proto = 17 ->
         At(L4(f), (<<0, 2>> :> f.a) @@ (<<2, 2>> :> f.b) @@ (<<4, 2>> :> 8 + f.data))
    [] OTHER ->
         At(L4(f), (<<0, 1>> :> f.a) @@ (<<1, 1>> :> f.b) @@ (<<4, 4>> :> Group))

PayloadPart(f) ==
  IF f.proto \in {6, 17}
  THEN At(Payload(f), (<<0, 1>> :> f.body) @@ (<<1, 1>> :> f.body) @@ (<<4, 3>> :> Vni)
                        @@ (<<12, 1>> :> 5) @@ (<<236, 4>> :> Magic))
  ELSE <<>>

ArpPart(f) ==
  At(L3(f), (<<2, 2>> :> IPv4) @@ (<<4, 1>> :> f.hln) @@ (<<5, 1>> :> 4)
            @@ (<<8 + f.hln, 4>> :> Src) @@ (<<12 + 2 * f.hln, 4>> :> Dst))

Packet(f) ==
  EthernetPart(f) @@
  CASE IsIp(f) /\ LaterFragment(f) -> IpPart(f)
    [] IsIp(f) /\ ~LaterFragment(f) -> IpPart(f) @@ TransportPart(f) @@ PayloadPart(f)
    [] f.etype = ARP -> ArpPart(f)
    [] OTHER -> <<>>
=============================================================================
