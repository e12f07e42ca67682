----------------------------- MODULE Dissection -----------------------------
(***************************************************************************)
(* One frame on its way through the capture program and into the packet    *)
(* service: packet_handler keeps a prefix of it, dissect_raw_packet fills  *)
(* a PacketInfo from the prefix layer by layer, the service decodes the    *)
(* record.  One action per layer, and one per turn of the two loops over   *)
(* headers (VLAN tags, IPv6 extension headers).  The dissectors that walk  *)
(* through options and texts are handed a region, kept in calls; the walks *)
(* themselves are in OptionWalk.                                           *)
(***************************************************************************)
EXTENDS NetworkFrames, WireFormat

CONSTANTS
  Frames,      (* frames on the network                                     *)
  Cuts(_)      (* how much of a frame pcap may deliver                      *)

VARIABLES
  pc,      (* the layer that is next                                        *)
  frame,   (* what was on the wire; the code never looks at it              *)
  raw,     (* RawPacket: pkthdr.caplen, pkthdr.len and the stored data      *)
  eth,     (* EthernetInfo                                                  *)
  ip,      (* IpInfo: header_len, protocol; nxt and off of the ext walk     *)
  info,    (* the PacketInfo under construction                             *)
  calls,   (* regions handed to dissectors: <<dissector, offset, length>>   *)
  seen     (* the DashboardPacket of the service                            *)

vars == <<pc, frame, raw, eth, ip, info, calls, seen>>

NoFrame == <<>>

Init ==
  /\ pc = "idle"
  /\ frame = NoFrame /\ raw = NoFrame /\ eth = NoFrame /\ ip = NoFrame
  /\ info = Zeroed /\ calls = {} /\ seen = NoFrame

Least(x, y) == IF x < y THEN x ELSE y

(* A number of the packet.  Outside the stored bytes it is whatever the    *)
(* stack held there.                                                       *)
Read(o, w) == IF <<o, w>> \in DOMAIN raw.data THEN raw.data[<<o, w>>] ELSE frame.noise

caplen == raw.caplen

(* packet_handler, and the worker that pops the packet: info is declared   *)
(* and not initialised.                                                    *)
Capture ==
  /\ pc = "idle"
  /\ \E f \in Frames : \E all \in {Packet(f)}, c \in Cuts(f) :
       LET stored == {k \in DOMAIN all : k[1] + k[2] <= Least(c, MAX_PAYLOAD_SIZE)}
       IN  /\ frame' = f
           /\ raw' = [caplen |-> c, len |-> Size(f), data |-> [k \in stored |-> all[k]]]
           /\ info' = Filled("stack", f.noise)
  /\ pc' = "ethernet"
  /\ UNCHANGED <<eth, ip, calls, seen>>

(* parse_ethernet_layer: too short a frame leaves info as it is, and the   *)
(* worker sends it nevertheless.                                           *)
parse_ethernet_layer ==
  /\ pc = "ethernet"
  /\ IF caplen < 14
     THEN pc' = "send" /\ UNCHANGED eth
     ELSE pc' = "tags" /\ eth' = [header_len |-> 14, ether_type |-> Read(12, 2), vlan_id |-> 0]
  /\ UNCHANGED <<frame, raw, ip, info, calls, seen>>

(* Faulty variant: a tag is taken without looking whether it was captured. *)
MoreTagsUnchecked == eth.ether_type \in {VLAN, QinQ}

MoreTags == eth.ether_type \in {VLAN, QinQ} /\ caplen >= eth.header_len + 4

parse_vlan_tag ==
  /\ pc = "tags"
  /\ MoreTags
  /\ eth' = [header_len |-> eth.header_len + 4,
             vlan_id |-> Read(eth.header_len, 2) % 4096,
             ether_type |-> Read(eth.header_len + 2, 2)]
  /\ UNCHANGED <<pc, frame, raw, ip, info, calls, seen>>

(* memset and the fields of the Ethernet layer, and the branch on the      *)
(* EtherType: a type that no branch knows returns before the payload.  The *)
(* two times of the capture are not modelled and stay zero.                *)
BeginRecord ==
  /\ pc = "tags"
  /\ ~MoreTags
  /\ info' = [Zeroed EXCEPT !["src_mac"] = Read(6, 6), !["dst_mac"] = Read(0, 6),
                            !["l3_offset"] = eth.header_len % 256, !["vlan_id"] = eth.vlan_id,
                            !["wire_len"] = raw.len]
  /\ pc' = CASE eth.ether_type \in {IPv4, IPv6} -> "ip"
             [] eth.ether_type = ARP            -> "arp"
             [] eth.ether_type <= 1500          -> "llc"
             [] eth.ether_type = LLDP           -> "lldp"
             [] OTHER                           -> "send"
  /\ UNCHANGED <<frame, raw, eth, ip, calls, seen>>

(***************************************************************************)
(* IP                                                                      *)
(***************************************************************************)

version == Read(eth.header_len, 1) \div 16

(* nullopt of parse_ip_layer: only the payload is stored. *)
NoIp ==
  /\ pc = "ip"
  /\ \/ caplen < eth.header_len + 1
     \/ version = 4 /\ LET hl == 4 * (Read(eth.header_len, 1) % 16)
                       IN  caplen < eth.header_len + 20 \/ hl < 20 \/ caplen < eth.header_len + hl
     \/ version = 6 /\ caplen < eth.header_len + 40
     \/ version \notin {4, 6}
  /\ pc' = "store"
  /\ UNCHANGED <<frame, raw, eth, ip, info, calls, seen>>

parse_ipv4 ==
  LET e == eth.header_len
      hl == 4 * (Read(e, 1) % 16)
  IN  /\ pc = "ip" /\ caplen >= e + 20 /\ version = 4
      /\ hl >= 20 /\ caplen >= e + hl
      /\ ip' = [header_len |-> hl, protocol |-> Read(e + 9, 1), nxt |-> 0, off |-> 0]
      /\ info' = [info EXCEPT !["src_ip"] = <<0, Read(e + 12, 4)>>, !["dst_ip"] = <<0, Read(e + 16, 4)>>,
                              !["protocol"] = Read(e + 9, 1), !["l4_offset"] = (e + hl) % 256,
                              !["ip_ttl"] = Read(e + 8, 1), !["ip_tos"] = Read(e + 1, 1),
                              !["ip_id"] = Read(e + 4, 2),
                              !["is_fragment"] = IF Read(e + 6, 2) % 2^14 # 0 THEN 1 ELSE 0]
      /\ pc' = "icmp"
      /\ UNCHANGED <<frame, raw, eth, calls, seen>>

parse_ipv6 ==
  LET e == eth.header_len
      flow == Read(e, 4)
  IN  /\ pc = "ip" /\ caplen >= e + 40 /\ version = 6
      /\ ip' = [header_len |-> 40, protocol |-> Read(e + 6, 1),
                nxt |-> Read(e + 6, 1), off |-> info["l3_offset"] + 40]
      /\ info' = [info EXCEPT !["src_ip"] = <<Read(e + 8, 16), Read(e + 8, 16)>>,
                              !["dst_ip"] = <<Read(e + 24, 16), Read(e + 24, 16)>>,
                              !["protocol"] = Read(e + 6, 1), !["l4_offset"] = (e + 40) % 256,
                              !["ip_ttl"] = Read(e + 7, 1), !["ip_tos"] = (flow \div 2^20) % 256,
                              !["is_ipv6"] = 1, !["ipv6_flow"] = flow % 2^20]
      /\ pc' = "ext"
      /\ UNCHANGED <<frame, raw, eth, calls, seen>>

(* The walk over the extension headers.  A fragment header is read without *)
(* a test of the length.                                                   *)
ExtBound == info["ipv6_ext_count"] < 10
Skippable == ip.nxt \in {0, 43, 60} /\ ip.off + 8 <= caplen

ExtHeader ==
  /\ pc = "ext" /\ ExtBound /\ Skippable
  /\ ip' = [ip EXCEPT !.nxt = Read(ip.off, 1), !.off = @ + 8 * (Read(ip.off + 1, 1) + 1)]
  /\ info' = [info EXCEPT !["ipv6_ext_count"] = @ + 1]
  /\ UNCHANGED <<pc, frame, raw, eth, calls, seen>>

FragmentHeader ==
  /\ pc = "ext" /\ ExtBound /\ ip.nxt = 44
  /\ ip' = [ip EXCEPT !.nxt = Read(ip.off, 1), !.off = @ + 8]
  /\ info' = [info EXCEPT !["is_fragment"] = 1, !["ipv6_ext_count"] = @ + 1]
  /\ UNCHANGED <<pc, frame, raw, eth, calls, seen>>

(* Faulty variant: the protocol stays the first next header. *)
ExtEndForgets ==
  /\ pc = "ext" /\ ~(ExtBound /\ (Skippable \/ ip.nxt = 44))
  /\ pc' = "icmp"
  /\ UNCHANGED <<frame, raw, eth, ip, info, calls, seen>>

ExtEnd ==
  /\ pc = "ext" /\ ~(ExtBound /\ (Skippable \/ ip.nxt = 44))
  /\ info' = [info EXCEPT !["protocol"] = ip.nxt]
  /\ pc' = "icmp"
  /\ UNCHANGED <<frame, raw, eth, ip, calls, seen>>

(***************************************************************************)
(* ICMP, read at l4_offset whatever extension headers lie in between.      *)
(***************************************************************************)

dissect_icmp_details(t, c) ==
  CASE t = 3 -> <<"Unreachable", IF c <= 4 THEN c ELSE 5>>
    [] t \in {0, 8, 11} -> <<"ICMP", t>>
    [] OTHER -> <<"ICMP Info", 0>>

check_icmp_unreachable(t, c, text) == IF t = 3 /\ c < 8 THEN <<"ICMP Unreachable", c>> ELSE text

dissect_icmp6_details(t) ==
  IF t \in {1, 2, 3, 128, 129, 133, 134, 135, 136} THEN <<"ICMPv6", t>> ELSE <<"ICMPv6 Info", 0>>

HasIcmp == info["protocol"] \in {1, 58} /\ info["l4_offset"] + 8 <= caplen

DissectIcmp ==
  LET t == Read(info["l4_offset"], 1)
      c == Read(info["l4_offset"] + 1, 1)
  IN  /\ pc = "icmp"
      /\ info' = IF ~HasIcmp THEN info
                 ELSE [info EXCEPT !["icmp_type"] = t, !["icmp_code"] = c,
                         !["extra_info"] = IF info["protocol"] = 1
                                           THEN check_icmp_unreachable(t, c, dissect_icmp_details(t, c))
                                           ELSE dissect_icmp6_details(t)]
      /\ pc' = "transport"
      /\ UNCHANGED <<frame, raw, eth, ip, calls, seen>>

(***************************************************************************)
(* Transport and application                                               *)
(***************************************************************************)

(* Where parse_transport_layer looks, from the protocol of the IP header:  *)
(* not the one that the extension headers led to.                          *)
offset == eth.header_len + ip.header_len
tcp_hlen == 4 * (Read(offset + 12, 1) \div 16)

NoTransport ==
  \/ ip.protocol = 6 /\ (caplen < offset + 20 \/ tcp_hlen < 20 \/ caplen < offset + tcp_hlen)
  \/ ip.protocol = 17 /\ caplen < offset + 8

(* TransportInfo; null stands for a payload_ptr that is not set.           *)
null == -1

EmptyTransport ==
  [src_port |-> 0, dst_port |-> 0, seq |-> 0, ack |-> 0, window |-> 0, flags |-> 0,
   payload_ptr |-> null, payload_len |-> 0]

(* For IPv6 the bytes taken as ip_len are part of the flow label. *)
parse_transport_layer ==
  CASE ip.protocol = 6 ->
         [src_port |-> Read(offset, 2), dst_port |-> Read(offset + 2, 2),
          seq |-> Read(offset + 4, 4), ack |-> Read(offset + 8, 4),
          window |-> Read(offset + 14, 2), flags |-> Read(offset + 13, 1),
          payload_ptr |-> offset + tcp_hlen,
          payload_len |-> Read(eth.header_len + 2, 2) - ip.header_len - tcp_hlen]
    [] ip.protocol = 17 ->
         [EmptyTransport EXCEPT
            !.src_port = Read(offset, 2), !.dst_port = Read(offset + 2, 2),
            !.payload_ptr = offset + 8, !.payload_len = Read(offset + 4, 2) - 8]
    [] OTHER -> EmptyTransport

(* Each dissector returns the record with its text; the smallest region it *)
(* looks at, and the first bytes by which it knows its protocol.           *)
dissect_http(p, l, i) ==
  IF l >= 10 /\ Read(p, 1) \in {71, 80, 68, 72, 79} THEN [i EXCEPT !["extra_info"] = <<"HTTP", l>>] ELSE i

dissect_vxlan(p, l, i) ==
  IF l < 8 THEN i
  ELSE [i EXCEPT !["vxlan_vni"] = Read(p + 4, 3), !["app_layer_info"] = <<"VXLAN", Read(p + 4, 3)>>]

dissect_app_common(p, l, i) ==
  LET b == Read(p, 1)
      text == CASE l < 4 -> "" [] l > 7 /\ b = 83 -> "SSH" [] l > 4 /\ b \in {50, 72, 69} -> "SMTP"
                [] l > 4 /\ b \in {85, 80} -> "FTP" [] l >= 4 /\ b = 255 -> "Telnet"
                [] l > 12 /\ b \div 64 = 2 -> "QUIC" [] OTHER -> ""
  IN  IF text = "" THEN i ELSE [i EXCEPT !["extra_info"] = <<text, l>>]

dissect_ntp(p, l, i) ==
  IF l < 48 THEN i
  ELSE [i EXCEPT !["ntp_mode"] = Read(p, 1) % 8, !["ntp_stratum"] = Read(p + 1, 1),
                 !["app_layer_info"] = <<"NTP", Read(p + 1, 1)>>]

(* Appends the same mode and stratum a second time. *)
dissect_ntp_core(p, l, i) ==
  IF l < 48 THEN i ELSE [i EXCEPT !["app_layer_info"] = <<"NTP twice", Read(p + 1, 1)>>]

dissect_ospf(p, l, i) ==
  IF l >= 24 /\ Read(p + 1, 1) \in 1 .. 5 THEN [i EXCEPT !["extra_info"] = <<"OSPF", Read(p + 1, 1)>>] ELSE i

dissect_gre(p, l, i) == IF l < 4 THEN i ELSE [i EXCEPT !["extra_info"] = <<"GRE", Read(p + 2, 2)>>]

dissect_igmp(p, l, i) ==
  IF l < 8 THEN i
  ELSE [i EXCEPT !["igmp_type"] = Read(p, 1), !["igmp_group"] = Read(p + 4, 4),
                 !["extra_info"] = <<"IGMP", Read(p, 1)>>]

(* The second test can never hold: payload_len is still 0, and tcp_seq is  *)
(* t.seq itself.                                                           *)
check_tcp_anomalies(i, t) ==
  LET ack == (t.flags \div 16) % 2 = 1
      synFinRst == t.flags % 8 # 0
  IN  IF t.window = 0 /\ ack /\ ~synFinRst
      THEN [i EXCEPT !["extra_info"] = <<"TCP ZeroWindow", 0>>]
      ELSE IF i["payload_len"] = 1 /\ t.seq + 1 = i["tcp_seq"] /\ ~synFinRst
      THEN [i EXCEPT !["extra_info"] = <<"TCP Keep-Alive", 0>>]
      ELSE i

(* The options that the walk comes to; of two of one kind the later counts. *)
TcpOptions(p, len) ==
  LET from[k \in 0 .. len] ==
        LET l == Read(p + k + 1, 1)
        IN  CASE k >= len \/ (k < len /\ Read(p + k, 1) = 0) -> {}
              [] k < len /\ Read(p + k, 1) = 1 -> from[k + 1]
              [] OTHER -> IF k + 1 >= len \/ l < 2 \/ k + l > len THEN {} ELSE {k} \cup from[k + l]
  IN  from[0]

parse_tcp_options_extended(o, h, i) ==
  LET opts == o + 20
      visited == TcpOptions(opts, h - 20)
      Of(kind, lens) == {k \in visited : Read(opts + k, 1) = kind /\ Read(opts + k + 1, 1) \in lens}
      Last(ks, d, w, old) == IF ks = {} THEN old ELSE Read(opts + Max(ks) + d, w)
      sack == Of(5, 10 .. 255)
      blocks == Least((Read(opts + Max(sack) + 1, 1) - 2) \div 8, 4)
  IN  IF h <= 20 THEN i
      ELSE [i EXCEPT !["tcp_mss"] = Last(Of(2, {4}), 2, 2, @), !["tcp_ws"] = Last(Of(3, {3}), 2, 1, @),
                     !["tcp_sack"] = IF Of(4, {2}) # {} THEN 1 ELSE @,
                     !["tcp_sack_edges"] = IF sack = {} THEN @ ELSE Read(opts + Max(sack) + 2, 8 * blocks),
                     !["tcp_ts_val"] = Last(Of(8, {10}), 2, 4, @), !["tcp_ts_ecr"] = Last(Of(8, {10}), 6, 4, @),
                     !["has_tcp_ao"] = IF Of(29, 2 .. 255) # {} THEN 1 ELSE @]

dissect_dns(p, l, i) ==
  IF l > 13 /\ Read(p + 12, 1) \in 1 .. 63 THEN [i EXCEPT !["dns_query"] = <<"name", l>>] ELSE i

(* The magic number lies behind the bytes that RawPacket stores. *)
dissect_dhcp(p, l, i) ==
  IF l >= 240 /\ Read(p + 236, 4) = Magic THEN [i EXCEPT !["extra_info"] = <<"DHCP", l>>] ELSE i

(* nullopt of parse_transport_layer: only the payload is stored. *)
TransportCut ==
  /\ pc = "transport" /\ NoTransport
  /\ pc' = "store"
  /\ UNCHANGED <<frame, raw, eth, ip, info, calls, seen>>

WithPorts(t) == [info EXCEPT !["src_port"] = t.src_port, !["dst_port"] = t.dst_port]

(* dissect_tls_sni is not called: tls_sni is empty since the memset. *)
DissectTcp ==
  LET t == parse_transport_layer
      ports == {t.src_port, t.dst_port}
      o == info["l3_offset"] + ip.header_len
      h == IF t.payload_ptr # null THEN t.payload_ptr - o ELSE 20
      tcp == [WithPorts(t) EXCEPT !["tcp_flags"] = t.flags, !["tcp_seq"] = t.seq,
                                  !["tcp_ack"] = t.ack, !["tcp_win"] = t.window]
      checked == check_tcp_anomalies(parse_tcp_options_extended(o, h, tcp), t)
      app == CASE t.payload_ptr = null \/ t.payload_len <= 0 -> "none"
               [] 80 \in ports -> "http"
               [] 4789 \in ports /\ 80 \notin ports -> "vxlan"
               [] OTHER -> "app_common"
  IN  /\ pc = "transport" /\ ~NoTransport /\ info["protocol"] = 6
      /\ info' = CASE app = "none"       -> checked
                   [] app = "http"       -> dissect_http(t.payload_ptr, t.payload_len, checked)
                   [] app = "vxlan"      -> dissect_vxlan(t.payload_ptr, t.payload_len, checked)
                   [] app = "app_common" -> dissect_app_common(t.payload_ptr, t.payload_len, checked)
      /\ calls' = {c \in {<<"options", o + 20, h - 20>>, <<app, t.payload_ptr, t.payload_len>>} :
                     c[1] # "none" /\ c[3] > 0}
      /\ pc' = "store"
      /\ UNCHANGED <<frame, raw, eth, ip, seen>>

DissectUdp ==
  LET t == parse_transport_layer
      ports == {t.src_port, t.dst_port}
      p == t.payload_ptr
      l == t.payload_len
      app == CASE 53 \in ports /\ p # null -> "dns"
               [] ports \cap {67, 68} # {} /\ ~(53 \in ports /\ p # null) -> "dhcp"
               [] 123 \in ports /\ ports \cap {53, 67, 68} = {} -> "ntp"
               [] OTHER -> "none"
  IN  /\ pc = "transport" /\ ~NoTransport /\ info["protocol"] = 17
      /\ info' = CASE app = "dns"  -> dissect_dns(p, l, WithPorts(t))
                   [] app = "dhcp" -> dissect_dhcp(p, l, WithPorts(t))
                   [] app = "ntp"  -> dissect_ntp_core(p, l, dissect_ntp(p, l, WithPorts(t)))
                   [] app = "none" -> WithPorts(t)
      /\ calls' = {c \in {<<app, p, l>>} : app # "none"}
      /\ pc' = "store"
      /\ UNCHANGED <<frame, raw, eth, ip, seen>>

(* OSPF, GRE and IGMP get everything from l4_offset on. *)
DissectOther ==
  LET t == parse_transport_layer
      p == info["l4_offset"]
      l == caplen - p
      proto == info["protocol"]
  IN  /\ pc = "transport" /\ ~NoTransport /\ proto \notin {6, 17}
      /\ info' = CASE proto = 89 -> dissect_ospf(p, l, WithPorts(t))
                   [] proto = 47 -> dissect_gre(p, l, WithPorts(t))
                   [] proto = 2  -> dissect_igmp(p, l, WithPorts(t))
                   [] OTHER      -> WithPorts(t)
      /\ calls' = {c \in {<<"l4", p, l>>} : proto \in {89, 47, 2}}
      /\ pc' = "store"
      /\ UNCHANGED <<frame, raw, eth, ip, seen>>

(***************************************************************************)
(* The other layers                                                        *)
(***************************************************************************)

(* The addresses are copied from 8 + 2 * hln and 12 + 3 * hln, one         *)
(* hardware address behind the protocol addresses.                         *)
DissectArp ==
  LET e == eth.header_len
      hln == Read(e + 4, 1)
      p == e + 8 + 2 * hln
      known == caplen >= e + 28 /\ Read(e + 2, 2) = IPv4 /\ Read(e + 5, 1) = 4
      arp == [info EXCEPT !["protocol"] = 200]
  IN  /\ pc = "arp"
      /\ info' = IF known THEN [arp EXCEPT !["src_ip"] = <<0, Read(p, 4)>>,
                                           !["dst_ip"] = <<0, Read(p + 4 + hln, 4)>>]
                 ELSE arp
      /\ pc' = "store"
      /\ UNCHANGED <<frame, raw, eth, ip, calls, seen>>

dissect_stp(p, l, i) ==
  IF l < 35 THEN i
  ELSE [i EXCEPT !["extra_info"] = <<"STP", IF Read(p + 4, 1) \in {0, 128} THEN Read(p + 4, 1) ELSE 1>>]

DissectLlc ==
  LET stp == Read(0, 6) = StpMac
      e == eth.header_len
  IN  /\ pc = "llc"
      /\ info' = IF stp THEN dissect_stp(e, caplen - e, [info EXCEPT !["protocol"] = 202]) ELSE info
      /\ calls' = {c \in {<<"l3", e, caplen - e>>} : stp}
      /\ pc' = "store"
      /\ UNCHANGED <<frame, raw, eth, ip, seen>>

DissectLldp ==
  /\ pc = "lldp"
  /\ info' = [info EXCEPT !["app_layer_info"] = <<"LLDP", 0>>]
  /\ calls' = {<<"l3", eth.header_len, caplen - eth.header_len>>}
  /\ pc' = "store"
  /\ UNCHANGED <<frame, raw, eth, ip, seen>>

(* The payload is a prefix of the frame itself; here, its length. *)
StorePayload ==
  /\ pc = "store"
  /\ info' = [info EXCEPT !["payload_len"] = Least(caplen, MAX_PAYLOAD_SIZE),
                          !["payload"] = Least(caplen, MAX_PAYLOAD_SIZE)]
  /\ pc' = "send"
  /\ UNCHANGED <<frame, raw, eth, ip, calls, seen>>

(* The record goes through the queue, the sender and the stream untouched  *)
(* (CapturePipeline, FrameStream), and the service decodes it.             *)
Decode ==
  /\ pc = "send"
  /\ seen' = DashboardPacket(info)
  /\ pc' = "seen"
  /\ UNCHANGED <<frame, raw, eth, ip, info, calls>>

NextPacket ==
  /\ pc = "seen"
  /\ pc' = "idle"
  /\ frame' = NoFrame /\ raw' = NoFrame /\ eth' = NoFrame /\ ip' = NoFrame
  /\ info' = Zeroed /\ calls' = {} /\ seen' = NoFrame

Next ==
  \/ Capture \/ parse_ethernet_layer \/ parse_vlan_tag \/ BeginRecord
  \/ NoIp \/ parse_ipv4 \/ parse_ipv6 \/ ExtHeader \/ FragmentHeader \/ ExtEnd
  \/ DissectIcmp \/ TransportCut \/ DissectTcp \/ DissectUdp \/ DissectOther
  \/ DissectArp \/ DissectLlc \/ DissectLldp
  \/ StorePayload \/ Decode \/ NextPacket

Spec == Init /\ [][Next]_vars

(***************************************************************************)
(* Properties                                                              *)
(***************************************************************************)

(* What a record of the whole frame should say, layer by layer.  l4_offset *)
(* is the end of the IP header, of the fixed one in IPv6.                  *)
IpTruth(f) ==
  [src_ip |-> IF IsV6(f) THEN <<Src, Src>> ELSE <<0, Src>>,
   dst_ip |-> IF IsV6(f) THEN <<Dst, Dst>> ELSE <<0, Dst>>,
   protocol |-> f.proto, l4_offset |-> L3(f) + IpHeader(f), ip_ttl |-> Ttl, ip_tos |-> Tos,
   ip_id |-> IF IsV6(f) THEN 0 ELSE Ident, is_ipv6 |-> IF IsV6(f) THEN 1 ELSE 0,
   is_fragment |-> IF f.off % 2^14 # 0 \/ \E i \in DOMAIN f.exts : f.exts[i][1] = 44 THEN 1 ELSE 0,
   ipv6_ext_count |-> Len(f.exts), ipv6_flow |-> IF IsV6(f) THEN Label ELSE 0]

OptionTruth(f) ==
  LET has(kind) == \E i \in DOMAIN Options(f) : Options(f)[i][1] = kind
      value(kind, x) == IF has(kind) THEN x ELSE 0
  IN  [tcp_mss |-> value(2, Mss), tcp_ws |-> value(3, Ws), tcp_sack |-> value(4, 1), tcp_sack_edges |-> value(5, Edges),
       tcp_ts_val |-> value(8, TsVal), tcp_ts_ecr |-> value(8, TsEcr), has_tcp_ao |-> value(29, 1)]

(* The numbers of the applications, by port: VXLAN, which is looked for in *)
(* TCP, and NTP.                                                           *)
AppTruth(f) ==
  LET ports == {f.a, f.b}
  IN  CASE f.proto = 6 /\ 4789 \in ports /\ 80 \notin ports /\ f.data >= 8 -> [vxlan_vni |-> Vni]
        [] f.proto = 17 /\ 123 \in ports /\ ports \cap {53, 67, 68} = {} /\ f.data >= 48 ->
             [ntp_mode |-> f.body % 8, ntp_stratum |-> f.body]
        [] OTHER -> <<>>

(* Behind an extension header no ports, no TCP header and no application   *)
(* are looked for: their numbers stay zero.                                *)
TransportTruth(f) ==
  CASE f.exts # <<>> -> <<>>
    [] f.exts = <<>> /\ f.proto = 6 ->
         [src_port |-> f.a, dst_port |-> f.b, tcp_seq |-> Seq32, tcp_ack |-> Ack32,
          tcp_flags |-> 16, tcp_win |-> f.win] @@ OptionTruth(f) @@ AppTruth(f)
    [] f.exts = <<>> /\ f.proto = 17 -> [src_port |-> f.a, dst_port |-> f.b] @@ AppTruth(f)
    [] f.exts = <<>> /\ f.proto \in {1, 58} -> [icmp_type |-> f.a, icmp_code |-> f.b]
    [] f.exts = <<>> /\ f.proto = 2 -> [igmp_type |-> f.a, igmp_group |-> Group]
    [] OTHER -> <<>>

Truth(f) ==
  [src_mac |-> SrcMac, dst_mac |-> MacOf(f), l3_offset |-> L3(f), wire_len |-> Size(f),
   vlan_id |-> IF f.tags = 0 THEN 0 ELSE Tag(f.tags - 1), payload_len |-> Size(f)]
  @@ (CASE IsIp(f) -> IpTruth(f) @@ TransportTruth(f)
        [] f.etype = ARP -> [protocol |-> 200]
        [] f.etype <= 1500 /\ MacOf(f) = StpMac -> [protocol |-> 202]
        [] OTHER -> <<>>)
  @@ Zeroed

PortFields ==
  {"src_port", "dst_port", "tcp_seq", "tcp_ack", "tcp_flags", "tcp_win", "tcp_mss", "tcp_ws",
   "tcp_sack", "tcp_sack_edges", "tcp_ts_val", "tcp_ts_ecr", "has_tcp_ao"}
MessageFields == {"icmp_type", "icmp_code", "igmp_type", "igmp_group"}
AppFields == {"vxlan_vni", "ntp_mode", "ntp_stratum"}
NumberFields == Fields \ (Texts \cup {"payload", "pad", "final_pad"})

(* The transport header follows the IP header. *)
Plain(f) == f.exts = <<>> /\ ~LaterFragment(f)

Whole == raw.caplen = raw.len /\ raw.len <= MAX_PAYLOAD_SIZE

(* A fragment header that was not captured is read all the same. *)
FragmentCut(f) ==
  \E i \in DOMAIN f.exts : f.exts[i][1] = 44 /\ ExtStart(f, i) >= Least(caplen, MAX_PAYLOAD_SIZE)

(* The numbers nothing is promised of: all behind the IP header of a later *)
(* fragment, whose data is read as a transport header; those of ICMP and   *)
(* IGMP behind an extension header, which is read in their place; those of *)
(* an application whose payload was cut short; the VXLAN number in TCP     *)
(* over IPv6, where the payload length comes from the flow label; the      *)
(* addresses of ARP.                                                       *)
Unpromised(f) == UNION
  {IF LaterFragment(f) THEN PortFields \cup MessageFields \cup AppFields ELSE {},
   IF f.exts # <<>> THEN MessageFields ELSE {},
   IF Whole THEN {} ELSE AppFields,
   IF IsV6(f) /\ f.proto = 6 THEN {"vxlan_vni"} ELSE {},
   IF f.etype = ARP THEN Addresses ELSE {}}

Possible(f, truth, n) ==
  {Zeroed[n], truth[n]} \cup
  CASE n = "vlan_id"        -> {Tag(i) : i \in 0 .. f.tags - 1}
    [] n = "l3_offset"      -> {14 + 4 * i : i \in 0 .. f.tags}
    [] n = "ipv6_ext_count" -> 0 .. Len(f.exts)
    [] n = "protocol"       -> {f.exts[i][1] : i \in DOMAIN f.exts}
    [] n = "payload_len"    -> {Least(caplen, MAX_PAYLOAD_SIZE)}
    [] OTHER                -> {}

(* Where the region of a call belongs. *)
StartOf(f, c) == CASE c[1] = "options" -> L4(f) + 20 [] c[1] = "l4" -> L4(f) [] c[1] = "l3" -> L3(f)
                   [] OTHER -> Payload(f)
EndOf(f, c)   == CASE c[1] = "options" -> Payload(f) [] OTHER -> Size(f)

(* However much of a frame pcap delivers, dissect_raw_packet puts nothing  *)
(* in the record that the frame does not say: a number is left at zero or  *)
(* is the one of the frame, taken from the right header, and every nested  *)
(* dissector starts at the right byte, with the options and the regions    *)
(* that end with the capture inside the captured bytes.  Excepted are a    *)
(* frame shorter than its Ethernet header, a fragment header that was not  *)
(* captured (FragmentCut), the numbers in Unpromised, and the regions      *)
(* behind extension headers and in later fragments (Plain).                *)
NothingInvented ==
  pc = "send" /\ caplen >= 14 /\ ~(IsIp(frame) /\ FragmentCut(frame)) =>
    /\ LET truth == Truth(frame)
       IN  \A n \in NumberFields \ Unpromised(frame) : info[n] \in Possible(frame, truth, n)
    /\ Plain(frame) => \A c \in calls :
         /\ c[2] = StartOf(frame, c)
         /\ c[1] \in {"options", "l4", "l3"} => c[2] + c[3] <= caplen

Sound(f) ==
  /\ IsIp(f) => f.first \div 16 \in {4, 6} /\ IpHeader(f) >= 20 /\ Len(f.exts) <= 10
  /\ IsIp(f) /\ f.proto = 6 /\ ~LaterFragment(f) => f.words >= 5
  /\ f.etype \in {IPv4, IPv6, ARP, LLDP} \/ f.etype <= 1500

(* A well-formed frame that is captured whole and fits in RawPacket is     *)
(* described completely, behind any stack of tags, with or without IPv4    *)
(* options: every number of its Ethernet, IP, transport and application    *)
(* layers is the one of the frame, or zero when the frame does not have    *)
(* it, and every nested dissector gets its part of the frame from the      *)
(* first to the last byte.  Behind up to ten extension headers that is so  *)
(* of the Ethernet and IP layers and of the protocol the chain ends in;    *)
(* the ports, the TCP header and the application are left at zero.         *)
(* Excepted are the numbers in Unpromised and, for the last byte, the      *)
(* regions behind extension headers and in later fragments (Plain) and the *)
(* payload of TCP over IPv6.                                               *)
RecordComplete ==
  pc = "send" /\ Whole /\ Sound(frame) =>
    /\ LET truth == Truth(frame)
       IN  \A n \in NumberFields \ Unpromised(frame) : info[n] = truth[n]
    /\ Plain(frame) => \A c \in calls :
         c[1] \in {"options", "l4", "l3"} \/ ~(IsV6(frame) /\ frame.proto = 6) =>
           c[2] + c[3] = EndOf(frame, c)

(* The service shows what the capture program recorded: every field of the *)
(* struct is read from its own bytes, the addresses of an IP packet are    *)
(* printed from the bytes the dissector wrote, and the protocol name is    *)
(* that of the dissector that ran (a UDP packet between port 53 and a DHCP *)
(* port aside, where the two sides test the ports in opposite orders).     *)
ServiceSeesRecord ==
  pc = "seen" =>
    /\ \A n \in Fields \ {"pad", "final_pad"} : n \in DOMAIN seen
    /\ \A n \in NumberFields \ (Addresses \cup Flags \cup {"protocol"}) : seen[n] = info[n]
    /\ \A n \in Flags : seen[n] <=> info[n] # 0
    /\ caplen >= 14 => seen["payload"] = info["payload_len"]
    /\ info["ip_ttl"] = Ttl /\ caplen >= 14 =>
         seen["src_ip"] = (IF IsV6(frame) THEN <<Src, Src>> ELSE <<Src>>)
    /\ \A c \in calls :
         /\ c[1] = "http" => seen["protocol"] = "HTTP"
         /\ c[1] = "dhcp" => seen["protocol"] = "DHCP"
         /\ c[1] = "dns" => seen["protocol"] = "DNS" \/ {info["src_port"], info["dst_port"]} \cap {67, 68} # {}

(* An ARP packet that is captured whole is recorded with the protocol      *)
(* addresses it carries.                                                   *)
ArpAddresses ==
  pc = "send" /\ Whole /\ frame.etype = ARP =>
    info["src_ip"] = <<0, Src>> /\ info["dst_ip"] = <<0, Dst>>
=============================================================================
