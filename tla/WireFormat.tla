----------------------------- MODULE WireFormat -----------------------------
(***************************************************************************)
(* The record the capture program sends: the packed struct PacketInfo as a *)
(* sequence of fields with their sizes in bytes, the calls with which      *)
(* handle_cpp_connection takes the same bytes apart, and the conversions   *)
(* of model.rs.  Only the two orders and the sizes tie one to the other.   *)
(***************************************************************************)
EXTENDS Integers, Sequences, FiniteSetsExt

MAX_PAYLOAD_SIZE == 256

PacketInfo == <<
  <<"timestamp", 8>>, <<"src_ip", 16>>, <<"dst_ip", 16>>, <<"src_port", 2>>,
  <<"dst_port", 2>>, <<"protocol", 1>>, <<"has_tcp_ao", 1>>, <<"tcp_flags", 1>>,
  <<"l3_offset", 1>>, <<"l4_offset", 1>>, <<"tcp_seq", 4>>, <<"tcp_ack", 4>>,
  <<"icmp_type", 1>>, <<"icmp_code", 1>>, <<"delta_time", 4>>, <<"vlan_id", 2>>,
  <<"ip_ttl", 1>>, <<"ip_tos", 1>>, <<"tcp_win", 2>>, <<"ip_id", 2>>,
  <<"is_ipv6", 1>>, <<"is_fragment", 1>>, <<"tcp_mss", 2>>, <<"tcp_ws", 1>>,
  <<"ipv6_ext_count", 1>>, <<"ipv6_flow", 4>>, <<"wire_len", 4>>,
  <<"tcp_ts_val", 4>>, <<"tcp_ts_ecr", 4>>, <<"tcp_sack", 1>>, <<"tcp_rtt", 4>>,
  <<"vxlan_vni", 4>>, <<"entropy_scaled", 4>>, <<"ntp_stratum", 1>>,
  <<"ntp_mode", 1>>, <<"igmp_type", 1>>, <<"igmp_group", 4>>,
  <<"lldp_chassis", 32>>, <<"lldp_port", 32>>, <<"tcp_sack_edges", 32>>,
  <<"top_byte", 1>>, <<"top_byte_freq", 1>>, <<"pad", 151>>, <<"payload_len", 2>>,
  <<"src_mac", 6>>, <<"dst_mac", 6>>, <<"dns_query", 64>>, <<"tls_sni", 64>>,
  <<"extra_info", 128>>, <<"app_layer_info", 128>>,
  <<"payload", MAX_PAYLOAD_SIZE>>, <<"final_pad", 8>> >>

(* The get, copy_to_slice and advance calls of the service in their order; *)
(* an advance reads into "".                                               *)
Reads == <<
  <<"timestamp", 8>>, <<"src_ip", 16>>, <<"dst_ip", 16>>, <<"src_port", 2>>,
  <<"dst_port", 2>>, <<"protocol", 1>>, <<"has_tcp_ao", 1>>, <<"tcp_flags", 1>>,
  <<"l3_offset", 1>>, <<"l4_offset", 1>>, <<"tcp_seq", 4>>, <<"tcp_ack", 4>>,
  <<"icmp_type", 1>>, <<"icmp_code", 1>>, <<"delta_time", 4>>, <<"vlan_id", 2>>,
  <<"ip_ttl", 1>>, <<"ip_tos", 1>>, <<"tcp_win", 2>>, <<"ip_id", 2>>,
  <<"is_ipv6", 1>>, <<"is_fragment", 1>>, <<"tcp_mss", 2>>, <<"tcp_ws", 1>>,
  <<"ipv6_ext_count", 1>>, <<"ipv6_flow", 4>>, <<"wire_len", 4>>,
  <<"tcp_ts_val", 4>>, <<"tcp_ts_ecr", 4>>, <<"tcp_sack", 1>>, <<"tcp_rtt", 4>>,
  <<"vxlan_vni", 4>>, <<"entropy_scaled", 4>>, <<"ntp_stratum", 1>>,
  <<"ntp_mode", 1>>, <<"igmp_type", 1>>, <<"igmp_group", 4>>,
  <<"lldp_chassis", 32>>, <<"lldp_port", 32>>, <<"tcp_sack_edges", 8 * 4>>,
  <<"top_byte", 1>>, <<"top_byte_freq", 1>>, <<"", 151>>, <<"payload_len", 2>>,
  <<"src_mac", 6>>, <<"dst_mac", 6>>, <<"dns_query", 64>>, <<"tls_sni", 64>>,
  <<"extra_info", 128>>, <<"app_layer_info", 128>>, <<"payload", 256>>, <<"", 8>> >>

(* The byte at which the i-th field starts. *)
Start(fields, i) ==
  LET sum[k \in 0 .. Len(fields)] == IF k = 0 THEN 0 ELSE sum[k - 1] + fields[k][2]
  IN  sum[i - 1]

ASSUME StaticAssert == Start(PacketInfo, Len(PacketInfo) + 1) = 1024

Fields == {PacketInfo[i][1] : i \in DOMAIN PacketInfo}
ReadFields == {Reads[i][1] : i \in DOMAIN Reads} \ {""}

(* The fields of the struct whose bytes a read of the service returns:     *)
(* itself alone, as long as the two sides agree.                           *)
SourceOf ==
  [n \in ReadFields |->
     {PacketInfo[j][1] : j \in {j \in DOMAIN PacketInfo : \E i \in DOMAIN Reads :
        /\ Reads[i] = <<n, PacketInfo[j][2]>>
        /\ Start(Reads, i) = Start(PacketInfo, j)}}]

(***************************************************************************)
(* Values.  A text is a pair of a name and a number, an address the pair   *)
(* of its first twelve and its last four bytes, the rest are numbers.      *)
(***************************************************************************)
Texts == {"dns_query", "tls_sni", "extra_info", "app_layer_info", "lldp_chassis", "lldp_port"}
Addresses == {"src_ip", "dst_ip"}

Filled(text, x) ==
  [timestamp |-> x, src_ip |-> <<x, x>>, dst_ip |-> <<x, x>>, src_port |-> x,
   dst_port |-> x, protocol |-> x, has_tcp_ao |-> x, tcp_flags |-> x,
   l3_offset |-> x, l4_offset |-> x, tcp_seq |-> x, tcp_ack |-> x, icmp_type |-> x,
   icmp_code |-> x, delta_time |-> x, vlan_id |-> x, ip_ttl |-> x, ip_tos |-> x,
   tcp_win |-> x, ip_id |-> x, is_ipv6 |-> x, is_fragment |-> x, tcp_mss |-> x,
   tcp_ws |-> x, ipv6_ext_count |-> x, ipv6_flow |-> x, wire_len |-> x,
   tcp_ts_val |-> x, tcp_ts_ecr |-> x, tcp_sack |-> x, tcp_rtt |-> x,
   vxlan_vni |-> x, entropy_scaled |-> x, ntp_stratum |-> x, ntp_mode |-> x,
   igmp_type |-> x, igmp_group |-> x, lldp_chassis |-> <<text, x>>,
   lldp_port |-> <<text, x>>, tcp_sack_edges |-> x, top_byte |-> x,
   top_byte_freq |-> x, pad |-> x, payload_len |-> x, src_mac |-> x, dst_mac |-> x,
   dns_query |-> <<text, x>>, tls_sni |-> <<text, x>>, extra_info |-> <<text, x>>,
   app_layer_info |-> <<text, x>>, payload |-> x, final_pad |-> x]

Zeroed == Filled("", 0)

(***************************************************************************)
(* What the service makes of a record.                                     *)
(***************************************************************************)

(* Faulty variant: the dotted quad taken from the first bytes. *)
ip_addr_from_front(ip, v6) == IF v6 THEN ip ELSE <<ip[1]>>

ip_addr_to_string(ip, v6) == IF v6 THEN ip ELSE <<ip[2]>>

protocol_to_string(proto, ports) ==
  CASE proto = 1   -> "ICMP"
    [] proto = 6   -> CASE 80 \in ports -> "HTTP" [] 443 \in ports -> "HTTPS" [] OTHER -> "TCP"
    [] proto = 17  -> CASE ports \cap {67, 68} # {} -> "DHCP" [] 53 \in ports -> "DNS" [] OTHER -> "UDP"
    [] proto = 58  -> "ICMPv6"
    [] proto = 89  -> "OSPF"
    [] proto = 200 -> "ARP"
    [] proto = 202 -> "STP"
    [] OTHER       -> "Unknown"

Flags == {"has_tcp_ao", "is_ipv6", "is_fragment", "tcp_sack"}

(* A read that does not meet a field of the struct is not in the result.   *)
DashboardPacket(rec) ==
  LET met == {n \in ReadFields : SourceOf[n] # {}}
      raw == [n \in met |-> rec[CHOOSE m \in SourceOf[n] : TRUE]]
  IN  [n \in met |->
         CASE n \in Addresses -> ip_addr_to_string(raw[n], raw["is_ipv6"] # 0)
           [] n \in Flags     -> raw[n] # 0
           [] n = "protocol"  -> protocol_to_string(raw[n], {raw["src_port"], raw["dst_port"]})
           [] n = "payload"   -> Min({raw[n], raw["payload_len"], 256})
           [] OTHER           -> raw[n]]
=============================================================================
