----------------------------- MODULE OptionWalk -----------------------------
(***************************************************************************)
(* The loops inside the dissectors, each over a region of len bytes:       *)
(*   tcp    parse_tcp_options_extended, over the options of the header     *)
(*   dhcp   dissect_dhcp, over the options behind the magic number         *)
(*   lldp   dissect_lldp, over the TLVs of the frame                       *)
(*   dns    dissect_dns, over the labels behind the DNS header             *)
(*   sni    dissect_tls_sni, over a ClientHello                            *)
(*   text   the line that dissect_http and dissect_app_common copy         *)
(* One action per turn.  The content of the region is arbitrary, so a byte *)
(* or a word is chosen when it is read.  A turn leaves behind how far it   *)
(* read and wrote: one behind the highest offset in the region, and one    *)
(* behind the highest index in the destination.                            *)
(***************************************************************************)
EXTENDS Integers

CONSTANTS
  Walks,   (* the loops that are run                                        *)
  Lens,    (* the lengths of the regions                                    *)
  Byte,    (* values of a byte                                              *)
  Word,    (* values of a length of two bytes                               *)
  Host     (* bytes of a host name that are printed                         *)

ASSUME ByteAssumption == Byte \subseteq 0 .. 255
ASSUME WordAssumption == Word \subseteq Nat
ASSUME HostAssumption == Host \subseteq 0 .. 32
ASSUME LensAssumption == Lens \subseteq Nat
ASSUME WalksAssumption == Walks \subseteq {"tcp", "dhcp", "lldp", "dns", "sni", "text"}

VARIABLES
  walk, len,
  pc,        (* "loop", the parts of a ClientHello before it, or the end    *)
  pos,       (* k, i, o, pos or c of the code                               *)
  end,       (* ext_end of dissect_tls_sni                                  *)
  out,       (* out_pos of dissect_dns                                      *)
  readTo, wroteTo,
  turn       (* flips with every turn, so that no turn is a stuttering step *)

vars == <<walk, len, pc, pos, end, out, readTo, wroteTo, turn>>

Ended == {"done", "undefined"}

(* tcp_sack_edges, lldp_chassis and lldp_port, dns_query and tls_sni,      *)
(* extra_info; the message type of DHCP is printed and not copied.         *)
Room(w) == CASE w = "tcp" -> 32 [] w = "lldp" -> 32 [] w \in {"dns", "sni"} -> 64
             [] w = "text" -> 128 [] OTHER -> 0

Least(x, y) == IF x < y THEN x ELSE y

(* dissect_tls_sni starts behind the random, and only on 43 bytes; the     *)
(* other callers have taken the fixed part off the length.                 *)
Init ==
  /\ walk \in Walks /\ len \in Lens
  /\ walk = "sni" => len >= 43
  /\ pc = IF walk = "sni" THEN "session" ELSE "loop"
  /\ pos = IF walk = "sni" THEN 43 ELSE 0
  /\ end = len /\ out = 0 /\ readTo = 0 /\ wroteTo = 0 /\ turn = 0

(* A turn of walk w in part p: it reads up to r, writes up to s, and goes  *)
(* on at q in part next.                                                   *)
Turn(w, p) == walk = w /\ pc = p
Goes(next, q, r, s) ==
  /\ pc' = next /\ pos' = q /\ readTo' = r /\ wroteTo' = s
  /\ turn' = 1 - turn
  /\ UNCHANGED <<walk, len>>
Keeps == UNCHANGED <<end, out>>

(***************************************************************************)
(* parse_tcp_options_extended                                              *)
(***************************************************************************)

(* Faulty variants: an option of length 0 or 1 is not refused; or one that *)
(* reaches behind the header.                                              *)
FitsAnyLength(l) == pos + l <= len
FitsAnyEnd(l) == l >= 2

Fits(l) == l >= 2 /\ pos + l <= len

Blocks(l) == Least((l - 2) \div 8, 4)

OptionReads(kind, l) ==
  CASE kind = 2 /\ l = 4  -> 4
    [] kind = 3 /\ l = 3  -> 3
    [] kind = 5 /\ l >= 10 -> 2 + 8 * Blocks(l)
    [] kind = 8 /\ l = 10 -> 10
    [] OTHER -> 2

TcpOption ==
  /\ Turn("tcp", "loop") /\ pos < len
  /\ \E kind \in Byte :
       \/ kind = 0 /\ Goes("done", pos, pos + 1, 0)
       \/ kind = 1 /\ Goes("loop", pos + 1, pos + 1, 0)
       \/ kind > 1 /\ pos + 1 >= len /\ Goes("done", pos, pos + 1, 0)
       \/ /\ kind > 1 /\ pos + 1 < len
          /\ \E l \in Byte :
               \/ ~Fits(l) /\ Goes("done", pos, pos + 2, 0)
               \/ /\ Fits(l)
                  /\ Goes("loop", pos + l, pos + OptionReads(kind, l),
                          IF kind = 5 /\ l >= 10 THEN 8 * Blocks(l) ELSE 0)
  /\ Keeps

(***************************************************************************)
(* dissect_dhcp                                                            *)
(***************************************************************************)
DhcpOption ==
  /\ Turn("dhcp", "loop") /\ pos < len
  /\ \E c \in Byte :
       \/ c = 255 /\ Goes("done", pos + 1, pos + 1, 0)
       \/ c = 0 /\ Goes("loop", pos + 1, pos + 1, 0)
       \/ c \notin {0, 255} /\ pos + 1 >= len /\ Goes("done", pos + 1, pos + 1, 0)
       \/ /\ c \notin {0, 255} /\ pos + 1 < len
          /\ \E l \in Byte :
               \/ pos + 2 + l > len /\ Goes("done", pos + 2, pos + 2, 0)
               \/ pos + 2 + l <= len /\ c = 53 /\ l = 1 /\ Goes("done", pos + 2, pos + 3, 0)
               \/ pos + 2 + l <= len /\ ~(c = 53 /\ l = 1) /\ Goes("loop", pos + 2 + l, pos + 2, 0)
  /\ Keeps

(***************************************************************************)
(* dissect_lldp.  For a chassis or port TLV without content sl is -1: the  *)
(* copy is undefined.                                                      *)
(***************************************************************************)
LldpTlv ==
  /\ Turn("lldp", "loop") /\ pos + 2 <= len
  /\ \E type \in 0 .. 3, l \in {w \in Word : w < 512} :
       LET sl == Least(l - 1, 31)
       IN  \/ pos + 2 + l > len /\ Goes("done", pos + 2, pos + 2, 0)
           \/ pos + 2 + l <= len /\ type = 0 /\ Goes("done", pos + 2, pos + 2, 0)
           \/ pos + 2 + l <= len /\ type = 3 /\ Goes("loop", pos + 2 + l, pos + 2, 0)
           \/ /\ pos + 2 + l <= len /\ type \in {1, 2}
              /\ IF sl < 0 THEN Goes("undefined", pos + 2, pos + 2, 0)
                 ELSE Goes("loop", pos + 2 + l, pos + 3 + sl, sl + 1)
  /\ Keeps

(***************************************************************************)
(* dissect_dns: a label is copied as far as both sides allow, then a dot.  *)
(***************************************************************************)
DnsLabel ==
  /\ Turn("dns", "loop") /\ pos < len /\ out < Room("dns") - 1
  /\ \E label \in Byte :
       \/ (label = 0 \/ label > 63) /\ Goes("copied", pos + 1, pos + 1, 0) /\ Keeps
       \/ /\ label \in 1 .. 63
          /\ LET n == Least(label, Least(len - pos - 1, Room("dns") - 1 - out))
                 dot == IF out + n < Room("dns") - 1 THEN 1 ELSE 0
             IN  /\ Goes("loop", pos + 1 + n, pos + 1 + n, out + n + dot)
                 /\ out' = out + n + dot
          /\ UNCHANGED end

(* The terminator replaces the last dot, if the text ends in one. *)
DnsEnd ==
  /\ walk = "dns"
  /\ pc = "copied" \/ (pc = "loop" /\ ~(pos < len /\ out < Room("dns") - 1))
  /\ \E dot \in {0, 1} :
       /\ dot <= out
       /\ Goes("done", pos, 0, IF out > 0 THEN out - dot + 1 ELSE 0)
  /\ Keeps

(***************************************************************************)
(* dissect_tls_sni: session, ciphers, compression, then the extensions.    *)
(* payload[43] is read although 43 bytes pass the test.                    *)
(***************************************************************************)
SniSession ==
  /\ Turn("sni", "session")
  /\ \E l \in Byte : Goes("ciphers", pos + 1 + l, pos + 1, 0)
  /\ Keeps

SniCiphers ==
  /\ Turn("sni", "ciphers")
  /\ \/ pos + 2 >= len /\ Goes("done", pos, 0, 0)
     \/ pos + 2 < len /\ \E l \in Word : Goes("compression", pos + 2 + l, pos + 2, 0)
  /\ Keeps

SniCompression ==
  /\ Turn("sni", "compression")
  /\ \/ pos + 1 >= len /\ Goes("done", pos, 0, 0)
     \/ pos + 1 < len /\ \E l \in Byte : Goes("extensions", pos + 1 + l, pos + 1, 0)
  /\ Keeps

SniExtensions ==
  /\ Turn("sni", "extensions")
  /\ \/ pos + 2 >= len /\ Goes("done", pos, 0, 0) /\ UNCHANGED end
     \/ /\ pos + 2 < len
        /\ \E l \in Word : Goes("loop", pos + 2, pos + 2, 0) /\ end' = Least(pos + 2 + l, len)
  /\ UNCHANGED out

SniExtension ==
  /\ Turn("sni", "loop") /\ pos + 4 <= end
  /\ \E type \in {0, 1}, l \in Word :
       \/ type # 0 /\ Goes("loop", pos + 4 + l, pos + 4, 0)
       \/ type = 0 /\ pos + 9 > end /\ Goes("loop", pos + 4 + l, pos + 4, 0)
       \/ /\ type = 0 /\ pos + 9 <= end
          /\ \E name \in Word :
               \/ pos + 9 + name > end /\ Goes("loop", pos + 4 + l, pos + 9, 0)
               \/ /\ pos + 9 + name <= end
                  /\ LET n == Least(name, Room("sni") - 1)
                     IN  Goes("done", pos + 9, pos + 9 + n, n + 1)
  /\ Keeps

(***************************************************************************)
(* The first line of a text, and the host name of an HTTP request: up to   *)
(* 32 bytes behind "Host: ", wherever the region ends, into what is left.  *)
(***************************************************************************)
TextByte ==
  /\ Turn("text", "loop") /\ pos < len /\ pos < Room("text") - 1
  /\ \/ Goes("loop", pos + 1, pos + 1, pos + 1)
     \/ Goes("line", pos, pos + 1, pos + 1)
  /\ Keeps

TextEnd ==
  /\ Turn("text", "loop") /\ ~(pos < len /\ pos < Room("text") - 1)
  /\ Goes("line", pos, 0, pos + 1)
  /\ Keeps

TextHost ==
  /\ Turn("text", "line")
  /\ \/ Goes("done", pos, 0, 0)
     \/ \E hp \in 0 .. len - 8, n \in Host :
          Goes("done", pos, hp + 8 + n, Least(pos + 10 + n, Room("text")))
  /\ Keeps

LoopEnds ==
  /\ pc = "loop"
  /\ \/ walk \in {"tcp", "dhcp"} /\ pos >= len
     \/ walk = "lldp" /\ pos + 2 > len
     \/ walk = "sni" /\ pos + 4 > end
  /\ Goes("done", pos, 0, 0)
  /\ Keeps

Next ==
  \/ TcpOption \/ DhcpOption \/ LldpTlv \/ DnsLabel \/ DnsEnd
  \/ SniSession \/ SniCiphers \/ SniCompression \/ SniExtensions \/ SniExtension
  \/ TextByte \/ TextEnd \/ TextHost \/ LoopEnds

Spec == Init /\ [][Next]_vars

(* A worker that is scheduled goes on with its loop. *)
FairSpec == Spec /\ WF_vars(Next)

(***************************************************************************)
(* Properties                                                              *)
(***************************************************************************)

(* What the two reads that test too little add to the region: the length   *)
(* of the session of a ClientHello of just 43 bytes, and a host name.      *)
Overrun ==
  CASE walk = "sni" /\ len = 43  -> 1
    [] walk = "text" /\ pc = "done" -> 32
    [] OTHER -> 0

(* Every turn of every loop stays inside the region it was given, apart    *)
(* from the two reads above, and inside its destination, terminator        *)
(* included, whatever lengths the bytes claim; only an empty LLDP TLV ends *)
(* in an undefined copy.                                                   *)
AccessesFit ==
  /\ readTo <= len + Overrun
  /\ wroteTo <= Room(walk)
  /\ pc = "undefined" => walk = "lldp"

(* The inductive invariant: the types, how far each walk may be, and what  *)
(* the last turn touched.                                                  *)
TypeOK ==
  /\ walk \in {"tcp", "dhcp", "lldp", "dns", "sni", "text"}
  /\ pc \in {"loop", "copied", "session", "ciphers", "compression", "extensions", "line"} \cup Ended
  /\ len \in Nat /\ pos \in Nat /\ end \in Nat /\ out \in Nat
  /\ readTo \in Nat /\ wroteTo \in Nat /\ turn \in {0, 1}

Place ==
  /\ end <= len
  /\ out < 64
  /\ walk = "sni" => len >= 43
  /\ walk = "sni" /\ pc = "session" => pos = 43
  /\ walk = "text" => pos < 128

WalkInv == TypeOK /\ Place /\ AccessesFit

(* No loop of a dissector repeats a turn: each one moves forward or ends,  *)
(* whatever lengths the bytes claim.                                       *)
Advances == [][pos' > pos \/ pc' # "loop"]_vars

(* Every dissector returns, or is in the one undefined copy. *)
WalkEnds == <>(pc \in Ended)
=============================================================================
