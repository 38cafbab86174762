---------------------------- MODULE PacketFrames -----------------------------
(***************************************************************************)
(* The frames of the tunnel tests (tests/_packet_helpers.py): the kernel's  *)
(* stack sends an ICMPv6 echo request into the interface, the test reads    *)
(* it, perhaps among other or mangled frames, and builds the reply.  Bytes  *)
(* are numbers and frames are sequences of them, numbered from 1.           *)
(***************************************************************************)
EXTENDS Naturals, Sequences

CONSTANTS
  Platforms,   \* platform names the helpers are called with
  Idents,      \* 16-bit numbers used as identifier and sequence number
  Payloads,    \* data of echo requests
  Patches      \* byte values a mangled frame may have anywhere

Ones16 == 65535   \* 0xFFFF

\* Data and message header fill at most the 16 bits of the payload length.
ASSUME FrameAssumption ==
  /\ Idents \subseteq 0 .. Ones16 /\ Patches \subseteq 0 .. 255
  /\ Payloads \subseteq Seq(0 .. 255)
  /\ \A data \in Payloads : 8 + Len(data) <= Ones16

VARIABLES
  platform,
  frame,    \* the frame read from the device
  damage,   \* what happened to it: "none", or "cut", "byte", "tail" (auxiliary)
  reply     \* what was built from it: <<>> before, Error if the helper raised

vars == <<platform, frame, damage, reply>>

-----------------------------------------------------------------------------
(* The helpers *)

AF_INET6            == 30
ETH_P_IPV6          == 34525
IPPROTO_ICMPV6      == 58
ICMPV6_ECHO_REQUEST == 128
ICMPV6_ECHO_REPLY   == 129
Error               == <<256>>

\* struct.pack and unpack of "!H", and of "!I" for numbers below 2^16.
Pack16(n)      == <<n \div 256, n % 256>>
Unpack16(s, i) == 256 * s[i] + s[i + 1]
Zeroes(n)      == [i \in 1 .. n |-> 0]

Slice(s, from, n) == SubSeq(s, from, from + n - 1)

add_tun_prefix(packet) ==
  CASE platform = "linux"  -> <<0, 0>> \o Pack16(ETH_P_IPV6) \o packet
    [] platform = "darwin" -> <<0, 0>> \o Pack16(AF_INET6) \o packet
    [] OTHER -> packet

\* On Linux the flags before the protocol do not matter; on macOS the family may
\* be in either byte order.
HasPrefix(f) ==
  CASE platform = "linux"  -> Len(f) >= 4 /\ Unpack16(f, 3) = ETH_P_IPV6
    [] platform = "darwin" -> /\ Len(f) >= 4
                              /\ SubSeq(f, 1, 4) \in {<<0, 0, 0, AF_INET6>>, <<AF_INET6, 0, 0, 0>>}
    [] OTHER -> TRUE

PrefixLen == IF platform \in {"linux", "darwin"} THEN 4 ELSE 0

\* The checks of parse_ipv6_icmpv6_echo, in their order.
Parses(f) ==
  /\ HasPrefix(f)
  /\ LET pkt == SubSeq(f, PrefixLen + 1, Len(f))
     IN  /\ Len(pkt) >= 48
         /\ pkt[1] \div 16 = 6
         /\ pkt[7] = IPPROTO_ICMPV6
         /\ Len(pkt) >= 40 + Unpack16(pkt, 5)
         /\ Unpack16(pkt, 5) >= 8

\* Mutant: the data go up to the end of the frame.
parse_to_end(f) ==
  LET pkt  == SubSeq(f, PrefixLen + 1, Len(f))
      icmp == SubSeq(pkt, 41, Len(pkt))
  IN  [src |-> Slice(pkt, 9, 16), dst |-> Slice(pkt, 25, 16), icmp_type |-> icmp[1],
       ident |-> Unpack16(icmp, 5), seq |-> Unpack16(icmp, 7),
       data |-> SubSeq(icmp, 9, Len(icmp))]

\* The fields of a frame that parses.
parse_ipv6_icmpv6_echo(f) ==
  LET pkt  == SubSeq(f, PrefixLen + 1, Len(f))
      icmp == Slice(pkt, 41, Unpack16(pkt, 5))
  IN  [src |-> Slice(pkt, 9, 16), dst |-> Slice(pkt, 25, 16), icmp_type |-> icmp[1],
       ident |-> Unpack16(icmp, 5), seq |-> Unpack16(icmp, 7),
       data |-> SubSeq(icmp, 9, Len(icmp))]

\* The 16-bit words of a byte string, an odd last byte padded with zero.
Words(data) ==
  [i \in 1 .. (Len(data) + 1) \div 2 |->
     256 * data[2 * i - 1] + (IF 2 * i <= Len(data) THEN data[2 * i] ELSE 0)]

\* Mutant: the carry is dropped.
DropCarry(n) == n % 65536

\* The carry is added in again.
FoldCarry(n) == (n % 65536) + (n \div 65536)

\* The loop's total after each of the words.
Totals(words) ==
  LET total[i \in 0 .. Len(words)] == IF i = 0 THEN 0 ELSE FoldCarry(total[i - 1] + words[i])
  IN  total

\* The last total, inverted.
_checksum(data) == Ones16 - Totals(Words(data))[Len(Words(data))]

Echo(type, checksum, ident, seq, data) ==
  <<type, 0>> \o Pack16(checksum) \o Pack16(ident) \o Pack16(seq) \o data

Ipv6(len, src, dst) ==
  <<96, 0, 0, 0>> \o Pack16(len) \o <<IPPROTO_ICMPV6, 64>> \o src \o dst

Pseudo(len, src, dst) ==
  src \o dst \o <<0, 0>> \o Pack16(len) \o <<0, 0, 0, IPPROTO_ICMPV6>>

\* fd00::n, the two addresses of the test and another one.
Addr(n) == <<253>> \o Zeroes(14) \o <<n>>
Local   == Addr(1)
Peer    == Addr(2)

\* Mutant: the reply goes out with the request's addresses in their order.
ReplyNotSwapped(f) ==
  LET p       == parse_ipv6_icmpv6_echo(f)
      len     == 8 + Len(p.data)
      blank   == Echo(ICMPV6_ECHO_REPLY, 0, p.ident, p.seq, p.data)
      checked == Echo(ICMPV6_ECHO_REPLY, _checksum(Pseudo(len, p.src, p.dst) \o blank),
                      p.ident, p.seq, p.data)
  IN  add_tun_prefix(Ipv6(len, p.src, p.dst) \o checked)

\* The reply to a request that parses: addresses swapped, the rest as it came,
\* the checksum that of the pseudo header and the payload with a blank checksum.
Reply(f) ==
  LET p       == parse_ipv6_icmpv6_echo(f)
      len     == 8 + Len(p.data)
      blank   == Echo(ICMPV6_ECHO_REPLY, 0, p.ident, p.seq, p.data)
      checked == Echo(ICMPV6_ECHO_REPLY, _checksum(Pseudo(len, p.dst, p.src) \o blank),
                      p.ident, p.seq, p.data)
  IN  add_tun_prefix(Ipv6(len, p.dst, p.src) \o checked)

build_icmpv6_echo_reply_frame(f) ==
  IF /\ Parses(f)
     /\ LET p == parse_ipv6_icmpv6_echo(f)
        IN  p.icmp_type = ICMPV6_ECHO_REQUEST /\ {p.src, p.dst} \subseteq {Local, Peer}
  THEN Reply(f) ELSE Error

-----------------------------------------------------------------------------
(* The kernel sends a request, the frame may be mangled, the test answers. *)

RequestFrame(ident, seq, data) ==
  add_tun_prefix(Ipv6(8 + Len(data), Local, Peer)
                 \o Echo(ICMPV6_ECHO_REQUEST, 0, ident, seq, data))

Init == /\ platform \in Platforms
        /\ \E ident \in Idents, seq \in Idents, data \in Payloads :
             frame = RequestFrame(ident, seq, data)
        /\ damage = "none"
        /\ reply = <<>>

Mangled(f, how) == /\ damage = "none" /\ reply = <<>>
                   /\ frame' = f /\ damage' = how
                   /\ UNCHANGED <<platform, reply>>

Cut(n)      == n < Len(frame) /\ Mangled(SubSeq(frame, 1, n), "cut")
Patch(i, b) == Mangled([frame EXCEPT ![i] = b], "byte")
Extend(b)   == Mangled(Append(frame, b), "tail")

Answer == /\ reply = <<>>
          /\ reply' = build_icmpv6_echo_reply_frame(frame)
          /\ UNCHANGED <<platform, frame, damage>>

Next == \/ \E n \in 0 .. Len(frame) : Cut(n)
        \/ \E i \in DOMAIN frame, b \in Patches : Patch(i, b)
        \/ \E b \in Patches : Extend(b)
        \/ Answer

Spec == Init /\ [][Next]_vars

-----------------------------------------------------------------------------
(* Properties *)

Replied == reply \notin {<<>>, Error}
Packet(f) == SubSeq(f, PrefixLen + 1, Len(f))

\* Sums of the first words, with nothing folded.
Sums(words) ==
  LET sum[i \in 0 .. Len(words)] == IF i = 0 THEN 0 ELSE sum[i - 1] + words[i]
  IN  sum

\* The kernel accepts the checksum of every reply (RFC 1071): the sum of all words
\* of pseudo header and payload, carries or not, is 0 modulo 2^16 - 1.  Odd
\* lengths and sums that wrap around are the cases a test has one sample of.
ChecksumVerifies ==
  Replied => LET pkt   == Packet(reply)
                 words == Words(Pseudo(Len(pkt) - 40, Slice(pkt, 9, 16), Slice(pkt, 25, 16))
                                \o SubSeq(pkt, 41, Len(pkt)))
                 sum   == Sums(words)[Len(words)]
             IN  sum > 0 /\ sum % 65535 = 0

\* A reply is a frame that parses as the answer to what was asked: the helper's
\* own parser finds the addresses swapped and the rest equal, whatever bytes the
\* frame had where they do not matter.
ReplyAnswers ==
  Replied =>
    /\ Parses(reply)
    /\ LET q == parse_ipv6_icmpv6_echo(frame)
           a == parse_ipv6_icmpv6_echo(reply)
       IN  a = [q EXCEPT !.src = q.dst, !.dst = q.src, !.icmp_type = ICMPV6_ECHO_REPLY]

\* Bytes after the request's own length are not part of the answer, a frame that
\* lost a byte at its end has none, and a whole request has one.
AnswersWhole ==
  /\ damage = "cut" => ~Replied
  /\ damage \in {"none", "tail"} => reply # Error
  /\ damage = "tail" /\ Replied => Len(reply) < Len(frame)
=============================================================================
