-------------------------- MODULE PacketFramesProofs --------------------------
(***************************************************************************)
(* Proofs about PacketFrames, for requests with any identifiers and any    *)
(* data: what the parser finds in a frame, and what the checksum of a      *)
(* reply adds up to.                                                       *)
(***************************************************************************)
EXTENDS ChecksumProofs

-----------------------------------------------------------------------------
(* Bytes, and sequences of a given length *)

Byte == 0 .. 255

\* Numbers of data bytes that the payload length has room for.
Sizes == {n \in Nat : 8 + n <= Ones16}

\* The sequences of n elements of S.
Text(S, n) == {s \in Seq(S) : Len(s) = n}

\* c is s, of length m, and after it t, of length n.
Joined(S, c, s, m, t, n) == /\ c \in Text(S, m + n)
                            /\ \A i \in 1 .. m : c[i] = s[i]
                            /\ \A i \in 1 .. n : c[m + i] = t[i]

\* What concatenation does, as a fact without the operator itself in it.
LEMMA Join ==
  ASSUME NEW S, NEW m \in Nat, NEW n \in Nat, NEW s \in Text(S, m), NEW t \in Text(S, n)
  PROVE  Joined(S, s \o t, s, m, t, n)
<1>1. s \in Seq(S) /\ t \in Seq(S)
  BY DEF Text
<1>2. Len(s) = m /\ Len(t) = n
  BY DEF Text
<1> DEFINE c == s \o t
<1>3. /\ c \in Seq(S) /\ Len(c) = Len(s) + Len(t)
      /\ \A i \in 1 .. Len(s) : c[i] = s[i]
      /\ \A i \in 1 .. Len(t) : c[Len(s) + i] = t[i]
  BY <1>1
<1> HIDE DEF c
<1>4. Joined(S, c, s, m, t, n)
  BY <1>2, <1>3 DEF Text, Joined
<1> QED BY <1>4 DEF c

\* A 16-bit number is packed into two bytes and read back from them.
LEMMA Words16 ==
  ASSUME NEW n \in 0 .. Ones16
  PROVE  /\ Pack16(n) \in Text(Byte, 2)
         /\ 256 * Pack16(n)[1] + Pack16(n)[2] = n
<1>1. PICK m \in Nat : m = n /\ m <= 65535
  BY Ones, SMT
<1>2. PICK q \in Nat, r \in Nat : q = m \div 256 /\ r = m % 256
  OBVIOUS
<1>3. 256 * q + r = m /\ r <= 255 /\ q <= 255
  BY <1>1, <1>2, SMT
<1>4. q \in Byte /\ r \in Byte
  BY <1>3, SMT DEF Byte
<1>5. Pack16(n) = <<q, r>>
  BY <1>1, <1>2 DEF Pack16
<1>6. <<q, r>> \in Text(Byte, 2) /\ <<q, r>>[1] = q /\ <<q, r>>[2] = r
  BY <1>4 DEF Text
<1> QED BY <1>1, <1>3, <1>5, <1>6

\* Two bytes are a 16-bit number.
LEMMA Reads16 ==
  ASSUME NEW x \in Byte, NEW y \in Byte
  PROVE  256 * x + y \in 0 .. Ones16
BY Ones, SMT DEF Byte

\* t are the n elements of s after the first k.
IsPart(S, t, s, k, n) == t \in Text(S, n) /\ \A i \in 1 .. n : t[i] = s[k + i]

\* SubSeq and Slice are such parts.
LEMMA Part ==
  ASSUME NEW S, NEW s \in Seq(S), NEW k \in Nat, NEW n \in Nat, k + n <= Len(s)
  PROVE  IsPart(S, SubSeq(s, k + 1, k + n), s, k, n)
<1>1. \A i \in (k + 1) .. (k + n) : s[i] \in S
  BY ElementOfSeq
<1>2. /\ SubSeq(s, k + 1, k + n) \in Seq(S)
      /\ Len(SubSeq(s, k + 1, k + n)) = IF k + 1 <= k + n THEN (k + n) - (k + 1) + 1 ELSE 0
      /\ \A i \in 1 .. (k + n) - (k + 1) + 1 : SubSeq(s, k + 1, k + n)[i] = s[(k + 1) + i - 1]
  BY <1>1, SubSeqProperties
<1> QED BY <1>2 DEF Text, IsPart

LEMMA SlicePart ==
  ASSUME NEW S, NEW s \in Seq(S), NEW m \in Nat, NEW k \in Nat, NEW n \in Nat,
         m = k + 1, k + n <= Len(s)
  PROVE  IsPart(S, Slice(s, m, n), s, k, n)
<1>1. m + n - 1 = k + n
  OBVIOUS
<1>2. Slice(s, m, n) = SubSeq(s, k + 1, k + n)
  BY <1>1 DEF Slice
<1> QED BY <1>2, Part

\* Equality element by element.
LEMMA SameText ==
  ASSUME NEW S, NEW n \in Nat, NEW s \in Text(S, n), NEW t \in Text(S, n),
         \A i \in 1 .. n : s[i] = t[i]
  PROVE  s = t
BY SeqEqual DEF Text

-----------------------------------------------------------------------------
(* Packets *)

\* h are the bytes of a header, e those of a message.
IsHeader(h, len, src, dst) ==
  /\ h \in Text(Byte, 40)
  /\ h[1] = 96 /\ 256 * h[5] + h[6] = len /\ h[7] = IPPROTO_ICMPV6
  /\ \A i \in 1 .. 16 : h[8 + i] = src[i] /\ h[24 + i] = dst[i]

IsMessage(e, type, sum, ident, seq, data, n) ==
  /\ e \in Text(Byte, 8 + n)
  /\ e[1] = type /\ e[2] = 0 /\ 256 * e[3] + e[4] = sum
  /\ \A i \in 1 .. 2 : e[4 + i] = Pack16(ident)[i] /\ e[6 + i] = Pack16(seq)[i]
  /\ 256 * e[5] + e[6] = ident /\ 256 * e[7] + e[8] = seq
  /\ \A i \in 1 .. n : e[8 + i] = data[i]

\* The header has length, protocol and addresses where the parser looks for them.
LEMMA Header ==
  ASSUME NEW len \in 0 .. Ones16, NEW src \in Text(Byte, 16), NEW dst \in Text(Byte, 16)
  PROVE  IsHeader(Ipv6(len, src, dst), len, src, dst)
<1> DEFINE p == <<96, 0, 0, 0>>
           w == Pack16(len)
           q == <<IPPROTO_ICMPV6, 64>>
           a == p \o w
           b == a \o q
           c == b \o src
           h == c \o dst
<1>1. p \in Text(Byte, 4) /\ p[1] = 96
  BY DEF Text, Byte
<1>2. q \in Text(Byte, 2) /\ q[1] = IPPROTO_ICMPV6
  BY DEF Text, Byte, IPPROTO_ICMPV6
<1>3. w \in Text(Byte, 2) /\ 256 * w[1] + w[2] = len
  BY Words16
<1>4. h = Ipv6(len, src, dst)
  BY DEF Ipv6
<1> HIDE DEF p, w, q
<1>5. Joined(Byte, a, p, 4, w, 2)
  BY <1>1, <1>3, Join
<1> HIDE DEF a
<1>6. Joined(Byte, b, a, 6, q, 2)
  <2>1. a \in Text(Byte, 6)
    BY <1>5 DEF Joined
  <2> QED BY <2>1, <1>2, Join
<1> HIDE DEF b
<1>7. b[1] = 96 /\ b[5] = w[1] /\ b[6] = w[2] /\ b[7] = IPPROTO_ICMPV6
  BY <1>1, <1>2, <1>5, <1>6 DEF Joined
<1>8. Joined(Byte, c, b, 8, src, 16)
  <2>1. b \in Text(Byte, 8)
    BY <1>6 DEF Joined
  <2> QED BY <2>1, Join
<1> HIDE DEF c
<1>9. Joined(Byte, h, c, 24, dst, 16)
  <2>1. c \in Text(Byte, 24)
    BY <1>8 DEF Joined
  <2> QED BY <2>1, Join
<1> HIDE DEF h
<1>10. h[1] = 96 /\ 256 * h[5] + h[6] = len /\ h[7] = IPPROTO_ICMPV6
  BY <1>3, <1>7, <1>8, <1>9 DEF Joined
<1>11. /\ h \in Text(Byte, 40)
       /\ \A i \in 1 .. 16 : h[8 + i] = src[i] /\ h[24 + i] = dst[i]
  BY <1>8, <1>9 DEF Joined
<1> QED BY <1>4, <1>10, <1>11 DEF IsHeader

\* The same of an echo message.
LEMMA Message ==
  ASSUME NEW type \in Byte, NEW sum \in 0 .. Ones16,
         NEW ident \in 0 .. Ones16, NEW seq \in 0 .. Ones16, NEW n \in Nat, NEW data \in Text(Byte, n)
  PROVE  IsMessage(Echo(type, sum, ident, seq, data), type, sum, ident, seq, data, n)
<1> DEFINE p == <<type, 0>>
           x == Pack16(sum)
           y == Pack16(ident)
           z == Pack16(seq)
           a == p \o x
           b == a \o y
           c == b \o z
           e == c \o data
<1>1. p \in Text(Byte, 2) /\ p[1] = type /\ p[2] = 0
  <2>1. 0 \in Byte
    BY DEF Byte
  <2> QED BY <2>1 DEF Text
<1>2. x \in Text(Byte, 2) /\ 256 * x[1] + x[2] = sum
  BY Words16
<1>3. y \in Text(Byte, 2) /\ 256 * y[1] + y[2] = ident
  BY Words16
<1>4. z \in Text(Byte, 2) /\ 256 * z[1] + z[2] = seq
  BY Words16
<1>5. e = Echo(type, sum, ident, seq, data)
  BY DEF Echo
<1> HIDE DEF p, x, y, z
<1>6. Joined(Byte, a, p, 2, x, 2)
  BY <1>1, <1>2, Join
<1> HIDE DEF a
<1>7. Joined(Byte, b, a, 4, y, 2)
  <2>1. a \in Text(Byte, 4)
    BY <1>6 DEF Joined
  <2> QED BY <2>1, <1>3, Join
<1> HIDE DEF b
<1>8. Joined(Byte, c, b, 6, z, 2)
  <2>1. b \in Text(Byte, 6)
    BY <1>7 DEF Joined
  <2> QED BY <2>1, <1>4, Join
<1> HIDE DEF c
<1>9. Joined(Byte, e, c, 8, data, n)
  <2>1. c \in Text(Byte, 8)
    BY <1>8 DEF Joined
  <2> QED BY <2>1, Join
<1> HIDE DEF e
<1>10. /\ c[1] = type /\ c[2] = 0 /\ c[3] = x[1] /\ c[4] = x[2]
       /\ c[5] = y[1] /\ c[6] = y[2] /\ c[7] = z[1] /\ c[8] = z[2]
  BY <1>1, <1>6, <1>7, <1>8 DEF Joined
<1>11. /\ e[1] = type /\ e[2] = 0 /\ 256 * e[3] + e[4] = sum
       /\ 256 * e[5] + e[6] = ident /\ 256 * e[7] + e[8] = seq
       /\ e[5] = y[1] /\ e[6] = y[2] /\ e[7] = z[1] /\ e[8] = z[2]
  BY <1>2, <1>3, <1>4, <1>9, <1>10 DEF Joined
<1>12. \A i \in 1 .. 2 : e[4 + i] = y[i] /\ e[6 + i] = z[i]
  BY <1>11
<1>13. e \in Text(Byte, 8 + n) /\ \A i \in 1 .. n : e[8 + i] = data[i]
  BY <1>9 DEF Joined
<1>14. IsMessage(e, type, sum, ident, seq, data, n)
  BY <1>11, <1>12, <1>13 DEF IsMessage, y, z
<1> QED BY <1>5, <1>14

\* What parse_ipv6_icmpv6_echo finds in a frame with n bytes of data.
Echoes(n) == [src : Text(Byte, 16), dst : Text(Byte, 16), icmp_type : Byte, ident : 0 .. Ones16,
              seq : 0 .. Ones16,
                 data : Text(Byte, n)]

\* The bytes of s after the first o are the packet of the echo q.
Bytes(s, o, q, n) ==
  /\ s[o + 1] = 96 /\ 256 * s[o + 5] + s[o + 6] = 8 + n /\ s[o + 7] = IPPROTO_ICMPV6
  /\ \A i \in 1 .. 16 : s[o + 8 + i] = q.src[i] /\ s[o + 24 + i] = q.dst[i]
  /\ s[o + 41] = q.icmp_type
  /\ 256 * s[o + 45] + s[o + 46] = q.ident /\ 256 * s[o + 47] + s[o + 48] = q.seq
  /\ \A i \in 1 .. n : s[o + 48 + i] = q.data[i]

\* Bytes says nothing of what comes before and behind the packet.
LEMMA Shifted ==
  ASSUME NEW s, NEW t, NEW o \in Nat, NEW u \in Nat, NEW q, NEW n \in Nat,
         \A i \in 1 .. 48 + n : t[u + i] = s[o + i], Bytes(s, o, q, n)
  PROVE  Bytes(t, u, q, n)
<1>1. /\ t[u + 1] = s[o + 1] /\ t[u + 5] = s[o + 5] /\ t[u + 6] = s[o + 6] /\ t[u + 7] = s[o + 7]
      /\ t[u + 41] = s[o + 41] /\ t[u + 45] = s[o + 45] /\ t[u + 46] = s[o + 46]
      /\ t[u + 47] = s[o + 47] /\ t[u + 48] = s[o + 48]
  OBVIOUS
<1>2. ASSUME NEW i \in 1 .. 16
      PROVE  t[u + 8 + i] = q.src[i] /\ t[u + 24 + i] = q.dst[i]
  <2>1. /\ t[u + (8 + i)] = s[o + (8 + i)] /\ t[u + (24 + i)] = s[o + (24 + i)]
        /\ u + (8 + i) = u + 8 + i /\ u + (24 + i) = u + 24 + i
        /\ o + (8 + i) = o + 8 + i /\ o + (24 + i) = o + 24 + i
    OBVIOUS
  <2> QED BY <2>1 DEF Bytes
<1>3. ASSUME NEW i \in 1 .. n PROVE t[u + 48 + i] = q.data[i]
  <2>1. /\ t[u + (48 + i)] = s[o + (48 + i)]
        /\ u + (48 + i) = u + 48 + i /\ o + (48 + i) = o + 48 + i
    OBVIOUS
  <2> QED BY <2>1 DEF Bytes
<1> QED BY <1>1, <1>2, <1>3 DEF Bytes

\* Header and message together.
LEMMA PacketBuilt ==
  ASSUME NEW n \in Sizes, NEW q \in Echoes(n), NEW sum \in 0 .. Ones16
  PROVE  LET p == Ipv6(8 + n, q.src, q.dst) \o Echo(q.icmp_type, sum, q.ident, q.seq, q.data)
         IN  p \in Text(Byte, 48 + n) /\ Bytes(p, 0, q, n)
<1> DEFINE h == Ipv6(8 + n, q.src, q.dst)
           e == Echo(q.icmp_type, sum, q.ident, q.seq, q.data)
           p == h \o e
<1>0. /\ q.src \in Text(Byte, 16) /\ q.dst \in Text(Byte, 16) /\ q.data \in Text(Byte, n)
      /\ q.icmp_type \in Byte /\ q.ident \in 0 .. Ones16 /\ q.seq \in 0 .. Ones16
      /\ n \in Nat
  BY DEF Echoes, Sizes
<1>1. IsHeader(h, 8 + n, q.src, q.dst)
  <2>1. 8 + n \in 0 .. Ones16
    BY DEF Sizes
  <2> QED BY <1>0, <2>1, Header
<1>2. IsMessage(e, q.icmp_type, sum, q.ident, q.seq, q.data, n)
  BY <1>0, Message
<1> HIDE DEF h, e
<1>3. Joined(Byte, p, h, 40, e, 8 + n)
  BY <1>0, <1>1, <1>2, Join DEF IsHeader, IsMessage
<1> HIDE DEF p
<1>4. p \in Text(Byte, 48 + n)
  BY <1>0, <1>3 DEF Joined
<1>5. p[1] = 96 /\ 256 * p[5] + p[6] = 8 + n /\ p[7] = IPPROTO_ICMPV6
  BY <1>1, <1>3 DEF Joined, IsHeader
<1>6. \A i \in 1 .. 16 : p[8 + i] = q.src[i] /\ p[24 + i] = q.dst[i]
  BY <1>1, <1>3 DEF Joined, IsHeader
<1>7. \A i \in 1 .. 8 + n : p[40 + i] = e[i]
  BY <1>3 DEF Joined
<1>8. /\ p[41] = q.icmp_type
      /\ 256 * p[45] + p[46] = q.ident /\ 256 * p[47] + p[48] = q.seq
  BY <1>0, <1>2, <1>7 DEF IsMessage
<1>9. \A i \in 1 .. n : p[48 + i] = q.data[i]
  <2> SUFFICES ASSUME NEW i \in 1 .. n PROVE p[48 + i] = q.data[i]
    OBVIOUS
  <2>1. 8 + i \in 1 .. 8 + n /\ 40 + (8 + i) = 48 + i
    BY <1>0
  <2> QED BY <1>2, <1>7, <2>1 DEF IsMessage
<1>10. Bytes(p, 0, q, n)
  BY <1>5, <1>6, <1>8, <1>9 DEF Bytes
<1> QED BY <1>4, <1>10 DEF h, e, p

-----------------------------------------------------------------------------
(* Frames and the parser *)

\* The platform's bytes before the packet.
Prefix(f) == /\ platform = "linux"  => 256 * f[3] + f[4] = ETH_P_IPV6
             /\ platform = "darwin" => f[1] = 0 /\ f[2] = 0 /\ f[3] = 0 /\ f[4] = AF_INET6

\* f is the frame of the echo q and k bytes more.
Carries(f, q, n, k) == /\ f \in Text(Byte, PrefixLen + 48 + n + k)
                          /\ Prefix(f) /\ Bytes(f, PrefixLen, q, n)

\* The length of the prefix.
LEMMA PrefixSize == PrefixLen \in Nat /\ (platform \in {"linux", "darwin"} => PrefixLen = 4)
BY DEF PrefixLen

\* The helper puts the platform's prefix before the packet.
LEMMA Prefixed ==
  ASSUME NEW m \in Nat, NEW p \in Text(Byte, m)
  PROVE  LET f == add_tun_prefix(p)
         IN  /\ f \in Text(Byte, PrefixLen + m) /\ Prefix(f)
             /\ \A i \in 1 .. m : f[PrefixLen + i] = p[i]
<1>1. CASE platform \in {"linux", "darwin"}
  <2> DEFINE w == Pack16(IF platform = "linux" THEN ETH_P_IPV6 ELSE AF_INET6)
             z == <<0, 0>>
             x == z \o w
             f == x \o p
  <2>1. /\ w \in Text(Byte, 2)
        /\ 256 * w[1] + w[2] = IF platform = "linux" THEN ETH_P_IPV6 ELSE AF_INET6
    <3>1. ETH_P_IPV6 \in 0 .. Ones16 /\ AF_INET6 \in 0 .. Ones16
      BY Ones, SMT DEF ETH_P_IPV6, AF_INET6
    <3> QED BY <3>1, Words16
  <2>2. platform = "darwin" => w[1] = 0 /\ w[2] = AF_INET6
    BY DEF Pack16, AF_INET6
  <2>3. z \in Text(Byte, 2) /\ z[1] = 0 /\ z[2] = 0
    BY DEF Text, Byte
  <2>4. f = add_tun_prefix(p)
    BY <1>1 DEF add_tun_prefix
  <2> HIDE DEF w, z
  <2>5. Joined(Byte, x, z, 2, w, 2)
    BY <2>1, <2>3, Join
  <2> HIDE DEF x
  <2>6. Joined(Byte, f, x, 4, p, m)
    <3>1. x \in Text(Byte, 4)
      BY <2>5 DEF Joined
    <3> QED BY <3>1, Join
  <2> HIDE DEF f
  <2>7. f[1] = 0 /\ f[2] = 0 /\ f[3] = w[1] /\ f[4] = w[2]
    BY <2>3, <2>5, <2>6 DEF Joined
  <2>8. Prefix(f)
    BY <2>1, <2>2, <2>7 DEF Prefix
  <2>9. f \in Text(Byte, PrefixLen + m) /\ \A i \in 1 .. m : f[PrefixLen + i] = p[i]
    BY <1>1, <2>6, PrefixSize DEF Joined
  <2> QED BY <2>4, <2>8, <2>9
<1>2. CASE platform \notin {"linux", "darwin"}
  <2>1. add_tun_prefix(p) = p /\ PrefixLen = 0
    BY <1>2 DEF add_tun_prefix, PrefixLen
  <2> QED BY <1>2, <2>1 DEF Prefix
<1> QED BY <1>1, <1>2

\* What the helpers build carries the echo they built it from.
LEMMA FrameBuilt ==
  ASSUME NEW n \in Sizes, NEW q \in Echoes(n), NEW sum \in 0 .. Ones16
  PROVE  Carries(add_tun_prefix(Ipv6(8 + n, q.src, q.dst)
                                   \o Echo(q.icmp_type, sum, q.ident, q.seq, q.data)), q, n, 0)
<1> DEFINE p == Ipv6(8 + n, q.src, q.dst) \o Echo(q.icmp_type, sum, q.ident, q.seq, q.data)
           f == add_tun_prefix(p)
<1>0. n \in Nat
  BY DEF Sizes
<1>1. p \in Text(Byte, 48 + n) /\ Bytes(p, 0, q, n)
  BY PacketBuilt
<1> HIDE DEF p
<1>2. /\ f \in Text(Byte, PrefixLen + (48 + n)) /\ Prefix(f)
      /\ \A i \in 1 .. 48 + n : f[PrefixLen + i] = p[i]
  <2>1. 48 + n \in Nat
    BY <1>0
  <2> QED BY <1>1, <2>1, Prefixed
<1> HIDE DEF f
<1>3. Bytes(f, PrefixLen, q, n)
  <2>1. \A i \in 1 .. 48 + n : f[PrefixLen + i] = p[0 + i]
    BY <1>2
  <2> QED BY <1>0, <1>1, <2>1, PrefixSize, Shifted
<1>4. PrefixLen + (48 + n) = PrefixLen + 48 + n + 0
  BY <1>0, PrefixSize
<1> QED BY <1>2, <1>3, <1>4 DEF Carries, f, p

\* A byte more behind the frame.
LEMMA Longer ==
  ASSUME NEW n \in Nat, NEW q, NEW f, Carries(f, q, n, 0), NEW b \in Byte
  PROVE  Carries(Append(f, b), q, n, 1)
<1>1. f \in Seq(Byte) /\ Len(f) = PrefixLen + 48 + n
  BY PrefixSize DEF Carries, Text
<1> DEFINE g == Append(f, b)
<1>2. g \in Seq(Byte) /\ Len(g) = Len(f) + 1 /\ \A i \in 1 .. Len(f) : g[i] = f[i]
  <2>1. f \in Seq(Byte)
    BY <1>1
  <2> QED BY <2>1
<1> HIDE DEF g
<1>3. \A i \in 1 .. 48 + n : g[PrefixLen + i] = f[PrefixLen + i]
  BY <1>1, <1>2, PrefixSize
<1>4. Bytes(g, PrefixLen, q, n)
  BY <1>3, PrefixSize, Shifted DEF Carries
<1>5. g[1] = f[1] /\ g[2] = f[2] /\ g[3] = f[3] /\ g[4] = f[4]
  BY <1>1, <1>2, PrefixSize
<1>6. Prefix(g)
  BY <1>5 DEF Carries, Prefix
<1>7. g \in Text(Byte, PrefixLen + 48 + n + 1)
  BY <1>1, <1>2, PrefixSize DEF Text
<1> QED BY <1>4, <1>6, <1>7 DEF Carries, g

\* The packet of a frame.
LEMMA PacketOf ==
  ASSUME NEW f \in Seq(Byte), NEW k \in Nat, Len(f) = PrefixLen + k
  PROVE  IsPart(Byte, SubSeq(f, PrefixLen + 1, Len(f)), f, PrefixLen, k)
BY PrefixSize, Part

\* A frame that lost bytes at its end does not parse.
LEMMA Shorter ==
  ASSUME NEW n \in Nat, NEW q, NEW f, Carries(f, q, n, 0),
         NEW m \in Nat, m < Len(f)
  PROVE  ~Parses(SubSeq(f, 1, m))
<1>1. f \in Seq(Byte) /\ Len(f) = PrefixLen + 48 + n
  BY PrefixSize DEF Carries, Text
<1> DEFINE g   == SubSeq(f, 1, m)
           pkt == SubSeq(g, PrefixLen + 1, Len(g))
<1>2. g \in Seq(Byte) /\ Len(g) = m /\ \A i \in 1 .. m : g[i] = f[i]
  <2>1. PICK o \in Nat : o = 0
    OBVIOUS
  <2>2. o + m <= Len(f)
    BY <1>1, <2>1, PrefixSize
  <2>3. IsPart(Byte, SubSeq(f, o + 1, o + m), f, o, m)
    BY <1>1, <2>2, Part
  <2> QED BY <2>1, <2>3 DEF Text, IsPart
<1> HIDE DEF g
<1>3. SUFFICES ASSUME Parses(g) PROVE FALSE
  BY DEF g
<1>4. Len(pkt) >= 48 /\ Len(pkt) >= 40 + Unpack16(pkt, 5)
  BY <1>3 DEF Parses
<1>5. PrefixLen <= m
  <2>1. CASE platform \in {"linux", "darwin"}
    BY <1>2, <1>3, <2>1, PrefixSize DEF Parses, HasPrefix
  <2>2. CASE platform \notin {"linux", "darwin"}
    BY <2>2 DEF PrefixLen
  <2> QED BY <2>1, <2>2
<1>6. Len(pkt) = m - PrefixLen /\ \A i \in 1 .. m - PrefixLen : pkt[i] = g[PrefixLen + i]
  <2>1. PICK k \in Nat : k = m - PrefixLen
    BY <1>5, PrefixSize
  <2>2. Len(g) = PrefixLen + k
    BY <1>2, <2>1, PrefixSize
  <2>3. IsPart(Byte, pkt, g, PrefixLen, k)
    BY <1>2, <2>2, PacketOf
  <2> QED BY <2>1, <2>3 DEF Text, IsPart
<1> HIDE DEF pkt
<1>7. pkt[5] = f[PrefixLen + 5] /\ pkt[6] = f[PrefixLen + 6]
  <2>1. m - PrefixLen >= 48
    BY <1>4, <1>6
  <2>2. /\ 5 \in 1 .. m - PrefixLen /\ 6 \in 1 .. m - PrefixLen
        /\ PrefixLen + 5 \in 1 .. m /\ PrefixLen + 6 \in 1 .. m
    BY <2>1, PrefixSize
  <2> QED BY <1>2, <1>6, <2>2
<1>8. Unpack16(pkt, 5) = 8 + n
  BY <1>7 DEF Unpack16, Carries, Bytes
<1> QED BY <1>1, <1>4, <1>6, <1>8, PrefixSize

\* Addresses have 16 bytes.
LEMMA Addresses ==
  ASSUME NEW n \in Byte
  PROVE  Addr(n) \in Text(Byte, 16)
<1> DEFINE a == <<253>>
           z == Zeroes(14)
           l == <<n>>
           x == a \o z
           s == x \o l
<1>1. a \in Text(Byte, 1) /\ l \in Text(Byte, 1)
  <2>1. 253 \in Byte
    BY DEF Byte
  <2> QED BY <2>1 DEF Text
<1>2. z \in Text(Byte, 14)
  BY DEF Zeroes, Text, Byte
<1>3. s = Addr(n)
  BY DEF Addr
<1> HIDE DEF a, z, l
<1>4. Joined(Byte, x, a, 1, z, 14)
  BY <1>1, <1>2, Join
<1> HIDE DEF x
<1>5. Joined(Byte, s, x, 15, l, 1)
  <2>1. x \in Text(Byte, 15)
    BY <1>4 DEF Joined
  <2> QED BY <1>1, <2>1, Join
<1> HIDE DEF s
<1> QED BY <1>3, <1>5 DEF Joined

\* The parser recognises the prefix, on macOS in the byte order that is sent.
LEMMA PrefixFound ==
  ASSUME NEW f \in Seq(Byte), NEW k \in Nat, Len(f) = PrefixLen + k, Prefix(f)
  PROVE  HasPrefix(f)
<1>1. CASE platform = "linux"
  BY <1>1, PrefixSize DEF HasPrefix, Prefix, Unpack16
<1>2. CASE platform = "darwin"
  <2>1. Len(f) >= 4
    BY <1>2, PrefixSize
  <2>2. PICK o \in Nat : o = 0
    OBVIOUS
  <2> DEFINE s == SubSeq(f, 1, 4)
             t == <<0, 0, 0, AF_INET6>>
  <2>3. IsPart(Byte, SubSeq(f, o + 1, o + 4), f, o, 4)
    BY <2>1, <2>2, Part
  <2>4. s \in Seq(Byte) /\ Len(s) = 4 /\ s[1] = f[1] /\ s[2] = f[2] /\ s[3] = f[3] /\ s[4] = f[4]
    BY <2>2, <2>3 DEF Text, IsPart
  <2> HIDE DEF s
  <2>5. s[1] = 0 /\ s[2] = 0 /\ s[3] = 0 /\ s[4] = AF_INET6
    BY <1>2, <2>4 DEF Prefix
  <2>6. s = t
    BY <2>4, <2>5
  <2> QED BY <1>2, <2>1, <2>6 DEF HasPrefix, s
<1>3. CASE platform \notin {"linux", "darwin"}
  BY <1>3 DEF HasPrefix
<1> QED BY <1>1, <1>2, <1>3

\* The parser reads back what the frame carries.
LEMMA Parsed ==
  ASSUME NEW n \in Nat, NEW q \in Echoes(n), NEW k \in Nat,
         NEW f, Carries(f, q, n, k)
  PROVE  Parses(f) /\ parse_ipv6_icmpv6_echo(f) = q
<1>1. f \in Seq(Byte) /\ Len(f) = PrefixLen + (48 + n + k) /\ Prefix(f) /\ HasPrefix(f)
  <2>1. f \in Seq(Byte) /\ Len(f) = PrefixLen + (48 + n + k) /\ Prefix(f)
    BY PrefixSize DEF Carries, Text
  <2>2. 48 + n + k \in Nat
    OBVIOUS
  <2> QED BY <2>1, <2>2, PrefixFound
<1> DEFINE pkt  == SubSeq(f, PrefixLen + 1, Len(f))
           icmp == Slice(pkt, 41, Unpack16(pkt, 5))
           p    == parse_ipv6_icmpv6_echo(f)
<1>2. IsPart(Byte, pkt, f, PrefixLen, 48 + n + k)
  <2>1. 48 + n + k \in Nat
    OBVIOUS
  <2> QED BY <1>1, <2>1, PacketOf
<1>3. p = [src |-> Slice(pkt, 9, 16), dst |-> Slice(pkt, 25, 16), icmp_type |-> icmp[1],
           ident |-> Unpack16(icmp, 5), seq |-> Unpack16(icmp, 7),
           data |-> SubSeq(icmp, 9, Len(icmp))]
  BY DEF parse_ipv6_icmpv6_echo
<1>4. HasPrefix(f) /\ Len(pkt) >= 48 /\ pkt[1] \div 16 = 6 /\ pkt[7] = IPPROTO_ICMPV6
      /\ Len(pkt) >= 40 + Unpack16(pkt, 5) /\ Unpack16(pkt, 5) >= 8 => Parses(f)
  BY DEF Parses
<1> HIDE DEF pkt, p
<1>5. Bytes(pkt, 0, q, n)
  <2>1. \A i \in 1 .. 48 + n : pkt[0 + i] = f[PrefixLen + i]
    BY <1>2 DEF IsPart
  <2> QED BY <2>1, PrefixSize, Shifted DEF Carries
<1>6. /\ pkt[1] = 96 /\ Unpack16(pkt, 5) = 8 + n /\ pkt[7] = IPPROTO_ICMPV6
      /\ \A i \in 1 .. 16 : pkt[8 + i] = q.src[i] /\ pkt[24 + i] = q.dst[i]
      /\ pkt[41] = q.icmp_type /\ 256 * pkt[45] + pkt[46] = q.ident
      /\ 256 * pkt[47] + pkt[48] = q.seq
      /\ \A i \in 1 .. n : pkt[48 + i] = q.data[i]
  BY <1>5 DEF Bytes, Unpack16
<1>7. Parses(f)
  <2>1. Len(pkt) = 48 + n + k
    BY <1>2 DEF IsPart, Text
  <2>2. 96 \div 16 = 6
    OBVIOUS
  <2>3. pkt[1] \div 16 = 6
    BY <1>6, <2>2
  <2>4. Len(pkt) >= 48
    BY <2>1
  <2>5. Len(pkt) >= 40 + Unpack16(pkt, 5) /\ Unpack16(pkt, 5) >= 8
    <3>1. Unpack16(pkt, 5) = 8 + n
      BY <1>6
    <3> QED BY <2>1, <3>1
  <2> QED BY <1>1, <1>4, <1>6, <2>3, <2>4, <2>5
<1>8. IsPart(Byte, icmp, pkt, 40, 8 + n)
  <2>1. pkt \in Seq(Byte) /\ 40 + (8 + n) <= Len(pkt) /\ 8 + n \in Nat
    BY <1>2 DEF IsPart, Text
  <2>2. IsPart(Byte, Slice(pkt, 41, 8 + n), pkt, 40, 8 + n)
    BY <2>1, SlicePart
  <2> QED BY <1>6, <2>2
<1> HIDE DEF icmp
<1>9. icmp[1] = q.icmp_type /\ Unpack16(icmp, 5) = q.ident /\ Unpack16(icmp, 7) = q.seq
  BY <1>6, <1>8 DEF IsPart, Unpack16
<1>10. Slice(pkt, 9, 16) = q.src /\ Slice(pkt, 25, 16) = q.dst
  <2>1. pkt \in Seq(Byte) /\ 8 + 16 <= Len(pkt) /\ 24 + 16 <= Len(pkt)
    BY <1>2 DEF IsPart, Text
  <2>2. IsPart(Byte, Slice(pkt, 9, 16), pkt, 8, 16) /\ IsPart(Byte, Slice(pkt, 25, 16), pkt, 24, 16)
    BY <2>1, SlicePart
  <2>3. q.src \in Text(Byte, 16) /\ q.dst \in Text(Byte, 16)
    BY DEF Echoes
  <2> QED BY <1>6, <2>2, <2>3, SameText DEF IsPart
<1>11. SubSeq(icmp, 9, Len(icmp)) = q.data
  <2>1. icmp \in Seq(Byte) /\ Len(icmp) = 8 + n
    BY <1>8 DEF IsPart, Text
  <2>2. SubSeq(icmp, 9, Len(icmp)) = Slice(icmp, 9, n)
    BY <2>1 DEF Slice
  <2>3. IsPart(Byte, Slice(icmp, 9, n), icmp, 8, n)
    BY <2>1, SlicePart
  <2>4. \A i \in 1 .. n : icmp[8 + i] = q.data[i]
    <3> SUFFICES ASSUME NEW i \in 1 .. n PROVE icmp[8 + i] = q.data[i]
      OBVIOUS
    <3>1. icmp[8 + i] = pkt[40 + (8 + i)] /\ 40 + (8 + i) = 48 + i
      BY <1>8 DEF IsPart
    <3> QED BY <1>6, <3>1
  <2>5. q.data \in Text(Byte, n)
    BY DEF Echoes
  <2> QED BY <2>2, <2>3, <2>4, <2>5, SameText DEF IsPart
<1>12. q = [src |-> q.src, dst |-> q.dst, icmp_type |-> q.icmp_type, ident |-> q.ident,
            seq |-> q.seq, data |-> q.data]
  BY DEF Echoes
<1> QED BY <1>3, <1>7, <1>9, <1>10, <1>11, <1>12 DEF p

\* What the parser returns for any frame it accepts.
LEMMA Fields ==
  ASSUME NEW f \in Seq(Byte), Parses(f)
  PROVE  \E n \in Sizes : parse_ipv6_icmpv6_echo(f) \in Echoes(n)
<1> DEFINE pkt  == SubSeq(f, PrefixLen + 1, Len(f))
           len  == Unpack16(pkt, 5)
           icmp == Slice(pkt, 41, len)
           data == SubSeq(icmp, 9, Len(icmp))
           p    == parse_ipv6_icmpv6_echo(f)
<1>1. Len(pkt) >= 48 /\ Len(pkt) >= 40 + len /\ len >= 8
  BY DEF Parses
<1>2. p = [src |-> Slice(pkt, 9, 16), dst |-> Slice(pkt, 25, 16), icmp_type |-> icmp[1],
           ident |-> Unpack16(icmp, 5), seq |-> Unpack16(icmp, 7), data |-> data]
  BY DEF parse_ipv6_icmpv6_echo
<1>3. pkt \in Seq(Byte)
  <2>1. \A i \in PrefixLen + 1 .. Len(f) : f[i] \in Byte
    BY ElementOfSeq, PrefixSize
  <2>2. PrefixLen + 1 \in Int /\ Len(f) \in Int
    BY PrefixSize
  <2> QED BY <2>1, <2>2, SubSeqProperties
<1> HIDE DEF pkt, p
<1>4. PICK n \in Sizes : len = 8 + n /\ n \in Nat
  <2>1. pkt[5] \in Byte /\ pkt[6] \in Byte
    BY <1>1, <1>3, ElementOfSeq
  <2>2. len \in 0 .. Ones16
    BY <2>1, Reads16 DEF Unpack16
  <2> HIDE DEF len
  <2>3. len - 8 \in Nat /\ len = 8 + (len - 8) /\ 8 + (len - 8) <= Ones16
    BY <1>1, <2>2
  <2> QED BY <2>3 DEF Sizes
<1>5. IsPart(Byte, icmp, pkt, 40, 8 + n)
  <2>1. 40 + (8 + n) <= Len(pkt) /\ 8 + n \in Nat
    BY <1>1, <1>4
  <2>2. IsPart(Byte, Slice(pkt, 41, 8 + n), pkt, 40, 8 + n)
    BY <1>3, <2>1, SlicePart
  <2> QED BY <1>4, <2>2
<1> HIDE DEF len, icmp
<1>6. icmp \in Seq(Byte) /\ Len(icmp) = 8 + n
  BY <1>5 DEF IsPart, Text
<1>7. icmp[1] \in Byte /\ Unpack16(icmp, 5) \in 0 .. Ones16 /\ Unpack16(icmp, 7) \in 0 .. Ones16
  <2>1. \A i \in 1 .. 8 : icmp[i] \in Byte
    BY <1>4, <1>6, ElementOfSeq
  <2>2. /\ icmp[1] \in Byte /\ icmp[5] \in Byte /\ icmp[6] \in Byte /\ icmp[7] \in Byte
        /\ icmp[8] \in Byte
    BY <2>1
  <2>3. 256 * icmp[5] + icmp[6] \in 0 .. Ones16 /\ 256 * icmp[7] + icmp[8] \in 0 .. Ones16
    BY <2>2, Reads16
  <2>4. Unpack16(icmp, 5) = 256 * icmp[5] + icmp[6] /\ Unpack16(icmp, 7) = 256 * icmp[7] + icmp[8]
    BY DEF Unpack16
  <2> QED BY <2>2, <2>3, <2>4
<1>8. Slice(pkt, 9, 16) \in Text(Byte, 16) /\ Slice(pkt, 25, 16) \in Text(Byte, 16)
  <2>1. 8 + 16 <= Len(pkt) /\ 24 + 16 <= Len(pkt)
    BY <1>1, <1>3
  <2>2. IsPart(Byte, Slice(pkt, 9, 16), pkt, 8, 16) /\ IsPart(Byte, Slice(pkt, 25, 16), pkt, 24, 16)
    BY <1>3, <2>1, SlicePart
  <2> QED BY <2>2 DEF IsPart
<1>9. data \in Text(Byte, n)
  <2>1. data = Slice(icmp, 9, n)
    BY <1>4, <1>6 DEF Slice
  <2>2. IsPart(Byte, Slice(icmp, 9, n), icmp, 8, n)
    BY <1>4, <1>6, SlicePart
  <2> QED BY <2>1, <2>2 DEF IsPart
<1> HIDE DEF data
<1>10. p \in Echoes(n)
  BY <1>2, <1>7, <1>8, <1>9 DEF Echoes
<1> QED BY <1>10 DEF p

-----------------------------------------------------------------------------
(* The checksum of a message *)

\* The word of bytes k and l of d, l being perhaps behind its end m.
WordAt(d, m, k, l) == 256 * d[k] + (IF l <= m THEN d[l] ELSE 0)

\* The words of m bytes: how many there are and which bytes they have.
LEMMA WordsOf ==
  ASSUME NEW m \in Nat, NEW d \in Text(Byte, m), NEW h, h = (m + 1) \div 2
  PROVE  /\ Words(d) \in Seq(0 .. Ones16) /\ Len(Words(d)) = h
         /\ \A i \in 1 .. h : Words(d)[i] = WordAt(d, m, 2 * i - 1, 2 * i)
<1>1. d \in Seq(Byte) /\ Len(d) = m
  BY DEF Text
<1>2. h \in Nat /\ 2 * h <= m + 1
  OBVIOUS
<1> DEFINE Word(i) == WordAt(d, m, 2 * i - 1, 2 * i)
<1>3. ASSUME NEW i \in 1 .. h PROVE Word(i) \in 0 .. Ones16
  <2>1. 2 * i - 1 \in 1 .. m /\ (2 * i <= m => 2 * i \in 1 .. m)
    BY <1>2
  <2>2. d[2 * i - 1] \in Byte /\ (2 * i <= m => d[2 * i] \in Byte) /\ 0 \in Byte
    <3>1. 0 \in Byte
      BY DEF Byte
    <3> QED BY <1>1, <2>1, <3>1, ElementOfSeq
  <2> QED BY <2>2, Reads16 DEF WordAt
<1>4. Words(d) = [i \in 1 .. h |-> Word(i)]
  BY <1>1 DEF Words, WordAt
<1> HIDE DEF Word
<1>5. [i \in 1 .. h |-> Word(i)] \in Seq(0 .. Ones16) /\ Len([i \in 1 .. h |-> Word(i)]) = h
  BY <1>2, <1>3
<1> QED BY <1>4, <1>5 DEF Word

\* Bytes 43 and 44, those of the checksum behind the pseudo header, are word 22.
LEMMA ChecksumWord ==
  ASSUME NEW m \in Nat, m >= 44, NEW d \in Text(Byte, m), NEW e \in Text(Byte, m),
         \A i \in 1 .. m : i \notin {43, 44} => e[i] = d[i]
  PROVE  /\ Len(Words(e)) = Len(Words(d)) /\ 22 \in 1 .. Len(Words(d))
         /\ Words(d)[22] = 256 * d[43] + d[44] /\ Words(e)[22] = 256 * e[43] + e[44]
         /\ \A i \in 1 .. Len(Words(d)) : i # 22 => Words(e)[i] = Words(d)[i]
<1>1. PICK h \in Nat : h = (m + 1) \div 2 /\ 2 * h <= m + 1 /\ h >= 22
  OBVIOUS
<1>2. /\ Len(Words(d)) = h /\ Len(Words(e)) = h
      /\ \A i \in 1 .. h : Words(d)[i] = WordAt(d, m, 2 * i - 1, 2 * i)
      /\ \A i \in 1 .. h : Words(e)[i] = WordAt(e, m, 2 * i - 1, 2 * i)
  BY <1>1, WordsOf
<1>3. 22 \in 1 .. h /\ 2 * 22 - 1 = 43 /\ 2 * 22 = 44 /\ 2 * 22 <= m
  BY <1>1
<1>4. Words(d)[22] = 256 * d[43] + d[44] /\ Words(e)[22] = 256 * e[43] + e[44]
  <2>1. Words(d)[22] = WordAt(d, m, 43, 44) /\ Words(e)[22] = WordAt(e, m, 43, 44)
    BY <1>2, <1>3
  <2> QED BY <1>3, <2>1 DEF WordAt
<1>5. ASSUME NEW i \in 1 .. h, i # 22 PROVE Words(e)[i] = Words(d)[i]
  <2>1. /\ 2 * i - 1 \in 1 .. m /\ 2 * i - 1 \notin {43, 44}
        /\ 2 * i <= m => 2 * i \in 1 .. m /\ 2 * i \notin {43, 44}
    BY <1>1, <1>5
  <2>2. e[2 * i - 1] = d[2 * i - 1] /\ (2 * i <= m => e[2 * i] = d[2 * i])
    BY <2>1
  <2>3. WordAt(e, m, 2 * i - 1, 2 * i) = WordAt(d, m, 2 * i - 1, 2 * i)
    BY <2>2 DEF WordAt
  <2> QED BY <1>2, <2>3
<1> QED BY <1>2, <1>3, <1>4, <1>5

\* The pseudo header has 40 bytes.
LEMMA PseudoBytes ==
  ASSUME NEW len \in 0 .. Ones16, NEW src \in Text(Byte, 16), NEW dst \in Text(Byte, 16)
  PROVE  Pseudo(len, src, dst) \in Text(Byte, 40)
<1> DEFINE z == <<0, 0>>
           w == Pack16(len)
           t == <<0, 0, 0, IPPROTO_ICMPV6>>
           a == src \o dst
           b == a \o z
           c == b \o w
           p == c \o t
<1>1. z \in Text(Byte, 2) /\ t \in Text(Byte, 4) /\ w \in Text(Byte, 2)
  <2>1. z \in Text(Byte, 2) /\ t \in Text(Byte, 4)
    BY DEF Text, Byte, IPPROTO_ICMPV6
  <2> QED BY <2>1, Words16
<1>2. p = Pseudo(len, src, dst)
  BY DEF Pseudo
<1> HIDE DEF z, w, t
<1>3. a \in Text(Byte, 32)
  BY Join DEF Joined
<1> HIDE DEF a
<1>4. b \in Text(Byte, 34)
  BY <1>1, <1>3, Join DEF Joined
<1> HIDE DEF b
<1>5. c \in Text(Byte, 36)
  BY <1>1, <1>4, Join DEF Joined
<1> HIDE DEF c
<1>6. p \in Text(Byte, 40)
  BY <1>1, <1>5, Join DEF Joined
<1> QED BY <1>2, <1>6

\* The checksum of a byte string fits its field.
LEMMA ChecksumFits ==
  ASSUME NEW m \in Nat, NEW d \in Text(Byte, m)
  PROVE  _checksum(d) \in 0 .. Ones16
<1>1. Words(d) \in Seq(0 .. Ones16)
  BY WordsOf
<1>2. PICK t \in 0 .. Ones16 : t = Totals(Words(d))[Len(Words(d))]
  BY <1>1, TotalIsSum
<1>3. Ones16 - t \in 0 .. Ones16
  BY Ones
<1> QED BY <1>2, <1>3 DEF _checksum

\* Pseudo header p and a message with the checksum of p and the blank message.
LEMMA Checked ==
  ASSUME NEW n \in Nat, NEW p \in Text(Byte, 40), NEW type \in Byte, NEW ident \in 0 .. Ones16,
         NEW seq \in 0 .. Ones16, NEW data \in Text(Byte, n)
  PROVE  LET blank == p \o Echo(type, 0, ident, seq, data)
             c     == _checksum(blank)
             ws    == Words(p \o Echo(type, c, ident, seq, data))
         IN  c \in 0 .. Ones16 /\ Verified(ws)
<1> DEFINE e == Echo(type, 0, ident, seq, data)
           d == p \o e
<1>1. PICK c : c = _checksum(d)
  OBVIOUS
<1> DEFINE f == Echo(type, c, ident, seq, data)
           g == p \o f
<1>2. IsMessage(e, type, 0, ident, seq, data, n)
  <2>1. 0 \in 0 .. Ones16
    BY Ones
  <2> QED BY <2>1, Message
<1>3. Joined(Byte, d, p, 40, e, 8 + n)
  <2>1. 8 + n \in Nat /\ e \in Text(Byte, 8 + n)
    BY <1>2 DEF IsMessage
  <2> HIDE DEF e
  <2> QED BY <2>1, Join
<1>4. d \in Text(Byte, 48 + n) /\ 48 + n \in Nat /\ 40 + (8 + n) = 48 + n
  <2>1. 48 + n \in Nat /\ 40 + (8 + n) = 48 + n
    OBVIOUS
  <2> HIDE DEF d, e
  <2> QED BY <1>3, <2>1 DEF Joined
<1>5. c \in 0 .. Ones16
  <2> HIDE DEF d
  <2> QED BY <1>1, <1>4, ChecksumFits
<1>6. IsMessage(f, type, c, ident, seq, data, n)
  BY <1>5, Message
<1>7. Joined(Byte, g, p, 40, f, 8 + n)
  <2>1. 8 + n \in Nat /\ f \in Text(Byte, 8 + n)
    BY <1>6 DEF IsMessage
  <2> HIDE DEF f
  <2> QED BY <2>1, Join
<1> HIDE DEF d, e, f, g
<1>8. g \in Text(Byte, 48 + n)
  BY <1>4, <1>7 DEF Joined
<1>9. ASSUME NEW i \in 1 .. 8 + n, i \notin {3, 4} PROVE f[i] = e[i]
  <2>1. CASE i <= 8
    <3>1. i = 1 \/ i = 2 \/ i = 5 \/ i = 6 \/ i = 7 \/ i = 8
      BY <1>9, <2>1
    <3>2. 4 + 1 = 5 /\ 4 + 2 = 6 /\ 6 + 1 = 7 /\ 6 + 2 = 8 /\ 1 \in 1 .. 2 /\ 2 \in 1 .. 2
      OBVIOUS
    <3>3. /\ f[1] = e[1] /\ f[2] = e[2] /\ f[5] = e[5] /\ f[6] = e[6]
          /\ f[7] = e[7] /\ f[8] = e[8]
      BY <1>2, <1>6, <3>2 DEF IsMessage
    <3> QED BY <3>1, <3>3
  <2>2. CASE i > 8
    <3>1. PICK k \in 1 .. n : i = 8 + k
      <4>1. i - 8 \in 1 .. n /\ i = 8 + (i - 8)
        BY <2>2
      <4> QED BY <4>1
    <3> QED BY <1>2, <1>6, <3>1 DEF IsMessage
  <2> QED BY <2>1, <2>2
<1>10. ASSUME NEW i \in 1 .. 48 + n, i \notin {43, 44} PROVE g[i] = d[i]
  <2>1. CASE i <= 40
    <3>1. i \in 1 .. 40
      BY <2>1
    <3> QED BY <1>3, <1>7, <3>1 DEF Joined
  <2>2. CASE i > 40
    <3>1. PICK k \in 1 .. 8 + n : i = 40 + k /\ k \notin {3, 4}
      <4>1. i - 40 \in 1 .. 8 + n /\ i = 40 + (i - 40) /\ i - 40 \notin {3, 4}
        BY <1>10, <2>2
      <4> QED BY <4>1
    <3>2. g[40 + k] = f[k] /\ d[40 + k] = e[k]
      BY <1>3, <1>7 DEF Joined
    <3> QED BY <1>9, <3>1, <3>2
  <2> QED BY <2>1, <2>2
<1>11. 256 * d[43] + d[44] = 0 /\ 256 * g[43] + g[44] = c
  <2>1. 3 \in 1 .. 8 + n /\ 4 \in 1 .. 8 + n /\ 40 + 3 = 43 /\ 40 + 4 = 44
    OBVIOUS
  <2>2. d[43] = e[3] /\ d[44] = e[4] /\ g[43] = f[3] /\ g[44] = f[4]
    BY <1>3, <1>7, <2>1 DEF Joined
  <2> QED BY <1>2, <1>6, <2>2 DEF IsMessage
<1> DEFINE v == Words(d)
           w == Words(g)
<1>12. v \in Seq(0 .. Ones16) /\ w \in Seq(0 .. Ones16)
  BY <1>4, <1>8, WordsOf
<1>13. /\ Len(w) = Len(v) /\ 22 \in 1 .. Len(v) /\ v[22] = 0 /\ w[22] = c
       /\ \A i \in 1 .. Len(v) : i # 22 => w[i] = v[i]
  <2>1. 48 + n >= 44
    OBVIOUS
  <2> QED BY <1>4, <1>8, <1>10, <1>11, <2>1, ChecksumWord
<1>14. c = Ones16 - Totals(v)[Len(v)]
  BY <1>1 DEF _checksum
<1> HIDE DEF v, w
<1>15. Verified(w)
  BY <1>12, <1>13, <1>14, Verifies
<1> QED BY <1>1, <1>5, <1>15 DEF d, e, f, g, w

-----------------------------------------------------------------------------
(* Replies *)

\* The answer to the echo q.
Answered(q) == [q EXCEPT !.src = q.dst, !.dst = q.src, !.icmp_type = ICMPV6_ECHO_REPLY]

\* The fields of the answer.
LEMMA AnsweredFields ==
  ASSUME NEW n \in Nat, NEW q \in Echoes(n)
  PROVE  Answered(q) = [src |-> q.dst, dst |-> q.src, icmp_type |-> ICMPV6_ECHO_REPLY,
                        ident |-> q.ident, seq |-> q.seq, data |-> q.data]
<1> DEFINE r == [q EXCEPT !.src = q.dst]
           s == [r EXCEPT !.dst = q.src]
           t == [s EXCEPT !.icmp_type = ICMPV6_ECHO_REPLY]
<1>1. /\ r \in Echoes(n) /\ r.src = q.dst
      /\ r.ident = q.ident /\ r.seq = q.seq /\ r.data = q.data
  BY DEF Echoes
<1>2. Answered(q) = t
  BY DEF Answered
<1> HIDE DEF r
<1>3. /\ s \in Echoes(n) /\ s.src = r.src /\ s.dst = q.src
      /\ s.ident = r.ident /\ s.seq = r.seq /\ s.data = r.data
  BY <1>1 DEF Echoes
<1> HIDE DEF s
<1>4. /\ t \in Echoes(n) /\ t.src = s.src /\ t.dst = s.dst
      /\ t.icmp_type = ICMPV6_ECHO_REPLY
      /\ t.ident = s.ident /\ t.seq = s.seq /\ t.data = s.data
  <2>1. ICMPV6_ECHO_REPLY \in Byte
    BY DEF ICMPV6_ECHO_REPLY, Byte
  <2> QED BY <1>3, <2>1 DEF Echoes
<1> HIDE DEF t
<1> QED BY <1>1, <1>2, <1>3, <1>4 DEF Echoes

\* The reply to a frame is the frame of the answer, with a checksum that verifies.
LEMMA ReplyBuilt ==
  ASSUME NEW f, NEW n \in Sizes, NEW p \in Echoes(n), p = parse_ipv6_icmpv6_echo(f)
  PROVE  \E sum \in 0 .. Ones16 :
           LET e  == Echo(ICMPV6_ECHO_REPLY, sum, p.ident, p.seq, p.data)
               ws == Words(Pseudo(8 + n, p.dst, p.src) \o e)
           IN  /\ Reply(f) = add_tun_prefix(Ipv6(8 + n, p.dst, p.src) \o e)
               /\ Verified(ws)
<1> DEFINE h == Pseudo(8 + n, p.dst, p.src)
<1>1. /\ p.src \in Text(Byte, 16) /\ p.dst \in Text(Byte, 16) /\ p.data \in Text(Byte, n)
      /\ p.ident \in 0 .. Ones16 /\ p.seq \in 0 .. Ones16
      /\ n \in Nat /\ 8 + n \in 0 .. Ones16 /\ 8 + Len(p.data) = 8 + n
  BY DEF Echoes, Sizes, Text
<1>2. h \in Text(Byte, 40)
  BY <1>1, PseudoBytes
<1>3. ICMPV6_ECHO_REPLY \in Byte
  BY DEF ICMPV6_ECHO_REPLY, Byte
<1>4. Reply(f) = add_tun_prefix(Ipv6(8 + n, p.dst, p.src)
                   \o Echo(ICMPV6_ECHO_REPLY,
                           _checksum(h \o Echo(ICMPV6_ECHO_REPLY, 0, p.ident, p.seq, p.data)),
                           p.ident, p.seq, p.data))
  BY <1>1 DEF Reply
<1> DEFINE E(s) == Echo(ICMPV6_ECHO_REPLY, s, p.ident, p.seq, p.data)
           W(s) == Words(h \o E(s))
<1> HIDE DEF h
<1>5. PICK c : c = _checksum(h \o E(0))
  OBVIOUS
<1>6. c \in 0 .. Ones16 /\ Verified(W(c))
  BY <1>1, <1>2, <1>3, <1>5, Checked
<1>7. Reply(f) = add_tun_prefix(Ipv6(8 + n, p.dst, p.src) \o E(c))
  BY <1>4, <1>5
<1> QED BY <1>6, <1>7 DEF h

\* The reply to a frame parses as the answer.
LEMMA ReplyParses ==
  ASSUME NEW f, NEW n \in Sizes, parse_ipv6_icmpv6_echo(f) \in Echoes(n)
  PROVE  /\ Parses(Reply(f))
         /\ parse_ipv6_icmpv6_echo(Reply(f)) = Answered(parse_ipv6_icmpv6_echo(f))
         /\ Len(Reply(f)) = PrefixLen + 48 + n
<1>0. n \in Nat
  BY DEF Sizes
<1>1. PICK p \in Echoes(n) : p = parse_ipv6_icmpv6_echo(f)
  OBVIOUS
<1>2. PICK sum \in 0 .. Ones16 :
             Reply(f) = add_tun_prefix(Ipv6(8 + n, p.dst, p.src)
                                       \o Echo(ICMPV6_ECHO_REPLY, sum, p.ident, p.seq, p.data))
  BY <1>1, ReplyBuilt
<1> DEFINE a == Answered(p)
<1>3. a \in Echoes(n) /\ a.src = p.dst /\ a.dst = p.src /\ a.icmp_type = ICMPV6_ECHO_REPLY
      /\ a.ident = p.ident /\ a.seq = p.seq /\ a.data = p.data
  <2>1. /\ p.src \in Text(Byte, 16) /\ p.dst \in Text(Byte, 16) /\ p.data \in Text(Byte, n)
        /\ p.ident \in 0 .. Ones16 /\ p.seq \in 0 .. Ones16
    BY DEF Echoes
  <2>2. ICMPV6_ECHO_REPLY \in Byte
    BY DEF ICMPV6_ECHO_REPLY, Byte
  <2>3. a = [src |-> p.dst, dst |-> p.src, icmp_type |-> ICMPV6_ECHO_REPLY, ident |-> p.ident,
             seq |-> p.seq, data |-> p.data]
    BY <1>0, AnsweredFields
  <2> HIDE DEF a
  <2> QED BY <2>1, <2>2, <2>3 DEF Echoes
<1> HIDE DEF a
<1>4. Carries(Reply(f), a, n, 0)
  <2>1. Carries(add_tun_prefix(Ipv6(8 + n, a.src, a.dst)
                               \o Echo(a.icmp_type, sum, a.ident, a.seq, a.data)), a, n, 0)
    BY <1>3, FrameBuilt
  <2> QED BY <1>2, <1>3, <2>1
<1>5. Parses(Reply(f)) /\ parse_ipv6_icmpv6_echo(Reply(f)) = a
  BY <1>0, <1>3, <1>4, Parsed
<1>6. Len(Reply(f)) = PrefixLen + 48 + n
  BY <1>0, <1>4, PrefixSize DEF Carries, Text
<1> QED BY <1>1, <1>5, <1>6 DEF a

\* Header and message of a frame, taken apart again.
LEMMA TakenApart ==
  ASSUME NEW n \in Sizes, NEW h \in Text(Byte, 40), NEW e \in Text(Byte, 8 + n)
  PROVE  LET pkt == Packet(add_tun_prefix(h \o e))
         IN  pkt = h \o e /\ Len(pkt) - 40 = 8 + n /\ SubSeq(pkt, 41, Len(pkt)) = e
<1> DEFINE c   == h \o e
           f   == add_tun_prefix(c)
           pkt == SubSeq(f, PrefixLen + 1, Len(f))
<1>1. 8 + n \in Nat /\ 48 + n \in Nat /\ 40 + (8 + n) = 48 + n
  BY DEF Sizes
<1>2. Joined(Byte, c, h, 40, e, 8 + n)
  BY <1>1, Join
<1> HIDE DEF c
<1>3. c \in Text(Byte, 48 + n)
  BY <1>1, <1>2 DEF Joined
<1>4. f \in Text(Byte, PrefixLen + (48 + n)) /\ \A i \in 1 .. 48 + n : f[PrefixLen + i] = c[i]
  BY <1>1, <1>3, Prefixed
<1> HIDE DEF f
<1>5. IsPart(Byte, pkt, f, PrefixLen, 48 + n)
  BY <1>1, <1>4, PacketOf DEF Text
<1>6. pkt = c
  <2> HIDE DEF pkt
  <2>1. pkt \in Text(Byte, 48 + n) /\ \A i \in 1 .. 48 + n : pkt[i] = c[i]
    BY <1>4, <1>5 DEF IsPart
  <2> QED BY <1>1, <1>3, <2>1, SameText
<1>7. c \in Seq(Byte) /\ Len(c) = 48 + n
  BY <1>3 DEF Text
<1>8. IsPart(Byte, SubSeq(c, 40 + 1, 40 + (8 + n)), c, 40, 8 + n)
  BY <1>1, <1>7, Part
<1>9. SubSeq(c, 41, Len(c)) = e
  <2>1. PICK s : s = SubSeq(c, 40 + 1, 40 + (8 + n))
    OBVIOUS
  <2>2. s \in Text(Byte, 8 + n) /\ \A i \in 1 .. 8 + n : s[i] = e[i]
    BY <1>2, <1>8, <2>1 DEF IsPart, Joined
  <2>3. s = e
    BY <1>1, <2>2, SameText
  <2> QED BY <1>1, <1>7, <2>1, <2>3
<1>10. Packet(f) = c /\ Len(c) - 40 = 8 + n
  BY <1>1, <1>6, <1>7 DEF Packet
<1> QED BY <1>9, <1>10 DEF c, f

\* The words the kernel sums up of a reply are those the checksum was made for.
LEMMA ReplyVerifies ==
  ASSUME NEW f, NEW n \in Sizes, parse_ipv6_icmpv6_echo(f) \in Echoes(n)
  PROVE  LET pkt == Packet(Reply(f))
             ws  == Words(Pseudo(Len(pkt) - 40, Slice(pkt, 9, 16), Slice(pkt, 25, 16))
                          \o SubSeq(pkt, 41, Len(pkt)))
         IN  Verified(ws)
<1>1. PICK p \in Echoes(n) : p = parse_ipv6_icmpv6_echo(f)
  OBVIOUS
<1> DEFINE E(sum) == Echo(ICMPV6_ECHO_REPLY, sum, p.ident, p.seq, p.data)
           W(e) == Words(Pseudo(8 + n, p.dst, p.src) \o e)
           h == Ipv6(8 + n, p.dst, p.src)
<1>2. PICK sum \in 0 .. Ones16 : /\ Reply(f) = add_tun_prefix(h \o E(sum))
                                 /\ Verified(W(E(sum)))
  BY <1>1, ReplyBuilt
<1> DEFINE e == E(sum)
           pkt == Packet(Reply(f))
<1>3. /\ p.src \in Text(Byte, 16) /\ p.dst \in Text(Byte, 16) /\ p.data \in Text(Byte, n)
      /\ p.ident \in 0 .. Ones16 /\ p.seq \in 0 .. Ones16
      /\ n \in Nat /\ 8 + n \in 0 .. Ones16 /\ ICMPV6_ECHO_REPLY \in Byte
  BY DEF Echoes, Sizes, ICMPV6_ECHO_REPLY, Byte
<1>4. h \in Text(Byte, 40)
  BY <1>3, Header DEF IsHeader
<1>5. e \in Text(Byte, 8 + n)
  <2>1. IsMessage(e, ICMPV6_ECHO_REPLY, sum, p.ident, p.seq, p.data, n)
    BY <1>3, Message
  <2> HIDE DEF e
  <2> QED BY <2>1 DEF IsMessage
<1>6. Reply(f) = add_tun_prefix(h \o e)
  BY <1>2
<1> HIDE DEF E, W, h, e
<1>7. pkt = h \o e /\ Len(pkt) - 40 = 8 + n /\ SubSeq(pkt, 41, Len(pkt)) = e
  BY <1>4, <1>5, <1>6, TakenApart
<1>8. Slice(pkt, 9, 16) = p.dst /\ Slice(pkt, 25, 16) = p.src
  <2>1. /\ parse_ipv6_icmpv6_echo(Reply(f)).src = Slice(pkt, 9, 16)
        /\ parse_ipv6_icmpv6_echo(Reply(f)).dst = Slice(pkt, 25, 16)
    BY DEF parse_ipv6_icmpv6_echo, Packet
  <2>2. parse_ipv6_icmpv6_echo(Reply(f)) = Answered(p)
    BY <1>1, ReplyParses
  <2>3. Answered(p).src = p.dst /\ Answered(p).dst = p.src
    <3>1. Answered(p) = [src |-> p.dst, dst |-> p.src, icmp_type |-> ICMPV6_ECHO_REPLY,
                         ident |-> p.ident, seq |-> p.seq, data |-> p.data]
      BY <1>3, AnsweredFields
    <3> QED BY <3>1
  <2> QED BY <2>1, <2>2, <2>3
<1>9. Words(Pseudo(Len(pkt) - 40, Slice(pkt, 9, 16), Slice(pkt, 25, 16))
            \o SubSeq(pkt, 41, Len(pkt))) = W(e)
  BY <1>7, <1>8 DEF W
<1>10. Verified(W(e))
  BY <1>2 DEF e
<1> QED BY <1>9, <1>10

-----------------------------------------------------------------------------
(* The exchange *)

Asks(q) == q.icmp_type = ICMPV6_ECHO_REQUEST /\ {q.src, q.dst} \subseteq {Local, Peer}

\* The frame is a request and k bytes more.
Asked(k) == \E n \in Sizes : \E q \in Echoes(n) : Asks(q) /\ Carries(frame, q, n, k)

\* The inductive invariant: what happened to the frame tells what it still carries.
FrameInv ==
  /\ frame \in Seq(Byte)
  /\ damage \in {"none", "cut", "byte", "tail"}
  /\ damage = "none" => Asked(0)
  /\ damage = "tail" => Asked(1)
  /\ damage = "cut" => ~Parses(frame)
  /\ reply # <<>> => reply = build_icmpv6_echo_reply_frame(frame)

\* Neither the parser nor the reply depends on anything but platform and frame.
LEMMA SameBuild ==
  ASSUME platform' = platform, frame' = frame
  PROVE  /\ build_icmpv6_echo_reply_frame(frame)' = build_icmpv6_echo_reply_frame(frame)
         /\ Parses(frame)' = Parses(frame)
BY DEF build_icmpv6_echo_reply_frame, Parses, HasPrefix, PrefixLen, parse_ipv6_icmpv6_echo, Reply,
   add_tun_prefix

\* A step that keeps the platform and leaves such a frame.
LEMMA AskedNext ==
  ASSUME NEW n \in Sizes, NEW q \in Echoes(n), Asks(q), NEW k \in {0, 1}, NEW f,
         Carries(f, q, n, k), platform' = platform, frame' = f
  PROVE  Asked(k)'
BY DEF Asked, Carries, Prefix, PrefixLen

\* The kernel's request is one.
LEMMA RequestAsks == Init => FrameInv
<1> SUFFICES ASSUME Init PROVE FrameInv
  OBVIOUS
<1>1. PICK ident \in Idents, seq \in Idents, data \in Payloads :
             frame = RequestFrame(ident, seq, data)
  BY DEF Init
<1>2. PICK n \in Sizes : n = Len(data) /\ data \in Text(Byte, n)
  <2>1. data \in Seq(Byte)
    BY FrameAssumption DEF Byte
  <2>2. Len(data) \in Nat /\ 8 + Len(data) <= Ones16
    BY <2>1, FrameAssumption
  <2> QED BY <2>1, <2>2 DEF Text, Sizes
<1> DEFINE q == [src |-> Local, dst |-> Peer, icmp_type |-> ICMPV6_ECHO_REQUEST,
                 ident |-> ident, seq |-> seq, data |-> data]
<1>3. ident \in 0 .. Ones16 /\ seq \in 0 .. Ones16
  BY FrameAssumption
<1>4. q \in Echoes(n)
  <2>1. 1 \in Byte /\ 2 \in Byte /\ ICMPV6_ECHO_REQUEST \in Byte
    BY DEF Byte, ICMPV6_ECHO_REQUEST
  <2>2. Local \in Text(Byte, 16) /\ Peer \in Text(Byte, 16)
    BY <2>1, Addresses DEF Local, Peer
  <2> QED BY <1>2, <1>3, <2>1, <2>2 DEF Echoes
<1>5. /\ Asks(q) /\ q.src = Local /\ q.dst = Peer /\ q.icmp_type = ICMPV6_ECHO_REQUEST
      /\ q.ident = ident /\ q.seq = seq /\ q.data = data
  BY DEF Asks
<1> HIDE DEF q
<1>6. 0 \in 0 .. Ones16
  BY Ones
<1>7. Carries(add_tun_prefix(Ipv6(8 + n, q.src, q.dst)
                                  \o Echo(q.icmp_type, 0, q.ident, q.seq, q.data)), q, n, 0)
  BY <1>4, <1>6, FrameBuilt
<1>8. Carries(frame, q, n, 0)
  BY <1>1, <1>2, <1>5, <1>7 DEF RequestFrame
<1>9. frame \in Seq(Byte)
  BY <1>8 DEF Carries, Text
<1> QED BY <1>4, <1>5, <1>8, <1>9 DEF Init, FrameInv, Asked

\* Every damage and the answer keep the invariant.
LEMMA FrameStep == FrameInv /\ [Next]_vars => FrameInv'
<1> SUFFICES ASSUME FrameInv, [Next]_vars PROVE FrameInv'
  OBVIOUS
<1>1. CASE UNCHANGED vars
  <2>1. Asked(0) => Asked(0)'
    BY <1>1, AskedNext DEF Asked, vars
  <2>2. Asked(1) => Asked(1)'
    BY <1>1, AskedNext DEF Asked, vars
  <2> QED BY <1>1, <2>1, <2>2, SameBuild DEF FrameInv, vars
<1>2. CASE Answer
  <2>1. Asked(0) => Asked(0)'
    BY <1>2, AskedNext DEF Asked, Answer
  <2>2. Asked(1) => Asked(1)'
    BY <1>2, AskedNext DEF Asked, Answer
  <2> QED BY <1>2, <2>1, <2>2, SameBuild DEF FrameInv, Answer
<1>3. ASSUME NEW m \in 0 .. Len(frame), Cut(m) PROVE FrameInv'
  <2>0. PICK n \in Sizes : \E q \in Echoes(n) : Carries(frame, q, n, 0)
    BY <1>3 DEF FrameInv, Cut, Mangled, Asked
  <2>1. PICK q \in Echoes(n) : Carries(frame, q, n, 0)
    BY <2>0
  <2>2. PICK f : f = SubSeq(frame, 1, m)
    OBVIOUS
  <2>3. m \in Nat /\ m < Len(frame)
    BY <1>3 DEF Cut, FrameInv
  <2>4. ~Parses(f)
    <3>1. n \in Nat
      BY DEF Sizes
    <3> QED BY <2>1, <2>2, <2>3, <3>1, Shorter
  <2>5. f \in Seq(Byte)
    BY <2>2, <2>3 DEF FrameInv
  <2>6. frame' = f /\ platform' = platform /\ damage' = "cut" /\ reply' = <<>>
    BY <1>3, <2>2 DEF Cut, Mangled
  <2>7. ~Parses(frame)'
    BY <2>4, <2>6 DEF Parses, HasPrefix, PrefixLen
  <2> QED BY <2>5, <2>6, <2>7 DEF FrameInv
<1>4. ASSUME NEW i \in DOMAIN frame, NEW b \in Patches, Patch(i, b) PROVE FrameInv'
  <2>1. frame' \in Seq(Byte)
    <3>1. frame \in Seq(Byte) /\ i \in 1 .. Len(frame)
      BY <1>4, LenProperties DEF FrameInv
    <3>2. b \in Byte
      BY FrameAssumption DEF Byte
    <3>3. [frame EXCEPT ![i] = b] \in Seq(Byte)
      BY <3>1, <3>2, ExceptSeq
    <3> QED BY <1>4, <3>3 DEF Patch, Mangled
  <2> QED BY <1>4, <2>1 DEF Patch, Mangled, FrameInv
<1>5. ASSUME NEW b \in Patches, Extend(b) PROVE FrameInv'
  <2>0. PICK n \in Sizes : \E q \in Echoes(n) : Asks(q) /\ Carries(frame, q, n, 0)
    BY <1>5 DEF FrameInv, Extend, Mangled, Asked
  <2>1. PICK q \in Echoes(n) : Asks(q) /\ Carries(frame, q, n, 0)
    BY <2>0
  <2>2. PICK f : f = Append(frame, b)
    OBVIOUS
  <2>3. b \in Byte
    BY FrameAssumption DEF Byte
  <2>4. Carries(f, q, n, 1)
    <3>1. n \in Nat
      BY DEF Sizes
    <3> QED BY <2>1, <2>2, <2>3, <3>1, Longer
  <2>5. frame' = f /\ platform' = platform /\ damage' = "tail" /\ reply' = <<>>
    BY <1>5, <2>2 DEF Extend, Mangled
  <2>6. Asked(1)'
    BY <2>1, <2>4, <2>5, AskedNext
  <2>7. f \in Seq(Byte)
    BY <2>4 DEF Carries, Text
  <2> QED BY <2>5, <2>6, <2>7 DEF FrameInv
<1> QED BY <1>1, <1>2, <1>3, <1>4, <1>5 DEF Next

\* FrameInv is an invariant.
THEOREM FrameInvariant == Spec => []FrameInv
BY RequestAsks, FrameStep, PTL DEF Spec

\* Every reply parses as the answer to its request: addresses swapped, type changed,
\* identifiers and data equal, whatever else was in the frame.
THEOREM RepliesAnswer == Spec => []ReplyAnswers
<1>1. FrameInv => ReplyAnswers
  <2> SUFFICES ASSUME FrameInv, Replied
               PROVE  /\ Parses(reply)
                      /\ parse_ipv6_icmpv6_echo(reply) = Answered(parse_ipv6_icmpv6_echo(frame))
    BY DEF ReplyAnswers, Answered
  <2>1. reply = Reply(frame) /\ Parses(frame)
    BY DEF FrameInv, Replied, build_icmpv6_echo_reply_frame
  <2>2. PICK n \in Sizes : parse_ipv6_icmpv6_echo(frame) \in Echoes(n)
    BY <2>1, Fields DEF FrameInv
  <2> QED BY <2>1, <2>2, ReplyParses
<1> QED BY <1>1, FrameInvariant, PTL

\* The kernel accepts the checksum of every reply, whatever identifiers and data the
\* request had, an odd number of bytes among them.
THEOREM RepliesVerify == Spec => []ChecksumVerifies
<1>1. FrameInv => ChecksumVerifies
  <2> SUFFICES ASSUME FrameInv, Replied PROVE ChecksumVerifies
    BY DEF ChecksumVerifies
  <2>1. reply = Reply(frame) /\ Parses(frame)
    BY DEF FrameInv, Replied, build_icmpv6_echo_reply_frame
  <2>2. PICK n \in Sizes : parse_ipv6_icmpv6_echo(frame) \in Echoes(n)
    BY <2>1, Fields DEF FrameInv
  <2> QED BY <2>1, <2>2, ReplyVerifies, SMT DEF ChecksumVerifies, Verified
<1> QED BY <1>1, FrameInvariant, PTL

\* A request that lost a byte at its end is not answered, a whole one is, and what
\* follows it is not sent back.
THEOREM WholeRequestsAnswered == Spec => []AnswersWhole
<1>1. ASSUME FrameInv, NEW k \in {0, 1}, Asked(k), reply # <<>>
      PROVE  reply # Error /\ (k = 1 => Len(reply) < Len(frame))
  <2>0. PICK n \in Sizes : \E q \in Echoes(n) : Asks(q) /\ Carries(frame, q, n, k)
    BY <1>1 DEF Asked
  <2>1. PICK q \in Echoes(n) : Asks(q) /\ Carries(frame, q, n, k)
    BY <2>0
  <2>2. k \in Nat /\ n \in Nat
    BY DEF Sizes
  <2>3. Parses(frame) /\ parse_ipv6_icmpv6_echo(frame) = q
    BY <2>1, <2>2, Parsed
  <2>4. reply = Reply(frame)
    BY <1>1, <2>1, <2>3 DEF FrameInv, build_icmpv6_echo_reply_frame, Asks
  <2>5. Len(reply) = PrefixLen + 48 + n
    BY <2>3, <2>4, ReplyParses
  <2>6. Len(frame) = PrefixLen + 48 + n + k
    BY <2>1 DEF Carries, Text
  <2>7. Len(Error) = 1
    BY DEF Error
  <2>8. ASSUME reply = Error PROVE FALSE
    <3>1. Len(reply) = 1
      BY <2>7, <2>8
    <3>2. \A x, y \in Nat : x + 48 + y # 1
      OBVIOUS
    <3>3. PrefixLen \in Nat /\ n \in Nat
      BY <2>2, PrefixSize
    <3> QED BY <2>5, <3>1, <3>2, <3>3, Zenon
  <2> QED BY <2>5, <2>6, <2>8, PrefixSize
<1>2. ASSUME FrameInv, ~Parses(frame) PROVE ~Replied
  BY <1>2 DEF FrameInv, Replied, build_icmpv6_echo_reply_frame
<1>3. <<>> # Error
  BY DEF Error
<1>4. FrameInv => AnswersWhole
  BY <1>1, <1>2, <1>3 DEF FrameInv, AnswersWhole, Replied
<1> QED BY <1>4, FrameInvariant, PTL
=============================================================================
