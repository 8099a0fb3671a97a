------------------------------ MODULE PartsProofs ------------------------------
(***************************************************************************)
(* Proofs about the parts that stand for themselves: the requests          *)
(* (Packet), the measurement of the speed (Flow), the argument of -s       *)
(* (Human), conversions (Codepage), streams (Cookie) and addresses (Uri).  *)
(***************************************************************************)
EXTENDS Flow, Packet, Human, Codepage, Cookie, Uri, SequenceTheorems, TLAPS
-------------------------------------------------------------------------------
(* Packet: the requests are well formed for all lengths of names, paths    *)
(* and writes that leave room for what goes with them.                     *)

\* The sizes of a packet are stated in two bytes (CIFS_MAX_BUFFER is 65535).
BufferRight == MaxBuffer \in Nat /\ MaxBuffer <= 65535

First(wc) == Header + 2 * (wc + 1)

\* A packet of wc words whose cursor is behind bytes bytes.
IsPacket(p, wc, bytes) ==
    /\ {"wc", "off", "b"} \subseteq DOMAIN p
    /\ p.wc = wc /\ p.off = First(wc)
    /\ p.b.p = bytes /\ p.b.e = MaxBuffer + Nbt - First(wc)
-------------------------------------------------------------------------------
(* What the writers do to a packet *)

LEMMA SetupIs ==
    ASSUME NEW words \in Nat
    PROVE  IsPacket(PacketSetup(words), (words + 1) \div 2, 0)
  BY DEF PacketSetup, IsPacket, First, Header, Nbt, BufNew

LEMMA PutIs ==
    ASSUME NEW p, NEW wc \in Nat, NEW bytes \in Nat, NEW n \in Nat, IsPacket(p, wc, bytes)
    PROVE  IsPacket(Put(p, n), wc, bytes + n)
  BY DEF IsPacket, Put, BufInc

LEMMA TextIs ==
    ASSUME NEW p, NEW wc \in Nat, NEW bytes \in Nat, NEW n \in Nat, NEW u \in BOOLEAN,
           IsPacket(p, wc, bytes)
    PROVE  \E k \in 0..2 * n : IsPacket(Text(p, u, n), wc, bytes + k)
<1>2. CASE Width(u) * n <= BufLeft(p.b)
  <2> DEFINE k == Width(u) * n
  <2>1. k \in 0..2 * n /\ k \in Nat
    <3>1. Width(u) = 1 \/ Width(u) = 2
      BY DEF Width
    <3> QED
      BY <3>1
  <2>2. Text(p, u, n) = Put(p, k)
    BY <1>2 DEF Text
  <2> HIDE DEF k
  <2>3. IsPacket(Put(p, k), wc, bytes + k)
    BY <2>1, PutIs
  <2> QED
    BY <2>1, <2>2, <2>3
<1>3. CASE ~(Width(u) * n <= BufLeft(p.b))
  <2>1. 0 \in 0..2 * n /\ bytes + 0 = bytes
    OBVIOUS
  <2> QED
    BY <1>3, <2>1 DEF Text
<1> QED
  BY <1>2, <1>3

LEMMA TextZIs ==
    ASSUME NEW p, NEW wc \in Nat, NEW bytes \in Nat, NEW n \in Nat, NEW u \in BOOLEAN,
           IsPacket(p, wc, bytes)
    PROVE  \E k \in 0..2 * n + 2 : IsPacket(TextZ(p, u, n), wc, bytes + k)
<1>1. PICK k \in 0..2 * n : IsPacket(Text(p, u, n), wc, bytes + k)
  BY TextIs
<1>2. Width(u) \in 1..2
  BY DEF Width
<1>3. IsPacket(TextZ(p, u, n), wc, bytes + k + Width(u))
  <2>1. bytes + k \in Nat /\ Width(u) \in Nat
    BY <1>1, <1>2
  <2> QED
    BY <1>1, <2>1, PutIs DEF TextZ
<1>4. k + Width(u) \in 0..2 * n + 2 /\ bytes + k + Width(u) = bytes + (k + Width(u))
  BY <1>1, <1>2
<1> QED
  BY <1>3, <1>4

LEMMA PadIs ==
    ASSUME NEW p, NEW wc \in Nat, NEW bytes \in Nat, NEW u \in BOOLEAN, IsPacket(p, wc, bytes)
    PROVE  IF u THEN IsPacket(Pad(p, u), wc, bytes + 1) ELSE IsPacket(Pad(p, u), wc, bytes)
<1>1. CASE u
  BY <1>1, PutIs DEF Pad
<1>2. CASE ~u
  BY <1>2 DEF Pad
<1> QED
  BY <1>1, <1>2

\* Where the cursor is; behind a pad byte that is an even place.
LEMMA OffCurIs ==
    ASSUME NEW p, NEW wc \in Nat, NEW bytes \in Nat, IsPacket(p, wc, bytes)
    PROVE  /\ OffCur(p) = 2 * wc + 35 + bytes
           /\ BufLen(p.b) = bytes
           /\ bytes = 1 => OffCur(p) % 2 = 0
  BY DEF IsPacket, OffCur, First, Header, Nbt, BufLen

\* A packet in a buffer of this size can state its sizes in two bytes.
LEMMA SizesFit ==
    ASSUME BufferRight, NEW wc \in Nat, NEW bytes \in Nat, First(wc) + bytes <= MaxBuffer + Nbt
    PROVE  bytes % 65536 = bytes /\ (2 * wc + 35 + bytes) % 65536 = 2 * wc + 35 + bytes
<1>1. MaxBuffer \in Int /\ MaxBuffer <= 65535
  BY DEF BufferRight
<1>2. 37 + 2 * (wc + 1) + bytes <= MaxBuffer + 4
  BY DEF First, Header, Nbt
<1>3. bytes < 65536 /\ 2 * wc + 35 + bytes < 65536 /\ 2 * wc + 35 + bytes \in Nat
  BY <1>1, <1>2
<1> QED
  BY <1>3

\* What a packet must say of itself, in terms of its words and bytes.
LEMMA WellFormedIf ==
    ASSUME BufferRight, NEW q, NEW r, r = RequestOf(q), NEW wc \in Nat, NEW bytes \in Nat,
           IsPacket(r.packet, wc, bytes), First(wc) + bytes <= MaxBuffer + Nbt,
           \A part \in {r.param, r.data} :
              /\ part[1] >= 2 * wc + 35
              /\ part[2] > 0 => part[1] + part[2] = 2 * wc + 35 + bytes,
           r.name = r.path, q.u => \A s \in r.strings : s % 2 = 0,
           q.kind = "write" => bytes <= q.max, q.max \in Nat
    PROVE  WellFormed(q)
<1> DEFINE p == r.packet
<1>1. p.wc = wc /\ p.off = First(wc) /\ BufLen(p.b) = bytes
  BY DEF IsPacket, BufLen
<1>2. Header + 2 * (p.wc + 1) - Nbt = 2 * wc + 35
  BY <1>1 DEF Header, Nbt
<1>3. StatedBytes(p) = bytes /\ StatedSize(p) = 2 * wc + 35 + bytes
  <2>1. bytes % 65536 = bytes /\ (2 * wc + 35 + bytes) % 65536 = 2 * wc + 35 + bytes
    BY SizesFit
  <2>2. Size(p) = 2 * wc + 35 + bytes
    BY <1>1 DEF Size, First, Header, Nbt
  <2> QED
    BY <1>1, <2>1, <2>2 DEF StatedBytes, StatedSize
<1>4. p.off + BufLen(p.b) <= MaxBuffer + Nbt
  BY <1>1
<1> HIDE DEF p
<1> QED
  BY <1>1, <1>2, <1>3, <1>4 DEF WellFormed, p
-------------------------------------------------------------------------------
(* The requests *)

\* A request of only words and bytes.
LEMMA PlainRight ==
    ASSUME BufferRight, NEW q, Fits(q), NEW p, RequestOf(q) = Plain(p), q.kind # "write",
           NEW wc \in Nat, NEW bytes \in Nat, IsPacket(p, wc, bytes),
           First(wc) + bytes <= MaxBuffer + Nbt
    PROVE  WellFormed(q)
<1> DEFINE r == RequestOf(q)
<1>1. /\ r.packet = p /\ r.strings = {} /\ r.name = r.path
      /\ r.param = <<OffCur(p), 0>> /\ r.data = <<OffCur(p), 0>>
  BY DEF Plain
<1>2. OffCur(p) = 2 * wc + 35 + bytes
  BY OffCurIs
<1>3. \A part \in {r.param, r.data} :
        /\ part[1] >= 2 * wc + 35
        /\ part[2] > 0 => part[1] + part[2] = 2 * wc + 35 + bytes
  BY <1>1, <1>2
<1>4. q.max \in Nat
  BY DEF Fits
<1> HIDE DEF r
<1>5. r = RequestOf(q)
  BY DEF r
<1> QED
  BY <1>1, <1>3, <1>4, <1>5, WellFormedIf

\* One with a string behind its pad byte.
LEMMA StringRight ==
    ASSUME BufferRight, NEW q, Fits(q), NEW r, r = RequestOf(q), q.kind # "write",
           NEW p, NEW s, NEW wc \in Nat, NEW bytes \in Nat, IsPacket(p, wc, bytes),
           First(wc) + bytes <= MaxBuffer + Nbt,
           r.packet = p, r.strings = {s}, q.u => s % 2 = 0, r.name = r.path,
           r.param = <<OffCur(p), 0>>, r.data = <<OffCur(p), 0>>
    PROVE  WellFormed(q)
<1>1. OffCur(p) = 2 * wc + 35 + bytes
  BY OffCurIs
<1>2. \A part \in {r.param, r.data} :
        /\ part[1] >= 2 * wc + 35
        /\ part[2] > 0 => part[1] + part[2] = 2 * wc + 35 + bytes
  BY <1>1
<1>3. q.max \in Nat
  BY DEF Fits
<1> QED
  BY <1>2, <1>3, WellFormedIf

Fixed == {"negotiate", "disconnect", "close", "readx", "readraw", "findclose"}

LEMMA FixedRight ==
    ASSUME BufferRight, NEW q, Fits(q), q.kind \in Fixed
    PROVE  WellFormed(q)
<1>1. MaxBuffer >= 250 /\ MaxBuffer \in Nat /\ Nbt = 4
  BY DEF Fits, Fixed, BufferRight, Nbt
<1>2. CASE q.kind = "negotiate"
  <2>1. IsPacket(Put(PacketSetup(0), 12), 0, 12)
    <3>1. IsPacket(PacketSetup(0), (0 + 1) \div 2, 0)
      BY SetupIs
    <3>2. (0 + 1) \div 2 = 0
      OBVIOUS
    <3>3. IsPacket(PacketSetup(0), 0, 0)
      BY <3>1, <3>2
    <3>4. IsPacket(Put(PacketSetup(0), 12), 0, 0 + 12)
      BY <3>3, PutIs
    <3> QED
      BY <3>4
  <2>2. RequestOf(q) = Plain(Put(PacketSetup(0), 12))
    BY <1>2 DEF RequestOf, NegotiateReq
  <2>3. First(0) + 12 <= MaxBuffer + Nbt
    BY <1>1 DEF First, Header
  <2> QED
    BY <2>1, <2>2, <2>3, <1>2, PlainRight
<1>3. ASSUME NEW words \in Nat, words <= 48, RequestOf(q) = Plain(PacketSetup(words))
      PROVE  WellFormed(q)
  <2>1. PICK wc \in Nat : wc = (words + 1) \div 2 /\ wc <= 24
    BY <1>3
  <2>2. IsPacket(PacketSetup(words), wc, 0)
    BY <2>1, <1>3, SetupIs
  <2>3. First(wc) + 0 <= MaxBuffer + Nbt
    BY <2>1, <1>1 DEF First, Header
  <2>4. q.kind # "write"
    BY DEF Fixed
  <2> QED
    BY <1>3, <2>2, <2>3, <2>4, PlainRight
<1>4. CASE q.kind = "disconnect"
  BY <1>3, <1>4 DEF RequestOf, DisconnectReq
<1>5. CASE q.kind = "close"
  BY <1>3, <1>5 DEF RequestOf, CloseReq
<1>6. CASE q.kind = "readx"
  BY <1>3, <1>6 DEF RequestOf, ReadxReq, ReadxWords
<1>7. CASE q.kind = "readraw"
  BY <1>3, <1>7 DEF RequestOf, ReadRawReq, ReadRawWords
<1>8. CASE q.kind = "findclose"
  BY <1>3, <1>8 DEF RequestOf, FindCloseReq
<1> QED
  BY <1>2, <1>4, <1>5, <1>6, <1>7, <1>8 DEF Fixed
\* The words of a packet that is not one of those: an even number of bytes.
LEMMA SetupEven ==
    ASSUME NEW words \in Nat, NEW wc \in Nat, words = 2 * wc
    PROVE  IsPacket(PacketSetup(words), wc, 0)
<1>1. (words + 1) \div 2 = wc
  OBVIOUS
<1> QED
  BY <1>1, SetupIs

LEMMA WriteRight ==
    ASSUME BufferRight, NEW q, Fits(q), q.kind = "write"
    PROVE  WellFormed(q)
<1> DEFINE p == PacketSetup(WritexWords)
           count == IF q.n > q.max THEN q.max ELSE q.n
<1>1. count \in Nat /\ count <= q.n /\ count <= q.max /\ q.max \in Nat /\ q.n + 63 <= MaxBuffer
      /\ MaxBuffer \in Nat /\ q.n \in Nat
  BY DEF Fits, BufferRight
<1>2. IsPacket(p, 14, 0)
  <2>1. WritexWords \in Nat /\ 14 \in Nat /\ WritexWords = 2 * 14
    BY DEF WritexWords
  <2> QED
    BY <2>1, SetupEven
<1>3. RequestOf(q) = [Plain(Put(p, count)) EXCEPT !.data = <<OffCur(p), count>>]
  BY DEF RequestOf, WriteReq
<1> HIDE DEF p, count
<1>4. IsPacket(Put(p, count), 14, count)
  <2>1. IsPacket(Put(p, count), 14, 0 + count)
    BY <1>1, <1>2, PutIs
  <2> QED
    BY <2>1, <1>1
<1>5. OffCur(p) = 63 /\ OffCur(Put(p, count)) = 63 + count
  <2>1. OffCur(p) = 2 * 14 + 35 + 0 /\ OffCur(Put(p, count)) = 2 * 14 + 35 + count
    BY <1>1, <1>2, <1>4, OffCurIs
  <2> QED
    BY <2>1, <1>1
<1> DEFINE r == RequestOf(q)
<1>6. /\ r.packet = Put(p, count) /\ r.strings = {} /\ r.name = r.path
      /\ r.param = <<63 + count, 0>> /\ r.data = <<63, count>>
  BY <1>3, <1>5 DEF Plain
<1>7. \A part \in {r.param, r.data} :
        /\ part[1] >= 2 * 14 + 35
        /\ part[2] > 0 => part[1] + part[2] = 2 * 14 + 35 + count
  BY <1>1, <1>6
<1>8. First(14) + count <= MaxBuffer + Nbt
  BY <1>1 DEF First, Header, Nbt
<1> HIDE DEF r
<1>9. r = RequestOf(q)
  BY DEF r
<1> QED
  BY <1>1, <1>4, <1>6, <1>7, <1>8, <1>9, WellFormedIf

\* The strings of the session setup have no pad byte.
LEMMA SetupRight ==
    ASSUME BufferRight, NEW q, Fits(q), q.kind = "setup"
    PROVE  WellFormed(q)
<1>1. q.u \in BOOLEAN /\ MaxBuffer \in Nat /\ MaxBuffer >= 250
  BY DEF Fits, BufferRight
<1> DEFINE p == PacketSetup(SessionSetupWords)
           a == TextZ(p, q.u, 5)
           b == TextZ(a, q.u, 0)
           c == TextZ(b, q.u, 5)
           d == TextZ(c, q.u, 7)
<1>2. IsPacket(p, 13, 0)
  <2>1. SessionSetupWords \in Nat /\ 13 \in Nat /\ SessionSetupWords = 2 * 13
    BY DEF SessionSetupWords
  <2> QED
    BY <2>1, SetupEven
<1>3. RequestOf(q) = Plain(d)
  BY DEF RequestOf, SetupReq
<1> HIDE DEF p
<1>4. PICK k \in Nat : k <= 12 /\ IsPacket(a, 13, k)
  <2>1. PICK k \in 0..2 * 5 + 2 : IsPacket(a, 13, 0 + k)
    BY <1>1, <1>2, TextZIs
  <2> QED
    BY <2>1
<1> HIDE DEF a
<1>5. PICK l \in Nat : l <= 14 /\ IsPacket(b, 13, l)
  <2>1. PICK x \in 0..2 * 0 + 2 : IsPacket(b, 13, k + x)
    BY <1>1, <1>4, TextZIs
  <2>2. k + x \in Nat /\ k + x <= 14
    BY <1>4, <2>1
  <2> QED
    BY <2>1, <2>2
<1> HIDE DEF b
<1>6. PICK m \in Nat : m <= 26 /\ IsPacket(c, 13, m)
  <2>1. PICK x \in 0..2 * 5 + 2 : IsPacket(c, 13, l + x)
    BY <1>1, <1>5, TextZIs
  <2>2. l + x \in Nat /\ l + x <= 26
    BY <1>5, <2>1
  <2> QED
    BY <2>1, <2>2
<1> HIDE DEF c
<1>7. PICK n \in Nat : n <= 42 /\ IsPacket(d, 13, n)
  <2>1. PICK x \in 0..2 * 7 + 2 : IsPacket(d, 13, m + x)
    BY <1>1, <1>6, TextZIs
  <2>2. m + x \in Nat /\ m + x <= 42
    BY <1>6, <2>1
  <2> QED
    BY <2>1, <2>2
<1> HIDE DEF d
<1>8. First(13) + n <= MaxBuffer + Nbt
  BY <1>1, <1>7 DEF First, Header, Nbt
<1> QED
  BY <1>3, <1>7, <1>8, PlainRight

LEMMA PathRight ==
    ASSUME BufferRight, NEW q, Fits(q), q.kind \in {"mkdir", "rmdir", "unlink"}
    PROVE  WellFormed(q)
<1>1. PICK words \in {0, 2} : RequestOf(q) = PathReq(q, words)
  BY DEF RequestOf
<1>2. PICK wc \in {0, 1} : words = 2 * wc
  BY <1>1
<1>3. q.u \in BOOLEAN /\ q.n \in Nat /\ 2 * q.n + 250 <= MaxBuffer /\ MaxBuffer \in Nat
  BY DEF Fits, BufferRight
<1> DEFINE p == Put(PacketSetup(words), 1)
           z == TextZ(p, q.u, q.n)
<1>4. IsPacket(p, wc, 1)
  <2>1. words \in Nat /\ wc \in Nat
    BY <1>1, <1>2
  <2>2. IsPacket(PacketSetup(words), wc, 0)
    BY <1>2, <2>1, SetupEven
  <2>3. IsPacket(p, wc, 0 + 1)
    BY <2>1, <2>2, PutIs
  <2> QED
    BY <2>3
<1>5. RequestOf(q) = [Plain(z) EXCEPT !.strings = {OffCur(p)}]
  BY <1>1 DEF PathReq
<1> HIDE DEF p
<1>6. PICK bytes \in Nat : bytes <= 2 * q.n + 3 /\ IsPacket(z, wc, bytes)
  <2> wc \in Nat /\ 1 \in Nat /\ q.n \in Nat /\ q.u \in BOOLEAN
    BY <1>2, <1>3
  <2>1. PICK x \in 0..2 * q.n + 2 : IsPacket(z, wc, 1 + x)
    BY <1>4, TextZIs
  <2>2. 1 + x \in Nat /\ 1 + x <= 2 * q.n + 3
    BY <1>3, <2>1
  <2> QED
    BY <2>1, <2>2
<1>7. OffCur(p) % 2 = 0
  BY <1>2, <1>4, OffCurIs
<1> HIDE DEF z
<1>8. First(wc) + bytes <= MaxBuffer + Nbt
  BY <1>2, <1>3, <1>6 DEF First, Header, Nbt
<1> DEFINE r == RequestOf(q)
<1>9. /\ r.packet = z /\ r.strings = {OffCur(p)} /\ r.name = r.path
      /\ r.param = <<OffCur(z), 0>> /\ r.data = <<OffCur(z), 0>>
  BY <1>5 DEF Plain
<1> HIDE DEF r
<1>10. r = RequestOf(q) /\ wc \in Nat /\ q.kind # "write"
  BY <1>2 DEF r
<1> QED
  BY <1>6, <1>7, <1>8, <1>9, <1>10, StringRight
\* \\host\share and the service behind the pad byte.
LEMMA TreeRight ==
    ASSUME BufferRight, NEW q, Fits(q), q.kind = "tree"
    PROVE  WellFormed(q)
<1>1. /\ q.u \in BOOLEAN /\ q.n \in Nat /\ q.m \in Nat /\ 2 * (q.n + q.m) + 250 <= MaxBuffer
      /\ MaxBuffer \in Nat
  BY DEF Fits, BufferRight
<1> DEFINE p == Pad(PacketSetup(TreeConnectWords), q.u)
           a == Text(p, q.u, 2)
           b == Text(a, q.u, q.m)
           c == Text(b, q.u, 1)
           d == TextZ(c, q.u, q.n)
           e == Put(d, 6)
<1>2. PICK pad \in {0, 1} : IsPacket(p, 4, pad) /\ (q.u => pad = 1)
  <2>1. TreeConnectWords \in Nat /\ 4 \in Nat /\ TreeConnectWords = 2 * 4
    BY DEF TreeConnectWords
  <2>2. IsPacket(PacketSetup(TreeConnectWords), 4, 0)
    BY <2>1, SetupEven
  <2>3. IF q.u THEN IsPacket(p, 4, 0 + 1) ELSE IsPacket(p, 4, 0)
    BY <2>2, <1>1, PadIs
  <2> QED
    BY <2>3
<1>3. RequestOf(q) = [Plain(e) EXCEPT !.strings = {OffCur(p)}]
  BY DEF RequestOf, TreeReq
<1> HIDE DEF p
<1>4. PICK j \in Nat : j <= 5 /\ IsPacket(a, 4, j)
  <2>1. PICK x \in 0..2 * 2 : IsPacket(a, 4, pad + x)
    BY <1>1, <1>2, TextIs
  <2>2. pad + x \in Nat /\ pad + x <= 5
    BY <1>2, <2>1
  <2> QED
    BY <2>1, <2>2
<1> HIDE DEF a
<1>5. PICK k \in Nat : k <= 5 + 2 * q.m /\ IsPacket(b, 4, k)
  <2>1. PICK x \in 0..2 * q.m : IsPacket(b, 4, j + x)
    BY <1>1, <1>4, TextIs
  <2>2. j + x \in Nat /\ j + x <= 5 + 2 * q.m
    BY <1>1, <1>4, <2>1
  <2> QED
    BY <2>1, <2>2
<1> HIDE DEF b
<1>6. PICK l \in Nat : l <= 7 + 2 * q.m /\ IsPacket(c, 4, l)
  <2>1. PICK x \in 0..2 * 1 : IsPacket(c, 4, k + x)
    BY <1>1, <1>5, TextIs
  <2>2. k + x \in Nat /\ k + x <= 7 + 2 * q.m
    BY <1>1, <1>5, <2>1
  <2> QED
    BY <2>1, <2>2
<1> HIDE DEF c
<1>7. PICK m \in Nat : m <= 9 + 2 * (q.m + q.n) /\ IsPacket(d, 4, m)
  <2>1. PICK x \in 0..2 * q.n + 2 : IsPacket(d, 4, l + x)
    BY <1>1, <1>6, TextZIs
  <2>2. l + x \in Nat /\ l + x <= 9 + 2 * (q.m + q.n)
    BY <1>1, <1>6, <2>1
  <2> QED
    BY <2>1, <2>2
<1> HIDE DEF d
<1>8. IsPacket(e, 4, m + 6)
  BY <1>7, PutIs
<1> HIDE DEF e
<1>9. First(4) + (m + 6) <= MaxBuffer + Nbt
  BY <1>1, <1>7 DEF First, Header, Nbt
<1>10. q.u => OffCur(p) % 2 = 0
  BY <1>2, OffCurIs
<1> DEFINE r == RequestOf(q)
<1>11. /\ r.packet = e /\ r.strings = {OffCur(p)} /\ r.name = r.path
       /\ r.param = <<OffCur(e), 0>> /\ r.data = <<OffCur(e), 0>>
  BY <1>3 DEF Plain
<1> HIDE DEF r
<1>12. r = RequestOf(q) /\ m + 6 \in Nat
  BY <1>7 DEF r
<1> QED
  BY <1>8, <1>9, <1>10, <1>11, <1>12, StringRight

\* The length of the name is that of what was written, all of it or nothing.
LEMMA OpenRight ==
    ASSUME BufferRight, NEW q, Fits(q), q.kind = "open"
    PROVE  WellFormed(q)
<1>1. q.u \in BOOLEAN /\ q.n \in Nat /\ 2 * q.n + 250 <= MaxBuffer /\ MaxBuffer \in Nat
  BY DEF Fits, BufferRight
<1> DEFINE p == Pad(PacketSetup(CreatexWords), q.u)
           e == Text(p, q.u, q.n)
<1>2. PICK pad \in {0, 1} : IsPacket(p, 24, pad) /\ (q.u <=> pad = 1)
  <2>1. CreatexWords \in Nat /\ 24 \in Nat /\ CreatexWords = 2 * 24
    BY DEF CreatexWords
  <2>2. IsPacket(PacketSetup(CreatexWords), 24, 0)
    BY <2>1, SetupEven
  <2>3. IF q.u THEN IsPacket(p, 24, 0 + 1) ELSE IsPacket(p, 24, 0)
    BY <2>2, <1>1, PadIs
  <2> QED
    BY <2>3
<1>3. RequestOf(q) = [Plain(e) EXCEPT !.strings = {OffCur(p)}, !.name = NameLength(e, q.u),
                                      !.path = OffCur(e) - OffCur(p)]
  BY DEF RequestOf, OpenReq
<1> HIDE DEF p
<1>4. PICK k \in Nat : k <= 2 * q.n /\ IsPacket(e, 24, pad + k)
  <2>1. PICK x \in 0..2 * q.n : IsPacket(e, 24, pad + x)
    BY <1>1, <1>2, TextIs
  <2> QED
    BY <2>1, <1>1
<1> HIDE DEF e
<1>5. First(24) + (pad + k) <= MaxBuffer + Nbt /\ pad + k \in Nat /\ pad \in Nat
  BY <1>1, <1>2, <1>4 DEF First, Header, Nbt
<1>6. /\ OffCur(e) = 83 + (pad + k) /\ OffCur(p) = 83 + pad /\ BufLen(e.b) = pad + k
      /\ q.u => OffCur(p) % 2 = 0
  <2>1. OffCur(e) = 2 * 24 + 35 + (pad + k) /\ BufLen(e.b) = pad + k
    BY <1>4, <1>5, OffCurIs
  <2>2. OffCur(p) = 2 * 24 + 35 + pad /\ (q.u => OffCur(p) % 2 = 0)
    BY <1>2, <1>5, OffCurIs
  <2> QED
    BY <2>1, <2>2, <1>5
<1>7. NameLength(e, q.u) = OffCur(e) - OffCur(p)
  <2>1. CASE q.u
    BY <2>1, <1>2, <1>5, <1>6 DEF NameLength
  <2>2. CASE ~q.u
    BY <2>2, <1>2, <1>5, <1>6 DEF NameLength
  <2> QED
    BY <2>1, <2>2
<1> DEFINE r == RequestOf(q)
<1>8. /\ r.packet = e /\ r.strings = {OffCur(p)} /\ r.name = r.path
      /\ r.param = <<OffCur(e), 0>> /\ r.data = <<OffCur(e), 0>>
  BY <1>3, <1>7 DEF Plain
<1> HIDE DEF r
<1>9. r = RequestOf(q)
  BY DEF r
<1> QED
  BY <1>4, <1>5, <1>6, <1>8, <1>9, StringRight
-------------------------------------------------------------------------------
(* Transactions *)

\* A transaction whose parameters reach from their place to the end of the packet.
LEMMA TransRight ==
    ASSUME BufferRight, NEW q, Fits(q), q.kind # "write", NEW r, r = RequestOf(q),
           NEW wc \in Nat, NEW bytes \in Nat, IsPacket(r.packet, wc, bytes),
           First(wc) + bytes <= MaxBuffer + Nbt,
           NEW s \in Nat, s <= bytes, r.param = <<2 * wc + 35 + s, bytes - s>>,
           NEW d \in Nat, r.data = <<2 * wc + 35 + d, 0>>,
           r.name = 0, r.path = 0, q.u => \A x \in r.strings : x % 2 = 0
    PROVE  WellFormed(q)
<1>1. \A part \in {r.param, r.data} :
        /\ part[1] >= 2 * wc + 35
        /\ part[2] > 0 => part[1] + part[2] = 2 * wc + 35 + bytes
  <2>1. /\ r.param[1] = 2 * wc + 35 + s /\ r.param[2] = bytes - s
        /\ r.data[1] = 2 * wc + 35 + d /\ r.data[2] = 0
    OBVIOUS
  <2> QED
    BY <2>1
<1>2. q.max \in Nat
  BY DEF Fits
<1> QED
  BY <1>1, <1>2, WellFormedIf

\* The words of a search: one setup word, no name.
LEMMA SearchReq ==
    ASSUME NEW q, NEW p, p = PacketSetup(30)
    PROVE  /\ TransReq(q, 1, 0) = Plain(p) /\ IsPacket(p, 15, 0) /\ OffCur(p) = 65
<1>1. TransReq(q, 1, 0) = Plain(p)
  BY DEF TransReq, TransactionWords
<1>2. IsPacket(p, 15, 0)
  BY SetupEven
<1>3. OffCur(p) = 2 * 15 + 35 + 0
  BY <1>2, OffCurIs
<1> QED
  BY <1>1, <1>2, <1>3

LEMMA FindNextRight ==
    ASSUME BufferRight, NEW q, Fits(q), q.kind = "findnext"
    PROVE  WellFormed(q)
<1> DEFINE p == PacketSetup(30)
           z == Put(p, 13)
<1>1. IsPacket(p, 15, 0) /\ OffCur(p) = 65 /\ TransReq(q, 1, 0) = Plain(p)
  BY SearchReq
<1> HIDE DEF p
<1>2. IsPacket(z, 15, 13)
  <2>1. IsPacket(z, 15, 0 + 13)
    BY <1>1, PutIs
  <2> QED
    BY <2>1
<1>3. BufLen(z.b) = 13
  BY <1>2, OffCurIs
<1>4. RequestOf(q) = [Plain(p) EXCEPT !.packet = z, !.param = <<65, 13>>]
  <2>1. Plain(p).packet = p /\ Plain(p).param[1] = 65
    BY <1>1 DEF Plain
  <2>2. FindNextReq(q) = [TransReq(q, 1, 0) EXCEPT
            !.packet = Put(TransReq(q, 1, 0).packet, FindNextBytes + 1),
            !.param = <<TransReq(q, 1, 0).param[1],
                        BufLen(Put(TransReq(q, 1, 0).packet, FindNextBytes + 1).b)>>]
    BY DEF FindNextReq
  <2>3. FindNextBytes + 1 = 13
    BY DEF FindNextBytes
  <2>4. Put(TransReq(q, 1, 0).packet, FindNextBytes + 1) = z
    BY <2>1, <2>3, <1>1
  <2>5. FindNextReq(q) = [Plain(p) EXCEPT !.packet = z, !.param = <<65, 13>>]
    BY <2>1, <2>2, <2>4, <1>1, <1>3
  <2> QED
    BY <2>5 DEF RequestOf
<1> HIDE DEF z
<1> DEFINE r == RequestOf(q)
<1>5. /\ r.packet = z /\ r.strings = {} /\ r.name = 0 /\ r.path = 0
      /\ r.param = <<65, 13>> /\ r.data = <<65, 0>>
  BY <1>1, <1>3, <1>4 DEF Plain
<1>6. First(15) + 13 <= MaxBuffer + Nbt
  BY DEF Fits, BufferRight, First, Header, Nbt
<1> HIDE DEF r
<1>7. r = RequestOf(q)
  BY DEF r
<1>8. r.param = <<2 * 15 + 35 + 0, 13 - 0>> /\ r.data = <<2 * 15 + 35 + 0, 0>>
  BY <1>5
<1>9. 0 \in Nat /\ 13 \in Nat /\ 15 \in Nat /\ 0 <= 13 /\ q.kind # "write"
  OBVIOUS
<1>10. IsPacket(r.packet, 15, 13) /\ \A x \in r.strings : x % 2 = 0
  BY <1>2, <1>5
<1> QED
  BY <1>5, <1>6, <1>7, <1>8, <1>9, <1>10, TransRight

\* The mask and, behind a separator, the name (findfirst.c:11): the end mark always
\* fits behind what was written of them.
LEMMA FindFirstRight ==
    ASSUME BufferRight, NEW q, Fits(q), q.kind = "findfirst"
    PROVE  WellFormed(q)
<1>1. /\ q.u \in BOOLEAN /\ q.n \in Nat /\ q.m \in Nat /\ 2 * (q.n + q.m) + 250 <= MaxBuffer
      /\ MaxBuffer \in Nat
  BY DEF Fits, BufferRight
<1> DEFINE p == PacketSetup(30)
           h == Put(p, 12)
           a == Text(h, q.u, q.n)
           b == Text(a, q.u, 1)
           c == Text(b, q.u, q.m)
           e == IF q.m = 0 THEN a ELSE c
           z == Put(e, Width(q.u))
<1>2. IsPacket(p, 15, 0) /\ OffCur(p) = 65 /\ TransReq(q, 1, 0) = Plain(p)
  BY SearchReq
<1>3. RequestOf(q) = [Plain(p) EXCEPT !.packet = z, !.param = <<65, BufLen(z.b)>>]
  <2>1. Plain(p).packet = p /\ Plain(p).param[1] = 65
    BY <1>2 DEF Plain
  <2>2. FindFirstBytes = 12
    BY DEF FindFirstBytes
  <2>3. FindFirstReq(q) = [Plain(p) EXCEPT !.packet = z, !.param = <<65, BufLen(z.b)>>]
    BY <2>1, <2>2, <1>2 DEF FindFirstReq
  <2> QED
    BY <2>3 DEF RequestOf
<1> HIDE DEF p
<1>4. IsPacket(h, 15, 12)
  <2>1. IsPacket(h, 15, 0 + 12)
    BY <1>2, PutIs
  <2> QED
    BY <2>1
<1> HIDE DEF h
<1>5. PICK j \in Nat : j <= 12 + 2 * q.n /\ IsPacket(a, 15, j)
  <2>1. PICK x \in 0..2 * q.n : IsPacket(a, 15, 12 + x)
    BY <1>1, <1>4, TextIs
  <2>2. 12 + x \in Nat /\ 12 + x <= 12 + 2 * q.n
    BY <1>1, <2>1
  <2> QED
    BY <2>1, <2>2
<1> HIDE DEF a
<1>6. PICK k \in Nat : k <= 14 + 2 * q.n /\ IsPacket(b, 15, k)
  <2>1. PICK x \in 0..2 * 1 : IsPacket(b, 15, j + x)
    BY <1>1, <1>5, TextIs
  <2>2. j + x \in Nat /\ j + x <= 14 + 2 * q.n
    BY <1>1, <1>5, <2>1
  <2> QED
    BY <2>1, <2>2
<1> HIDE DEF b
<1>7. PICK l \in Nat : l <= 14 + 2 * (q.n + q.m) /\ IsPacket(c, 15, l)
  <2>1. PICK x \in 0..2 * q.m : IsPacket(c, 15, k + x)
    BY <1>1, <1>6, TextIs
  <2>2. k + x \in Nat /\ k + x <= 14 + 2 * (q.n + q.m)
    BY <1>1, <1>6, <2>1
  <2> QED
    BY <2>1, <2>2
<1> HIDE DEF c
<1>8. PICK m \in Nat : m <= 14 + 2 * (q.n + q.m) /\ IsPacket(e, 15, m)
  <2>1. CASE q.m = 0
    BY <1>1, <1>5, <2>1
  <2>2. CASE q.m # 0
    BY <1>7, <2>2
  <2> QED
    BY <2>1, <2>2
<1> HIDE DEF e
<1>9. PICK w \in Nat : w <= 2 /\ IsPacket(z, 15, m + w)
  <2>1. Width(q.u) \in Nat /\ Width(q.u) <= 2
    BY DEF Width
  <2>2. IsPacket(z, 15, m + Width(q.u))
    BY <2>1, <1>8, PutIs
  <2> QED
    BY <2>1, <2>2
<1> HIDE DEF z
<1> DEFINE bytes == m + w
<1>10. bytes \in Nat /\ bytes <= 16 + 2 * (q.n + q.m) /\ IsPacket(z, 15, bytes)
  BY <1>1, <1>8, <1>9
<1> HIDE DEF bytes
<1>11. BufLen(z.b) = bytes
  BY <1>10, OffCurIs
<1> DEFINE r == RequestOf(q)
<1>12. /\ r.packet = z /\ r.strings = {} /\ r.name = 0 /\ r.path = 0
       /\ r.param = <<65, bytes>> /\ r.data = <<65, 0>>
  BY <1>2, <1>3, <1>11 DEF Plain
<1> HIDE DEF r
<1>13. First(15) + bytes <= MaxBuffer + Nbt
  BY <1>1, <1>10 DEF First, Header, Nbt
<1>14. r.param = <<2 * 15 + 35 + 0, bytes - 0>> /\ r.data = <<2 * 15 + 35 + 0, 0>>
  BY <1>10, <1>12
<1>15. r = RequestOf(q) /\ 0 \in Nat /\ 15 \in Nat /\ 0 <= bytes /\ q.kind # "write"
  BY <1>10 DEF r
<1>16. IsPacket(r.packet, 15, bytes) /\ \A x \in r.strings : x % 2 = 0
  BY <1>10, <1>12
<1> QED
  BY <1>10, <1>12, <1>13, <1>14, <1>15, <1>16, TransRight

\* The parameters of a call of \PIPE\LANMAN lie behind its name, their count is that of
\* the bytes behind it (rap.c:23).
LEMMA RapRight ==
    ASSUME BufferRight, NEW q, Fits(q), q.kind = "rap"
    PROVE  WellFormed(q)
<1>1. /\ q.u \in BOOLEAN /\ q.n \in Nat /\ q.m \in Nat /\ 2 * (q.n + q.m) + 250 <= MaxBuffer
      /\ MaxBuffer \in Nat
  BY DEF Fits, BufferRight
<1> DEFINE p == PacketSetup(28)
           s == Pad(p, q.u)
           e == TextZ(s, q.u, 12)
           k == IF q.m = 0 THEN 2 + 6 + 7 + 2 + 2 ELSE 2 + 8 + 8 + 2 + 2 + 4 + q.n + 1
           z == Put(e, k)
<1>2. IsPacket(p, 14, 0)
  BY SetupEven
<1>3. TransReq(q, 0, 12) = [Plain(e) EXCEPT !.strings = {OffCur(s)}]
  <2>1. TransactionWords + 2 * 0 = 28
    BY DEF TransactionWords
  <2> QED
    BY <2>1 DEF TransReq
<1>4. RequestOf(q) = [Plain(e) EXCEPT !.strings = {OffCur(s)}, !.packet = z,
                                      !.param = <<OffCur(e), OffCur(z) - OffCur(e)>>]
  <2> DEFINE t == TransReq(q, 0, 12)
  <2>1. t.packet = e /\ t.param[1] = OffCur(e)
    BY <1>3 DEF Plain
  <2>2. RequestOf(q) = [t EXCEPT !.packet = Put(t.packet, k),
                                 !.param = <<t.param[1], RapCount(Put(t.packet, k), t)>>]
    <3>1. CASE q.m = 0
      BY <3>1 DEF RequestOf, RapReq
    <3>2. CASE q.m # 0
      BY <3>2 DEF RequestOf, RapReq
    <3> QED
      BY <3>1, <3>2
  <2>3. RapCount(Put(t.packet, k), t) = OffCur(z) - OffCur(e)
    BY <2>1 DEF RapCount
  <2> QED
    BY <1>3, <2>1, <2>2, <2>3
<1>5. PICK pad \in {0, 1} : IsPacket(s, 14, pad) /\ (q.u => pad = 1)
  <2>1. IF q.u THEN IsPacket(s, 14, 0 + 1) ELSE IsPacket(s, 14, 0)
    BY <1>1, <1>2, PadIs
  <2> QED
    BY <2>1
<1> HIDE DEF p, s
<1>6. PICK j \in Nat : j <= 27 /\ IsPacket(e, 14, j)
  <2>1. PICK x \in 0..2 * 12 + 2 : IsPacket(e, 14, pad + x)
    BY <1>1, <1>5, TextZIs
  <2>2. pad + x \in Nat /\ pad + x <= 27
    BY <1>5, <2>1
  <2> QED
    BY <2>1, <2>2
<1> HIDE DEF e
<1>7. k \in Nat /\ k <= 27 + q.n
  BY <1>1
<1> HIDE DEF k
<1>8. IsPacket(z, 14, j + k)
  BY <1>6, <1>7, PutIs
<1> HIDE DEF z
<1> DEFINE bytes == j + k
<1>9. bytes \in Nat /\ bytes <= 54 + q.n /\ j <= bytes /\ bytes - j = k /\ IsPacket(z, 14, bytes)
  BY <1>1, <1>6, <1>7, <1>8
<1> HIDE DEF bytes
<1>10. OffCur(e) = 2 * 14 + 35 + j /\ OffCur(z) = 2 * 14 + 35 + bytes
  BY <1>6, <1>9, OffCurIs
<1>11. q.u => OffCur(s) % 2 = 0
  BY <1>5, OffCurIs
<1> DEFINE r == RequestOf(q)
<1>12. /\ r.packet = z /\ r.strings = {OffCur(s)} /\ r.name = 0 /\ r.path = 0
       /\ r.param = <<OffCur(e), OffCur(z) - OffCur(e)>> /\ r.data = <<OffCur(e), 0>>
  BY <1>4 DEF Plain
<1> HIDE DEF r
<1>13. First(14) + bytes <= MaxBuffer + Nbt
  BY <1>1, <1>9 DEF First, Header, Nbt
<1>14. r.param = <<2 * 14 + 35 + j, bytes - j>> /\ r.data = <<2 * 14 + 35 + j, 0>>
  <2>1. OffCur(z) - OffCur(e) = bytes - j
    BY <1>6, <1>9, <1>10
  <2> QED
    BY <1>10, <1>12, <2>1
<1>15. r = RequestOf(q) /\ 14 \in Nat /\ q.kind # "write"
  BY DEF r
<1>16. IsPacket(r.packet, 14, bytes) /\ (q.u => \A x \in r.strings : x % 2 = 0)
  BY <1>9, <1>11, <1>12
<1> QED
  BY <1>6, <1>9, <1>12, <1>13, <1>14, <1>15, <1>16, TransRight
-------------------------------------------------------------------------------
\* Every request that the library writes is well formed, for every length of its names
\* and data that leaves room for the rest, with and without Unicode, in a buffer of any
\* size that two bytes can state (cifs_packet_unparse, transport.c).
THEOREM RequestsCorrect ==
    ASSUME BufferRight, NEW q, q.kind \in Kinds, Fits(q)
    PROVE  WellFormed(q)
  BY FixedRight, SetupRight, TreeRight, OpenRight, WriteRight, PathRight, FindFirstRight,
     FindNextRight, RapRight DEF Kinds, Fixed

\* Whatever the callers ask for, the request that is written is well formed.
THEOREM WrittenCorrect == PacketSpec => []RequestsWellFormed
<1> DEFINE Inv == request \subseteq Requests
<1>1. PacketInit => Inv
  BY DEF PacketInit
<1>2. Inv /\ [WriteRequest]_request => Inv'
  BY DEF WriteRequest
<1>3. Inv => RequestsWellFormed
  BY PacketAssumption, RequestsCorrect DEF BufferRight, RequestsWellFormed
<1> QED
  BY <1>1, <1>2, <1>3, PTL DEF PacketSpec
-------------------------------------------------------------------------------
(* Flow: the window is the right one, and the limit is exceeded by a       *)
(* factor of two at most.                                                  *)

\* The values of the variables, whatever the clock does.
FlowType ==
    [limit : Nat, total : Nat, start : Nat, a : Nat, b : Nat, c : Nat,
     d : Nat, e : Nat, speed : Nat]

FlowTypeOK ==
    /\ flow \in FlowType
    /\ now \in Nat /\ marks \in [a : Nat, b : Nat] /\ steps \in Nat

\* How much was counted at the marks: at most what the limit allows from the start to
\* a mark, and once more to the next one.
AtMarks ==
    flow.limit > 0 /\ steps = 0 =>
        /\ marks.a * Second <= flow.limit * (flow.a - flow.start) + flow.limit * (flow.b - flow.start)
        /\ marks.b * Second <= flow.limit * (flow.b - flow.start) + flow.limit * (now - flow.start)
        /\ flow.total * Second <=
             flow.limit * (flow.b - flow.start) + flow.limit * (now - flow.start) + flow.limit

IInv == FlowTypeOK /\ WindowRight /\ AtMarks
-------------------------------------------------------------------------------
(* Arithmetic *)

\* A time difference without a sign is never larger than the true one.
LEMMA MinusBound ==
    ASSUME NEW W \in Nat \ {0}, NEW t \in Int, NEW u \in Int
    PROVE  (t - u) % W \in Nat /\ (t >= u => (t - u) % W <= t - u)
  BY SMT

LEMMA ProductOrder ==
    ASSUME NEW L \in Nat, NEW x \in Int, NEW y \in Int, x <= y
    PROVE  L * x <= L * y
  BY SMT

\* x bytes times Second over the limit L are waited for until they are not.
LEMMA PauseEnough ==
    ASSUME NEW L \in Nat \ {0}, NEW x \in Nat, NEW t \in Nat, NEW p \in Nat,
           p >= (x \div L) - t
    PROVE  x <= L * (t + p) + L
<1>1. x \div L \in Nat /\ x < L * (x \div L) + L
  BY SMT
<1>2. L * (x \div L) <= L * (t + p)
  BY <1>1, ProductOrder
<1> QED
  BY <1>1, <1>2

\* A pause is not negative, and long enough.
LEMMA PauseRight ==
    ASSUME FlowTypeOK, NEW x \in Nat, NEW t \in Nat
    PROVE  /\ Pause(x, t) \in Nat
           /\ flow.limit > 0 => Pause(x, t) >= (x \div flow.limit) - t
<1>1. flow.limit \in Nat
  BY DEF FlowTypeOK, FlowType
<1>2. flow.limit > 0 => x \div flow.limit \in Nat
  BY <1>1, SMT
<1> QED
  BY <1>1, <1>2 DEF Pause
\* The bytes up to a call whose pause was long enough: those before the window, which
\* kept the bound, and those of the window.
LEMMA CallBound ==
    ASSUME NEW L \in Nat \ {0}, NEW S \in Nat, NEW start \in Nat, NEW a \in Nat, NEW b \in Nat,
           NEW m \in Int, NEW d \in Int, NEW n \in Nat,
           m * S <= L * (a - start) + L * (b - start),
           d * S <= L * (n - a) + L
    PROVE  (m + d) * S <= L * (b - start) + L * (n - start) + L
<1>1. (m + d) * S = m * S + d * S
  BY SMT
<1>2. L * (a - start) = L * a - L * start /\ L * (n - a) = L * n - L * a
      /\ L * (n - start) = L * n - L * start
  BY SMT
<1> QED
  BY <1>1, <1>2
-------------------------------------------------------------------------------
(* What one call does *)

\* The state after a call, spelled out: the window either stays or moves on.
Stays(delta, p) ==
    /\ flow'.total = flow.total + delta /\ flow'.d = flow.d + delta /\ flow'.e = flow.e + delta
    /\ flow'.a = flow.a /\ flow'.b = flow.b /\ UNCHANGED marks

Moves(delta, p) ==
    /\ flow'.total = flow.total + delta /\ flow'.d = flow.e + delta /\ flow'.e = 0
    /\ flow'.a = flow.b /\ flow'.b = now
    /\ marks' = [a |-> marks.b, b |-> flow.total + delta]
    /\ Minus(now, flow.b) > Interval

\* What the parts of a call do to the record, field by field.
LEMMA CountedIs ==
    ASSUME FlowTypeOK, NEW delta \in Nat
    PROVE  /\ Counted(delta) \in FlowType
           /\ Counted(delta).total = flow.total + delta /\ Counted(delta).c = now
           /\ Counted(delta).d = flow.d + delta /\ Counted(delta).e = flow.e + delta
           /\ Counted(delta).a = flow.a /\ Counted(delta).b = flow.b
           /\ Counted(delta).limit = flow.limit /\ Counted(delta).start = flow.start
<1>1. flow.total + delta \in Nat /\ flow.d + delta \in Nat /\ flow.e + delta \in Nat
  BY DEF FlowTypeOK, FlowType
<1>2. \A p, q, r, s \in Nat :
        [flow EXCEPT !.total = p, !.d = q, !.e = r, !.c = s] \in FlowType
  BY DEF FlowTypeOK, FlowType
<1>3. Counted(delta) \in FlowType
  BY <1>1, <1>2 DEF Counted, FlowTypeOK
<1> QED
  BY <1>3 DEF Counted, FlowTypeOK, FlowType

LEMMA FlipIs ==
    ASSUME NEW g \in FlowType
    PROVE  /\ Flip(g) \in FlowType
           /\ Flip(g).total = g.total /\ Flip(g).d = g.e /\ Flip(g).e = 0
           /\ Flip(g).a = g.b /\ Flip(g).b = g.c /\ Flip(g).c = g.c
           /\ Flip(g).limit = g.limit /\ Flip(g).start = g.start
  BY DEF FlowType, Flip

LEMMA SpeedIs ==
    ASSUME NEW g \in FlowType, NEW s \in Nat, NEW h, h = [g EXCEPT !.speed = s]
    PROVE  /\ h \in FlowType
           /\ h.total = g.total /\ h.d = g.d /\ h.e = g.e /\ h.a = g.a /\ h.b = g.b
           /\ h.c = g.c /\ h.limit = g.limit /\ h.start = g.start
  BY DEF FlowType

LEMMA CallEffect ==
    ASSUME FlowAssumption, FlowTypeOK, CifsFlow
    PROVE  \E delta \in Nat, p \in Nat :
              /\ FlowTypeOK'
              /\ flow'.limit = flow.limit /\ flow'.start = flow.start /\ flow'.c = now
              /\ now' = now + p /\ UNCHANGED steps
              /\ Stays(delta, p) \/ Moves(delta, p)
              /\ flow.limit > 0 =>
                    p >= (((flow.d + delta) * Second) \div flow.limit) - Minus(now, flow.a)
<1>1. PICK delta \in Deltas :
        LET g == Counted(delta)
            x == g.d * Second
            t == Minus(g.c, g.a)
            speed == IF t > 0 THEN x \div t ELSE 0
        IN  /\ g.total <= MaxTotal
            /\ IF Minus(g.c, g.b) > Interval
               THEN /\ flow' = [Flip(g) EXCEPT !.speed = speed]
                    /\ marks' = [a |-> marks.b, b |-> g.total]
               ELSE flow' = [g EXCEPT !.speed = speed] /\ UNCHANGED marks
            /\ now' = now + Pause(x, t)
  BY DEF CifsFlow
<1> DEFINE g == Counted(delta)
           x == g.d * Second
           t == Minus(g.c, g.a)
           speed == IF t > 0 THEN x \div t ELSE 0
<1>2. /\ delta \in Nat /\ Second \in Nat \ {0} /\ Word \in Nat \ {0} /\ Interval \in Nat
      /\ now \in Nat /\ marks \in [a : Nat, b : Nat] /\ steps \in Nat /\ flow \in FlowType
  BY FlowAssumption DEF FlowAssumption, FlowTypeOK
<1>3. /\ g \in FlowType /\ g.total = flow.total + delta /\ g.c = now
      /\ g.d = flow.d + delta /\ g.e = flow.e + delta /\ g.a = flow.a /\ g.b = flow.b
      /\ g.limit = flow.limit /\ g.start = flow.start
  BY <1>2, CountedIs
<1>4. x \in Nat /\ x = (flow.d + delta) * Second
  BY <1>2, <1>3 DEF FlowType
<1>5. t \in Nat /\ t = Minus(now, flow.a)
  BY <1>2, <1>3, MinusBound DEF FlowType, Minus
<1>6. speed \in Nat
  BY <1>4, <1>5
<1>7. Pause(x, t) \in Nat /\ (flow.limit > 0 => Pause(x, t) >= (x \div flow.limit) - t)
  BY <1>4, <1>5, PauseRight
<1> HIDE DEF g, x, t, speed
<1>8. now' = now + Pause(x, t) /\ UNCHANGED steps
  BY <1>1 DEF CifsFlow, g, x, t
<1>9. now' \in Nat /\ steps' \in Nat
  BY <1>2, <1>7, <1>8
<1>10. CASE Minus(g.c, g.b) > Interval
  <2>1. /\ flow' = [Flip(g) EXCEPT !.speed = speed]
        /\ marks' = [a |-> marks.b, b |-> g.total]
    BY <1>1, <1>10 DEF g, x, t, speed
  <2>2. /\ Flip(g) \in FlowType
        /\ Flip(g).total = g.total /\ Flip(g).d = g.e /\ Flip(g).e = 0
        /\ Flip(g).a = g.b /\ Flip(g).b = g.c /\ Flip(g).c = g.c
        /\ Flip(g).limit = g.limit /\ Flip(g).start = g.start
    BY <1>3, FlipIs
  <2>3. /\ flow' \in FlowType
        /\ flow'.total = g.total /\ flow'.d = g.e /\ flow'.e = 0 /\ flow'.a = g.b
        /\ flow'.b = g.c /\ flow'.c = g.c /\ flow'.limit = g.limit /\ flow'.start = g.start
    BY <2>1, <2>2, <1>6, SpeedIs
  <2>4. marks' \in [a : Nat, b : Nat]
    BY <2>1, <1>2, <1>3 DEF FlowType
  <2>5. Moves(delta, Pause(x, t))
    BY <2>1, <2>3, <1>3, <1>10 DEF Moves
  <2>6. FlowTypeOK'
    BY <2>3, <2>4, <1>9 DEF FlowTypeOK
  <2> QED
    BY <2>3, <2>5, <2>6, <1>2, <1>3, <1>4, <1>5, <1>7, <1>8
<1>11. CASE ~(Minus(g.c, g.b) > Interval)
  <2>1. flow' = [g EXCEPT !.speed = speed] /\ UNCHANGED marks
    BY <1>1, <1>11 DEF g, x, t, speed
  <2>2. /\ flow' \in FlowType
        /\ flow'.total = g.total /\ flow'.d = g.d /\ flow'.e = g.e /\ flow'.a = g.a
        /\ flow'.b = g.b /\ flow'.c = g.c /\ flow'.limit = g.limit /\ flow'.start = g.start
    BY <2>1, <1>3, <1>6, SpeedIs
  <2>3. Stays(delta, Pause(x, t))
    BY <2>1, <2>2, <1>3 DEF Stays
  <2>4. FlowTypeOK'
    BY <2>1, <2>2, <1>2, <1>9 DEF FlowTypeOK
  <2> QED
    BY <2>2, <2>3, <2>4, <1>2, <1>3, <1>4, <1>5, <1>7, <1>8
<1> QED
  BY <1>10, <1>11
-------------------------------------------------------------------------------
(* The invariant *)

LEMMA InitInv == ASSUME FlowAssumption, FlowInit PROVE IInv
<1>1. PICK l \in Limits :
        flow = [limit |-> l, total |-> 0, start |-> 0, a |-> 0, b |-> 0, c |-> 0,
                d |-> 0, e |-> 0, speed |-> 0]
  BY DEF FlowInit
<1>2. l \in Nat /\ Second \in Nat /\ now = 0 /\ marks = [a |-> 0, b |-> 0] /\ steps = 0
  BY DEF FlowAssumption, FlowInit
<1>3. FlowTypeOK /\ WindowRight
  BY <1>1, <1>2 DEF FlowTypeOK, FlowType, WindowRight
<1>4. AtMarks
  BY <1>1, <1>2 DEF AtMarks
<1> QED
  BY <1>3, <1>4 DEF IInv

\* The clock goes on: every bound grows.
LEMMA TickInv == ASSUME FlowAssumption, IInv, Tick PROVE IInv'
<1>1. now \in Nat /\ now' = now + 1 /\ UNCHANGED <<flow, marks, steps>> /\ Second \in Nat
  BY DEF IInv, FlowTypeOK, Tick, FlowAssumption
<1>2. FlowTypeOK' /\ WindowRight'
  BY <1>1 DEF IInv, FlowTypeOK, FlowType, WindowRight
<1>3. /\ flow.limit \in Nat /\ flow.start \in Nat /\ flow.a \in Nat /\ flow.b \in Nat
      /\ flow.total * Second \in Int /\ marks.a * Second \in Int /\ marks.b * Second \in Int
  BY <1>1 DEF IInv, FlowTypeOK, FlowType
<1>4. flow.limit * (now - flow.start) <= flow.limit * (now' - flow.start)
  BY <1>1, <1>3, ProductOrder
<1>5. flow.limit * (now - flow.start) \in Int /\ flow.limit * (now' - flow.start) \in Int
      /\ flow.limit * (flow.b - flow.start) \in Int
  BY <1>1, <1>3
<1>6. AtMarks'
  BY <1>1, <1>3, <1>4, <1>5 DEF IInv, AtMarks
<1> QED
  BY <1>2, <1>6 DEF IInv

LEMMA SetBackInv == ASSUME FlowAssumption, IInv, SetBack PROVE IInv'
<1>1. /\ now \in Nat /\ now > 0 /\ now' = now - 1 /\ UNCHANGED <<flow, marks>>
      /\ steps \in Nat /\ steps' = steps + 1
  BY DEF IInv, FlowTypeOK, SetBack
<1> QED
  BY <1>1 DEF IInv, FlowTypeOK, WindowRight, AtMarks

LEMMA CallInv == ASSUME FlowAssumption, IInv, CifsFlow PROVE IInv'
<1>1. PICK delta \in Nat, p \in Nat :
        /\ FlowTypeOK'
        /\ flow'.limit = flow.limit /\ flow'.start = flow.start /\ flow'.c = now
        /\ now' = now + p /\ UNCHANGED steps
        /\ Stays(delta, p) \/ Moves(delta, p)
        /\ flow.limit > 0 =>
              p >= (((flow.d + delta) * Second) \div flow.limit) - Minus(now, flow.a)
  BY CallEffect DEF IInv
<1>2. /\ flow.limit \in Nat /\ flow.start \in Nat /\ flow.a \in Nat /\ flow.b \in Nat
      /\ flow.c \in Nat /\ flow.d \in Nat /\ flow.e \in Nat /\ flow.total \in Nat
      /\ marks \in [a : Nat, b : Nat] /\ now \in Nat /\ steps \in Nat
  BY DEF IInv, FlowTypeOK, FlowType
<1>3. Second \in Nat \ {0} /\ Interval \in Nat /\ Word \in Nat \ {0}
  BY DEF FlowAssumption
<1>4. flow.d = flow.total - marks.a /\ flow.e = flow.total - marks.b
  BY DEF IInv, WindowRight
<1>5. WindowRight'
  <2>1. CASE Stays(delta, p)
    BY <2>1, <1>1, <1>2, <1>4 DEF Stays, WindowRight, IInv
  <2>2. CASE Moves(delta, p)
    BY <2>2, <1>1, <1>2, <1>4 DEF Moves, WindowRight, IInv
  <2> QED
    BY <2>1, <2>2, <1>1
<1>6. ASSUME flow.limit > 0, steps = 0
      PROVE  /\ marks'.a * Second <= flow.limit * (flow'.a - flow.start)
                                       + flow.limit * (flow'.b - flow.start)
             /\ marks'.b * Second <= flow.limit * (flow'.b - flow.start)
                                       + flow.limit * (now' - flow.start)
             /\ flow'.total * Second <= flow.limit * (flow'.b - flow.start)
                                       + flow.limit * (now' - flow.start) + flow.limit
  <2>1. flow.limit \in Nat \ {0}
    BY <1>2, <1>6
  <2>2. flow.start <= flow.a /\ flow.a <= flow.b /\ flow.b <= now
    BY <1>2, <1>6 DEF IInv, WindowRight
  <2>3. Minus(now, flow.a) \in Nat /\ Minus(now, flow.a) <= now - flow.a
        /\ Minus(now, flow.b) <= now - flow.b /\ Minus(now, flow.b) \in Nat
    BY <2>2, <1>2, <1>3, MinusBound DEF Minus
  <2>4. (flow.d + delta) * Second \in Nat
    BY <1>2, <1>3
  <2>5. (flow.d + delta) * Second <= flow.limit * (Minus(now, flow.a) + p) + flow.limit
    BY <1>1, <1>6, <2>1, <2>3, <2>4, PauseEnough
  <2>6. flow.limit * (Minus(now, flow.a) + p) <= flow.limit * (now' - flow.a)
    BY <1>1, <1>2, <2>1, <2>3, ProductOrder
  <2>7. (flow.d + delta) * Second <= flow.limit * (now' - flow.a) + flow.limit
    <3>1. flow.limit * (Minus(now, flow.a) + p) \in Int
      BY <2>1, <2>3
    <3>2. flow.limit * (now' - flow.a) \in Int
      BY <1>1, <1>2, <2>1
    <3> QED
      BY <3>1, <3>2, <2>1, <2>4, <2>5, <2>6
  <2>8. /\ marks.a * Second <= flow.limit * (flow.a - flow.start)
                                 + flow.limit * (flow.b - flow.start)
        /\ marks.b * Second <= flow.limit * (flow.b - flow.start)
                                 + flow.limit * (now - flow.start)
    BY <1>6 DEF IInv, AtMarks
  <2>9. (marks.a + (flow.d + delta)) * Second <=
          flow.limit * (flow.b - flow.start) + flow.limit * (now' - flow.start) + flow.limit
    <3>1. marks.a \in Int /\ flow.d + delta \in Int /\ now' \in Nat /\ Second \in Nat
      BY <1>1, <1>2, <1>3
    <3> QED
      BY <3>1, <1>2, <2>1, <2>7, <2>8, CallBound
  <2>10. (flow.total + delta) * Second <=
          flow.limit * (flow.b - flow.start) + flow.limit * (now' - flow.start) + flow.limit
    <3>1. flow.total + delta = marks.a + (flow.d + delta)
      BY <1>2, <1>4
    <3> QED
      BY <3>1, <2>9
  <2>11. flow.limit * (now - flow.start) <= flow.limit * (now' - flow.start)
    BY <1>1, <1>2, ProductOrder
  <2>12. /\ flow.limit * (flow.a - flow.start) \in Int /\ flow.limit * (flow.b - flow.start) \in Int
         /\ flow.limit * (now - flow.start) \in Int /\ flow.limit * (now' - flow.start) \in Int
         /\ marks.a * Second \in Int /\ marks.b * Second \in Int
         /\ (flow.total + delta) * Second \in Int
    BY <1>1, <1>2, <1>3
  <2>13. CASE Stays(delta, p)
    BY <2>13, <2>8, <2>10, <2>11, <2>12 DEF Stays
  <2>14. CASE Moves(delta, p)
    <3>1. flow.b + 1 <= now
      BY <2>14, <2>3, <1>2, <1>3 DEF Moves
    <3>2. flow.limit * (flow.b - flow.start) + flow.limit <= flow.limit * (now - flow.start)
      <4>1. flow.limit * ((flow.b - flow.start) + 1) <= flow.limit * (now - flow.start)
        BY <3>1, <1>2, ProductOrder
      <4>2. flow.limit * ((flow.b - flow.start) + 1)
              = flow.limit * (flow.b - flow.start) + flow.limit
        BY <1>2
      <4> QED
        BY <4>1, <4>2
    <3>3. marks'.a = marks.b /\ marks'.b = flow.total + delta
      BY <2>14 DEF Moves
    <3>4. flow'.a = flow.b /\ flow'.b = now /\ flow'.total = flow.total + delta
      BY <2>14 DEF Moves
    <3>5. marks.b * Second <= flow.limit * (flow.b - flow.start)
                               + flow.limit * (now - flow.start)
      BY <2>8
    <3>6. (flow.total + delta) * Second <= flow.limit * (now - flow.start)
                               + flow.limit * (now' - flow.start)
      BY <3>2, <2>10, <2>12, <2>1
    <3> QED
      BY <3>3, <3>4, <3>5, <3>6, <2>1, <2>12
  <2> QED
    BY <2>13, <2>14, <1>1
<1>7. AtMarks'
  BY <1>1, <1>6 DEF AtMarks
<1> QED
  BY <1>1, <1>5, <1>7 DEF IInv

LEMMA InvRate == ASSUME FlowAssumption, IInv PROVE RateBound
<1> SUFFICES ASSUME flow.limit > 0, steps = 0
             PROVE  flow.total * Second <= 2 * flow.limit * (now - flow.start) + flow.limit
  BY DEF RateBound
<1>1. /\ flow.limit \in Nat /\ flow.start \in Nat /\ flow.b \in Nat /\ flow.c \in Nat
      /\ now \in Nat /\ flow.total * Second \in Int
  BY DEF IInv, FlowTypeOK, FlowType, FlowAssumption
<1>2. flow.b <= now
  BY <1>1 DEF IInv, WindowRight, FlowTypeOK, FlowType
<1>3. flow.limit * (flow.b - flow.start) <= flow.limit * (now - flow.start)
  BY <1>1, <1>2, ProductOrder
<1>4. flow.total * Second <=
        flow.limit * (flow.b - flow.start) + flow.limit * (now - flow.start) + flow.limit
  BY DEF IInv, AtMarks
<1>5. 2 * flow.limit * (now - flow.start)
        = flow.limit * (now - flow.start) + flow.limit * (now - flow.start)
  BY <1>1
<1>6. flow.limit * (flow.b - flow.start) \in Int /\ flow.limit * (now - flow.start) \in Int
  BY <1>1
<1> QED
  BY <1>1, <1>3, <1>4, <1>5, <1>6
-------------------------------------------------------------------------------
\* The invariant of the flow control holds for all limits, intervals and clocks.
THEOREM InvCorrect == FlowSpec => []IInv
<1>1. FlowInit => IInv
  BY FlowAssumption, InitInv
<1>2. IInv /\ [FlowNext]_flowVars => IInv'
  <2> SUFFICES ASSUME IInv, [FlowNext]_flowVars PROVE IInv'
    OBVIOUS
  <2>1. CASE Tick
    BY <2>1, FlowAssumption, TickInv
  <2>2. CASE SetBack
    BY <2>2, FlowAssumption, SetBackInv
  <2>3. CASE CifsFlow
    BY <2>3, FlowAssumption, CallInv
  <2>4. CASE UNCHANGED flowVars
    BY <2>4 DEF flowVars, IInv, FlowTypeOK, WindowRight, AtMarks
  <2> QED
    BY <2>1, <2>2, <2>3, <2>4 DEF FlowNext
<1> QED
  BY <1>1, <1>2, PTL DEF FlowSpec

\* cifs_flow: d and e always count from the marks a and b, whatever the clock does.
THEOREM WindowCorrect == FlowSpec => []WindowRight
<1>1. IInv => WindowRight
  BY DEF IInv
<1> QED
  BY <1>1, InvCorrect, PTL

\* The option -s is exceeded by a factor of two at most, for every limit, interval and
\* sequence of calls, as long as the clock is not set back.
THEOREM RateCorrect == FlowSpec => []RateBound
<1>1. IInv => RateBound
  BY FlowAssumption, InvRate
<1> QED
  BY <1>1, InvCorrect, PTL
-------------------------------------------------------------------------------
(* Human: the limit is what an argument with a suffix says.                *)

\* What is in memory where an argument is.
Memory(letters, beyond) == letters \o <<Nul>> \o beyond

LEMMA MemoryIs ==
    ASSUME NEW S, Nul \in S, NEW letters \in Seq(S), NEW beyond \in Seq(S)
    PROVE  /\ \A j \in 1..Len(letters) : Memory(letters, beyond)[j] = letters[j]
           /\ Memory(letters, beyond)[Len(letters) + 1] = Nul
<1> DEFINE m == letters \o <<Nul>>
<1> HIDE DEF Nul
<1>1. <<Nul>> \in Seq(S) /\ Len(<<Nul>>) = 1 /\ <<Nul>>[1] = Nul
  OBVIOUS
<1>2. /\ m \in Seq(S) /\ Len(m) = Len(letters) + 1
      /\ \A j \in 1..Len(letters) + 1 : m[j] = IF j <= Len(letters) THEN letters[j] ELSE <<Nul>>[j - Len(letters)]
  BY <1>1, ConcatProperties
<1> HIDE DEF m
<1>3. \A j \in 1..Len(m) : (m \o beyond)[j] = m[j]
  BY <1>2, ConcatProperties
<1>4. Memory(letters, beyond) = m \o beyond
  BY DEF Memory, m
<1>5. Len(letters) \in Nat
  OBVIOUS
<1>6. m[Len(letters) + 1] = Nul
  BY <1>1, <1>2, <1>5
<1> QED
  BY <1>2, <1>3, <1>4, <1>5, <1>6

LEMMA SingleIs ==
    ASSUME NEW S, NEW s \in Seq(S), Len(s) = 1
    PROVE  s = <<s[1]>>
<1>1. <<s[1]>> \in Seq(S) /\ Len(<<s[1]>>) = 1 /\ <<s[1]>>[1] = s[1]
  OBVIOUS
<1>2. \A i \in 1..Len(s) : s[i] = <<s[1]>>[i]
  BY <1>1
<1> QED
  BY <1>1, <1>2, SeqEqual

\* The letters behind the first one.
LEMMA MoreIs ==
    ASSUME NEW S, NEW letters \in Seq(S), NEW more, more = SubSeq(letters, 2, Len(letters))
    PROVE  /\ Len(letters) <= 1 => more = <<>>
           /\ Len(letters) = 2 => more = <<letters[2]>>
           /\ Len(letters) >= 2 => Len(more) = Len(letters) - 1 /\ more[1] = letters[2]
<1>1. /\ more \in Seq(S) /\ Len(more) = IF 2 <= Len(letters) THEN Len(letters) - 2 + 1 ELSE 0
      /\ \A i \in 1..Len(letters) - 2 + 1 : more[i] = letters[2 + i - 1]
  BY SubSeqProperties
<1>2. CASE Len(letters) <= 1
  BY <1>1, <1>2, EmptySeq
<1>3. CASE Len(letters) >= 2
  <2>1. Len(more) = Len(letters) - 1 /\ more[1] = letters[2]
    BY <1>1, <1>3
  <2>2. ASSUME Len(letters) = 2 PROVE more = <<more[1]>>
    <3>1. more \in Seq(S) /\ Len(more) = 1
      BY <1>1, <2>1, <2>2
    <3> QED
      BY <3>1, SingleIs
  <2> QED
    BY <1>3, <2>1, <2>2
<1> QED
  BY <1>2, <1>3

\* A number that an int has is the same as an int, and -1 too.
LEMMA AsIntIs ==
    ASSUME IntRange \in Nat, IntRange >= 2
    PROVE  /\ \A x \in Nat : 2 * x < IntRange => AsInt(x) = x
           /\ AsInt(-1) = -1
<1>1. \A x \in Nat : 2 * x < IntRange => x % IntRange = x
  OBVIOUS
<1>2. (-1) % IntRange = IntRange - 1
  OBVIOUS
<1> QED
  BY <1>1, <1>2 DEF AsInt

\* An argument is refused because of what is behind the letter, or multiplied.
LEMMA DecodedIs ==
    ASSUME HumanAssumption, NEW x \in Arguments
    PROVE  SuffixDecoded(x.n, x.letters, x.beyond)
<1> DEFINE S == STRING \cup {Nul}
           n == x.n
           letters == x.letters
           beyond == x.beyond
           m == Memory(letters, beyond)
           k == Len(letters)
           p == IF m[2] \in {"b", "B"} THEN 3 ELSE 2
           more == SubSeq(letters, 2, Len(letters))
           value == n * Factor(m[1])
           l == Limit(n, letters, beyond)
<1>1. /\ n \in Nat /\ letters \in Seq(S) /\ beyond \in Seq(S) /\ k \in Nat /\ Kilo \in Nat
      /\ \A j \in 1..k : letters[j] # Nul
  BY SeqMonotonic DEF HumanAssumption
<1> HIDE DEF S
<1>2. (\A j \in 1..k : m[j] = letters[j]) /\ m[k + 1] = Nul
  BY <1>1, MemoryIs DEF S
<1>3. l = AsInt(IF m[p] # Nul THEN -1 ELSE value)
  BY DEF Limit, DecodeHsize, Memory
<1>4. AsInt(-1) = -1 /\ \A y \in Nat : 2 * y < IntRange => AsInt(y) = y
  BY AsIntIs DEF HumanAssumption
<1> HIDE DEF n, letters, beyond, m, k, p, value, l
<1>5. /\ k <= 1 => more = <<>>
      /\ k = 2 => more = <<letters[2]>>
      /\ k >= 2 => Len(more) = k - 1 /\ more[1] = letters[2]
  BY <1>1, MoreIs DEF k
<1> HIDE DEF more
<1>6. Nul \notin {"b", "B", "k", "K", "m", "M", "g", "G", "t", "T"}
  BY DEF Nul
<1>7. ASSUME more \notin {<<>>, <<"b">>, <<"B">>} PROVE l = -1
  <2>1. k >= 2
    BY <1>1, <1>5, <1>7
  <2>2. m[p] # Nul
    <3>1. CASE letters[2] \in {"b", "B"}
      <4>1. k >= 3 /\ 3 \in 1..k /\ p = 3
        BY <1>1, <1>2, <1>5, <1>7, <2>1, <3>1 DEF p
      <4> QED
        BY <1>1, <1>2, <4>1
    <3>2. CASE letters[2] \notin {"b", "B"}
      <4>1. 2 \in 1..k /\ p = 2
        BY <1>1, <1>2, <2>1, <3>2 DEF p
      <4> QED
        BY <1>1, <1>2, <4>1
    <3> QED
      BY <3>1, <3>2
  <2> QED
    BY <1>3, <1>4, <2>2
<1>9. ASSUME letters # <<>>, more \in {<<>>, <<"b">>, <<"B">>}
      PROVE  m[p] = Nul /\ m[1] = letters[1]
  <2>1. k >= 1 /\ m[1] = letters[1]
    BY <1>1, <1>2, <1>9, EmptySeq DEF k
  <2>2. CASE k = 1
    <3>1. m[2] = Nul /\ p = 2
      BY <1>2, <1>6, <2>2 DEF p
    <3> QED
      BY <2>1, <3>1
  <2>3. CASE k >= 2
    <3>1. k = 2 /\ letters[2] \in {"b", "B"}
      <4>1. Len(<<>>) = 0 /\ Len(<<"b">>) = 1 /\ Len(<<"B">>) = 1 /\ <<"b">>[1] = "b" /\ <<"B">>[1] = "B"
        OBVIOUS
      <4>2. Len(more) = k - 1 /\ more[1] = letters[2]
        BY <1>5, <2>3
      <4>3. CASE more = <<>>
        BY <1>1, <2>3, <4>1, <4>2, <4>3
      <4>4. CASE more = <<"b">>
        BY <1>1, <4>1, <4>2, <4>4
      <4>5. CASE more = <<"B">>
        BY <1>1, <4>1, <4>2, <4>5
      <4> QED
        BY <1>9, <4>3, <4>4, <4>5
    <3>2. m[2] = letters[2] /\ m[3] = Nul /\ p = 3
      BY <1>2, <3>1 DEF p
    <3> QED
      BY <2>1, <3>2
  <2> QED
    BY <1>1, <2>1, <2>2, <2>3
<1>10. ASSUME letters # <<>>, more \in {<<>>, <<"b">>, <<"B">>}, NEW v \in Nat,
              v = n * Factor(letters[1])
       PROVE  l = AsInt(v) /\ (2 * v < IntRange => l = v)
  BY <1>3, <1>4, <1>9, <1>10 DEF value
<1> DEFINE units == << <<"k", "K">>, <<"m", "M">>, <<"g", "G">>, <<"t", "T">> >>
           values == << n * Kilo, n * (Kilo * Kilo), n * (Kilo * Kilo * Kilo),
                        n * (Kilo * Kilo * Kilo * Kilo) >>
<1>11. ASSUME NEW u \in 1..4, letters # <<>>, letters[1] \in {units[u][1], units[u][2]},
              more \in {<<>>, <<"b">>, <<"B">>}
       PROVE  l = AsInt(values[u]) /\ (2 * values[u] < IntRange => l = values[u])
  <2>1. Factor(letters[1]) = << Kilo, Kilo * Kilo, Kilo * Kilo * Kilo, Kilo * Kilo * Kilo * Kilo >>[u]
    BY <1>11 DEF Factor
  <2>2. values[u] = n * Factor(letters[1])
    BY <2>1
  <2>3. values[u] \in Nat
    <3> DEFINE k2 == Kilo * Kilo  k3 == Kilo * Kilo * Kilo  k4 == Kilo * Kilo * Kilo * Kilo
    <3>1. n \in Nat /\ Kilo \in Nat
      BY <1>1
    <3>2. k2 \in Nat
      BY <3>1
    <3>3. k3 \in Nat
      BY <3>1, <3>2
    <3>4. k4 \in Nat
      BY <3>1, <3>3
    <3> HIDE DEF k2, k3, k4
    <3>5. n * Kilo \in Nat /\ n * k2 \in Nat /\ n * k3 \in Nat /\ n * k4 \in Nat
      BY <3>1, <3>2, <3>3, <3>4
    <3>6. values[1] \in Nat /\ values[2] \in Nat /\ values[3] \in Nat /\ values[4] \in Nat
      BY <3>5 DEF k2, k3, k4
    <3> HIDE DEF values
    <3>7. u = 1 \/ u = 2 \/ u = 3 \/ u = 4
      BY <1>11
    <3> QED
      BY <3>6, <3>7
  <2> QED
    BY <1>10, <1>11, <2>2, <2>3
<1> QED
  BY <1>7, <1>11 DEF SuffixDecoded, n, letters, beyond, more, l

\* Whatever argument with a suffix -s has, the limit that is put into flow is what an int
\* keeps of its value, and one with more letters is refused (cifs_decode_hsize). Of a
\* number without a suffix it says nothing: the code does not do what is documented.
THEOREM LimitCorrect == HumanSpec => []LimitDecoded
<1> DEFINE Inv == argument \subseteq Arguments
<1>1. HumanInit => Inv
  BY DEF HumanInit
<1>2. Inv /\ [DecodeArgument]_argument => Inv'
  BY DEF DecodeArgument
<1>3. Inv => LimitDecoded
  BY HumanAssumption, DecodedIs DEF LimitDecoded
<1> QED
  BY <1>1, <1>2, <1>3, PTL DEF HumanSpec
-------------------------------------------------------------------------------
(* Codepage: conversions stay within their buffers and are complete.       *)

\* What is known of a conversion under way: where it is in the text, why it stopped there.
Converting ==
    /\ text \in Texts /\ grows \in BOOLEAN /\ size \in Int /\ room \in Int /\ written \in Nat
    /\ taken \in 0..Len(text) /\ Len(text) \in Nat
    /\ written + room = size /\ room >= 0 /\ written = OutBytes[taken]
    /\ stop \in {"end", "done"} => taken = Len(text)
    /\ stop \in {"EILSEQ", "E2BIG"} => taken < Len(text)
    /\ stop = "EILSEQ" => ~text[taken + 1].ok
    /\ stop = "E2BIG" => OutBytes[taken + 1] > written + room
    /\ stop = "done" /\ grows => size = written + 1
    /\ stop = "failed" => OutBytes[Len(text)] > size

\* A text has an end in the input and, after each of its characters, one in the output.
LEMMA OutIs ==
    ASSUME NEW s \in Texts
    PROVE  /\ Len(s) \in Nat /\ InBytes(s) \in Nat
           /\ Out(s)[0] = 0 /\ \A n \in 0..Len(s) : Out(s)[n] \in Nat
<1>1. s \in Seq([in : Nat, out : Nat, ok : BOOLEAN]) /\ Len(s) \in Nat
  BY TextAssumption
<1>2. ASSUME NEW n \in 1..Len(s) PROVE s[n].in \in Nat /\ s[n].out \in Nat
  <2>1. s[n] \in [in : Nat, out : Nat, ok : BOOLEAN]
    BY <1>1, ElementOfSeq
  <2> QED
    BY <2>1
<1>3. InBytes(s) \in Nat
  <2>1. CASE s = <<>>
    BY <2>1 DEF InBytes
  <2>2. CASE s # <<>>
    <3>1. Len(s) \in 1..Len(s)
      BY <1>1, <2>2, EmptySeq
    <3> QED
      BY <1>2, <2>2, <3>1 DEF InBytes
  <2> QED
    BY <2>1, <2>2
<1>4. Out(s)[0] = 0
  BY <1>1 DEF Out
<1>5. ASSUME NEW n \in 0..Len(s) PROVE Out(s)[n] \in Nat
  <2>1. CASE n = 0
    BY <1>4, <2>1
  <2>2. CASE n # 0
    <3>1. n \in 1..Len(s)
      BY <1>1, <2>2
    <3> QED
      BY <1>2, <2>2, <3>1 DEF Out
  <2> QED
    BY <2>1, <2>2
<1> QED
  BY <1>1, <1>3, <1>4, <1>5

\* Where the output is after the next character of the text.
LEMMA NextBytes ==
    ASSUME Converting, taken < Len(text)
    PROVE  /\ taken + 1 \in 0..Len(text)
           /\ OutBytes[taken + 1] \in Nat /\ OutBytes[taken + 1] <= OutBytes[Len(text)]
           /\ OutBytes[Len(text)] \in Nat
           /\ ~text[taken + 1].ok => OutBytes[taken + 1] = written + 3
<1> DEFINE n == taken + 1
<1>1. /\ n \in 1..Len(text) /\ n \in 0..Len(text) /\ Len(text) \in 0..Len(text)
      /\ n <= Len(text) /\ n - 1 = taken
  BY DEF Converting
<1> HIDE DEF n
<1>2. OutBytes[n] \in Nat /\ OutBytes[Len(text)] \in Nat
  BY <1>1, OutIs DEF Converting, OutBytes
<1>3. OutBytes[n] <= OutBytes[Len(text)] /\ (~text[n].ok => OutBytes[n] = OutBytes[n - 1] + 3)
  BY <1>1, TextAssumption DEF Converting, OutBytes
<1> QED
  BY <1>1, <1>2, <1>3 DEF Converting, n

LEMMA ConvertingInit == ASSUME CodepageInit PROVE Converting
<1>1. text \in Texts /\ grows \in BOOLEAN /\ room = size /\ taken = 0 /\ written = 0 /\ stop = "none"
  BY DEF CodepageInit
<1>2. Len(text) \in Nat /\ OutBytes[0] = 0 /\ InBytes(text) \in Nat
  BY <1>1, OutIs DEF OutBytes
<1>3. size \in Nat
  <2>1. size \in OutSizes \/ size = InBytes(text) + 1
    BY DEF CodepageInit
  <2>2. CASE size \in OutSizes
    BY <2>2, TextAssumption
  <2>3. CASE size = InBytes(text) + 1
    BY <1>2, <2>3
  <2> QED
    BY <2>1, <2>2, <2>3
<1> QED
  BY <1>1, <1>2, <1>3 DEF Converting

LEMMA ConvertingStep ==
    ASSUME Converting, [CodepageNext]_codepageVars
    PROVE  Converting'
<1>1. ASSUME Iconv PROVE Converting'
  <2>1. PICK n \in taken..Len(text) :
          /\ OutBytes[n] - OutBytes[taken] <= room
          /\ taken' = n /\ written' = written + (OutBytes[n] - OutBytes[taken])
          /\ room' = room - (OutBytes[n] - OutBytes[taken])
          /\ \/ n = Len(text) /\ stop' = "end"
             \/ n < Len(text) /\ ~text[n+1].ok /\ stop' = "EILSEQ"
             \/ n < Len(text) /\ text[n+1].ok /\ OutBytes[n+1] - OutBytes[taken] > room
                /\ stop' = "E2BIG"
    BY <1>1 DEF Iconv
  <2>2. UNCHANGED <<text, grows, size>> /\ OutBytes' = OutBytes
    BY <1>1 DEF Iconv, OutBytes
  <2>3. n \in 0..Len(text) /\ OutBytes[n] \in Nat /\ OutBytes[taken] = written
    <3>1. n \in 0..Len(text)
      BY <2>1 DEF Converting
    <3>2. OutBytes[n] \in Nat
      BY <3>1, OutIs DEF Converting, OutBytes
    <3> QED
      BY <3>1, <3>2 DEF Converting
  <2>4. written \in Nat /\ room \in Int /\ size \in Int /\ written + room = size
    BY DEF Converting
  <2> DEFINE reach == OutBytes[n]
  <2>5. reach \in Nat /\ reach - written <= room /\ written' = written + (reach - written)
        /\ room' = room - (reach - written)
    BY <2>1, <2>3
  <2> HIDE DEF reach
  <2>6. written' = reach /\ room' \in Int /\ room' >= 0 /\ written' + room' = size
    BY <2>4, <2>5
  <2>7. ASSUME stop' = "E2BIG" PROVE OutBytes[n + 1] > written' + room'
    <3>1. n < Len(text) /\ OutBytes[n + 1] - OutBytes[taken] > room
      BY <2>1, <2>7
    <3>2. n + 1 \in 0..Len(text)
      BY <2>3, <3>1 DEF Converting
    <3>3. OutBytes[n + 1] \in Nat
      BY <3>2, OutIs DEF Converting, OutBytes
    <3> QED
      BY <2>3, <2>4, <2>6, <3>1, <3>3
  <2>8. /\ stop' \in {"end", "EILSEQ", "E2BIG"} /\ (stop' = "end" => n = Len(text))
        /\ (stop' \in {"EILSEQ", "E2BIG"} => n < Len(text))
        /\ (stop' = "EILSEQ" => ~text[n + 1].ok)
    BY <2>1
  <2>9. taken' = n /\ written' = OutBytes'[taken'] /\ written' \in Nat
    BY <2>1, <2>2, <2>3, <2>6 DEF reach
  <2> QED
    BY <2>2, <2>3, <2>6, <2>7, <2>8, <2>9 DEF Converting
<1>2. ASSUME Hex PROVE Converting'
  <2>1. /\ stop = "EILSEQ" /\ room >= 3 /\ written' = written + 3 /\ room' = room - 3
        /\ taken' = taken + 1 /\ stop' = "none" /\ UNCHANGED <<text, grows, size>>
        /\ OutBytes' = OutBytes
    BY <1>2 DEF Hex, OutBytes
  <2>2. taken + 1 \in 0..Len(text) /\ OutBytes[taken + 1] = written + 3
    BY <2>1, NextBytes DEF Converting
  <2> QED
    BY <2>1, <2>2 DEF Converting
<1>3. ASSUME TooSmall PROVE Converting'
  <2>1. /\ stop \in {"E2BIG", "EILSEQ"} /\ (stop = "EILSEQ" => room < 3) /\ stop' = "failed"
        /\ UNCHANGED <<text, grows, size, room, taken, written>> /\ OutBytes' = OutBytes
    BY <1>3 DEF TooSmall, NoRoom, OutBytes
  <2>2. taken < Len(text) /\ (stop = "EILSEQ" => ~text[taken + 1].ok)
        /\ (stop = "E2BIG" => OutBytes[taken + 1] > written + room)
    BY <2>1 DEF Converting
  <2>3. OutBytes[Len(text)] > size
    BY <2>1, <2>2, NextBytes DEF Converting
  <2> QED
    BY <2>1, <2>3 DEF Converting
<1>4. ASSUME Grow PROVE Converting'
  <2>1. /\ size' = 2 * size /\ room' = room + size /\ stop' = "none"
        /\ UNCHANGED <<text, grows, taken, written>> /\ OutBytes' = OutBytes
    BY <1>4 DEF Grow, Doubled, OutBytes
  <2>2. written \in Nat /\ room \in Int /\ size \in Int /\ written + room = size /\ room >= 0
    BY DEF Converting
  <2>3. size' \in Int /\ room' \in Int /\ room' >= 0 /\ written + room' = size'
    BY <2>1, <2>2
  <2> QED
    BY <2>1, <2>3 DEF Converting
<1>5. ASSUME Finish PROVE Converting'
  <2>1. /\ stop = "end" /\ stop' = "done" /\ UNCHANGED <<text, grows, taken, written>>
        /\ OutBytes' = OutBytes
        /\ IF grows THEN size' = size - (room - 1) /\ room' = 1 ELSE UNCHANGED <<size, room>>
    BY <1>5 DEF Finish, OutBytes
  <2>2. written \in Nat /\ room \in Int /\ size \in Int /\ written + room = size /\ room >= 0
    BY DEF Converting
  <2>3. /\ size' \in Int /\ room' \in Int /\ room' >= 0 /\ written + room' = size'
        /\ grows => size' = written + 1
    BY <2>1, <2>2
  <2> QED
    BY <2>1, <2>3 DEF Converting
<1>6. CASE UNCHANGED codepageVars
  BY <1>6 DEF codepageVars, Converting, OutBytes
<1> QED
  BY <1>1, <1>2, <1>3, <1>4, <1>5, <1>6 DEF CodepageNext

\* A conversion stays inside its buffer, writes what it took, ends with all of it, and
\* fails only for want of room, whatever the text and the buffer (cifs_cp_buf,
\* cifs_cp_bufa).
THEOREM ConvertedCorrect == CodepageSpec => []Converted
<1>1. CodepageInit => Converting
  BY ConvertingInit
<1>2. Converting /\ [CodepageNext]_codepageVars => Converting'
  BY ConvertingStep
<1>3. Converting => Converted
  BY DEF Converting, Converted
<1> QED
  BY <1>1, <1>2, <1>3, PTL DEF CodepageSpec
-------------------------------------------------------------------------------
(* Cookie: a stream is where the standard promises it to be.               *)

\* The variables while a stream is open, or was not to be had.
StreamType ==
    /\ mode \in FileModes /\ len \in Int /\ ref \in [pos : Int, len : Int]
    /\ stream \in [off : Int, size : Int, read : BOOLEAN, write : BOOLEAN]
    /\ got \in Nat /\ faults \in Nat /\ astray \in BOOLEAN
    /\ phase \in {"closed", "open", "failed", "crashed", "read", "print", "end"}

\* cifscat does not pass the end, and a block with nothing in it means that it is there.
AtEnd ==
    /\ phase \in {"read", "print", "end"} => 0 <= stream.off /\ stream.off <= len
    /\ phase = "print" /\ got = 0 => stream.off = len
    /\ phase = "end" => stream.off = len

Streaming ==
    /\ StreamType
    /\ phase = "closed" => ref.len = len /\ len \in Nat \cup {-1} /\ got = 0
    /\ phase = "failed" => ref.len = -1
    /\ phase = "read" => got < Block
    /\ phase \in {"open", "read", "print", "end"} /\ faults = 0 /\ ~astray =>
          stream.off = ref.pos /\ len = ref.len /\ AtEnd

\* The flags say what the standard promises for a mode of its own.
LEMMA FlagsRight ==
    ASSUME mode \in FileModes, len \in Nat \cup {-1}
    PROVE  /\ Opened(Disposition(Flags.with)) = Promised /\ Promised \in Nat \cup {-1}
           /\ "append" \in Flags.with <=> mode[1] = "a"
<1> DEFINE k == Len(mode)
<1>1. /\ mode \in Seq(STRING) /\ k \in Nat /\ k > 0 /\ mode[1] \in {"r", "w", "a"}
      /\ \A n \in 2..k : mode[n] \in {"+", "b", "x"}
      /\ \A n \in 2..k : mode[n] = "x" => n = k /\ mode[1] = "w" /\ \A j \in 1..n : mode[j] # "b"
  BY CookieAssumption
<1> HIDE DEF k
<1>2. 1 \in Places /\ Places \subseteq 1..k /\ \A n \in Places : n = 1 \/ n \in 2..k
  BY <1>1 DEF Places, Letters, k
<1>3. \A n \in Places : n # 1 => mode[n] \in {"+", "x"}
  BY <1>1, <1>2 DEF Places, Letters
<1>4. mode[k] = "x" => k \in Places /\ k # 1
  <2> SUFFICES ASSUME mode[k] = "x" PROVE k \in Places /\ k # 1
    OBVIOUS
  <2>1. k # 1 /\ k \in 2..k
    BY <1>1
  <2>2. \A j \in 1..k : mode[j] # "b"
    BY <1>1, <2>1
  <2>3. \A j \in 1..k : mode[j] \in Letters
    BY <1>1, <2>2 DEF Letters
  <2> QED
    BY <1>1, <2>1, <2>3 DEF Places, k
<1>5. \A n \in Places : mode[n] = "x" => mode[k] = "x" /\ mode[1] = "w"
  BY <1>1, <1>2
<1>6. Has({"w"}, {"a"}) <=> mode[1] = "w"
  BY <1>1, <1>2, <1>3 DEF Has
<1>7. Has({"a"}, {}) <=> mode[1] = "a"
  BY <1>1, <1>2, <1>3 DEF Has
<1>8. Has({"x"}, {"w", "a"}) <=> mode[k] = "x"
  <2>1. ASSUME Has({"x"}, {"w", "a"}) PROVE mode[k] = "x"
    BY <1>5, <2>1 DEF Has
  <2>2. ASSUME mode[k] = "x" PROVE Has({"x"}, {"w", "a"})
    <3>1. k \in Places /\ \A m \in Places : m > k => FALSE
      BY <1>1, <1>2, <1>4, <2>2
    <3> QED
      BY <2>2, <3>1 DEF Has
  <2> QED
    BY <2>1, <2>2
<1>9. Flags.with = (IF mode[1] = "w" THEN {"creat", "trunc"}
                    ELSE IF mode[1] = "a" THEN {"creat", "append"} ELSE {})
                   \cup (IF mode[k] = "x" THEN {"excl"} ELSE {})
  BY <1>6, <1>7, <1>8 DEF Flags
<1>10. mode[k] = "x" => mode[1] = "w"
  BY <1>4, <1>5
<1> DEFINE w == Flags.with
<1>11. "append" \in w <=> mode[1] = "a"
  BY <1>1, <1>9, <1>10
<1>12. Disposition(w) = IF mode[k] = "x" THEN "create" ELSE IF mode[1] = "w" THEN "overwrite_if"
                        ELSE IF mode[1] = "a" THEN "open_if" ELSE "open"
  BY <1>1, <1>9, <1>10 DEF Disposition
<1> HIDE DEF w
<1>13. Opened(Disposition(w)) = Promised
  <2>1. CASE mode[k] = "x"
    BY <1>10, <1>12, <2>1 DEF Opened, Promised, k
  <2>2. CASE mode[k] # "x"
    BY <1>1, <1>12, <2>2 DEF Opened, Promised, k
  <2> QED
    BY <2>1, <2>2
<1>14. Promised \in Nat \cup {-1}
  <2>1. Bigger(len, 0) \in Nat
    BY DEF Bigger
  <2> QED
    BY <1>1, <1>10, <2>1 DEF Promised, k
<1> QED
  BY <1>11, <1>13, <1>14 DEF w

LEMMA StreamingInit == ASSUME CookieInit PROVE Streaming
<1>1. len \in Nat \cup {-1}
  BY CookieAssumption DEF CookieInit
<1>2. /\ stream \in [off : Int, size : Int, read : BOOLEAN, write : BOOLEAN]
      /\ ref \in [pos : Int, len : Int] /\ ref.len = len
  BY <1>1 DEF CookieInit
<1> QED
  BY <1>1, <1>2 DEF CookieInit, Streaming, StreamType

\* What reader does to the stream and to what it should be.
LEMMA ReaderIs ==
    ASSUME Streaming, NEW count \in Nat \ {0}, NEW res \in Int, Reader(count, res)
    PROVE  /\ stream' \in [off : Int, size : Int, read : BOOLEAN, write : BOOLEAN]
           /\ ref' \in [pos : Int, len : Int] /\ ref'.len = ref.len /\ faults' \in Nat
           /\ res \in -1..count /\ stream'.off = stream.off + res
           /\ res = -1 => faults' > 0
           /\ res # -1 => /\ faults' = faults /\ ref'.pos = ref.pos + res
                          /\ res = 0 => stream.off < 0 \/ stream.off >= len
                          /\ stream.off <= len => stream'.off <= len
<1>1. /\ stream \in [off : Int, size : Int, read : BOOLEAN, write : BOOLEAN]
      /\ ref \in [pos : Int, len : Int] /\ faults \in Nat /\ len \in Int
  BY DEF Streaming, StreamType
<1>2. /\ stream' = [stream EXCEPT !.off = stream.off + res]
      /\ ref' = IF res > 0 THEN [ref EXCEPT !.pos = ref.pos + res] ELSE ref
      /\ faults' = IF res = -1 THEN faults + 1 ELSE faults
      /\ res \in (IF stream.off \in 0..len - 1 THEN 1..count ELSE {0}) \cup {-1}
      /\ stream.off + res <= Bigger(len, stream.off)
  BY DEF Reader, Advance
<1>3. /\ stream'.off = stream.off + res
      /\ stream' \in [off : Int, size : Int, read : BOOLEAN, write : BOOLEAN]
  BY <1>1, <1>2
<1>4. /\ ref' \in [pos : Int, len : Int] /\ ref'.len = ref.len
      /\ ref'.pos = IF res > 0 THEN ref.pos + res ELSE ref.pos
  BY <1>1, <1>2
<1>5. res \in -1..count /\ (res = 0 => stream.off < 0 \/ stream.off >= len)
  BY <1>1, <1>2
<1>6. stream.off <= len => stream.off + res <= len
  BY <1>1, <1>2 DEF Bigger
<1> QED
  BY <1>1, <1>2, <1>3, <1>4, <1>5, <1>6

LEMMA StreamingStep ==
    ASSUME Streaming, [CookieNext]_cookieVars
    PROVE  Streaming'
<1>0. /\ stream \in [off : Int, size : Int, read : BOOLEAN, write : BOOLEAN]
      /\ ref \in [pos : Int, len : Int] /\ faults \in Nat /\ len \in Int /\ got \in Nat
      /\ Block \in Nat \ {0}
  BY CookieAssumption DEF Streaming, StreamType
<1>1. ASSUME Fopen PROVE Streaming'
  <2>1. mode \in FileModes /\ len \in Nat \cup {-1} /\ phase = "closed"
    BY <1>1 DEF Fopen, Streaming, StreamType
  <2> DEFINE n == Opened(Disposition(Flags.with))
             off == IF "append" \in Flags.with THEN n ELSE 0
  <2>2. /\ n = Promised /\ n \in Nat \cup {-1} /\ ("append" \in Flags.with <=> mode[1] = "a")
    BY <2>1, FlagsRight
  <2>3. /\ UNCHANGED <<mode, got, calls, faults, astray>>
        /\ ref' = [pos |-> off, len |-> n]
        /\ IF n < 0 THEN phase' = "failed" /\ UNCHANGED <<stream, len>>
           ELSE /\ phase' \in {"read", "open"} /\ len' = n
                /\ stream' = [off |-> off, size |-> n,
                              read |-> Flags.access # "write", write |-> Flags.access # "read"]
    BY <1>1, <2>2 DEF Fopen
  <2>4. off \in Int /\ (n >= 0 => 0 <= off /\ off <= n)
    BY <2>2
  <2> HIDE DEF n, off
  <2>5. ref' \in [pos : Int, len : Int] /\ ref'.pos = off /\ ref'.len = n
    BY <2>2, <2>3, <2>4
  <2>6. StreamType'
    <3>1. len' \in Int /\ phase' \in {"failed", "read", "open"}
      BY <2>1, <2>2, <2>3
    <3>2. stream' \in [off : Int, size : Int, read : BOOLEAN, write : BOOLEAN]
      <4>1. CASE n < 0
        BY <1>0, <2>3, <4>1
      <4>2. CASE ~(n < 0)
        <5>1. stream' = [off |-> off, size |-> n,
                         read |-> Flags.access # "write", write |-> Flags.access # "read"]
          BY <2>3, <4>2
        <5>2. n \in Int /\ (Flags.access # "write") \in BOOLEAN /\ (Flags.access # "read") \in BOOLEAN
          BY <2>2
        <5> QED
          BY <2>4, <5>1, <5>2
      <4> QED
        BY <4>1, <4>2
    <3> QED
      BY <2>3, <2>5, <3>1, <3>2 DEF Streaming, StreamType
  <2>7. CASE n < 0
    BY <2>2, <2>3, <2>5, <2>6, <2>7 DEF Streaming
  <2>8. CASE n >= 0
    <3>1. stream'.off = off /\ len' = n /\ phase' \in {"read", "open"} /\ got' = got
      BY <2>2, <2>3, <2>8
    <3>2. phase' = "read" => 0 <= off /\ off <= n /\ got' < Block
      BY <1>0, <2>1, <2>3, <2>4, <2>8 DEF Streaming
    <3> QED
      BY <2>5, <2>6, <3>1, <3>2 DEF Streaming, AtEnd
  <2> QED
    BY <2>2, <2>7, <2>8
<1>2. ASSUME FopenCrashes PROVE Streaming'
  BY <1>2 DEF FopenCrashes, Streaming, StreamType
<1>3. ASSUME StreamRead PROVE Streaming'
  <2>1. PICK res \in -1..Block : Reader(Block, res)
    BY <1>3 DEF StreamRead
  <2>2. phase = "open" /\ UNCHANGED <<mode, len, phase, got, astray>>
    BY <1>3 DEF StreamRead
  <2> QED
    BY <1>0, <2>1, <2>2, ReaderIs DEF Streaming, StreamType, AtEnd
<1>4. ASSUME StreamWrite PROVE Streaming'
  <2>1. PICK res \in -1..Block :
        /\ stream' = [stream EXCEPT !.off = stream.off + res]
        /\ IF res > 0
           THEN /\ len' = Bigger(len, stream.off + res)
                /\ ref' = [pos |-> PromisedAt + res, len |-> Bigger(ref.len, PromisedAt + res)]
                /\ UNCHANGED faults
           ELSE faults' = faults + 1 /\ UNCHANGED <<len, ref>>
    BY <1>4 DEF StreamWrite, Advance
  <2>2. /\ phase = "open" /\ UNCHANGED <<mode, phase, got>>
        /\ astray' \in BOOLEAN /\ (~astray' => ~astray /\ PromisedAt = ref.pos)
        /\ PromisedAt \in Int
    BY <1>0, <1>4 DEF StreamWrite, PromisedAt, Streaming, StreamType
  <2> DEFINE at == PromisedAt
  <2> HIDE DEF at
  <2>3. /\ stream'.off = stream.off + res /\ res \in Int
        /\ stream' \in [off : Int, size : Int, read : BOOLEAN, write : BOOLEAN]
    BY <1>0, <2>1
  <2>4. CASE res > 0
    <3>1. /\ ref' = [pos |-> at + res, len |-> Bigger(ref.len, at + res)]
          /\ len' = Bigger(len, stream.off + res) /\ faults' = faults
          /\ at \in Int /\ (~astray' => ~astray /\ at = ref.pos)
      BY <2>1, <2>2, <2>4 DEF at
    <3>2. len' \in Int /\ ref' \in [pos : Int, len : Int]
      BY <1>0, <2>1, <2>3, <2>4, <3>1 DEF Bigger
    <3>3. ref'.pos = at + res /\ ref'.len = Bigger(ref.len, at + res)
      BY <3>1
    <3> QED
      BY <1>0, <2>2, <2>3, <3>1, <3>2, <3>3 DEF Streaming, StreamType, AtEnd
  <2>5. CASE ~(res > 0)
    <3>1. faults' = faults + 1 /\ UNCHANGED <<len, ref>>
      BY <2>1, <2>5
    <3> QED
      BY <1>0, <2>2, <2>3, <3>1 DEF Streaming, StreamType, AtEnd
  <2> QED
    BY <2>4, <2>5
<1>5. ASSUME Seeker PROVE Streaming'
  <2> DEFINE From(whence, o, n) == CASE whence = "set" -> 0 [] whence = "cur" -> o [] whence = "end" -> n
  <2>1. PICK whence \in {"set", "cur", "end"}, d \in -1..1 :
          /\ stream' = [stream EXCEPT !.off = From(whence, stream.off, stream.size) + d]
          /\ ref' = IF From(whence, ref.pos, ref.len) + d < 0 THEN ref
                    ELSE [ref EXCEPT !.pos = From(whence, ref.pos, ref.len) + d]
          /\ astray' = (astray \/ From(whence, ref.pos, ref.len) + d < 0
                                 \/ (whence = "end" /\ len # stream.size))
    BY <1>5 DEF Seeker
  <2>2. phase = "open" /\ UNCHANGED <<mode, len, phase, got, faults>>
    BY <1>5 DEF Seeker
  <2>3. From(whence, stream.off, stream.size) \in Int /\ From(whence, ref.pos, ref.len) \in Int
    BY <1>0
  <2>4. len = stream.size \/ whence # "end" =>
          (stream.off = ref.pos /\ len = ref.len =>
             From(whence, stream.off, stream.size) = From(whence, ref.pos, ref.len))
    OBVIOUS
  <2> HIDE DEF From
  <2>5. /\ stream'.off = From(whence, stream.off, stream.size) + d
        /\ stream' \in [off : Int, size : Int, read : BOOLEAN, write : BOOLEAN]
        /\ ~astray' => ref'.pos = From(whence, ref.pos, ref.len) + d
        /\ ref'.len = ref.len /\ ref' \in [pos : Int, len : Int]
    <3> DEFINE pos == From(whence, ref.pos, ref.len) + d
               off == From(whence, stream.off, stream.size) + d
    <3>1. pos \in Int /\ off \in Int
      BY <2>1, <2>3
    <3>2. /\ stream' = [stream EXCEPT !.off = off]
          /\ ref' = IF pos < 0 THEN ref ELSE [ref EXCEPT !.pos = pos]
      BY <2>1
    <3>3. ~astray' => ~(pos < 0)
      BY <2>1
    <3> HIDE DEF pos, off
    <3>4. stream'.off = off /\ stream' \in [off : Int, size : Int, read : BOOLEAN, write : BOOLEAN]
      BY <1>0, <3>1, <3>2
    <3>5. ref'.len = ref.len /\ ref' \in [pos : Int, len : Int] /\ (~(pos < 0) => ref'.pos = pos)
      BY <1>0, <3>1, <3>2
    <3> QED
      BY <3>3, <3>4, <3>5 DEF pos, off
  <2>6. astray' \in BOOLEAN /\ (~astray' => ~astray /\ (len = stream.size \/ whence # "end"))
    <3> DEFINE before == From(whence, ref.pos, ref.len) + d < 0
    <3>1. astray' = (astray \/ before \/ (whence = "end" /\ len # stream.size)) /\ before \in BOOLEAN
      BY <2>1
    <3> HIDE DEF before
    <3> QED
      BY <3>1, Zenon DEF Streaming, StreamType
  <2> QED
    BY <2>2, <2>4, <2>5, <2>6 DEF Streaming, StreamType, AtEnd
<1>6. ASSUME Fread PROVE Streaming'
  <2>1. PICK res \in -1..Block - got :
          /\ Reader(Block - got, res) /\ got' = got + Bigger(res, 0)
          /\ phase' = IF res > 0 /\ got' < Block THEN "read" ELSE "print"
    BY <1>6 DEF Fread
  <2>2. phase = "read" /\ UNCHANGED <<mode, len, astray>>
    BY <1>6 DEF Fread
  <2>3. Block - got \in Nat \ {0} /\ res \in Int
    BY <1>0, <2>2 DEF Streaming
  <2>4. got' \in Nat /\ (got' = 0 => res <= 0) /\ (phase' = "read" => got' < Block)
    BY <1>0, <2>1, <2>3 DEF Bigger
  <2>5. phase' \in {"read", "print"}
    BY <2>1
  <2> DEFINE count == Block - got
  <2> HIDE DEF count
  <2>6. /\ stream' \in [off : Int, size : Int, read : BOOLEAN, write : BOOLEAN]
        /\ ref' \in [pos : Int, len : Int] /\ ref'.len = ref.len /\ faults' \in Nat
        /\ res \in -1..count /\ stream'.off = stream.off + res
        /\ res = -1 => faults' > 0
        /\ res # -1 => /\ faults' = faults /\ ref'.pos = ref.pos + res
                       /\ res = 0 => stream.off < 0 \/ stream.off >= len
                       /\ stream.off <= len => stream'.off <= len
    BY <2>1, <2>3, ReaderIs DEF count
  <2>7. StreamType'
    BY <2>2, <2>4, <2>5, <2>6 DEF Streaming, StreamType
  <2>8. ASSUME faults' = 0, ~astray'
        PROVE  stream'.off = ref'.pos /\ len' = ref'.len /\ AtEnd'
    <3>1. res # -1 /\ faults = 0 /\ ~astray
      BY <2>2, <2>6, <2>8
    <3>2. stream.off = ref.pos /\ len = ref.len /\ 0 <= stream.off /\ stream.off <= len
      BY <2>2, <3>1 DEF Streaming, AtEnd
    <3>3. 0 <= stream'.off /\ stream'.off <= len /\ stream'.off = ref'.pos
      BY <1>0, <2>6, <3>1, <3>2
    <3>4. phase' = "print" /\ got' = 0 => stream'.off = len
      BY <1>0, <2>3, <2>4, <2>6, <3>1, <3>2
    <3> QED
      BY <2>2, <2>5, <2>6, <3>2, <3>3, <3>4 DEF AtEnd
  <2> QED
    BY <2>4, <2>5, <2>7, <2>8 DEF Streaming
<1>7. ASSUME Fwrite PROVE Streaming'
  BY <1>0, <1>7 DEF Fwrite, Streaming, StreamType, AtEnd
<1>8. CASE UNCHANGED cookieVars
  BY <1>8 DEF cookieVars, Streaming, StreamType, AtEnd
<1> QED
  BY <1>1, <1>2, <1>3, <1>4, <1>5, <1>6, <1>7, <1>8 DEF CookieNext

\* A stream is where the standard promises it to be, over a file as long as it promises,
\* for all modes, lengths of files and results of the server, until one fails or the
\* client makes one of the three calls that the code does otherwise; cifscat ends at the
\* end (cookie.c).
THEOREM StreamCorrect == CookieSpec => []StreamAgrees
<1>1. CookieInit => Streaming
  BY StreamingInit
<1>2. Streaming /\ [CookieNext]_cookieVars => Streaming'
  BY StreamingStep
<1>3. Streaming => StreamAgrees
  BY DEF Streaming, StreamType, AtEnd, StreamAgrees
<1> QED
  BY <1>1, <1>2, <1>3, PTL DEF CookieSpec
-------------------------------------------------------------------------------
(* Uri: an address is understood as it was meant, whatever its parts are.  *)

\* Two sequences with a token between them.
LEMMA JoinIs ==
    ASSUME NEW S, NEW a \in Seq(S), NEW b \in Seq(S), NEW c \in S
    PROVE  /\ Join(a, c, b) \in Seq(S) /\ Len(a) \in Nat /\ Len(b) \in Nat
           /\ DOMAIN a = 1..Len(a) /\ DOMAIN b = 1..Len(b)
           /\ Len(Join(a, c, b)) = Len(a) + 1 + Len(b)
           /\ DOMAIN Join(a, c, b) = 1 .. Len(a) + 1 + Len(b)
           /\ \A i \in 1..Len(a) : Join(a, c, b)[i] = a[i]
           /\ Join(a, c, b)[Len(a) + 1] = c
           /\ \A i \in 1..Len(b) : Join(a, c, b)[Len(a) + 1 + i] = b[i]
<1>1. /\ a \in Seq(S) /\ Len(a) \in Nat /\ DOMAIN a = 1..Len(a)
      /\ b \in Seq(S) /\ Len(b) \in Nat /\ DOMAIN b = 1..Len(b)
  BY LenProperties
<1> DEFINE t == <<c>> \o b
<1>2. <<c>> \in Seq(S) /\ Len(<<c>>) = 1 /\ <<c>>[1] = c
  OBVIOUS
<1>3. /\ t \in Seq(S) /\ Len(t) = 1 + Len(b)
      /\ \A i \in 1 .. 1 + Len(b) : t[i] = IF i <= 1 THEN <<c>>[i] ELSE b[i - 1]
  BY <1>1, <1>2, ConcatProperties
<1>4. t[1] = c /\ \A i \in 1..Len(b) : t[1 + i] = b[i]
  BY <1>1, <1>2, <1>3
<1> HIDE DEF t
<1>5. /\ a \o t \in Seq(S) /\ Len(a \o t) = Len(a) + Len(t)
      /\ \A i \in 1 .. Len(a) + Len(t) : (a \o t)[i] = IF i <= Len(a) THEN a[i] ELSE t[i - Len(a)]
  BY <1>3, ConcatProperties
<1>6. Join(a, c, b) = a \o t
  BY DEF Join, t
<1> DEFINE j == Join(a, c, b)
<1>7. /\ j \in Seq(S) /\ Len(j) = Len(a) + 1 + Len(b)
      /\ \A i \in 1 .. Len(a) + 1 + Len(b) : j[i] = IF i <= Len(a) THEN a[i] ELSE t[i - Len(a)]
  BY <1>1, <1>3, <1>5, <1>6
<1> HIDE DEF j
<1>8. DOMAIN j = 1 .. Len(a) + 1 + Len(b)
  BY <1>7, LenProperties
<1>9. \A i \in 1..Len(a) : j[i] = a[i]
  BY <1>1, <1>7
<1>10. j[Len(a) + 1] = c
  BY <1>1, <1>4, <1>7
<1>11. ASSUME NEW i \in 1..Len(b) PROVE j[Len(a) + 1 + i] = b[i]
  <2> DEFINE q == Len(a) + 1 + i
  <2>1. q \in 1 .. Len(a) + 1 + Len(b) /\ ~(q <= Len(a)) /\ q - Len(a) = 1 + i
    BY <1>1
  <2>2. t[1 + i] = b[i]
    BY <1>4
  <2> HIDE DEF q
  <2>3. j[q] = t[q - Len(a)]
    BY <1>7, <2>1
  <2> QED
    BY <2>1, <2>2, <2>3 DEF q
<1> QED
  BY <1>1, <1>7, <1>8, <1>9, <1>10, <1>11 DEF j

LEMMA JoinType ==
    ASSUME NEW S, NEW a \in Seq(S), NEW b \in Seq(S), NEW c \in S
    PROVE  Join(a, c, b) \in Seq(S) /\ Len(a) \in Nat /\ Len(b) \in Nat
BY JoinIs

LEMMA JoinLength ==
    ASSUME NEW S, NEW a \in Seq(S), NEW b \in Seq(S), NEW c \in S
    PROVE  Len(Join(a, c, b)) = Len(a) + 1 + Len(b)
BY JoinIs

LEMMA JoinLeft ==
    ASSUME NEW S, NEW a \in Seq(S), NEW b \in Seq(S), NEW c \in S
    PROVE  \A i \in 1..Len(a) : Join(a, c, b)[i] = a[i]
BY JoinIs

\* It is taken apart at the token.
LEMMA JoinApart ==
    ASSUME NEW S, NEW a \in Seq(S), NEW b \in Seq(S), NEW c \in S
    PROVE  /\ Before(Join(a, c, b), Len(a) + 1) = a
           /\ After(Join(a, c, b), Len(a) + 1) = b
<1> DEFINE j == Join(a, c, b)
<1>1. /\ j \in Seq(S) /\ Len(a) \in Nat /\ Len(b) \in Nat /\ Len(j) = Len(a) + 1 + Len(b)
      /\ \A i \in 1..Len(a) : j[i] = a[i] /\ j[i] \in S
      /\ \A i \in 1..Len(b) : j[Len(a) + 1 + i] = b[i] /\ j[Len(a) + 1 + i] \in S
  <2>1. j \in Seq(S) /\ Len(a) \in Nat /\ Len(b) \in Nat /\ Len(j) = Len(a) + 1 + Len(b)
    BY JoinIs
  <2>2. \A i \in 1..Len(a) : j[i] = a[i]
    BY JoinIs
  <2>3. \A i \in 1..Len(b) : j[Len(a) + 1 + i] = b[i]
    BY JoinIs
  <2>4. (\A i \in 1..Len(a) : a[i] \in S) /\ (\A i \in 1..Len(b) : b[i] \in S)
    BY ElementOfSeq
  <2> HIDE DEF j
  <2> QED
    BY <2>1, <2>2, <2>3, <2>4
<1> HIDE DEF j
<1>2. SubSeq(j, 1, Len(a)) = a
  <2> DEFINE s == SubSeq(j, 1, Len(a))
  <2>1. s \in Seq(S) /\ Len(s) = Len(a) /\ \A i \in 1..Len(a) : s[i] = j[i]
    <3>1. /\ s \in Seq(S) /\ Len(s) = IF 1 <= Len(a) THEN Len(a) - 1 + 1 ELSE 0
          /\ \A i \in 1 .. Len(a) - 1 + 1 : s[i] = j[1 + i - 1]
      BY <1>1, SubSeqProperties
    <3> QED
      BY <1>1, <3>1
  <2> HIDE DEF s
  <2>2. s = a
    BY <1>1, <2>1, SeqEqual
  <2> QED
    BY <2>2 DEF s
<1>3. SubSeq(j, Len(a) + 2, Len(j)) = b
  <2> DEFINE s == SubSeq(j, Len(a) + 2, Len(j))
  <2>1. \A i \in Len(a) + 2 .. Len(j) : j[i] \in S
    BY <1>1, ElementOfSeq
  <2>2. /\ s \in Seq(S) /\ Len(s) = IF Len(a) + 2 <= Len(j) THEN Len(j) - (Len(a) + 2) + 1 ELSE 0
        /\ \A i \in 1 .. Len(j) - (Len(a) + 2) + 1 : s[i] = j[Len(a) + 2 + i - 1]
    BY <1>1, <2>1, SubSeqProperties
  <2> HIDE DEF s
  <2>3. Len(s) = Len(b) /\ \A i \in 1..Len(b) : s[i] = b[i]
    <3>1. Len(s) = Len(b) /\ Len(j) - (Len(a) + 2) + 1 = Len(b)
      BY <1>1, <2>2
    <3>2. ASSUME NEW i \in 1..Len(b) PROVE s[i] = b[i]
      <4>1. Len(a) + 2 + i - 1 = Len(a) + 1 + i
        BY <1>1
      <4> QED
        BY <1>1, <2>2, <3>1, <4>1
    <3> QED
      BY <3>1, <3>2
  <2>4. s = b
    BY <1>1, <2>2, <2>3, SeqEqual
  <2> QED
    BY <2>4 DEF s
<1> QED
  BY <1>1, <1>2, <1>3 DEF Before, After, j

\* What a joined text holds.
LEMMA JoinHolds ==
    ASSUME NEW S, NEW a \in Seq(S), NEW b \in Seq(S), NEW c \in S, NEW d
    PROVE  Holds(Join(a, c, b), d) <=> Holds(a, d) \/ Holds(b, d) \/ c = d
<1> DEFINE j == Join(a, c, b)
<1>1. /\ Len(a) \in Nat /\ Len(b) \in Nat /\ DOMAIN a = 1..Len(a) /\ DOMAIN b = 1..Len(b)
      /\ DOMAIN j = 1 .. Len(a) + 1 + Len(b)
      /\ \A i \in 1..Len(a) : j[i] = a[i]
      /\ j[Len(a) + 1] = c
      /\ \A i \in 1..Len(b) : j[Len(a) + 1 + i] = b[i]
  <2>1. Len(a) \in Nat /\ Len(b) \in Nat /\ DOMAIN a = 1..Len(a) /\ DOMAIN b = 1..Len(b)
    BY JoinIs
  <2>2. DOMAIN j = 1 .. Len(a) + 1 + Len(b) /\ (\A i \in 1..Len(a) : j[i] = a[i])
    BY JoinIs
  <2>3. j[Len(a) + 1] = c /\ \A i \in 1..Len(b) : j[Len(a) + 1 + i] = b[i]
    BY JoinIs
  <2> HIDE DEF j
  <2> QED
    BY <2>1, <2>2, <2>3
<1> HIDE DEF j
<1>2. ASSUME NEW i \in DOMAIN j, j[i] = d PROVE Holds(a, d) \/ Holds(b, d) \/ c = d
  <2>1. i \in 1..Len(a) \/ i = Len(a) + 1 \/ (i - (Len(a) + 1) \in 1..Len(b) /\ i = Len(a) + 1 + (i - (Len(a) + 1)))
    BY <1>1
  <2>2. CASE i \in 1..Len(a)
    BY <1>1, <1>2, <2>2 DEF Holds
  <2>3. CASE i = Len(a) + 1
    BY <1>1, <1>2, <2>3
  <2>4. CASE i - (Len(a) + 1) \in 1..Len(b) /\ i = Len(a) + 1 + (i - (Len(a) + 1))
    BY <1>1, <1>2, <2>4 DEF Holds
  <2> QED
    BY <2>1, <2>2, <2>3, <2>4
<1>3. ASSUME Holds(a, d) PROVE Holds(j, d)
  BY <1>1, <1>3 DEF Holds
<1>4. ASSUME Holds(b, d) PROVE Holds(j, d)
  <2>1. PICK i \in 1..Len(b) : b[i] = d
    BY <1>1, <1>4 DEF Holds
  <2>2. Len(a) + 1 + i \in DOMAIN j /\ j[Len(a) + 1 + i] = d
    BY <1>1, <2>1
  <2> QED
    BY <2>2 DEF Holds
<1>5. ASSUME c = d PROVE Holds(j, d)
  BY <1>1, <1>5 DEF Holds
<1> QED
  BY <1>2, <1>3, <1>4, <1>5 DEF Holds, j

\* The first place of a token is found if it does not come before, the last if not after.
LEMMA FirstAt ==
    ASSUME NEW S, NEW a \in Seq(S), NEW b \in Seq(S), NEW c \in S, ~Holds(a, c)
    PROVE  FirstOf(Join(a, c, b), c) = Len(a) + 1
<1> DEFINE j == Join(a, c, b)
<1>1. /\ Len(a) \in Nat /\ Len(b) \in Nat /\ DOMAIN a = 1..Len(a)
      /\ DOMAIN j = 1 .. Len(a) + 1 + Len(b)
      /\ \A i \in 1..Len(a) : j[i] = a[i]
      /\ j[Len(a) + 1] = c
  BY JoinIs
<1> HIDE DEF j
<1>2. Len(a) + 1 \in DOMAIN j /\ Holds(j, c)
  BY <1>1 DEF Holds
<1>3. \A i \in DOMAIN j : j[i] = c => Len(a) + 1 <= i
  BY <1>1 DEF Holds
<1> DEFINE Least(i) == j[i] = c /\ \A k \in DOMAIN j : j[k] = c => i <= k
<1>4. \A i \in DOMAIN j : Least(i) => i = Len(a) + 1
  BY <1>1, <1>2, <1>3
<1>5. Least(Len(a) + 1)
  BY <1>1, <1>3
<1> HIDE DEF Least
<1>6. (CHOOSE i \in DOMAIN j : Least(i)) = Len(a) + 1
  BY <1>2, <1>4, <1>5
<1> QED
  BY <1>2, <1>6 DEF FirstOf, Least, j

LEMMA LastAt ==
    ASSUME NEW S, NEW a \in Seq(S), NEW b \in Seq(S), NEW c \in S, ~Holds(b, c)
    PROVE  LastOf(Join(a, c, b), c) = Len(a) + 1
<1> DEFINE j == Join(a, c, b)
<1>1. /\ Len(a) \in Nat /\ Len(b) \in Nat /\ DOMAIN b = 1..Len(b)
      /\ DOMAIN j = 1 .. Len(a) + 1 + Len(b)
      /\ j[Len(a) + 1] = c
      /\ \A i \in 1..Len(b) : j[Len(a) + 1 + i] = b[i]
  BY JoinIs
<1> HIDE DEF j
<1>2. Len(a) + 1 \in DOMAIN j /\ Holds(j, c)
  BY <1>1 DEF Holds
<1>3. ASSUME NEW i \in DOMAIN j, j[i] = c PROVE i <= Len(a) + 1
  <2> DEFINE la == Len(a)  lb == Len(b)
  <2>0. la \in Nat /\ lb \in Nat /\ i \in 1 .. la + 1 + lb
    BY <1>1
  <2> HIDE DEF la, lb
  <2>3. i <= la + 1 \/ (i - (la + 1) \in 1..lb /\ i = la + 1 + (i - (la + 1)))
    BY <2>0
  <2>1. i <= Len(a) + 1 \/ (i - (Len(a) + 1) \in 1..Len(b) /\ i = Len(a) + 1 + (i - (Len(a) + 1)))
    BY <2>3 DEF la, lb
  <2>2. CASE i - (Len(a) + 1) \in 1..Len(b) /\ i = Len(a) + 1 + (i - (Len(a) + 1))
    BY <1>1, <1>3, <2>2 DEF Holds
  <2> QED
    BY <2>1, <2>2
<1> DEFINE Most(i) == j[i] = c /\ \A k \in DOMAIN j : j[k] = c => k <= i
<1>4. \A i \in DOMAIN j : Most(i) => i = Len(a) + 1
  BY <1>1, <1>2, <1>3
<1>5. Most(Len(a) + 1)
  BY <1>1, <1>3
<1> HIDE DEF Most
<1>6. (CHOOSE i \in DOMAIN j : Most(i)) = Len(a) + 1
  BY <1>2, <1>4, <1>5
<1> QED
  BY <1>2, <1>6 DEF LastOf, Most, j

LEMMA NotHeld ==
    ASSUME NEW s, NEW c, ~Holds(s, c)
    PROVE  FirstOf(s, c) = 0 /\ LastOf(s, c) = 0
BY DEF FirstOf, LastOf

LEMMA JoinAssociative ==
    ASSUME NEW S, NEW a \in Seq(S), NEW b \in Seq(S), NEW e \in Seq(S), NEW c \in S, NEW d \in S
    PROVE  Join(a, c, Join(b, d, e)) = Join(Join(a, c, b), d, e)
<1> DEFINE t == <<d>> \o e
<1>1. <<c>> \in Seq(S) /\ <<d>> \in Seq(S)
  OBVIOUS
<1>2. t \in Seq(S) /\ <<c>> \o b \in Seq(S)
  BY <1>1, ConcatProperties
<1> HIDE DEF t
<1>3. (<<c>> \o b) \o t = <<c>> \o (b \o t)
  BY <1>1, <1>2, ConcatAssociative
<1>4. (a \o (<<c>> \o b)) \o t = a \o ((<<c>> \o b) \o t)
  BY <1>2, ConcatAssociative
<1> QED
  BY <1>3, <1>4 DEF Join, t

\* What stands between two tokens.
LEMMA Between ==
    ASSUME NEW S, NEW a \in Seq(S), NEW b \in Seq(S), NEW e \in Seq(S), NEW c \in S, NEW d \in S
    PROVE  SubSeq(Join(Join(a, c, b), d, e), Len(a) + 2, Len(a) + 1 + Len(b)) = b
<1> DEFINE j == Join(a, c, b)
           k == Join(j, d, e)
           s == SubSeq(k, Len(a) + 2, Len(a) + 1 + Len(b))
<1>1. j \in Seq(S) /\ Len(a) \in Nat /\ Len(b) \in Nat /\ Len(j) = Len(a) + 1 + Len(b)
  BY JoinIs
<1>2. \A i \in 1..Len(b) : j[Len(a) + 1 + i] = b[i]
  BY JoinIs
<1> HIDE DEF j
<1>3. \A i \in 1..Len(j) : k[i] = j[i]
  <2>1. \A i \in 1..Len(j) : Join(j, d, e)[i] = j[i]
    BY <1>1, JoinLeft
  <2> QED
    BY <2>1
<1>4. \A i \in 1..Len(j) : j[i] \in S
  BY <1>1, ElementOfSeq
<1> HIDE DEF k
<1> DEFINE m == Len(a) + 2  n == Len(a) + 1 + Len(b)
<1>5. m \in Int /\ n \in Int /\ m \in Nat /\ n - m + 1 = Len(b) /\ (m <= n => n - m + 1 = Len(b))
      /\ (~(m <= n) => Len(b) = 0) /\ n = Len(j)
      /\ (\A i \in m..n : i \in 1..Len(j)) /\ \A i \in 1..Len(b) : m + i - 1 = Len(a) + 1 + i
  BY <1>1
<1>6. \A i \in m..n : k[i] \in S
  BY <1>3, <1>4, <1>5
<1>7. s = SubSeq(k, m, n)
  OBVIOUS
<1> HIDE DEF m, n, s
<1>8. s \in Seq(S) /\ Len(s) = (IF m <= n THEN n - m + 1 ELSE 0)
      /\ \A i \in 1 .. n - m + 1 : s[i] = k[m + i - 1]
  BY <1>5, <1>6, <1>7, SubSeqProperties
<1>9. Len(s) = Len(b)
  BY <1>5, <1>8
<1>10. ASSUME NEW i \in 1..Len(b) PROVE s[i] = b[i]
  <2>1. s[i] = k[Len(a) + 1 + i]
    BY <1>5, <1>8
  <2>2. Len(a) + 1 + i \in 1..Len(j)
    BY <1>1
  <2> QED
    BY <1>2, <1>3, <2>1, <2>2
<1>11. s = b
  BY <1>8, <1>9, <1>10, SeqEqual
<1> QED
  BY <1>11 DEF s, k, j

\* What stands behind a beginning.
LEMMA AfterBegin ==
    ASSUME NEW S, NEW p \in Seq(S), NEW f \in Seq(S)
    PROVE  After(p \o f, Len(p)) = f
<1> DEFINE j == p \o f
           s == SubSeq(j, Len(p) + 1, Len(j))
<1>1. Len(p) \in Nat /\ Len(f) \in Nat
  OBVIOUS
<1>2. /\ j \in Seq(S) /\ Len(j) = Len(p) + Len(f)
      /\ \A i \in 1 .. Len(p) + Len(f) : j[i] = IF i <= Len(p) THEN p[i] ELSE f[i - Len(p)]
  BY ConcatProperties
<1> HIDE DEF j
<1>3. \A i \in Len(p) + 1 .. Len(j) : j[i] \in S
  BY <1>1, <1>2, ElementOfSeq
<1>4. s \in Seq(S) /\ Len(s) = (IF Len(p) + 1 <= Len(j) THEN Len(j) - (Len(p) + 1) + 1 ELSE 0)
      /\ \A i \in 1 .. Len(j) - (Len(p) + 1) + 1 : s[i] = j[Len(p) + 1 + i - 1]
  BY <1>1, <1>2, <1>3, SubSeqProperties
<1> HIDE DEF s
<1>5. Len(s) = Len(f) /\ Len(j) - (Len(p) + 1) + 1 = Len(f)
  BY <1>1, <1>2, <1>4
<1>6. ASSUME NEW i \in 1..Len(f) PROVE s[i] = f[i]
  <2> DEFINE q == Len(p) + 1 + i - 1
  <2>1. q \in 1 .. Len(p) + Len(f) /\ ~(q <= Len(p)) /\ q - Len(p) = i
    BY <1>1
  <2>2. s[i] = j[q]
    BY <1>4, <1>5
  <2> HIDE DEF q
  <2> QED
    BY <1>2, <2>1, <2>2
<1>7. s = f
  BY <1>4, <1>5, <1>6, SeqEqual
<1> QED
  BY <1>7 DEF After, s, j
-------------------------------------------------------------------------------
(* The parts of an address *)

\* What an address is, part by part.
Address(u) ==
    /\ u = [scheme |-> "cifs", user |-> u.user, password |-> u.password,
            host |-> u.host, addr |-> u.addr, port |-> u.port,
            tree |-> u.tree, path |-> u.path, dir |-> u.dir, file |-> u.file]
    /\ u.user # Absent => /\ u.user \in Seq(Token) /\ ~Holds(u.user, ":")
                          /\ ~Holds(u.user, "/") /\ ~Holds(u.user, "@")
    /\ u.password # Absent => /\ u.password \in Seq(Token) /\ ~Holds(u.password, "/")
                              /\ ~Holds(u.password, "@") /\ u.user # Absent
    /\ u.host \in Seq(Token) /\ ~Holds(u.host, ":") /\ ~Holds(u.host, "/") /\ ~Holds(u.host, "@")
    /\ u.port # 0 => /\ Number(u.port) \in DOMAIN Numbers /\ Numbers[Number(u.port)] = u.port
    /\ u.addr # Absent => /\ u.addr \in Seq(Token) /\ ~Holds(u.addr, "/")
                          /\ ~Holds(u.addr, "@") /\ u.port # 0
    /\ u.tree # Absent => u.tree \in Seq(Token) /\ ~Holds(u.tree, "/")
    /\ u.tree = Absent => u.path = <<>>
    /\ u.path \in Seq(Token) /\ u.dir \in Seq(Token) /\ u.file \in Seq(Token) /\ ~Holds(u.file, "/")
    /\ \/ u.path = u.file /\ u.dir = <<>>
       \/ u.path = Join(u.dir, "/", u.file)

LEMMA AddressIs == ASSUME NEW u \in Addresses PROVE Address(u)
<1>1. \A w : \A s \in Part(w) : s \in Seq(Token) /\ \A c \in w : ~Holds(s, c)
  BY DEF Part
<1>2. u.port # 0 => Number(u.port) \in DOMAIN Numbers /\ Numbers[Number(u.port)] = u.port
  BY UriAssumption DEF Number
<1>3. u.user # Absent => /\ u.user \in Seq(Token) /\ ~Holds(u.user, ":")
                         /\ ~Holds(u.user, "/") /\ ~Holds(u.user, "@")
  BY <1>1, UriAssumption
<1>4. u.password # Absent => /\ u.password \in Seq(Token) /\ ~Holds(u.password, "/")
                             /\ ~Holds(u.password, "@") /\ u.user # Absent
  BY <1>1, UriAssumption
<1>5. u.host \in Seq(Token) /\ ~Holds(u.host, ":") /\ ~Holds(u.host, "/") /\ ~Holds(u.host, "@")
  BY <1>1, UriAssumption
<1>6. u.addr # Absent => /\ u.addr \in Seq(Token) /\ ~Holds(u.addr, "/")
                         /\ ~Holds(u.addr, "@") /\ u.port # 0
  BY <1>1, UriAssumption
<1>7. u.tree # Absent => u.tree \in Seq(Token) /\ ~Holds(u.tree, "/")
  BY <1>1, UriAssumption
<1>8. u.path \in Seq(Token) /\ u.dir \in Seq(Token) /\ u.file \in Seq(Token) /\ ~Holds(u.file, "/")
  BY <1>1, UriAssumption
<1>9. /\ u = [scheme |-> "cifs", user |-> u.user, password |-> u.password,
              host |-> u.host, addr |-> u.addr, port |-> u.port,
              tree |-> u.tree, path |-> u.path, dir |-> u.dir, file |-> u.file]
      /\ u.tree = Absent => u.path = <<>>
      /\ \/ u.path = u.file /\ u.dir = <<>>
         \/ u.path = Join(u.dir, "/", u.file)
  BY UriAssumption
<1> QED
  BY <1>2, <1>3, <1>4, <1>5, <1>6, <1>7, <1>8, <1>9 DEF Address

\* The separators, and numbers, are tokens of their own.
LEMMA Tokens ==
    /\ ":" \in Token /\ "/" \in Token /\ "@" \in Token /\ "smb" \in Token /\ "cifs" \in Token
    /\ \A t \in DOMAIN Numbers : t \in Token /\ t # ":" /\ t # "/" /\ t # "@"
    /\ \A t \in Token : t # "\\" /\ ~(t \in DOMAIN Escapes)
    /\ ~("\\" \in DOMAIN Escapes)
BY UriAssumption DEF Separators, Token

LEMMA PlaceIs ==
    ASSUME NEW u, Address(u)
    PROVE  Place(u.path) = [path |-> u.path, dir |-> u.dir, file |-> u.file]
<1>1. CASE u.path = u.file /\ u.dir = <<>>
  <2>1. LastOf(u.path, "/") = 0
    BY <1>1, NotHeld DEF Address
  <2> QED
    BY <1>1, <2>1 DEF Place
<1>2. CASE u.path = Join(u.dir, "/", u.file)
  <2>1. u.dir \in Seq(Token) /\ u.file \in Seq(Token) /\ ~Holds(u.file, "/") /\ "/" \in Token
    BY Tokens DEF Address
  <2>2. Len(u.dir) \in Nat
    BY <2>1
  <2>3. LastOf(u.path, "/") = Len(u.dir) + 1
    BY <1>2, <2>1, LastAt
  <2>4. Before(u.path, Len(u.dir) + 1) = u.dir /\ After(u.path, Len(u.dir) + 1) = u.file
    BY <1>2, <2>1, JoinApart
  <2> QED
    BY <2>2, <2>3, <2>4 DEF Place
<1> QED
  BY <1>1, <1>2 DEF Address

\* What stands behind the host.
Rest(u) == IF u.tree = Absent THEN <<>> ELSE Join(u.tree, "/", u.path)

LEMMA TreeIs ==
    ASSUME NEW u, Address(u)
    PROVE  /\ Rest(u) \in Seq(Token)
           /\ TreePart(Rest(u)) =
                [tree |-> u.tree, place |-> [path |-> u.path, dir |-> u.dir, file |-> u.file]]
<1>1. Place(u.path) = [path |-> u.path, dir |-> u.dir, file |-> u.file]
  BY PlaceIs
<1>2. CASE u.tree = Absent
  BY <1>1, <1>2 DEF Address, Rest, TreePart
<1>3. CASE u.tree # Absent
  <2>1. u.tree \in Seq(Token) /\ ~Holds(u.tree, "/") /\ u.path \in Seq(Token) /\ "/" \in Token
    BY <1>3, Tokens DEF Address
  <2>2. Rest(u) = Join(u.tree, "/", u.path)
    BY <1>3 DEF Rest
  <2>3. Rest(u) \in Seq(Token) /\ Len(u.tree) \in Nat
    BY <2>1, <2>2, JoinType
  <2>4. Rest(u) # <<>>
    <3> DEFINE r == Join(u.tree, "/", u.path)
    <3>1. Len(r) = Len(u.tree) + 1 + Len(u.path)
      BY <2>1, JoinLength
    <3>2. Len(u.tree) \in Nat /\ Len(u.path) \in Nat
      BY <2>1, JoinType
    <3>3. Len(r) # 0
      <4> DEFINE n == Len(r)  k == Len(u.tree)  m == Len(u.path)
      <4>1. n = k + 1 + m /\ k \in Nat /\ m \in Nat
        BY <3>1, <3>2
      <4> HIDE DEF n, k, m
      <4>2. n # 0
        BY <4>1
      <4> QED
        BY <4>2 DEF n
    <3> HIDE DEF r
    <3>4. Len(<<>>) = 0 /\ Rest(u) = r
      BY <2>2, EmptySeq DEF r
    <3> QED
      BY <3>3, <3>4
  <2>5. FirstOf(Rest(u), "/") = Len(u.tree) + 1
    BY <2>1, <2>2, FirstAt
  <2>6. Before(Rest(u), Len(u.tree) + 1) = u.tree /\ After(Rest(u), Len(u.tree) + 1) = u.path
    BY <2>1, <2>2, JoinApart
  <2>7. Len(u.tree) + 1 # 0
    BY <2>3
  <2> QED
    BY <1>1, <2>3, <2>4, <2>5, <2>6, <2>7 DEF TreePart
<1> QED
  BY <1>2, <1>3

LEMMA HostType ==
    ASSUME NEW u, Address(u)
    PROVE  Host(u) \in Seq(Token) /\ ~Holds(Host(u), "/") /\ ~Holds(Host(u), "@")
<1> DEFINE n == <<Number(u.port)>>
<1>1. u.host \in Seq(Token) /\ ~Holds(u.host, "/") /\ ~Holds(u.host, "@") /\ ":" \in Token
  BY Tokens DEF Address
<1>2. CASE u.port = 0
  BY <1>1, <1>2 DEF Host
<1>3. CASE u.port # 0
  <2>1. Number(u.port) \in Token /\ Number(u.port) # "/" /\ Number(u.port) # "@"
    BY <1>3, Tokens DEF Address
  <2>2. n \in Seq(Token) /\ ~Holds(n, "/") /\ ~Holds(n, "@")
    BY <2>1 DEF Holds
  <2> HIDE DEF n
  <2>3. CASE u.addr = Absent
    <3>1. Host(u) = Join(u.host, ":", n)
      BY <1>3, <2>3 DEF Host, n
    <3>2. Host(u) \in Seq(Token)
      BY <1>1, <2>2, <3>1, JoinType
    <3>3. ~Holds(Host(u), "/")
      BY <1>1, <2>2, <3>1, JoinHolds
    <3>4. ~Holds(Host(u), "@")
      BY <1>1, <2>2, <3>1, JoinHolds
    <3> QED
      BY <3>2, <3>3, <3>4
  <2>4. CASE u.addr # Absent
    <3>1. u.addr \in Seq(Token) /\ ~Holds(u.addr, "/") /\ ~Holds(u.addr, "@")
      BY <2>4 DEF Address
    <3> DEFINE m == Join(u.addr, ":", n)
    <3>2. m \in Seq(Token)
      BY <1>1, <2>2, <3>1, JoinType
    <3>3. ~Holds(m, "/")
      BY <1>1, <2>2, <3>1, JoinHolds
    <3>4. ~Holds(m, "@")
      BY <1>1, <2>2, <3>1, JoinHolds
    <3>5. Host(u) = Join(u.host, ":", m)
      BY <1>3, <2>4 DEF Host, n
    <3> HIDE DEF m
    <3>6. Host(u) \in Seq(Token)
      BY <1>1, <3>2, <3>5, JoinType
    <3>7. ~Holds(Host(u), "/")
      BY <1>1, <3>2, <3>3, <3>5, JoinHolds
    <3>8. ~Holds(Host(u), "@")
      BY <1>1, <3>2, <3>4, <3>5, JoinHolds
    <3> QED
      BY <3>6, <3>7, <3>8
  <2> QED
    BY <2>3, <2>4
<1> QED
  BY <1>2, <1>3

LEMMA UserType ==
    ASSUME NEW u, Address(u), u.user # Absent
    PROVE  User(u) \in Seq(Token) /\ ~Holds(User(u), "/") /\ ~Holds(User(u), "@")
<1>1. u.user \in Seq(Token) /\ ~Holds(u.user, "/") /\ ~Holds(u.user, "@") /\ ":" \in Token
  BY Tokens DEF Address
<1>2. CASE u.password = Absent
  BY <1>1, <1>2 DEF User
<1>3. CASE u.password # Absent
  <2>1. u.password \in Seq(Token) /\ ~Holds(u.password, "/") /\ ~Holds(u.password, "@")
    BY <1>3 DEF Address
  <2>2. User(u) = Join(u.user, ":", u.password)
    BY <1>3 DEF User
  <2>3. User(u) \in Seq(Token)
    BY <1>1, <2>1, <2>2, JoinType
  <2>4. ~Holds(User(u), "/")
    BY <1>1, <2>1, <2>2, JoinHolds
  <2>5. ~Holds(User(u), "@")
    BY <1>1, <2>1, <2>2, JoinHolds
  <2> QED
    BY <2>3, <2>4, <2>5
<1> QED
  BY <1>2, <1>3

LEMMA AuthorityType ==
    ASSUME NEW u, Address(u)
    PROVE  Authority(u) \in Seq(Token) /\ ~Holds(Authority(u), "/")
<1>1. Host(u) \in Seq(Token) /\ ~Holds(Host(u), "/") /\ "@" \in Token
  BY HostType, Tokens
<1>2. CASE u.user = Absent
  BY <1>1, <1>2 DEF Authority
<1>3. CASE u.user # Absent
  <2>1. User(u) \in Seq(Token) /\ ~Holds(User(u), "/")
    BY <1>3, UserType
  <2>2. Authority(u) = Join(User(u), "@", Host(u))
    BY <1>3 DEF Authority
  <2> QED
    BY <1>1, <2>1, <2>2, JoinType, JoinHolds
<1> QED
  BY <1>2, <1>3

\* The place of "@", and what stands on its sides.
LEMMA AtIs ==
    ASSUME NEW u, Address(u)
    PROVE  /\ u.user = Absent => FirstOf(Authority(u), "@") = 0
           /\ u.user # Absent => /\ FirstOf(Authority(u), "@") # 0
                                 /\ Before(Authority(u), FirstOf(Authority(u), "@")) = User(u)
           /\ After(Authority(u), FirstOf(Authority(u), "@")) = Host(u)
<1>1. Host(u) \in Seq(Token) /\ ~Holds(Host(u), "@") /\ "@" \in Token
  BY HostType, Tokens
<1>2. CASE u.user = Absent
  <2>1. Authority(u) = Host(u) /\ FirstOf(Host(u), "@") = 0
    BY <1>1, <1>2, NotHeld DEF Authority
  <2>2. SubSeq(Host(u), 1, Len(Host(u))) = Host(u)
    BY <1>1, SubSeqFull
  <2> QED
    BY <1>2, <2>1, <2>2 DEF After
<1>3. CASE u.user # Absent
  <2>1. User(u) \in Seq(Token) /\ ~Holds(User(u), "@")
    BY <1>3, UserType
  <2>2. Authority(u) = Join(User(u), "@", Host(u))
    BY <1>3 DEF Authority
  <2>3. FirstOf(Authority(u), "@") = Len(User(u)) + 1
    BY <1>1, <2>1, <2>2, FirstAt
  <2>4. /\ Before(Authority(u), Len(User(u)) + 1) = User(u)
        /\ After(Authority(u), Len(User(u)) + 1) = Host(u)
    BY <1>1, <2>1, <2>2, JoinApart
  <2>5. Len(User(u)) \in Nat
    BY <1>1, <2>1, JoinType
  <2>6. Len(User(u)) + 1 # 0
    BY <2>5
  <2> QED
    BY <1>3, <2>3, <2>4, <2>6
<1> QED
  BY <1>2, <1>3

LEMMA UserIs ==
    ASSUME NEW u, Address(u)
    PROVE  UserPart(Authority(u)) = [user |-> u.user, password |-> u.password]
<1> DEFINE at == FirstOf(Authority(u), "@")
           v == Before(Authority(u), at)
           co == FirstOf(v, ":")
<1>1. UserPart(Authority(u)) =
        CASE at = 0 -> [user |-> Absent, password |-> Absent]
          [] at # 0 /\ co # 0 -> [user |-> Before(v, co), password |-> After(v, co)]
          [] OTHER  -> [user |-> v, password |-> Absent]
  BY DEF UserPart
<1>2. /\ u.user = Absent => at = 0
      /\ u.user # Absent => at # 0 /\ v = User(u)
  BY AtIs
<1> HIDE DEF at, v
<1>3. CASE u.user = Absent
  <2>1. u.password = Absent
    BY <1>3 DEF Address
  <2> QED
    BY <1>1, <1>2, <1>3, <2>1
<1>4. CASE u.user # Absent /\ u.password = Absent
  <2>1. v = u.user /\ at # 0 /\ ~Holds(u.user, ":")
    BY <1>2, <1>4 DEF User, Address
  <2>2. co = 0
    BY <2>1, NotHeld
  <2> HIDE DEF co
  <2> QED
    BY <1>1, <1>4, <2>1, <2>2
<1>5. CASE u.user # Absent /\ u.password # Absent
  <2>1. v = Join(u.user, ":", u.password) /\ at # 0
    BY <1>2, <1>5 DEF User
  <2>2. u.user \in Seq(Token) /\ ~Holds(u.user, ":") /\ u.password \in Seq(Token) /\ ":" \in Token
    BY <1>5, Tokens DEF Address
  <2>3. co = Len(u.user) + 1
    BY <2>1, <2>2, FirstAt
  <2>4. Before(v, Len(u.user) + 1) = u.user /\ After(v, Len(u.user) + 1) = u.password
    BY <2>1, <2>2, JoinApart
  <2>5. Len(u.user) \in Nat
    BY <2>2, JoinType
  <2> DEFINE k == Len(u.user)
  <2>6. k + 1 # 0
    <3> HIDE DEF k
    <3> QED
      BY <2>5 DEF k
  <2> HIDE DEF co
  <2>7. co # 0 /\ Before(v, co) = u.user /\ After(v, co) = u.password
    BY <2>3, <2>4, <2>6
  <2> QED
    BY <1>1, <2>1, <2>7
<1> QED
  BY <1>3, <1>4, <1>5

LEMMA HostIs ==
    ASSUME NEW u, Address(u)
    PROVE  HostPart(Authority(u)) = [host |-> u.host, addr |-> u.addr, port |-> u.port]
<1> DEFINE h == Host(u)
           co == FirstOf(h, ":")
           to == LastOf(h, ":")
           n == <<Number(u.port)>>
<1>1. HostPart(Authority(u)) =
        IF co = 0 THEN [host |-> h, addr |-> Absent, port |-> 0]
        ELSE [host |-> Before(h, co), addr |-> IF co = to THEN Absent ELSE SubSeq(h, co + 1, to - 1),
              port |-> Atoi(After(h, to))]
  <2>1. After(Authority(u), FirstOf(Authority(u), "@")) = h
    BY AtIs
  <2> QED
    BY <2>1 DEF HostPart
<1>2. u.host \in Seq(Token) /\ ~Holds(u.host, ":") /\ ":" \in Token
  BY Tokens DEF Address
<1>3. CASE u.port = 0
  <2>1. h = u.host /\ u.addr = Absent
    BY <1>3 DEF Host, Address
  <2>2. co = 0
    BY <1>2, <2>1, NotHeld
  <2> HIDE DEF co, to, h
  <2> QED
    BY <1>1, <1>3, <2>1, <2>2
<1>4. CASE u.port # 0
  <2>1. Number(u.port) \in Token /\ Number(u.port) # ":" /\ Number(u.port) \in DOMAIN Numbers
        /\ Numbers[Number(u.port)] = u.port
    BY <1>4, Tokens DEF Address
  <2>2. n \in Seq(Token) /\ ~Holds(n, ":")
    BY <2>1 DEF Holds
  <2>3. Atoi(n) = u.port
    BY <2>1 DEF Atoi
  <2> DEFINE k == Len(u.host)
  <2>4. k \in Nat
    BY <1>2, JoinType
  <2> HIDE DEF n
  <2>5. CASE u.addr = Absent
    <3>1. h = Join(u.host, ":", n)
      BY <1>4, <2>5 DEF Host, n
    <3> HIDE DEF h
    <3>2. co = k + 1 /\ to = k + 1 /\ Before(h, k + 1) = u.host /\ After(h, k + 1) = n
      BY <1>2, <2>2, <3>1, FirstAt, LastAt, JoinApart
    <3> HIDE DEF co, to, k
    <3>3. co # 0 /\ co = to /\ Before(h, co) = u.host /\ After(h, to) = n
      BY <2>4, <3>2
    <3> QED
      BY <1>1, <2>3, <2>5, <3>3
  <2>6. CASE u.addr # Absent
    <3>1. u.addr \in Seq(Token)
      BY <2>6 DEF Address
    <3> DEFINE m == Join(u.addr, ":", n)
               f == Join(u.host, ":", u.addr)
               l == Len(u.addr)
    <3>2. m \in Seq(Token) /\ f \in Seq(Token) /\ l \in Nat
      BY <1>2, <2>2, <3>1, JoinType
    <3>3. Len(f) = k + 1 + l
      BY <1>2, <3>1, JoinLength
    <3>4. h = Join(u.host, ":", m)
      BY <1>4, <2>6 DEF Host, n
    <3>5. h = Join(f, ":", n)
      BY <1>2, <2>2, <3>1, <3>4, JoinAssociative
    <3>6. SubSeq(Join(f, ":", n), k + 2, k + 1 + l) = u.addr
      <4> DEFINE a == u.host  b == u.addr  c == ":"
      <4>1. a \in Seq(Token) /\ b \in Seq(Token) /\ n \in Seq(Token) /\ c \in Token
        BY <1>2, <2>2, <3>1
      <4> HIDE DEF a, b, c
      <4>2. SubSeq(Join(Join(a, c, b), c, n), Len(a) + 2, Len(a) + 1 + Len(b)) = b
        BY <4>1, Between
      <4> QED
        BY <4>2 DEF a, b, c
    <3> HIDE DEF h, m, f
    <3>7. co = k + 1 /\ Before(h, k + 1) = u.host
      BY <1>2, <3>2, <3>4, FirstAt, JoinApart
    <3>8. to = Len(f) + 1 /\ After(h, Len(f) + 1) = n
      BY <1>2, <2>2, <3>2, <3>5, LastAt, JoinApart
    <3> HIDE DEF co, to, k, l
    <3>9. to = k + 1 + l + 1 /\ After(h, to) = n
      BY <3>3, <3>8
    <3>10. co # 0 /\ co # to /\ co + 1 = k + 2 /\ to - 1 = k + 1 + l
      BY <2>4, <3>2, <3>7, <3>9
    <3>11. SubSeq(h, co + 1, to - 1) = u.addr /\ Before(h, co) = u.host
      BY <3>5, <3>6, <3>7, <3>10
    <3> QED
      BY <1>1, <2>3, <3>9, <3>10, <3>11
  <2> QED
    BY <2>5, <2>6
<1> QED
  BY <1>3, <1>4

LEMMA FullType == ASSUME NEW u, Address(u) PROVE Full(u) \in Seq(Token)
<1>1. Authority(u) \in Seq(Token) /\ Rest(u) \in Seq(Token) /\ "/" \in Token
  BY AuthorityType, TreeIs, Tokens
<1>2. CASE u.tree = Absent
  BY <1>1, <1>2 DEF Full
<1>3. CASE u.tree # Absent
  <2>1. Full(u) = Join(Authority(u), "/", Rest(u))
    BY <1>3 DEF Full, Rest
  <2> QED
    BY <1>1, <2>1, JoinType
<1> QED
  BY <1>2, <1>3

\* What follows the scheme is taken apart into what it was made of.
LEMMA RemoteIs == ASSUME NEW u, Address(u) PROVE Remote(Full(u)) = u
<1> DEFINE a == Full(u)
           b == FirstOf(a, "/")
           s == IF b = 0 THEN a ELSE Before(a, b)
           r == IF b = 0 THEN <<>> ELSE After(a, b)
<1>1. Authority(u) \in Seq(Token) /\ ~Holds(Authority(u), "/") /\ Rest(u) \in Seq(Token) /\ "/" \in Token
  BY AuthorityType, TreeIs, Tokens
<1>2. s = Authority(u) /\ r = Rest(u)
  <2>1. CASE u.tree = Absent
    <3>1. a = Authority(u) /\ Rest(u) = <<>>
      BY <2>1 DEF Full, Rest
    <3>2. b = 0
      BY <1>1, <3>1, NotHeld
    <3> HIDE DEF a, b
    <3> QED
      BY <3>1, <3>2
  <2>2. CASE u.tree # Absent
    <3>1. a = Join(Authority(u), "/", Rest(u))
      BY <2>2 DEF Full, Rest
    <3> HIDE DEF a
    <3>2. b = Len(Authority(u)) + 1
      BY <1>1, <3>1, FirstAt
    <3>3. Before(a, Len(Authority(u)) + 1) = Authority(u) /\ After(a, Len(Authority(u)) + 1) = Rest(u)
      BY <1>1, <3>1, JoinApart
    <3>4. Len(Authority(u)) \in Nat
      BY <1>1, JoinType
    <3> DEFINE k == Len(Authority(u))
    <3>5. k \in Nat /\ b = k + 1 /\ Before(a, k + 1) = Authority(u) /\ After(a, k + 1) = Rest(u)
      BY <3>2, <3>3, <3>4
    <3> HIDE DEF k, b
    <3>6. b # 0
      BY <3>5
    <3> QED
      BY <3>5, <3>6
  <2> QED
    BY <2>1, <2>2
<1>3. Remote(a) =
        [scheme |-> "cifs", user |-> UserPart(s).user, password |-> UserPart(s).password,
         host |-> HostPart(s).host, addr |-> HostPart(s).addr, port |-> HostPart(s).port,
         tree |-> TreePart(r).tree, path |-> TreePart(r).place.path,
         dir |-> TreePart(r).place.dir, file |-> TreePart(r).place.file]
  BY DEF Remote
<1> HIDE DEF a, b, s, r
<1>4. UserPart(s).user = u.user /\ UserPart(s).password = u.password
  BY <1>2, UserIs
<1>5. HostPart(s).host = u.host /\ HostPart(s).addr = u.addr /\ HostPart(s).port = u.port
  BY <1>2, HostIs
<1>6. /\ TreePart(r).tree = u.tree /\ TreePart(r).place.path = u.path
      /\ TreePart(r).place.dir = u.dir /\ TreePart(r).place.file = u.file
  BY <1>2, TreeIs
<1>7. Remote(a) =
        [scheme |-> "cifs", user |-> u.user, password |-> u.password,
         host |-> u.host, addr |-> u.addr, port |-> u.port,
         tree |-> u.tree, path |-> u.path, dir |-> u.dir, file |-> u.file]
  BY <1>3, <1>4, <1>5, <1>6
<1> QED
  BY <1>7 DEF Address, a

\* Escapes are read as what they stand for, and nothing else is an escape.
LEMMA UnescapeIs ==
    ASSUME NEW s \in Seq(Token \cup {"\\"})
    PROVE  Unescape(s) = s
<1>1. \A i \in DOMAIN s : s[i] \in Token \cup {"\\"}
  <2>1. DOMAIN s = 1..Len(s)
    BY LenProperties
  <2> QED
    BY <2>1, ElementOfSeq
<1>2. \A i \in DOMAIN s : ~(s[i] \in DOMAIN Escapes)
  BY <1>1, Tokens
<1>3. s = [i \in DOMAIN s |-> s[i]]
  <2>1. s \in [1..Len(s) -> Token \cup {"\\"}] /\ DOMAIN s = 1..Len(s)
    BY LenProperties
  <2> QED
    BY <2>1
<1> QED
  BY <1>2, <1>3 DEF Unescape

LEMMA EscapedIs ==
    ASSUME NEW s \in Seq(Token)
    PROVE  Unescape(Escaped(s)) = s
<1> DEFINE t == Escaped(s)
<1>1. s \in [1..Len(s) -> Token] /\ DOMAIN s = 1..Len(s)
  BY LenProperties
<1>2. s = [i \in DOMAIN s |-> s[i]]
  BY <1>1
<1>3. DOMAIN t = DOMAIN s
  BY DEF Escaped
<1>4. ASSUME NEW i \in DOMAIN s
      PROVE  (IF t[i] \in DOMAIN Escapes THEN Escapes[t[i]] ELSE t[i]) = s[i]
  <2>1. s[i] \in Token
    BY <1>1
  <2>2. ~(s[i] \in DOMAIN Escapes)
    BY <2>1, Tokens
  <2>3. t[i] = IF \E e \in DOMAIN Escapes : Escapes[e] = s[i]
               THEN CHOOSE e \in DOMAIN Escapes : Escapes[e] = s[i] ELSE s[i]
    BY DEF Escaped
  <2> HIDE DEF t
  <2>4. CASE \E e \in DOMAIN Escapes : Escapes[e] = s[i]
    <3>1. t[i] \in DOMAIN Escapes /\ Escapes[t[i]] = s[i]
      BY <2>3, <2>4
    <3> QED
      BY <3>1
  <2>5. CASE ~\E e \in DOMAIN Escapes : Escapes[e] = s[i]
    BY <2>2, <2>3, <2>5
  <2> QED
    BY <2>4, <2>5
<1>5. Unescape(t) = [i \in DOMAIN t |-> IF t[i] \in DOMAIN Escapes THEN Escapes[t[i]] ELSE t[i]]
  BY DEF Unescape
<1> HIDE DEF t
<1> QED
  BY <1>2, <1>3, <1>4, <1>5 DEF t

\* A URI: the scheme ends at the first "://".
LEMMA UriParsed ==
    ASSUME NEW u, Address(u), NEW scheme \in {"smb", "cifs"}, NEW t,
           Unescape(t) = Written(u, scheme)
    PROVE  Parse(t) = u
<1> DEFINE p == <<scheme, ":", "/", "/">>
           f == Full(u)
           s == p \o f
<1>1. /\ p \in Seq(Token) /\ Len(p) = 4 /\ p[1] = scheme /\ p[2] = ":" /\ p[3] = "/" /\ p[4] = "/"
      /\ f \in Seq(Token) /\ scheme # "\\" /\ scheme # ":"
  BY FullType, Tokens
<1>2. Unescape(t) = s
  BY DEF Written
<1>3. After(s, 4) = f
  BY <1>1, AfterBegin
<1> HIDE DEF p, f
<1>4. /\ s \in Seq(Token) /\ Len(f) \in Nat /\ Len(s) = 4 + Len(f)
      /\ s[1] = scheme /\ s[2] = ":" /\ s[3] = "/" /\ s[4] = "/"
  <2>1. Len(f) \in Nat
    BY <1>1
  <2>2. /\ s \in Seq(Token) /\ Len(s) = 4 + Len(f)
        /\ \A i \in 1 .. 4 + Len(f) : s[i] = IF i <= 4 THEN p[i] ELSE f[i - 4]
    <3>1. /\ s \in Seq(Token) /\ Len(s) = Len(p) + Len(f)
          /\ \A i \in 1 .. Len(p) + Len(f) : s[i] = IF i <= Len(p) THEN p[i] ELSE f[i - Len(p)]
      BY <1>1, ConcatProperties
    <3> HIDE DEF s
    <3> QED
      BY <1>1, <3>1
  <2>3. 1 \in 1 .. 4 + Len(f) /\ 2 \in 1 .. 4 + Len(f) /\ 3 \in 1 .. 4 + Len(f) /\ 4 \in 1 .. 4 + Len(f)
    BY <2>1
  <2> HIDE DEF s
  <2> QED
    BY <1>1, <2>1, <2>2, <2>3
<1> HIDE DEF s
<1>5. 2 \in Marks(s) /\ (\A j \in Marks(s) : 2 <= j) /\ Marks(s) # {}
  <2>1. 2 \in 1..Len(s) - 2 /\ 2 + 1 = 3 /\ 2 + 2 = 4
    BY <1>4
  <2>2. 2 \in Marks(s)
    BY <1>4, <2>1 DEF Marks
  <2>3. ASSUME NEW j \in Marks(s) PROVE 2 <= j
    <3>1. j \in 1..Len(s) - 2 /\ s[j] = ":"
      BY DEF Marks
    <3>2. j \in Int /\ j >= 1 /\ j # 1
      BY <1>1, <1>4, <3>1
    <3> QED
      BY <3>2
  <2> QED
    BY <2>2, <2>3
<1> DEFINE Least(i) == \A j \in Marks(s) : i <= j
<1>6. \A i \in Marks(s) : Least(i) => i = 2
  BY <1>5 DEF Marks
<1>7. Least(2)
  BY <1>5
<1> HIDE DEF Least
<1>8. (CHOOSE i \in Marks(s) : Least(i)) = 2
  BY <1>5, <1>6, <1>7
<1>9. SchemeOf(Before(s, 2)) = "cifs"
  <2> DEFINE w == Before(s, 2)
  <2>1. Len(w) = 1 /\ w[1] = scheme
    <3>1. /\ Len(w) = IF 1 <= 1 THEN 1 - 1 + 1 ELSE 0
          /\ \A i \in 1 .. 1 - 1 + 1 : w[i] = s[1 + i - 1]
      <4>1. \A i \in 1..1 : s[i] \in Token
        BY <1>4, ElementOfSeq
      <4>2. w = SubSeq(s, 1, 1)
        BY DEF Before
      <4> HIDE DEF w
      <4> QED
        BY <4>1, <4>2, SubSeqProperties
    <3> HIDE DEF w
    <3> QED
      BY <1>4, <3>1
  <2> HIDE DEF w
  <2>2. w # <<>>
    BY <2>1, EmptySeq
  <2> QED
    BY <2>1, <2>2 DEF SchemeOf, Begins, w
<1>10. Parse(t) = Remote(After(s, 4))
  <2> DEFINE b == CHOOSE i \in Marks(s) : \A j \in Marks(s) : i <= j
  <2>1. Parse(t) =
          IF Len(s) > 1 /\ s[1] = "\\" /\ s[2] = "\\" THEN Remote(After(Replaced(s, "\\", "/"), 2))
          ELSE IF Marks(s) = {} THEN Local(s)
          ELSE CASE SchemeOf(Before(s, b)) = "file" -> Local(After(s, b + 2))
                 [] SchemeOf(Before(s, b)) = "cifs" -> Remote(After(s, b + 2))
                 [] OTHER -> Absent
    BY <1>2 DEF Parse
  <2>2. b = 2 /\ 2 + 2 = 4
    BY <1>8 DEF Least
  <2> HIDE DEF b
  <2>3. s[1] # "\\" /\ Marks(s) # {}
    BY <1>1, <1>4, <1>5
  <2> QED
    BY <1>9, <2>1, <2>2, <2>3
<1> QED
  BY <1>3, <1>10, RemoteIs DEF f

\* Backslashes and slashes: changed and changed back.
LEMMA ReplacedIs ==
    ASSUME NEW S, NEW s \in Seq(S), NEW old, NEW new \in S
    PROVE  /\ Replaced(s, old, new) \in Seq(S) /\ Len(Replaced(s, old, new)) = Len(s)
           /\ \A i \in 1..Len(s) : Replaced(s, old, new)[i] = IF s[i] = old THEN new ELSE s[i]
<1> DEFINE r == Replaced(s, old, new)
<1>1. s \in [1..Len(s) -> S] /\ DOMAIN s = 1..Len(s) /\ Len(s) \in Nat
  BY LenProperties
<1>2. r \in [1..Len(s) -> S] /\ \A i \in 1..Len(s) : r[i] = IF s[i] = old THEN new ELSE s[i]
  BY <1>1 DEF Replaced
<1> HIDE DEF r
<1>3. r \in Seq(S)
  BY <1>1, <1>2, SeqDef
<1>4. Len(r) = Len(s)
  <2>1. DOMAIN r = 1..Len(r) /\ DOMAIN r = 1..Len(s) /\ Len(r) \in Nat
    BY <1>2, <1>3, LenProperties
  <2> DEFINE n == Len(r)  m == Len(s)
  <2>2. n \in Nat /\ m \in Nat /\ 1..n = 1..m
    BY <1>1, <2>1
  <2> HIDE DEF n, m
  <2>3. (n # 0 => n \in 1..m) /\ (m # 0 => m \in 1..n)
    BY <2>2
  <2>4. n = m
    BY <2>2, <2>3
  <2> QED
    BY <2>4 DEF n, m
<1> QED
  BY <1>2, <1>3, <1>4 DEF r

\* A UNC name: every backslash separates.
LEMMA UncParsed ==
    ASSUME NEW u, Address(u)
    PROVE  Parse(WrittenUnc(u)) = u
<1> DEFINE S == Token \cup {"\\"}
           p == <<"\\", "\\">>
           f == Full(u)
           g == Replaced(f, "/", "\\")
           s == p \o g
           r == Replaced(s, "\\", "/")
           a == After(r, 2)
<1>1. f \in Seq(Token) /\ f \in Seq(S)
  <2>1. f \in Seq(Token)
    BY FullType
  <2> HIDE DEF f
  <2>2. Token \subseteq S
    OBVIOUS
  <2> QED
    BY <2>1, <2>2, SeqMonotonic
<1>2. p \in Seq(S) /\ Len(p) = 2 /\ p[1] = "\\" /\ p[2] = "\\" /\ "\\" \in S /\ "/" \in S
  BY Tokens
<1>3. Len(f) \in Nat /\ \A i \in 1..Len(f) : f[i] \in Token /\ f[i] # "\\"
  <2>1. Len(f) \in Nat
    BY <1>1
  <2>2. \A i \in 1..Len(f) : f[i] \in Token
    BY <1>1, ElementOfSeq
  <2> HIDE DEF f
  <2> QED
    BY <2>1, <2>2, Tokens
<1>4. WrittenUnc(u) = s
  BY DEF WrittenUnc
<1> HIDE DEF f, p, S
<1>5. /\ g \in Seq(S) /\ Len(g) = Len(f)
      /\ \A i \in 1..Len(f) : g[i] = IF f[i] = "/" THEN "\\" ELSE f[i]
  BY <1>1, <1>2, ReplacedIs
<1> HIDE DEF g
<1>6. /\ s \in Seq(S) /\ Len(s) = Len(p) + Len(g)
      /\ \A i \in 1 .. Len(p) + Len(g) : s[i] = IF i <= Len(p) THEN p[i] ELSE g[i - Len(p)]
  <2>1. p \in Seq(S) /\ g \in Seq(S)
    BY <1>2, <1>5
  <2>2. s \in Seq(S)
    BY <2>1, ConcatProperties
  <2>3. Len(s) = Len(p) + Len(g)
    BY <2>1, ConcatProperties
  <2>4. \A i \in 1 .. Len(p) + Len(g) : s[i] = IF i <= Len(p) THEN p[i] ELSE g[i - Len(p)]
    BY <2>1, ConcatProperties
  <2> HIDE DEF s
  <2> QED
    BY <2>2, <2>3, <2>4
<1> HIDE DEF s
<1>7. Len(s) = 2 + Len(f) /\ s[1] = "\\" /\ s[2] = "\\" /\ Len(s) > 1
  <2>1. 1 \in 1 .. 2 + Len(f) /\ 2 \in 1 .. 2 + Len(f)
    BY <1>3
  <2> QED
    BY <1>2, <1>3, <1>5, <1>6, <2>1
<1>8. ASSUME NEW i \in 1..Len(f) PROVE s[i + 2] = IF f[i] = "/" THEN "\\" ELSE f[i]
  <2>1. i + 2 \in 1 .. 2 + Len(f) /\ ~(i + 2 <= 2) /\ i + 2 - 2 = i
    BY <1>3
  <2> QED
    BY <1>2, <1>5, <1>6, <2>1
<1>9. /\ r \in Seq(S) /\ Len(r) = Len(s)
      /\ \A i \in 1..Len(s) : r[i] = IF s[i] = "\\" THEN "/" ELSE s[i]
  BY <1>2, <1>6, ReplacedIs
<1> HIDE DEF r
<1>10. ASSUME NEW i \in 1..Len(f) PROVE r[i + 2] = f[i]
  <2>1. i + 2 \in 1..Len(s)
    BY <1>3, <1>7
  <2>2. r[i + 2] = IF s[i + 2] = "\\" THEN "/" ELSE s[i + 2]
    BY <1>9, <2>1
  <2>3. f[i] # "\\"
    BY <1>3
  <2> QED
    BY <1>8, <2>2, <2>3
<1>11. a = f
  <2>1. \A i \in 3..Len(r) : r[i] \in S
    BY <1>3, <1>7, <1>9, ElementOfSeq
  <2>2. a = SubSeq(r, 3, Len(r)) /\ Len(r) \in Int /\ Len(r) = 2 + Len(f)
    BY <1>3, <1>7, <1>9 DEF After
  <2> HIDE DEF a
  <2>3. /\ a \in Seq(S) /\ Len(a) = (IF 3 <= Len(r) THEN Len(r) - 3 + 1 ELSE 0)
        /\ \A i \in 1 .. Len(r) - 3 + 1 : a[i] = r[3 + i - 1]
    BY <2>1, <2>2, SubSeqProperties
  <2>4. Len(a) = Len(f) /\ Len(r) - 3 + 1 = Len(f)
    BY <1>3, <2>2, <2>3
  <2>5. ASSUME NEW i \in 1..Len(f) PROVE a[i] = f[i]
    <3>1. 3 + i - 1 = i + 2
      BY <1>3
    <3> QED
      BY <1>10, <2>3, <2>4, <3>1
  <2> QED
    BY <1>1, <2>3, <2>4, <2>5, SeqEqual
<1>12. Unescape(s) = s
  BY <1>6, UnescapeIs DEF S
<1>13. Parse(s) = Remote(a)
  BY <1>7, <1>12 DEF Parse, r
<1> QED
  BY <1>4, <1>11, <1>13, RemoteIs DEF f

\* Whatever names, addresses and escapes are made of, an address in one of the documented
\* forms is understood as it was meant (cifs_uri_parse).
THEOREM RoundTripCorrect == UriSpec => []UriRoundTrip
<1> DEFINE Inv == uri \subseteq Addresses
<1>1. UriInit => Inv
  BY DEF UriInit
<1>2. Inv /\ [ParseUri]_uri => Inv'
  BY DEF ParseUri
<1>3. Inv => UriRoundTrip
  <2> SUFFICES ASSUME NEW u \in Addresses
               PROVE  /\ \A t \in {Written(u, "smb"), Written(u, "cifs")} :
                            Parse(t) = u /\ Parse(Escaped(t)) = u
                      /\ Parse(WrittenUnc(u)) = u
    BY DEF UriRoundTrip
  <2>1. Address(u)
    BY AddressIs
  <2>2. ASSUME NEW scheme \in {"smb", "cifs"}
        PROVE  Parse(Written(u, scheme)) = u /\ Parse(Escaped(Written(u, scheme))) = u
    <3> DEFINE t == Written(u, scheme)
    <3>1. t \in Seq(Token) /\ t \in Seq(Token \cup {"\\"})
      <4>1. <<scheme, ":", "/", "/">> \in Seq(Token) /\ Full(u) \in Seq(Token)
        BY <2>1, FullType, Tokens
      <4>2. t \in Seq(Token)
        BY <4>1, ConcatProperties DEF Written
      <4> HIDE DEF t
      <4> QED
        BY <4>2, SeqMonotonic
    <3> HIDE DEF t
    <3>2. Unescape(t) = t /\ Unescape(Escaped(t)) = t
      BY <3>1, UnescapeIs, EscapedIs
    <3> QED
      BY <2>1, <3>2, UriParsed DEF t
  <2>3. Parse(WrittenUnc(u)) = u
    BY <2>1, UncParsed
  <2> QED
    BY <2>2, <2>3
<1> QED
  BY <1>1, <1>2, <1>3, PTL DEF UriSpec
===============================================================================
