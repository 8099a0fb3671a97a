---------------------------- MODULE TransportProofs ----------------------------
(***************************************************************************)
(* Proofs about Transport, for every NetBIOS header size, packet set, raw  *)
(* buffer size and number of packets: its types, the inductive invariant   *)
(* IInv, the framing, and the refinement of PacketDelivery.                *)
(***************************************************************************)
EXTENDS Transport, SequenceTheorems, TLAPS

USE DEF BufSize, BufLen, BufLeft, BufSet, BufInc, BufFits, BufResize, BufNew

\* Whatever stands at a position, what is decoded there has the type of a header.
LEMMA DecodeType ==
    ASSUME TypeOK, NEW pos \in Int, NEW h \in Decode(pos)
    PROVE  h \in Header
<1> DEFINE here == {k \in 1..Len(sent) : starts[k] = pos}
<1>1. CASE here # {}
  <2>1. PICK k \in here : h = [k |-> k, pkt |-> sent[k]]
    BY <1>1 DEF Decode
  <2>2. k \in Nat /\ sent[k] \in Packet
    BY <2>1, TransportAssumption DEF TypeOK
  <2> QED BY <2>1, <2>2 DEF Header
<1>2. CASE here = {}
  BY <1>2 DEF Decode, Header
<1> QED BY <1>1, <1>2

\* What a field of a header or of the packet in it can be.
LEMMA HeaderFields ==
    ASSUME NEW h \in Header
    PROVE  /\ h.k \in Nat /\ h.pkt \in Packet
           /\ h.pkt.ctl \in BOOLEAN /\ h.pkt.size \in 0..MaxLen /\ h.pkt.good \in BOOLEAN
BY DEF Header, Packet

\* A delivery ends the call and appends one result.
LEMMA DeliverType ==
    ASSUME got \in Seq(Result), NEW h \in Header, NEW r \in Rets, Deliver(h, r)
    PROVE  got' \in Seq(Result) /\ pc' \in PCs /\ ret' \in Rets
<1>1. [pkt |-> h.k, res |-> r] \in Result
  BY DEF Header, Result
<1> QED BY <1>1 DEF Deliver, Return, PCs

LEMMA ParseType ==
    ASSUME got \in Seq(Result), NEW h \in Header, Parse(h)
    PROVE  got' \in Seq(Result) /\ pc' \in PCs /\ ret' \in Rets
BY DeliverType DEF Parse, Rets

\* The ends of a call that deliver nothing.
LEMMA ReturnType ==
    ASSUME NEW r \in Rets, Return(r) PROVE pc' \in PCs /\ ret' \in Rets
BY DEF Return, PCs

\* Reading into a buffer no more than it has left keeps the cursor inside.
LEMMA IncType ==
    ASSUME NEW b \in Buffer, b.e <= b.x, NEW n \in 1 .. BufLeft(b)
    PROVE  /\ BufInc(b, n) \in Buffer
           /\ BufInc(b, n).p = b.p + n /\ BufInc(b, n).e = b.e
           /\ BufInc(b, n).x = b.x /\ b.p + n <= b.e
BY DEF Buffer

\* Resizing to a header and a body keeps a buffer inside its limit.
LEMMA ResizeType ==
    ASSUME NEW b \in Buffer, b.e <= b.x, b.p = NBT, b.e = NBT, NEW s \in 0..MaxLen
    PROVE  /\ BufFits(b, NBT + s)
           /\ BufResize(b, NBT + s) = [p |-> NBT, e |-> NBT + s, x |-> b.x]
           /\ BufResize(b, NBT + s) \in Buffer
           /\ NBT <= NBT + s /\ NBT + s <= b.x
BY TransportAssumption DEF Buffer

\* A poll begins with a buffer that has room for at least one byte.
LEMMA PollBufType ==
    ASSUME TypeOK
    PROVE  /\ PollBuf \in Buffer /\ PollBuf.p < PollBuf.e /\ PollBuf.e <= PollBuf.x
           /\ PollBuf.x = buf.x
           /\ BufLeft(buf) = 0 => PollBuf.p = 0 /\ PollBuf.e = NBT
           /\ BufLeft(buf) # 0 => PollBuf = buf
BY TransportAssumption DEF TypeOK, PollBuf, Buffer

\* The type invariant, in particular: the receive cursor never leaves the
\* buffer (cifs_recv, cifs_recv_async).
LEMMA TypeStep == TypeOK /\ [Next]_vars => TypeOK'
<1> SUFFICES ASSUME TypeOK, [Next]_vars PROVE TypeOK'
  OBVIOUS
<1> USE TransportAssumption DEF TypeOK, Avail, End
<1>1. ASSUME NEW p \in Packets, PeerSend(p) PROVE TypeOK'
  <2>1. p.size \in Nat /\ End \in Nat
    BY DEF Packet
  <2>2. starts' = Append(starts, End + NBT + p.size) /\ End' = End + NBT + p.size
    BY <1>1, <2>1 DEF PeerSend
  <2> QED BY <1>1, <2>1, <2>2 DEF PeerSend
<1>2. CASE Arrive
  BY <1>2 DEF Arrive
<1>3. CASE PeerClose
  BY <1>3 DEF PeerClose
<1>4. CASE Reset
  BY <1>4 DEF Reset
<1>5. CASE RecvStart
  <2>1. buf' = [p |-> 0, e |-> NBT, x |-> buf.x] /\ pc' \in PCs
    BY <1>5 DEF RecvStart, GoTo, Buffer, PCs
  <2> QED BY <1>5, <2>1 DEF RecvStart, GoTo, Buffer
<1>6. ASSUME NEW n \in 1 .. BufLeft(buf), RecvBytes(n) PROVE TypeOK'
  <2> DEFINE b == BufInc(buf, n)
  <2>1. /\ b \in Buffer /\ b.p = buf.p + n /\ b.e = buf.e /\ b.x = buf.x /\ b.p <= b.e
        /\ rd' = rd + n /\ rd' <= arrived
        /\ UNCHANGED <<sent, starts, arrived, link, room>>
    BY <1>6, IncType DEF RecvBytes
  <2> HIDE DEF b
  <2>2. CASE BufLeft(b) > 0 /\ buf' = b /\ Stay /\ UNCHANGED <<hdr, left, got>>
    BY <2>1, <2>2 DEF Stay
  <2>3. ASSUME NEW h \in Decode(rd + n - NBT), RecvHeader(b, h), BufLen(b) = NBT, BufLeft(b) = 0
        PROVE TypeOK'
    <3>0. b.p = NBT /\ b.e = NBT
      BY <2>1, <2>3 DEF Buffer
    <3>1. h \in Header /\ h.pkt.size \in 0..MaxLen
      BY DecodeType, HeaderFields
    <3>2. CASE RecvControl(h, b)
      <4>1. buf' = [p |-> 0, e |-> NBT, x |-> buf.x] /\ pc' \in PCs
        BY <2>1, <3>0, <3>1, <3>2 DEF RecvControl, Stay, GoTo, PCs
      <4>2. buf' \in Buffer /\ buf'.p <= buf'.e /\ buf'.e <= buf'.x
        BY <4>1 DEF Buffer
      <4> QED BY <2>1, <2>3, <3>1, <3>2, <4>1, <4>2 DEF RecvHeader, RecvControl, Stay, GoTo
    <3>3. CASE RecvMessage(h, b)
      <4>1. /\ BufFits(b, NBT + h.pkt.size) /\ buf' \in Buffer
            /\ buf' = [p |-> NBT, e |-> NBT + h.pkt.size, x |-> buf.x]
            /\ NBT <= NBT + h.pkt.size /\ NBT + h.pkt.size <= buf.x
        BY <2>1, <3>0, <3>1, <3>3, ResizeType DEF RecvMessage
      <4>2. got' \in Seq(Result) /\ pc' \in PCs /\ ret' \in Rets
        BY <3>1, <3>3, <4>1, ParseType DEF RecvMessage, Stay
      <4>3. buf' \in Buffer /\ buf'.p <= buf'.e /\ buf'.e <= buf'.x
        BY <4>1
      <4>4. hdr' = h /\ left' = left
        BY <2>3, <3>3 DEF RecvHeader, RecvMessage
      <4> QED BY <2>1, <3>1, <4>2, <4>3, <4>4
    <3> QED BY <2>3, <3>2, <3>3 DEF RecvHeader
  <2>4. CASE RecvLast(b)
    <3>1. got' \in Seq(Result) /\ pc' \in PCs /\ ret' \in Rets
      BY <2>4, ParseType DEF RecvLast
    <3> QED BY <2>1, <2>4, <3>1 DEF RecvLast
  <2> QED BY <1>6, <2>2, <2>3, <2>4 DEF RecvBytes, b
<1>7. CASE RecvBroken
  BY <1>7 DEF RecvBroken, Return, PCs, Rets
<1>8. CASE SkipByte
  <2>1. got' \in Seq(Result) /\ pc' \in PCs /\ ret' \in Rets /\ left' \in Nat
    BY <1>8, DeliverType DEF SkipByte, AfterSkip, Stay, GoTo, PCs, Rets
  <2> QED BY <1>8, <2>1 DEF SkipByte
<1>9. CASE SkipBroken
  <2>1. got' \in Seq(Result) /\ pc' \in PCs /\ ret' \in Rets /\ left' \in Nat
    BY <1>9, DeliverType DEF SkipBroken, AfterSkip, GoTo, PCs, Rets
  <2> QED BY <1>9, <2>1 DEF SkipBroken
<1>10. ASSUME NEW len \in RawSizes, RawStart(len) PROVE TypeOK'
  BY <1>10 DEF RawStart, GoTo, PCs
<1>11. ASSUME NEW n \in 1 .. left, RawHeadBytes(n) PROVE TypeOK'
  <2>1. CASE n < left /\ left' = left - n /\ Stay /\ UNCHANGED <<hdr, got>>
    BY <1>11, <2>1 DEF RawHeadBytes, Stay
  <2>2. ASSUME NEW h \in Decode(rd + n - NBT), hdr' = h, RawControl(h) \/ RawMessage(h)
        PROVE  TypeOK'
    <3>1. h \in Header /\ h.pkt.size \in 0..MaxLen
      BY DecodeType, HeaderFields
    <3>2. got' \in Seq(Result) /\ pc' \in PCs /\ ret' \in Rets /\ left' \in Nat
      BY <2>2, <3>1, DeliverType DEF RawControl, RawMessage, Stay, GoTo, PCs, Rets
    <3> QED BY <1>11, <2>2, <3>1, <3>2 DEF RawHeadBytes
  <2> QED BY <1>11, <2>1, <2>2 DEF RawHeadBytes
<1>12. ASSUME NEW n \in 1 .. left, RawBodyBytes(n) PROVE TypeOK'
  <2>1. got' \in Seq(Result) /\ pc' \in PCs /\ ret' \in Rets
    BY <1>12, DeliverType DEF RawBodyBytes, Stay, Rets
  <2> QED BY <1>12, <2>1 DEF RawBodyBytes
<1>13. CASE RawBroken
  BY <1>13 DEF RawBroken, Return, PCs, Rets
<1>14. CASE PollEmpty
  BY <1>14, PollBufType DEF PollEmpty, Again, PCs, Rets
<1>15. ASSUME NEW n \in 1 .. Avail, PollBytes(n) PROVE TypeOK'
  <2> DEFINE b == BufInc(PollBuf, n)
  <2>1. PollBuf \in Buffer /\ PollBuf.p < PollBuf.e /\ PollBuf.e <= PollBuf.x /\ PollBuf.x = buf.x
    BY PollBufType
  <2>2. n \in 1 .. BufLeft(PollBuf)
    BY <1>15, <2>1 DEF PollBytes, Buffer
  <2>3. /\ b \in Buffer /\ b.p <= b.e /\ b.e <= b.x /\ b.x = buf.x
        /\ rd' = rd + n /\ rd' <= arrived
        /\ UNCHANGED <<sent, starts, arrived, link, left, room>>
    BY <1>15, <2>1, <2>2, IncType DEF PollBytes
  <2> HIDE DEF b
  <2>4. CASE BufLeft(b) > 0 /\ buf' = b /\ Again("poll") /\ UNCHANGED hdr
    BY <2>3, <2>4 DEF Again, PCs, Rets
  <2>5. ASSUME NEW h \in Decode(rd + n - NBT), hdr' = h, PollHeader(h, b),
               BufLen(b) = NBT, BufLeft(b) = 0
        PROVE  TypeOK'
    <3>0. b.p = NBT /\ b.e = NBT
      BY <2>3, <2>5 DEF Buffer
    <3>1. h \in Header /\ h.pkt.size \in 0..MaxLen
      BY DecodeType, HeaderFields
    <3>2. /\ BufFits(b, NBT + h.pkt.size) /\ buf' \in Buffer
          /\ buf' = [p |-> NBT, e |-> NBT + h.pkt.size, x |-> buf.x]
          /\ NBT <= NBT + h.pkt.size /\ NBT + h.pkt.size <= buf.x
      BY <2>3, <2>5, <3>0, <3>1, ResizeType DEF PollHeader
    <3>3. buf' \in Buffer /\ buf'.p <= buf'.e /\ buf'.e <= buf'.x
      BY <3>2
    <3>4. UNCHANGED got /\ pc' \in PCs /\ ret' \in Rets
      BY <2>5, <3>2 DEF PollHeader, Again, PCs, Rets
    <3> QED BY <2>3, <2>5, <3>1, <3>3, <3>4
  <2>6. CASE PollLast(b)
    <3>1. got' \in Seq(Result) /\ pc' \in PCs /\ ret' \in Rets
      BY <2>6, DeliverType DEF PollLast, Again, PCs, Rets
    <3> QED BY <2>3, <2>6, <3>1 DEF PollLast
  <2> QED BY <1>15, <2>4, <2>5, <2>6 DEF PollBytes, b
<1>16. CASE PollBroken
  BY <1>16, PollBufType DEF PollBroken, Return, PCs, Rets
<1>17. CASE UNCHANGED vars
  BY <1>17 DEF vars
<1> QED
  BY <1>1, <1>2, <1>3, <1>4, <1>5, <1>6, <1>7, <1>8, <1>9, <1>10, <1>11, <1>12,
     <1>13, <1>14, <1>15, <1>16, <1>17
  DEF Next, Environment, Call, Run, RecvRead, RawHead, RawBody, PollRead

\* Whatever the peer sends and however little a read returns, the buffer, the
\* counters and the modes of transport.c stay in the sets they belong to.
THEOREM TypeCorrect == Spec => []TypeOK
<1>1. Init => TypeOK
  BY TransportAssumption DEF Init, TypeOK, NoHeader, Header, Packet, Buffer, End, PCs, Rets
<1> QED BY <1>1, TypeStep, PTL DEF Spec
----------------------------------------------------------------------------
(* The code never loses its place in the stream, and the receive calls        *)
(* implement PacketDelivery.                                                  *)

\* The number of the packet delivered last.
Last(g) == Delivery!LastPkt(g)

\* Packets up to d are dealt with: what was not delivered need not be.
Pass(g, s, d) == Last(g) <= d /\ \A j \in Last(g)+1 .. d : Delivery!MayPass(s[j])

\* Packet k of s ends, and packet k + 1 begins, at pos.
At(s, t, k, pos) == k \in 0 .. Len(s) /\ t[k + 1] = pos

----------------------------------------------------------------------------
(* The stream *)

LEMMA LayoutInit == Init => Layout
  BY DEF Init, Layout

LEMMA LayoutStep == TypeOK /\ Layout /\ [Next]_vars => Layout'
<1> SUFFICES ASSUME TypeOK, Layout, [Next]_vars PROVE Layout'
  OBVIOUS
<1>1. ASSUME NEW p \in Packets, PeerSend(p) PROVE Layout'
  <2>1. /\ p.size \in Nat /\ NBT \in Nat \ {0} /\ p \in Packet
        /\ sent \in Seq(Packets) /\ starts \in Seq(Nat) /\ Len(starts) = Len(sent) + 1
        /\ Len(sent) \in Nat
    BY TransportAssumption, LenProperties DEF TypeOK, Packet
  <2> DEFINE e == End + NBT + p.size
  <2>2. End \in Nat /\ e \in Nat /\ e > End
    BY <2>1, ElementOfSeq DEF End
  <2>3. /\ Len(sent') = Len(sent) + 1 /\ sent'[Len(sent) + 1] = p
        /\ \A i \in 1..Len(sent) : sent'[i] = sent[i]
    BY <1>1, <2>1, AppendProperties DEF PeerSend
  <2>4. /\ Len(starts') = Len(starts) + 1 /\ starts'[Len(starts) + 1] = e
        /\ \A i \in 1..Len(starts) : starts'[i] = starts[i] /\ starts[i] \in Nat
    BY <1>1, <2>1, <2>2, AppendProperties, ElementOfSeq DEF PeerSend
  <2> HIDE DEF e
  <2>5. starts'[1] = 0
    BY <2>1, <2>4 DEF Layout
  <2>6. ASSUME NEW k \in 1..Len(sent') PROVE starts'[k+1] = starts'[k] + NBT + sent'[k].size
    <3>1. CASE k <= Len(sent)
      <4>1. k \in 1..Len(sent) /\ k \in 1..Len(starts) /\ k + 1 \in 1..Len(starts)
        BY <2>1, <3>1
      <4>2. starts[k + 1] = starts[k] + NBT + sent[k].size
        BY <4>1 DEF Layout
      <4> QED BY <2>3, <2>4, <4>1, <4>2
    <3>2. CASE k = Len(sent) + 1
      BY <2>1, <2>3, <2>4, <3>2 DEF e, End
    <3> QED BY <2>1, <2>3, <3>1, <3>2
  <2>7. ASSUME NEW i \in 1..Len(starts'), NEW j \in 1..Len(starts'), i < j
        PROVE  starts'[i] < starts'[j]
    <3>1. CASE j <= Len(starts)
      BY <2>1, <2>4, <2>7, <3>1 DEF Layout
    <3>2. CASE j = Len(starts) + 1
      <4>1. i \in 1..Len(starts) /\ starts[i] \in Nat
        BY <2>1, <2>4, <2>7, <3>2
      <4>2. starts[i] <= End
        <5>1. CASE i = Len(starts)
          BY <2>2, <5>1 DEF End
        <5>2. CASE i < Len(starts)
          BY <2>1, <2>2, <4>1, <5>2 DEF Layout, End
        <5> QED BY <2>1, <4>1, <5>1, <5>2
      <4> QED BY <2>2, <2>4, <3>2, <4>1, <4>2
    <3> QED BY <2>1, <2>4, <3>1, <3>2
  <2> QED BY <2>5, <2>6, <2>7 DEF Layout
<1>2. ASSUME UNCHANGED <<sent, starts>> PROVE Layout'
  BY <1>2 DEF Layout
<1>3. [Next]_vars => UNCHANGED <<sent, starts>> \/ \E p \in Packets : PeerSend(p)
  BY DEF Next, Environment, Call, Run, Arrive, PeerClose, Reset, RecvStart, RawStart, PollEmpty,
         RecvRead, RecvBytes, RecvBroken, SkipByte, SkipBroken, RawHead, RawHeadBytes, RawBody,
         RawBodyBytes, RawBroken, PollRead, PollBytes, PollBroken, vars
<1> QED BY <1>1, <1>2, <1>3

\* The header at the start of the packet that comes next is its header, if all
\* its bytes have been sent.
LEMMA NextHeader ==
    ASSUME TypeOK, Layout, NEW k, NEW pos \in Nat, At(sent, starts, k, pos), pos + NBT <= End,
           NEW h \in Decode(pos)
    PROVE  /\ h \in Header /\ h.k = k + 1 /\ h.k \in 1..Len(sent) /\ h.pkt = sent[h.k]
           /\ At(sent, starts, h.k, pos + NBT + h.pkt.size)
<1>1. /\ NBT \in Nat \ {0} /\ Len(sent) \in Nat /\ Len(starts) = Len(sent) + 1 /\ k \in 0..Len(sent)
      /\ \A i \in 1..Len(starts) : starts[i] \in Nat
  BY TransportAssumption, LenProperties, ElementOfSeq DEF TypeOK, At
<1>2. k < Len(sent)
  <2> SUFFICES ASSUME k = Len(sent) PROVE FALSE
    BY <1>1
  <2> QED BY <1>1 DEF At, End
<1>3. k + 1 \in 1..Len(sent) /\ starts[k + 1] = pos
  BY <1>1, <1>2 DEF At
<1>4. ASSUME NEW i \in 1..Len(sent), starts[i] = pos PROVE i = k + 1
  <2>1. i \in 1..Len(starts) /\ k + 1 \in 1..Len(starts)
    BY <1>1, <1>3
  <2>2. ~(i < k + 1) /\ ~(k + 1 < i)
    BY <1>1, <1>3, <1>4, <2>1 DEF Layout
  <2> QED BY <1>1, <2>2
<1>5. h = [k |-> k + 1, pkt |-> sent[k + 1]]
  BY <1>3, <1>4 DEF Decode
<1>6. starts[k + 2] = pos + NBT + sent[k + 1].size
  BY <1>1, <1>3 DEF Layout
<1>7. h \in Header
  BY DecodeType
<1>8. h.k = k + 1 /\ h.pkt = sent[k + 1]
  BY <1>5
<1> QED BY <1>1, <1>2, <1>6, <1>7, <1>8 DEF At

----------------------------------------------------------------------------
(* What was delivered *)

LEMMA LastType == ASSUME got \in Seq(Result) PROVE Last(got) \in Nat
<1>1. CASE got = <<>>
  BY <1>1 DEF Last, Delivery!LastPkt
<1>2. CASE got # <<>>
  <2>1. Len(got) \in 1..Len(got)
    BY <1>2, LenProperties, EmptySeq
  <2>2. got[Len(got)] \in Result
    BY <2>1, ElementOfSeq
  <2> QED BY <1>2, <2>2 DEF Last, Delivery!LastPkt, Result
<1> QED BY <1>1, <1>2

LEMMA PassOne ==
    ASSUME got \in Seq(Result), NEW s, NEW d \in Nat, Pass(got, s, d), Delivery!MayPass(s[d + 1])
    PROVE  Pass(got, s, d + 1)
<1>1. Last(got) \in Nat
  BY LastType
<1> QED BY <1>1 DEF Pass

LEMMA PassDelivered ==
    ASSUME got \in Seq(Result), NEW h \in Header, NEW r \in Rets, Deliver(h, r), NEW s
    PROVE  Pass(got', s, h.k)
<1>1. [pkt |-> h.k, res |-> r] \in Result /\ h.k \in Nat
  BY DEF Header, Result
<1>2. got' \in Seq(Result) /\ Len(got') = Len(got) + 1 /\ got'[Len(got')].pkt = h.k
  BY <1>1, AppendProperties DEF Deliver
<1>3. got' # <<>>
  BY <1>2, LenProperties, EmptySeq
<1>4. Last(got') = h.k
  BY <1>2, <1>3 DEF Last, Delivery!LastPkt
<1> QED BY <1>1, <1>4 DEF Pass

----------------------------------------------------------------------------
(* Where the code is in the stream: Framed and Passed, place by place. *)

Where ==
    link # "dead" =>
      /\ pc = "idle" => At(sent, starts, hdr.k, rd) /\ Pass(got, sent, hdr.k)
      /\ pc \in {"recv", "poll"} /\ buf.e = NBT =>
            At(sent, starts, hdr.k, rd - buf.p) /\ Pass(got, sent, hdr.k)
      /\ pc \in {"recv", "poll"} /\ buf.e # NBT =>
            At(sent, starts, hdr.k, rd + (buf.e - buf.p)) /\ Pass(got, sent, hdr.k - 1)
      /\ pc = "raw_head" => At(sent, starts, hdr.k, rd + left - NBT) /\ Pass(got, sent, hdr.k)
      /\ pc \in {"recv_skip", "raw_skip"} => At(sent, starts, hdr.k, rd + left) /\ Pass(got, sent, hdr.k)
      /\ pc \in {"raw_body", "raw_drain"} => At(sent, starts, hdr.k, rd + left) /\ Pass(got, sent, hdr.k - 1)

LEMMA WhereIff == TypeOK /\ Shape => (Framed /\ Passed <=> Where)
<1> SUFFICES ASSUME TypeOK, Shape PROVE Framed /\ Passed <=> Where
  OBVIOUS
<1>1. /\ hdr.k \in Nat /\ NBT \in Nat \ {0} /\ rd \in Nat /\ left \in Nat /\ Len(sent) \in Nat
      /\ buf.e \in Nat /\ buf.p \in Nat /\ pc \in PCs
  BY TransportAssumption, LenProperties, HeaderFields DEF TypeOK, Buffer
<1>2. Framed /\ Passed <=> (link # "dead" => At(sent, starts, hdr.k, Boundary) /\ Pass(got, sent, Dealt))
  BY <1>1 DEF Framed, Passed, At, Pass, Last
<1>3. CASE pc = "idle"
  <2>1. Boundary = rd /\ Dealt = hdr.k
    BY <1>3 DEF Boundary, Dealt, InBody
  <2> QED BY <1>2, <1>3, <2>1 DEF Where
<1>4. CASE pc \in {"recv", "poll"} /\ buf.e = NBT
  <2>0. ~InBody
    BY <1>1, <1>4 DEF InBody
  <2>1. Boundary = rd - buf.p /\ Dealt = hdr.k
    BY <1>4, <2>0 DEF Boundary, Dealt
  <2> QED BY <1>2, <1>4, <2>1 DEF Where
<1>5. CASE pc \in {"recv", "poll"} /\ buf.e # NBT
  <2>1. buf.e > NBT
    BY <1>1, <1>5 DEF Shape
  <2>0. InBody
    BY <1>5, <2>1 DEF InBody
  <2>2. Boundary = rd + (buf.e - buf.p) /\ Dealt = hdr.k - 1
    BY <1>5, <2>0 DEF Boundary, Dealt
  <2> QED BY <1>2, <1>5, <2>2 DEF Where
<1>6. CASE pc = "raw_head"
  <2>1. Boundary = rd + left - NBT /\ Dealt = hdr.k
    BY <1>6 DEF Boundary, Dealt, InBody
  <2> QED BY <1>2, <1>6, <2>1 DEF Where
<1>7. CASE pc \in {"recv_skip", "raw_skip"}
  <2>1. Boundary = rd + left /\ Dealt = hdr.k
    BY <1>7 DEF Boundary, Dealt, InBody
  <2> QED BY <1>2, <1>7, <2>1 DEF Where
<1>8. CASE pc \in {"raw_body", "raw_drain"}
  <2>1. Boundary = rd + left /\ Dealt = hdr.k - 1
    BY <1>8 DEF Boundary, Dealt, InBody
  <2> QED BY <1>2, <1>8, <2>1 DEF Where
<1> QED BY <1>1, <1>3, <1>4, <1>5, <1>6, <1>7, <1>8 DEF PCs

JInv == TypeOK /\ Layout /\ TrueHeader /\ Shape /\ Where

\* The facts about types that the steps below need.
LEMMA Types ==
    ASSUME TypeOK
    PROVE  /\ NBT \in Nat \ {0} /\ Len(sent) \in Nat
           /\ rd \in Nat /\ arrived \in Nat /\ End \in Nat /\ rd <= arrived /\ arrived <= End
           /\ left \in Nat /\ hdr \in Header /\ hdr.k \in Nat /\ hdr.pkt.size \in Nat
           /\ buf \in Buffer /\ buf.p \in Nat /\ buf.e \in Nat /\ buf.p <= buf.e
           /\ got \in Seq(Result) /\ sent \in Seq(Packets)
<1>1. Len(starts) \in 1..Len(starts)
  BY LenProperties DEF TypeOK
<1> QED
  BY <1>1, TransportAssumption, LenProperties, ElementOfSeq, HeaderFields DEF TypeOK, Buffer, End

LEMMA SendStep ==
    ASSUME JInv, NEW p \in Packets, PeerSend(p)
    PROVE  TrueHeader' /\ Shape' /\ Where'
<1>0. TypeOK /\ TrueHeader /\ Shape /\ Where
  BY DEF JInv
<1>1. /\ sent \in Seq(Packets) /\ Len(sent) \in Nat /\ starts \in Seq(Nat)
      /\ Len(starts) = Len(sent) + 1 /\ p.size \in Nat /\ End + NBT + p.size \in Nat
      /\ hdr.k \in Nat /\ got \in Seq(Result)
  BY <1>0, Types, TransportAssumption DEF TypeOK, Packet
<1>2. /\ Len(sent') = Len(sent) + 1
      /\ \A i \in 1..Len(sent) : sent'[i] = sent[i]
      /\ \A i \in 1..Len(starts) : starts'[i] = starts[i]
  BY <1>1, AppendProperties DEF PeerSend
<1>3. UNCHANGED <<arrived, link, rd, buf, hdr, left, room, pc, ret, got>>
  BY DEF PeerSend
<1>4. TrueHeader'
  BY <1>0, <1>1, <1>2, <1>3 DEF TrueHeader
<1>5. Shape'
  BY <1>0, <1>3 DEF Shape
<1>6. ASSUME NEW pos, At(sent, starts, hdr.k, pos) PROVE At(sent', starts', hdr.k, pos)
  BY <1>1, <1>2, <1>6 DEF At
<1>7. ASSUME NEW d \in Int, d <= Len(sent), Pass(got, sent, d) PROVE Pass(got, sent', d)
  <2>1. Last(got) \in Nat
    BY <1>1, LastType
  <2>2. ASSUME NEW j \in Last(got)+1 .. d PROVE Delivery!MayPass(sent'[j])
    <3>1. j \in 1..Len(sent)
      BY <1>1, <1>7, <2>1
    <3> QED BY <1>2, <1>7, <3>1 DEF Pass
  <2> QED BY <1>7, <2>2 DEF Pass
<1>8. hdr.k <= Len(sent) /\ hdr.k - 1 <= Len(sent) /\ hdr.k - 1 \in Int
  BY <1>0, <1>1 DEF TrueHeader
<1>9. /\ Pass(got, sent, hdr.k) => Pass(got, sent', hdr.k)
      /\ Pass(got, sent, hdr.k - 1) => Pass(got, sent', hdr.k - 1)
  BY <1>1, <1>7, <1>8
<1>10. Where'
  BY <1>0, <1>3, <1>6, <1>9 DEF Where
<1> QED BY <1>4, <1>5, <1>10

LEMMA EnvStep ==
    ASSUME JInv, Arrive \/ PeerClose \/ Reset
    PROVE  TrueHeader' /\ Shape' /\ Where'
<1>0. TrueHeader /\ Shape /\ Where
  BY DEF JInv
<1>1. /\ UNCHANGED <<sent, starts, rd, buf, hdr, left, room, pc, ret, got>>
      /\ link # "dead" /\ link' # "dead"
  BY DEF Arrive, PeerClose, Reset
<1> QED BY <1>0, <1>1 DEF TrueHeader, Shape, Where

\* Where a byte can be read the link is not dead, and the byte has been sent.
LEMMA Live ==
    ASSUME JInv, NEW n \in Nat \ {0}, n <= Avail
    PROVE  link # "dead" /\ rd + n <= End
  BY Types DEF JInv, Shape, Avail

\* A complete header is that of the next packet.
LEMMA NewHeader ==
    ASSUME JInv, NEW n \in Nat \ {0}, n <= Avail,
           At(sent, starts, hdr.k, rd + n - NBT), Pass(got, sent, hdr.k),
           NEW h \in Decode(rd + n - NBT), hdr' = h, UNCHANGED <<sent, starts>>
    PROVE  /\ hdr' \in Header /\ hdr'.k \in Nat \ {0} /\ hdr'.pkt.size \in Nat
           /\ At(sent', starts', hdr'.k, rd + n + hdr'.pkt.size)
           /\ TrueHeader'
           /\ Pass(got, sent', hdr'.k - 1)
           /\ Delivery!MayPass(hdr'.pkt) => Pass(got, sent', hdr'.k)
<1> USE DEF JInv
<1>1. /\ hdr.k \in Nat /\ NBT \in Nat \ {0} /\ rd \in Nat /\ Len(sent) \in Nat /\ End \in Nat
      /\ got \in Seq(Result) /\ rd + n <= End
  BY Types, Live
<1>2. rd + n - NBT \in Nat
  <2>1. hdr.k + 1 \in 1..Len(starts) /\ starts \in Seq(Nat)
    BY <1>1 DEF At, TypeOK
  <2>2. starts[hdr.k + 1] \in Nat
    BY <2>1, ElementOfSeq
  <2> QED BY <2>2 DEF At
<1>3. (rd + n - NBT) + NBT = rd + n
  BY <1>1
<1> DEFINE pos == rd + n - NBT
<1>4. pos \in Nat /\ pos + NBT <= End /\ At(sent, starts, hdr.k, pos) /\ h \in Decode(pos)
  BY <1>1, <1>2, <1>3
<1>5. pos + NBT = rd + n
  BY <1>3
<1> HIDE DEF pos
<1>6. /\ h \in Header /\ h.k = hdr.k + 1 /\ h.k \in 1..Len(sent) /\ h.pkt = sent[h.k]
      /\ At(sent, starts, h.k, pos + NBT + h.pkt.size)
  BY <1>4, NextHeader
<1>7. h.pkt.size \in Nat
  BY <1>6, HeaderFields, TransportAssumption
<1>8. TrueHeader'
  BY <1>1, <1>6 DEF TrueHeader
<1>9. h.k - 1 = hdr.k /\ h.k \in Nat \ {0}
  BY <1>1, <1>6
<1>10. Delivery!MayPass(h.pkt) => Pass(got, sent, h.k)
  BY <1>1, <1>6, PassOne
<1> QED BY <1>5, <1>6, <1>7, <1>8, <1>9, <1>10

LEMMA StartStep ==
    ASSUME JInv, RecvStart \/ (\E len \in RawSizes : RawStart(len))
    PROVE  TrueHeader' /\ Shape' /\ Where'
<1> USE DEF JInv
<1>0. rd \in Nat /\ NBT \in Nat \ {0} /\ rd - 0 = rd /\ rd + NBT - NBT = rd /\ pc = "idle"
  BY Types DEF RecvStart, RawStart
<1>1. CASE RecvStart
  <2>1. pc' = "recv" /\ UNCHANGED <<sent, starts, arrived, link, rd, hdr, left, room, got>>
    BY <1>1 DEF RecvStart, GoTo
  <2>2. buf.x = MaxLen + NBT /\ MaxLen \in Nat /\ BufFits(buf, NBT)
    BY TransportAssumption DEF TypeOK, Buffer
  <2>3. buf'.p = 0 /\ buf'.e = NBT
    BY <1>0, <1>1, <2>2 DEF RecvStart
  <2>4. Shape'
    BY <1>0, <2>1, <2>3 DEF Shape
  <2>5. Where'
    BY <1>0, <2>1, <2>3 DEF Where
  <2> QED BY <2>1, <2>4, <2>5 DEF TrueHeader
<1>2. ASSUME NEW len \in RawSizes, RawStart(len) PROVE TrueHeader' /\ Shape' /\ Where'
  <2>1. /\ left' = NBT /\ pc' = "raw_head"
        /\ UNCHANGED <<sent, starts, arrived, link, rd, buf, hdr, got>>
    BY <1>2 DEF RawStart, GoTo
  <2>2. Shape'
    BY <1>0, <2>1 DEF Shape
  <2>3. Where'
    BY <1>0, <2>1 DEF Where
  <2> QED BY <2>1, <2>2, <2>3 DEF TrueHeader
<1> QED BY <1>1, <1>2

\* The connection fails in cifs_recv, cifs_recv_raw or cifs_recv_async.
LEMMA BrokenStep ==
    ASSUME JInv, RecvBroken \/ RawBroken \/ PollBroken
    PROVE  TrueHeader' /\ Shape' /\ Where'
<1> USE DEF JInv
<1>1. /\ link' = "dead" /\ pc' = "idle" /\ rd = arrived
      /\ UNCHANGED <<sent, starts, arrived, rd, hdr, left, room, got>>
  BY Types DEF RecvBroken, RawBroken, PollBroken, Return, Broken, Avail
<1> QED BY <1>1 DEF TrueHeader, Shape, Where

\* The packet that ends a call is delivered: what follows begins at rd.
LEMMA DeliverWhere ==
    ASSUME JInv, NEW h \in Header, NEW r \in Rets, Deliver(h, r), hdr' = h,
           UNCHANGED <<sent, starts>>, link' # "dead" => At(sent', starts', hdr'.k, rd')
    PROVE  Where'
<1>1. got \in Seq(Result) /\ pc' = "idle"
  BY Types DEF JInv, Deliver, Return
<1>2. Pass(got', sent', hdr'.k)
  BY <1>1, PassDelivered
<1> QED BY <1>1, <1>2 DEF Where

LEMMA SkipStep ==
    ASSUME JInv, SkipByte \/ SkipBroken PROVE TrueHeader' /\ Shape' /\ Where'
<1> USE DEF JInv
<1>0. /\ rd \in Nat /\ left \in Nat /\ arrived \in Nat /\ NBT \in Nat \ {0}
      /\ pc \in {"recv_skip", "raw_skip", "raw_drain"} /\ left > 0 /\ hdr.k > 0
  BY Types DEF SkipByte, SkipBroken, Shape
<1>u. sent' = sent /\ starts' = starts /\ arrived' = arrived /\ buf' = buf /\ hdr' = hdr
  BY DEF SkipByte, SkipBroken
<1>w. link # "dead" => /\ At(sent, starts, hdr.k, rd + left)
                       /\ pc # "raw_drain" => Pass(got, sent, hdr.k)
                       /\ pc = "raw_drain" => Pass(got, sent, hdr.k - 1)
  BY <1>0 DEF Where
<1>1. TrueHeader'
  BY <1>u DEF TrueHeader
<1>2. ASSUME SkipByte, left > 1 PROVE Shape' /\ Where'
  <2>1. rd' = rd + 1 /\ left' = left - 1 /\ UNCHANGED <<pc, ret, got, link>> /\ 1 <= Avail
    BY <1>2, Types DEF SkipByte, Stay, Avail
  <2>2. link # "dead" /\ left' > 0 /\ rd' + left' = rd + left
    BY <1>0, <1>2, <2>1, Live
  <2>3. Shape'
    BY <1>0, <1>u, <2>1, <2>2 DEF Shape
  <2>4. Where'
    BY <1>0, <1>u, <1>w, <2>1, <2>2 DEF Where
  <2> QED BY <2>3, <2>4
\* The skip ends, after its last byte or because the connection failed.
<1>3. ASSUME AfterSkip, rd' \in Nat, link' = "dead" => rd' = arrived,
             link' # "dead" => link # "dead" /\ At(sent, starts, hdr.k, rd')
      PROVE  Shape' /\ Where'
  <2>1. CASE pc = "recv_skip"
    <3>1. pc' = "recv" /\ buf.p = 0 /\ buf.e = NBT /\ UNCHANGED got
      BY <1>3, <2>1 DEF AfterSkip, GoTo, Shape
    <3>2. rd' - buf'.p = rd'
      <4>1. PICK q \in Nat : q = rd'
        BY <1>3
      <4>2. q - buf'.p = q
        BY <1>u, <3>1
      <4> QED BY <4>1, <4>2
    <3>3. Shape'
      BY <1>0, <1>3, <1>u, <3>1 DEF Shape
    <3>4. Where'
      BY <1>3, <1>u, <1>w, <2>1, <3>1, <3>2 DEF Where
    <3> QED BY <3>3, <3>4
  <2>2. CASE pc = "raw_skip"
    <3>1. pc' = "raw_head" /\ left' = NBT /\ UNCHANGED got
      BY <1>3, <2>2 DEF AfterSkip, GoTo
    <3>2. rd' + left' - NBT = rd'
      <4>1. PICK q \in Nat : q = rd'
        BY <1>3
      <4>2. q + left' - NBT = q
        BY <1>0, <3>1
      <4> QED BY <4>1, <4>2
    <3>3. Shape'
      <4>1. left' \in 1..NBT
        BY <1>0, <3>1
      <4> QED BY <1>3, <1>u, <3>1, <4>1 DEF Shape
    <3>4. Where'
      BY <1>3, <1>u, <1>w, <2>2, <3>1, <3>2 DEF Where
    <3> QED BY <3>3, <3>4
  <2>3. CASE pc = "raw_drain"
    <3>1. Deliver(hdr, "enomem") /\ pc' = "idle"
      BY <1>3, <2>3 DEF AfterSkip, Deliver, Return
    <3>2. Shape'
      BY <1>3, <1>u, <3>1 DEF Shape
    <3>3. Where'
      <4>1. "enomem" \in Rets /\ hdr \in Header
        BY Types DEF Rets
      <4> QED BY <1>3, <1>u, <3>1, <4>1, DeliverWhere
    <3> QED BY <3>2, <3>3
  <2> QED BY <1>0, <2>1, <2>2, <2>3
<1>4. ASSUME SkipByte, left <= 1 PROVE Shape' /\ Where'
  <2>1. rd' = rd + 1 /\ AfterSkip /\ link' = link /\ 1 <= Avail
    BY <1>4, Types DEF SkipByte, Avail
  <2>2. link # "dead" /\ rd' = rd + left /\ rd' \in Nat
    BY <1>0, <1>4, <2>1, Live
  <2> QED BY <1>3, <1>w, <2>1, <2>2
<1>5. ASSUME SkipBroken PROVE Shape' /\ Where'
  <2>1. link' = "dead" /\ rd' = rd /\ rd = arrived /\ AfterSkip
    BY <1>0, <1>5 DEF SkipBroken, Broken, Avail
  <2> QED BY <1>0, <1>3, <2>1
<1>6. left > 1 \/ left <= 1
  BY <1>0
<1> QED BY <1>1, <1>2, <1>4, <1>5, <1>6

----------------------------------------------------------------------------
(* cifs_recv *)

\* The header of a packet has been completed in buffer b.
LEMMA RecvHeaderStep ==
    ASSUME JInv, NEW n \in Nat \ {0}, n <= Avail, NEW b, b.p = NBT, b.e = NBT, b.x = buf.x,
           pc = "recv", At(sent, starts, hdr.k, rd + n - NBT), Pass(got, sent, hdr.k),
           rd' = rd + n, UNCHANGED <<sent, starts, arrived, link>>,
           NEW h \in Decode(rd + n - NBT), RecvHeader(b, h)
    PROVE  TrueHeader' /\ Shape' /\ Where'
<1> USE DEF JInv
<1>0. /\ rd \in Nat /\ NBT \in Nat \ {0} /\ link' # "dead" /\ hdr' = h
      /\ UNCHANGED <<sent, starts>> /\ buf.x = MaxLen + NBT /\ MaxLen \in Nat
  BY Types, Live, TransportAssumption DEF RecvHeader, Buffer
<1>1. /\ hdr' \in Header /\ hdr'.k \in Nat \ {0} /\ hdr'.pkt.size \in Nat
      /\ At(sent', starts', hdr'.k, rd + n + hdr'.pkt.size)
      /\ TrueHeader'
      /\ Pass(got, sent', hdr'.k - 1)
      /\ Delivery!MayPass(hdr'.pkt) => Pass(got, sent', hdr'.k)
  BY <1>0, NewHeader
<1>2. hdr'.pkt.size <= MaxLen
  BY <1>0, <1>1, HeaderFields
<1>3. CASE RecvControl(h, b)
  <2>1. /\ hdr'.pkt.ctl /\ buf'.p = 0 /\ buf'.e = NBT /\ got' = got /\ left' = hdr'.pkt.size
        /\ hdr'.pkt.size > 0 => pc' = "recv_skip"
        /\ ~(hdr'.pkt.size > 0) => pc' = "recv"
    BY <1>0, <1>3 DEF RecvControl, Stay, GoTo
  <2>2. Pass(got', sent', hdr'.k)
    BY <1>1, <2>1 DEF Delivery!MayPass
  <2>3. CASE hdr'.pkt.size > 0
    <3>1. rd' + left' = rd + n + hdr'.pkt.size
      BY <1>0, <2>1
    <3>2. pc' = "recv_skip"
      BY <2>1, <2>3
    <3>3. Shape'
      BY <1>0, <1>1, <2>1, <2>3, <3>2 DEF Shape
    <3>4. Where'
      BY <1>1, <2>2, <3>1, <3>2 DEF Where
    <3> QED BY <1>1, <3>3, <3>4
  <2>4. CASE ~(hdr'.pkt.size > 0)
    <3>1. rd' - buf'.p = rd + n + hdr'.pkt.size
      BY <1>0, <1>1, <2>1, <2>4
    <3>2. pc' = "recv"
      BY <2>1, <2>4
    <3>3. Shape'
      BY <1>0, <1>1, <2>1, <3>2 DEF Shape
    <3>4. Where'
      BY <1>1, <2>1, <2>2, <3>1, <3>2 DEF Where
    <3> QED BY <1>1, <3>3, <3>4
  <2> QED BY <2>3, <2>4
<1>4. CASE RecvMessage(h, b)
  <2>1. /\ ~hdr'.pkt.ctl /\ buf'.p = NBT /\ buf'.e = NBT + hdr'.pkt.size
        /\ \/ hdr'.pkt.size = 0 /\ Parse(h)
           \/ hdr'.pkt.size > 0 /\ Stay /\ UNCHANGED got
    BY <1>0, <1>1, <1>2, <1>4 DEF RecvMessage
  <2>2. CASE hdr'.pkt.size = 0 /\ Parse(h)
    <3>1. PICK r \in Rets : Deliver(h, r)
      BY <2>2 DEF Parse, Rets
    <3>2. pc' = "idle"
      BY <3>1 DEF Deliver, Return
    <3>3. rd' = rd + n + hdr'.pkt.size
      BY <1>0, <2>2
    <3>4. Shape'
      BY <1>0, <3>2 DEF Shape
    <3>5. Where'
      BY <1>0, <1>1, <3>1, <3>3, DeliverWhere
    <3> QED BY <1>1, <3>4, <3>5
  <2>3. CASE hdr'.pkt.size > 0 /\ Stay /\ UNCHANGED got
    <3>1. pc' = "recv" /\ got' = got
      BY <2>3 DEF Stay
    <3>2. rd' + (buf'.e - buf'.p) = rd + n + hdr'.pkt.size
      BY <1>0, <1>1, <2>1
    <3>3. buf'.e > NBT /\ buf'.p < buf'.e /\ NBT <= buf'.e
      BY <1>0, <1>1, <2>1, <2>3
    <3>4. Shape'
      BY <1>0, <1>1, <2>1, <3>1, <3>3 DEF Shape
    <3>5. buf'.e # NBT
      BY <1>0, <1>1, <2>1, <2>3
    <3>6. Where'
      BY <1>1, <3>1, <3>2, <3>5 DEF Where
    <3> QED BY <1>1, <3>4, <3>6
  <2> QED BY <2>1, <2>2, <2>3
<1> QED BY <1>3, <1>4 DEF RecvHeader

LEMMA RecvStep ==
    ASSUME JInv, NEW n \in 1 .. BufLeft(buf), RecvBytes(n)
    PROVE  TrueHeader' /\ Shape' /\ Where'
<1> USE DEF JInv
<1> DEFINE b == BufInc(buf, n)
<1>0. /\ rd \in Nat /\ NBT \in Nat \ {0} /\ buf.p \in Nat /\ buf.e \in Nat /\ n \in Nat \ {0}
      /\ n <= Avail /\ pc = "recv" /\ hdr \in Header
  BY Types DEF RecvBytes
<1>1. b.p = buf.p + n /\ b.e = buf.e /\ b.x = buf.x /\ b.p <= b.e
  BY <1>0
<1>2. /\ rd' = rd + n /\ UNCHANGED <<sent, starts, arrived, link>>
      /\ \/ BufLeft(b) > 0 /\ buf' = b /\ Stay /\ UNCHANGED <<hdr, left, got>>
         \/ BufLeft(b) = 0 /\ BufLen(b) = NBT /\ \E h \in Decode(rd + n - NBT) : RecvHeader(b, h)
         \/ BufLeft(b) = 0 /\ BufLen(b) # NBT /\ RecvLast(b)
  BY DEF RecvBytes
<1> HIDE DEF b
<1>3. link # "dead" /\ NBT <= buf.e
  BY <1>0, Live DEF Shape
<1>4. /\ buf.e = NBT => At(sent, starts, hdr.k, rd - buf.p) /\ Pass(got, sent, hdr.k)
      /\ buf.e # NBT => At(sent, starts, hdr.k, rd + (buf.e - buf.p)) /\ Pass(got, sent, hdr.k - 1)
  BY <1>0, <1>3 DEF Where
<1>5. CASE BufLeft(b) > 0 /\ buf' = b /\ Stay /\ UNCHANGED <<hdr, left, got>>
  <2>1. /\ sent' = sent /\ starts' = starts /\ arrived' = arrived /\ link' = link /\ hdr' = hdr
        /\ got' = got /\ pc' = pc /\ buf'.e = buf.e /\ buf'.p = buf.p + n /\ buf'.p < buf'.e
    BY <1>0, <1>1, <1>2, <1>5 DEF Stay
  <2>2. /\ rd' - buf'.p = rd - buf.p
        /\ rd' + (buf'.e - buf'.p) = rd + (buf.e - buf.p)
    BY <1>0, <1>2, <2>1
  <2>3. TrueHeader'
    BY <2>1 DEF TrueHeader
  <2>4. Shape'
    BY <1>0, <1>3, <2>1 DEF Shape
  <2>5. Where'
    BY <1>0, <1>4, <2>1, <2>2 DEF Where
  <2> QED BY <2>3, <2>4, <2>5
<1>6. ASSUME BufLeft(b) = 0, BufLen(b) = NBT, NEW h \in Decode(rd + n - NBT), RecvHeader(b, h)
      PROVE  TrueHeader' /\ Shape' /\ Where'
  <2>1. b.p = NBT /\ b.e = NBT /\ b.x = buf.x
    BY <1>0, <1>1, <1>6
  <2>2. buf.e = NBT /\ rd - buf.p = rd + n - NBT
    BY <1>0, <1>1, <2>1
  <2>3. At(sent, starts, hdr.k, rd + n - NBT) /\ Pass(got, sent, hdr.k)
    BY <1>4, <2>2
  <2> QED BY <1>0, <1>2, <1>6, <2>1, <2>3, RecvHeaderStep
<1>7. CASE BufLeft(b) = 0 /\ BufLen(b) # NBT /\ RecvLast(b)
  <2>1. PICK r \in Rets : Deliver(hdr, r)
    BY <1>7 DEF RecvLast, Parse, Rets
  <2>2. pc' = "idle" /\ hdr' = hdr /\ sent' = sent /\ starts' = starts
    BY <1>2, <1>7, <2>1 DEF Deliver, Return, RecvLast
  <2>3. buf.e # NBT /\ rd' = rd + (buf.e - buf.p)
    BY <1>0, <1>1, <1>2, <1>7
  <2>4. At(sent', starts', hdr'.k, rd')
    BY <1>4, <2>2, <2>3
  <2>5. Where'
    BY <1>0, <2>1, <2>2, <2>4, DeliverWhere
  <2>6. Shape'
    BY <1>2, <1>3, <2>2 DEF Shape
  <2> QED BY <2>2, <2>5, <2>6 DEF TrueHeader
<1> QED BY <1>2, <1>5, <1>6, <1>7

----------------------------------------------------------------------------
(* cifs_recv_raw *)

LEMMA RawHeadStep ==
    ASSUME JInv, NEW n \in 1 .. left, RawHeadBytes(n)
    PROVE  TrueHeader' /\ Shape' /\ Where'
<1> USE DEF JInv
<1>0. /\ rd \in Nat /\ left \in Nat /\ NBT \in Nat \ {0} /\ n \in Nat \ {0} /\ n <= Avail
      /\ pc = "raw_head" /\ left \in 1..NBT /\ rd' = rd + n /\ room \in Nat
  BY Types DEF RawHeadBytes, Shape, TypeOK
<1>1. sent' = sent /\ starts' = starts /\ arrived' = arrived /\ link' = link /\ buf' = buf
  BY DEF RawHeadBytes
<1>2. link # "dead" /\ At(sent, starts, hdr.k, rd + left - NBT) /\ Pass(got, sent, hdr.k)
  BY <1>0, Live DEF Where
<1>3. CASE n < left /\ left' = left - n /\ Stay /\ UNCHANGED <<hdr, got>>
  <2>1. pc' = pc /\ hdr' = hdr /\ got' = got
    BY <1>3 DEF Stay
  <2>2. rd' + left' - NBT = rd + left - NBT /\ left' \in 1..NBT
    BY <1>0, <1>3
  <2>3. TrueHeader'
    BY <1>1, <2>1 DEF TrueHeader
  <2>4. Shape'
    BY <1>0, <1>1, <1>2, <2>1, <2>2 DEF Shape
  <2>5. Where'
    BY <1>0, <1>1, <1>2, <2>1, <2>2 DEF Where
  <2> QED BY <2>3, <2>4, <2>5
<1>4. ASSUME n = left, NEW h \in Decode(rd + n - NBT), hdr' = h, RawControl(h) \/ RawMessage(h)
      PROVE  TrueHeader' /\ Shape' /\ Where'
  <2>1. /\ hdr' \in Header /\ hdr'.k \in Nat \ {0} /\ hdr'.pkt.size \in Nat
        /\ At(sent', starts', hdr'.k, rd + n + hdr'.pkt.size)
        /\ TrueHeader'
        /\ Pass(got, sent', hdr'.k - 1)
        /\ Delivery!MayPass(hdr'.pkt) => Pass(got, sent', hdr'.k)
    BY <1>0, <1>1, <1>2, <1>4, NewHeader
  <2>2. CASE RawControl(h)
    <3>1. Pass(got, sent', hdr'.k) /\ got' = got /\ hdr'.pkt.ctl
      BY <1>4, <2>1, <2>2 DEF RawControl, Delivery!MayPass
    <3>2. CASE h.pkt.size = 0 /\ left' = NBT /\ Stay
      <4>1. pc' = "raw_head"
        BY <1>0, <3>2 DEF Stay
      <4>2. rd' + left' - NBT = rd + n + hdr'.pkt.size
        BY <1>0, <1>4, <3>2
      <4>3. left' \in 1..NBT
        BY <1>0, <3>2
      <4>4. Shape'
        BY <1>1, <1>2, <4>1, <4>3 DEF Shape
      <4>5. Where'
        BY <2>1, <3>1, <4>1, <4>2 DEF Where
      <4> QED BY <2>1, <4>4, <4>5
    <3>3. CASE h.pkt.size > 0 /\ left' = h.pkt.size /\ GoTo("raw_skip")
      <4>1. pc' = "raw_skip" /\ left' > 0
        BY <3>3 DEF GoTo
      <4>2. rd' + left' = rd + n + hdr'.pkt.size
        BY <1>0, <1>4, <3>3
      <4>3. Shape'
        BY <1>1, <1>2, <2>1, <3>1, <4>1 DEF Shape
      <4>4. Where'
        BY <2>1, <3>1, <4>1, <4>2 DEF Where
      <4> QED BY <2>1, <4>3, <4>4
    <3> QED BY <2>2, <3>2, <3>3 DEF RawControl
  <2>3. CASE RawMessage(h)
    <3>1. /\ ~hdr'.pkt.ctl /\ left' = hdr'.pkt.size
          /\ \/ hdr'.pkt.size > room /\ GoTo("raw_drain") /\ UNCHANGED got
             \/ hdr'.pkt.size <= room /\ hdr'.pkt.size > 0 /\ GoTo("raw_body") /\ UNCHANGED got
             \/ hdr'.pkt.size = 0 /\ Deliver(h, "ok")
      BY <1>4, <2>3 DEF RawMessage
    <3>2. CASE hdr'.pkt.size = 0 /\ Deliver(h, "ok")
      <4>1. pc' = "idle" /\ "ok" \in Rets
        BY <3>2 DEF Deliver, Return, Rets
      <4>2. rd' = rd + n + hdr'.pkt.size
        BY <1>0, <3>2
      <4>3. Shape'
        BY <1>1, <1>2, <4>1 DEF Shape
      <4>4. Where'
        BY <1>1, <1>4, <2>1, <3>2, <4>1, <4>2, DeliverWhere
      <4> QED BY <2>1, <4>3, <4>4
    <3>3. CASE hdr'.pkt.size > 0 /\ UNCHANGED got /\ (GoTo("raw_drain") \/ GoTo("raw_body"))
      <4>1. pc' \in {"raw_body", "raw_drain"} /\ got' = got
        BY <3>3 DEF GoTo
      <4>2. rd' + left' = rd + n + hdr'.pkt.size
        BY <1>0, <3>1
      <4>3. Shape'
        BY <1>1, <1>2, <2>1, <3>1, <3>3, <4>1 DEF Shape
      <4>4. Where'
        BY <2>1, <4>1, <4>2 DEF Where
      <4> QED BY <2>1, <4>3, <4>4
    <3>4. hdr'.pkt.size > room => hdr'.pkt.size > 0
      BY <1>0, <2>1
    <3> QED BY <3>1, <3>2, <3>3, <3>4
  <2> QED BY <1>4, <2>2, <2>3
<1> QED BY <1>3, <1>4 DEF RawHeadBytes

LEMMA RawBodyStep ==
    ASSUME JInv, NEW n \in 1 .. left, RawBodyBytes(n)
    PROVE  TrueHeader' /\ Shape' /\ Where'
<1> USE DEF JInv
<1>0. /\ rd \in Nat /\ left \in Nat /\ n \in Nat \ {0} /\ n <= Avail /\ pc = "raw_body"
      /\ rd' = rd + n /\ left' = left - n /\ hdr \in Header /\ hdr.k > 0 /\ ~hdr.pkt.ctl
  BY Types DEF RawBodyBytes, Shape
<1>1. /\ sent' = sent /\ starts' = starts /\ arrived' = arrived /\ link' = link /\ buf' = buf
      /\ hdr' = hdr
  BY DEF RawBodyBytes
<1>2. link # "dead" /\ At(sent, starts, hdr.k, rd + left) /\ Pass(got, sent, hdr.k - 1)
  BY <1>0, Live DEF Where
<1>3. TrueHeader'
  BY <1>1 DEF TrueHeader
<1>4. CASE n < left
  <2>1. pc' = "raw_body" /\ got' = got
    BY <1>0, <1>4 DEF RawBodyBytes, Stay
  <2>2. rd' + left' = rd + left /\ left' > 0
    BY <1>0, <1>4
  <2>3. Shape'
    BY <1>0, <1>1, <1>2, <2>1, <2>2 DEF Shape
  <2>4. Where'
    BY <1>1, <1>2, <2>1, <2>2 DEF Where
  <2> QED BY <1>3, <2>3, <2>4
<1>5. CASE ~(n < left)
  <2>1. Deliver(hdr, "ok") /\ pc' = "idle" /\ "ok" \in Rets
    BY <1>5 DEF RawBodyBytes, Deliver, Return, Rets
  <2>2. rd' = rd + left
    BY <1>0, <1>5
  <2>3. Shape'
    BY <1>1, <1>2, <2>1 DEF Shape
  <2>4. Where'
    BY <1>0, <1>1, <1>2, <2>1, <2>2, DeliverWhere
  <2> QED BY <1>3, <2>3, <2>4
<1> QED BY <1>4, <1>5

----------------------------------------------------------------------------
(* cifs_recv_async *)

\* A poll continues the packet in the buffer or begins one with an empty buffer.
LEMMA PollPlace ==
    ASSUME JInv, CanPoll
    PROVE  /\ PollBuf \in Buffer /\ PollBuf.p \in Nat /\ PollBuf.e \in Nat
           /\ PollBuf.p < PollBuf.e /\ NBT <= PollBuf.e /\ PollBuf.x = MaxLen + NBT
           /\ PollBuf.e > NBT => PollBuf.e = NBT + hdr.pkt.size /\ hdr.k > 0
           /\ link # "dead" /\ PollBuf.e = NBT =>
                 At(sent, starts, hdr.k, rd - PollBuf.p) /\ Pass(got, sent, hdr.k)
           /\ link # "dead" /\ PollBuf.e # NBT =>
                 /\ At(sent, starts, hdr.k, rd + (PollBuf.e - PollBuf.p))
                 /\ Pass(got, sent, hdr.k - 1)
           /\ Async
<1> USE DEF JInv
<1>1. PollBuf \in Buffer /\ PollBuf.p < PollBuf.e
  BY PollBufType
<1>2. /\ PollBuf.p \in Nat /\ PollBuf.e \in Nat /\ PollBuf.x = MaxLen + NBT
      /\ NBT \in Nat \ {0} /\ rd \in Nat
  BY <1>1, Types DEF Buffer
<1>3. CASE pc = "poll"
  <2>1. BufLeft(buf) # 0
    BY <1>3, Types DEF Shape
  <2>2. PollBuf = buf
    BY <2>1 DEF PollBuf
  <2> QED BY <1>1, <1>2, <1>3, <2>2 DEF CanPoll, Shape, Where
<1>4. CASE pc = "idle" /\ BufLeft(buf) = 0
  <2>1. PollBuf.p = 0 /\ PollBuf.e = NBT
    BY <1>4, PollBufType
  <2>2. rd - PollBuf.p = rd
    BY <1>2, <2>1
  <2> QED BY <1>1, <1>2, <1>4, <2>1, <2>2 DEF CanPoll, Where
<1> QED BY <1>3, <1>4 DEF CanPoll

LEMMA PollEmptyStep ==
    ASSUME JInv, PollEmpty
    PROVE  TrueHeader' /\ Shape' /\ Where'
<1> USE DEF JInv
<1>1. /\ sent' = sent /\ starts' = starts /\ arrived' = arrived /\ link' = link /\ rd' = rd
      /\ hdr' = hdr /\ got' = got /\ buf' = PollBuf /\ pc' = "poll" /\ CanPoll
  BY DEF PollEmpty, Again
<1>2. TrueHeader'
  BY <1>1 DEF TrueHeader
<1>3. link = "dead" => rd = arrived
  BY DEF Shape
<1>4. Shape'
  BY <1>1, <1>3, PollPlace DEF Shape
<1>5. Where'
  BY <1>1, PollPlace DEF Where
<1> QED BY <1>2, <1>4, <1>5

\* The header of a packet has been completed in buffer b.
LEMMA PollHeaderStep ==
    ASSUME JInv, NEW n \in Nat \ {0}, n <= Avail, NEW b, b.p = NBT, b.e = NBT, b.x = MaxLen + NBT,
           Async, At(sent, starts, hdr.k, rd + n - NBT), Pass(got, sent, hdr.k),
           rd' = rd + n, UNCHANGED <<sent, starts, arrived, link>>,
           NEW h \in Decode(rd + n - NBT), hdr' = h, PollHeader(h, b)
    PROVE  TrueHeader' /\ Shape' /\ Where'
<1> USE DEF JInv
<1>0. /\ rd \in Nat /\ NBT \in Nat \ {0} /\ link' # "dead"
      /\ UNCHANGED <<sent, starts>> /\ MaxLen \in Nat
  BY Types, Live, TransportAssumption
<1>1. /\ hdr' \in Header /\ hdr'.k \in Nat \ {0} /\ hdr'.pkt.size \in Nat
      /\ At(sent', starts', hdr'.k, rd + n + hdr'.pkt.size)
      /\ TrueHeader'
      /\ Pass(got, sent', hdr'.k - 1)
      /\ Delivery!MayPass(hdr'.pkt) => Pass(got, sent', hdr'.k)
  BY <1>0, NewHeader
<1>2. hdr'.pkt.size <= MaxLen
  BY <1>1, HeaderFields
<1>3. /\ buf'.p = NBT /\ buf'.e = NBT + hdr'.pkt.size /\ got' = got
      /\ pc' = IF hdr'.pkt.size > 0 THEN "poll" ELSE "idle"
  BY <1>0, <1>1, <1>2 DEF PollHeader, Again
<1>4. CASE hdr'.pkt.size > 0
  <2>1. pc' = "poll"
    BY <1>3, <1>4
  <2>2. /\ rd' + (buf'.e - buf'.p) = rd + n + hdr'.pkt.size
        /\ buf'.p < buf'.e /\ NBT <= buf'.e /\ buf'.e # NBT
    BY <1>0, <1>1, <1>3, <1>4
  <2>3. Shape'
    BY <1>0, <1>1, <1>3, <2>1, <2>2 DEF Shape
  <2>4. Where'
    BY <1>1, <1>3, <2>1, <2>2 DEF Where
  <2> QED BY <1>1, <2>3, <2>4
<1>5. CASE ~(hdr'.pkt.size > 0)
  <2>1. pc' = "idle" /\ hdr'.pkt.size = 0
    BY <1>1, <1>3, <1>5
  <2>2. Pass(got', sent', hdr'.k)
    BY <1>1, <1>3, <2>1 DEF Delivery!MayPass
  <2>3. rd' = rd + n + hdr'.pkt.size
    BY <1>0, <2>1
  <2>4. Shape'
    BY <1>0, <2>1 DEF Shape
  <2>5. Where'
    BY <1>1, <2>1, <2>2, <2>3 DEF Where
  <2> QED BY <1>1, <2>4, <2>5
<1> QED BY <1>4, <1>5

LEMMA PollStep ==
    ASSUME JInv, NEW n \in 1 .. Avail, PollBytes(n)
    PROVE  TrueHeader' /\ Shape' /\ Where'
<1> USE DEF JInv
<1> DEFINE c == PollBuf
           b == BufInc(c, n)
<1>0. /\ rd \in Nat /\ arrived \in Nat /\ NBT \in Nat \ {0} /\ hdr \in Header /\ got \in Seq(Result)
      /\ n \in Nat \ {0} /\ n <= Avail /\ CanPoll /\ n <= BufLeft(c)
  BY Types DEF PollBytes, Avail
<1>1. /\ c.p \in Nat /\ c.e \in Nat /\ c.x = MaxLen + NBT /\ NBT <= c.e /\ Async
      /\ c.e > NBT => c.e = NBT + hdr.pkt.size /\ hdr.k > 0
  BY <1>0, PollPlace
<1>2. b.p = c.p + n /\ b.e = c.e /\ b.x = c.x /\ b.p <= b.e
  BY <1>0, <1>1
<1>3. /\ rd' = rd + n /\ sent' = sent /\ starts' = starts /\ arrived' = arrived /\ link' = link
      /\ \/ BufLeft(b) > 0 /\ buf' = b /\ Again("poll") /\ UNCHANGED hdr
         \/ BufLeft(b) = 0 /\ BufLen(b) = NBT /\ \E h \in Decode(rd + n - NBT) :
                                                    hdr' = h /\ PollHeader(h, b)
         \/ BufLeft(b) = 0 /\ BufLen(b) # NBT /\ PollLast(b)
  BY DEF PollBytes
<1>4. link # "dead"
  BY <1>0, Live
<1>5. /\ c.e = NBT => At(sent, starts, hdr.k, rd - c.p) /\ Pass(got, sent, hdr.k)
      /\ c.e # NBT => At(sent, starts, hdr.k, rd + (c.e - c.p)) /\ Pass(got, sent, hdr.k - 1)
  BY <1>0, <1>4, PollPlace
<1> HIDE DEF b, c
<1>6. CASE BufLeft(b) > 0 /\ buf' = b /\ Again("poll") /\ UNCHANGED hdr
  <2>1. /\ hdr' = hdr /\ got' = got /\ pc' = "poll" /\ buf'.e = c.e /\ buf'.p = c.p + n
        /\ buf'.p < buf'.e
    BY <1>0, <1>1, <1>2, <1>6 DEF Again
  <2>2. /\ rd' - buf'.p = rd - c.p
        /\ rd' + (buf'.e - buf'.p) = rd + (c.e - c.p)
    BY <1>0, <1>1, <1>3, <2>1
  <2>3. TrueHeader'
    BY <1>3, <2>1 DEF TrueHeader
  <2>4. Shape'
    BY <1>1, <1>3, <1>4, <2>1 DEF Shape
  <2>5. Where'
    BY <1>3, <1>5, <2>1, <2>2 DEF Where
  <2> QED BY <2>3, <2>4, <2>5
<1>7. ASSUME BufLeft(b) = 0, BufLen(b) = NBT, NEW h \in Decode(rd + n - NBT), hdr' = h,
             PollHeader(h, b)
      PROVE  TrueHeader' /\ Shape' /\ Where'
  <2>1. b.p = NBT /\ b.e = NBT /\ b.x = MaxLen + NBT
    BY <1>0, <1>1, <1>2, <1>7
  <2>2. c.e = NBT /\ rd - c.p = rd + n - NBT
    BY <1>0, <1>1, <1>2, <2>1
  <2>3. At(sent, starts, hdr.k, rd + n - NBT) /\ Pass(got, sent, hdr.k)
    BY <1>5, <2>2
  <2> QED BY <1>0, <1>1, <1>3, <1>7, <2>1, <2>3, PollHeaderStep
<1>8. CASE BufLeft(b) = 0 /\ BufLen(b) # NBT /\ PollLast(b)
  <2>1. c.e # NBT /\ rd' = rd + (c.e - c.p) /\ c.e > NBT
    BY <1>0, <1>1, <1>2, <1>3, <1>8
  <2>2. At(sent, starts, hdr.k, rd') /\ Pass(got, sent, hdr.k - 1) /\ hdr.k > 0 /\ hdr' = hdr
    BY <1>1, <1>5, <1>8, <2>1 DEF PollLast
  <2>3. TrueHeader' /\ TrueHeader
    BY <1>3, <2>2 DEF TrueHeader
  <2>4. CASE hdr.pkt.ctl
    <3>1. pc' = "idle" /\ got' = got
      BY <1>8, <2>4 DEF PollLast, Again
    <3>2. hdr.k - 1 \in Nat /\ (hdr.k - 1) + 1 = hdr.k
      BY <1>0, <2>2, HeaderFields
    <3>3. Delivery!MayPass(sent[hdr.k])
      BY <2>2, <2>3, <2>4 DEF TrueHeader, Delivery!MayPass
    <3>4. Pass(got, sent, hdr.k)
      BY <1>0, <2>2, <3>2, <3>3, PassOne
    <3>5. Shape'
      BY <1>3, <1>4, <3>1 DEF Shape
    <3>6. Where'
      BY <1>3, <2>2, <3>1, <3>4 DEF Where
    <3> QED BY <2>3, <3>5, <3>6
  <2>5. CASE ~hdr.pkt.ctl
    <3>1. Deliver(hdr, "ok") /\ pc' = "idle" /\ "ok" \in Rets
      BY <1>8, <2>5 DEF PollLast, Deliver, Return, Rets
    <3>2. Shape'
      BY <1>3, <1>4, <3>1 DEF Shape
    <3>3. Where'
      BY <1>0, <1>3, <2>2, <3>1, DeliverWhere
    <3> QED BY <2>3, <3>2, <3>3
  <2> QED BY <2>4, <2>5
<1> QED BY <1>3, <1>6, <1>7, <1>8

----------------------------------------------------------------------------
(* The inductive invariant *)

LEMMA JInvInit == Init => JInv
<1> SUFFICES ASSUME Init PROVE JInv
  OBVIOUS
<1>1. TypeOK /\ Layout
  BY TransportAssumption, LayoutInit DEF Init, TypeOK, NoHeader, Header, Packet, Buffer, End, PCs, Rets
<1>2. TrueHeader /\ Shape
  BY DEF Init, TrueHeader, Shape, NoHeader
<1>3. Last(got) = 0
  BY DEF Init, Last, Delivery!LastPkt
<1>4. At(sent, starts, hdr.k, rd)
  BY DEF Init, At, NoHeader
<1>5. Where
  BY <1>3, <1>4 DEF Init, Where, Pass, NoHeader
<1> QED BY <1>1, <1>2, <1>5 DEF JInv

LEMMA JInvStep == JInv /\ [Next]_vars => JInv'
<1> SUFFICES ASSUME JInv, [Next]_vars PROVE JInv'
  OBVIOUS
<1>1. TypeOK' /\ Layout'
  BY TypeStep, LayoutStep DEF JInv
<1>2. TrueHeader' /\ Shape' /\ Where'
  <2>1. ASSUME NEW p \in Packets, PeerSend(p) PROVE TrueHeader' /\ Shape' /\ Where'
    BY <2>1, SendStep
  <2>2. CASE Arrive \/ PeerClose \/ Reset
    BY <2>2, EnvStep
  <2>3. CASE RecvStart \/ (\E len \in RawSizes : RawStart(len))
    BY <2>3, StartStep
  <2>4. CASE PollEmpty
    BY <2>4, PollEmptyStep
  <2>5. CASE RecvRead
    BY <2>5, RecvStep DEF RecvRead
  <2>6. CASE RecvBroken \/ RawBroken \/ PollBroken
    BY <2>6, BrokenStep
  <2>7. CASE SkipByte \/ SkipBroken
    BY <2>7, SkipStep
  <2>8. CASE RawHead
    BY <2>8, RawHeadStep DEF RawHead
  <2>9. CASE RawBody
    BY <2>9, RawBodyStep DEF RawBody
  <2>10. CASE PollRead
    BY <2>10, PollStep DEF PollRead
  <2>11. CASE UNCHANGED vars
    BY <2>11 DEF vars, JInv, TrueHeader, Shape, Where
  <2> QED
    BY <2>1, <2>2, <2>3, <2>4, <2>5, <2>6, <2>7, <2>8, <2>9, <2>10, <2>11
    DEF Next, Environment, Call, Run
<1> QED BY <1>1, <1>2 DEF JInv

LEMMA JInvIff == IInv <=> JInv
  BY WhereIff DEF IInv, JInv

LEMMA JInvCorrect == Spec => []JInv
  BY JInvInit, JInvStep, PTL DEF Spec

\* The inductive invariant of Transport holds in every state: in particular hdr
\* is always the header of a packet of the peer, and what was not delivered
\* need not be (cifs_recv, cifs_recv_raw, cifs_recv_async).
THEOREM InvCorrect == Spec => []IInv
  BY JInvCorrect, JInvIff, PTL

\* The receive functions never lose the place of the next packet in the stream.
THEOREM FramedCorrect == Spec => []Framed
<1>1. IInv => Framed
  BY DEF IInv
<1> QED BY <1>1, InvCorrect, PTL

----------------------------------------------------------------------------
(* The refinement of PacketDelivery *)

Quiet == sent' = sent /\ got' = got

\* The end of a call with packet h is a delivery.
LEMMA AbsDeliver ==
    ASSUME JInv, NEW h \in Header, h.k > 0, h.k <= Len(sent), h.pkt = sent[h.k], ~h.pkt.ctl,
           Pass(got, sent, h.k - 1), NEW r \in Delivery!Verdicts(h.pkt), Deliver(h, r),
           sent' = sent
    PROVE  Delivery!Deliver
<1>1. /\ Last(got) \in Nat /\ h.k \in Nat /\ Len(sent) \in Nat
  BY Types, LastType, HeaderFields DEF JInv
<1>2. h.k \in Last(got)+1 .. Len(sent)
  BY <1>1 DEF Pass
<1>3. \A j \in Last(got)+1 .. h.k-1 : Delivery!MayPass(sent[j])
  BY DEF Pass
<1>4. got' = Append(got, [pkt |-> h.k, res |-> r])
  BY DEF Deliver
<1> QED BY <1>2, <1>3, <1>4 DEF Delivery!Deliver, Last

\* The same for the header in hdr, whose body has been taken in.
LEMMA AbsDeliverBody ==
    ASSUME JInv, hdr.k > 0, ~hdr.pkt.ctl, Pass(got, sent, hdr.k - 1),
           NEW r \in Delivery!Verdicts(hdr.pkt), Deliver(hdr, r), sent' = sent
    PROVE  Delivery!Deliver
<1>1. hdr \in Header /\ hdr.k <= Len(sent) /\ hdr.pkt = sent[hdr.k]
  BY Types DEF JInv, TrueHeader
<1> QED BY <1>1, AbsDeliver

\* And for a header just decoded: a message without a body.
LEMMA AbsDeliverHeader ==
    ASSUME JInv, NEW n \in Nat \ {0}, n <= Avail,
           At(sent, starts, hdr.k, rd + n - NBT), Pass(got, sent, hdr.k),
           NEW h \in Decode(rd + n - NBT), hdr' = h, sent' = sent, starts' = starts,
           ~h.pkt.ctl, NEW r \in Delivery!Verdicts(h.pkt), Deliver(h, r)
    PROVE  Delivery!Deliver
<1>1. /\ hdr' \in Header /\ hdr'.k \in Nat \ {0}
      /\ TrueHeader'
      /\ Pass(got, sent', hdr'.k - 1)
  BY NewHeader
<1>2. /\ h \in Header /\ h.k > 0 /\ h.k <= Len(sent) /\ h.pkt = sent[h.k]
      /\ Pass(got, sent, h.k - 1)
  BY <1>1 DEF TrueHeader
<1> QED BY <1>2, AbsDeliver

LEMMA VerdictFacts ==
    ASSUME NEW h \in Header
    PROVE  /\ "ok" \in Delivery!Verdicts(h.pkt) /\ "enomem" \in Delivery!Verdicts(h.pkt)
           /\ Parse(h) => \E r \in Delivery!Verdicts(h.pkt) : Deliver(h, r)
  BY DEF Delivery!Verdicts, Parse

LEMMA RecvAbs ==
    ASSUME JInv, NEW n \in 1 .. BufLeft(buf), RecvBytes(n)
    PROVE  Quiet \/ Delivery!Deliver
<1> USE DEF JInv
<1> DEFINE b == BufInc(buf, n)
<1>0. /\ rd \in Nat /\ NBT \in Nat \ {0} /\ buf.p \in Nat /\ buf.e \in Nat /\ n \in Nat \ {0}
      /\ n <= Avail /\ pc = "recv" /\ hdr \in Header
  BY Types DEF RecvBytes
<1>1. b.p = buf.p + n /\ b.e = buf.e
  BY <1>0
<1>2. /\ sent' = sent /\ starts' = starts
      /\ \/ UNCHANGED got
         \/ BufLeft(b) = 0 /\ BufLen(b) = NBT /\ \E h \in Decode(rd + n - NBT) : RecvHeader(b, h)
         \/ BufLeft(b) = 0 /\ BufLen(b) # NBT /\ RecvLast(b)
  BY DEF RecvBytes
<1> HIDE DEF b
<1>3. link # "dead" /\ NBT <= buf.e
  BY <1>0, Live DEF Shape
<1>4. ASSUME BufLeft(b) = 0, BufLen(b) = NBT, NEW h \in Decode(rd + n - NBT), RecvHeader(b, h)
      PROVE  Quiet \/ Delivery!Deliver
  <2>1. buf.e = NBT /\ rd - buf.p = rd + n - NBT
    BY <1>0, <1>1, <1>4
  <2>2. At(sent, starts, hdr.k, rd + n - NBT) /\ Pass(got, sent, hdr.k)
    BY <1>0, <1>3, <2>1 DEF Where
  <2>3. hdr' = h /\ (UNCHANGED got \/ (~h.pkt.ctl /\ Parse(h)))
    BY <1>4 DEF RecvHeader, RecvControl, RecvMessage
  <2>4. h \in Header
    BY <1>0, DecodeType
  <2>5. CASE ~h.pkt.ctl /\ Parse(h)
    <3>1. PICK r \in Delivery!Verdicts(h.pkt) : Deliver(h, r)
      BY <2>4, <2>5, VerdictFacts
    <3> QED BY <1>0, <1>2, <2>2, <2>3, <2>5, <3>1, AbsDeliverHeader
  <2> QED BY <1>2, <2>3, <2>5 DEF Quiet
<1>5. CASE BufLeft(b) = 0 /\ BufLen(b) # NBT /\ RecvLast(b)
  <2>1. buf.e > NBT
    BY <1>0, <1>1, <1>3, <1>5
  <2>2. hdr.k > 0 /\ ~hdr.pkt.ctl /\ Pass(got, sent, hdr.k - 1)
    BY <1>0, <1>3, <2>1 DEF Shape, Where
  <2>3. PICK r \in Delivery!Verdicts(hdr.pkt) : Deliver(hdr, r)
    BY <1>0, <1>5, VerdictFacts DEF RecvLast
  <2> QED BY <1>2, <2>2, <2>3, AbsDeliverBody
<1> QED BY <1>2, <1>4, <1>5 DEF Quiet

LEMMA SkipAbs ==
    ASSUME JInv, SkipByte \/ SkipBroken
    PROVE  Quiet \/ Delivery!Deliver
<1> USE DEF JInv
<1>1. sent' = sent /\ (UNCHANGED got \/ (pc = "raw_drain" /\ Deliver(hdr, "enomem")))
  BY DEF SkipByte, SkipBroken, AfterSkip
<1>2. CASE pc = "raw_drain" /\ Deliver(hdr, "enomem")
  <2>1. link # "dead"
    <3>1. CASE SkipByte
      <4>1. 1 <= Avail
        BY <3>1, Types DEF SkipByte, Avail
      <4> QED BY <4>1, Live
    <3>2. CASE SkipBroken
      BY <3>2 DEF SkipBroken, Broken
    <3> QED BY <3>1, <3>2
  <2>2. hdr.k > 0 /\ ~hdr.pkt.ctl /\ Pass(got, sent, hdr.k - 1) /\ hdr \in Header
    BY <1>2, <2>1, Types DEF Shape, Where
  <2> QED BY <1>1, <1>2, <2>2, AbsDeliverBody, VerdictFacts
<1> QED BY <1>1, <1>2 DEF Quiet

LEMMA RawAbs ==
    ASSUME JInv, RawHead \/ RawBody
    PROVE  Quiet \/ Delivery!Deliver
<1> USE DEF JInv
<1>1. ASSUME NEW n \in 1 .. left, RawHeadBytes(n) PROVE Quiet \/ Delivery!Deliver
  <2>0. /\ rd \in Nat /\ n \in Nat \ {0} /\ n <= Avail /\ pc = "raw_head"
        /\ sent' = sent /\ starts' = starts /\ NBT \in Nat \ {0}
    BY <1>1, Types DEF RawHeadBytes
  <2>1. ASSUME n = left, NEW h \in Decode(rd + n - NBT), hdr' = h, ~h.pkt.ctl, Deliver(h, "ok")
        PROVE  Delivery!Deliver
    <3>1. At(sent, starts, hdr.k, rd + n - NBT) /\ Pass(got, sent, hdr.k)
      BY <2>0, <2>1, Live DEF Where
    <3>2. "ok" \in Delivery!Verdicts(h.pkt)
      BY <2>0, DecodeType, VerdictFacts
    <3> QED BY <2>0, <2>1, <3>1, <3>2, AbsDeliverHeader
  <2> QED BY <1>1, <2>0, <2>1 DEF RawHeadBytes, RawControl, RawMessage, Quiet
<1>2. ASSUME NEW n \in 1 .. left, RawBodyBytes(n) PROVE Quiet \/ Delivery!Deliver
  <2>1. /\ sent' = sent /\ (UNCHANGED got \/ Deliver(hdr, "ok")) /\ pc = "raw_body"
        /\ n \in Nat \ {0} /\ n <= Avail /\ hdr \in Header
    BY <1>2, Types DEF RawBodyBytes
  <2>2. hdr.k > 0 /\ ~hdr.pkt.ctl /\ Pass(got, sent, hdr.k - 1)
    BY <2>1, Live DEF Shape, Where
  <2> QED BY <2>1, <2>2, AbsDeliverBody, VerdictFacts DEF Quiet
<1> QED BY <1>1, <1>2 DEF RawHead, RawBody

LEMMA PollAbs ==
    ASSUME JInv, NEW n \in 1 .. Avail, PollBytes(n)
    PROVE  Quiet \/ Delivery!Deliver
<1> USE DEF JInv
<1> DEFINE c == PollBuf
           b == BufInc(c, n)
<1>0. /\ rd \in Nat /\ arrived \in Nat /\ NBT \in Nat \ {0} /\ hdr \in Header
      /\ n \in Nat \ {0} /\ n <= Avail /\ CanPoll
  BY Types DEF PollBytes, Avail
<1>1. c.p \in Nat /\ c.e \in Nat /\ NBT <= c.e /\ (c.e > NBT => hdr.k > 0) /\ link # "dead"
  BY <1>0, PollPlace, Live
<1>2. b.p = c.p + n /\ b.e = c.e
  BY <1>0, <1>1
<1>3. /\ sent' = sent
      /\ UNCHANGED got \/ (BufLeft(b) = 0 /\ BufLen(b) # NBT /\ ~hdr.pkt.ctl /\ Deliver(hdr, "ok"))
  BY DEF PollBytes, Again, PollHeader, PollLast
<1>4. c.e # NBT => Pass(got, sent, hdr.k - 1)
  BY <1>0, <1>1, PollPlace
<1> HIDE DEF b, c
<1>5. CASE BufLeft(b) = 0 /\ BufLen(b) # NBT /\ ~hdr.pkt.ctl /\ Deliver(hdr, "ok")
  <2>1. c.e = c.p + n /\ c.p + n # NBT
    BY <1>0, <1>1, <1>2, <1>5
  <2>2. c.e > NBT /\ c.e # NBT
    BY <1>0, <1>1, <2>1
  <2> QED BY <1>0, <1>1, <1>3, <1>4, <1>5, <2>2, AbsDeliverBody, VerdictFacts
<1> QED BY <1>3, <1>5 DEF Quiet

LEMMA AbsStep == JInv /\ [Next]_vars => [Delivery!AbsNext]_(Delivery!absVars)
<1> SUFFICES ASSUME JInv, [Next]_vars PROVE Quiet \/ Delivery!AbsNext
  BY DEF Quiet, Delivery!absVars
<1>1. ASSUME NEW p \in Packets, PeerSend(p) PROVE Delivery!AbsNext
  BY <1>1 DEF PeerSend, Delivery!AbsNext, Delivery!Send
<1>2. CASE Arrive \/ PeerClose \/ Reset \/ RecvStart \/ (\E len \in RawSizes : RawStart(len))
           \/ PollEmpty \/ RecvBroken \/ RawBroken \/ PollBroken \/ UNCHANGED vars
  BY <1>2 DEF Arrive, PeerClose, Reset, RecvStart, RawStart, PollEmpty, Again, RecvBroken,
              RawBroken, PollBroken, vars, Quiet
<1>3. CASE RecvRead
  BY <1>3, RecvAbs DEF RecvRead, Delivery!AbsNext
<1>4. CASE SkipByte \/ SkipBroken
  BY <1>4, SkipAbs DEF Delivery!AbsNext
<1>5. CASE RawHead \/ RawBody
  BY <1>5, RawAbs DEF Delivery!AbsNext
<1>6. CASE PollRead
  BY <1>6, PollAbs DEF PollRead, Delivery!AbsNext
<1> QED BY <1>1, <1>2, <1>3, <1>4, <1>5, <1>6 DEF Next, Environment, Call, Run

\* The receive functions of transport.c implement PacketDelivery: session
\* messages come out in the order of sending, none lost, repeated or assembled
\* from the wrong bytes; a caller of cifs_recv_async may miss an empty one.
THEOREM DeliveryCorrect == Spec => DeliversInOrder
<1>1. Init => Delivery!AbsInit
  BY DEF Init, Delivery!AbsInit
<1> QED BY <1>1, AbsStep, JInvCorrect, PTL DEF Spec, DeliversInOrder, Delivery!AbsSpec

\* Without cifs_recv_async not even an empty message is lost.
THEOREM BlockingCorrect == ASSUME Async = FALSE PROVE Spec => LosesNothing
<1>1. Init => Strict!AbsInit
  BY DEF Init, Strict!AbsInit
<1>2. [Delivery!AbsNext]_(Delivery!absVars) => [Strict!AbsNext]_(Strict!absVars)
  BY DEF Delivery!AbsNext, Delivery!absVars, Strict!AbsNext, Strict!absVars, Delivery!Send,
         Strict!Send, Delivery!Deliver, Strict!Deliver, Delivery!MayPass, Strict!MayPass,
         Delivery!LastPkt, Strict!LastPkt, Delivery!Verdicts, Strict!Verdicts
<1> QED BY <1>1, <1>2, AbsStep, JInvCorrect, PTL DEF Spec, LosesNothing, Strict!AbsSpec
===============================================================================
