-------------------------------- MODULE Packet --------------------------------
(***************************************************************************)
(* The layout of the requests: cifs_packet_setup and cifs_packet_unparse   *)
(* (libcifs/transport.c), the writers of buffer.h and buffer.c, and the    *)
(* calls that write a request with them.                                   *)
(*                                                                         *)
(* A packet is [wc, off, b]: its words, the offset of its bytes in the     *)
(* buffer, and the buffer (NetBuf) of its bytes, whose cursor the writers  *)
(* move. Contents are left out: a string is its length in characters. A    *)
(* request is described by a record q, what it writes about itself by the  *)
(* record that it returns. A behaviour writes one of the requests.         *)
(***************************************************************************)
EXTENDS NetBuf

CONSTANTS
    MaxBuffer,  \* CIFS_MAX_BUFFER
    Requests    \* the requests that callers ask for

VARIABLE request    \* the request that was written, if any

Kinds ==
    {"negotiate", "setup", "tree", "disconnect", "open", "close", "readx", "readraw", "write",
     "mkdir", "rmdir", "unlink", "findfirst", "findnext", "findclose", "rap"}

\* Names and paths leave room for what goes with them: up to PATH_MAX each they leave
\* most of the buffer. cifscp writes 61440 bytes at a time at most.
Fits(q) ==
    /\ q.u \in BOOLEAN /\ q.n \in Nat /\ q.m \in Nat /\ q.max \in Nat
    /\ IF q.kind = "write" THEN q.n + 63 <= MaxBuffer ELSE 2 * (q.n + q.m) + 250 <= MaxBuffer

\* A packet states its sizes in two bytes.
ASSUME PacketAssumption ==
    /\ MaxBuffer \in Nat /\ MaxBuffer <= 65535
    /\ \A q \in Requests : q.kind \in Kinds /\ Fits(q)

Nbt     == 4            \* struct cifs_nbt_header_s
Header  == 37           \* struct cifs_header_s up to the first word

\* Bytes of the words of each request.
SessionSetupWords == 26
TreeConnectWords  == 8
TransactionWords  == 28
ReadxWords        == 24
ReadRawWords      == 20
WritexWords       == 28
CreatexWords      == 48
FindFirstBytes    == 12
FindNextBytes     == 12

PacketSetup(words) ==
    LET wc == (words + 1) \div 2
        off == Header + 2 * (wc + 1)
    IN  [wc |-> wc, off |-> off, b |-> BufNew(MaxBuffer + Nbt - off)]

\* cifs_packet_off_cur: where the cursor is, from the start of the SMB header.
OffCur(p) == p.off + BufLen(p.b) - Nbt

\* cifs_packet_unparse: the packet ends at the cursor. It states its size in two
\* bytes, and the number of its bytes in a word.
Size(p)         == p.off + BufLen(p.b) - Nbt
StatedSize(p)   == Size(p) % 65536
StatedBytes(p)  == BufLen(p.b) % 65536

\* cifs_write_byte and the like check nothing.
Put(p, n) == [p EXCEPT !.b = BufInc(@, n)]

\* cifs_write_oem, cifs_write_ucs: what does not fit is left out.
Width(u)      == IF u THEN 2 ELSE 1
Text(p, u, n) == IF Width(u) * n <= BufLeft(p.b) THEN Put(p, Width(u) * n) ELSE p
TextZ(p, u, n) == Put(Text(p, u, n), Width(u))

\* In Unicode a byte goes before a string that has to begin at an even place.
Pad(p, u) == IF u THEN Put(p, 1) ELSE p

\* What a request says about itself: its packet, where its strings begin, and the
\* offsets and counts of its parameters, data and name.
Plain(p) == [packet |-> p, strings |-> {}, param |-> <<OffCur(p), 0>>,
             data |-> <<OffCur(p), 0>>, name |-> 0, path |-> 0]
-------------------------------------------------------------------------------
(* The requests *)

\* "\x02NT LM 0.12"
NegotiateReq(q) == Plain(Put(PacketSetup(0), 12))

\* GUEST, an empty domain, LINUX, LIBCIFS. (A comment asks for the pad byte.)
SetupReq(q) ==
    LET p == PacketSetup(SessionSetupWords)
    IN  Plain(TextZ(TextZ(TextZ(TextZ(p, q.u, 5), q.u, 0), q.u, 5), q.u, 7))

\* \\host\share and the service
TreeReq(q) ==
    LET p == Pad(PacketSetup(TreeConnectWords), q.u)
        host == Text(Text(p, q.u, 2), q.u, q.m)
    IN  [Plain(Put(TextZ(Text(host, q.u, 1), q.u, q.n), 6)) EXCEPT !.strings = {OffCur(p)}]

NameLength(p, u) == IF u THEN BufLen(p.b) - 1 ELSE BufLen(p.b)

\* cifs_open
OpenReq(q) ==
    LET p == Pad(PacketSetup(CreatexWords), q.u)
        e == Text(p, q.u, q.n)
    IN  [Plain(e) EXCEPT !.strings = {OffCur(p)}, !.name = NameLength(e, q.u),
                         !.path = OffCur(e) - OffCur(p)]

CloseReq(q) == Plain(PacketSetup(6))
ReadxReq(q) == Plain(PacketSetup(ReadxWords))
ReadRawReq(q) == Plain(PacketSetup(ReadRawWords))
DisconnectReq(q) == Plain(PacketSetup(0))
FindCloseReq(q) == Plain(PacketSetup(2))

\* The count of a write is limited by the size of the server's packets.
WriteReq(q) ==
    LET count == IF q.n > q.max THEN q.max ELSE q.n
        p == PacketSetup(WritexWords)
    IN  [Plain(Put(p, count)) EXCEPT !.data = <<OffCur(p), count>>]

\* cifs_mkdir, cifs_rmdir, cifs_unlink: the byte 4 stands before the path.
PathReq(q, words) ==
    LET p == Put(PacketSetup(words), 1)
    IN  [Plain(TextZ(p, q.u, q.n)) EXCEPT !.strings = {OffCur(p)}]

\* cifs_trans_req: the words of a transaction, and a name if there is one.
TransReq(q, setup, name) ==
    LET p == PacketSetup(TransactionWords + 2 * setup)
        s == Pad(p, q.u)
        e == TextZ(s, q.u, name)
    IN  IF name = 0 THEN Plain(p) ELSE [Plain(e) EXCEPT !.strings = {OffCur(s)}]

FindFirstReq(q) ==
    LET r == TransReq(q, 1, 0)
        p == Text(Put(r.packet, FindFirstBytes), q.u, q.n)
        e == IF q.m = 0 THEN p ELSE Text(Text(p, q.u, 1), q.u, q.m)
        z == Put(e, Width(q.u))
    IN  [r EXCEPT !.packet = z, !.param = <<r.param[1], BufLen(z.b)>>]

FindNextReq(q) ==
    LET r == TransReq(q, 1, 0)
        p == Put(r.packet, FindNextBytes + 1)
    IN  [r EXCEPT !.packet = p, !.param = <<r.param[1], BufLen(p.b)>>]

\* Mutant of RapCount: counted as in the searches, whose transactions have no name.
RapCountFromStart(p, r) == BufLen(p.b)

RapCount(p, r) == OffCur(p) - r.param[1]

\* cifs_scannode: \PIPE\LANMAN; function, two descriptors, level, size, and for servers
\* the kind and the domain (n characters).
RapReq(q) ==
    LET r == TransReq(q, 0, 12)
        shares == Put(r.packet, 2 + 6 + 7 + 2 + 2)
        servers == Put(r.packet, 2 + 8 + 8 + 2 + 2 + 4 + q.n + 1)
        p == IF q.m = 0 THEN shares ELSE servers
    IN  [r EXCEPT !.packet = p, !.param = <<r.param[1], RapCount(p, r)>>]

RequestOf(q) ==
    CASE q.kind = "negotiate" -> NegotiateReq(q) [] q.kind = "setup" -> SetupReq(q)
      [] q.kind = "tree" -> TreeReq(q)           [] q.kind = "disconnect" -> DisconnectReq(q)
      [] q.kind = "open" -> OpenReq(q)           [] q.kind = "close" -> CloseReq(q)
      [] q.kind = "readx" -> ReadxReq(q)         [] q.kind = "readraw" -> ReadRawReq(q)
      [] q.kind = "write" -> WriteReq(q)
      [] q.kind \in {"mkdir", "rmdir"} -> PathReq(q, 0)
      [] q.kind = "unlink" -> PathReq(q, 2)
      [] q.kind = "findfirst" -> FindFirstReq(q) [] q.kind = "findnext" -> FindNextReq(q)
      [] q.kind = "findclose" -> FindCloseReq(q) [] q.kind = "rap" -> RapReq(q)

PacketInit == request = {}
WriteRequest == request = {} /\ \E q \in Requests : request' = {q}
PacketSpec == PacketInit /\ [][WriteRequest]_request
-------------------------------------------------------------------------------
\* A request q can be taken apart again with what it says: its sizes are not cut off,
\* the packet ends where they say and within its buffer, parameters and data lie
\* behind the words and reach to the end, the length of a name is that of the name.
\* In Unicode every string for which the code writes a pad byte begins at an even
\* place (the session setup has none, proto.c:49, nor have the searches). A write is
\* larger than the packets the server takes by no more than its words (proto.c:326).
WellFormed(q) ==
    LET r == RequestOf(q)
        p == r.packet
        first == Header + 2 * (p.wc + 1) - Nbt
    IN  /\ p.off + BufLen(p.b) <= MaxBuffer + Nbt
        /\ first + StatedBytes(p) = StatedSize(p)
        /\ \A part \in {r.param, r.data} :
              /\ part[1] >= first
              /\ part[2] > 0 => part[1] + part[2] = StatedSize(p)
        /\ r.name = r.path
        /\ q.u => \A s \in r.strings : s % 2 = 0
        /\ q.kind = "write" => StatedSize(p) <= q.max + first

\* Every request that the library writes can be taken apart with the sizes, offsets and
\* counts in it (the callers of cifs_packet_setup in proto.c, find.c and rap.c).
RequestsWellFormed == \A q \in request : WellFormed(q)
===============================================================================
