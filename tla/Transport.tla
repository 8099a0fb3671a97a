------------------------------ MODULE Transport ------------------------------
(***************************************************************************)
(* The receive side of libcifs/transport.c: cifs_recv, cifs_recv_raw and   *)
(* cifs_recv_async take NetBIOS packets out of the TCP byte stream of one  *)
(* connection.  An action is one recv() of the code with everything the    *)
(* code does before its next recv().                                       *)
(*                                                                         *)
(* The stream is given by the packets the peer sent and the positions      *)
(* where they start; a byte is its position.  recv() may return fewer      *)
(* bytes than were asked for, also with MSG_WAITALL (end of stream, job    *)
(* control).  At the end of the stream it returns 0 and every loop of this *)
(* file tries again: that is a stuttering step.                            *)
(***************************************************************************)
EXTENDS NetBuf, Sequences

CONSTANTS
    NBT,        \* bytes of a NetBIOS header: 4 in the code
    MaxLen,     \* the largest length a header can state: 2^16 - 1
    Packets,    \* the packets the peer may send: [ctl, size, good]
    RawSizes,   \* the buffer lengths callers give to cifs_recv_raw
    Async,      \* whether callers also use cifs_recv_async
    MaxSent     \* bound on the packets of one behaviour

Packet == [ctl : BOOLEAN, size : 0..MaxLen, good : BOOLEAN]

ASSUME TransportAssumption ==
    /\ NBT \in Nat \ {0}
    /\ MaxLen \in Nat
    /\ Packets \subseteq Packet
    /\ RawSizes \subseteq Nat
    /\ Async \in BOOLEAN
    /\ MaxSent \in Nat

VARIABLES
    sent,       \* packets written by the peer
    starts,     \* starts[k] is the position of packet k; the last entry is the end
    arrived,    \* bytes that have reached the socket's receive queue
    link,       \* "up", "fin" (closed by the peer), "rst" (error pending), "dead"
    rd,         \* bytes taken out of the socket
    buf,        \* c->i->p
    hdr,        \* the header decoded last: [k |-> packet number, pkt |-> its fields]
    left,       \* bytes left of what is read outside buf: a raw header, a body, a skip
    room,       \* the buffer length given to cifs_recv_raw
    pc,         \* where the caller is
    ret,        \* how the last call ended
    got         \* the packets that ended a call, with its verdict


vars   == <<sent, starts, arrived, link, rd, buf, hdr, left, room, pc, ret, got>>

PCs == {"idle", "recv", "recv_skip", "poll", "raw_head", "raw_skip", "raw_body", "raw_drain"}
Rets == {"none", "ok", "eio", "enomem", "again", "error"}
Header == [k : Nat, pkt : Packet]
Result == [pkt : Nat, res : Rets]
Buffer == [p : Nat, e : Nat, x : {MaxLen + NBT}]
NoHeader == [k |-> 0, pkt |-> [ctl |-> TRUE, size |-> 0, good |-> FALSE]]

End   == starts[Len(starts)]
Avail == arrived - rd

\* recv() finds the queue empty and reports the pending error, once.
Broken == link = "rst" /\ Avail = 0

\* The header that stands at a position.  Away from the start of a packet the
\* four bytes are payload, and say anything.
Decode(pos) ==
    LET here == {k \in 1..Len(sent) : starts[k] = pos}
    IN  IF here # {}
        THEN {[k |-> k, pkt |-> sent[k]] : k \in here}
        ELSE [k : {0}, pkt : Packet]

Init ==
    /\ sent = <<>> /\ starts = <<0>> /\ arrived = 0 /\ link = "up" /\ rd = 0
    /\ buf = BufNew(MaxLen + NBT) /\ hdr = NoHeader /\ left = 0 /\ room = 0
    /\ pc = "idle" /\ ret = "none" /\ got = <<>>
------------------------------------------------------------------------------
(* The peer and the network *)

PeerSend(p) ==
    /\ link = "up" /\ Len(sent) < MaxSent
    /\ sent' = Append(sent, p)
    /\ starts' = Append(starts, End + NBT + p.size)
    /\ UNCHANGED <<arrived, link, rd, buf, hdr, left, room, pc, ret, got>>

Arrive ==
    /\ link \in {"up", "fin"}
    /\ \E n \in arrived + 1 .. End : arrived' = n
    /\ UNCHANGED <<sent, starts, link, rd, buf, hdr, left, room, pc, ret, got>>

PeerClose ==
    /\ link = "up" /\ link' = "fin"
    /\ UNCHANGED <<sent, starts, arrived, rd, buf, hdr, left, room, pc, ret, got>>

\* What has not arrived is lost; what is queued can still be read.
Reset ==
    /\ link \in {"up", "fin"} /\ link' = "rst"
    /\ UNCHANGED <<sent, starts, arrived, rd, buf, hdr, left, room, pc, ret, got>>
------------------------------------------------------------------------------
(* Ends of a call *)

Return(r) == pc' = "idle" /\ ret' = r
Stay      == UNCHANGED <<pc, ret>>
GoTo(l)   == pc' = l /\ UNCHANGED ret

\* The call ends with packet h: it is the caller's now, or thrown away.
Deliver(h, r) == /\ Return(r)
                 /\ got' = Append(got, [pkt |-> h.k, res |-> r])

\* cifs_packet_parse at the end of cifs_recv.
Parse(h) == Deliver(h, IF h.pkt.good THEN "ok" ELSE "eio")
------------------------------------------------------------------------------
(* cifs_recv *)

\* Mutant of RecvStart: the cursor is not set back to the start.
RecvStartKeepsCursor ==
    /\ pc = "idle"
    /\ buf' = BufResize(buf, NBT)
    /\ GoTo("recv")
    /\ UNCHANGED <<sent, starts, arrived, link, rd, hdr, left, room, got>>

RecvStart ==
    /\ pc = "idle"
    /\ buf' = BufSet(BufResize(buf, NBT), 0)
    /\ GoTo("recv")
    /\ UNCHANGED <<sent, starts, arrived, link, rd, hdr, left, room, got>>

\* Mutant of RecvControl: the buffer does not start over.
RecvControlKeepsHeader(h, b) ==
    /\ h.pkt.ctl
    /\ buf' = b
    /\ left' = h.pkt.size
    /\ IF h.pkt.size > 0 THEN GoTo("recv_skip") ELSE Stay
    /\ UNCHANGED got

\* The header of a control packet: its body is skipped, the buffer starts over.
RecvControl(h, b) ==
    /\ h.pkt.ctl
    /\ buf' = BufSet(b, 0)
    /\ left' = h.pkt.size
    /\ IF h.pkt.size > 0 THEN GoTo("recv_skip") ELSE Stay
    /\ UNCHANGED got

\* The header of a message: the buffer is resized to hold all of it.
RecvMessage(h, b) ==
    /\ ~h.pkt.ctl
    /\ buf' = BufResize(b, NBT + h.pkt.size)
    /\ UNCHANGED left
    /\ IF BufFits(b, NBT + h.pkt.size)
       THEN \/ h.pkt.size = 0 /\ Parse(h)
            \/ h.pkt.size > 0 /\ Stay /\ UNCHANGED got
       ELSE Return("enomem") /\ UNCHANGED got

\* The two moments at which the loop of cifs_recv has read all it asked for.
RecvHeader(b, h) == hdr' = h /\ (RecvControl(h, b) \/ RecvMessage(h, b))
RecvLast(b)      == buf' = b /\ Parse(hdr) /\ UNCHANGED <<hdr, left>>

RecvBytes(n) ==
    LET b == BufInc(buf, n) IN
    /\ pc = "recv" /\ n <= Avail
    /\ rd' = rd + n
    /\ \/ BufLeft(b) > 0 /\ buf' = b /\ Stay /\ UNCHANGED <<hdr, left, got>>
       \/ BufLeft(b) = 0 /\ BufLen(b) = NBT /\ \E h \in Decode(rd + n - NBT) : RecvHeader(b, h)
       \/ BufLeft(b) = 0 /\ BufLen(b) # NBT /\ RecvLast(b)
    /\ UNCHANGED <<sent, starts, arrived, link, room>>

RecvRead == \E n \in 1 .. BufLeft(buf) : RecvBytes(n)

RecvBroken ==
    /\ pc = "recv" /\ Broken
    /\ link' = "dead"
    /\ Return("error")
    /\ UNCHANGED <<sent, starts, arrived, rd, buf, hdr, left, room, got>>
------------------------------------------------------------------------------
(* cifs_recv_skip_sock, one byte at a time.  No caller looks at its result. *)

\* Mutant of AfterSkip: cifs_recv_size does not count a new header.
AfterSkipNoHeader ==
    \/ pc = "recv_skip" /\ GoTo("recv") /\ left' = 0 /\ UNCHANGED got
    \/ pc = "raw_skip"  /\ GoTo("raw_head") /\ left' = 0 /\ UNCHANGED got
    \/ pc = "raw_drain" /\ Deliver(hdr, "enomem") /\ left' = 0

AfterSkip ==
    \/ pc = "recv_skip" /\ GoTo("recv") /\ left' = 0 /\ UNCHANGED got
    \/ pc = "raw_skip"  /\ GoTo("raw_head") /\ left' = NBT /\ UNCHANGED got
    \/ pc = "raw_drain" /\ Deliver(hdr, "enomem") /\ left' = 0

\* Mutant of SkipByte: the loop runs once too often.
SkipByteTooMany ==
    /\ pc \in {"recv_skip", "raw_skip", "raw_drain"}
    /\ Avail > 0
    /\ rd' = rd + 1
    /\ IF left > 0 THEN left' = left - 1 /\ Stay /\ UNCHANGED got ELSE AfterSkip
    /\ UNCHANGED <<sent, starts, arrived, link, buf, hdr, room>>

SkipByte ==
    /\ pc \in {"recv_skip", "raw_skip", "raw_drain"}
    /\ Avail > 0
    /\ rd' = rd + 1
    /\ IF left > 1 THEN left' = left - 1 /\ Stay /\ UNCHANGED got ELSE AfterSkip
    /\ UNCHANGED <<sent, starts, arrived, link, buf, hdr, room>>

SkipBroken ==
    /\ pc \in {"recv_skip", "raw_skip", "raw_drain"} /\ Broken
    /\ link' = "dead"
    /\ AfterSkip
    /\ UNCHANGED <<sent, starts, arrived, rd, buf, hdr, room>>
------------------------------------------------------------------------------
(* cifs_recv_raw and cifs_recv_size *)

RawStart(len) ==
    /\ pc = "idle"
    /\ room' = len /\ left' = NBT
    /\ GoTo("raw_head")
    /\ UNCHANGED <<sent, starts, arrived, link, rd, buf, hdr, got>>

RawControl(h) ==
    /\ h.pkt.ctl
    /\ \/ h.pkt.size = 0 /\ left' = NBT /\ Stay
       \/ h.pkt.size > 0 /\ left' = h.pkt.size /\ GoTo("raw_skip")
    /\ UNCHANGED got

\* Mutant of RawMessage: a message that is too long is passed over.
RawMessageSkips(h) ==
    /\ ~h.pkt.ctl
    /\ left' = h.pkt.size
    /\ \/ h.pkt.size > room /\ GoTo("raw_skip") /\ UNCHANGED got
       \/ h.pkt.size <= room /\ h.pkt.size > 0 /\ GoTo("raw_body") /\ UNCHANGED got
       \/ h.pkt.size = 0 /\ Deliver(h, "ok")

RawMessage(h) ==
    /\ ~h.pkt.ctl
    /\ left' = h.pkt.size
    /\ \/ h.pkt.size > room /\ GoTo("raw_drain") /\ UNCHANGED got
       \/ h.pkt.size <= room /\ h.pkt.size > 0 /\ GoTo("raw_body") /\ UNCHANGED got
       \/ h.pkt.size = 0 /\ Deliver(h, "ok")

RawHeadBytes(n) ==
    /\ pc = "raw_head" /\ n <= Avail
    /\ rd' = rd + n
    /\ \/ n < left /\ left' = left - n /\ Stay /\ UNCHANGED <<hdr, got>>
       \/ n = left /\ \E h \in Decode(rd + n - NBT) :
                         hdr' = h /\ (RawControl(h) \/ RawMessage(h))
    /\ UNCHANGED <<sent, starts, arrived, link, buf, room>>

RawHead == \E n \in 1 .. left : RawHeadBytes(n)

RawBodyBytes(n) ==
    /\ pc = "raw_body" /\ n <= Avail
    /\ rd' = rd + n /\ left' = left - n
    /\ IF n < left THEN Stay /\ UNCHANGED got ELSE Deliver(hdr, "ok")
    /\ UNCHANGED <<sent, starts, arrived, link, buf, hdr, room>>

RawBody == \E n \in 1 .. left : RawBodyBytes(n)

RawBroken ==
    /\ pc \in {"raw_head", "raw_body"} /\ Broken
    /\ link' = "dead"
    /\ Return("error")
    /\ UNCHANGED <<sent, starts, arrived, rd, buf, hdr, left, room, got>>
------------------------------------------------------------------------------
(* cifs_recv_async.  A caller that has begun to poll for a packet polls     *)
(* until it is complete, and polls first when the buffer is used up: a      *)
(* fresh connection's is not.                                               *)

CanPoll == Async /\ (pc = "poll" \/ (pc = "idle" /\ BufLeft(buf) = 0))

PollBuf == IF BufLeft(buf) = 0 THEN BufSet(BufResize(buf, NBT), 0) ELSE buf

Again(l) == pc' = l /\ ret' = "again" /\ UNCHANGED got

PollEmpty ==
    /\ CanPoll /\ Avail = 0 /\ link # "rst"
    /\ buf' = PollBuf
    /\ Again("poll")
    /\ UNCHANGED <<sent, starts, arrived, link, rd, hdr, left, room>>

\* The header is complete: make room for the body and ask to be called again.
PollHeader(h, b) ==
    /\ buf' = BufResize(b, NBT + h.pkt.size)
    /\ IF BufFits(b, NBT + h.pkt.size)
       THEN Again(IF h.pkt.size > 0 THEN "poll" ELSE "idle")
       ELSE Return("enomem") /\ UNCHANGED got

\* Mutant of PollLast: a control packet is handed to the caller.
PollLastDeliversAll(b) == buf' = b /\ UNCHANGED hdr /\ Deliver(hdr, "ok")

PollLast(b) == /\ buf' = b /\ UNCHANGED hdr
               /\ IF hdr.pkt.ctl THEN Again("idle") ELSE Deliver(hdr, "ok")

\* MSG_DONTWAIT takes what is there, up to what was asked for.
PollBytes(n) ==
    LET b == BufInc(PollBuf, n) IN
    /\ CanPoll /\ n > 0 /\ n \in {Avail, BufLeft(PollBuf)}
    /\ n <= Avail /\ n <= BufLeft(PollBuf)
    /\ rd' = rd + n
    /\ \/ BufLeft(b) > 0 /\ buf' = b /\ Again("poll") /\ UNCHANGED hdr
       \/ BufLeft(b) = 0 /\ BufLen(b) = NBT /\ \E h \in Decode(rd + n - NBT) :
                                                   hdr' = h /\ PollHeader(h, b)
       \/ BufLeft(b) = 0 /\ BufLen(b) # NBT /\ PollLast(b)
    /\ UNCHANGED <<sent, starts, arrived, link, left, room>>

PollRead == \E n \in 1 .. Avail : PollBytes(n)

PollBroken ==
    /\ CanPoll /\ Broken
    /\ link' = "dead"
    /\ buf' = PollBuf
    /\ Return("error")
    /\ UNCHANGED <<sent, starts, arrived, rd, hdr, left, room, got>>
------------------------------------------------------------------------------
Environment == (\E p \in Packets : PeerSend(p)) \/ Arrive \/ PeerClose \/ Reset

\* The caller chooses what to call; the rest is the code running.
Call == RecvStart \/ (\E len \in RawSizes : RawStart(len)) \/ PollEmpty
Run  == \/ RecvRead \/ RecvBroken \/ SkipByte \/ SkipBroken
        \/ RawHead \/ RawBody \/ RawBroken \/ PollRead \/ PollBroken

Next == Environment \/ Call \/ Run

Spec == Init /\ [][Next]_vars

\* TCP delivers what was sent, and a process in recv() wakes up when bytes are
\* there.  Nothing obliges the peer to send or the caller to call; a caller in
\* the middle of a packet goes on polling.
FairSpec == Spec /\ WF_vars(Arrive) /\ WF_vars(Run)
------------------------------------------------------------------------------
(* Properties *)

\* The type invariant.  The cursor of the buffer stays inside the buffer, and
\* the buffer inside its allocation: no recv() writes past it.
TypeOK ==
    /\ sent \in Seq(Packets)
    /\ starts \in Seq(Nat) /\ Len(starts) = Len(sent) + 1
    /\ arrived \in Nat /\ rd \in Nat /\ rd <= arrived /\ arrived <= End
    /\ link \in {"up", "fin", "rst", "dead"}
    /\ buf \in Buffer
    /\ buf.p <= buf.e /\ buf.e <= buf.x
    /\ hdr \in Header
    /\ left \in Nat /\ room \in Nat
    /\ pc \in PCs /\ ret \in Rets
    /\ got \in Seq(Result)

\* A message is being read: its header is decoded, its body is not complete.
InBody == pc \in {"raw_body", "raw_drain"} \/ (pc \in {"recv", "poll"} /\ buf.e > NBT)

\* The number of packets the code has dealt with.
Dealt == IF InBody THEN hdr.k - 1 ELSE hdr.k

\* Where the packet after hdr begins if the code is where it believes to be.
Boundary == CASE pc = "idle"              -> rd
              [] pc \in {"recv", "poll"}  -> IF InBody THEN rd + BufLeft(buf)
                                                       ELSE rd - BufLen(buf)
              [] pc = "raw_head"          -> rd + left - NBT
              [] OTHER                    -> rd + left

\* Framing (cifs_recv, cifs_recv_size, cifs_recv_async): as long as the link has
\* not failed, the next byte to be read is exactly where the code believes it to
\* be in the packet after the last one it has dealt with, whatever mixture of
\* calls, short reads and control packets went before.
Framed == link # "dead" => hdr.k <= Len(sent) /\ starts[hdr.k + 1] = Boundary

\* The receive functions implement PacketDelivery: no message is lost, repeated
\* or taken out of order, and none is assembled from the wrong bytes.  Only a
\* caller of cifs_recv_async can miss a message without a body.
Delivery == INSTANCE PacketDelivery WITH LoseEmpty <- Async
DeliversInOrder == Delivery!AbsSpec

\* The same promise with no exception for empty messages.
Strict == INSTANCE PacketDelivery WITH LoseEmpty <- FALSE
LosesNothing == Strict!AbsSpec

\* A caller blocked in cifs_recv or cifs_recv_raw, or polling, gets an answer
\* once the peer has sent a message after the packets already dealt with: no
\* mixture of control packets and short reads leaves it waiting for good.
MessageAhead == \E k \in 1..Len(sent) :
                    /\ k > Dealt
                    /\ ~sent[k].ctl /\ sent[k].size > 0
Answered == (pc # "idle" /\ MessageAhead) ~> (pc = "idle" \/ link \in {"rst", "dead"})
------------------------------------------------------------------------------
(* The inductive invariant behind Framed and DeliversInOrder *)

\* Packets occupy the stream one after the other.
Layout ==
    /\ starts[1] = 0
    /\ \A k \in 1..Len(sent) : starts[k + 1] = starts[k] + NBT + sent[k].size
    /\ \A i, j \in 1..Len(starts) : i < j => starts[i] < starts[j]

\* hdr is the header of a packet of the peer, never payload taken for a header.
TrueHeader == /\ hdr.k <= Len(sent)
              /\ hdr.k > 0 => hdr.pkt = sent[hdr.k]

\* What the place in the code says about its variables.
Shape ==
    /\ link = "dead" => rd = arrived
    /\ pc = "poll" => Async
    /\ pc \in {"recv", "poll"} =>
          /\ buf.p < buf.e /\ NBT <= buf.e
          /\ buf.e > NBT => /\ buf.e = NBT + hdr.pkt.size
                            /\ hdr.k > 0
                            /\ pc = "recv" => ~hdr.pkt.ctl
    /\ pc = "recv_skip" => buf.p = 0 /\ buf.e = NBT
    /\ pc = "raw_head" => left \in 1..NBT
    /\ pc \in {"recv_skip", "raw_skip", "raw_body", "raw_drain"} => left > 0 /\ hdr.k > 0
    /\ pc \in {"recv_skip", "raw_skip"} => hdr.pkt.ctl
    /\ pc \in {"raw_body", "raw_drain"} => ~hdr.pkt.ctl

\* What was dealt with since the last delivery need not be delivered.
Passed == link # "dead" =>
             /\ Delivery!LastPkt(got) <= Dealt
             /\ \A j \in Delivery!LastPkt(got)+1 .. Dealt : Delivery!MayPass(sent[j])

IInv == TypeOK /\ Layout /\ TrueHeader /\ Shape /\ Framed /\ Passed
==============================================================================
