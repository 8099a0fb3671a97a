------------------------------- MODULE Transact -------------------------------
(***************************************************************************)
(* Transactions (libcifs/transact.c): cifs_trans_request sends a request   *)
(* and cifs_trans_recv puts the fragments of the reply together in three   *)
(* buffers that the caller uses again for the next transaction (findfirst  *)
(* and the findnexts after it).                                            *)
(*                                                                         *)
(* The connection below delivers packets in order and whole (Transport).   *)
(* A byte of a reply is the pair <<transaction, index>>; where in a packet *)
(* it travels is left out.                                                 *)
(***************************************************************************)
EXTENDS NetBuf, Sequences

CONSTANTS
    MaxSetup, MaxParam, MaxData,    \* sizes of the three buffers
    MaxFrags,                       \* bound on the fragments of one reply
    MaxTxn,                         \* bound on the transactions of one behaviour
    Ordered,                        \* whether servers send fragments in sequence
    SetupInParts                    \* whether a reply in several fragments has setup words

ASSUME TransactAssumption ==
    /\ MaxSetup \in Nat \ {0} /\ MaxParam \in Nat \ {0} /\ MaxData \in Nat \ {0}
    /\ MaxFrags \in Nat \ {0} /\ MaxTxn \in Nat
    /\ Ordered \in BOOLEAN /\ SetupInParts \in BOOLEAN

VARIABLES
    txn,        \* transactions requested so far
    asked,      \* the server has a request to answer
    reply,      \* what the server answered: its totals, or that it refused
    wire,       \* packets on their way to the client
    link,       \* "up" or "dead"
    setup, param, data,     \* t->setup, t->param, t->data
    pmem, dmem, \* the bytes in param and data
    pc,         \* "idle" or "recv"
    ret         \* how the last transaction ended: "none", "ok" or "error"

bufs == <<setup, param, data, pmem, dmem>>
vars == <<txn, asked, reply, wire, link, setup, param, data, pmem, dmem, pc, ret>>

Byte     == (0..MaxTxn) \X (0 .. MaxParam + MaxData)
NoByte   == <<0, 0>>
Fragment == [cmd : {"trans", "other"}, err : BOOLEAN, setup : Nat, txn : 0..MaxTxn, tp : Nat, td : Nat,
             pdis : Nat, pcnt : Nat, ddis : Nat, dcnt : Nat]

Init ==
    /\ txn = 0 /\ asked = FALSE /\ wire = <<>> /\ link = "up"
    /\ reply = [ok |-> FALSE, p |-> 0, d |-> 0]
    /\ setup = BufNew(MaxSetup) /\ param = BufNew(MaxParam) /\ data = BufNew(MaxData)
    /\ pmem = [i \in 0 .. MaxParam - 1 |-> NoByte]
    /\ dmem = [i \in 0 .. MaxData - 1 |-> NoByte]
    /\ pc = "idle" /\ ret = "none"
-------------------------------------------------------------------------------
(* The server *)

\* A division of a reply: how far its parameters and its data reach after each
\* fragment.  No fragment but a sole one is empty.
Plans ==
    {q \in UNION {[1..n -> [p : 0..MaxParam, d : 0..MaxData]] : n \in 1..MaxFrags} :
        \A i, j \in 1..Len(q) : i < j => q[i].p <= q[j].p /\ q[i].d <= q[j].d /\ q[i] # q[j]}

\* Totals are exact in the last fragment and may be estimates before it.
Piece(q, i, words, over) ==
    LET from == IF i = 1 THEN [p |-> 0, d |-> 0] ELSE q[i-1]
        last == q[Len(q)]
    IN  [cmd |-> "trans", err |-> FALSE, txn |-> txn, setup |-> words[i],
         tp |-> last.p,
         td |-> IF i < Len(q) /\ over /\ last.d < MaxData THEN last.d + 1 ELSE last.d,
         pdis |-> from.p, pcnt |-> q[i].p - from.p,
         ddis |-> from.d, dcnt |-> q[i].d - from.d]

\* The orders in which a server may send n fragments.
Orders(n) == {f \in [1..n -> 1..n] : /\ \A i, j \in 1..n : f[i] = f[j] => i = j
                                     /\ Ordered => \A i \in 1..n : f[i] = i}

\* The numbers of setup words in n fragments: in the first or in all of them.
SetupWords(n) ==
    {[i \in 1..n |-> IF i = 1 \/ all THEN w ELSE 0] :
        w \in IF n = 1 \/ SetupInParts THEN 0 .. MaxSetup \div 2 ELSE {0}, all \in BOOLEAN}

Answer ==
    /\ asked /\ asked' = FALSE
    /\ \E q \in Plans, over \in BOOLEAN :
       \E f \in Orders(Len(q)), words \in SetupWords(Len(q)) :
          /\ wire' = wire \o [i \in 1..Len(q) |-> Piece(q, f[i], words, over)]
          /\ reply' = [ok |-> TRUE, p |-> q[Len(q)].p, d |-> q[Len(q)].d]
    /\ UNCHANGED <<txn, link, setup, param, data, pmem, dmem, pc, ret>>

\* One packet that the client has to refuse: an error status, the reply of
\* another command, totals beyond what the request
\* allowed, bytes beyond the totals.
Nothing == [cmd |-> "trans", err |-> FALSE, txn |-> txn, setup |-> 0, tp |-> 0, td |-> 0,
            pdis |-> 0, pcnt |-> 0, ddis |-> 0, dcnt |-> 0]
Refusals == {[Nothing EXCEPT !.err = TRUE], [Nothing EXCEPT !.cmd = "other"],
             [Nothing EXCEPT !.tp = MaxParam + 1], [Nothing EXCEPT !.td = MaxData + 1],
             [Nothing EXCEPT !.setup = MaxSetup + 1],
             [Nothing EXCEPT !.tp = MaxParam, !.pdis = MaxParam, !.pcnt = 1],
             [Nothing EXCEPT !.td = MaxData, !.ddis = MaxData, !.dcnt = 1]}

Refuse ==
    /\ asked /\ asked' = FALSE
    /\ \E r \in Refusals : wire' = Append(wire, r)
    /\ reply' = [ok |-> FALSE, p |-> 0, d |-> 0]
    /\ UNCHANGED <<txn, link, setup, param, data, pmem, dmem, pc, ret>>
-------------------------------------------------------------------------------
(* The client *)

Finish(r) == pc' = "idle" /\ ret' = r

\* Mutant of Request: the buffers keep the size of the last reply.
RequestKeepsSizes ==
    /\ pc = "idle" /\ link = "up" /\ txn < MaxTxn
    /\ txn' = txn + 1 /\ asked' = TRUE
    /\ setup' = BufSet(setup, 0) /\ param' = BufSet(param, 0) /\ data' = BufSet(data, 0)
    /\ pc' = "recv"
    /\ UNCHANGED <<reply, wire, link, pmem, dmem, ret>>

\* cifs_trans_request, up to the first cifs_recv of cifs_trans_recv.
Request ==
    /\ pc = "idle" /\ link = "up" /\ txn < MaxTxn
    /\ txn' = txn + 1 /\ asked' = TRUE
    /\ setup' = BufSet(BufResize(setup, -1), 0)
    /\ param' = BufSet(BufResize(param, -1), 0)
    /\ data'  = BufSet(BufResize(data, -1), 0)
    /\ pc' = "recv"
    /\ UNCHANGED <<reply, wire, link, pmem, dmem, ret>>

\* cifs_recv reports that the connection is lost.
RecvFails ==
    /\ pc = "recv" /\ link' = "dead"
    /\ Finish("error")
    /\ UNCHANGED <<txn, asked, reply, wire, setup, param, data, pmem, dmem>>

\* The test at the head of the loop: a sizeable reply to a transaction.
Acceptable(f) ==
    /\ f.cmd = "trans" /\ ~f.err
    /\ f.setup * 2 <= BufLeft(setup)
    /\ f.tp <= BufSize(param)
    /\ f.td <= BufSize(data)

\* The part of one kind that a fragment carries is copied to its displacement,
\* and the buffer's cursor left behind it.
Copied(mem, from, dis, cnt) ==
    [i \in DOMAIN mem |-> IF i \in dis .. dis + cnt - 1 THEN <<from, i>> ELSE mem[i]]

\* Mutant of Moved: the displacement is forgotten.
MovedByCount(buf, dis, cnt) == IF cnt > 0 THEN BufSet(buf, cnt) ELSE buf

Moved(buf, dis, cnt) == IF cnt > 0 THEN BufSet(buf, dis + cnt) ELSE buf

\* Mutant of Outside: the offset is tested, the end is not.
OutsideByStart(buf, dis, cnt) == cnt > 0 /\ BufRange(buf, dis, 0)

Outside(buf, dis, cnt) == cnt > 0 /\ BufRange(buf, dis, cnt)

\* Mutants of Complete: one kind of byte decides.
CompleteByParam(p, d) == BufLeft(p) = 0
CompleteByEither(p, d) == BufLeft(p) = 0 \/ BufLeft(d) = 0

Complete(p, d) == BufLeft(p) = 0 /\ BufLeft(d) = 0

Rewound(buf) == BufSet(buf, 0)

\* The body of the loop for a packet that passes the test.
TakeFragment(f) ==
    LET p == BufResize(param, f.tp)
        d == BufResize(data, f.td)
        s == BufInc(BufResize(setup, f.setup * 2), f.setup * 2)
        p2 == Moved(p, f.pdis, f.pcnt)
        d2 == Moved(d, f.ddis, f.dcnt)
    IN  \/ /\ Outside(p, f.pdis, f.pcnt)
           /\ setup' = s /\ param' = p /\ data' = d /\ UNCHANGED <<pmem, dmem>>
           /\ Finish("error")
        \/ /\ ~Outside(p, f.pdis, f.pcnt) /\ Outside(d, f.ddis, f.dcnt)
           /\ pmem' = Copied(pmem, f.txn, f.pdis, f.pcnt)
           /\ setup' = s /\ param' = p2 /\ data' = d /\ UNCHANGED dmem
           /\ Finish("error")
        \/ /\ ~Outside(p, f.pdis, f.pcnt) /\ ~Outside(d, f.ddis, f.dcnt)
           /\ pmem' = Copied(pmem, f.txn, f.pdis, f.pcnt)
           /\ dmem' = Copied(dmem, f.txn, f.ddis, f.dcnt)
           /\ IF Complete(p2, d2)
              THEN /\ setup' = Rewound(s) /\ param' = Rewound(p2) /\ data' = Rewound(d2)
                   /\ Finish("ok")
              ELSE /\ setup' = s /\ param' = p2 /\ data' = d2
                   /\ UNCHANGED <<pc, ret>>

Receive ==
    /\ pc = "recv" /\ wire # <<>> /\ link = "up"
    /\ wire' = Tail(wire)
    /\ LET f == Head(wire) IN
        \/ ~Acceptable(f) /\ Finish("error") /\ UNCHANGED bufs
        \/ Acceptable(f) /\ TakeFragment(f)
    /\ UNCHANGED <<txn, asked, reply, link>>

Next == Answer \/ Refuse \/ Request \/ RecvFails \/ Receive

Spec == Init /\ [][Next]_vars

\* A server answers what it was asked, and a process in recv() wakes up.
FairSpec == Spec /\ WF_vars(Answer \/ Refuse) /\ WF_vars(Receive)
-------------------------------------------------------------------------------
(* Properties *)

TypeOK ==
    /\ txn \in 0..MaxTxn /\ asked \in BOOLEAN /\ link \in {"up", "dead"}
    /\ reply \in [ok : BOOLEAN, p : 0..MaxParam, d : 0..MaxData]
    /\ wire \in Seq(Fragment)
    /\ setup \in [p : Nat, e : Nat, x : {MaxSetup}] /\ setup.p <= setup.x /\ setup.e <= setup.x
    /\ param \in [p : Nat, e : Nat, x : {MaxParam}] /\ param.p <= param.x /\ param.e <= param.x
    /\ data \in [p : Nat, e : Nat, x : {MaxData}] /\ data.p <= data.x /\ data.e <= data.x
    /\ pmem \in [0 .. MaxParam - 1 -> Byte] /\ dmem \in [0 .. MaxData - 1 -> Byte]
    /\ pc \in {"idle", "recv"} /\ ret \in {"none", "ok", "error"}

Holds(mem, buf, total) == BufSize(buf) = total /\ \A i \in 0 .. total - 1 : mem[i] = <<txn, i>>

\* cifs_trans_recv returns 0 only with the whole reply to this very request: all
\* bytes that the server announced, each at its place, none left over from the
\* transaction before.
ReplyWhole == pc = "idle" /\ ret = "ok" =>
                  reply.ok /\ Holds(pmem, param, reply.p) /\ Holds(dmem, data, reply.d)

\* Between two transactions no fragment is left in the connection, where the
\* next request would take it for its own reply: replies carry no identity that
\* the client looks at (transact.c:82).
InSync == pc = "idle" /\ link = "up" => wire = <<>> /\ ~asked

\* A reply that keeps to the limits of the request is not refused while the link
\* holds.
Accepted == pc = "idle" /\ ret = "error" /\ link = "up" => ~reply.ok

\* A transaction comes to an end: the loop recognises the last fragment, however
\* the server divided its reply and whatever its first totals were.
Answered == pc = "recv" ~> pc = "idle"
===============================================================================
