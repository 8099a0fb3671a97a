---------------------------- MODULE PacketDelivery ----------------------------
(***************************************************************************)
(* What the receive side of a connection promises its callers: the session *)
(* messages of the peer come out in the order in which the peer sent them, *)
(* each at most once and none missing.  Session control packets (NetBIOS   *)
(* types other than 0) are never handed to the caller.                     *)
(***************************************************************************)
EXTENDS Integers, Sequences

CONSTANTS
    Packets,    \* what a peer may send: records [ctl, size, good]
    LoseEmpty   \* whether a message without a body may be passed over

VARIABLES
    sent,       \* the packets of the peer, in the order of sending
    got         \* the results of the receive calls: [pkt |-> number, res |-> verdict]

absVars == <<sent, got>>

LastPkt(g) == IF g = <<>> THEN 0 ELSE g[Len(g)].pkt

\* A packet that no caller need ever see.
MayPass(p) == p.ctl \/ (LoseEmpty /\ p.size = 0)

\* Only a packet that does not parse is refused with EIO.
Verdicts(p) == {"ok", "enomem"} \cup (IF p.good THEN {} ELSE {"eio"})

AbsInit == sent = <<>> /\ got = <<>>

Send == /\ \E p \in Packets : sent' = Append(sent, p)
        /\ UNCHANGED got

Deliver ==
    \E k \in LastPkt(got)+1 .. Len(sent) :
        /\ ~sent[k].ctl
        /\ \A j \in LastPkt(got)+1 .. k-1 : MayPass(sent[j])
        /\ \E r \in Verdicts(sent[k]) : got' = Append(got, [pkt |-> k, res |-> r])
        /\ UNCHANGED sent

AbsNext == Send \/ Deliver

AbsSpec == AbsInit /\ [][AbsNext]_absVars
===============================================================================
