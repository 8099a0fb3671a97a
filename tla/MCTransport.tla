----------------------------- MODULE MCTransport -----------------------------
(* Instances of Transport for TLC: a two-byte header, messages without a    *)
(* body, well-formed and malformed ones, control packets with and without a *)
(* body, and raw buffers that hold all, some and none of the messages.      *)
EXTENDS Transport

Pkt(c, s, g) == [ctl |-> c, size |-> s, good |-> g]

MCPackets == {Pkt(TRUE, 0, FALSE), Pkt(TRUE, 1, FALSE),
              Pkt(FALSE, 0, FALSE), Pkt(FALSE, 2, TRUE)}
------------------------------------------------------------------------------
\* In a part of the behaviours the caller never calls cifs_recv_async: he blocks.
VARIABLE blocking

Polls == PollEmpty \/ PollRead \/ PollBroken
OfCaller(A) == A /\ (blocking => ~Polls)
CallerInit == Init /\ blocking \in BOOLEAN
CallerNext == OfCaller(Next) /\ UNCHANGED blocking

CallerSpec ==
    /\ CallerInit /\ [][CallerNext]_<<vars, blocking>>
    /\ WF_vars(Arrive) /\ WF_vars(OfCaller(Run))

\* LosesNothing for callers of cifs_recv and cifs_recv_raw: each step that delivers a
\* message delivers the next one, also when the one before was too large for its raw
\* buffer, or has no body. (Nothing is sent or delivered in the beginning: Init.)
BlockingLosesNothing == [][blocking => Strict!AbsNext]_<<sent, got>>
==============================================================================
