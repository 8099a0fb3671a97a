-------------------------------- MODULE Upload --------------------------------
(***************************************************************************)
(* cifs_upload_file (cifscp.c) with cifs_open, cifs_write and cifs_close   *)
(* (libcifs/proto.c): a local file is copied to a remote one, from the     *)
(* size that the remote file has.  The process may be killed, or lose its  *)
(* connection, anywhere, and be started again; a write that the server has *)
(* received by then may take effect at any later time, or never.           *)
(*                                                                         *)
(* A byte of the remote file is the position of the local byte it was read *)
(* from; 0 is the zero that fills a gap.                                   *)
(***************************************************************************)
EXTENDS Integers, Sequences

CONSTANTS
    MaxSize,    \* bound on the size of the local file
    Chunk,      \* what is read at a time: 60K
    MaxWrite,   \* max_buffer_size of the connection
    Fids,       \* the handles servers give out
    Shrinks,    \* whether the local file may lose its end
    HardErrors, \* whether the server may answer with the error class ERRHRD
    MaxStalls,  \* bound on the answers that write nothing, in one behaviour
    MaxRuns     \* bound on the invocations in one behaviour

ASSUME UploadAssumption ==
    /\ MaxSize \in Nat /\ MaxStalls \in Nat /\ MaxRuns \in Nat
    /\ Chunk \in Nat \ {0} /\ MaxWrite \in Nat \ {0}
    /\ Shrinks \in BOOLEAN /\ HardErrors \in BOOLEAN
    /\ Fids \subseteq Nat

VARIABLES
    lsize,      \* the size of the local file
    remote,     \* the remote file
    late,       \* writes received by the server whose client is gone
    handles,    \* the handles that the server holds open for this connection
    fid, st, size, off, rem, \* locals; st is st.file_size
    req,        \* the write that is being requested: [off, len]
    count,      \* res->count of the last reply to a write; -1 before the first
    pc,         \* "off", "open", "local", "loop", "sent", "fail", "done"
    ret,        \* what the function returned: "none", "ok" or "error"
    runs, stalls

vars == <<lsize, remote, late, handles, fid, st, size, off, rem, req, count, pc, ret, runs, stalls>>
locals == <<fid, st, size, off, rem>>

Least(a, b) == IF a <= b THEN a ELSE b

\* A file after n bytes were written at an offset.
Overlay(file, at, n) ==
    [i \in 1 .. (IF n = 0 \/ at + n < Len(file) THEN Len(file) ELSE at + n) |->
        IF i \in at + 1 .. at + n THEN i ELSE IF i <= Len(file) THEN file[i] ELSE 0]

Init ==
    /\ lsize \in 0..MaxSize /\ remote = <<>> /\ late = {} /\ handles = {}
    /\ fid = -1 /\ st = 0 /\ size = 0 /\ off = 0 /\ rem = 0
    /\ req = [off |-> 0, len |-> 0] /\ count = -1
    /\ pc = "off" /\ ret = "none" /\ runs = 0 /\ stalls = 0
-------------------------------------------------------------------------------
(* The outside *)

Shrink ==
    /\ Shrinks /\ lsize > 0 /\ lsize' \in 0 .. lsize - 1
    /\ UNCHANGED <<remote, late, handles, locals, req, count, pc, ret, runs, stalls>>

Start ==
    /\ pc \in {"off", "done"} /\ runs < MaxRuns
    /\ runs' = runs + 1 /\ pc' = "open" /\ handles' = {} /\ count' = -1
    /\ UNCHANGED <<lsize, remote, late, locals, req, ret, stalls>>

\* A request that was sent and not answered stays with the server.
Kill ==
    /\ pc \notin {"off", "done"}
    /\ pc' = "off" /\ handles' = {}
    /\ late' = IF pc = "sent" THEN late \cup {req} ELSE late
    /\ UNCHANGED <<lsize, remote, locals, req, count, ret, runs, stalls>>

LateWrite ==
    /\ \E r \in late :
        /\ late' = late \ {r}
        /\ \E n \in 0..r.len : remote' = Overlay(remote, r.off, n)
    /\ UNCHANGED <<lsize, handles, locals, req, count, pc, ret, runs, stalls>>
-------------------------------------------------------------------------------
(* The function *)

Open ==
    /\ pc = "open" /\ ret' = "none"
    /\ \/ \E f \in Fids :
            fid' = f /\ handles' = {f} /\ st' = Len(remote) /\ pc' = "local"
       \/ fid' = -1 /\ pc' = "fail" /\ UNCHANGED <<handles, st>>
    /\ UNCHANGED <<lsize, remote, late, size, off, rem, req, count, runs, stalls>>

\* Mutant of OpenLocal: what the remote file has is not taken off rem.
OpenLocalWholeFile ==
    /\ pc = "local"
    /\ \/ size' = lsize /\ off' = st /\ rem' = lsize /\ pc' = "loop"
       \/ pc' = "fail" /\ UNCHANGED <<size, off, rem>>
    /\ UNCHANGED <<lsize, remote, late, handles, fid, st, req, count, ret, runs, stalls>>

OpenLocal ==
    /\ pc = "local"
    /\ \/ size' = lsize /\ off' = st /\ rem' = lsize - st /\ pc' = "loop"
       \/ pc' = "fail" /\ UNCHANGED <<size, off, rem>>
    /\ UNCHANGED <<lsize, remote, late, handles, fid, st, req, count, ret, runs, stalls>>

\* Mutant of Send: room for the headers is taken off the length, not the limit.
SendLessHeaders ==
    /\ pc = "loop" /\ rem > 0
    /\ LET here == IF lsize > off THEN lsize - off ELSE 0
       IN  req' = [off |-> off, len |-> Least(Least(Least(rem, Chunk), here), MaxWrite) - 2]
    /\ pc' = "sent"
    /\ UNCHANGED <<lsize, remote, late, handles, locals, count, ret, runs, stalls>>

\* pread and the request of cifs_write_andx.  Past the end of the local file
\* pread returns 0, and the request writes nothing.
Send ==
    /\ pc = "loop" /\ rem > 0
    /\ LET here == IF lsize > off THEN lsize - off ELSE 0
       IN  req' = [off |-> off, len |-> Least(Least(Least(rem, Chunk), here), MaxWrite)]
    /\ pc' = "sent"
    /\ UNCHANGED <<lsize, remote, late, handles, locals, count, ret, runs, stalls>>

ReadFails ==
    /\ pc = "loop" /\ rem > 0 /\ pc' = "fail"
    /\ UNCHANGED <<lsize, remote, late, handles, locals, req, count, ret, runs, stalls>>

\* Mutants of Moved: a short write is taken for a full one; rem stays.
MovedAll(n) == off' = off + req.len /\ rem' = rem - req.len /\ pc' = "loop"
MovedKeepsRem(n) == off' = off + n /\ rem' = rem /\ pc' = "loop"

\* The end of cifs_write: the loop moves on by what it returned.
Moved(n) == off' = off + n /\ rem' = rem - n /\ pc' = "loop"

\* The server writes all it can, and says how much.
Written ==
    /\ pc = "sent"
    /\ \E n \in 0 .. req.len :
        /\ n > 0 \/ req.len = 0
        /\ remote' = Overlay(remote, req.off, n)
        /\ count' = n /\ Moved(n)
    /\ UNCHANGED <<lsize, late, handles, fid, st, size, req, ret, runs, stalls>>

\* It writes nothing now, and says so.
Stalled ==
    /\ pc = "sent" /\ stalls < MaxStalls
    /\ stalls' = stalls + 1 /\ count' = 0 /\ pc' = "loop"
    /\ UNCHANGED <<lsize, remote, late, handles, locals, req, ret, runs>>

\* An error of the classes that cifs_packet_errno knows.
Refused ==
    /\ pc = "sent" /\ pc' = "fail"
    /\ UNCHANGED <<lsize, remote, late, handles, locals, req, count, ret, runs, stalls>>

\* An error of the class ERRHRD, as for a full disk: cifs_packet_errno returns 0,
\* and res->count is what the last reply to a write has left in the buffer.
RefusedHard ==
    /\ HardErrors /\ pc = "sent" /\ stalls < MaxStalls
    /\ stalls' = stalls + 1
    /\ \E n \in (IF count >= 0 THEN {count} ELSE 0..MaxSize) : Moved(n)
    /\ UNCHANGED <<lsize, remote, late, handles, fid, st, size, req, count, ret, runs>>

\* The connection fails; nobody knows what becomes of the request.
Lost ==
    /\ pc = "sent" /\ pc' = "fail"
    /\ late' = late \cup {req}
    /\ UNCHANGED <<lsize, remote, handles, locals, req, count, ret, runs, stalls>>

\* Mutant of Finish: the loop ends with the last full chunk.
FinishEarly ==
    /\ pc = "loop" /\ rem < Chunk
    /\ pc' = "done" /\ ret' = "ok" /\ handles' = handles \ {fid}
    /\ UNCHANGED <<lsize, remote, late, locals, req, count, runs, stalls>>

Finish ==
    /\ pc = "loop" /\ rem <= 0
    /\ pc' = "done" /\ ret' = "ok" /\ handles' = handles \ {fid}
    /\ UNCHANGED <<lsize, remote, late, locals, req, count, runs, stalls>>

\* Mutant of Fail: the handle is not closed.
FailKeepsHandle ==
    /\ pc = "fail"
    /\ pc' = "done" /\ ret' = "error"
    /\ UNCHANGED <<lsize, remote, late, handles, locals, req, count, runs, stalls>>

Fail ==
    /\ pc = "fail"
    /\ pc' = "done" /\ ret' = "error"
    /\ handles' = IF fid > 0 THEN handles \ {fid} ELSE handles
    /\ UNCHANGED <<lsize, remote, late, locals, req, count, runs, stalls>>

Step == Open \/ OpenLocal \/ Send \/ Written \/ Finish \/ Fail

Next == \/ Shrink \/ Start \/ Kill \/ LateWrite \/ Step
        \/ ReadFails \/ Stalled \/ Refused \/ RefusedHard \/ Lost

Spec == Init /\ [][Next]_vars

\* A running process makes progress, and the server answers its requests.
FairSpec == Spec /\ WF_vars(Step)
-------------------------------------------------------------------------------
(* Properties *)

TypeOK ==
    /\ lsize \in 0..MaxSize /\ remote \in Seq(Nat)
    /\ req \in [off : Nat, len : Nat] /\ late \subseteq [off : Nat, len : Nat]
    /\ handles \subseteq Fids /\ fid \in Fids \cup {-1}
    /\ st \in Nat /\ size \in 0..MaxSize /\ off \in Nat /\ rem \in Int /\ count \in Nat \cup {-1}
    /\ pc \in {"off", "open", "local", "loop", "sent", "fail", "done"}
    /\ ret \in {"none", "ok", "error"}
    /\ runs \in 0..MaxRuns /\ stalls \in 0..MaxStalls

\* The remote file only grows, by the bytes that come next in the local file,
\* through short writes, lost replies, restarts and writes that take effect when
\* the next invocation is already under way; and the function returns 0 only when
\* the remote file is as long as the local one.
Copy == INSTANCE FileCopy WITH copy <- remote, goal <- size, verdict <- ret
CopiesFile == Copy!AbsSpec

\* The remote file is at all times the beginning of the local one: no gap, no
\* byte at a wrong place.
RemoteIsPrefix == Copy!IsPrefix(remote)

\* The next write starts inside the remote file or at its end, and every write
\* that the server may yet perform does so too.
NoGap == /\ pc \in {"loop", "sent"} => off <= Len(remote) /\ off + rem = size
         /\ pc = "sent" => req.off = off
         /\ \A r \in late : r.off <= Len(remote)

\* When the function has returned the server has no handle of it left open.  The
\* exception is the handle 0 after a failure, which the cleanup takes for none.
HandleClosed == pc = "done" => handles \subseteq (IF ret = "ok" THEN {} ELSE {0})

\* An upload comes to an end, unless the local file has become shorter than it
\* was when the upload began.
Terminates == pc = "open" ~> (pc \in {"done", "off"} \/ lsize < size)
===============================================================================
