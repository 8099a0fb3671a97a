------------------------------- MODULE Download -------------------------------
(***************************************************************************)
(* cifs_download_file (cifscp.c) with cifs_open, cifs_read and cifs_close  *)
(* (libcifs/proto.c): a remote file is copied to the end of a local one,   *)
(* by raw reads when the server has them and ordinary reads otherwise.     *)
(* The process may be killed anywhere and started again; the local file    *)
(* stays, and the copy goes on where its end is.                           *)
(*                                                                         *)
(* A byte of the local file is the position of the remote byte it was      *)
(* read from.  The remote file may change its size while it is read, not   *)
(* its contents.                                                           *)
(***************************************************************************)
EXTENDS Integers, Sequences, FiniteSets

CONSTANTS
    MaxSize,    \* bound on the size of the remote file
    BufSize,    \* the buffer of cifs_download_file: 64K
    MaxRaw,     \* max_raw_size of the connection
    MaxAndx,    \* max_buffer_size of the connection
    Fids,       \* the handles servers give out
    Resizes,    \* whether the remote file may change its size
    ReadErrors, \* whether the server may refuse an ordinary read
    MaxStalls,  \* bound on empty raw replies and refusals to be retried in one behaviour
    MaxRuns     \* bound on the invocations in one behaviour

ASSUME DownloadAssumption ==
    /\ MaxSize \in Nat /\ MaxStalls \in Nat /\ MaxRuns \in Nat
    /\ BufSize \in Nat \ {0} /\ MaxRaw \in Nat \ {0} /\ MaxAndx \in Nat \ {0}
    /\ Resizes \in BOOLEAN /\ ReadErrors \in BOOLEAN
    /\ Fids \subseteq Nat

VARIABLES
    fsize,      \* the size of the remote file
    local,      \* the local file
    raw,        \* whether the server has CAP_RAW_MODE
    handles,    \* the handles that the server holds open for this connection
    fid, size, off, rem, \* locals of the function; size is st.file_size
    res,        \* bytes read and not yet written
    pc,         \* "off", "open", "local", "loop", "andx", "write", "fail", "done"
    ret,        \* what the function returned: "none", "ok" or "error"
    runs, stalls

vars == <<fsize, local, raw, handles, fid, size, off, rem, res, pc, ret, runs, stalls>>

Least(a, b) == IF a <= b THEN a ELSE b

Init ==
    /\ fsize \in 0..MaxSize /\ local = <<>> /\ raw \in BOOLEAN /\ handles = {}
    /\ fid = -1 /\ size = 0 /\ off = 0 /\ rem = 0 /\ res = 0
    /\ pc = "off" /\ ret = "none" /\ runs = 0 /\ stalls = 0
-------------------------------------------------------------------------------
(* The outside *)

Resize ==
    /\ Resizes /\ fsize' \in 0..MaxSize
    /\ UNCHANGED <<local, raw, handles, fid, size, off, rem, res, pc, ret, runs, stalls>>

\* A new process, a new connection.  The last verdict stands until it opens the file.
Start ==
    /\ pc \in {"off", "done"} /\ runs < MaxRuns
    /\ runs' = runs + 1 /\ raw' \in BOOLEAN /\ pc' = "open" /\ handles' = {}
    /\ UNCHANGED <<fsize, local, fid, size, off, rem, res, ret, stalls>>

\* The process is killed; the server closes what it had open.
Kill ==
    /\ pc \notin {"off", "done"}
    /\ pc' = "off" /\ handles' = {} /\ res' = 0
    /\ UNCHANGED <<fsize, local, raw, fid, size, off, rem, ret, runs, stalls>>
-------------------------------------------------------------------------------
(* The function *)

Open ==
    /\ pc = "open" /\ ret' = "none"
    /\ \/ \E f \in Fids :
            fid' = f /\ handles' = {f} /\ size' = fsize /\ pc' = "local"
       \/ fid' = -1 /\ pc' = "fail" /\ UNCHANGED <<handles, size>>
    /\ UNCHANGED <<fsize, local, raw, off, rem, res, runs, stalls>>

\* Mutant of OpenLocal: the copy starts at 0 whatever the local file holds.
OpenLocalFromStart ==
    /\ pc = "local"
    /\ \/ off' = 0 /\ rem' = size /\ pc' = "loop"
       \/ pc' = "fail" /\ UNCHANGED <<off, rem>>
    /\ UNCHANGED <<fsize, local, raw, handles, fid, size, res, ret, runs, stalls>>

\* open(dst) and lseek to its end.
OpenLocal ==
    /\ pc = "local"
    /\ \/ off' = Len(local) /\ rem' = size - Len(local) /\ pc' = "loop"
       \/ pc' = "fail" /\ UNCHANGED <<off, rem>>
    /\ UNCHANGED <<fsize, local, raw, handles, fid, size, res, ret, runs, stalls>>

Wanted == Least(rem, BufSize)
Stored(from) == IF fsize > from THEN fsize - from ELSE 0

\* Mutants of Got: a short read is taken for a full one; rem stays.
GotAll(n) == res' = n /\ off' = off + Wanted /\ rem' = rem - n /\ pc' = "write"
GotKeepsRem(n) == res' = n /\ off' = off + n /\ rem' = rem /\ pc' = "write"

\* After n > 0 bytes were read off and rem move on before the bytes are written.
Got(n) == res' = n /\ off' = off + n /\ rem' = rem - n /\ pc' = "write"

\* A raw read: what the file has there, or nothing, for whatever reason.
ReadRaw ==
    /\ pc = "loop" /\ rem > 0 /\ raw
    /\ LET n == Least(Least(Wanted, MaxRaw), Stored(off)) IN
        \/ n > 0 /\ Got(n) /\ UNCHANGED stalls
        \/ /\ n = 0 \/ stalls < MaxStalls
           /\ stalls' = IF n = 0 THEN stalls ELSE stalls + 1
           /\ pc' = "andx" /\ UNCHANGED <<off, rem, res>>
    /\ UNCHANGED <<fsize, local, raw, handles, fid, size, ret, runs>>

\* The ordinary read.  A server may send less than is there.
ReadAndx ==
    /\ pc = "andx" \/ (pc = "loop" /\ rem > 0 /\ ~raw)
    /\ LET most == Least(Least(Wanted, MaxAndx), Stored(off)) IN
        \/ \E n \in 1..most : Got(n)
        \/ most = 0 /\ pc' = "loop" /\ UNCHANGED <<off, rem, res>>
    /\ UNCHANGED <<fsize, local, raw, handles, fid, size, ret, runs, stalls>>

\* An answer with an error status has no words of its own.  cifs_read_andx_recv
\* does not look at the status and takes data_count from what an earlier packet
\* left there: the result is -1, or 0 as at the end of the file.
ReadRefused ==
    /\ pc = "andx" \/ (pc = "loop" /\ rem > 0 /\ ~raw)
    /\ ReadErrors /\ stalls < MaxStalls
    /\ stalls' = stalls + 1
    /\ pc' \in {"fail", "loop"}
    /\ UNCHANGED <<fsize, local, raw, handles, fid, size, off, rem, res, ret, runs>>

\* The connection fails during a read.
ReadFails ==
    /\ pc = "andx" \/ (pc = "loop" /\ rem > 0)
    /\ pc' = "fail"
    /\ UNCHANGED <<fsize, local, raw, handles, fid, size, off, rem, res, ret, runs, stalls>>

\* Mutant of Write: the buffer is taken to be full.
WriteFullBuffer ==
    /\ pc = "write" /\ res' = 0
    /\ \E n \in 0..res :
        /\ local' = local \o [i \in 1..n |-> off - BufSize + i]
        /\ pc' = IF n = res THEN "loop" ELSE "fail"
    /\ UNCHANGED <<fsize, raw, handles, fid, size, off, rem, ret, runs, stalls>>

\* write() to the end of the local file; fewer bytes than asked for is an error.
Write ==
    /\ pc = "write" /\ res' = 0
    /\ \E n \in 0..res :
        /\ local' = local \o [i \in 1..n |-> off - res + i]
        /\ pc' = IF n = res THEN "loop" ELSE "fail"
    /\ UNCHANGED <<fsize, raw, handles, fid, size, off, rem, ret, runs, stalls>>

\* Mutant of Finish: the loop ends with the last full buffer.
FinishEarly ==
    /\ pc = "loop" /\ rem < BufSize
    /\ pc' = "done" /\ ret' = "ok" /\ handles' = handles \ {fid}
    /\ UNCHANGED <<fsize, local, raw, fid, size, off, rem, res, runs, stalls>>

Finish ==
    /\ pc = "loop" /\ rem <= 0
    /\ pc' = "done" /\ ret' = "ok" /\ handles' = handles \ {fid}
    /\ UNCHANGED <<fsize, local, raw, fid, size, off, rem, res, runs, stalls>>

\* Mutant of Fail: the handle is not closed.
FailKeepsHandle ==
    /\ pc = "fail"
    /\ pc' = "done" /\ ret' = "error"
    /\ UNCHANGED <<fsize, local, raw, handles, fid, size, off, rem, res, runs, stalls>>

\* err: the handle is closed only if it is greater than 0.
Fail ==
    /\ pc = "fail"
    /\ pc' = "done" /\ ret' = "error"
    /\ handles' = IF fid > 0 THEN handles \ {fid} ELSE handles
    /\ UNCHANGED <<fsize, local, raw, fid, size, off, rem, res, runs, stalls>>

Step == Open \/ OpenLocal \/ ReadRaw \/ ReadAndx \/ Write \/ Finish \/ Fail

Next == Resize \/ Start \/ Kill \/ Step \/ ReadRefused \/ ReadFails

Spec == Init /\ [][Next]_vars

\* A running process makes progress, and the server answers its requests.
FairSpec == Spec /\ WF_vars(Step)
-------------------------------------------------------------------------------
(* Properties *)

TypeOK ==
    /\ fsize \in 0..MaxSize /\ size \in 0..MaxSize
    /\ local \in Seq(Nat) /\ raw \in BOOLEAN /\ handles \subseteq Fids
    /\ fid \in Fids \cup {-1} /\ off \in Nat /\ rem \in Int /\ res \in Nat
    /\ pc \in {"off", "open", "local", "loop", "andx", "write", "fail", "done"}
    /\ ret \in {"none", "ok", "error"}
    /\ runs \in 0..MaxRuns /\ stalls \in 0..MaxStalls

\* Through short raw reads, the change between the two kinds of read, partial
\* writes, failures, kills and restarts the local file only grows, by the bytes
\* that come next in the remote file, and the function returns 0 only when the
\* file is as long as the remote file was when it was opened.
Copy == INSTANCE FileCopy WITH copy <- local, goal <- size, verdict <- ret
CopiesFile == Copy!AbsSpec

\* The local file is at all times the beginning of the remote one.
LocalIsPrefix == Copy!IsPrefix(local)

\* Inside the loop the offset read next is where the local file ends, and the
\* two halves off and rem make up the size that was seen at the opening, also
\* between cifs_read, which moves them, and write (cifscp.c:242).
OffsetsAgree ==
    pc \in {"loop", "andx", "write"} => off = Len(local) + res /\ off + rem = size

\* When the function has returned the server has no handle of it left open.  The
\* exception is the handle 0 after a failure, which the cleanup takes for none.
HandleClosed == pc = "done" => handles \subseteq (IF ret = "ok" THEN {} ELSE {0})

\* A download comes to an end, whatever the server refuses or leaves unread,
\* unless the remote file has become shorter than it was when it was opened.
Terminates == pc = "open" ~> (pc \in {"done", "off"} \/ fsize < size)

\* The same with no exception: zero bytes returned indicate the end of the file,
\* and the reading stops there (draft-leach-cifs-v1-spec-02.txt:8136-8150).
StopsAtEOF == pc = "open" ~> pc \in {"done", "off"}
===============================================================================
