-------------------------------- MODULE Cookie --------------------------------
(***************************************************************************)
(* A stream over a remote file (cookie.c): fopen_cifs with its modes, the  *)
(* functions reader, writer and seeker behind the FILE, and cifscat, which *)
(* reads such a stream to its end. cifs_open (libcifs/proto.c) turns the   *)
(* flags into what the server shall do when the file exists or not.        *)
(*                                                                         *)
(* ref is the stream that the C library promises for the same calls: its   *)
(* position, and the length that the file should have. A call that fails   *)
(* sets the stream back by a byte, for -1 has no sign there.               *)
(***************************************************************************)
EXTENDS Integers, Sequences

CONSTANTS
    FileModes,  \* mode strings
    MaxLength,  \* bound on the length of the file
    Block,      \* what stdio asks for at a time: 4096
    MaxCalls    \* bound on the calls of a client that is not cifscat, and on failures

\* The modes of C11, except "wbx": the loop ends at a "b" and would not see the "x".
ASSUME CookieAssumption ==
    /\ MaxLength \in Nat \ {0} /\ Block \in Nat \ {0} /\ MaxCalls \in Nat
    /\ \A m \in FileModes :
          /\ m \in Seq(STRING) /\ Len(m) > 0 /\ m[1] \in {"r", "w", "a"}
          /\ \A n \in 2..Len(m) : m[n] \in {"+", "b", "x"}
          /\ \A n \in 2..Len(m) :
                m[n] = "x" => n = Len(m) /\ m[1] = "w" /\ \A k \in 1..n : m[k] # "b"

VARIABLES
    mode,
    stream,     \* the cookie: off, size; may read, may write
    len,        \* the length of the file at the server; -1 if there is none
    ref,        \* history: pos and len as they should be
    phase,      \* "closed", "open", "failed", "crashed"; cifscat: "read", "print", "end"
    got,        \* bytes that the fread under way has
    calls, faults, astray   \* history: failures; a call that the code does otherwise than C

cookieVars == <<mode, stream, len, ref, phase, got, calls, faults, astray>>

CookieInit ==
    /\ mode \in FileModes /\ len \in {-1, 0, MaxLength - 1}
    /\ stream = [off |-> 0, size |-> 0, read |-> FALSE, write |-> FALSE]
    /\ ref = [pos |-> 0, len |-> len]
    /\ phase = "closed" /\ got = 0 /\ calls = 0 /\ faults = 0 /\ astray = FALSE

Bigger(m, n) == IF m > n THEN m ELSE n
-------------------------------------------------------------------------------
(* Opening *)

Letters == {"r", "w", "a", "+", "x"}

\* The loop over the mode ends at a letter it does not know.
Places == {n \in 1..Len(mode) : \A j \in 1..n : mode[j] \in Letters}

\* One of the letters c is read, and none of the letters d after it.
Has(c, d) == \E n \in Places : mode[n] \in c /\ \A m \in Places : m > n => mode[m] \notin d

\* "r", "w" and "a" say anew how the file is opened, "+" leaves the other flags as they are.
Flags ==
    [access |-> IF Has({"+"}, {"r", "w", "a"}) THEN "both"
                ELSE IF Has({"w", "a"}, {"r"}) THEN "write" ELSE "read",
     with   |-> (IF Has({"w"}, {"a"}) THEN {"creat", "trunc"}
                 ELSE IF Has({"a"}, {}) THEN {"creat", "append"} ELSE {})
                \cup (IF Has({"x"}, {"w", "a"}) THEN {"excl"} ELSE {})]

Disposition(with) ==
    IF "creat" \in with
    THEN IF "excl" \in with THEN "create"
         ELSE IF "trunc" \in with THEN "overwrite_if" ELSE "open_if"
    ELSE IF "trunc" \in with THEN "overwrite" ELSE "open"

\* What the server does: the length after the opening, or -1 when it refuses.
Opened(disposition) ==
    CASE disposition = "create"       -> IF len = -1 THEN 0 ELSE -1
      [] disposition = "overwrite_if" -> 0
      [] disposition = "open_if"      -> Bigger(len, 0)
      [] disposition = "overwrite"    -> IF len = -1 THEN -1 ELSE 0
      [] disposition = "open"         -> len

\* What a stream is opened to: C11 7.21.5.3.
Promised ==
    CASE mode[1] = "r" -> len
      [] mode[Len(mode)] = "x" -> IF len = -1 THEN 0 ELSE -1
      [] mode[1] = "w" /\ mode[Len(mode)] # "x" -> 0
      [] mode[1] = "a" -> Bigger(len, 0)

\* The way out for a URI or a connection that was not to be had gives back both.
FopenCrashes ==
    /\ phase = "closed" /\ phase' = "crashed"
    /\ UNCHANGED <<mode, stream, len, ref, got, calls, faults, astray>>

\* fopen_cifs. Mode "r" is cifscat's.
Fopen ==
    /\ phase = "closed"
    /\ LET n == Opened(Disposition(Flags.with))
       IN  IF n < 0 THEN phase' = "failed" /\ UNCHANGED <<stream, len>>
           ELSE /\ phase' = IF mode = <<"r">> THEN "read" ELSE "open"
                /\ len' = n
                /\ stream' = [off |-> IF "append" \in Flags.with THEN n ELSE 0, size |-> n,
                              read |-> Flags.access # "write", write |-> Flags.access # "read"]
    /\ ref' = [pos |-> IF mode[1] = "a" THEN Promised ELSE 0, len |-> Promised]
    /\ UNCHANGED <<mode, got, calls, faults, astray>>
-------------------------------------------------------------------------------
(* The functions of the stream *)

\* Mutant of Advance: the position follows what was asked for.
AdvanceByCount(count, res) == count

\* The result -1 has no sign in reader and writer: it is larger than 0.
Advance(count, res) == res

\* cifs_read: something of what is there, or an error. A position before the beginning is
\* for the server one far behind the end.
Reader(count, res) ==
    /\ stream.read
    /\ res \in (IF stream.off \in 0..len - 1 THEN 1..count ELSE {0}) \cup {-1}
    /\ stream.off + res <= Bigger(len, stream.off)
    /\ res = -1 => faults < MaxCalls
    /\ stream' = [stream EXCEPT !.off = @ + Advance(count, res)]
    /\ ref' = IF res > 0 THEN [ref EXCEPT !.pos = @ + res] ELSE ref
    /\ faults' = IF res = -1 THEN faults + 1 ELSE faults

StreamRead ==
    /\ phase = "open" /\ calls < MaxCalls
    /\ \E res \in -1..Block : Reader(Block, res)
    /\ calls' = calls + 1 /\ UNCHANGED <<mode, len, phase, got, astray>>

\* Where a write goes that the standard promises: in the modes of "a" to the end of the
\* file, wherever the stream is (C11 7.21.5.3).
PromisedAt == IF mode[1] = "a" THEN ref.len ELSE ref.pos

\* writer writes where the stream is, in every mode. MaxLength bounds the file.
StreamWrite ==
    /\ phase = "open" /\ calls < MaxCalls /\ stream.write
    /\ \E res \in -1..Block :
        /\ res # 0 /\ res > 0 => stream.off >= 0 /\ stream.off + Block <= MaxLength
        /\ stream' = [stream EXCEPT !.off = @ + Advance(Block, res)]
        /\ IF res > 0
           THEN /\ len' = Bigger(len, stream.off + res)
                /\ ref' = [pos |-> PromisedAt + res, len |-> Bigger(ref.len, PromisedAt + res)]
                /\ UNCHANGED faults
           ELSE faults' = faults + 1 /\ UNCHANGED <<len, ref>>
    /\ astray' = (astray \/ PromisedAt # ref.pos)
    /\ calls' = calls + 1 /\ UNCHANGED <<mode, phase, got>>

\* The end is where it was when the file was opened. A position before the beginning is
\* taken too, where fseek() has to fail and leave the stream alone. MaxLength bounds
\* positions on both sides.
Seeker ==
    /\ phase = "open" /\ calls < MaxCalls
    /\ \E whence \in {"set", "cur", "end"}, d \in -1..1 :
        LET from(o, n) == CASE whence = "set" -> 0 [] whence = "cur" -> o [] whence = "end" -> n
            off == from(stream.off, stream.size) + d
            pos == from(ref.pos, ref.len) + d
        IN  /\ off \in -MaxLength..MaxLength
            /\ stream' = [stream EXCEPT !.off = off]
            /\ ref' = IF pos < 0 THEN ref ELSE [ref EXCEPT !.pos = pos]
            /\ astray' = (astray \/ pos < 0 \/ (whence = "end" /\ len # stream.size))
    /\ calls' = calls + 1 /\ UNCHANGED <<mode, len, phase, got, faults>>
-------------------------------------------------------------------------------
(* cifscat *)

\* fread: until it has a block, or reader returns nothing or an error.
Fread ==
    /\ phase = "read"
    /\ \E res \in -1..Block - got :
        /\ Reader(Block - got, res)
        /\ got' = got + Bigger(res, 0)
        /\ phase' = IF res > 0 /\ got' < Block THEN "read" ELSE "print"
    /\ UNCHANGED <<mode, len, calls, astray>>

\* The loop goes on as long as fread returns something.
Fwrite ==
    /\ phase = "print"
    /\ phase' = IF got > 0 THEN "read" ELSE "end"
    /\ got' = 0 /\ UNCHANGED <<mode, stream, len, ref, calls, faults, astray>>

CookieNext == Fopen \/ FopenCrashes \/ StreamRead \/ StreamWrite \/ Seeker \/ Fread \/ Fwrite
CookieSpec == CookieInit /\ [][CookieNext]_cookieVars
-------------------------------------------------------------------------------
(* Properties *)

\* The stream is where the C library promises it to be, over a file that is as long as
\* it should be, from the opening in any mode and after any calls, until a read or write
\* fails or the client makes one of three calls that the code does otherwise: it seeks
\* the end after the file has grown (cookie.c:54), seeks a position before the beginning
\* (cookie.c:49-57 accept it), or writes in a mode of "a" when the stream is not at the
\* end (cookie.c:40 writes where it is). Of such a stream nothing is said from there on.
\* cifscat, which makes none of them, has then printed the file up to its position, and
\* all of it in the end.
StreamAgrees ==
    /\ phase = "failed" => ref.len = -1
    /\ phase \in {"open", "read", "print", "end"} /\ faults = 0 /\ ~astray =>
          /\ stream.off = ref.pos /\ len = ref.len
          /\ phase = "end" => ref.pos = len
===============================================================================
