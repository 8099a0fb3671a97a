-------------------------------- MODULE NetBuf --------------------------------
(***************************************************************************)
(* The buffer of libcifs/buffer.h and buffer.c.  Its four pointers         *)
(*                                                                         *)
(*     b ---- len ---- p ---- left ---- e ---------------- x               *)
(*                                                                         *)
(* are kept as offsets from b: a buffer is a record [p, e, x].  The macros *)
(* are the pointer arithmetic they expand to: cifs_buf_set and             *)
(* cifs_buf_inc check nothing, so that p may be left past e.               *)
(***************************************************************************)
EXTENDS Integers

BufNew(size)  == [p |-> 0, e |-> size, x |-> size]

BufSize(buf)  == buf.e
BufLen(buf)   == buf.p
BufLeft(buf)  == buf.e - buf.p

\* cifs_buf_range is true when len bytes at off do NOT lie inside the buffer.
BufRange(buf, off, len) == off < 0 \/ off + len > buf.e

BufSet(buf, i) == [p |-> i, e |-> buf.e, x |-> buf.x]
BufInc(buf, i) == [p |-> buf.p + i, e |-> buf.e, x |-> buf.x]

\* cifs_buf_resize refuses a size beyond the limit x and then changes nothing;
\* a negative size opens the buffer to its limit.  It never moves p.
BufFits(buf, size)   == size <= buf.x
BufResize(buf, size) ==
    IF BufFits(buf, size)
    THEN [p |-> buf.p, e |-> IF size < 0 THEN buf.x ELSE size, x |-> buf.x]
    ELSE buf
===============================================================================
