------------------------------- MODULE Codepage -------------------------------
(***************************************************************************)
(* Conversions between character sets (libcifs/codepage.c): cifs_cp_buf    *)
(* into a buffer of the caller, cifs_cp_bufa into one that grows. A byte   *)
(* that cannot be converted is written as three characters, "%" and two    *)
(* letters, and the conversion goes on behind it.                          *)
(*                                                                         *)
(* The input is a sequence of characters [in, out, ok]: the bytes of the  *)
(* input and of the output up to its end, and whether iconv() can convert  *)
(* it (a byte that it cannot moves the output by three).                   *)
(***************************************************************************)
EXTENDS Integers, Sequences

CONSTANTS
    Texts,      \* the inputs
    OutSizes    \* the sizes of the callers' buffers

VARIABLES
    text,       \* the input
    grows,      \* cifs_cp_bufa
    size, room, \* out_size and out_left
    taken,      \* characters converted: in_ptr
    written,    \* out_ptr - out_buf
    stop        \* why iconv() came back, or how the call ended

codepageVars == <<text, grows, size, room, taken, written, stop>>

\* The bytes of the first n characters of s in the output, and of all in the input.
Out(s) == [n \in 0..Len(s) |-> IF n = 0 THEN 0 ELSE s[n].out]
OutBytes == Out(text)
InBytes(s) == IF s = <<>> THEN 0 ELSE s[Len(s)].in

ASSUME TextAssumption ==
    /\ OutSizes \subseteq Nat
    /\ \A s \in Texts :
          /\ s \in Seq([in : Nat, out : Nat, ok : BOOLEAN])
          /\ \A m, n \in 0..Len(s) : m <= n => Out(s)[m] <= Out(s)[n]
          /\ \A n \in 1..Len(s) : ~s[n].ok => Out(s)[n] = Out(s)[n-1] + 3

CodepageInit ==
    /\ text \in Texts /\ grows \in BOOLEAN
    /\ \/ grows /\ size = InBytes(text) + 1
       \/ ~grows /\ size \in OutSizes
    /\ room = size /\ taken = 0 /\ written = 0 /\ stop = "none"

\* iconv() converts as many characters as it can and has room for.
Iconv ==
    /\ stop = "none"
    /\ \E n \in taken..Len(text) :
        LET w == OutBytes[n] - OutBytes[taken]
        IN  /\ \A j \in taken+1..n : text[j].ok
            /\ w <= room
            /\ taken' = n /\ written' = written + w /\ room' = room - w
            /\ \/ n = Len(text) /\ stop' = "end"
               \/ n < Len(text) /\ ~text[n+1].ok /\ stop' = "EILSEQ"
               \/ n < Len(text) /\ text[n+1].ok /\ OutBytes[n+1] - OutBytes[taken] > room /\ stop' = "E2BIG"
    /\ UNCHANGED <<text, grows, size>>

\* EILSEQ and EINVAL: the byte is written in letters.
Hex ==
    /\ stop = "EILSEQ" /\ room >= 3
    /\ written' = written + 3 /\ room' = room - 3 /\ taken' = taken + 1
    /\ stop' = "none" /\ UNCHANGED <<text, grows, size>>

NoRoom == stop = "E2BIG" \/ (stop = "EILSEQ" /\ room < 3)

\* cifs_cp_buf gives up.
TooSmall ==
    /\ NoRoom /\ ~grows
    /\ stop' = "failed" /\ UNCHANGED <<text, grows, size, room, taken, written>>

\* Mutant of Doubled: the room is counted after the size has been doubled.
DoubledFirst == [size |-> 2 * size, room |-> room + 2 * size]

\* The buffer of cifs_cp_bufa is doubled.
Doubled == [size |-> 2 * size, room |-> room + size]

Grow ==
    /\ NoRoom /\ grows
    /\ size' = Doubled.size /\ room' = Doubled.room
    /\ stop' = "none" /\ UNCHANGED <<text, grows, taken, written>>

\* cifs_cp_bufa cuts its buffer to what it needs, with the 0 at the end.
Finish ==
    /\ stop = "end"
    /\ IF grows THEN size' = size - (room - 1) /\ room' = 1 ELSE UNCHANGED <<size, room>>
    /\ stop' = "done" /\ UNCHANGED <<text, grows, taken, written>>

CodepageNext == Iconv \/ Hex \/ TooSmall \/ Grow \/ Finish
CodepageSpec == CodepageInit /\ [][CodepageNext]_codepageVars
-------------------------------------------------------------------------------
(* Properties *)

\* What is written stays inside the buffer and is the conversion of what was taken. A
\* conversion ends with all of it, and with room for the 0 behind it unless the buffer
\* was filled exactly; it fails only when it needs more room than there is.
Converted ==
    /\ written + room = size /\ room >= 0
    /\ written = OutBytes[taken]
    /\ stop = "done" => taken = Len(text) /\ (grows => size = written + 1)
    /\ stop = "failed" => OutBytes[Len(text)] > size
===============================================================================
