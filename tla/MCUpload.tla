------------------------------- MODULE MCUpload -------------------------------
(* Instances of Upload for TLC: a file of up to four bytes, written in pieces  *)
(* of at most two; a handle 0 and another one; two or three invocations, so    *)
(* that the late writes of one meet the next one.                              *)
EXTENDS Upload
MCFids == {0, 1}
===============================================================================
