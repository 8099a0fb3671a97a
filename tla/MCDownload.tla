------------------------------ MODULE MCDownload ------------------------------
(* Instances of Download for TLC: four bytes, a buffer of three, raw reads of *)
(* at most two, so that one file takes several reads of either kind; a handle *)
(* 0 and another one; two or three invocations.                               *)
EXTENDS Download
MCFids == {0, 1}
===============================================================================
