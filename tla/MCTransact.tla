------------------------------ MODULE MCTransact ------------------------------
(* Instances of Transact for TLC.  The constants are plain numbers, given in *)
(* the cfg files: two transactions, so that one follows another in the same  *)
(* buffers, and up to three fragments for two bytes of each kind.            *)
EXTENDS Transact
===============================================================================
