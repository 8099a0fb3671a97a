------------------------------ MODULE MCFind ------------------------------
(* A tree of three directories, one inside the other and one empty. *)
EXTENDS Find

MCContent == [d \in Dirs |-> CASE d = "root" -> <<".", "sub", "f", "empty">>
                               [] d = "sub"  -> <<"f", "..", "g">>
                               [] OTHER      -> <<>>]
===========================================================================
