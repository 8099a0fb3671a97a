------------------------------- MODULE MCClient -------------------------------
(***************************************************************************)
(* The instance that TLC checks of the commands and of the parts under     *)
(* them. A behaviour is one of one part; the others stay as they begin.    *)
(* "library" is any client of the calls of Session, "cifscp" the command.  *)
(* The parts without state (numbers, URIs, packets) take one input each.   *)
(***************************************************************************)
EXTENDS TLC, Cifscp, Flow, Packet, Codepage, Cookie, Human, Uri

VARIABLE part

clientVars == <<cifscpVars, flowVars, codepageVars, cookieVars, argument, request, part, uri>>
-------------------------------------------------------------------------------
(* Values of the constants *)

MCTargets == [port : {0, 139, 445}, tree : {None, "share"}]

\* An upload has a directory inside a directory, one with a link to itself, and a pipe.
Entry(name, node, linked) == [name |-> name, node |-> node, link |-> linked]
MCKids ==
    [d    |-> {Entry("f", "f", FALSE), Entry("s", "s", FALSE)},
     s    |-> {Entry("f", "f", FALSE), Entry("pipe", "pipe", FALSE)},
     loop |-> {Entry("f", "f", FALSE), Entry("up", "loop", TRUE)}]

Target(tree) == [port |-> 0, tree |-> tree]
OnServer(tree, wild) == [scheme |-> "cifs", target |-> Target(tree), wild |-> wild]
OnDisk(name) == [scheme |-> "file", name |-> name, node |-> name]
Unknown == [scheme |-> "bad"]
Sources ==
    {Unknown, OnDisk("f"), OnServer(None, FALSE), OnServer("share", TRUE), OnServer("share", FALSE)}

\* A server with two directories, a file, and a file where a directory may have to go.
Command(kind, sources, path, dstdir) ==
    [mode |-> kind, sources |-> sources, target |-> Target("share"), path |-> path,
     dirs |-> {<<>>, <<"x">>, <<"x", "d">>}, files |-> {<<"y">>, <<"x", "d", "s">>},
     dstdir |-> dstdir]
MCInvocations ==
    {Command("list", <<a, b>>, <<>>, FALSE) : a \in Sources, b \in Sources}
      \cup {Command("download", <<a, b>>, <<>>, TRUE) : a \in Sources, b \in Sources}
      \cup {Command("download", <<a>>, <<>>, FALSE) : a \in Sources}
      \cup {Command("download", <<Unknown, Unknown>>, <<>>, FALSE)}
      \cup {Command("upload", <<OnDisk("d"), OnDisk("f")>>, path, FALSE) :
              path \in {<<>>, <<"x">>, <<"y">>, <<"z">>}}
      \cup {Command("upload", <<OnDisk("d")>>, path, FALSE) :
              path \in {<<"x">>, <<"y">>, <<"z">>, <<"z", "w">>}}
      \cup {Command("upload", <<OnServer(None, FALSE), OnDisk("loop")>>, path, FALSE) :
              path \in {<<>>, <<"x">>}}
      \cup {Command("upload", <<Unknown>>, <<>>, FALSE)}
MCNames == {"d", "f", "s", "loop", "up", "pipe", "w", "x", "y", "z"}
MCMatches == {<<>>, <<"a">>, <<"a", "b">>}
MCDomains == {<<>>, <<"g">>, <<"g", "h">>}

\* Characters that keep their length, grow, shrink, and one that is not to be converted.
Char(in, out, ok) == [in |-> in, out |-> out, ok |-> ok]
Chars == {Char(1, 1, TRUE), Char(1, 3, TRUE), Char(2, 1, TRUE), Char(1, 2, TRUE), Char(1, 3, FALSE)}

\* One after the other, each begins where the one before ends.
Laid(s) ==
    LET at[n \in 1..Len(s)] ==
            IF n = 1 THEN s[1]
            ELSE Char(at[n-1].in + s[n].in, at[n-1].out + s[n].out, s[n].ok)
    IN  at
MCTexts == {Laid(s) : s \in UNION {[1..n -> Chars] : n \in 0..3}}

MCFileModes ==
    {<<"r">>, <<"r", "+">>, <<"w">>, <<"w", "+">>, <<"a">>, <<"a", "+">>,
     <<"w", "x">>, <<"r", "b">>, <<"w", "+", "x">>}

MCEscapes == "%20" :> " " @@ "%2F" :> "/" @@ "%40" :> "@"
MCNumbers == "139" :> 139 @@ "445" :> 445
-------------------------------------------------------------------------------
(* Inputs *)

MCArguments ==
    [n : {0, 1, 3, 15, 127}, letters : UNION {[1..k -> {"k", "m", "g", "t", "K", "b", "B", "z"}] : k \in 0..3},
     beyond : [1..2 -> {Nul, "b", "="}]]

\* Names of one character up to PATH_MAX.
MCRequests ==
    {q \in [kind : Kinds, u : BOOLEAN, n : {0, 1, 2, 4096, 61440}, m : {0, 1, 255},
            max : {4356, 16644, 65535}] :
        q.kind = "write" \/ q.n <= 4096}

MCAddresses ==
    {[scheme |-> "cifs", user |-> w.user, password |-> w.password, host |-> <<"h">>,
      addr |-> a.addr, port |-> a.port, tree |-> p.tree, path |-> p.path, dir |-> p.dir, file |-> p.file] :
        w \in {[user |-> Absent, password |-> Absent], [user |-> <<"u">>, password |-> Absent],
               [user |-> <<"u">>, password |-> <<>>], [user |-> <<"u">>, password |-> <<"p", ":", "q">>]},
        a \in {[addr |-> Absent, port |-> 0], [addr |-> Absent, port |-> 139],
               [addr |-> <<"10.0.0.1">>, port |-> 445], [addr |-> <<"fe80", ":", "1">>, port |-> 445]},
        p \in {[tree |-> Absent, path |-> <<>>, dir |-> <<>>, file |-> <<>>],
               [tree |-> <<"share">>, path |-> <<>>, dir |-> <<>>, file |-> <<>>],
               [tree |-> <<"share">>, path |-> <<"f", " ", "1">>, dir |-> <<>>, file |-> <<"f", " ", "1">>],
               [tree |-> <<"c$">>, path |-> <<"d", "/", "e", ":", "/", "f", "@">>,
                dir |-> <<"d", "/", "e", ":">>, file |-> <<"f", "@">>],
               [tree |-> <<"share">>, path |-> <<"d", "/">>, dir |-> <<"d">>, file |-> <<>>]}}
-------------------------------------------------------------------------------
(* The parts *)

Idle ==
    [mode |-> "idle", sources |-> <<>>, dirs |-> {}, files |-> {}, dstdir |-> FALSE]

CifscpIdle ==
    /\ inv = Idle /\ i = 1 /\ pc = "done" /\ left = <<>> /\ stack = <<>> /\ local = [n \in {} |-> {}]
    /\ dirs = {} /\ files = {} /\ made = {} /\ puts = {} /\ failed = FALSE /\ leaks = 0
FlowIdle == FlowInit /\ flow.limit = 0
CodepageIdle == CodepageInit /\ text = <<>> /\ grows
CookieIdle == CookieInit /\ mode = <<"r">> /\ len = 0

ClientInit ==
    /\ part \in {"library", "cifscp", "flow", "codepage", "cookie", "size", "uri", "packet"}
    /\ IF part = "cifscp" THEN CifscpInit ELSE SessionInit /\ CifscpIdle
    /\ IF part = "flow" THEN FlowInit ELSE FlowIdle
    /\ IF part = "codepage" THEN CodepageInit ELSE CodepageIdle
    /\ IF part = "cookie" THEN CookieInit ELSE CookieIdle
    /\ HumanInit /\ PacketInit /\ UriInit

others == <<argument, request, part, uri>>
Library ==
    /\ part = "library" /\ SessionNext
    /\ UNCHANGED <<inv, i, pc, left, stack, local, dirs, files, made, puts, failed, leaks>>
    /\ UNCHANGED <<flowVars, codepageVars, cookieVars, others>>
Copy ==
    part = "cifscp" /\ CifscpNext /\ UNCHANGED <<flowVars, codepageVars, cookieVars, others>>
Measure ==
    part = "flow" /\ FlowNext /\ UNCHANGED <<cifscpVars, codepageVars, cookieVars, others>>
Convert ==
    part = "codepage" /\ CodepageNext /\ UNCHANGED <<cifscpVars, flowVars, cookieVars, others>>
Stream ==
    part = "cookie" /\ CookieNext /\ UNCHANGED <<cifscpVars, flowVars, codepageVars, others>>
Take ==
    /\ \/ part = "size"   /\ DecodeArgument /\ UNCHANGED <<request, uri>>
       \/ part = "packet" /\ WriteRequest /\ UNCHANGED <<argument, uri>>
       \/ part = "uri"    /\ ParseUri /\ UNCHANGED <<argument, request>>
    /\ UNCHANGED <<cifscpVars, flowVars, codepageVars, cookieVars, part>>

ClientNext == Library \/ Copy \/ Measure \/ Convert \/ Stream \/ Take

\* cifscp goes on as long as it has something to do. A server answers what it is asked,
\* or its connection ends: the program has no timeout for one that does neither.
ClientSpec == ClientInit /\ [][ClientNext]_clientVars /\ WF_cifscpVars(Copy)
===============================================================================
