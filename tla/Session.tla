------------------------------- MODULE Session -------------------------------
(***************************************************************************)
(* Connections (libcifs/proto.c, transport.c) and the calls made on them:  *)
(* cifs_connect with its ports, the NetBIOS session, the negotiation and   *)
(* the tree; cifs_mkdir with its second thoughts; cifs_scannode (rap.c),   *)
(* which goes to the tree IPC$ and back.                                   *)
(*                                                                         *)
(* A request and its reply are one step. The tree and the user of a        *)
(* request are not arguments: they stay in the header of the output packet *)
(* from one call to the next.                                              *)
(***************************************************************************)
EXTENDS Integers

CONSTANTS
    None, IPC,      \* no value; the share IPC$
    Targets,        \* what cifs_connect is called for: [port, tree]
    Listens,        \* the ports that servers listen on
    Tids, Uids,     \* the numbers that a server gives to trees and users
    HardErrors      \* may a server refuse with a class that the client does not know?

NoTree == 65535     \* 0xFFFF in the header, of a request and of the refusal of one
Unset  == -1        \* IPC$ has not been connected

ASSUME SessionAssumption ==
    /\ Tids \subseteq Nat \ {NoTree} /\ Uids \subseteq Nat \ {0}
    /\ Listens \subseteq Nat
    /\ \A t \in Targets : t.port \in Nat
    /\ HardErrors \in BOOLEAN

ASSUME NoneAssumption == None \notin [tid : Int, ipc : Int, tree : Int, uid : Nat]

VARIABLES
    target,     \* the arguments of cifs_connect
    conn,       \* struct cifs_connect_s: tid, ipc, and from the output header tree and uid
    link,       \* what the server knows of the connection
    sockets,    \* open sockets of the process
    call,       \* the call under way and its next step; "idle"
    ret,        \* what the last call returned
    last,       \* the request that arrived last, with link as it was then
    denied,     \* history: IPC$ was refused to this connection
    misled      \* history: what was refused to this connection and taken for granted

sessionVars == <<target, conn, link, sockets, call, ret, last, denied, misled>>

SessionInit ==
    /\ target = None /\ conn = None /\ link = None /\ sockets = 0
    /\ call = "idle" /\ ret = 0 /\ last = None /\ denied = FALSE /\ misled = {}

\* cifs_packet_errno knows the classes ERRDOS and ERRSRV; a refusal of any other ("hard":
\* ERRHRD) has no errno, and cifs_request and cifs_trans_recv take it for success.
Replies == {"ok", "refused", "hard", "lost"}

\* A request of this command for this tree, and what comes of it: the server grants it
\* only if it can be granted. The reply to a NetBIOS request has no class.
Request(cmd, tree, grants, reply) ==
    /\ ~link.up => reply = "lost"
    /\ reply = "ok" => grants
    /\ reply = "hard" => HardErrors /\ cmd # "nbt"
    /\ misled' = IF reply = "hard" THEN misled \cup {cmd} ELSE misled
    /\ last' = IF link.up
               THEN [cmd |-> cmd, tree |-> tree, uid |-> conn.uid, link |-> link] ELSE last

Drop(reply) == IF reply = "lost" THEN [link EXCEPT !.up = FALSE] ELSE link
Live(tree)  == tree \in DOMAIN link.trees

\* The connection is closed and the call returns NULL.
Closed == conn' = None /\ link' = None /\ sockets' = sockets - 1 /\ call' = "idle" /\ ret' = -1

\* Two ways for a process to get no further.
Stopped == {"killed", "spins"}

\* send() to a connection that is gone: nobody handles the signal.
SigPipe ==
    /\ conn # None /\ ~link.up /\ call \notin Stopped
    /\ call' = "killed" /\ sockets' = 0
    /\ UNCHANGED <<target, conn, link, ret, last, denied, misled>>

\* The server closes the connection while its reply is awaited: recv() returns 0 and is
\* called again (Transport), for ever. Only the wait for a NetBIOS session is not a loop.
\* (A transaction that was refused so that it seems granted waits for fragments that may
\* never come: it gets no further either.)
Spin ==
    /\ conn # None /\ link.up /\ call \notin Stopped \cup {"nbt"}
    /\ call' = "spins"
    /\ UNCHANGED <<target, conn, link, sockets, ret, last, denied, misled>>
-------------------------------------------------------------------------------
(* cifs_connect *)

\* cifs_resolve may fail.
Connect(t) ==
    /\ call = "idle" /\ conn = None
    /\ target' = t /\ denied' = FALSE /\ misled' = {} /\ last' = None
    /\ \/ call' = "socket" /\ ret' = 0
       \/ call' = "idle" /\ ret' = -1
    /\ UNCHANGED <<conn, link, sockets>>

\* On this port a NetBIOS session has to be opened first, also if it was the second choice.
NeedsNbt(port) == port = 139

Reached(port) ==
    /\ port \in Listens
    /\ sockets' = sockets + 1
    /\ link' = [up |-> TRUE, granted |-> port # 139, negotiated |-> FALSE,
                uid |-> 0, trees |-> [t \in {} |-> None]]
    /\ conn' = [tid |-> NoTree, ipc |-> Unset, tree |-> 0, uid |-> 0]
    /\ call' = IF NeedsNbt(port) THEN "nbt" ELSE "negotiate"
    /\ UNCHANGED ret

\* A port may be closed, or not answer although it is open.
ConnectSock ==
    /\ call = "socket"
    /\ \/ \E port \in IF target.port # 0 THEN {target.port} ELSE {445, 139} : Reached(port)
       \/ call' = "idle" /\ ret' = -1 /\ UNCHANGED <<conn, link, sockets>>
    /\ UNCHANGED <<target, last, denied, misled>>

\* One more request of cifs_connect: what it leads to (l, c), or the end of the attempt.
\* One that only seems granted leaves the server as it is, and the client goes on with
\* what it reads in the header of the refusal (m).
Handshake(cmd, grants, l, c, m, next) ==
    /\ \E reply \in Replies :
        /\ Request(cmd, NoTree, grants, reply)
        /\ CASE reply = "ok"   -> link' = l /\ conn' = c /\ call' = next /\ UNCHANGED <<sockets, ret>>
             [] reply = "hard" -> conn' = m /\ call' = next /\ UNCHANGED <<link, sockets, ret>>
             [] OTHER          -> Closed
    /\ UNCHANGED <<target, denied>>

NbtSession ==
    /\ call = "nbt"
    /\ Handshake("nbt", TRUE, [link EXCEPT !.granted = TRUE], conn, conn, "negotiate")

\* The header is cleared, its tree is set to none.
Cleared == [conn EXCEPT !.tree = NoTree]

Negotiate ==
    /\ call = "negotiate"
    /\ Handshake("negotiate", TRUE, [link EXCEPT !.negotiated = TRUE], Cleared, Cleared, "setup")

\* A refusal carries the user of the request: none.
SessionSetup ==
    /\ call = "setup"
    /\ \E u \in Uids :
          Handshake("setup", link.negotiated, [link EXCEPT !.uid = u], [conn EXCEPT !.uid = u],
                    conn, IF target.tree = None THEN "idle" ELSE "tree")

\* What the server knows when it has given the share the number t.
Given(t, share) ==
    [link EXCEPT !.trees =
        [x \in DOMAIN link.trees \cup {t} |-> IF x = t THEN share ELSE link.trees[x]]]

\* A refusal carries the tree of the request, 0xFFFF, which is a number for the client.
InTree(t) == [conn EXCEPT !.tree = t, !.tid = t]

ConnectTree ==
    /\ call = "tree"
    /\ \E t \in Tids :
          Handshake("tree", link.uid # 0, Given(t, target.tree), InTree(t), InTree(NoTree), "idle")

\* cifs_connect_close.
Close ==
    /\ call = "idle" /\ conn # None
    /\ conn' = None /\ link' = None /\ sockets' = sockets - 1
    /\ UNCHANGED <<target, call, ret, last, denied, misled>>
-------------------------------------------------------------------------------
(* Calls on a connection *)

Ready == call = "idle" /\ conn # None

\* What a call that is one request returns. One that only seems granted may still fail,
\* over what it takes for its reply.
Returns(reply) == CASE reply = "ok" -> {0} [] reply = "hard" -> {0, -1} [] OTHER -> {-1}

\* A call that is one request: its success is up to what it asks for.
FileReply(cmd, grants, reply) ==
    /\ Ready
    /\ Request(cmd, conn.tree, Live(conn.tree) /\ grants, reply)
    /\ link' = Drop(reply) /\ ret' \in Returns(reply)
    /\ UNCHANGED <<target, conn, sockets, call, denied>>

FileCall(cmd, grants) == \E reply \in Replies : FileReply(cmd, grants, reply)

\* cifs_mkdir: a directory that cannot be made may be there. A hard refusal does not
\* come so far.
MkdirReply(grants, reply) ==
    /\ Ready
    /\ Request("mkdir", conn.tree, Live(conn.tree) /\ grants, reply)
    /\ link' = Drop(reply)
    /\ IF reply \in {"ok", "hard"}
       THEN ret' = 0 /\ UNCHANGED call ELSE call' = "stat" /\ UNCHANGED ret
    /\ UNCHANGED <<target, conn, sockets, denied>>

Mkdir(grants) == \E reply \in Replies : MkdirReply(grants, reply)

StatResult(isdir) == IF isdir THEN 0 ELSE -1

MkdirStat(found, isdir) ==
    /\ call = "stat"
    /\ \E reply \in Replies :
        /\ Request("find", conn.tree, Live(conn.tree) /\ found, reply)
        /\ link' = Drop(reply)
        /\ ret' \in IF reply = "ok" THEN {StatResult(isdir)} ELSE Returns(reply)
    /\ call' = "idle"
    /\ UNCHANGED <<target, conn, sockets, denied>>

\* cifs_scannode, cifs_tree_ipc: the tree IPC$ is connected once and kept.
Scannode ==
    /\ Ready
    /\ IF conn.ipc = Unset
       THEN call' = "ipc" /\ UNCHANGED conn
       ELSE call' = "rap" /\ conn' = [conn EXCEPT !.tree = conn.ipc]
    /\ UNCHANGED <<target, link, sockets, ret, last, denied, misled>>

InIpc(t) == [conn EXCEPT !.tree = t, !.ipc = t]

\* When IPC$ is refused the header keeps no tree: the early return of cifs_scannode.
TreeIpc ==
    /\ call = "ipc"
    /\ \E reply \in Replies, t \in Tids :
        /\ Request("tree", NoTree, link.uid # 0 /\ ~Live(t), reply)
        /\ CASE reply = "ok"   -> /\ link' = Given(t, IPC) /\ conn' = InIpc(t)
                                 /\ call' = "rap" /\ UNCHANGED <<ret, denied>>
             [] reply = "hard" -> conn' = InIpc(NoTree) /\ call' = "rap" /\ UNCHANGED <<link, ret, denied>>
             [] OTHER          -> /\ link' = Drop(reply) /\ conn' = Cleared
                                  /\ call' = "idle" /\ ret' = -1 /\ denied' = TRUE
    /\ UNCHANGED <<target, sockets>>

\* Mutant of Restored: the way out after an error leaves the tree as it is.
RestoredUnlessFailed(reply) ==
    IF reply = "ok" THEN [conn EXCEPT !.tree = conn.tid] ELSE conn

Restored(reply) == [conn EXCEPT !.tree = conn.tid]

\* The transaction; a reply with a status is an error too.
Rap ==
    /\ call = "rap"
    /\ \E reply \in Replies :
        /\ Request("rap", conn.tree, Live(conn.tree), reply)
        /\ link' = Drop(reply) /\ conn' = Restored(reply)
        /\ ret' \in IF reply = "ok" THEN {0, -1} ELSE Returns(reply)
    /\ call' = "idle"
    /\ UNCHANGED <<target, sockets, denied>>

Connecting == ConnectSock \/ NbtSession \/ Negotiate \/ SessionSetup \/ ConnectTree

\* Any client of the library.
SessionNext ==
    \/ SigPipe \/ Spin \/ Connecting \/ Close
    \/ \E t \in Targets : Connect(t)
    \/ FileCall("find", TRUE) \/ Mkdir(TRUE) \/ \E b \in BOOLEAN : MkdirStat(TRUE, b)
    \/ Scannode \/ TreeIpc \/ Rap

SessionSpec == SessionInit /\ [][SessionNext]_sessionVars
-------------------------------------------------------------------------------
(* Properties *)

\* Every request comes when the server can expect it, with the user and a tree that
\* the server has given for it: nothing before the NetBIOS session on port 139, then
\* one negotiation, then one session setup; the browser's transactions go to IPC$
\* and no other request does. A request without a tree comes only from a connection
\* that has none (cifs_connect without a share), or that was refused IPC$. What goes
\* wrong after a refusal that the client took for success goes wrong only behind it:
\* each such refusal excuses the one rule that it breaks.
InProtocol ==
    LET k == last.link IN
    last # None =>
        /\ last.cmd = "nbt" <=> ~k.granted
        /\ k.granted => "negotiate" \in misled \/ (last.cmd = "negotiate" <=> ~k.negotiated)
        /\ k.negotiated => "setup" \in misled \/ (last.cmd = "setup" <=> k.uid = 0)
        /\ last.uid = k.uid
        /\ last.cmd = "rap" =>
              IF last.tree = NoTree THEN "tree" \in misled
              ELSE last.tree \in DOMAIN k.trees /\ k.trees[last.tree] = IPC
        /\ last.cmd \in {"find", "mkdir", "copy"} =>
              IF last.tree = NoTree THEN target.tree = None \/ denied \/ "tree" \in misled
              ELSE last.tree \in DOMAIN k.trees /\ k.trees[last.tree] = target.tree
===============================================================================
