---------------------------- MODULE SessionProofs ----------------------------
(***************************************************************************)
(* Proofs about Session: every request of a connection comes when the      *)
(* server can expect it (InProtocol), for any client and any server.       *)
(*                                                                         *)
(* The invariant says for every stage of a connection what the server      *)
(* knows of it and how it agrees with the header of the output packet. It  *)
(* is stated action by action, so that the commands, whose steps are made  *)
(* of these actions, can cite the lemmas.                                  *)
(***************************************************************************)
EXTENDS Session, TLAPS

IsLink(l) ==
    /\ l = [up |-> l.up, granted |-> l.granted, negotiated |-> l.negotiated,
            uid |-> l.uid, trees |-> l.trees]
    /\ l.up \in BOOLEAN /\ l.granted \in BOOLEAN /\ l.negotiated \in BOOLEAN

Conns == [tid : Int, ipc : Int, tree : Int, uid : Nat]

Handshakes == {"nbt", "negotiate", "setup", "tree"}

\* A session has been set up, and calls can be made.
Established == call \in {"stat", "ipc", "rap"} \/ (call = "idle" /\ conn # None)

\* The stages of cifs_connect: what has been done, or was taken for done, and no tree yet.
Stages ==
    /\ call \in Handshakes =>
          /\ IsLink(link) /\ conn \in Conns
          /\ conn.tid = NoTree /\ conn.ipc = Unset /\ conn.uid = link.uid
          /\ link.granted <=> call # "nbt"
          /\ link.negotiated => call \in {"setup", "tree"}
          /\ call \in {"setup", "tree"} => link.negotiated \/ "negotiate" \in misled
          /\ link.uid # 0 => call = "tree"
          /\ call = "tree" => link.uid # 0 \/ "setup" \in misled
    /\ call = "setup" => conn.tree = NoTree
    /\ call = "socket" => conn = None

\* The header belongs to the connection, and its tree to the call.
HeaderRight ==
    Established =>
        /\ IsLink(link) /\ conn \in Conns
        /\ link.granted /\ conn.uid = link.uid
        /\ link.negotiated \/ "negotiate" \in misled
        /\ link.uid # 0 \/ "setup" \in misled
        /\ IF conn.tid = NoTree THEN target.tree = None \/ "tree" \in misled
           ELSE conn.tid \in DOMAIN link.trees /\ link.trees[conn.tid] = target.tree
        /\ conn.ipc # Unset =>
              IF conn.ipc = NoTree THEN "tree" \in misled
              ELSE conn.ipc \in DOMAIN link.trees /\ link.trees[conn.ipc] = IPC
        /\ call \in {"idle", "stat"} => conn.tree = conn.tid \/ (conn.tree = NoTree /\ denied)
        /\ call = "ipc" => conn.ipc = Unset
        /\ call = "rap" => conn.ipc # Unset /\ conn.tree = conn.ipc

SessionInv == Stages /\ HeaderRight /\ InProtocol
-------------------------------------------------------------------------------
(* Lemmas about records *)

\* One field of the link is set; the value is kept general for the provers.
SameBut(l, fields) ==
    /\ IsLink(l)
    /\ "up" \in fields \/ l.up = link.up
    /\ "granted" \in fields \/ l.granted = link.granted
    /\ "negotiated" \in fields \/ l.negotiated = link.negotiated
    /\ "uid" \in fields \/ l.uid = link.uid
    /\ "trees" \in fields \/ l.trees = link.trees

LEMMA SetUp ==
    ASSUME IsLink(link), NEW v \in BOOLEAN, NEW l, l = [link EXCEPT !.up = v]
    PROVE  SameBut(l, {"up"}) /\ l.up = v
  BY DEF IsLink, SameBut

LEMMA SetGranted ==
    ASSUME IsLink(link), NEW v \in BOOLEAN, NEW l, l = [link EXCEPT !.granted = v]
    PROVE  SameBut(l, {"granted"}) /\ l.granted = v
  BY DEF IsLink, SameBut

LEMMA SetNegotiated ==
    ASSUME IsLink(link), NEW v \in BOOLEAN, NEW l, l = [link EXCEPT !.negotiated = v]
    PROVE  SameBut(l, {"negotiated"}) /\ l.negotiated = v
  BY DEF IsLink, SameBut

LEMMA SetUid ==
    ASSUME IsLink(link), NEW u, NEW l, l = [link EXCEPT !.uid = u]
    PROVE  SameBut(l, {"uid"}) /\ l.uid = u
  BY DEF IsLink, SameBut

LEMMA SetTrees ==
    ASSUME IsLink(link), NEW t, NEW share, NEW l, l = Given(t, share)
    PROVE  SameBut(l, {"trees"})
  BY DEF IsLink, SameBut, Given

LEMMA SetTreeTid ==
    ASSUME conn \in Conns, NEW t \in Int, NEW c, c = [conn EXCEPT !.tree = t, !.tid = t]
    PROVE  /\ c \in Conns /\ c.tree = t /\ c.tid = t
           /\ c.ipc = conn.ipc /\ c.uid = conn.uid
  BY DEF Conns

LEMMA SetTreeIpc ==
    ASSUME conn \in Conns, NEW t \in Int, NEW c, c = [conn EXCEPT !.tree = t, !.ipc = t]
    PROVE  /\ c \in Conns /\ c.tree = t /\ c.ipc = t
           /\ c.tid = conn.tid /\ c.uid = conn.uid
  BY DEF Conns

LEMMA SetTree ==
    ASSUME conn \in Conns, NEW t \in Int, NEW c, c = [conn EXCEPT !.tree = t]
    PROVE  /\ c \in Conns /\ c.tree = t /\ c.ipc = conn.ipc
           /\ c.tid = conn.tid /\ c.uid = conn.uid
  BY DEF Conns

\* A server that gives a number to a share knows it by that number, and the others as
\* before.
LEMMA GivenTrees ==
    ASSUME IsLink(link), NEW t, NEW share
    PROVE  LET trees == Given(t, share).trees
           IN  /\ t \in DOMAIN trees /\ trees[t] = share
               /\ \A x \in DOMAIN link.trees :
                     x # t => x \in DOMAIN trees /\ trees[x] = link.trees[x]
  BY DEF IsLink, Given
-------------------------------------------------------------------------------
(* Requests *)

\* What the server is shown: a request in its place, or, when the connection is gone,
\* nothing.
InPlace(cmd, tree) ==
    /\ cmd = "nbt" <=> ~link.granted
    /\ link.granted => "negotiate" \in misled \/ (cmd = "negotiate" <=> ~link.negotiated)
    /\ link.negotiated => "setup" \in misled \/ (cmd = "setup" <=> link.uid = 0)
    /\ conn.uid = link.uid
    /\ cmd = "rap" =>
          IF tree = NoTree THEN "tree" \in misled
          ELSE tree \in DOMAIN link.trees /\ link.trees[tree] = IPC
    /\ cmd \in {"find", "mkdir", "copy"} =>
          IF tree = NoTree THEN target.tree = None \/ denied \/ "tree" \in misled
          ELSE tree \in DOMAIN link.trees /\ link.trees[tree] = target.tree

\* What was taken for granted is not forgotten.
LEMMA RequestMisled ==
    ASSUME NEW cmd, NEW tree, NEW grants, NEW reply, Request(cmd, tree, grants, reply)
    PROVE  \A x : x \in misled => x \in misled'
  BY DEF Request

LEMMA RequestInPlace ==
    ASSUME NEW cmd, NEW tree, NEW grants, NEW reply, Request(cmd, tree, grants, reply),
           InPlace(cmd, tree), InProtocol, target' = target, denied => denied'
    PROVE  InProtocol'
<1>0. \A x : x \in misled => x \in misled'
  BY RequestMisled
<1>1. CASE link.up
  <2>1. last' = [cmd |-> cmd, tree |-> tree, uid |-> conn.uid, link |-> link]
    BY <1>1 DEF Request
  <2>2. last'.cmd = cmd /\ last'.tree = tree /\ last'.uid = conn.uid /\ last'.link = link
    BY <2>1
  <2> QED
    BY <1>0, <2>2 DEF InPlace, InProtocol
<1>2. CASE ~link.up
  <2>1. last' = last
    BY <1>2 DEF Request
  <2> QED
    BY <1>0, <2>1 DEF InProtocol
<1> QED
  BY <1>1, <1>2
-------------------------------------------------------------------------------
(* cifs_connect *)

LEMMA ConnectInv == ASSUME NEW t, SessionInv, Connect(t) PROVE SessionInv'
<1>1. conn' = None /\ call' \in {"socket", "idle"} /\ last' = None
  BY DEF Connect
<1> QED
  BY <1>1 DEF SessionInv, Stages, Handshakes, HeaderRight, Established, InProtocol, Connect

\* An attempt that has ended leaves nothing to be said but what has been sent.
LEMMA ClosedInv ==
    ASSUME conn' = None, call' \in {"idle", "killed"}, InProtocol'
    PROVE  SessionInv'
  BY DEF SessionInv, Stages, Handshakes, HeaderRight, Established

LEMMA ConnectSockInv == ASSUME SessionInv, ConnectSock PROVE SessionInv'
<1>1. InProtocol'
  BY DEF SessionInv, InProtocol, ConnectSock
<1>2. CASE \E port \in IF target.port # 0 THEN {target.port} ELSE {445, 139} : Reached(port)
  <2>1. PICK port : Reached(port)
    BY <1>2
  <2>2. /\ link' = [up |-> TRUE, granted |-> port # 139, negotiated |-> FALSE,
                    uid |-> 0, trees |-> [t \in {} |-> None]]
        /\ conn' = [tid |-> NoTree, ipc |-> Unset, tree |-> 0, uid |-> 0]
        /\ call' = IF port = 139 THEN "nbt" ELSE "negotiate"
    BY <2>1 DEF Reached, NeedsNbt
  <2>3. /\ link'.up = TRUE /\ link'.granted = (port # 139) /\ link'.negotiated = FALSE
        /\ link'.uid = 0 /\ IsLink(link')
    BY <2>2 DEF IsLink
  <2>4. /\ conn' \in Conns /\ conn'.tid = NoTree /\ conn'.ipc = Unset /\ conn'.uid = 0
    BY <2>2 DEF Conns, NoTree, Unset
  <2> QED
    BY <1>1, <2>2, <2>3, <2>4 DEF SessionInv, Stages, Handshakes, HeaderRight, Established
<1>3. CASE call' = "idle" /\ ret' = -1 /\ UNCHANGED <<conn, link, sockets>>
  <2>1. conn = None
    BY DEF ConnectSock, SessionInv, Stages
  <2> QED
    BY <1>1, <1>3, <2>1, ClosedInv
<1> QED
  BY <1>2, <1>3 DEF ConnectSock

\* A request of cifs_connect: granted, or refused so that it seems granted, or the end.
LEMMA HandshakeInv ==
    ASSUME SessionInv, NEW cmd, NEW grants, NEW l, NEW c, NEW m, NEW next,
           Handshake(cmd, grants, l, c, m, next), InPlace(cmd, NoTree)
    PROVE  /\ InProtocol' /\ target' = target
           /\ \/ SessionInv'
              \/ grants /\ link' = l /\ conn' = c /\ call' = next /\ misled' = misled
              \/ /\ cmd # "nbt" /\ link' = link /\ conn' = m /\ call' = next
                 /\ cmd \in misled' /\ \A x : x \in misled => x \in misled'
<1>1. PICK reply \in Replies :
        /\ Request(cmd, NoTree, grants, reply)
        /\ CASE reply = "ok"   -> link' = l /\ conn' = c /\ call' = next /\ UNCHANGED <<sockets, ret>>
             [] reply = "hard" -> conn' = m /\ call' = next /\ UNCHANGED <<link, sockets, ret>>
             [] OTHER          -> Closed
  BY DEF Handshake
<1>2. target' = target /\ denied' = denied
  BY DEF Handshake
<1>3. InProtocol'
  BY <1>1, <1>2, RequestInPlace DEF SessionInv
<1>4. CASE reply = "ok"
  BY <1>1, <1>2, <1>3, <1>4 DEF Request
<1>5. CASE reply = "hard"
  BY <1>1, <1>2, <1>3, <1>5 DEF Request
<1>6. CASE reply \notin {"ok", "hard"}
  BY <1>1, <1>2, <1>3, <1>6, ClosedInv DEF Closed
<1> QED
  BY <1>4, <1>5, <1>6

LEMMA NbtInv == ASSUME SessionInv, NbtSession PROVE SessionInv'
<1> DEFINE l == [link EXCEPT !.granted = TRUE]
<1>1. call = "nbt" /\ Handshake("nbt", TRUE, l, conn, conn, "negotiate")
  BY DEF NbtSession
<1>2. /\ IsLink(link) /\ conn \in Conns /\ conn.tid = NoTree /\ conn.ipc = Unset
      /\ conn.uid = link.uid /\ ~link.granted /\ ~link.negotiated /\ link.uid = 0
  BY <1>1 DEF SessionInv, Stages, Handshakes
<1>3. InPlace("nbt", NoTree)
  BY <1>2 DEF InPlace
<1>5. SameBut(l, {"granted"}) /\ l.granted = TRUE
  BY <1>2, SetGranted
<1>6. IsLink(l) /\ l.negotiated = link.negotiated /\ l.uid = link.uid
  BY <1>5 DEF SameBut
<1> HIDE DEF l
<1>4. /\ InProtocol' /\ target' = target
      /\ SessionInv' \/ (link' = l /\ conn' = conn /\ call' = "negotiate")
  BY <1>1, <1>3, HandshakeInv
<1> QED
  BY <1>2, <1>4, <1>5, <1>6 DEF SessionInv, Stages, Handshakes, HeaderRight, Established

LEMMA NegotiateInv == ASSUME SessionInv, Negotiate PROVE SessionInv'
<1> DEFINE l == [link EXCEPT !.negotiated = TRUE]
           c == Cleared
<1>1. call = "negotiate" /\ Handshake("negotiate", TRUE, l, c, c, "setup")
  BY DEF Negotiate
<1>2. /\ IsLink(link) /\ conn \in Conns /\ conn.tid = NoTree /\ conn.ipc = Unset
      /\ conn.uid = link.uid /\ link.granted /\ ~link.negotiated /\ link.uid = 0
  BY <1>1 DEF SessionInv, Stages, Handshakes
<1>3. InPlace("negotiate", NoTree)
  BY <1>2 DEF InPlace
<1>4. SameBut(l, {"negotiated"}) /\ l.negotiated = TRUE
  BY <1>2, SetNegotiated
<1>5. IsLink(l) /\ l.granted = link.granted /\ l.uid = link.uid
  BY <1>4 DEF SameBut
<1>6. /\ c \in Conns /\ c.tid = NoTree /\ c.ipc = Unset /\ c.uid = conn.uid /\ c.tree = NoTree
  BY <1>2 DEF Conns, NoTree, Cleared
<1> HIDE DEF l, c
<1>7. /\ InProtocol' /\ target' = target
      /\ \/ SessionInv'
         \/ link' = l /\ conn' = c /\ call' = "setup"
         \/ link' = link /\ conn' = c /\ call' = "setup" /\ "negotiate" \in misled'
  BY <1>1, <1>3, HandshakeInv
<1>8. CASE link' = l /\ conn' = c /\ call' = "setup"
  BY <1>2, <1>7, <1>4, <1>5, <1>6, <1>8 DEF SessionInv, Stages, Handshakes, HeaderRight, Established
<1>9. CASE link' = link /\ conn' = c /\ call' = "setup" /\ "negotiate" \in misled'
  BY <1>2, <1>7, <1>6, <1>9 DEF SessionInv, Stages, Handshakes, HeaderRight, Established
<1> QED
  BY <1>7, <1>8, <1>9

\* Without a share to connect the attempt has succeeded; of both ends the same is said.
LEMMA SetupDone ==
    ASSUME InProtocol', target' = target, IsLink(link'), conn' \in Conns,
           conn'.tid = NoTree, conn'.ipc = Unset, conn'.uid = link'.uid, conn'.tree = NoTree,
           link'.granted, link'.negotiated \/ "negotiate" \in misled',
           link'.uid # 0 \/ "setup" \in misled',
           call' = IF target.tree = None THEN "idle" ELSE "tree"
    PROVE  SessionInv'
<1>1. CASE target.tree = None
  BY <1>1 DEF SessionInv, Stages, Handshakes, HeaderRight, Established
<1>2. CASE target.tree # None
  BY <1>2 DEF SessionInv, Stages, Handshakes, HeaderRight, Established
<1> QED
  BY <1>1, <1>2

LEMMA SessionSetupInv == ASSUME SessionAssumption, SessionInv, SessionSetup PROVE SessionInv'
<1>1. PICK u \in Uids : Handshake("setup", link.negotiated, [link EXCEPT !.uid = u],
                                  [conn EXCEPT !.uid = u], conn,
                                  IF target.tree = None THEN "idle" ELSE "tree")
  BY DEF SessionSetup
<1> DEFINE l == [link EXCEPT !.uid = u]
           c == [conn EXCEPT !.uid = u]
           next == IF target.tree = None THEN "idle" ELSE "tree"
<1>2. /\ IsLink(link) /\ conn \in Conns /\ conn.tid = NoTree /\ conn.ipc = Unset
      /\ conn.uid = link.uid /\ link.granted /\ link.uid = 0
      /\ link.negotiated \/ "negotiate" \in misled
      /\ conn.tree = NoTree /\ call = "setup"
  BY DEF SessionInv, Stages, Handshakes, SessionSetup
<1>3. InPlace("setup", NoTree)
  BY <1>2 DEF InPlace
<1>4. SameBut(l, {"uid"}) /\ l.uid = u
  BY <1>2, SetUid
<1>5. IsLink(l) /\ l.granted = link.granted /\ l.negotiated = link.negotiated
  BY <1>4 DEF SameBut
<1>6. u \in Nat /\ u # 0
  BY DEF SessionAssumption
<1>7. /\ c \in Conns /\ c.tid = NoTree /\ c.ipc = Unset /\ c.uid = u /\ c.tree = NoTree
  BY <1>2, <1>6 DEF Conns
<1>0. Handshake("setup", link.negotiated, l, c, conn, next)
  BY <1>1
<1> HIDE DEF l, c, next
<1>8. /\ InProtocol' /\ target' = target
      /\ \/ SessionInv'
         \/ link' = l /\ conn' = c /\ call' = next /\ misled' = misled
         \/ /\ link' = link /\ conn' = conn /\ call' = next
            /\ "setup" \in misled' /\ \A x : x \in misled => x \in misled'
  BY <1>0, <1>3, HandshakeInv
<1>9. CASE link' = l /\ conn' = c /\ call' = next /\ misled' = misled
  BY <1>2, <1>4, <1>5, <1>6, <1>7, <1>8, <1>9, SetupDone DEF next
<1>10. CASE /\ link' = link /\ conn' = conn /\ call' = next
            /\ "setup" \in misled' /\ \A x : x \in misled => x \in misled'
  BY <1>2, <1>8, <1>10, SetupDone DEF next
<1> QED
  BY <1>8, <1>9, <1>10

LEMMA ConnectTreeInv == ASSUME SessionAssumption, SessionInv, ConnectTree PROVE SessionInv'
<1>1. PICK t \in Tids : Handshake("tree", link.uid # 0, Given(t, target.tree),
                                  InTree(t), InTree(NoTree), "idle")
  BY DEF ConnectTree
<1> DEFINE l == Given(t, target.tree)
           c == InTree(t)
           m == InTree(NoTree)
<1>2. /\ IsLink(link) /\ conn \in Conns /\ conn.ipc = Unset /\ call = "tree"
      /\ conn.uid = link.uid /\ link.granted
      /\ link.negotiated \/ "negotiate" \in misled
      /\ link.uid # 0 \/ "setup" \in misled
  BY DEF SessionInv, Stages, Handshakes, ConnectTree
<1>3. InPlace("tree", NoTree)
  BY <1>2 DEF InPlace
<1>4. SameBut(l, {"trees"})
  BY <1>2, SetTrees
<1>5. IsLink(l) /\ l.granted = link.granted /\ l.negotiated = link.negotiated
      /\ l.uid = link.uid
  BY <1>4 DEF SameBut
<1>6. t \in DOMAIN l.trees /\ l.trees[t] = target.tree
  BY <1>2, GivenTrees
<1>7. t \in Int /\ t # NoTree /\ NoTree \in Int
  <2>1. t \in Nat /\ t # NoTree
    BY DEF SessionAssumption
  <2> QED
    BY <2>1 DEF NoTree
<1>8. /\ c \in Conns /\ c.tid = t /\ c.ipc = Unset /\ c.uid = conn.uid /\ c.tree = t
  BY <1>2, <1>7, SetTreeTid DEF InTree
<1>9. /\ m \in Conns /\ m.tid = NoTree /\ m.ipc = Unset /\ m.uid = conn.uid /\ m.tree = NoTree
  BY <1>2, <1>7, SetTreeTid DEF InTree
<1>0. Handshake("tree", link.uid # 0, l, c, m, "idle")
  BY <1>1
<1> HIDE DEF l, c, m
<1>10. /\ InProtocol' /\ target' = target
       /\ \/ SessionInv'
          \/ link' = l /\ conn' = c /\ call' = "idle" /\ misled' = misled
          \/ /\ link' = link /\ conn' = m /\ call' = "idle"
             /\ "tree" \in misled' /\ \A x : x \in misled => x \in misled'
  BY <1>0, <1>3, HandshakeInv
<1>11. CASE link' = l /\ conn' = c /\ call' = "idle" /\ misled' = misled
  <2>1. HeaderRight'
    BY <1>2, <1>5, <1>6, <1>7, <1>8, <1>10, <1>11 DEF HeaderRight
  <2> QED
    BY <2>1, <1>10, <1>11 DEF SessionInv, Stages, Handshakes
<1>12. CASE /\ link' = link /\ conn' = m /\ call' = "idle"
            /\ "tree" \in misled' /\ \A x : x \in misled => x \in misled'
  <2>1. HeaderRight'
    BY <1>2, <1>9, <1>10, <1>12 DEF HeaderRight
  <2> QED
    BY <2>1, <1>10, <1>12 DEF SessionInv, Stages, Handshakes
<1> QED
  BY <1>10, <1>11, <1>12
-------------------------------------------------------------------------------
(* Calls on a connection *)

\* What HeaderRight says of the link does not depend on whether it is up.
LEMMA DropLink ==
    ASSUME IsLink(link), NEW reply
    PROVE  SameBut(Drop(reply), {"up"})
<1>1. CASE reply = "lost"
  BY <1>1, SetUp DEF Drop
<1>2. CASE reply # "lost"
  BY <1>2 DEF Drop, SameBut
<1> QED
  BY <1>1, <1>2

\* A step of an established connection that leaves its header alone.
LEMMA KeepsHeader ==
    ASSUME SessionInv, Established, NEW reply, link' = Drop(reply), conn' = conn,
           target' = target, denied' = denied, InProtocol',
           \A x : x \in misled => x \in misled',
           call \in {"idle", "stat"}, call' \in {"idle", "stat"}
    PROVE  SessionInv'
<1>1. IsLink(link)
  BY DEF SessionInv, HeaderRight
<1>2. SameBut(link', {"up"})
  BY <1>1, DropLink
<1>3. IsLink(link') /\ link'.granted = link.granted /\ link'.negotiated = link.negotiated
      /\ link'.uid = link.uid /\ link'.trees = link.trees
  BY <1>2 DEF SameBut
<1>4. HeaderRight'
  BY <1>3 DEF SessionInv, HeaderRight
<1> QED
  BY <1>4 DEF SessionInv, Stages, Handshakes

LEMMA FileInPlace ==
    ASSUME SessionInv, Established, call \in {"idle", "stat"},
           NEW cmd \in {"find", "mkdir", "copy"}
    PROVE  InPlace(cmd, conn.tree)
  BY DEF InPlace, SessionInv, HeaderRight

LEMMA FileReplyInv ==
    ASSUME SessionInv, NEW cmd \in {"find", "copy"}, NEW grants, NEW reply,
           FileReply(cmd, grants, reply)
    PROVE  SessionInv'
<1>1. Established /\ call = "idle" /\ call' = call
  BY DEF FileReply, Ready, Established
<1>2. /\ Request(cmd, conn.tree, Live(conn.tree) /\ grants, reply)
      /\ link' = Drop(reply)
  BY DEF FileReply
<1>3. target' = target /\ denied' = denied /\ conn' = conn
  BY DEF FileReply
<1>4. InPlace(cmd, conn.tree)
  BY <1>1, FileInPlace
<1>5. InProtocol'
  BY <1>2, <1>3, <1>4, RequestInPlace DEF SessionInv
<1>6. \A x : x \in misled => x \in misled'
  BY <1>2, RequestMisled
<1> QED
  BY <1>1, <1>2, <1>3, <1>5, <1>6, KeepsHeader

LEMMA FileCallInv ==
    ASSUME SessionInv, NEW cmd \in {"find", "copy"}, NEW grants, FileCall(cmd, grants)
    PROVE  SessionInv'
  BY FileReplyInv DEF FileCall

LEMMA MkdirReplyInv ==
    ASSUME SessionInv, NEW grants, NEW reply, MkdirReply(grants, reply)
    PROVE  SessionInv'
<1>1. Established /\ call = "idle"
  BY DEF MkdirReply, Ready, Established
<1>2. /\ Request("mkdir", conn.tree, Live(conn.tree) /\ grants, reply)
      /\ link' = Drop(reply) /\ call' \in {"idle", "stat"}
  BY <1>1 DEF MkdirReply
<1>3. target' = target /\ denied' = denied /\ conn' = conn
  BY DEF MkdirReply
<1>4. InPlace("mkdir", conn.tree)
  BY <1>1, FileInPlace
<1>5. InProtocol'
  BY <1>2, <1>3, <1>4, RequestInPlace DEF SessionInv
<1>6. \A x : x \in misled => x \in misled'
  BY <1>2, RequestMisled
<1> QED
  BY <1>1, <1>2, <1>3, <1>5, <1>6, KeepsHeader

LEMMA MkdirInv == ASSUME SessionInv, NEW grants, Mkdir(grants) PROVE SessionInv'
  BY MkdirReplyInv DEF Mkdir

LEMMA MkdirStatInv ==
    ASSUME SessionInv, NEW found, NEW isdir, MkdirStat(found, isdir)
    PROVE  SessionInv'
<1>1. Established /\ call = "stat" /\ call' = "idle"
  BY DEF MkdirStat, Established
<1>2. PICK reply \in Replies :
        /\ Request("find", conn.tree, Live(conn.tree) /\ found, reply)
        /\ link' = Drop(reply)
  BY DEF MkdirStat
<1>3. target' = target /\ denied' = denied /\ conn' = conn
  BY DEF MkdirStat
<1>4. InPlace("find", conn.tree)
  BY <1>1, FileInPlace
<1>5. InProtocol'
  BY <1>2, <1>3, <1>4, RequestInPlace DEF SessionInv
<1>6. \A x : x \in misled => x \in misled'
  BY <1>2, RequestMisled
<1> QED
  BY <1>1, <1>2, <1>3, <1>5, <1>6, KeepsHeader

LEMMA ScannodeInv == ASSUME SessionInv, Scannode PROVE SessionInv'
<1>1. /\ Established /\ call = "idle" /\ conn \in Conns /\ conn # None
  BY DEF Scannode, Ready, Established, SessionInv, HeaderRight
<1>2. InProtocol'
  BY DEF Scannode, SessionInv, InProtocol
<1>3. CASE conn.ipc = Unset
  <2>1. call' = "ipc" /\ UNCHANGED <<target, conn, link, denied, misled>>
    BY <1>3 DEF Scannode
  <2> QED
    BY <2>1, <1>1, <1>2, <1>3 DEF SessionInv, Stages, Handshakes, HeaderRight, Established
<1>4. CASE conn.ipc # Unset
  <2>1. /\ call' = "rap" /\ conn' = [conn EXCEPT !.tree = conn.ipc]
        /\ UNCHANGED <<target, link, denied, misled>>
    BY <1>4 DEF Scannode
  <2>2. conn.ipc \in Int
    BY <1>1 DEF Conns
  <2>3. /\ conn' \in Conns /\ conn'.tree = conn.ipc /\ conn'.ipc = conn.ipc
        /\ conn'.tid = conn.tid /\ conn'.uid = conn.uid
    BY <2>1, <2>2, <1>1, SetTree
  <2>4. HeaderRight'
    BY <2>1, <2>3, <1>1, <1>4 DEF SessionInv, HeaderRight
  <2> QED
    BY <2>1, <2>4, <1>2 DEF SessionInv, Stages, Handshakes
<1> QED
  BY <1>3, <1>4

LEMMA TreeIpcInv == ASSUME SessionAssumption, SessionInv, TreeIpc PROVE SessionInv'
<1>1. /\ Established /\ call = "ipc" /\ IsLink(link) /\ conn \in Conns /\ conn.ipc = Unset
      /\ link.granted /\ conn.uid = link.uid
      /\ link.negotiated \/ "negotiate" \in misled
      /\ link.uid # 0 \/ "setup" \in misled
  BY DEF TreeIpc, Established, SessionInv, HeaderRight
<1>2. PICK reply \in Replies, t \in Tids :
        /\ Request("tree", NoTree, link.uid # 0 /\ ~Live(t), reply)
        /\ CASE reply = "ok"   -> /\ link' = Given(t, IPC) /\ conn' = InIpc(t)
                                 /\ call' = "rap" /\ UNCHANGED <<ret, denied>>
             [] reply = "hard" -> conn' = InIpc(NoTree) /\ call' = "rap" /\ UNCHANGED <<link, ret, denied>>
             [] OTHER          -> /\ link' = Drop(reply) /\ conn' = Cleared
                                  /\ call' = "idle" /\ ret' = -1 /\ denied' = TRUE
  BY DEF TreeIpc
<1>3. target' = target
  BY DEF TreeIpc
<1>4. InPlace("tree", NoTree)
  BY <1>1 DEF InPlace
<1>5. denied => denied'
  BY <1>2
<1>6. InProtocol'
  BY <1>2, <1>3, <1>4, <1>5, RequestInPlace DEF SessionInv
<1>7. t \in Int /\ t # NoTree /\ NoTree \in Int
  <2>1. t \in Nat /\ t # NoTree
    BY DEF SessionAssumption
  <2> QED
    BY <2>1 DEF NoTree
<1>8. \A x : x \in misled => x \in misled'
  BY <1>2, RequestMisled
<1>9. CASE reply = "ok"
  <2>1. /\ link' = Given(t, IPC) /\ conn' = InIpc(t)
        /\ call' = "rap" /\ t \notin DOMAIN link.trees
    BY <1>2, <1>9 DEF Request, Live
  <2>2. /\ conn' \in Conns /\ conn'.tree = t /\ conn'.ipc = t
        /\ conn'.tid = conn.tid /\ conn'.uid = conn.uid
    BY <2>1, <1>1, <1>7, SetTreeIpc DEF InIpc
  <2>3. SameBut(link', {"trees"})
    BY <2>1, <1>1, SetTrees
  <2>4. IsLink(link') /\ link'.granted = link.granted /\ link'.negotiated = link.negotiated
        /\ link'.uid = link.uid
    BY <2>3 DEF SameBut
  <2>5. /\ t \in DOMAIN link'.trees /\ link'.trees[t] = IPC
        /\ \A x \in DOMAIN link.trees :
              x # t => x \in DOMAIN link'.trees /\ link'.trees[x] = link.trees[x]
    BY <2>1, <1>1, GivenTrees
  <2>6. t # Unset
    BY DEF SessionAssumption, Unset
  <2>7. HeaderRight'
    BY <2>1, <2>2, <2>4, <2>5, <2>6, <1>1, <1>3, <1>7, <1>8 DEF SessionInv, HeaderRight
  <2> QED
    BY <2>1, <2>7, <1>6 DEF SessionInv, Stages, Handshakes
<1>10. CASE reply = "hard"
  <2>1. /\ link' = link /\ conn' = InIpc(NoTree) /\ call' = "rap" /\ "tree" \in misled'
    BY <1>2, <1>10 DEF Request
  <2>2. /\ conn' \in Conns /\ conn'.tree = NoTree /\ conn'.ipc = NoTree
        /\ conn'.tid = conn.tid /\ conn'.uid = conn.uid
    BY <2>1, <1>1, <1>7, SetTreeIpc DEF InIpc
  <2>3. NoTree # Unset
    BY DEF NoTree, Unset
  <2>4. HeaderRight'
    BY <2>1, <2>2, <2>3, <1>1, <1>3, <1>8 DEF SessionInv, HeaderRight
  <2> QED
    BY <2>1, <2>4, <1>6 DEF SessionInv, Stages, Handshakes
<1>11. CASE reply \notin {"ok", "hard"}
  <2>1. /\ link' = Drop(reply) /\ conn' = Cleared
        /\ call' = "idle" /\ denied' = TRUE
    BY <1>2, <1>11
  <2>2. /\ conn' \in Conns /\ conn'.tree = NoTree /\ conn'.ipc = conn.ipc
        /\ conn'.tid = conn.tid /\ conn'.uid = conn.uid
    BY <2>1, <1>1, <1>7, SetTree DEF Cleared
  <2>3. SameBut(link', {"up"})
    BY <2>1, <1>1, DropLink
  <2>4. IsLink(link') /\ link'.granted = link.granted /\ link'.negotiated = link.negotiated
        /\ link'.uid = link.uid /\ link'.trees = link.trees
    BY <2>3 DEF SameBut
  <2>5. HeaderRight'
    BY <2>1, <2>2, <2>4, <1>1, <1>3, <1>8 DEF SessionInv, HeaderRight
  <2> QED
    BY <2>1, <2>5, <1>6 DEF SessionInv, Stages, Handshakes
<1> QED
  BY <1>9, <1>10, <1>11

LEMMA RapInv == ASSUME SessionInv, Rap PROVE SessionInv'
<1>1. /\ Established /\ call = "rap" /\ IsLink(link) /\ conn \in Conns
      /\ link.granted /\ conn.uid = link.uid
      /\ link.negotiated \/ "negotiate" \in misled
      /\ link.uid # 0 \/ "setup" \in misled
      /\ IF conn.tree = NoTree THEN "tree" \in misled
         ELSE conn.tree \in DOMAIN link.trees /\ link.trees[conn.tree] = IPC
  BY DEF Rap, Established, SessionInv, HeaderRight
<1>2. PICK reply \in Replies :
        /\ Request("rap", conn.tree, Live(conn.tree), reply)
        /\ link' = Drop(reply) /\ conn' = [conn EXCEPT !.tree = conn.tid]
  BY DEF Rap, Restored
<1>3. target' = target /\ denied' = denied /\ call' = "idle"
  BY DEF Rap
<1>4. InPlace("rap", conn.tree)
  BY <1>1 DEF InPlace
<1>5. InProtocol'
  BY <1>2, <1>3, <1>4, RequestInPlace DEF SessionInv
<1>6. /\ conn' \in Conns /\ conn'.tree = conn.tid /\ conn'.ipc = conn.ipc
      /\ conn'.tid = conn.tid /\ conn'.uid = conn.uid
  <2>1. conn.tid \in Int
    BY <1>1 DEF Conns
  <2> QED
    BY <1>1, <1>2, <2>1, SetTree
<1>7. SameBut(link', {"up"})
  BY <1>1, <1>2, DropLink
<1>8. IsLink(link') /\ link'.granted = link.granted /\ link'.negotiated = link.negotiated
      /\ link'.uid = link.uid /\ link'.trees = link.trees
  BY <1>7 DEF SameBut
<1>9. \A x : x \in misled => x \in misled'
  BY <1>2, RequestMisled
<1>10. HeaderRight'
  BY <1>1, <1>3, <1>6, <1>8, <1>9 DEF SessionInv, HeaderRight
<1> QED
  BY <1>3, <1>5, <1>10 DEF SessionInv, Stages, Handshakes

LEMMA SigPipeInv == ASSUME SessionInv, SigPipe PROVE SessionInv'
<1>1. call' = "killed" /\ UNCHANGED <<target, last, denied, misled>>
  BY DEF SigPipe
<1> QED
  BY <1>1 DEF SessionInv, Stages, Handshakes, HeaderRight, Established, InProtocol

LEMMA SpinInv == ASSUME SessionInv, Spin PROVE SessionInv'
<1>1. call' = "spins" /\ UNCHANGED <<target, last, denied, misled>>
  BY DEF Spin
<1> QED
  BY <1>1 DEF SessionInv, Stages, Handshakes, HeaderRight, Established, InProtocol

LEMMA CloseInv == ASSUME SessionInv, Close PROVE SessionInv'
<1>1. /\ conn' = None /\ call = "idle" /\ UNCHANGED <<target, call, last, denied, misled>>
  BY DEF Close
<1>2. InProtocol'
  BY <1>1 DEF SessionInv, InProtocol
<1> QED
  BY <1>1, <1>2, ClosedInv

LEMMA ConnectingInv == ASSUME SessionAssumption, SessionInv, Connecting PROVE SessionInv'
  BY ConnectSockInv, NbtInv, NegotiateInv, SessionSetupInv, ConnectTreeInv DEF Connecting

LEMMA StutterInv == ASSUME SessionInv, UNCHANGED sessionVars PROVE SessionInv'
  BY DEF sessionVars, SessionInv, Stages, Handshakes, HeaderRight, Established, InProtocol

LEMMA InitInv == ASSUME SessionInit PROVE SessionInv
<1>1. conn = None /\ call = "idle" /\ last = None
  BY DEF SessionInit
<1> QED
  BY <1>1 DEF SessionInv, Stages, Handshakes, HeaderRight, Established, InProtocol
-------------------------------------------------------------------------------
\* Any client of the library, whatever its server grants, refuses or drops: the header
\* of the output packet belongs to the connection at every stage.
THEOREM InvCorrect == SessionSpec => []SessionInv
<1>1. SessionInit => SessionInv
  BY InitInv
<1>2. SessionInv /\ [SessionNext]_sessionVars => SessionInv'
  <2> SUFFICES ASSUME SessionInv, [SessionNext]_sessionVars PROVE SessionInv'
    OBVIOUS
  <2>1. CASE SigPipe
    BY <2>1, SigPipeInv
  <2>12. CASE Spin
    BY <2>12, SpinInv
  <2>2. CASE Connecting
    BY <2>2, SessionAssumption, ConnectingInv
  <2>3. CASE Close
    BY <2>3, CloseInv
  <2>4. CASE \E t \in Targets : Connect(t)
    BY <2>4, ConnectInv
  <2>5. CASE FileCall("find", TRUE)
    BY <2>5, FileCallInv
  <2>6. CASE Mkdir(TRUE)
    BY <2>6, MkdirInv
  <2>7. CASE \E b \in BOOLEAN : MkdirStat(TRUE, b)
    BY <2>7, MkdirStatInv
  <2>8. CASE Scannode
    BY <2>8, ScannodeInv
  <2>9. CASE TreeIpc
    BY <2>9, SessionAssumption, TreeIpcInv
  <2>10. CASE Rap
    BY <2>10, RapInv
  <2>11. CASE UNCHANGED sessionVars
    BY <2>11, StutterInv
  <2> QED
    BY <2>1, <2>2, <2>3, <2>4, <2>5, <2>6, <2>7, <2>8, <2>9, <2>10, <2>11, <2>12 DEF SessionNext
<1> QED
  BY <1>1, <1>2, PTL DEF SessionSpec

\* Every request comes when the server can expect it, with a user and a tree that the
\* server has given for it.
THEOREM ProtocolCorrect == SessionSpec => []InProtocol
<1>1. SessionInv => InProtocol
  BY DEF SessionInv
<1> QED
  BY <1>1, InvCorrect, PTL
===============================================================================
