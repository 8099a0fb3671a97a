----------------------------- MODULE CifscpProofs -----------------------------
(***************************************************************************)
(* Proofs about Cifscp: its requests are those of a client that keeps to   *)
(* the protocol (SessionProofs), the sockets that are open between its     *)
(* calls are accounted for, and what is copied to one file has one origin. *)
(***************************************************************************)
EXTENDS Cifscp, SessionProofs, SequenceTheorems

\* A socket for the connection in use and for each that was left behind.
SocketsRight ==
    /\ sockets \in Int /\ leaks \in Int
    /\ call # "killed" => sockets = leaks + (IF conn = None THEN 0 ELSE 1)
    /\ call \notin {"idle", "socket", "killed"} => conn # None
-------------------------------------------------------------------------------
(* The sockets of each action of Session *)

LEMMA NotNone == ASSUME NEW c \in Conns PROVE c # None
  BY NoneAssumption DEF Conns

LEMMA ConnectSockets ==
    ASSUME SocketsRight, leaks' = leaks, NEW t, Connect(t)
    PROVE  SocketsRight'
  BY DEF SocketsRight, Connect

LEMMA ClosedSockets ==
    ASSUME SocketsRight, leaks' = leaks, call # "killed", conn # None, Closed
    PROVE  SocketsRight'
  BY DEF SocketsRight, Closed

LEMMA ConnectSockSockets ==
    ASSUME SessionInv, SocketsRight, leaks' = leaks, ConnectSock
    PROVE  SocketsRight'
<1>1. conn = None /\ call = "socket"
  BY DEF SessionInv, Stages, ConnectSock
<1>2. CASE \E port \in IF target.port # 0 THEN {target.port} ELSE {445, 139} : Reached(port)
  <2>1. PICK port : Reached(port)
    BY <1>2
  <2>2. /\ conn' = [tid |-> NoTree, ipc |-> Unset, tree |-> 0, uid |-> 0]
        /\ sockets' = sockets + 1 /\ call' \in {"nbt", "negotiate"}
    BY <2>1 DEF Reached
  <2>3. conn' \in Conns
    BY <2>2 DEF Conns, NoTree, Unset
  <2> QED
    BY <2>2, <2>3, <1>1, NotNone DEF SocketsRight
<1>3. CASE call' = "idle" /\ ret' = -1 /\ UNCHANGED <<conn, link, sockets>>
  BY <1>1, <1>3 DEF SocketsRight
<1> QED
  BY <1>2, <1>3 DEF ConnectSock

LEMMA HandshakeSockets ==
    ASSUME SessionInv, SocketsRight, leaks' = leaks, call \in Handshakes,
           NEW cmd, NEW grants, NEW l, NEW c \in Conns, NEW m \in Conns, NEW next,
           next # "killed", Handshake(cmd, grants, l, c, m, next)
    PROVE  SocketsRight'
<1>1. conn # None /\ call # "killed"
  BY DEF SocketsRight, Handshakes
<1>2. CASE conn' \in Conns /\ call' = next /\ sockets' = sockets
  BY <1>1, <1>2, NotNone DEF SocketsRight
<1>3. CASE Closed
  BY <1>1, <1>3, ClosedSockets
<1> QED
  BY <1>2, <1>3 DEF Handshake

LEMMA ConnectingSockets ==
    ASSUME SessionInv, SocketsRight, leaks' = leaks, Connecting
    PROVE  SocketsRight'
<1>1. CASE ConnectSock
  BY <1>1, ConnectSockSockets
<1>2. CASE NbtSession \/ Negotiate \/ SessionSetup \/ ConnectTree
  <2>1. call \in Handshakes /\ conn \in Conns
    BY <1>2 DEF SessionInv, Stages, Handshakes, NbtSession, Negotiate, SessionSetup, ConnectTree
  <2>2. CASE NbtSession
    BY <2>1, <2>2, HandshakeSockets DEF NbtSession
  <2>3. CASE Negotiate
    <3>1. NoTree \in Int
      BY DEF NoTree
    <3>2. Cleared \in Conns
      BY <2>1, <3>1, SetTree DEF Cleared
    <3> QED
      BY <2>1, <2>3, <3>2, HandshakeSockets DEF Negotiate
  <2>4. CASE SessionSetup
    <3>1. PICK u \in Uids : Handshake("setup", link.negotiated, [link EXCEPT !.uid = u],
                                      [conn EXCEPT !.uid = u], conn,
                                      IF target.tree = None THEN "idle" ELSE "tree")
      BY <2>4 DEF SessionSetup
    <3>2. u \in Nat
      <4>1. Uids \subseteq Nat \ {0}
        BY SessionAssumption DEF SessionAssumption
      <4> QED
        BY <4>1
    <3>3. [conn EXCEPT !.uid = u] \in Conns
      BY <2>1, <3>2 DEF Conns
    <3> QED
      BY <2>1, <3>1, <3>3, HandshakeSockets
  <2>5. CASE ConnectTree
    <3>1. PICK t \in Tids : Handshake("tree", link.uid # 0, Given(t, target.tree),
                                      InTree(t), InTree(NoTree), "idle")
      BY <2>5 DEF ConnectTree
    <3>2. t \in Int /\ NoTree \in Int
      BY SessionAssumption DEF SessionAssumption, NoTree
    <3>3. InTree(t) \in Conns /\ InTree(NoTree) \in Conns
      BY <2>1, <3>2, SetTreeTid DEF InTree
    <3> QED
      BY <2>1, <3>1, <3>3, HandshakeSockets
  <2> QED
    BY <1>2, <2>2, <2>3, <2>4, <2>5
<1> QED
  BY <1>1, <1>2 DEF Connecting

\* The calls on a connection open and close none.
LEMMA CallSockets ==
    ASSUME SocketsRight, leaks' = leaks, sockets' = sockets, call # "killed", conn # None,
           call' # "killed", conn' # None
    PROVE  SocketsRight'
  BY DEF SocketsRight

LEMMA FileReplySockets ==
    ASSUME SocketsRight, leaks' = leaks, NEW cmd, NEW grants, NEW reply,
           FileReply(cmd, grants, reply)
    PROVE  SocketsRight'
  BY CallSockets DEF FileReply, Ready

LEMMA FileCallSockets ==
    ASSUME SocketsRight, leaks' = leaks, NEW cmd, NEW grants, FileCall(cmd, grants)
    PROVE  SocketsRight'
  BY FileReplySockets DEF FileCall

LEMMA MkdirSockets ==
    ASSUME SocketsRight, leaks' = leaks, NEW grants, NEW reply, MkdirReply(grants, reply)
    PROVE  SocketsRight'
<1>1. /\ call = "idle" /\ conn # None /\ conn' = conn /\ sockets' = sockets
      /\ call' \in {"idle", "stat"}
  BY DEF MkdirReply, Ready
<1> QED
  BY <1>1, CallSockets

LEMMA MkdirStatSockets ==
    ASSUME SocketsRight, leaks' = leaks, NEW found, NEW isdir, MkdirStat(found, isdir)
    PROVE  SocketsRight'
<1>1. call = "stat" /\ conn # None /\ conn' = conn /\ sockets' = sockets /\ call' = "idle"
  BY DEF MkdirStat, SocketsRight
<1> QED
  BY <1>1, CallSockets

LEMMA BrowserSockets ==
    ASSUME SessionInv, SocketsRight, leaks' = leaks, Scannode \/ TreeIpc \/ Rap
    PROVE  SocketsRight'
<1>1. conn # None /\ call \in {"idle", "ipc", "rap"} /\ sockets' = sockets
      /\ call' \in {"idle", "ipc", "rap"}
  BY DEF Scannode, TreeIpc, Rap, Ready, SocketsRight
<1>2. conn \in Conns
  BY <1>1 DEF SessionInv, HeaderRight, Established
<1>3. \A t \in Int : [conn EXCEPT !.tree = t] \in Conns
  BY <1>2, SetTree
<1>4. \A t \in Int : InIpc(t) \in Conns
  BY <1>2, SetTreeIpc DEF InIpc
<1>5. conn' \in Conns
  <2>1. CASE Scannode
    <3>1. conn.ipc \in Int
      BY <1>2 DEF Conns
    <3> QED
      BY <2>1, <3>1, <1>2, <1>3 DEF Scannode
  <2>2. CASE TreeIpc
    <3>1. NoTree \in Int /\ Tids \subseteq Int
      BY SessionAssumption DEF SessionAssumption, NoTree
    <3> QED
      BY <2>2, <3>1, <1>3, <1>4 DEF TreeIpc, Cleared
  <2>3. CASE Rap
    <3>1. conn.tid \in Int
      BY <1>2 DEF Conns
    <3> QED
      BY <2>3, <3>1, <1>3 DEF Rap, Restored
  <2> QED
    BY <2>1, <2>2, <2>3
<1> QED
  BY <1>1, <1>5, NotNone, CallSockets
-------------------------------------------------------------------------------
(* The invariant of the command *)

\* The command line; only dstdir is ever changed.
CommandRight ==
    /\ {"mode", "sources", "target", "path", "dirs", "files", "dstdir"} \subseteq DOMAIN inv
    /\ Len(inv.sources) \in Nat /\ inv.dstdir \in BOOLEAN /\ inv.path \in Seq(Names)
    /\ \A j \in 1..Len(inv.sources) :
          inv.sources[j].scheme = "file" => inv.sources[j].name \in Names
    /\ i \in Nat \ {0}

\* A connection is forgotten only by a download, and before it is closed.
ForgetRight ==
    /\ pc = "forget" => /\ inv.mode # "list" /\ call \in {"idle", "killed", "spins"}
                        /\ call = "idle" => conn # None
    /\ inv.mode = "list" => leaks = 0

\* Where a download stands: in its only source, if it has a destination for one file.
\* An upload copies nothing to a local file.
Places ==
    /\ pc \in {"target", "connected", "stat"} => inv.mode = "upload"
    /\ inv.mode = "download" /\ ~inv.dstdir /\ pc # "exit" => Len(inv.sources) <= 1
    /\ pc \in {"connect", "mask", "entries"} => i <= Len(inv.sources)

Origins ==
    /\ inv.mode = "upload" => DOMAIN local = {}
    /\ \A n \in DOMAIN local : \A o \in local[n] : IF inv.dstdir THEN o[2] = n ELSE o[1] = 1

CommandInv == SessionInv /\ SocketsRight /\ CommandRight /\ ForgetRight /\ Places /\ Origins

LEMMA CommandInit == ASSUME CifscpAssumption, CifscpInit PROVE CommandInv
<1>1. SessionInv
  BY InitInv DEF CifscpInit
<1>2. SocketsRight
  BY DEF CifscpInit, SessionInit, SocketsRight
<1>3. CommandRight
  BY DEF CifscpInit, CifscpAssumption, CommandRight
<1>4. pc # "forget" /\ leaks = 0
  BY DEF CifscpInit
<1>5. ForgetRight
  BY <1>4 DEF ForgetRight
<1>6. Places
  <2>1. Len(inv.sources) \in Nat /\ inv.dstdir \in BOOLEAN
    BY <1>3 DEF CommandRight
  <2>2. pc = IF inv.mode = "upload" THEN "target"
             ELSE IF inv.mode = "download" /\ Len(inv.sources) > 1 /\ ~inv.dstdir THEN "exit"
             ELSE "source"
    BY DEF CifscpInit
  <2> QED
    BY <2>1, <2>2 DEF Places
<1>7. Origins
  BY DEF CifscpInit, Origins
<1> QED
  BY <1>1, <1>2, <1>3, <1>5, <1>6, <1>7 DEF CommandInv
-------------------------------------------------------------------------------
(* One lemma per part of the invariant *)

\* A step of the command is a step of one call, or none: what it does to the connection.
LEMMA CallsInv ==
    ASSUME CommandInv, CifscpNext
    PROVE  SessionInv' /\ SocketsRight'
<1>1. SessionInv /\ SocketsRight /\ leaks \in Int
  BY DEF CommandInv, SocketsRight
<1>2. ASSUME UNCHANGED <<sessionVars, leaks>> PROVE SessionInv' /\ SocketsRight'
  BY <1>1, <1>2, StutterInv DEF SocketsRight, sessionVars
<1>3. CASE Done \/ BadSource \/ WrongSide \/ Connected \/ FoundDomains
           \/ OpenDirFails \/ SkipEntry \/ SkipSpecial \/ EnterDir \/ CloseDir
  BY <1>2, <1>3 DEF Done, BadSource, WrongSide, Connected, FoundDomains, OpenDirFails,
                    SkipEntry, SkipSpecial, EnterDir, CloseDir, Quiet
<1>4. CASE TargetConnected \/ Made
  BY <1>2, <1>4 DEF TargetConnected, Made
<1>5. CASE ConnectSource \/ ConnectTarget
  <2>1. leaks' = leaks /\ \E t : Connect(t)
    BY <1>5 DEF ConnectSource, ConnectTarget, Quiet
  <2> QED
    BY <1>1, <2>1, ConnectInv, ConnectSockets
<1>6. CASE Mask \/ ListDir \/ DownloadEntry
  <2>1. leaks' = leaks /\ (FileCall("find", TRUE) \/ FileCall("copy", TRUE))
    BY <1>6 DEF Mask, ListDir, DownloadEntry, Quiet
  <2> QED
    BY <1>1, <2>1, FileCallInv, FileCallSockets
<1>7. CASE ListEntry
  <2>1. leaks' = leaks /\ (FileCall("find", TRUE) \/ UNCHANGED sessionVars)
    BY <1>7 DEF ListEntry, Quiet
  <2> QED
    BY <1>1, <1>2, <2>1, FileCallInv, FileCallSockets
<1>8. CASE StatTarget
  <2>1. leaks' = leaks /\ \E grants, reply : FileReply("find", grants, reply)
    BY <1>8 DEF StatTarget
  <2> QED
    BY <1>1, <2>1, FileReplyInv, FileReplySockets
<1>9. CASE UploadSource
  <2>1. CASE UNCHANGED sessionVars
    BY <2>1, <1>2, <1>9 DEF UploadSource
  <2>2. CASE \E reply : FileReply("copy", CanPut(UploadName), reply)
    <3>1. leaks' = leaks
      BY <1>9 DEF UploadSource
    <3> QED
      BY <2>2, <3>1, <1>1, FileReplyInv, FileReplySockets
  <2> QED
    BY <2>1, <2>2, <1>9 DEF UploadSource
<1>10. CASE UploadEntry
  <2>1. leaks' = leaks /\ \E grants, reply : FileReply("copy", grants, reply)
    BY <1>10 DEF UploadEntry
  <2> QED
    BY <2>1, <1>1, FileReplyInv, FileReplySockets
<1>11. CASE MakeDir
  <2>1. leaks' = leaks /\ \E grants, reply : MkdirReply(grants, reply)
    BY <1>11 DEF MakeDir
  <2> QED
    BY <2>1, <1>1, MkdirReplyInv, MkdirSockets
<1>12. CASE MakeDirStat
  BY <1>1, <1>12, MkdirStatInv, MkdirStatSockets DEF MakeDirStat, Quiet
<1>13. CASE ScanDomains \/ ScanServers \/ ScanShares
  <2>1. leaks' = leaks /\ Scannode
    BY <1>13 DEF ScanDomains, ScanServers, ScanShares, Quiet
  <2> QED
    BY <1>1, <2>1, ScannodeInv, BrowserSockets
<1>14. CASE CloseSource
  <2>1. leaks' = leaks /\ Close
    BY <1>14 DEF CloseSource, Quiet
  <2>2. SocketsRight'
    BY <1>1, <2>1 DEF Close, SocketsRight
  <2> QED
    BY <1>1, <2>1, <2>2, CloseInv
<1>15. CASE Forget
  <2>1. /\ conn' = None /\ call = "idle" /\ call' = call /\ leaks' = leaks + 1
        /\ sockets' = sockets /\ conn # None /\ UNCHANGED <<target, last, denied, misled>>
    BY <1>15 DEF Forget, CommandInv, ForgetRight
  <2>2. SocketsRight'
    BY <1>1, <2>1 DEF SocketsRight
  <2>3. InProtocol'
    BY <1>1, <2>1 DEF SessionInv, InProtocol
  <2> QED
    BY <2>1, <2>2, <2>3, ClosedInv
<1>16. CASE InCall
  <2>1. leaks' = leaks /\ (SigPipe \/ Spin \/ Connecting \/ TreeIpc \/ Rap)
    BY <1>16 DEF InCall, Quiet
  <2>2. CASE SigPipe
    BY <1>1, <2>1, <2>2, SigPipeInv DEF SigPipe, SocketsRight
  <2>6. CASE Spin
    BY <1>1, <2>1, <2>6, SpinInv DEF Spin, Stopped, SocketsRight
  <2>3. CASE Connecting
    <3>1. SessionInv'
      BY <1>1, <2>3, SessionAssumption, ConnectingInv
    <3>2. SocketsRight'
      BY <1>1, <2>1, <2>3, ConnectingSockets
    <3> QED
      BY <3>1, <3>2
  <2>4. CASE TreeIpc
    <3>1. SessionInv'
      BY <1>1, <2>4, SessionAssumption, TreeIpcInv
    <3>2. SocketsRight'
      BY <1>1, <2>1, <2>4, BrowserSockets
    <3> QED
      BY <3>1, <3>2
  <2>5. CASE Rap
    BY <1>1, <2>1, <2>5, RapInv, BrowserSockets
  <2> QED
    BY <2>1, <2>2, <2>3, <2>4, <2>5, <2>6
<1> QED
  BY <1>3, <1>4, <1>5, <1>6, <1>7, <1>8, <1>9, <1>10, <1>11, <1>12, <1>13, <1>14, <1>15, <1>16
     DEF CifscpNext
\* What a step may do to the command line and to the place in it.
LEMMA CommandStep ==
    ASSUME CommandRight, CifscpNext
    PROVE  /\ i' = i \/ i' = i + 1
           /\ \/ inv' = inv
              \/ /\ pc \in {"connected", "stat"} /\ UNCHANGED <<i, local, leaks>>
                 /\ \E b \in BOOLEAN : inv' = [inv EXCEPT !.dstdir = b]
                 /\ pc' \in {"exit", "source", "stat"}
<1>1. CASE Done \/ BadSource \/ WrongSide \/ ConnectSource \/ Connected \/ Mask \/ Forget
           \/ CloseSource \/ ListEntry \/ ListDir \/ DownloadEntry
  BY <1>1 DEF Done, BadSource, WrongSide, ConnectSource, Connected, Mask, Forget,
              CloseSource, ListEntry, ListDir, DownloadEntry, Quiet, NextSource
<1>2. CASE ScanDomains \/ FoundDomains \/ ScanServers \/ ScanShares \/ ConnectTarget
  BY <1>2 DEF ScanDomains, FoundDomains, ScanServers, ScanShares, ConnectTarget, Quiet
<1>3. CASE UploadSource \/ OpenDirFails \/ MakeDir \/ MakeDirStat \/ Made
  BY <1>3 DEF UploadSource, OpenDirFails, MakeDir, MakeDirStat, Made, Quiet, NextSource, Return
<1>4. CASE SkipEntry \/ SkipSpecial \/ EnterDir \/ UploadEntry \/ CloseDir \/ InCall
  BY <1>4 DEF SkipEntry, SkipSpecial, EnterDir, UploadEntry, CloseDir, InCall, Quiet, NextSource,
              Return
<1>5. CASE TargetConnected
  <2>1. inv' = [inv EXCEPT !.dstdir = (inv.path = <<>>)] /\ (inv.path = <<>>) \in BOOLEAN
    BY <1>5 DEF TargetConnected
  <2>2. pc = "connected" /\ UNCHANGED <<i, local, leaks>> /\ pc' \in {"exit", "source", "stat"}
    BY <1>5 DEF TargetConnected
  <2> QED
    BY <2>1, <2>2
<1>6. CASE StatTarget
  <2>1. PICK b \in BOOLEAN : inv' = [inv EXCEPT !.dstdir = b]
    BY <1>6 DEF StatTarget
  <2>2. pc = "stat" /\ UNCHANGED <<i, local, leaks>> /\ pc' \in {"exit", "source"}
    BY <1>6 DEF StatTarget
  <2> QED
    BY <2>1, <2>2
<1> QED
  BY <1>1, <1>2, <1>3, <1>4, <1>5, <1>6 DEF CifscpNext

\* A destination that is found to be a directory changes nothing else of the command.
LEMMA SetDstdir ==
    ASSUME CommandRight, NEW b \in BOOLEAN, inv' = [inv EXCEPT !.dstdir = b]
    PROVE  /\ DOMAIN inv' = DOMAIN inv /\ inv'.dstdir = b /\ inv'.mode = inv.mode
           /\ inv'.sources = inv.sources /\ inv'.path = inv.path
  BY DEF CommandRight

LEMMA CommandRightInv == ASSUME CommandRight, CifscpNext PROVE CommandRight'
<1>1. i' \in Nat \ {0}
  BY CommandStep DEF CommandRight
<1>2. CASE inv' = inv
  BY <1>1, <1>2 DEF CommandRight
<1>3. CASE \E b \in BOOLEAN : inv' = [inv EXCEPT !.dstdir = b]
  <2>1. PICK b \in BOOLEAN : inv' = [inv EXCEPT !.dstdir = b]
    BY <1>3
  <2>2. /\ DOMAIN inv' = DOMAIN inv /\ inv'.dstdir = b
        /\ inv'.sources = inv.sources /\ inv'.path = inv.path
    BY <2>1, SetDstdir
  <2> QED
    BY <2>2, <1>1 DEF CommandRight
<1> QED
  BY <1>2, <1>3, CommandStep

LEMMA ForgetRightInv == ASSUME CommandInv, CifscpNext PROVE ForgetRight'
<1>1. CommandRight /\ ForgetRight /\ Places
  BY DEF CommandInv
<1>2. inv'.mode = inv.mode
  BY <1>1, CommandStep, SetDstdir
<1>3. CASE Forget
  BY <1>1, <1>3, <1>2 DEF Forget, NextSource, ForgetRight
<1>4. CASE Mask
  <2>1. /\ pc' = "forget" => inv.mode # "list"
        /\ call' = "idle" /\ conn' = conn /\ conn # None /\ leaks' = leaks
    BY <1>4 DEF Mask, NoMatch, Quiet, FileCall, FileReply, Ready
  <2> QED
    BY <2>1, <1>1, <1>2 DEF ForgetRight
<1>5. CASE InCall
  <2>1. pc' = pc /\ leaks' = leaks
    BY <1>5 DEF InCall, Quiet
  <2>2. CASE pc = "forget"
    <3>1. CASE SigPipe
      BY <3>1, <2>1, <1>1, <1>2 DEF SigPipe, ForgetRight
    <3>3. CASE Spin
      BY <3>3, <2>1, <1>1, <1>2 DEF Spin, ForgetRight
    <3>2. CASE Connecting \/ TreeIpc \/ Rap
      \* Not so: no call is under way when the command is about to forget.
      BY <3>2, <2>2, <1>1
         DEF Connecting, ConnectSock, NbtSession, Negotiate, SessionSetup, ConnectTree,
             TreeIpc, Rap, ForgetRight
    <3> QED
      BY <3>1, <3>2, <3>3, <1>5 DEF InCall
  <2> QED
    BY <2>1, <2>2, <1>1, <1>2 DEF ForgetRight
<1>6. CASE TargetConnected \/ StatTarget
  <2>1. leaks' = leaks /\ pc' # "forget"
    BY <1>6 DEF TargetConnected, StatTarget
  <2> QED
    BY <2>1, <1>1, <1>2 DEF ForgetRight
<1>7. CASE Done \/ BadSource \/ WrongSide \/ ConnectSource \/ Connected
           \/ CloseSource \/ ListEntry \/ ListDir \/ DownloadEntry
           \/ ScanDomains \/ FoundDomains \/ ScanServers \/ ScanShares \/ ConnectTarget
  <2>1. leaks' = leaks /\ (pc' = pc => pc # "forget") /\ (pc' # pc => pc' # "forget")
    BY <1>7 DEF Done, BadSource, WrongSide, ConnectSource, Connected, CloseSource, ListEntry,
                ListDir, DownloadEntry, ScanDomains, FoundDomains, ScanServers, ScanShares,
                ConnectTarget, NextSource, Quiet
  <2> QED
    BY <2>1, <1>1, <1>2 DEF ForgetRight
<1>8. CASE UploadSource \/ OpenDirFails \/ MakeDir \/ MakeDirStat \/ Made
           \/ SkipEntry \/ SkipSpecial \/ EnterDir \/ UploadEntry \/ CloseDir
  <2>1. leaks' = leaks /\ pc' # "forget"
    BY <1>8 DEF UploadSource, OpenDirFails, MakeDir, MakeDirStat, Made, SkipEntry, SkipSpecial,
                EnterDir, UploadEntry, CloseDir, NextSource, Return, Quiet
  <2> QED
    BY <2>1, <1>1, <1>2 DEF ForgetRight
<1> QED
  BY <1>3, <1>4, <1>5, <1>6, <1>7, <1>8 DEF CifscpNext

LEMMA PlacesInv == ASSUME CommandInv, CifscpNext PROVE Places'
<1>1. CommandRight /\ Places
  BY DEF CommandInv
<1>2. inv'.mode = inv.mode /\ inv'.sources = inv.sources
  BY <1>1, CommandStep, SetDstdir
<1>3. i \in Nat \ {0} /\ Len(inv.sources) \in Nat
  BY <1>1 DEF CommandRight
<1>4. CASE TargetConnected \/ StatTarget
  <2>1. pc \in {"connected", "stat"} /\ pc' \in {"exit", "source", "stat"}
    BY <1>4 DEF TargetConnected, StatTarget
  <2> QED
    BY <2>1, <1>1, <1>2 DEF Places
<1>5. CASE ConnectSource
  <2>1. pc = "source" /\ pc' = "connect" /\ i <= Len(inv.sources) /\ i' = i /\ inv' = inv
    BY <1>5 DEF ConnectSource, Quiet
  <2> QED
    BY <2>1, <1>1 DEF Places
<1>6. CASE Connected \/ Mask \/ Forget \/ CloseSource \/ ListEntry \/ ListDir \/ DownloadEntry
  <2>1. /\ inv' = inv /\ pc \notin {"exit", "target", "connected", "stat"}
        /\ pc' \notin {"target", "connected", "stat"}
        /\ pc' \in {"connect", "mask", "entries"} => i' = i /\ pc \in {"connect", "mask", "entries"}
    BY <1>6 DEF Connected, Mask, NoMatch, Forget, CloseSource, ListEntry, ListDir, DownloadEntry,
                NextSource, Quiet
  <2> QED
    BY <2>1, <1>1 DEF Places
<1>7. CASE Done \/ BadSource \/ WrongSide
           \/ ScanDomains \/ FoundDomains \/ ScanServers \/ ScanShares
  <2>1. /\ inv' = inv /\ pc # "exit"
        /\ pc' \notin {"target", "connected", "stat", "connect", "mask", "entries"}
    BY <1>7 DEF Done, BadSource, WrongSide, ScanDomains, FoundDomains, ScanServers, ScanShares,
                NextSource, Quiet
  <2> QED
    BY <2>1, <1>1 DEF Places
<1>8. CASE ConnectTarget
  <2>1. inv' = inv /\ pc = "target" /\ pc' = "connected"
    BY <1>8 DEF ConnectTarget, Quiet
  <2> QED
    BY <2>1, <1>1 DEF Places
<1>9. CASE UploadSource \/ OpenDirFails \/ MakeDir \/ MakeDirStat \/ Made
           \/ SkipEntry \/ SkipSpecial \/ EnterDir \/ UploadEntry \/ CloseDir
  <2>1. /\ inv' = inv /\ pc # "exit"
        /\ pc' \notin {"target", "connected", "stat", "connect", "mask", "entries"}
    BY <1>9 DEF UploadSource, OpenDirFails, MakeDir, MakeDirStat, Made, SkipEntry, SkipSpecial,
                EnterDir, UploadEntry, CloseDir, NextSource, Return, Quiet
  <2> QED
    BY <2>1, <1>1 DEF Places
<1>10. CASE InCall
  <2>1. UNCHANGED <<inv, pc, i>>
    BY <1>10 DEF InCall, Quiet
  <2> QED
    BY <2>1, <1>1 DEF Places
<1> QED
  BY <1>4, <1>5, <1>6, <1>7, <1>8, <1>9, <1>10 DEF CifscpNext

\* Only a download writes local files, each from its place in the command line.
LEMMA OriginsInv == ASSUME CommandInv, CifscpNext PROVE Origins'
<1>1. CommandRight /\ Places /\ Origins
  BY DEF CommandInv
<1>2. CASE DownloadEntry
  <2> DEFINE n == DownloadName(Head(left))
             before == IF n \in DOMAIN local THEN local[n] ELSE {}
             after == [m \in DOMAIN local \cup {n} |->
                          IF m = n THEN before \cup {<<i, Head(left)>>} ELSE local[m]]
  <2>1. /\ pc = "entries" /\ inv.mode = "download" /\ inv' = inv
        /\ local' = local \/ local' = after
    BY <1>2 DEF DownloadEntry
  <2>2. CASE local' = local
    BY <2>1, <2>2, <1>1 DEF Origins
  <2>3. CASE local' = after
    <3>1. ~inv.dstdir => i = 1
      BY <2>1, <1>1 DEF Places, CommandRight
    <3>2. inv.dstdir => n = Head(left)
      BY DEF DownloadName
    <3>3. \A o \in before \cup {<<i, Head(left)>>} : IF inv.dstdir THEN o[2] = n ELSE o[1] = 1
      BY <3>1, <3>2, <1>1 DEF Origins
    <3>4. /\ DOMAIN after = DOMAIN local \cup {n}
          /\ \A m \in DOMAIN after :
                after[m] = IF m = n THEN before \cup {<<i, Head(left)>>} ELSE local[m]
      OBVIOUS
    <3> HIDE DEF n, before, after
    <3>5. \A m \in DOMAIN after : \A o \in after[m] : IF inv.dstdir THEN o[2] = m ELSE o[1] = 1
      BY <3>3, <3>4, <1>1 DEF Origins
    <3> QED
      BY <3>5, <2>1, <2>3 DEF Origins
  <2> QED
    BY <2>1, <2>2, <2>3
<1>3. CASE TargetConnected \/ StatTarget
  <2>1. local' = local /\ pc \in {"connected", "stat"} /\ DOMAIN local = {}
    BY <1>1, <1>3 DEF TargetConnected, StatTarget, Places, Origins
  <2> QED
    BY <2>1 DEF Origins
<1>4. CASE UNCHANGED <<inv, local>>
  BY <1>1, <1>4 DEF Origins
<1>5. CASE Done \/ BadSource \/ WrongSide \/ ConnectSource \/ Connected \/ Mask \/ Forget
           \/ CloseSource \/ ListEntry \/ ListDir
           \/ ScanDomains \/ FoundDomains \/ ScanServers \/ ScanShares \/ ConnectTarget
  BY <1>4, <1>5 DEF Done, BadSource, WrongSide, ConnectSource, Connected, Mask, Forget,
                    CloseSource, ListEntry, ListDir, ScanDomains, FoundDomains, ScanServers,
                    ScanShares, ConnectTarget, Quiet
<1>6. CASE UploadSource \/ OpenDirFails \/ MakeDir \/ MakeDirStat \/ Made
           \/ SkipEntry \/ SkipSpecial \/ EnterDir \/ UploadEntry \/ CloseDir \/ InCall
  BY <1>4, <1>6 DEF UploadSource, OpenDirFails, MakeDir, MakeDirStat, Made, SkipEntry, SkipSpecial,
                    EnterDir, UploadEntry, CloseDir, InCall, Quiet
<1> QED
  BY <1>2, <1>3, <1>5, <1>6 DEF CifscpNext
-------------------------------------------------------------------------------
\* The invariant of the command, for all command lines, servers and local directories.
THEOREM CommandCorrect == CifscpSpec => []CommandInv
<1>1. CifscpInit => CommandInv
  BY CifscpAssumption, CommandInit
<1>2. CommandInv /\ [CifscpNext]_cifscpVars => CommandInv'
  <2> SUFFICES ASSUME CommandInv, [CifscpNext]_cifscpVars PROVE CommandInv'
    OBVIOUS
  <2>1. CASE CifscpNext
    <3>1. CommandRight'
      BY <2>1, CommandRightInv DEF CommandInv
    <3> QED
      BY <2>1, <3>1, CallsInv, ForgetRightInv, PlacesInv, OriginsInv DEF CommandInv
  <2>2. CASE UNCHANGED cifscpVars
    <3>1. SessionInv'
      BY <2>2, StutterInv DEF cifscpVars, CommandInv
    <3>2. UNCHANGED <<inv, i, pc, local, leaks, sockets, conn, call>>
      BY <2>2 DEF cifscpVars, sessionVars
    <3>3. SocketsRight' /\ CommandRight'
      BY <3>2 DEF CommandInv, SocketsRight, CommandRight
    <3>4. ForgetRight' /\ Places' /\ Origins'
      BY <3>2 DEF CommandInv, ForgetRight, Places, Origins
    <3> QED
      BY <3>1, <3>3, <3>4 DEF CommandInv
  <2> QED
    BY <2>1, <2>2
<1> QED
  BY <1>1, <1>2, PTL DEF CifscpSpec

\* cifscp makes its calls so that every request comes when the server can expect it.
THEOREM ProtocolKept == CifscpSpec => []InProtocol
<1>1. CommandInv => InProtocol
  BY DEF CommandInv, SessionInv
<1> QED
  BY <1>1, CommandCorrect, PTL

\* No socket is open between two calls but that of the connection in use and those of
\* downloads whose search failed.
THEOREM ConnectionsClosed == CifscpSpec => []ClosesConnections
<1>1. CommandInv => ClosesConnections
  BY DEF CommandInv, SocketsRight, ForgetRight, ClosesConnections
<1> QED
  BY <1>1, CommandCorrect, PTL

\* What several matches or sources put into one file has one name or one source.
THEOREM OriginCorrect == CifscpSpec => []OneOrigin
<1>1. CommandInv => OneOrigin
  BY DEF CommandInv, Origins, OneOrigin
<1> QED
  BY <1>1, CommandCorrect, PTL
-------------------------------------------------------------------------------
(* The stack of cifs_upload_dir *)

Entries == UNION {Kids[n] : n \in DOMAIN Kids}
Frames  == [node : DOMAIN Kids, path : Seq(Names), links : Nat, todo : SUBSET Entries]

\* The directory that a call of cifs_upload_dir mirrors.
Of(s, k) == <<s[k].path, s[k].node>>

\* The stack with other entries to come in the last directory.
WithTodo(T) == [stack EXCEPT ![Len(stack)].todo = T]

LEMMA SetTodo ==
    ASSUME stack \in Seq(Frames), Len(stack) \in Nat \ {0}, NEW T \in SUBSET Entries
    PROVE  /\ WithTodo(T) \in Seq(Frames) /\ Len(WithTodo(T)) = Len(stack)
           /\ WithTodo(T)[Len(stack)].todo = T
           /\ \A k \in 1..Len(stack) :
                 /\ WithTodo(T)[k].path = stack[k].path /\ WithTodo(T)[k].node = stack[k].node
                 /\ k < Len(stack) => WithTodo(T)[k].todo = stack[k].todo
<1>1. Len(stack) \in 1..Len(stack) /\ stack[Len(stack)] \in Frames
  BY ElementOfSeq
<1> DEFINE f == [stack[Len(stack)] EXCEPT !.todo = T]
<1>2. f \in Frames /\ f.todo = T /\ f.path = stack[Len(stack)].path
      /\ f.node = stack[Len(stack)].node
  BY <1>1 DEF Frames
<1>3. WithTodo(T) = [stack EXCEPT ![Len(stack)] = f]
  BY DEF WithTodo
<1> HIDE DEF f
<1>4. WithTodo(T) \in Seq(Frames) /\ Len(WithTodo(T)) = Len(stack)
      /\ \A k \in 1..Len(stack) : WithTodo(T)[k] = IF k = Len(stack) THEN f ELSE stack[k]
  BY <1>1, <1>2, <1>3, ExceptSeq
<1> QED
  BY <1>1, <1>2, <1>4

LEMMA Push ==
    ASSUME NEW s \in Seq(Frames), NEW f \in Frames, NEW t, t = Append(s, f)
    PROVE  /\ t \in Seq(Frames) /\ Len(t) = Len(s) + 1 /\ t[Len(t)] = f
           /\ \A k \in 1..Len(s) : t[k] = s[k]
  BY AppendProperties

LEMMA Pop ==
    ASSUME stack \in Seq(Frames), Len(stack) >= 1, NEW t, t = SubSeq(stack, 1, Len(stack) - 1)
    PROVE  /\ t \in Seq(Frames) /\ Len(t) = Len(stack) - 1
           /\ \A k \in 1..Len(t) : t[k] = stack[k]
<1>1. PICK n \in Nat : n = Len(stack) - 1
  BY LenProperties
<1>2. \A k \in 1..n : stack[k] \in Frames
  BY <1>1, ElementOfSeq
<1>3. /\ SubSeq(stack, 1, n) \in Seq(Frames) /\ Len(SubSeq(stack, 1, n)) = n
      /\ \A k \in 1..n : SubSeq(stack, 1, n)[k] = stack[k]
  BY <1>2, SubSeqProperties
<1> QED
  BY <1>1, <1>3

LEMMA ParentOf ==
    ASSUME NEW p \in Seq(Names), NEW n \in Names
    PROVE  Append(p, n) \in Seq(Names) /\ Parent(Append(p, n)) = p
<1>1. Append(p, n) \in Seq(Names) /\ Len(Append(p, n)) = Len(p) + 1 /\ Len(p) \in Nat
      /\ \A k \in 1..Len(p) : Append(p, n)[k] = p[k]
  BY AppendProperties, LenProperties
<1>2. /\ SubSeq(Append(p, n), 1, Len(p)) \in Seq(Names)
      /\ Len(SubSeq(Append(p, n), 1, Len(p))) = Len(p)
      /\ \A k \in 1..Len(p) : SubSeq(Append(p, n), 1, Len(p))[k] = Append(p, n)[k]
  BY <1>1, SubSeqProperties
<1>3. SubSeq(Append(p, n), 1, Len(p)) = p
  BY <1>1, <1>2, SeqEqual
<1> QED
  BY <1>1, <1>3 DEF Parent
-------------------------------------------------------------------------------
(* The invariant of an upload *)

InDirs == {"dir", "made", "read"}
UploadPcs == {"target", "connected", "stat", "source", "exit", "crashed", "done"} \cup InDirs

Paths(m) == {x[1] : x \in m}

\* The stack is there while a local directory is walked, and its directories are made:
\* all but the last one, and the last one when its entries are read.
StackRight ==
    /\ stack \in Seq(Frames)
    /\ pc \in InDirs <=> Len(stack) # 0
    /\ inv.mode = "upload" => pc \in UploadPcs
    /\ \A k \in 1..Len(stack) : k < Len(stack) \/ pc = "read" => Of(stack, k) \in made
    /\ Len(stack) # 0 =>
          /\ inv.mode = "upload"
          /\ i \in 1..Len(inv.sources) /\ inv.sources[i].scheme = "file"
          /\ stack[1].node = inv.sources[i].node
    /\ pc = "made" => call \in {"idle", "stat", "killed", "spins"}

\* What was taken for made is there, and what was put lies in it; the connection of an
\* upload is made once, before all that, so that its misled is that of the whole upload.
MadeRight ==
    /\ made \subseteq Seq(Names) \X DOMAIN Kids
    /\ \A p \in puts : Parent(p) \in Paths(made)
    /\ inv.mode # "upload" \/ pc = "target" => made = {} /\ puts = {}
    /\ Straight => Paths(made) \subseteq dirs
    /\ Straight /\ ~failed => puts \subseteq files
    /\ Straight /\ pc = "made" /\ call = "idle" /\ ret = 0 => Top.path \in dirs

\* An entry of a directory is none to be put, there already, still to come, or being made.
Covered(m, e) ==
    \/ e.node \in Specials
    \/ Append(m[1], e.name) \in puts \cup Paths(made)
    \/ \E k \in 1..Len(stack) : m = Of(stack, k) /\ e \in stack[k].todo
    \/ pc \in {"dir", "made"} /\ Top.path = Append(m[1], e.name)

IsDir(j) == inv.sources[j].scheme = "file" /\ inv.sources[j].node \in DOMAIN Kids

Complete ==
    ~failed =>
        /\ \A m \in made : \A e \in Kids[m[2]] : Covered(m, e)
        /\ inv.mode = "upload" =>
              /\ \A j \in 1..Len(inv.sources) : j < i /\ IsDir(j) => \E m \in made : m[2] = inv.sources[j].node
              /\ pc = "done" => i > Len(inv.sources)

UploadInv == StackRight /\ MadeRight /\ Complete

LEMMA UploadInit == ASSUME CommandInv, CifscpInit PROVE UploadInv
<1>1. /\ stack = <<>> /\ made = {} /\ puts = {} /\ i = 1 /\ pc \in {"target", "exit", "source"}
      /\ inv.mode = "upload" => pc = "target"
  BY DEF CifscpInit
<1>2. stack \in Seq(Frames) /\ Len(stack) = 0
  BY <1>1, EmptySeq
<1>3. StackRight
  BY <1>1, <1>2 DEF StackRight, InDirs, UploadPcs
<1>4. MadeRight
  BY <1>1 DEF MadeRight, Paths
<1>5. Complete
  BY <1>1 DEF Complete
<1> QED
  BY <1>3, <1>4, <1>5 DEF UploadInv

LEMMA UploadMirrored == ASSUME CommandInv, UploadInv PROVE Mirrored
<1>1. Paths(made) = {m[1] : m \in made}
  BY DEF Paths
<1>2. /\ \A p \in puts : Parent(p) \in Paths(made)
      /\ Straight => Paths(made) \subseteq dirs
      /\ Straight /\ ~failed => puts \subseteq files
  BY DEF UploadInv, MadeRight
<1>3. ASSUME Straight, inv.mode = "upload", pc = "done", ~failed
      PROVE  /\ \A j \in 1..Len(inv.sources) :
                  inv.sources[j].scheme = "file" /\ inv.sources[j].node \in DOMAIN Kids
                      => \E m \in made : m[2] = inv.sources[j].node
             /\ \A m \in made : \A e \in Kids[m[2]] :
                  e.node \in Specials \/ Append(m[1], e.name) \in files \cup dirs
  <2>1. Len(stack) = 0
    BY <1>3, LenProperties DEF UploadInv, StackRight, InDirs
  <2>2. i > Len(inv.sources) /\ Len(inv.sources) \in Nat /\ i \in Nat
    BY <1>3 DEF UploadInv, Complete, CommandInv, CommandRight
  <2>3. \A m \in made : \A e \in Kids[m[2]] : Covered(m, e)
    BY <1>3 DEF UploadInv, Complete
  <2>4. \A m \in made : \A e \in Kids[m[2]] :
            e.node \in Specials \/ Append(m[1], e.name) \in puts \cup Paths(made)
    BY <2>1, <2>3, <1>3 DEF Covered
  <2>5. puts \cup Paths(made) \subseteq files \cup dirs
    BY <1>2, <1>3
  <2> QED
    BY <2>2, <2>4, <2>5, <1>3 DEF UploadInv, Complete, IsDir
<1> QED
  BY <1>1, <1>2, <1>3 DEF Mirrored
-------------------------------------------------------------------------------
(* What every step keeps *)

\* The connection forgets nothing that was taken for granted.
Remembers == \A x : x \in misled => x \in misled'

LEMMA StillStraight == ASSUME Remembers, Straight' PROVE Straight
  BY DEF Remembers, Straight

LEMMA FileReplyGrows ==
    ASSUME NEW cmd, NEW grants, NEW reply, FileReply(cmd, grants, reply)
    PROVE  Remembers
  BY RequestMisled DEF FileReply, Remembers

LEMMA FileCallGrows ==
    ASSUME NEW cmd, NEW grants, FileCall(cmd, grants)
    PROVE  Remembers
  BY FileReplyGrows DEF FileCall

LEMMA InCallGrows == ASSUME InCall PROVE Remembers
<1>1. CASE SigPipe \/ Spin \/ ConnectSock
  BY <1>1 DEF SigPipe, Spin, ConnectSock, Remembers
<1>2. ASSUME NEW cmd, NEW grants, NEW l, NEW c, NEW m, NEW next,
             Handshake(cmd, grants, l, c, m, next)
      PROVE  Remembers
  BY <1>2, RequestMisled DEF Handshake, Remembers
<1>3. CASE NbtSession \/ Negotiate \/ SessionSetup \/ ConnectTree
  BY <1>2, <1>3 DEF NbtSession, Negotiate, SessionSetup, ConnectTree
<1>4. CASE TreeIpc
  BY <1>4, RequestMisled DEF TreeIpc, Remembers
<1>5. CASE Rap
  BY <1>5, RequestMisled DEF Rap, Remembers
<1> QED
  BY <1>1, <1>3, <1>4, <1>5 DEF InCall, Connecting

LEMMA CopiedGrows ==
    ASSUME NEW path, NEW reply, files' \in Copied(path, reply)
    PROVE  files \subseteq files' /\ (reply = "ok" => path \in files')
  BY DEF Copied

\* Files are not taken away, and a new connection comes only before anything is put.
LEMMA Grows ==
    ASSUME CommandInv, UploadInv, CifscpNext
    PROVE  /\ files \subseteq files'
           /\ Straight' => Straight \/ (made = {} /\ puts = {})
           /\ pc' = "target" => pc = "target"
<1>1. CASE Done \/ BadSource \/ WrongSide \/ Connected \/ FoundDomains
           \/ OpenDirFails \/ SkipEntry \/ SkipSpecial \/ EnterDir \/ CloseDir
  <2>1. UNCHANGED <<files, misled>> /\ (pc' = "target" => pc = "target")
    BY <1>1 DEF Done, BadSource, WrongSide, Connected, FoundDomains, OpenDirFails,
                SkipEntry, SkipSpecial, EnterDir, CloseDir, Quiet, NextSource, Return, sessionVars
  <2> QED
    BY <2>1 DEF Straight
<1>2. CASE TargetConnected \/ Made
  <2>1. UNCHANGED <<files, misled>> /\ (pc' = "target" => pc = "target")
    BY <1>2 DEF TargetConnected, Made, NextSource, Return, sessionVars
  <2> QED
    BY <2>1 DEF Straight
<1>3. CASE ConnectSource \/ ConnectTarget
  <2>1. files' = files /\ pc' # "target" /\ (inv.mode # "upload" \/ pc = "target")
    BY <1>3 DEF ConnectSource, ConnectTarget, Quiet
  <2> QED
    BY <2>1 DEF UploadInv, MadeRight
<1>4. CASE Mask \/ ListDir \/ DownloadEntry
  <2>1. files' = files /\ (pc' = "target" => pc = "target")
    BY <1>4 DEF Mask, NoMatch, ListDir, DownloadEntry, Quiet
  <2>2. Remembers
    BY <1>4, FileCallGrows DEF Mask, ListDir, DownloadEntry
  <2> QED
    BY <2>1, <2>2, StillStraight
<1>5. CASE ListEntry
  <2>1. files' = files /\ pc' = pc /\ (FileCall("find", TRUE) \/ UNCHANGED sessionVars)
    BY <1>5 DEF ListEntry, Quiet
  <2>2. Remembers
    BY <2>1, FileCallGrows DEF Remembers, sessionVars
  <2> QED
    BY <2>1, <2>2, StillStraight
<1>6. CASE StatTarget
  <2>1. files' = files /\ pc' # "target" /\ \E grants, reply : FileReply("find", grants, reply)
    BY <1>6 DEF StatTarget
  <2> QED
    BY <2>1, FileReplyGrows, StillStraight
<1>7. CASE UploadSource
  <2>1. pc' # "target"
    BY <1>7 DEF UploadSource, NextSource
  <2>2. CASE UNCHANGED <<sessionVars, files>>
    BY <2>1, <2>2 DEF sessionVars, Straight
  <2>3. CASE \E reply : /\ FileReply("copy", CanPut(UploadName), reply)
                        /\ files' \in Copied(UploadName, reply)
    BY <2>1, <2>3, FileReplyGrows, StillStraight, CopiedGrows
  <2> QED
    BY <2>2, <2>3, <1>7 DEF UploadSource
<1>8. CASE UploadEntry
  <2>1. pc' = pc /\ \E grants, reply, path :
            FileReply("copy", grants, reply) /\ files' \in Copied(path, reply)
    BY <1>8 DEF UploadEntry
  <2> QED
    BY <2>1, FileReplyGrows, StillStraight, CopiedGrows
<1>9. CASE MakeDir
  <2>1. files' = files /\ pc' # "target" /\ \E grants, reply : MkdirReply(grants, reply)
    BY <1>9 DEF MakeDir
  <2>2. Remembers
    BY <2>1, RequestMisled DEF MkdirReply, Remembers
  <2> QED
    BY <2>1, <2>2, StillStraight
<1>10. CASE MakeDirStat
  <2>1. files' = files /\ pc' = pc
    BY <1>10 DEF MakeDirStat, Quiet
  <2>2. Remembers
    BY <1>10, RequestMisled DEF MakeDirStat, MkdirStat, Remembers
  <2> QED
    BY <2>1, <2>2, StillStraight
<1>11. CASE ScanDomains \/ ScanServers \/ ScanShares \/ CloseSource \/ Forget
  <2>1. UNCHANGED <<files, misled>> /\ (pc' = "target" => pc = "target")
    BY <1>11 DEF ScanDomains, ScanServers, ScanShares, Scannode, CloseSource, Close, Forget,
                 NextSource, Quiet
  <2> QED
    BY <2>1 DEF Straight
<1>12. CASE InCall
  <2>1. files' = files /\ pc' = pc
    BY <1>12 DEF InCall, Quiet
  <2> QED
    BY <2>1, <1>12, InCallGrows, StillStraight
<1> QED
  BY <1>1, <1>2, <1>3, <1>4, <1>5, <1>6, <1>7, <1>8, <1>9, <1>10, <1>11, <1>12 DEF CifscpNext

\* The part of MadeRight that does not speak of the directory in hand.
LEMMA MadeKept ==
    ASSUME CommandInv, UploadInv, CifscpNext, UNCHANGED <<made, puts>>, inv'.mode = inv.mode,
           dirs \subseteq dirs', failed => failed',
           Straight' /\ pc' = "made" /\ call' = "idle" /\ ret' = 0 => Top'.path \in dirs'
    PROVE  MadeRight'
<1>1. /\ files \subseteq files'
      /\ Straight' => Straight \/ (made = {} /\ puts = {})
      /\ pc' = "target" => pc = "target"
  BY Grows
<1>2. Paths(made') = Paths(made) /\ (made = {} => Paths(made) = {})
  BY DEF Paths
<1> QED
  BY <1>1, <1>2 DEF UploadInv, MadeRight
-------------------------------------------------------------------------------
(* Steps outside of the local directories *)

LEMMA ElsewhereInv ==
    ASSUME CommandInv, UploadInv, CifscpNext, UNCHANGED <<stack, dirs, made, puts>>,
           pc \notin InDirs, pc' \notin InDirs, failed => failed',
           inv.mode = "upload" =>
              /\ pc' \in UploadPcs
              /\ i' # i /\ i \in 1..Len(inv.sources) => ~IsDir(i)
              /\ pc' = "done" => i' = i /\ i > Len(inv.sources)
    PROVE  UploadInv'
<1>1. inv'.mode = inv.mode /\ inv'.sources = inv.sources
  BY CommandStep, SetDstdir DEF CommandInv
<1>2. Len(stack) = 0 /\ i \in Nat \ {0} /\ Len(inv.sources) \in Nat
  BY LenProperties DEF UploadInv, StackRight, CommandInv, CommandRight
<1>3. StackRight'
  BY <1>1, <1>2 DEF UploadInv, StackRight, InDirs
<1>4. MadeRight'
  <2>1. pc' # "made"
    BY DEF InDirs
  <2> QED
    BY <1>1, <2>1, MadeKept
<1>5. Complete'
  <2>1. ASSUME ~failed' PROVE \A m \in made : \A e \in Kids[m[2]] : Covered(m, e)'
    <3>1. \A m \in made : \A e \in Kids[m[2]] : Covered(m, e)
      BY <2>1 DEF UploadInv, Complete
    <3>2. ~(\E k \in 1..Len(stack) : TRUE) /\ pc \notin {"dir", "made"}
      BY <1>2 DEF InDirs
    <3>3. \A m \in made : \A e \in Kids[m[2]] :
              e.node \in Specials \/ Append(m[1], e.name) \in puts \cup Paths(made)
      BY <3>1, <3>2 DEF Covered
    <3> QED
      BY <3>3 DEF Covered
  <2>2. ASSUME ~failed', inv.mode = "upload"
        PROVE  /\ \A j \in 1..Len(inv.sources) :
                    j < i' /\ IsDir(j) => \E m \in made : m[2] = inv.sources[j].node
               /\ pc' = "done" => i' > Len(inv.sources)
    <3>1. \A j \in 1..Len(inv.sources) : j < i /\ IsDir(j) => \E m \in made : m[2] = inv.sources[j].node
      BY <2>2 DEF UploadInv, Complete
    <3>2. i' = i \/ i' = i + 1
      BY CommandStep DEF CommandInv
    <3>3. \A j \in 1..Len(inv.sources) : j < i' /\ IsDir(j) => j < i
      BY <3>2, <2>2, <1>2
    <3> QED
      BY <3>1, <3>3, <2>2
  <2>3. \A j : IsDir(j)' <=> IsDir(j)
    BY <1>1 DEF IsDir
  <2> QED
    BY <1>1, <2>1, <2>2, <2>3 DEF Complete
<1> QED
  BY <1>3, <1>4, <1>5 DEF UploadInv

LEMMA NotInDirs ==
    ASSUME CommandInv, UploadInv,
           Done \/ BadSource \/ WrongSide \/ ConnectSource \/ Connected \/ Mask \/ Forget
             \/ CloseSource \/ ListEntry \/ ListDir \/ DownloadEntry
             \/ ScanDomains \/ FoundDomains \/ ScanServers \/ ScanShares
             \/ ConnectTarget \/ TargetConnected \/ StatTarget
    PROVE  UploadInv'
<1>1. CifscpNext
  BY DEF CifscpNext
<1>2. inv.mode = "upload" => pc \in UploadPcs
  BY DEF UploadInv, StackRight
<1>3. CASE Done \/ BadSource
  <2>1. /\ UNCHANGED <<stack, dirs, made, puts, i, failed>> /\ pc = "source"
        /\ pc' \in {"done", "crashed"} /\ (pc' = "done" => i > Len(inv.sources))
    BY <1>3 DEF Done, BadSource, Quiet
  <2> QED
    BY <2>1, <1>1, ElsewhereInv DEF InDirs, UploadPcs
<1>4. CASE WrongSide
  <2>1. /\ UNCHANGED <<stack, dirs, made, puts, failed>> /\ pc = "source" /\ pc' = "source"
        /\ inv.mode = "upload" => Src.scheme = "cifs"
    BY <1>4 DEF WrongSide, NextSource, Quiet
  <2>2. inv.mode = "upload" => ~IsDir(i)
    BY <2>1 DEF Src, IsDir
  <2> QED
    BY <2>1, <2>2, <1>1, ElsewhereInv DEF InDirs, UploadPcs
<1>5. CASE ConnectTarget \/ TargetConnected \/ StatTarget
  <2>1. /\ UNCHANGED <<stack, dirs, made, puts, i, failed>> /\ pc \in {"target", "connected", "stat"}
        /\ pc' \in {"connected", "exit", "source", "stat"}
    BY <1>5 DEF ConnectTarget, TargetConnected, StatTarget, Quiet
  <2> QED
    BY <2>1, <1>1, ElsewhereInv DEF InDirs, UploadPcs
<1>6. CASE ConnectSource
  <2>1. /\ UNCHANGED <<stack, dirs, made, puts, failed>> /\ inv.mode # "upload"
        /\ pc = "source" /\ pc' = "connect"
    BY <1>6 DEF ConnectSource, Quiet
  <2> QED
    BY <2>1, <1>1, ElsewhereInv DEF InDirs
<1>7. CASE Connected \/ Mask \/ Forget
  <2>1. UNCHANGED <<stack, dirs, made, puts>>
    BY <1>7 DEF Connected, Mask, Forget, Quiet
  <2>2. failed => failed'
    BY <1>7, Zenon DEF Connected, Mask, Forget
  <2>3. /\ pc \in {"connect", "mask", "forget"}
        /\ pc' \in {"exit", "source", "nodes", "listdir", "mask", "entries", "close", "forget"}
    BY <1>7 DEF Connected, Mask, NoMatch, Forget, NextSource
  <2> QED
    BY <2>1, <2>2, <2>3, <1>1, <1>2, ElsewhereInv DEF InDirs, UploadPcs
<1>8. CASE CloseSource \/ ListEntry \/ ListDir \/ DownloadEntry
  <2>1. UNCHANGED <<stack, dirs, made, puts>>
    BY <1>8 DEF CloseSource, ListEntry, ListDir, DownloadEntry, Quiet
  <2>2. failed => failed'
    BY <1>8, Zenon DEF CloseSource, ListEntry, ListDir, DownloadEntry
  <2>3. pc \in {"close", "entries", "listdir"} /\ pc' \in {"source", "entries", "close"}
    BY <1>8 DEF CloseSource, ListEntry, ListDir, DownloadEntry, NextSource
  <2> QED
    BY <2>1, <2>2, <2>3, <1>1, <1>2, ElsewhereInv DEF InDirs, UploadPcs
<1>9. CASE ScanDomains \/ FoundDomains \/ ScanServers \/ ScanShares
  <2>1. /\ UNCHANGED <<stack, dirs, made, puts, failed>>
        /\ pc \in {"nodes", "domains", "servers"} /\ pc' \in {"domains", "servers", "close"}
    BY <1>9 DEF ScanDomains, FoundDomains, ScanServers, ScanShares, Quiet
  <2> QED
    BY <2>1, <1>1, <1>2, ElsewhereInv DEF InDirs, UploadPcs
<1> QED
  BY <1>3, <1>4, <1>5, <1>6, <1>7, <1>8, <1>9
-------------------------------------------------------------------------------
(* Steps in the local directories *)

\* A return leaves the directory: it has been read to its end, or something has failed.
LEMMA ReturnInv ==
    ASSUME CommandInv, UploadInv, CifscpNext, Return, pc \in InDirs,
           UNCHANGED <<inv, dirs, made, puts>>,
           failed' \/ (pc = "read" /\ Top.todo = {} /\ (failed => failed'))
    PROVE  UploadInv'
<1>1. /\ stack \in Seq(Frames) /\ Len(stack) \in Nat \ {0} /\ i \in 1..Len(inv.sources)
      /\ Len(inv.sources) \in Nat /\ inv.sources[i].scheme = "file"
      /\ stack[1].node = inv.sources[i].node
  BY LenProperties DEF UploadInv, StackRight, CommandInv, CommandRight
<1>2. /\ stack' \in Seq(Frames) /\ Len(stack') = Len(stack) - 1
      /\ \A k \in 1..Len(stack') : stack'[k] = stack[k]
  <2>1. stack' = SubSeq(stack, 1, Len(stack) - 1)
    BY DEF Return
  <2>2. Len(stack) >= 1
    BY <1>1
  <2> QED
    BY <2>1, <2>2, <1>1, Pop, Zenon
<1>3. IF Len(stack') = 0 THEN pc' = "source" /\ i' = i + 1 ELSE pc' = "read" /\ i' = i
  BY <1>1, <1>2 DEF Return, NextSource
<1>4. \A k \in 1..Len(stack') : Of(stack', k) = Of(stack, k) /\ Of(stack, k) \in made
  <2> TAKE k \in 1..Len(stack')
  <2>1. k \in 1..Len(stack) /\ k < Len(stack)
    BY <1>1, <1>2
  <2>2. Of(stack, k) \in made
    BY <2>1 DEF UploadInv, StackRight
  <2> QED
    BY <2>2, <1>2 DEF Of
<1>5. StackRight'
  <2>1. pc' \in {"source", "read"} /\ (pc' = "read" <=> Len(stack') # 0)
    BY <1>3
  <2>2. pc' \in InDirs <=> Len(stack') # 0
    BY <2>1 DEF InDirs
  <2>3. pc' \in UploadPcs /\ pc' # "made"
    BY <2>1 DEF UploadPcs, InDirs
  <2>4. \A k \in 1..Len(stack') : Of(stack', k) \in made'
    BY <1>4
  <2>5. ASSUME Len(stack') # 0
        PROVE  /\ inv'.mode = "upload"
               /\ i' \in 1..Len(inv'.sources) /\ inv'.sources[i'].scheme = "file"
               /\ stack'[1].node = inv'.sources[i'].node
    <3>1. 1 \in 1..Len(stack') /\ i' = i
      BY <1>1, <1>2, <1>3, <2>5
    <3>2. inv.mode = "upload"
      BY <1>1 DEF UploadInv, StackRight
    <3> QED
      BY <3>1, <3>2, <1>1, <1>2
  <2> QED
    BY <1>2, <2>2, <2>3, <2>4, <2>5 DEF StackRight
<1>6. MadeRight'
  <2>1. pc' # "made"
    BY <1>3
  <2>2. failed => failed'
    OBVIOUS
  <2> QED
    BY <2>1, <2>2, MadeKept
<1>7. ASSUME ~failed', NEW m \in made, NEW e \in Kids[m[2]] PROVE Covered(m, e)'
  <2>1. pc = "read" /\ Top.todo = {} /\ Covered(m, e)
    BY <1>7 DEF UploadInv, Complete
  <2>2. ASSUME NEW k \in 1..Len(stack), m = Of(stack, k), e \in stack[k].todo PROVE Covered(m, e)'
    <3>1. k # Len(stack)
      BY <2>1, <2>2 DEF Top
    <3>2. k \in 1..Len(stack') /\ stack'[k] = stack[k] /\ Of(stack', k) = m
      BY <3>1, <2>2, <1>1, <1>2, <1>4
    <3> QED
      BY <3>2, <2>2 DEF Covered
  <2> QED
    BY <2>1, <2>2 DEF Covered
<1>8. ASSUME ~failed', inv.mode = "upload"
      PROVE  /\ \A j \in 1..Len(inv.sources) :
                  j < i' /\ IsDir(j) => \E m \in made : m[2] = inv.sources[j].node
             /\ pc' # "done"
  <2>1. pc = "read"
    BY <1>8
  <2>2. \A j \in 1..Len(inv.sources) : j < i /\ IsDir(j) => \E m \in made : m[2] = inv.sources[j].node
    BY <1>8 DEF UploadInv, Complete
  <2>3. Of(stack, 1) \in made /\ Of(stack, 1)[2] = inv.sources[i].node
    BY <2>1, <1>1 DEF UploadInv, StackRight, Of
  <2>4. \A j \in 1..Len(inv.sources) : j < i' => j < i \/ j = i
    BY <1>1, <1>3
  <2> QED
    BY <2>2, <2>3, <2>4, <1>3
<1>9. \A j : IsDir(j)' <=> IsDir(j)
  BY DEF IsDir
<1> QED
  BY <1>5, <1>6, <1>7, <1>8, <1>9 DEF UploadInv, Complete

\* A step that leaves the stack and the place in it as they are: what is made or put
\* only grows.
LEMMA StaysInv ==
    ASSUME CommandInv, UploadInv, CifscpNext, UNCHANGED <<inv, stack, i, made, puts>>,
           dirs \subseteq dirs', failed => failed', pc \in InDirs,
           pc' = pc \/ (pc = "dir" /\ pc' = "made"),
           pc' = "made" => /\ call' \in {"idle", "stat", "killed", "spins"}
                           /\ Straight' /\ call' = "idle" /\ ret' = 0 => Top.path \in dirs'
    PROVE  UploadInv'
<1>1. StackRight'
  BY DEF UploadInv, StackRight, InDirs, UploadPcs
<1>2. Top' = Top
  BY DEF Top
<1>3. MadeRight'
  BY <1>2, MadeKept
<1>4. \A m, e : Covered(m, e) => Covered(m, e)'
  BY <1>2 DEF Covered, InDirs
<1>5. \A j : IsDir(j)' <=> IsDir(j)
  BY DEF IsDir
<1>6. pc' # "done"
  BY DEF InDirs
<1>7. Complete'
  BY <1>4, <1>5, <1>6 DEF UploadInv, Complete
<1> QED
  BY <1>1, <1>3, <1>7 DEF UploadInv

LEMMA OpenDirFailsInv == ASSUME CommandInv, UploadInv, OpenDirFails PROVE UploadInv'
<1>1. Return /\ failed' /\ pc \in InDirs /\ UNCHANGED <<inv, dirs, made, puts>>
  BY DEF OpenDirFails, Quiet, InDirs
<1>2. CifscpNext
  BY DEF CifscpNext
<1> QED
  BY <1>1, <1>2, ReturnInv

LEMMA CloseDirInv == ASSUME CommandInv, UploadInv, CloseDir PROVE UploadInv'
<1>1. Return /\ pc = "read" /\ Top.todo = {} /\ UNCHANGED <<inv, dirs, made, puts, failed>>
  BY DEF CloseDir, Quiet
<1>2. CifscpNext
  BY DEF CifscpNext
<1> QED
  BY <1>1, <1>2, ReturnInv DEF InDirs

LEMMA MakeDirInv == ASSUME CommandInv, UploadInv, MakeDir PROVE UploadInv'
<1>1. pc = "dir" /\ pc' = "made" /\ UNCHANGED <<inv, stack, i, made, puts, failed>>
  BY DEF MakeDir
<1>2. PICK reply \in Replies :
        /\ \E grants : MkdirReply(grants, reply)
        /\ dirs' = IF reply = "ok" THEN dirs \cup {Top.path} ELSE dirs
  BY DEF MakeDir
<1>3. call' \in {"idle", "stat"} /\ (call' = "idle" => reply \in {"ok", "hard"})
  BY <1>2 DEF MkdirReply, Ready
<1>4. reply = "hard" => ~Straight'
  BY <1>2 DEF MkdirReply, Request, Straight
<1>5. CifscpNext
  BY DEF CifscpNext
<1> QED
  BY <1>1, <1>2, <1>3, <1>4, <1>5, StaysInv DEF InDirs

\* What is there in its place counts as made only if it is a directory.
LEMMA MakeDirStatInv == ASSUME CommandInv, UploadInv, MakeDirStat PROVE UploadInv'
<1>1. /\ pc = "made" /\ pc' = pc /\ UNCHANGED <<inv, stack, i, dirs, made, puts, failed>>
  BY DEF MakeDirStat, Quiet
<1>2. call' = "idle" /\ (Straight' /\ ret' = 0 => Top.path \in dirs)
  <2>1. PICK reply \in Replies :
          /\ Request("find", conn.tree, Live(conn.tree) /\ Top.path \in dirs \cup files, reply)
          /\ ret' \in IF reply = "ok" THEN {StatResult(Top.path \in dirs)} ELSE Returns(reply)
    BY DEF MakeDirStat, MkdirStat
  <2>2. reply = "hard" => ~Straight'
    BY <2>1 DEF Request, Straight
  <2>3. call' = "idle"
    BY DEF MakeDirStat, MkdirStat
  <2> QED
    BY <2>1, <2>2, <2>3 DEF StatResult, Returns
<1>3. CifscpNext
  BY DEF CifscpNext
<1> QED
  BY <1>1, <1>2, <1>3, StaysInv DEF InDirs

LEMMA InCallInv == ASSUME CommandInv, UploadInv, InCall PROVE UploadInv'
<1>1. UNCHANGED <<inv, stack, i, dirs, made, puts, failed, pc>>
  BY DEF InCall, Quiet
<1>0. CifscpNext
  BY DEF CifscpNext
<1>2. CASE pc \notin InDirs
  <2>1. CifscpNext
    BY <1>0
  <2>2. inv.mode = "upload" => pc \in UploadPcs
    BY DEF UploadInv, StackRight
  <2>3. ~failed /\ inv.mode = "upload" /\ pc = "done" => i > Len(inv.sources)
    BY DEF UploadInv, Complete
  <2>4. CASE failed
    <3>1. pc' # "made" /\ pc' # "read"
      BY <1>1, <1>2 DEF InDirs
    <3>2. MadeRight'
      BY <1>0, <1>1, <3>1, MadeKept
    <3> QED
      BY <1>1, <1>2, <2>4, <3>2 DEF UploadInv, StackRight, Complete, InDirs
  <2>5. CASE ~failed
    BY <1>1, <1>2, <2>1, <2>2, <2>3, <2>5, ElsewhereInv
  <2> QED
    BY <2>4, <2>5
<1>3. CASE pc = "made"
  <2>1. call \in {"idle", "stat", "killed", "spins"}
    BY <1>3 DEF UploadInv, StackRight
  <2>2. CASE SigPipe
    <3>1. call' = "killed"
      BY <2>2 DEF SigPipe
    <3> QED
      BY <3>1, <1>0, <1>1, <1>3, StaysInv DEF InDirs
  <2>4. CASE Spin
    <3>1. call' = "spins"
      BY <2>4 DEF Spin
    <3> QED
      BY <3>1, <1>0, <1>1, <1>3, StaysInv DEF InDirs
  <2>3. CASE Connecting \/ TreeIpc \/ Rap
    BY <2>1, <2>3 DEF Connecting, ConnectSock, NbtSession, Negotiate, SessionSetup, ConnectTree,
                      TreeIpc, Rap
  <2> QED
    BY <2>2, <2>3, <2>4 DEF InCall
<1>4. CASE pc \in InDirs /\ pc # "made"
  BY <1>0, <1>1, <1>4, StaysInv
<1> QED
  BY <1>2, <1>3, <1>4
LEMMA UploadSourceInv == ASSUME CommandInv, UploadInv, UploadSource PROVE UploadInv'
<1>1. /\ pc = "source" /\ inv.mode = "upload" /\ Src.scheme = "file"
      /\ i \in 1..Len(inv.sources) /\ UNCHANGED <<inv, dirs, made, puts>>
  BY DEF UploadSource, CommandInv, CommandRight
<1>2. Len(stack) = 0 /\ stack \in Seq(Frames) /\ Len(inv.sources) \in Nat
  BY <1>1, LenProperties DEF UploadInv, StackRight, InDirs, CommandInv, CommandRight
<1>3. CASE Src.node \in DOMAIN Kids
  <2> DEFINE f == [node |-> Src.node, path |-> UploadName, links |-> 0, todo |-> {}]
  <2>1. stack' = <<f>> /\ pc' = "dir" /\ UNCHANGED <<i, failed>>
    BY <1>3 DEF UploadSource
  <2>2. Src.name \in Names /\ inv.path \in Seq(Names)
    BY <1>1 DEF CommandInv, CommandRight, Src
  <2>3. UploadName \in Seq(Names)
    BY <2>2, ParentOf DEF UploadName
  <2>4. f \in Frames /\ f.node = Src.node
    BY <2>3, <1>3 DEF Frames
  <2> HIDE DEF f
  <2>5. stack' \in Seq(Frames) /\ Len(stack') = 1 /\ stack'[1] = f
    BY <2>1, <2>4
  <2>6. StackRight'
    BY <2>1, <2>4, <2>5, <1>1 DEF StackRight, InDirs, UploadPcs, Src
  <2>7. MadeRight'
    <3>1. CifscpNext
      BY DEF CifscpNext
    <3> QED
      BY <2>1, <1>1, <3>1, MadeKept
  <2>8. \A m, e : Covered(m, e) => Covered(m, e)'
    BY <2>1, <1>1, <1>2 DEF Covered
  <2>9. \A j : IsDir(j)' <=> IsDir(j)
    BY <1>1 DEF IsDir
  <2>10. Complete'
    BY <2>1, <2>8, <2>9, <1>1 DEF UploadInv, Complete
  <2> QED
    BY <2>6, <2>7, <2>10 DEF UploadInv
<1>4. CASE Src.node \notin DOMAIN Kids
  <2>1. UNCHANGED stack /\ pc' = "source" /\ i' = i + 1
    BY <1>4 DEF UploadSource, NextSource
  <2>2. failed => failed'
    BY <1>4, Zenon DEF UploadSource
  <2>3. ~IsDir(i)
    BY <1>4 DEF IsDir, Src
  <2>4. CifscpNext
    BY DEF CifscpNext
  <2> QED
    BY <2>1, <2>2, <2>3, <2>4, <1>1, ElsewhereInv DEF InDirs, UploadPcs
<1> QED
  BY <1>3, <1>4

\* The entry in hand is taken from the directory that is read: it has been put or tried,
\* or it is a directory that will be made.
LEMMA TakenInv ==
    ASSUME CommandInv, UploadInv, CifscpNext, pc = "read", UNCHANGED <<inv, i, pc, dirs, made>>,
           NEW e \in Top.todo, stack' = [stack EXCEPT ![Len(stack)].todo = Rest(e)],
           failed => failed', puts \subseteq puts', \A p \in puts' \ puts : p = Append(Top.path, e.name),
           failed' \/ e.node \in Specials \/ Append(Top.path, e.name) \in puts',
           Straight /\ Straight' /\ ~failed' /\ puts \subseteq files => puts' \subseteq files'
    PROVE  UploadInv'
<1>1. /\ stack \in Seq(Frames) /\ Len(stack) \in Nat \ {0} /\ Len(stack) >= 1
  BY LenProperties DEF UploadInv, StackRight, InDirs
<1>2. /\ Top \in Frames /\ Len(stack) \in 1..Len(stack) /\ Of(stack, Len(stack)) \in made
      /\ Of(stack, Len(stack)) = <<Top.path, Top.node>>
  BY <1>1, ElementOfSeq DEF Top, Of, UploadInv, StackRight
<1>3. Top.path \in Seq(Names) /\ Top.todo \in SUBSET Entries /\ e.name \in Names
  BY <1>2, CifscpAssumption DEF Frames, Entries, CifscpAssumption
<1>4. Rest(e) \in SUBSET Entries
  BY <1>3 DEF Rest
<1>5. /\ stack' \in Seq(Frames) /\ Len(stack') = Len(stack) /\ stack'[Len(stack)].todo = Rest(e)
      /\ \A k \in 1..Len(stack) :
            /\ Of(stack', k) = Of(stack, k)
            /\ k < Len(stack) => stack'[k].todo = stack[k].todo
  <2>1. /\ stack' \in Seq(Frames) /\ Len(stack') = Len(stack) /\ stack'[Len(stack')].todo = Rest(e)
        /\ \A k \in 1..Len(stack') :
              /\ Of(stack', k) = Of(stack, k)
              /\ k < Len(stack') => stack'[k].todo = stack[k].todo
    <3>1. stack' = WithTodo(Rest(e))
      BY DEF WithTodo
    <3>2. /\ WithTodo(Rest(e)) \in Seq(Frames) /\ Len(WithTodo(Rest(e))) = Len(stack)
          /\ WithTodo(Rest(e))[Len(stack)].todo = Rest(e)
          /\ \A k \in 1..Len(stack) :
                /\ WithTodo(Rest(e))[k].path = stack[k].path
                /\ WithTodo(Rest(e))[k].node = stack[k].node
                /\ k < Len(stack) => WithTodo(Rest(e))[k].todo = stack[k].todo
      BY <1>1, <1>4, SetTodo
    <3> QED
      BY <3>1, <3>2 DEF Of
  <2> QED
    BY <2>1
<1>6. stack'[1].node = stack[1].node
  <2>1. Of(stack', 1) = Of(stack, 1)
    <3>1. 1 \in 1..Len(stack)
      BY <1>1
    <3> QED
      BY <3>1, <1>5
  <2> QED
    BY <2>1 DEF Of
<1>7. StackRight'
  BY <1>1, <1>5, <1>6 DEF UploadInv, StackRight, InDirs
<1>8. MadeRight'
  <2>1. Parent(Append(Top.path, e.name)) = Top.path /\ Top.path \in Paths(made)
    BY <1>2, <1>3, ParentOf DEF Paths
  <2>2. inv.mode = "upload" /\ made # {}
    BY <1>1, <1>2 DEF UploadInv, StackRight
  <2>3. Straight' => Straight
    BY <2>2, Grows
  <2>4. \A p \in puts' : Parent(p) \in Paths(made)
    BY <2>1 DEF UploadInv, MadeRight
  <2>5. Paths(made') = Paths(made)
    BY DEF Paths
  <2> QED
    BY <2>2, <2>3, <2>4, <2>5 DEF UploadInv, MadeRight
<1>9. ASSUME ~failed', NEW m \in made, NEW x, Covered(m, x) PROVE Covered(m, x)'
  <2>1. CASE x.node \in Specials \/ Append(m[1], x.name) \in puts \cup Paths(made)
    BY <2>1 DEF Covered
  <2>2. CASE \E k \in 1..Len(stack) : m = Of(stack, k) /\ x \in stack[k].todo
    <3>1. PICK k \in 1..Len(stack) : m = Of(stack, k) /\ x \in stack[k].todo
      BY <2>2
    <3>2. CASE k = Len(stack) /\ x = e
      <4>1. m[1] = Top.path
        BY <3>1, <3>2, <1>2
      <4> QED
        BY <4>1, <3>2, <1>9 DEF Covered
    <3>3. CASE k = Len(stack) /\ x # e
      <4>1. x \in stack'[k].todo
        BY <3>1, <3>3, <1>5 DEF Rest, Top
      <4>2. k \in 1..Len(stack') /\ m = Of(stack', k)
        BY <3>1, <1>5
      <4> QED
        BY <4>1, <4>2 DEF Covered
    <3>4. CASE k # Len(stack)
      <4>1. x \in stack'[k].todo
        BY <3>1, <3>4, <1>1, <1>5
      <4>2. k \in 1..Len(stack') /\ m = Of(stack', k)
        BY <3>1, <1>5
      <4> QED
        BY <4>1, <4>2 DEF Covered
    <3> QED
      BY <3>2, <3>3, <3>4
  <2> QED
    BY <2>1, <2>2, <1>9 DEF Covered
<1>10. \A j : IsDir(j)' <=> IsDir(j)
  BY DEF IsDir
<1>11. Complete'
  BY <1>9, <1>10 DEF UploadInv, Complete
<1> QED
  BY <1>7, <1>8, <1>11 DEF UploadInv

LEMMA SkipEntryInv == ASSUME CommandInv, UploadInv, SkipEntry PROVE UploadInv'
<1>1. PICK e \in Top.todo : stack' = [stack EXCEPT ![Len(stack)].todo = Rest(e)]
  BY DEF SkipEntry
<1>2. pc = "read" /\ failed' /\ UNCHANGED <<inv, i, pc, dirs, made, puts>>
  BY DEF SkipEntry, Quiet
<1>3. CifscpNext
  BY DEF CifscpNext
<1> QED
  BY <1>1, <1>2, <1>3, TakenInv

LEMMA SkipSpecialInv == ASSUME CommandInv, UploadInv, SkipSpecial PROVE UploadInv'
<1>1. PICK e \in Top.todo :
        e.node \in Specials /\ stack' = [stack EXCEPT ![Len(stack)].todo = Rest(e)]
  BY DEF SkipSpecial
<1>2. pc = "read" /\ UNCHANGED <<inv, i, pc, dirs, files, made, puts, failed>>
  BY DEF SkipSpecial, Quiet
<1>3. CifscpNext
  BY DEF CifscpNext
<1> QED
  BY <1>1, <1>2, <1>3, TakenInv

\* A copy that returns success without a hard refusal has put its file there.
LEMMA UploadEntryInv == ASSUME CommandInv, UploadInv, UploadEntry PROVE UploadInv'
<1>1. PICK e \in Top.todo :
        /\ \E reply \in Replies :
              /\ FileReply("copy", CanPut(Append(Top.path, e.name)), reply)
              /\ files' \in Copied(Append(Top.path, e.name), reply)
        /\ failed' = (failed \/ ret' # 0)
        /\ puts' = puts \cup {Append(Top.path, e.name)}
        /\ stack' = [stack EXCEPT ![Len(stack)].todo = Rest(e)]
  BY DEF UploadEntry
<1> DEFINE path == Append(Top.path, e.name)
<1>2. PICK reply \in Replies : FileReply("copy", CanPut(path), reply) /\ files' \in Copied(path, reply)
  BY <1>1
<1>3. pc = "read" /\ UNCHANGED <<inv, i, pc, dirs, made>>
  BY DEF UploadEntry
<1>4. failed => failed'
  BY <1>1, Zenon
<1> HIDE DEF path
<1>5. ~failed' /\ Straight' => path \in files'
  <2>1. reply = "hard" => ~Straight'
    BY <1>2 DEF FileReply, Request, Straight
  <2>2. ~failed' => ret' = 0
    BY <1>1
  <2>3. ret' = 0 => reply \in {"ok", "hard"}
    BY <1>2 DEF FileReply, Returns
  <2>4. reply = "ok" => path \in files'
    BY <1>2, CopiedGrows
  <2> QED
    BY <2>1, <2>2, <2>3, <2>4
<1>6. files \subseteq files'
  BY <1>2, CopiedGrows
<1>7. puts' = puts \cup {path}
  BY <1>1 DEF path
<1>8. CifscpNext
  BY DEF CifscpNext
<1>9. /\ puts \subseteq puts' /\ Append(Top.path, e.name) \in puts'
      /\ \A p \in puts' \ puts : p = Append(Top.path, e.name)
  BY <1>1
<1>10. Straight' /\ ~failed' /\ puts \subseteq files => puts' \subseteq files'
  BY <1>5, <1>6, <1>7
<1> QED
  BY <1>1, <1>3, <1>4, <1>8, <1>9, <1>10, TakenInv

LEMMA MadeInv == ASSUME CommandInv, UploadInv, Made PROVE UploadInv'
<1>1. pc = "made" /\ call = "idle" /\ UNCHANGED <<inv, dirs, puts>>
  BY DEF Made
<1>2. CASE ret # 0
  <2>1. CifscpNext
    BY DEF CifscpNext
  <2> QED
    BY <1>1, <1>2, <2>1, ReturnInv DEF Made, InDirs
<1>3. CASE ret = 0
  <2> DEFINE K == Kids[Top.node]
  <2>1. /\ stack' = WithTodo(K) /\ made' = made \cup {<<Top.path, Top.node>>}
        /\ pc' = "read" /\ UNCHANGED <<i, failed>>
    BY <1>3 DEF Made, WithTodo
  <2>2. stack \in Seq(Frames) /\ Len(stack) \in Nat \ {0}
    BY <1>1, LenProperties DEF UploadInv, StackRight, InDirs
  <2>3. /\ Top \in Frames /\ Len(stack) \in 1..Len(stack)
        /\ Of(stack, Len(stack)) = <<Top.path, Top.node>>
    BY <2>2, ElementOfSeq DEF Top, Of
  <2>4. Top.path \in Seq(Names) /\ Top.node \in DOMAIN Kids /\ K \in SUBSET Entries
    BY <2>3 DEF Frames, Entries
  <2> HIDE DEF K
  <2>5. /\ WithTodo(K) \in Seq(Frames) /\ Len(WithTodo(K)) = Len(stack)
        /\ WithTodo(K)[Len(stack)].todo = K
        /\ \A k \in 1..Len(stack) :
              /\ WithTodo(K)[k].path = stack[k].path /\ WithTodo(K)[k].node = stack[k].node
              /\ k < Len(stack) => WithTodo(K)[k].todo = stack[k].todo
    BY <2>2, <2>4, SetTodo
  <2>6. /\ stack' \in Seq(Frames) /\ Len(stack') = Len(stack) /\ stack'[Len(stack)].todo = K
        /\ \A k \in 1..Len(stack) :
              /\ Of(stack', k) = Of(stack, k) /\ stack'[k].node = stack[k].node
              /\ k < Len(stack) => stack'[k].todo = stack[k].todo
    BY <2>1, <2>5 DEF Of
  <2>7. \A k \in 1..Len(stack) : Of(stack, k) \in made'
    <3> TAKE k \in 1..Len(stack)
    <3>1. CASE k < Len(stack)
      BY <3>1, <2>1 DEF UploadInv, StackRight
    <3>2. CASE k = Len(stack)
      BY <3>2, <2>1, <2>3
    <3> QED
      BY <3>1, <3>2, <2>2
  <2>8. StackRight'
    <3>1. 1 \in 1..Len(stack)
      BY <2>2
    <3>2. stack'[1].node = stack[1].node
      BY <3>1, <2>6
    <3> QED
      BY <1>1, <2>1, <2>2, <2>6, <2>7, <3>2 DEF UploadInv, StackRight, InDirs, UploadPcs
  <2>9. MadeRight'
    <3>0. /\ UNCHANGED <<misled, files>> /\ inv.mode = "upload"
          /\ Straight' <=> Straight
      BY <1>1, <2>2 DEF Made, sessionVars, Straight, UploadInv, StackRight
    <3>1. Straight => Top.path \in dirs
      BY <1>1, <1>3 DEF UploadInv, MadeRight
    <3>2. \A q : q \in Paths(made') <=> q \in Paths(made) \/ q = Top.path
      <4>1. <<Top.path, Top.node>>[1] = Top.path
        OBVIOUS
      <4> QED
        BY <4>1, <2>1, Zenon DEF Paths
    <3>3. Straight => Paths(made') \subseteq dirs
      BY <3>1, <3>2 DEF UploadInv, MadeRight
    <3>4. \A p \in puts : Parent(p) \in Paths(made')
      BY <3>2 DEF UploadInv, MadeRight
    <3>5. made' \subseteq Seq(Names) \X DOMAIN Kids
      BY <2>1, <2>4 DEF UploadInv, MadeRight
    <3> QED
      BY <1>1, <2>1, <3>0, <3>3, <3>4, <3>5 DEF UploadInv, MadeRight
  <2>10. ASSUME ~failed, NEW m \in made', NEW e \in Kids[m[2]] PROVE Covered(m, e)'
    <3>1. CASE m = <<Top.path, Top.node>>
      <4>1. m = Of(stack', Len(stack)) /\ e \in stack'[Len(stack)].todo
        BY <3>1, <2>3, <2>6, <2>10 DEF K
      <4> QED
        BY <4>1, <2>3, <2>6 DEF Covered
    <3>2. CASE m # <<Top.path, Top.node>>
      <4>1. m \in made /\ Covered(m, e)
        BY <3>2, <2>1, <2>10 DEF UploadInv, Complete
      <4>2. CASE e.node \in Specials \/ Append(m[1], e.name) \in puts \cup Paths(made)
        BY <4>2, <1>1, <2>1 DEF Covered, Paths
      <4>3. CASE \E k \in 1..Len(stack) : m = Of(stack, k) /\ e \in stack[k].todo
        <5>1. PICK k \in 1..Len(stack) : m = Of(stack, k) /\ e \in stack[k].todo
          BY <4>3
        <5>2. k < Len(stack)
          BY <5>1, <3>2, <2>2, <2>3
        <5>3. k \in 1..Len(stack') /\ m = Of(stack', k) /\ e \in stack'[k].todo
          BY <5>1, <5>2, <2>6
        <5> QED
          BY <5>3 DEF Covered
      <4>4. CASE Top.path = Append(m[1], e.name)
        <5>1. Append(m[1], e.name) \in Paths(made')
          BY <4>4, <2>1 DEF Paths
        <5> QED
          BY <5>1 DEF Covered
      <4> QED
        BY <4>1, <4>2, <4>3, <4>4 DEF Covered
    <3> QED
      BY <3>1, <3>2
  <2>11. Complete'
    BY <1>1, <2>1, <2>10 DEF UploadInv, Complete, IsDir
  <2> QED
    BY <2>8, <2>9, <2>11 DEF UploadInv
<1> QED
  BY <1>2, <1>3

LEMMA EnterDirInv == ASSUME CommandInv, UploadInv, EnterDir PROVE UploadInv'
<1>1. /\ pc = "read" /\ pc' = "dir" /\ UNCHANGED <<inv, i, dirs, made, puts, failed>>
  BY DEF EnterDir, Quiet
<1>2. PICK e \in Top.todo :
        /\ e.node \in DOMAIN Kids
        /\ stack' = Append(WithTodo(Rest(e)),
                           [node |-> e.node, path |-> Append(Top.path, e.name),
                            links |-> Top.links + (IF e.link THEN 1 ELSE 0), todo |-> {}])
  BY DEF EnterDir, WithTodo
<1> DEFINE s == WithTodo(Rest(e))
           f == [node |-> e.node, path |-> Append(Top.path, e.name),
                 links |-> Top.links + (IF e.link THEN 1 ELSE 0), todo |-> {}]
<1>3. stack \in Seq(Frames) /\ Len(stack) \in Nat \ {0}
  BY <1>1, LenProperties DEF UploadInv, StackRight, InDirs
<1>4. /\ Top \in Frames /\ Len(stack) \in 1..Len(stack) /\ Of(stack, Len(stack)) \in made
      /\ Of(stack, Len(stack)) = <<Top.path, Top.node>>
  BY <1>1, <1>3, ElementOfSeq DEF Top, Of, UploadInv, StackRight
<1>5. Top.path \in Seq(Names) /\ Top.todo \in SUBSET Entries /\ e.name \in Names
      /\ Top.links \in Nat
  BY <1>2, <1>4, CifscpAssumption DEF Frames, Entries, CifscpAssumption
<1>6. Rest(e) \in SUBSET Entries
  BY <1>5 DEF Rest
<1>7. f \in Frames /\ f.path = Append(Top.path, e.name)
  BY <1>2, <1>5, ParentOf DEF Frames
<1>8. /\ s \in Seq(Frames) /\ Len(s) = Len(stack) /\ s[Len(stack)].todo = Rest(e)
      /\ \A k \in 1..Len(stack) :
            /\ s[k].path = stack[k].path /\ s[k].node = stack[k].node
            /\ k < Len(stack) => s[k].todo = stack[k].todo
  BY <1>3, <1>6, SetTodo
<1>9. stack' = Append(s, f)
  BY <1>2
<1> HIDE DEF s, f
<1>10. /\ stack' \in Seq(Frames) /\ Len(stack') = Len(stack) + 1 /\ stack'[Len(stack) + 1] = f
       /\ \A k \in 1..Len(stack) : stack'[k] = s[k]
  BY <1>3, <1>7, <1>8, <1>9, AppendProperties
<1>11. Top' = f
  BY <1>10 DEF Top
<1>12. /\ \A k \in 1..Len(stack) : Of(stack', k) = Of(stack, k) /\ Of(stack, k) \in made
       /\ stack'[1].node = stack[1].node
  <2>1. \A k \in 1..Len(stack) : Of(stack', k) = Of(stack, k)
    BY <1>8, <1>10 DEF Of
  <2>2. \A k \in 1..Len(stack) : Of(stack, k) \in made
    BY <1>1 DEF UploadInv, StackRight
  <2>3. 1 \in 1..Len(stack)
    BY <1>3
  <2>4. stack'[1].node = stack[1].node
    BY <2>3, <1>8, <1>10
  <2> QED
    BY <2>1, <2>2, <2>4
<1>13. StackRight'
  <2>1. \A k \in 1..Len(stack') : k < Len(stack') => Of(stack', k) \in made
    BY <1>3, <1>10, <1>12
  <2>2. /\ Len(stack') # 0 /\ inv.mode = "upload"
        /\ i \in 1..Len(inv.sources) /\ inv.sources[i].scheme = "file"
        /\ stack[1].node = inv.sources[i].node
    BY <1>3, <1>10 DEF UploadInv, StackRight
  <2> QED
    BY <1>1, <1>10, <1>12, <2>1, <2>2 DEF StackRight, InDirs, UploadPcs
<1>14. MadeRight'
  <2>1. CifscpNext
    BY DEF CifscpNext
  <2> QED
    BY <1>1, <2>1, MadeKept
<1>15. ASSUME NEW m, NEW x, Covered(m, x) PROVE Covered(m, x)'
  <2>1. CASE x.node \in Specials \/ Append(m[1], x.name) \in puts \cup Paths(made)
    BY <2>1, <1>1 DEF Covered
  <2>2. CASE \E k \in 1..Len(stack) : m = Of(stack, k) /\ x \in stack[k].todo
    <3>1. PICK k \in 1..Len(stack) : m = Of(stack, k) /\ x \in stack[k].todo
      BY <2>2
    <3>2. k \in 1..Len(stack') /\ m = Of(stack', k)
      BY <3>1, <1>3, <1>10, <1>12
    <3>3. CASE k = Len(stack) /\ x = e
      <4>1. Append(m[1], x.name) = Top'.path
        BY <3>1, <3>3, <1>4, <1>7, <1>11
      <4> QED
        BY <4>1, <1>1 DEF Covered
    <3>4. CASE k = Len(stack) /\ x # e
      <4>1. x \in stack'[k].todo
        BY <3>1, <3>4, <1>8, <1>10 DEF Rest, Top
      <4> QED
        BY <4>1, <3>2 DEF Covered
    <3>5. CASE k # Len(stack)
      <4>1. x \in stack'[k].todo
        BY <3>1, <3>5, <1>3, <1>8, <1>10
      <4> QED
        BY <4>1, <3>2 DEF Covered
    <3> QED
      BY <3>3, <3>4, <3>5
  <2> QED
    BY <2>1, <2>2, <1>15, <1>1 DEF Covered
<1>16. Complete'
  BY <1>1, <1>15 DEF UploadInv, Complete, IsDir
<1> QED
  BY <1>13, <1>14, <1>16 DEF UploadInv
-------------------------------------------------------------------------------
\* An upload rebuilds the local directories, for every tree of them, with links that lead
\* back into it, and every server: what was put lies in what was taken for made, which is
\* there unless a refusal was taken for success, and a whole tree is there in the end if
\* moreover nothing has failed, but for pipes, sockets and devices.
THEOREM MirroredCorrect == CifscpSpec => []Mirrored
<1>1. CifscpInit => CommandInv /\ UploadInv
  BY CifscpAssumption, CommandInit, UploadInit
<1>2. CommandInv /\ UploadInv /\ [CifscpNext]_cifscpVars => UploadInv'
  <2> SUFFICES ASSUME CommandInv, UploadInv, [CifscpNext]_cifscpVars PROVE UploadInv'
    OBVIOUS
  <2>1. CASE CifscpNext
    BY <2>1, NotInDirs, UploadSourceInv, OpenDirFailsInv, MakeDirInv, MakeDirStatInv, MadeInv,
       SkipEntryInv, SkipSpecialInv, EnterDirInv, UploadEntryInv, CloseDirInv, InCallInv DEF CifscpNext
  <2>2. CASE UNCHANGED cifscpVars
    <3>1. UNCHANGED <<inv, i, pc, stack, dirs, files, made, puts, failed, call, ret, misled>>
      BY <2>2 DEF cifscpVars, sessionVars
    <3> QED
      BY <3>1 DEF UploadInv, StackRight, MadeRight, Complete, Covered, IsDir, Top, Straight
  <2> QED
    BY <2>1, <2>2
<1>3. CommandInv /\ UploadInv => Mirrored
  BY UploadMirrored
<1> QED
  BY <1>1, <1>2, <1>3, CommandCorrect, PTL DEF CifscpSpec
===============================================================================
