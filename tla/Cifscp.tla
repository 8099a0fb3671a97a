-------------------------------- MODULE Cifscp --------------------------------
(***************************************************************************)
(* The command cifscp (cifscp.c): main with its three modes, the browser's *)
(* list cifs_list_node, and cifs_upload_dir with its recursion, over the   *)
(* calls of Session. A copy of one file (Download, Upload), a search and a *)
(* walk of the server's directories (Find) are one call here.              *)
(*                                                                         *)
(* A path of the server is a sequence of names. The local directories are  *)
(* the graph Kids, for names may be symbolic links, which stat() follows.  *)
(***************************************************************************)
EXTENDS Session, Sequences

CONSTANTS
    Invocations,    \* the command lines, with what they meet on the server
    Matches,        \* what a mask may match: sequences of names
    Domains,        \* what the browser may find: sequences of domains
    Names,          \* names of files
    Kids,           \* local directories: [node -> its entries: [name, node, link]]
    Specials,       \* local nodes that are neither directory nor regular file: pipes, sockets
    MaxLinks        \* symbolic links that stat() follows in one path

ASSUME CifscpAssumption ==
    /\ MaxLinks \in Nat
    /\ \A v \in Invocations :
          /\ {"mode", "sources", "target", "path", "dirs", "files", "dstdir"} \subseteq DOMAIN v
          /\ Len(v.sources) \in Nat /\ v.dstdir \in BOOLEAN /\ v.path \in Seq(Names)
          /\ \A j \in 1..Len(v.sources) :
                v.sources[j].scheme = "file" => v.sources[j].name \in Names
    /\ \A n \in DOMAIN Kids : \A e \in Kids[n] : e.name \in Names
    /\ Specials \cap DOMAIN Kids = {}

VARIABLES
    inv,        \* the command line: mode, sources, and the destination
    i,          \* the source in hand
    pc,         \* what is done with it
    left,       \* matches or domains still to come
    stack,      \* the calls of cifs_upload_dir: [node, path, links, todo]
    dirs, files,\* what the server has
    local,      \* [local file -> what was copied into it: sources and names]
    made, puts, \* history: directories and files taken from local directories
    failed,     \* history: something was reported, or could not be examined
    leaks       \* history: connections that were left behind

cifscpVars == <<sessionVars, inv, i, pc, left, stack, dirs, files, local, made, puts, failed, leaks>>

CifscpInit ==
    /\ SessionInit
    /\ inv \in Invocations
    /\ i = 1 /\ left = <<>> /\ stack = <<>> /\ local = [n \in {} |-> {}]
    /\ pc = CASE inv.mode = "upload" -> "target"
              [] inv.mode = "download" /\ Len(inv.sources) > 1 /\ ~inv.dstdir -> "exit"
              [] OTHER -> "source"
    /\ dirs = inv.dirs /\ files = inv.files
    /\ made = {} /\ puts = {} /\ failed = FALSE /\ leaks = 0

Src == inv.sources[i]
NextSource == pc' = "source" /\ i' = i + 1
Quiet == UNCHANGED <<inv, dirs, files, made, puts, local, leaks>>
-------------------------------------------------------------------------------
(* The loops over the sources *)

Done ==
    /\ pc = "source" /\ call = "idle" /\ i > Len(inv.sources)
    /\ pc' = "done" /\ UNCHANGED <<sessionVars, i, left, stack, failed>> /\ Quiet

\* cifs_uri_parse returned NULL, and main looks at its scheme.
BadSource ==
    /\ pc = "source" /\ call = "idle" /\ i <= Len(inv.sources) /\ Src.scheme = "bad"
    /\ pc' = "crashed" /\ UNCHANGED <<sessionVars, i, left, stack, failed>> /\ Quiet

\* A source on the wrong side is passed over, in silence or (upload) with a message.
WrongSide ==
    /\ pc = "source" /\ call = "idle" /\ i <= Len(inv.sources)
    /\ Src.scheme = IF inv.mode = "upload" THEN "cifs" ELSE "file"
    /\ NextSource /\ UNCHANGED <<sessionVars, left, stack, failed>> /\ Quiet

ConnectSource ==
    /\ pc = "source" /\ i <= Len(inv.sources) /\ inv.mode # "upload" /\ Src.scheme = "cifs"
    /\ Connect(Src.target)
    /\ pc' = "connect" /\ UNCHANGED <<i, left, stack, failed>> /\ Quiet

\* A list ends at the first server that cannot be reached, a download goes on.
Connected ==
    /\ pc = "connect" /\ call = "idle"
    /\ IF conn = None
       THEN /\ failed' = TRUE
            /\ IF inv.mode = "list" THEN pc' = "exit" /\ UNCHANGED i ELSE NextSource
       ELSE /\ pc' = CASE inv.mode = "list" /\ target.tree = None -> "nodes"
                       [] inv.mode = "list" /\ target.tree # None /\ ~Src.wild -> "listdir"
                       [] OTHER -> "mask"
            /\ UNCHANGED <<i, failed>>
    /\ UNCHANGED <<sessionVars, left, stack>> /\ Quiet

\* Mutant of NoMatch: a list forgets its connection as a download does.
NoMatchForgets == "forget"

\* What is done with the connection when the search fails.
NoMatch == IF inv.mode = "list" THEN "close" ELSE "forget"

\* cifs_mask; what cifs_readdir will hand out may also end early.
Mask ==
    /\ pc = "mask" /\ FileCall("find", TRUE)
    /\ IF ret' = 0
       THEN left' \in Matches /\ pc' = "entries" /\ UNCHANGED failed
       ELSE pc' = NoMatch /\ failed' = TRUE /\ UNCHANGED left
    /\ UNCHANGED <<i, stack>> /\ Quiet

\* A download goes on without cifs_connect_close.
Forget ==
    /\ pc = "forget" /\ call = "idle"
    /\ conn' = None /\ link' = None /\ leaks' = leaks + 1 /\ NextSource
    /\ UNCHANGED <<target, sockets, call, ret, last, denied, misled>>
    /\ UNCHANGED <<inv, left, stack, dirs, files, made, puts, local, failed>>

CloseSource ==
    /\ \/ pc = "close"
       \/ pc = "entries" /\ left = <<>>
    /\ Close /\ NextSource /\ UNCHANGED <<left, stack, failed>> /\ Quiet

\* cifs_print_file, or cifs_list_dir for a directory.
ListEntry ==
    /\ pc = "entries" /\ inv.mode = "list" /\ left # <<>> /\ Ready
    /\ FileCall("find", TRUE) \/ UNCHANGED sessionVars
    /\ left' = Tail(left) /\ UNCHANGED <<i, pc, stack, failed>> /\ Quiet

ListDir ==
    /\ pc = "listdir" /\ FileCall("find", TRUE)
    /\ pc' = "close" /\ UNCHANGED <<i, left, stack, failed>> /\ Quiet

\* Mutant of DownloadName: the name of the source is not added to a directory.
DownloadNameDst(name) == "dst"

DownloadName(name) == IF inv.dstdir THEN name ELSE "dst"

\* cifs_download_file continues whatever has the name of its destination (FileCopy).
DownloadEntry ==
    /\ pc = "entries" /\ inv.mode = "download" /\ left # <<>>
    /\ FileCall("copy", TRUE)
    /\ LET n == DownloadName(Head(left))
           before == IF n \in DOMAIN local THEN local[n] ELSE {}
           after == [m \in DOMAIN local \cup {n} |->
                       IF m = n THEN before \cup {<<i, Head(left)>>} ELSE local[m]]
       IN  local' \in IF ret' = 0 THEN {after} ELSE {local, after}
    /\ failed' = (failed \/ ret' # 0)
    /\ left' = Tail(left)
    /\ UNCHANGED <<i, pc, stack, inv, dirs, files, made, puts, leaks>>
-------------------------------------------------------------------------------
(* cifs_list_node: the domains, the servers of each, the shares *)

ScanDomains ==
    /\ pc = "nodes" /\ Scannode
    /\ pc' = "domains" /\ UNCHANGED <<i, left, stack, failed>> /\ Quiet

FoundDomains ==
    /\ pc = "domains" /\ call = "idle"
    /\ left' \in IF ret = 0 THEN Domains ELSE {<<>>}
    /\ pc' = "servers" /\ UNCHANGED <<sessionVars, i, stack, failed>> /\ Quiet

ScanServers ==
    /\ pc = "servers" /\ left # <<>> /\ Scannode
    /\ left' = Tail(left) /\ UNCHANGED <<i, pc, stack, failed>> /\ Quiet

ScanShares ==
    /\ pc = "servers" /\ left = <<>> /\ Scannode
    /\ pc' = "close" /\ UNCHANGED <<i, left, stack, failed>> /\ Quiet
-------------------------------------------------------------------------------
(* Upload *)

ConnectTarget ==
    /\ pc = "target" /\ Connect(inv.target)
    /\ pc' = "connected" /\ UNCHANGED <<i, left, stack, failed>> /\ Quiet

\* The share itself is a directory.
TargetConnected ==
    /\ pc = "connected" /\ call = "idle"
    /\ pc' = IF conn = None THEN "exit" ELSE IF inv.path = <<>> THEN "source" ELSE "stat"
    /\ inv' = [inv EXCEPT !.dstdir = inv.path = <<>>]
    /\ UNCHANGED <<sessionVars, i, left, stack, failed, dirs, files, made, puts, local, leaks>>

\* After a lookup that only seems granted the attributes are anything.
StatTarget ==
    /\ pc = "stat"
    /\ \E reply \in Replies, isdir \in BOOLEAN :
        /\ FileReply("find", inv.path \in dirs \cup files, reply)
        /\ isdir => ret' = 0
        /\ reply = "ok" => (isdir <=> inv.path \in dirs)
        /\ inv' = [inv EXCEPT !.dstdir = isdir]
        /\ pc' = IF Len(inv.sources) > 1 /\ ~isdir THEN "exit" ELSE "source"
    /\ UNCHANGED <<i, left, stack, failed, dirs, files, made, puts, local, leaks>>

UploadName == IF inv.dstdir THEN Append(inv.path, Src.name) ELSE inv.path

Parent(path) == SubSeq(path, 1, Len(path) - 1)
CanPut(path) == path # <<>> /\ Parent(path) \in dirs /\ path \notin dirs

\* A copy that fails, or that only seems granted, may have made its file.
Copied(path, reply) ==
    CASE reply = "ok"  -> {files \cup {path}}
      [] reply # "ok" /\ CanPut(path)  -> {files, files \cup {path}}
      [] OTHER -> {files}

UploadSource ==
    /\ pc = "source" /\ call = "idle" /\ i <= Len(inv.sources)
    /\ inv.mode = "upload" /\ Src.scheme = "file"
    /\ IF Src.node \in DOMAIN Kids
       THEN /\ stack' = <<[node |-> Src.node, path |-> UploadName, links |-> 0, todo |-> {}]>>
            /\ pc' = "dir" /\ UNCHANGED <<sessionVars, i, failed, files>>
       ELSE /\ \E reply \in Replies :
                  FileReply("copy", CanPut(UploadName), reply) /\ files' \in Copied(UploadName, reply)
            /\ failed' = (failed \/ ret' # 0) /\ NextSource /\ UNCHANGED stack
    /\ UNCHANGED <<inv, left, dirs, made, puts, local, leaks>>

Top == stack[Len(stack)]

\* cifs_upload_dir returns: to its caller's loop, or to main.
Return ==
    /\ stack' = SubSeq(stack, 1, Len(stack) - 1)
    /\ IF Len(stack) = 1 THEN NextSource ELSE pc' = "read" /\ UNCHANGED i

\* opendir fails.
OpenDirFails ==
    /\ pc = "dir" /\ call = "idle"
    /\ Return /\ failed' = TRUE /\ UNCHANGED <<sessionVars, left>> /\ Quiet

MakeDir ==
    /\ pc = "dir"
    /\ \E reply \in Replies :
        /\ MkdirReply(CanPut(Top.path) /\ Top.path \notin files, reply)
        /\ dirs' = IF reply = "ok" THEN dirs \cup {Top.path} ELSE dirs
    /\ pc' = "made" /\ UNCHANGED <<inv, i, left, stack, files, made, puts, local, failed, leaks>>

MakeDirStat ==
    /\ pc = "made" /\ MkdirStat(Top.path \in dirs \cup files, Top.path \in dirs)
    /\ UNCHANGED <<i, pc, left, stack, failed>> /\ Quiet

Made ==
    /\ pc = "made" /\ call = "idle"
    /\ IF ret = 0
       THEN /\ stack' = [stack EXCEPT ![Len(stack)].todo = Kids[Top.node]]
            /\ made' = made \cup {<<Top.path, Top.node>>}
            /\ pc' = "read" /\ UNCHANGED <<i, failed>>
       ELSE Return /\ failed' = TRUE /\ UNCHANGED made
    /\ UNCHANGED <<sessionVars, inv, left, dirs, files, puts, local, leaks>>

\* Mutant of Rest: an entry is never done with.
RestAgain(e) == Top.todo

\* Mutant of Rest: what comes after a subdirectory is forgotten.
RestUnlessDir(e) == IF e.node \in DOMAIN Kids THEN {} ELSE Top.todo \ {e}

Rest(e) == Top.todo \ {e}

\* stat fails: the name is gone, or there are too many links on the way to it.
Examined(e) == Top.links + (IF e.link THEN 1 ELSE 0) <= MaxLinks

SkipEntry ==
    /\ pc = "read" /\ call = "idle"
    /\ \E e \in Top.todo : stack' = [stack EXCEPT ![Len(stack)].todo = Rest(e)]
    /\ failed' = TRUE
    /\ UNCHANGED <<sessionVars, i, pc, left>> /\ Quiet

EnterDir ==
    /\ pc = "read" /\ call = "idle"
    /\ \E e \in Top.todo :
        /\ Examined(e) /\ e.node \in DOMAIN Kids
        /\ stack' = Append([stack EXCEPT ![Len(stack)].todo = Rest(e)],
                           [node |-> e.node, path |-> Append(Top.path, e.name),
                            links |-> Top.links + (IF e.link THEN 1 ELSE 0), todo |-> {}])
    /\ pc' = "dir" /\ UNCHANGED <<sessionVars, i, left, failed>> /\ Quiet

\* What is neither a directory nor a regular file is left out, in silence.
SkipSpecial ==
    /\ pc = "read" /\ call = "idle"
    /\ \E e \in Top.todo :
        /\ Examined(e) /\ e.node \in Specials
        /\ stack' = [stack EXCEPT ![Len(stack)].todo = Rest(e)]
    /\ UNCHANGED <<sessionVars, i, pc, left, failed>> /\ Quiet

UploadEntry ==
    /\ pc = "read" /\ Ready
    /\ \E e \in Top.todo :
        LET path == Append(Top.path, e.name)
        IN  /\ Examined(e) /\ e.node \notin DOMAIN Kids \cup Specials
            /\ \E reply \in Replies :
                  FileReply("copy", CanPut(path), reply) /\ files' \in Copied(path, reply)
            /\ failed' = (failed \/ ret' # 0)
            /\ puts' = puts \cup {path}
            /\ stack' = [stack EXCEPT ![Len(stack)].todo = Rest(e)]
    /\ UNCHANGED <<inv, i, pc, left, dirs, made, local, leaks>>

CloseDir ==
    /\ pc = "read" /\ call = "idle" /\ Top.todo = {}
    /\ Return /\ UNCHANGED <<sessionVars, left, failed>> /\ Quiet
-------------------------------------------------------------------------------
\* The steps of a call of Session that leave cifscp where it is.
InCall ==
    /\ pc \notin {"done", "exit", "crashed"}
    /\ SigPipe \/ Spin \/ Connecting \/ TreeIpc \/ Rap
    /\ UNCHANGED <<i, pc, left, stack, failed>> /\ Quiet

CifscpNext ==
    \/ Done \/ BadSource \/ WrongSide \/ ConnectSource \/ Connected \/ Mask \/ Forget
    \/ CloseSource \/ ListEntry \/ ListDir \/ DownloadEntry
    \/ ScanDomains \/ FoundDomains \/ ScanServers \/ ScanShares
    \/ ConnectTarget \/ TargetConnected \/ StatTarget \/ UploadSource
    \/ OpenDirFails \/ MakeDir \/ MakeDirStat \/ Made
    \/ SkipEntry \/ SkipSpecial \/ EnterDir \/ UploadEntry \/ CloseDir \/ InCall

CifscpSpec == CifscpInit /\ [][CifscpNext]_cifscpVars /\ WF_cifscpVars(CifscpNext)
-------------------------------------------------------------------------------
(* Properties *)

\* No mkdir, lookup or copy of this connection was refused so that it seemed granted.
Straight == misled \cap {"mkdir", "find", "copy"} = {}

\* An upload rebuilds the local directories. What is put into a directory comes after
\* it, always. Unless a refusal was taken for success (ERRHRD), a directory that was
\* taken for made is one (and not a file that was in its place), and when nothing has
\* failed in the end every entry is there, but for those that are neither directory nor
\* regular file (cifscp.c:416-421): of these nothing is said.
Mirrored ==
    LET paths == {m[1] : m \in made}
    IN  /\ \A p \in puts : Parent(p) \in paths
        /\ Straight => paths \subseteq dirs
        /\ Straight /\ inv.mode = "upload" /\ pc = "done" /\ ~failed =>
              /\ \A j \in 1..Len(inv.sources) :
                    inv.sources[j].scheme = "file" /\ inv.sources[j].node \in DOMAIN Kids
                        => \E m \in made : m[2] = inv.sources[j].node
              /\ \A m \in made : \A e \in Kids[m[2]] :
                    e.node \in Specials \/ Append(m[1], e.name) \in files \cup dirs

\* cifscp.c:545, 568: several files go to one place only if they have the same name,
\* or match the one mask that was given with a destination that is not a directory.
\* (Then each is continued behind the one before: the code does not keep them apart.)
OneOrigin ==
    \A n \in DOMAIN local : \A o, p \in local[n] :
        IF inv.dstdir THEN o[2] = p[2] ELSE o[1] = p[1]

\* Between two calls no socket is open but that of the connection in use and those
\* that a download left behind after a failed search (cifscp.c:562); a list leaves none.
ClosesConnections ==
    /\ call = "idle" => sockets = leaks + (IF conn = None THEN 0 ELSE 1)
    /\ inv.mode = "list" => leaks = 0

\* Every invocation comes to an end, also over a local directory with a symbolic link
\* to one that it lies in, unless a server closes a connection while it is used.
Terminates == <>(pc \in {"done", "exit", "crashed"} \/ call \in Stopped)
===============================================================================
