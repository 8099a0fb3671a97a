-------------------------------- MODULE Find --------------------------------
(***************************************************************************)
(* Directory searches (libcifs/find.c) and the walks over directory trees  *)
(* that cifscp.c makes with them: cifs_opendir asks the server for the     *)
(* first entries of a directory, cifs_readdir hands them out and asks for  *)
(* more, cifs_closedir ends the search.  A walk has a search open for      *)
(* every directory on the way down, all of them over one connection.       *)
(*                                                                         *)
(* A request and its reply are one step (Transact).  An entry is known by  *)
(* its directory and its position there; a directory does not change.      *)
(***************************************************************************)
EXTENDS Integers, Sequences, Functions

CONSTANTS
    Dirs, Files, Dots,  \* the names a directory holds: directories, files, "." and ".."
    Root,               \* where the walk begins
    Content,            \* the entries of each directory, in the server's order
    Sids,               \* the search handles of the server
    MaxFaults,          \* bound on refused requests and other failures
    MaxStats            \* bound on calls of cifs_stat

Entry == Dirs \cup Files \cup Dots

ASSUME FindAssumption ==
    /\ Root \in Dirs
    /\ Content \in [Dirs -> Seq(Entry)]
    /\ Dirs \cap Dots = {}
    /\ Sids \subseteq Nat
    /\ MaxFaults \in Nat /\ MaxStats \in Nat

Places(d) == 1..Len(Content[d])

\* The directories are a tree: a path has one parent, and the walk begins above all.
ASSUME TreeAssumption ==
    /\ \A d, e \in Dirs : \A i \in Places(d), j \in Places(e) :
          Content[d][i] = Content[e][j] /\ Content[d][i] \in Dirs => d = e /\ i = j
    /\ \A d \in Dirs : \A i \in Places(d) : Content[d][i] # Root
    /\ \A reached \in SUBSET Dirs :
          /\ Root \in reached
          /\ \A d \in reached : \A i \in Places(d) : Content[d][i] \in Dirs => Content[d][i] \in reached
          => reached = Dirs

VARIABLES
    up,         \* the connection holds
    searches,   \* open searches of the server: [sid -> the directory and how much was sent]
    asked,      \* the searches that cifs_find_close_req was called for
    nested,     \* walk into a directory at once, or (cifs_list_dir -R) after its parent
    pending,    \* directories found and not yet entered
    stack,      \* the searches of the client, the innermost last: struct cifs_dir_s
    given,      \* how often each entry was handed to the caller
    faults, stats, stat

vars == <<up, searches, asked, nested, pending, stack, given, faults, stats, stat>>

Place == [dir : Dirs, pos : Nat]
\* count entries are left in the buffer from place buf on; subs are the
\* directories that a caller of cifs_scandir has found.
Search == [dir : Dirs, sid : Sids, end : BOOLEAN, buf : Place, count : Nat, subs : Seq(Dirs)]

Init ==
    /\ up = TRUE /\ searches = <<>> /\ asked = {}
    /\ nested \in BOOLEAN /\ pending = <<Root>> /\ stack = <<>>
    /\ given = [d \in Dirs |-> [i \in Places(d) |-> 0]]
    /\ faults = 0 /\ stats = 0 /\ stat = "none"
------------------------------------------------------------------------------
(* The server *)

\* The numbers of entries and end marks with which a server may go on after
\* pos entries of d.  The end may be announced with the last entry or later.
Batches(d, pos) ==
    {b \in [n : 0 .. Len(Content[d]) - pos, end : BOOLEAN] :
        /\ b.n = 0 => pos = Len(Content[d])
        /\ b.end => pos + b.n = Len(Content[d])}

\* FLAG_TRANS2_FIND_CLOSE_IF_END: the end of a search closes it.
Open(sid, d, pos) == [s \in DOMAIN searches \cup {sid} |->
                        IF s = sid THEN [dir |-> d, pos |-> pos] ELSE searches[s]]
Shut(sid) == Restrict(searches, DOMAIN searches \ {sid})
Advance(sid, d, pos, end) == searches' = IF end THEN Shut(sid) ELSE Open(sid, d, pos)

\* A request fails: the server refuses it, or the connection is gone.
Fault == IF up THEN faults < MaxFaults /\ faults' = faults + 1 ELSE UNCHANGED faults

LinkLost ==
    /\ up /\ faults < MaxFaults
    /\ up' = FALSE /\ searches' = <<>> /\ asked' = {} /\ faults' = faults + 1
    /\ UNCHANGED <<nested, pending, stack, given, stats, stat>>
------------------------------------------------------------------------------
(* The client *)

Top       == stack[Len(stack)]
SetTop(f) == stack' = [stack EXCEPT ![Len(stack)] = f]

\* cifs_find_close_req sends the command SMBnegprot in place of SMBfindclose.
\* A server answers a second negotiation with an error and does nothing.
CloseReq(sid) == asked' = IF up THEN asked \cup {sid} ELSE asked

\* cifs_closedir, and what the caller goes on with: none looks at the result.
Closedir(f) ==
    /\ IF f.end THEN UNCHANGED asked ELSE CloseReq(f.sid)
    /\ stack' = SubSeq(stack, 1, Len(stack) - 1)
    /\ pending' = IF nested THEN pending ELSE f.subs \o pending

\* Mutant of Opened: one buffer serves all searches of a connection.
OpenedSharing(d, sid, b) ==
    Append([i \in DOMAIN stack |-> [stack[i] EXCEPT !.buf = [dir |-> d, pos |-> 0]]],
           [dir |-> d, sid |-> sid, end |-> b.end, buf |-> [dir |-> d, pos |-> 0],
            count |-> b.n, subs |-> <<>>])

Opened(d, sid, b) ==
    Append(stack, [dir |-> d, sid |-> sid, end |-> b.end, buf |-> [dir |-> d, pos |-> 0],
                   count |-> b.n, subs |-> <<>>])

\* cifs_mask sends FINDFIRST.  A directory in which nothing matches may be
\* answered with an error.
Opendir ==
    /\ pending # <<>> /\ (nested \/ stack = <<>>)
    /\ pending' = Tail(pending)
    /\ LET d == Head(pending) IN
        \/ /\ up
           /\ \E sid \in Sids \ DOMAIN searches, b \in Batches(d, 0) :
                 /\ stack' = Opened(d, sid, b)
                 /\ Advance(sid, d, b.n, b.end)
           /\ UNCHANGED faults
        \/ Content[d] = <<>> /\ UNCHANGED <<searches, stack, faults>>
        \/ Fault /\ UNCHANGED <<searches, stack>>
    /\ UNCHANGED <<up, asked, nested, given, stats, stat>>

\* cifs_download_dir cannot make the local directory and leaves at once.
MkdirFails ==
    /\ nested /\ pending = <<>> /\ stack # <<>> /\ Top.buf.pos = 0 /\ faults < MaxFaults
    /\ faults' = faults + 1
    /\ Closedir(Top)
    /\ UNCHANGED <<up, searches, nested, given, stats, stat>>

\* The caller's turn: a file is counted, listed or copied, a directory entered.
Descend(e)   == pending' = IF e \in Dirs /\ nested THEN <<e>> ELSE pending
Gather(f, e) == IF e \in Dirs /\ ~nested THEN Append(f.subs, e) ELSE f.subs

Walking == stack # <<>> /\ (nested => pending = <<>>)

\* Mutants of Handed: "." and ".." are handed out; "." is a directory to enter.
HandedDots(at, e) ==
    given' = [given EXCEPT ![at.dir][at.pos + 1] = @ + 1] /\ Descend(e)

HandedEntersDot(at, e) ==
    IF e \in Dots THEN Descend(at.dir) /\ UNCHANGED given
                  ELSE given' = [given EXCEPT ![at.dir][at.pos + 1] = @ + 1] /\ Descend(e)

\* "." and ".." make cifs_readdir try again.
Handed(at, e) ==
    IF e \in Dots THEN UNCHANGED <<given, pending>>
                  ELSE given' = [given EXCEPT ![at.dir][at.pos + 1] = @ + 1] /\ Descend(e)

\* Mutant of Used: the entry is not counted.
UsedKeepsCount(f, e) == [f EXCEPT !.buf.pos = @ + 1, !.subs = Gather(f, e)]

Used(f, e) == [f EXCEPT !.buf.pos = @ + 1, !.count = @ - 1, !.subs = Gather(f, e)]

\* cifs_readdir with entries in the buffer.
Readdir ==
    /\ Walking /\ Top.count > 0
    /\ LET at == Top.buf
           e  == Content[at.dir][at.pos + 1]
       IN  SetTop(Used(Top, e)) /\ Handed(at, e)
    /\ UNCHANGED <<up, searches, asked, nested, faults, stats, stat>>

\* The entries of a reply to FINDNEXT replace those that were used up.
Refilled(s, b) == [Top EXCEPT !.end = b.end, !.buf = s, !.count = b.n]

\* Mutant of Findnext: the end is looked at before the entries.
FindnextEndsEarly(s, b) ==
    /\ Advance(Top.sid, s.dir, s.pos + b.n, b.end)
    /\ IF b.n = 0 \/ b.end THEN Closedir(Refilled(s, b))
                           ELSE SetTop(Refilled(s, b)) /\ UNCHANGED <<asked, pending>>

Findnext(s, b) ==
    /\ Advance(Top.sid, s.dir, s.pos + b.n, b.end)
    /\ IF b.n = 0 THEN Closedir(Refilled(s, b))
                  ELSE SetTop(Refilled(s, b)) /\ UNCHANGED <<asked, pending>>

\* cifs_readdir with the buffer used up and more to come.  A failure is an end
\* like any other: no caller asks why cifs_readdir returned NULL.
ReaddirMore ==
    /\ Walking /\ Top.count = 0 /\ ~Top.end
    /\ \/ /\ up /\ Top.sid \in DOMAIN searches
          /\ LET s == searches[Top.sid] IN \E b \in Batches(s.dir, s.pos) : Findnext(s, b)
          /\ UNCHANGED faults
       \/ /\ up /\ Top.sid \in DOMAIN searches
          /\ LET s == searches[Top.sid] IN s.pos = Len(Content[s.dir])
          /\ Closedir(Top) /\ UNCHANGED <<searches, faults>>
       \/ Fault /\ Closedir(Top) /\ UNCHANGED searches
    /\ UNCHANGED <<up, nested, given, stats, stat>>

ReaddirEnd ==
    /\ Walking /\ Top.count = 0 /\ Top.end
    /\ Closedir(Top)
    /\ UNCHANGED <<up, searches, nested, given, faults, stats, stat>>

\* cifs_stat, by a caller without a search of its own: the path is that of one
\* file or, with wildcards, a pattern. A search of one match is left to itself.
Matches == {[n |-> 1, end |-> TRUE]} \cup {b \in Batches(Root, 0) : b.n > 0}

Stat ==
    /\ stack = <<>> /\ stats < MaxStats
    /\ stats' = stats + 1
    /\ \/ /\ up
          /\ \E sid \in Sids \ DOMAIN searches, b \in Matches :
                /\ Advance(sid, Root, b.n, b.end)
                /\ stat' = IF b.n = 1 THEN "ok" ELSE "error"
                /\ IF b.n # 1 /\ ~b.end THEN CloseReq(sid) ELSE UNCHANGED asked
          /\ UNCHANGED faults
       \/ Fault /\ stat' = "error" /\ UNCHANGED <<searches, asked>>
    /\ UNCHANGED <<up, nested, pending, stack, given>>

Client == Opendir \/ Readdir \/ ReaddirMore \/ ReaddirEnd
Next   == LinkLost \/ MkdirFails \/ Stat \/ Client

Spec     == Init /\ [][Next]_vars
\* A client whose requests are answered goes on.
FairSpec == Spec /\ WF_vars(Client)
------------------------------------------------------------------------------
(* Properties *)

Done == stack = <<>> /\ pending = <<>>

\* The type invariant: in particular the entries counted as left in a buffer are
\* in it.
TypeOK ==
    /\ up \in BOOLEAN /\ nested \in BOOLEAN
    /\ DOMAIN searches \subseteq Sids /\ \A s \in DOMAIN searches : searches[s] \in Place
    /\ asked \subseteq Sids
    /\ pending \in Seq(Dirs) /\ stack \in Seq(Search)
    /\ \A i \in 1..Len(stack) :
          stack[i].buf.pos + stack[i].count <= Len(Content[stack[i].buf.dir])
    /\ DOMAIN given = Dirs /\ \A d \in Dirs : given[d] \in [Places(d) -> Nat]
    /\ faults \in 0..MaxFaults /\ stats \in 0..MaxStats /\ stat \in {"none", "ok", "error"}

\* However many searches are open at the same time (cifs_get_size_dir,
\* cifs_download_dir), each has its own directory's entries in its buffer, and
\* the server is where the buffer ends: the next entries are the ones after.
SearchHeld ==
    \A i \in 1..Len(stack) :
        LET f    == stack[i]
            next == f.buf.pos + f.count
        IN  /\ f.buf.dir = f.dir
            /\ f.end => next = Len(Content[f.dir])
            /\ up /\ ~f.end => /\ f.sid \in DOMAIN searches
                               /\ searches[f.sid] = [dir |-> f.dir, pos |-> next]

\* No entry of a directory is handed out twice, and "." and ".." never, also
\* when searches fail on the way (cifs_readdir).
EntryOnce ==
    \A d \in Dirs : \A i \in Places(d) :
        given[d][i] <= (IF Content[d][i] \in Dots THEN 0 ELSE 1)

\* A walk in which nothing failed has handed out every entry of every directory:
\* no way in which a server may divide a listing, or announce its end, loses one.
Complete ==
    Done /\ faults = 0 =>
        \A d \in Dirs : \A i \in Places(d) :
            Content[d][i] \notin Dots => given[d][i] = 1

\* A walk ends, whatever fails.
Terminates == <>Done

\* A search is closed at the server once the client has asked for it
\* (cifs_closedir, cifs_stat).
ClosedOnRequest == asked \cap DOMAIN searches = {}
==============================================================================
