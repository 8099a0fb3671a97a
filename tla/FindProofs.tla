------------------------------ MODULE FindProofs ------------------------------
(***************************************************************************)
(* Proofs about Find, for every tree of directories, every number of       *)
(* search handles and every way in which a server divides its listings.    *)
(***************************************************************************)
EXTENDS Find, SequenceTheorems, TLAPS

Injective(s) == \A i, j \in 1..Len(s) : s[i] = s[j] => i = j
Occurs(d, s) == \E i \in 1..Len(s) : s[i] = d

\* The searches that the server holds for the client are different ones.
Apart ==
    \A i, j \in 1..Len(stack) :
        up /\ ~stack[i].end /\ ~stack[j].end /\ stack[i].sid = stack[j].sid => i = j

\* A walk that goes down at once has one directory to enter at most, one that lists a
\* directory first has one search open at most.
Modes ==
    /\ nested => Len(pending) <= 1 /\ \A k \in 1..Len(stack) : stack[k].subs = <<>>
    /\ ~nested => Len(stack) <= 1

\* Found and not yet entered, when p is pending and s the stack; being listed.
Waits(d, p, s) == Occurs(d, p) \/ \E k \in 1..Len(s) : Occurs(d, s[k].subs)
Entered(d, s)  == \E k \in 1..Len(s) : s[k].dir = d

\* No directory is in two of the places from which it is entered, or was.
Unique ==
    /\ Injective(pending)
    /\ \A k \in 1..Len(stack) :
          /\ Injective(stack[k].subs)
          /\ \A d \in Dirs : Occurs(d, stack[k].subs) => ~Occurs(d, pending)
          /\ ~Waits(stack[k].dir, pending, stack)
          /\ \A j \in 1..Len(stack) : stack[j].dir = stack[k].dir => j = k

\* The walk begins at a directory, or its entry was handed out.
Found(d, g) == d = Root \/ \E p \in Dirs : \E i \in Places(p) : Content[p][i] = d /\ g[p][i] > 0

\* What was not found is not entered, and what was not entered not handed out.
Fresh ==
    /\ \A d \in Dirs :
          /\ Waits(d, pending, stack) => Found(d, given)
          /\ Entered(d, stack) => Found(d, given)
          /\ \A i \in Places(d) : given[d][i] > 0 => Found(d, given) /\ ~Waits(d, pending, stack)
    /\ \A k \in 1..Len(stack) : \A i \in Places(stack[k].dir) :
          given[stack[k].dir][i] > 0 => i <= stack[k].buf.pos

\* Nothing of the directory is left out up to the n-th entry.
HandedOut(d, n, g) == \A i \in Places(d) : i <= n /\ Content[d][i] \notin Dots => g[d][i] > 0

\* As long as nothing fails, a directory that was found is waiting, being listed, or done.
Covered ==
    faults = 0 =>
        /\ up
        /\ \A k \in 1..Len(stack) : HandedOut(stack[k].dir, stack[k].buf.pos, given)
        /\ \A d \in Dirs : Found(d, given) =>
              \/ Waits(d, pending, stack) \/ Entered(d, stack)
              \/ HandedOut(d, Len(Content[d]), given)

WalkInv == Modes /\ Unique /\ Fresh /\ EntryOnce /\ Covered

IInv == TypeOK /\ SearchHeld /\ Apart /\ WalkInv
-------------------------------------------------------------------------------
(* The stack, and what the calls do to it *)

LEMMA StackTop ==
    ASSUME TypeOK, stack # <<>>
    PROVE  /\ Len(stack) \in Nat \ {0} /\ Len(stack) \in 1..Len(stack)
           /\ Top \in Search /\ Top.buf.pos + Top.count <= Len(Content[Top.buf.dir])
<1>1. Len(stack) \in Nat \ {0} /\ Len(stack) \in 1..Len(stack)
  BY EmptySeq DEF TypeOK
<1>2. stack[Len(stack)] \in Search
  BY <1>1, ElementOfSeq DEF TypeOK
<1> QED
  BY <1>1, <1>2 DEF TypeOK, Top

LEMMA DirType == ASSUME TypeOK, NEW k \in 1..Len(stack) PROVE stack[k].dir \in Dirs
<1>1. stack[k] \in Search
  BY ElementOfSeq DEF TypeOK
<1> QED
  BY <1>1 DEF Search

LEMMA Pushed ==
    ASSUME TypeOK, NEW f \in Search, NEW t, t = Append(stack, f)
    PROVE  /\ t \in Seq(Search) /\ Len(t) = Len(stack) + 1 /\ t[Len(stack) + 1] = f
           /\ \A k \in 1..Len(stack) : t[k] = stack[k]
  BY AppendProperties DEF TypeOK

LEMMA Popped ==
    ASSUME TypeOK, stack # <<>>, NEW t, t = SubSeq(stack, 1, Len(stack) - 1)
    PROVE  /\ t \in Seq(Search) /\ Len(t) = Len(stack) - 1
           /\ \A k \in 1..Len(t) : t[k] = stack[k]
<1>0. Len(stack) - 1 \in Nat
  BY StackTop
<1>1. PICK n \in Nat : n = Len(stack) - 1
  BY <1>0
<1>2. \A k \in 1..n : stack[k] \in Search
  BY <1>1, StackTop, ElementOfSeq DEF TypeOK
<1>3. /\ SubSeq(stack, 1, n) \in Seq(Search) /\ Len(SubSeq(stack, 1, n)) = n
      /\ \A k \in 1..n : SubSeq(stack, 1, n)[k] = stack[k]
  BY <1>2, SubSeqProperties
<1> QED
  BY <1>1, <1>3

LEMMA Replaced ==
    ASSUME TypeOK, stack # <<>>, NEW f \in Search, SetTop(f)
    PROVE  /\ stack' \in Seq(Search) /\ Len(stack') = Len(stack) /\ stack'[Len(stack)] = f
           /\ \A k \in 1..Len(stack) : k # Len(stack) => stack'[k] = stack[k]
  BY StackTop, ExceptSeq DEF TypeOK, SetTop

\* What closing the innermost search does, and where its directories go.
LEMMA Closed ==
    ASSUME TypeOK, stack # <<>>, NEW f \in Search, Closedir(f)
    PROVE  /\ asked' \subseteq Sids
           /\ stack' \in Seq(Search) /\ Len(stack') = Len(stack) - 1
           /\ \A k \in 1..Len(stack') : stack'[k] = stack[k]
           /\ pending' \in Seq(Dirs)
           /\ nested => pending' = pending
           /\ ~nested => /\ Len(pending') = Len(f.subs) + Len(pending)
                         /\ \A k \in 1..Len(pending') : pending'[k] =
                               IF k <= Len(f.subs) THEN f.subs[k] ELSE pending[k - Len(f.subs)]
<1>1. asked' \subseteq Sids
  BY DEF Closedir, CloseReq, TypeOK, Search
<1>2. /\ stack' \in Seq(Search) /\ Len(stack') = Len(stack) - 1
      /\ \A k \in 1..Len(stack') : stack'[k] = stack[k]
  BY Popped DEF Closedir
<1>3. f.subs \in Seq(Dirs) /\ pending \in Seq(Dirs)
  BY DEF Search, TypeOK
<1>4. /\ f.subs \o pending \in Seq(Dirs) /\ Len(f.subs \o pending) = Len(f.subs) + Len(pending)
      /\ \A k \in 1..Len(f.subs) + Len(pending) : (f.subs \o pending)[k] =
            IF k <= Len(f.subs) THEN f.subs[k] ELSE pending[k - Len(f.subs)]
  BY <1>3, ConcatProperties
<1> QED
  BY <1>1, <1>2, <1>3, <1>4 DEF Closedir

\* What the server keeps of a search that goes on, and of the others.
LEMMA Advanced ==
    ASSUME TypeOK, NEW sid \in Sids, NEW d \in Dirs, NEW pos \in Nat, NEW end \in BOOLEAN,
           Advance(sid, d, pos, end)
    PROVE  /\ DOMAIN searches' \subseteq Sids
           /\ \A s \in DOMAIN searches' : searches'[s] \in Place
           /\ \A s \in DOMAIN searches : s # sid =>
                 s \in DOMAIN searches' /\ searches'[s] = searches[s]
           /\ ~end => sid \in DOMAIN searches' /\ searches'[sid] = [dir |-> d, pos |-> pos]
<1>1. [dir |-> d, pos |-> pos] \in Place
  BY DEF Place
<1>2. CASE end
  BY <1>2 DEF Advance, Shut, Restrict, TypeOK
<1>3. CASE ~end
  BY <1>1, <1>3 DEF Advance, Open, TypeOK
<1> QED
  BY <1>2, <1>3
LEMMA LengthType == ASSUME NEW d \in Dirs PROVE Len(Content[d]) \in Nat
  BY FindAssumption

LEMMA BatchType ==
    ASSUME NEW d \in Dirs, NEW pos \in Nat, NEW b \in Batches(d, pos)
    PROVE  /\ b.n \in Nat /\ b.end \in BOOLEAN /\ pos + b.n <= Len(Content[d])
           /\ b.n = 0 => pos = Len(Content[d])
           /\ b.end => pos + b.n = Len(Content[d])
  BY LengthType DEF Batches

\* The entry that is taken next, and the search without it.
LEMMA NextEntry ==
    ASSUME TypeOK, stack # <<>>, Top.count > 0, NEW e, e = Content[Top.buf.dir][Top.buf.pos + 1],
           NEW f, f = Used(Top, e)
    PROVE  /\ Top.buf.dir \in Dirs /\ Top.buf.pos \in Nat /\ Top.buf.pos + 1 \in Places(Top.buf.dir)
           /\ e \in Entry /\ f \in Search
           /\ f.dir = Top.dir /\ f.sid = Top.sid /\ f.end = Top.end /\ f.buf.dir = Top.buf.dir
           /\ f.buf.pos = Top.buf.pos + 1 /\ f.count = Top.count - 1 /\ f.subs = Gather(Top, e)
<1>1. Top \in Search /\ Top.buf.pos + Top.count <= Len(Content[Top.buf.dir])
  BY StackTop
<1>2. /\ Top.buf.dir \in Dirs /\ Top.buf.pos \in Nat /\ Top.count \in Nat
      /\ Len(Content[Top.buf.dir]) \in Nat /\ Content[Top.buf.dir] \in Seq(Entry)
  BY <1>1, LengthType, FindAssumption DEF Search, Place
<1>3. Top.buf.pos + 1 \in 1..Len(Content[Top.buf.dir])
  BY <1>1, <1>2
<1>4. e \in Entry
  BY <1>2, <1>3, ElementOfSeq
<1>5. Gather(Top, e) \in Seq(Dirs)
  BY <1>1, AppendProperties DEF Gather, Search
<1> DEFINE g == Gather(Top, e)
<1> HIDE DEF g
<1>6. f = [dir |-> Top.dir, sid |-> Top.sid, end |-> Top.end,
           buf |-> [dir |-> Top.buf.dir, pos |-> Top.buf.pos + 1], count |-> Top.count - 1, subs |-> g]
  <2>1. f = [Top EXCEPT !.buf.pos = @ + 1, !.count = @ - 1, !.subs = g]
    BY DEF Used, g
  <2>2. Top.buf = [dir |-> Top.buf.dir, pos |-> Top.buf.pos]
    BY <1>1 DEF Search, Place
  <2>3. Top = [dir |-> Top.dir, sid |-> Top.sid, end |-> Top.end, buf |-> Top.buf,
               count |-> Top.count, subs |-> Top.subs]
    BY <1>1 DEF Search
  <2> QED
    BY <2>1, <2>2, <2>3
<1>7. g \in Seq(Dirs)
  BY <1>5 DEF g
<1>8. Top.dir \in Dirs /\ Top.sid \in Sids /\ Top.end \in BOOLEAN /\ Top.count - 1 \in Nat
  BY <1>1, <1>2 DEF Search
<1>9. f \in Search
  BY <1>2, <1>6, <1>7, <1>8 DEF Search, Place
<1> QED
  BY <1>2, <1>3, <1>4, <1>6, <1>9 DEF Places, g

LEMMA GivenType ==
    ASSUME TypeOK, NEW at \in Place, at.pos + 1 \in Places(at.dir), NEW e, Handed(at, e)
    PROVE  /\ DOMAIN given' = Dirs /\ \A d \in Dirs : given'[d] \in [Places(d) -> Nat]
           /\ \A d \in Dirs : \A i \in Places(d) :
                 given'[d][i] = IF e \notin Dots /\ d = at.dir /\ i = at.pos + 1
                                THEN given[d][i] + 1 ELSE given[d][i]
<1>1. CASE e \in Dots
  BY <1>1 DEF Handed, TypeOK
<1>2. CASE e \notin Dots
  <2>1. given' = [given EXCEPT ![at.dir][at.pos + 1] = @ + 1]
    BY <1>2 DEF Handed
  <2>2. at.dir \in Dirs
    BY DEF Place
  <2>3. given[at.dir] \in [Places(at.dir) -> Nat] /\ DOMAIN given = Dirs
    BY <2>2 DEF TypeOK
  <2>4. /\ given'[at.dir] = [given[at.dir] EXCEPT ![at.pos + 1] = given[at.dir][at.pos + 1] + 1]
        /\ DOMAIN given' = Dirs
        /\ \A d \in Dirs : d # at.dir => given'[d] = given[d]
    BY <2>1, <2>2, <2>3
  <2>5. given'[at.dir] \in [Places(at.dir) -> Nat]
    BY <2>3, <2>4
  <2> QED
    BY <1>2, <2>3, <2>4, <2>5 DEF TypeOK
<1> QED
  BY <1>1, <1>2

LEMMA PendingType ==
    ASSUME TypeOK, NEW at, NEW e \in Entry, Handed(at, e)
    PROVE  /\ pending' \in Seq(Dirs)
           /\ ~(nested /\ e \in Dirs) => pending' = pending
           /\ nested /\ e \in Dirs => pending' = <<e>>
<1>1. e \in Dirs => <<e>> \in Seq(Dirs) /\ e \notin Dots
  BY FindAssumption
<1> QED
  BY <1>1 DEF Handed, Descend, TypeOK

\* The search that is left when a reply came in.
LEMMA RefilledIs ==
    ASSUME TypeOK, stack # <<>>, NEW s \in Place, NEW b \in Batches(s.dir, s.pos),
           NEW f, f = Refilled(s, b)
    PROVE  /\ f \in Search /\ f.dir = Top.dir /\ f.sid = Top.sid /\ f.subs = Top.subs
           /\ f.end = b.end /\ f.buf = s /\ f.count = b.n
           /\ s.pos + b.n <= Len(Content[s.dir])
<1>1. Top \in Search /\ s.dir \in Dirs /\ s.pos \in Nat
  BY StackTop DEF Place
<1>2. b.n \in Nat /\ b.end \in BOOLEAN /\ s.pos + b.n <= Len(Content[s.dir])
  BY <1>1, BatchType
<1> QED
  BY <1>1, <1>2 DEF Refilled, Search
-------------------------------------------------------------------------------
(* Types *)

\* In a buffer are entries of its directory.
InBuffer(f) == f.buf.pos + f.count <= Len(Content[f.buf.dir])

\* The steps of Opendir that begin a search, and of ReaddirMore that get a reply.
OpendirOk(sid, b) ==
    /\ up /\ sid \in Sids \ DOMAIN searches /\ b \in Batches(Head(pending), 0)
    /\ stack' = Opened(Head(pending), sid, b) /\ Advance(sid, Head(pending), b.n, b.end)
    /\ UNCHANGED faults

OpendirNone ==
    /\ (Content[Head(pending)] = <<>> /\ UNCHANGED faults) \/ Fault
    /\ UNCHANGED <<searches, stack>>

LEMMA FaultType ==
    ASSUME TypeOK, Fault
    PROVE  faults' \in 0..MaxFaults /\ (faults' = 0 => ~up /\ faults = 0)
  BY FindAssumption DEF Fault, TypeOK

LEMMA OpenedIs ==
    ASSUME TypeOK, pending # <<>>, NEW sid \in Sids, NEW b \in Batches(Head(pending), 0),
           NEW f, f = [dir |-> Head(pending), sid |-> sid, end |-> b.end,
                       buf |-> [dir |-> Head(pending), pos |-> 0], count |-> b.n, subs |-> <<>>]
    PROVE  /\ Head(pending) \in Dirs /\ f \in Search /\ InBuffer(f)
           /\ b.n \in Nat /\ b.end \in BOOLEAN /\ b.n <= Len(Content[Head(pending)])
           /\ b.end => b.n = Len(Content[Head(pending)])
<1>1. Head(pending) \in Dirs
  BY HeadTailProperties DEF TypeOK
<1>2. /\ b.n \in Nat /\ b.end \in BOOLEAN /\ 0 + b.n <= Len(Content[Head(pending)])
      /\ b.end => 0 + b.n = Len(Content[Head(pending)])
  BY <1>1, BatchType
<1>3. <<>> \in Seq(Dirs)
  BY EmptySeq
<1> QED
  BY <1>1, <1>2, <1>3 DEF Search, Place, InBuffer

LEMMA TypeInit == Init => TypeOK
<1> SUFFICES ASSUME Init PROVE TypeOK
  OBVIOUS
<1>1. pending \in Seq(Dirs) /\ stack \in Seq(Search) /\ Len(stack) = 0
  BY FindAssumption, EmptySeq DEF Init
<1>2. DOMAIN searches = {}
  BY DEF Init
<1> QED
  BY <1>1, <1>2, FindAssumption DEF Init, TypeOK

LEMMA TypeStep == TypeOK /\ [Next]_vars => TypeOK'
<1> SUFFICES ASSUME TypeOK, [Next]_vars PROVE TypeOK'
  OBVIOUS
\* The search on top is closed, with what was known of it.
<1> DEFINE Same == UNCHANGED <<up, nested, given, stats, stat>>
<1>1. ASSUME stack # <<>>, NEW f \in Search, Closedir(f), Same, faults' \in 0..MaxFaults,
             DOMAIN searches' \subseteq Sids, \A s \in DOMAIN searches' : searches'[s] \in Place
      PROVE  TypeOK'
  <2>1. \A k \in 1..Len(stack') : k \in 1..Len(stack) /\ stack'[k] = stack[k]
    BY <1>1, Closed, StackTop
  <2> QED
    BY <1>1, <2>1, Closed DEF TypeOK
<1>2. ASSUME stack # <<>>, NEW f \in Search, InBuffer(f), SetTop(f),
             UNCHANGED <<up, nested, asked, stats, stat>>,
             faults' \in 0..MaxFaults, pending' \in Seq(Dirs),
             DOMAIN given' = Dirs, \A d \in Dirs : given'[d] \in [Places(d) -> Nat],
             DOMAIN searches' \subseteq Sids, \A s \in DOMAIN searches' : searches'[s] \in Place
      PROVE  TypeOK'
  <2>1. stack' \in Seq(Search) /\ Len(stack') = Len(stack)
        /\ \A k \in 1..Len(stack') : stack'[k] = f \/ stack'[k] = stack[k]
    BY <1>2, Replaced
  <2>2. \A k \in 1..Len(stack') : stack'[k].buf.pos + stack'[k].count <= Len(Content[stack'[k].buf.dir])
    BY <1>2, <2>1 DEF InBuffer, TypeOK
  <2> QED
    BY <1>2, <2>1, <2>2 DEF TypeOK
<1>3. DOMAIN searches \subseteq Sids /\ \A s \in DOMAIN searches : searches[s] \in Place
  BY DEF TypeOK
<1>4. ASSUME LinkLost PROVE TypeOK'
  <2>1. DOMAIN searches' = {} /\ asked' = {} /\ faults' \in 0..MaxFaults /\ up' = FALSE
    BY <1>4, FindAssumption DEF LinkLost, TypeOK
  <2> QED
    BY <1>4, <2>1, FindAssumption DEF LinkLost, TypeOK
<1>5. ASSUME MkdirFails PROVE TypeOK'
  <2>1. stack # <<>> /\ Top \in Search
    BY <1>5, StackTop DEF MkdirFails
  <2> QED
    BY <1>1, <1>3, <1>5, <2>1, FindAssumption DEF MkdirFails, TypeOK
<1>6. ASSUME Stat PROVE TypeOK'
  <2>1. stats' \in 0..MaxStats /\ UNCHANGED <<up, nested, pending, stack, given>>
    BY <1>6, FindAssumption DEF Stat, TypeOK
  <2>2. CASE Fault /\ stat' = "error" /\ UNCHANGED <<searches, asked>>
    BY <2>1, <2>2, FaultType DEF TypeOK
  <2>3. ASSUME NEW sid \in Sids \ DOMAIN searches, NEW b \in Matches,
               Advance(sid, Root, b.n, b.end), stat' = IF b.n = 1 THEN "ok" ELSE "error",
               IF b.n # 1 /\ ~b.end THEN CloseReq(sid) ELSE UNCHANGED asked, UNCHANGED faults
        PROVE  TypeOK'
    <3>1. Root \in Dirs /\ b.n \in Nat /\ b.end \in BOOLEAN
      <4>1. Root \in Dirs /\ 0 \in Nat
        BY FindAssumption
      <4>2. CASE b = [n |-> 1, end |-> TRUE]
        BY <4>1, <4>2
      <4>3. CASE b \in Batches(Root, 0)
        BY <4>1, <4>3, BatchType
      <4> QED
        BY <4>1, <4>2, <4>3 DEF Matches
    <3>2. DOMAIN searches' \subseteq Sids /\ \A s \in DOMAIN searches' : searches'[s] \in Place
      BY <2>3, <3>1, Advanced
    <3>3. asked' \subseteq Sids
      BY <2>3 DEF CloseReq, TypeOK
    <3> QED
      BY <2>1, <2>3, <3>2, <3>3 DEF TypeOK
  <2> QED
    BY <1>6, <2>2, <2>3 DEF Stat
<1>7. ASSUME Opendir PROVE TypeOK'
  <2>1. pending # <<>> /\ pending' \in Seq(Dirs) /\ UNCHANGED <<up, asked, nested, given, stats, stat>>
    BY <1>7, HeadTailProperties DEF Opendir, TypeOK
  <2>2. ASSUME NEW sid \in Sids, NEW b, OpendirOk(sid, b) PROVE TypeOK'
    <3> DEFINE f == [dir |-> Head(pending), sid |-> sid, end |-> b.end,
                     buf |-> [dir |-> Head(pending), pos |-> 0], count |-> b.n, subs |-> <<>>]
    <3>1. /\ Head(pending) \in Dirs /\ f \in Search /\ InBuffer(f)
          /\ b.n \in Nat /\ b.end \in BOOLEAN
      BY <2>1, <2>2, OpenedIs DEF OpendirOk
    <3>2. stack' = Append(stack, f)
      BY <2>2 DEF OpendirOk, Opened
    <3> HIDE DEF f
    <3>3. /\ stack' \in Seq(Search) /\ Len(stack') = Len(stack) + 1 /\ Len(stack) \in Nat
          /\ \A k \in 1..Len(stack') : stack'[k] = f \/ (k \in 1..Len(stack) /\ stack'[k] = stack[k])
      BY <3>1, <3>2, Pushed, LenProperties DEF TypeOK
    <3>4. DOMAIN searches' \subseteq Sids /\ \A s \in DOMAIN searches' : searches'[s] \in Place
      BY <2>2, <3>1, Advanced DEF OpendirOk
    <3>5. \A k \in 1..Len(stack') : stack'[k].buf.pos + stack'[k].count <= Len(Content[stack'[k].buf.dir])
      BY <3>1, <3>3 DEF InBuffer, TypeOK
    <3> QED
      BY <2>1, <2>2, <3>3, <3>4, <3>5 DEF OpendirOk, TypeOK
  <2>3. ASSUME OpendirNone PROVE TypeOK'
    BY <2>1, <2>3, FaultType DEF OpendirNone, TypeOK
  <2> QED
    BY <1>7, <2>2, <2>3 DEF Opendir, OpendirOk, OpendirNone
<1>8. ASSUME Readdir PROVE TypeOK'
  <2> DEFINE e == Content[Top.buf.dir][Top.buf.pos + 1]
             f == Used(Top, e)
  <2>1. /\ stack # <<>> /\ Top.count > 0 /\ SetTop(f) /\ Handed(Top.buf, e)
        /\ UNCHANGED <<up, searches, asked, nested, faults, stats, stat>>
    BY <1>8 DEF Readdir, Walking
  <2>2. /\ f \in Search /\ Top.buf.pos + 1 \in Places(Top.buf.dir) /\ e \in Entry
        /\ f.buf.dir = Top.buf.dir /\ f.buf.pos = Top.buf.pos + 1 /\ f.count = Top.count - 1
    BY <2>1, NextEntry
  <2>3. Top \in Search /\ Top.buf.pos + Top.count <= Len(Content[Top.buf.dir])
    BY <2>1, StackTop
  <2> HIDE DEF f, e
  <2>4. InBuffer(f) /\ Top.buf \in Place
    BY <2>2, <2>3 DEF InBuffer, Search, Place
  <2>5. /\ DOMAIN given' = Dirs /\ \A d \in Dirs : given'[d] \in [Places(d) -> Nat]
        /\ pending' \in Seq(Dirs)
    BY <2>1, <2>2, <2>4, GivenType, PendingType
  <2> QED
    BY <1>2, <1>3, <2>1, <2>2, <2>4, <2>5 DEF TypeOK
<1>9. ASSUME ReaddirMore PROVE TypeOK'
  <2>1. stack # <<>> /\ Top \in Search /\ UNCHANGED <<up, nested, given, stats, stat>>
    BY <1>9, StackTop DEF ReaddirMore, Walking
  <2>2. ASSUME NEW s, NEW b \in Batches(s.dir, s.pos), Findnext(s, b),
               Top.sid \in DOMAIN searches, s = searches[Top.sid], UNCHANGED faults
        PROVE  TypeOK'
    <3>1. s \in Place /\ s.dir \in Dirs /\ s.pos \in Nat
      BY <2>2, <1>3 DEF Place
    <3> DEFINE f == Refilled(s, b)
    <3>2. f \in Search /\ InBuffer(f)
      BY <2>1, <3>1, RefilledIs DEF InBuffer
    <3>3. b.n \in Nat /\ b.end \in BOOLEAN /\ s.pos + b.n \in Nat /\ Top.sid \in Sids
      BY <2>1, <3>1, BatchType DEF Search
    <3> HIDE DEF f
    <3>4. DOMAIN searches' \subseteq Sids /\ \A x \in DOMAIN searches' : searches'[x] \in Place
      BY <2>2, <3>1, <3>3, Advanced DEF Findnext
    <3>5. CASE b.n = 0
      BY <1>1, <2>1, <2>2, <3>2, <3>4, <3>5 DEF Findnext, f, TypeOK
    <3>6. CASE b.n # 0
      BY <1>2, <2>1, <2>2, <3>2, <3>4, <3>6 DEF Findnext, f, TypeOK
    <3> QED
      BY <3>5, <3>6
  <2>3. ASSUME Closedir(Top), UNCHANGED searches, Fault \/ UNCHANGED faults PROVE TypeOK'
    BY <1>1, <1>3, <2>1, <2>3, FaultType DEF TypeOK
  <2> QED
    BY <1>9, <2>2, <2>3 DEF ReaddirMore
<1>10. ASSUME ReaddirEnd PROVE TypeOK'
  <2>1. stack # <<>> /\ Top \in Search
    BY <1>10, StackTop DEF ReaddirEnd, Walking
  <2> QED
    BY <1>1, <1>3, <1>10, <2>1 DEF ReaddirEnd, TypeOK
<1>11. CASE UNCHANGED vars
  BY <1>11 DEF vars, TypeOK
<1> QED
  BY <1>4, <1>5, <1>6, <1>7, <1>8, <1>9, <1>10, <1>11 DEF Next, Client

\* The entries counted as left in a buffer are in it, and all else has its type, for
\* every tree, server and number of failures.
THEOREM TypeCorrect == Spec => []TypeOK
  BY TypeInit, TypeStep, PTL DEF Spec
-------------------------------------------------------------------------------
(* The searches *)

\* What SearchHeld says of a search f of the client, when the server holds ss.
Held(f, u, ss) ==
    /\ f.buf.dir = f.dir
    /\ f.end => f.buf.pos + f.count = Len(Content[f.dir])
    /\ u /\ ~f.end => /\ f.sid \in DOMAIN ss
                      /\ ss[f.sid] = [dir |-> f.dir, pos |-> f.buf.pos + f.count]

LEMMA HeldIs == SearchHeld <=> \A i \in 1..Len(stack) : Held(stack[i], up, searches)
  BY DEF SearchHeld, Held

LEMMA HeldIsPrimed == SearchHeld' <=> \A i \in 1..Len(stack') : Held(stack'[i], up', searches')
  BY DEF SearchHeld, Held

\* Searches stay held as long as the server keeps theirs.
LEMMA StayHeld ==
    ASSUME SearchHeld, Apart, up' => up,
           \A i \in 1..Len(stack') : i \in 1..Len(stack) /\ stack'[i] = stack[i],
           \A i \in 1..Len(stack') : up /\ ~stack[i].end /\ stack[i].sid \in DOMAIN searches /\ up' =>
               stack[i].sid \in DOMAIN searches' /\ searches'[stack[i].sid] = searches[stack[i].sid]
    PROVE  SearchHeld' /\ Apart'
<1>1. Apart'
  BY DEF Apart
<1>2. ASSUME NEW i \in 1..Len(stack') PROVE Held(stack'[i], up', searches')
  <2>1. Held(stack[i], up, searches) /\ stack'[i] = stack[i]
    BY <1>2, HeldIs
  <2> QED
    BY <1>2, <2>1 DEF Held
<1> QED
  BY <1>1, <1>2, HeldIsPrimed

\* The innermost search changes or is a new one, the others are kept.
LEMMA OneHeld ==
    ASSUME SearchHeld, Apart, UNCHANGED up, NEW n \in 1..Len(stack'), NEW f, stack'[n] = f,
           \A i \in 1..Len(stack') : i # n => i \in 1..Len(stack) /\ stack'[i] = stack[i],
           Held(f, up, searches'),
           \A i \in 1..Len(stack) : i # n /\ up /\ ~stack[i].end =>
               /\ stack[i].sid \in DOMAIN searches'
               /\ searches'[stack[i].sid] = searches[stack[i].sid]
               /\ ~f.end => stack[i].sid # f.sid
    PROVE  SearchHeld' /\ Apart'
<1>1. ASSUME NEW i \in 1..Len(stack') PROVE Held(stack'[i], up', searches')
  <2>1. CASE i = n
    BY <2>1
  <2>2. CASE i # n
    <3>1. Held(stack[i], up, searches) /\ stack'[i] = stack[i] /\ i \in 1..Len(stack)
      BY <1>1, <2>2, HeldIs
    <3> QED
      BY <2>2, <3>1 DEF Held
  <2> QED
    BY <2>1, <2>2
<1>2. Apart'
  BY DEF Apart
<1> QED
  BY <1>1, <1>2, HeldIsPrimed

\* As long as the connection holds, the server has the innermost search where the
\* buffer ends, and no other search of the client under its number.
LEMMA TopHeld ==
    ASSUME TypeOK, SearchHeld, Apart, stack # <<>>
    PROVE  /\ Held(Top, up, searches)
           /\ up /\ ~Top.end => \A i \in 1..Len(stack) :
                  i # Len(stack) /\ ~stack[i].end => stack[i].sid # Top.sid
  BY StackTop, HeldIs DEF Top, Apart

LEMMA HeldInit == Init => SearchHeld /\ Apart
<1> SUFFICES ASSUME Init PROVE SearchHeld /\ Apart
  OBVIOUS
<1>1. Len(stack) = 0
  BY EmptySeq DEF Init
<1> QED
  BY <1>1 DEF SearchHeld, Apart

LEMMA HeldStep == TypeOK /\ SearchHeld /\ Apart /\ [Next]_vars => SearchHeld' /\ Apart'
<1> SUFFICES ASSUME TypeOK, SearchHeld, Apart, [Next]_vars PROVE SearchHeld' /\ Apart'
  OBVIOUS
<1>1. ASSUME stack # <<>>, NEW f \in Search, Closedir(f), UNCHANGED <<up, searches>>
      PROVE  SearchHeld' /\ Apart'
  <2>1. \A k \in 1..Len(stack') : k \in 1..Len(stack) /\ stack'[k] = stack[k]
    BY <1>1, Closed, StackTop
  <2> QED
    BY <1>1, <2>1, StayHeld
<1>2. ASSUME UNCHANGED <<stack, searches>>, up' => up PROVE SearchHeld' /\ Apart'
  BY <1>2, StayHeld
<1>3. ASSUME LinkLost PROVE SearchHeld' /\ Apart'
  BY <1>3, StayHeld DEF LinkLost
<1>4. ASSUME MkdirFails PROVE SearchHeld' /\ Apart'
  BY <1>1, <1>4, StackTop DEF MkdirFails
<1>5. ASSUME Stat PROVE SearchHeld' /\ Apart'
  <2>1. Len(stack) = 0 /\ UNCHANGED stack
    BY <1>5, EmptySeq DEF Stat
  <2> QED
    BY <2>1 DEF SearchHeld, Apart
<1>6. ASSUME Opendir PROVE SearchHeld' /\ Apart'
  <2>1. pending # <<>> /\ UNCHANGED up
    BY <1>6 DEF Opendir
  <2>2. ASSUME NEW sid \in Sids, NEW b, OpendirOk(sid, b) PROVE SearchHeld' /\ Apart'
    <3> DEFINE d == Head(pending)
               f == [dir |-> d, sid |-> sid, end |-> b.end,
                     buf |-> [dir |-> d, pos |-> 0], count |-> b.n, subs |-> <<>>]
    <3>1. /\ d \in Dirs /\ f \in Search
          /\ b.n \in Nat /\ b.end \in BOOLEAN /\ (b.end => b.n = Len(Content[d]))
      BY <2>1, <2>2, OpenedIs DEF OpendirOk
    <3>2. stack' = Append(stack, f)
      BY <2>2 DEF OpendirOk, Opened
    <3>3. /\ f.dir = d /\ f.sid = sid /\ f.end = b.end /\ f.count = b.n
          /\ f.buf.dir = d /\ f.buf.pos = 0
      OBVIOUS
    <3> HIDE DEF f, d
    <3>4. Advance(sid, d, b.n, b.end) /\ sid \notin DOMAIN searches
      BY <2>2 DEF OpendirOk, d
    <3>5. /\ Len(stack) \in Nat /\ Len(stack') = Len(stack) + 1 /\ stack'[Len(stack) + 1] = f
          /\ \A k \in 1..Len(stack) : stack'[k] = stack[k]
      BY <3>1, <3>2, Pushed, LenProperties DEF TypeOK
    <3>6. /\ \A s \in DOMAIN searches : s \in DOMAIN searches' /\ searches'[s] = searches[s]
          /\ ~b.end => sid \in DOMAIN searches' /\ searches'[sid] = [dir |-> d, pos |-> b.n]
      BY <3>1, <3>4, Advanced
    <3>7. Held(f, up, searches')
      BY <3>1, <3>3, <3>6 DEF Held
    <3>8. \A i \in 1..Len(stack) : up /\ ~stack[i].end => stack[i].sid \in DOMAIN searches
      BY HeldIs DEF Held
    <3>9. Len(stack) + 1 \in 1..Len(stack')
      BY <3>5
    <3>10. \A i \in 1..Len(stack') : i # Len(stack) + 1 => i \in 1..Len(stack) /\ stack'[i] = stack[i]
      BY <3>5
    <3>11. \A i \in 1..Len(stack) : up /\ ~stack[i].end =>
               /\ stack[i].sid \in DOMAIN searches'
               /\ searches'[stack[i].sid] = searches[stack[i].sid]
               /\ stack[i].sid # f.sid
      BY <3>3, <3>4, <3>6, <3>8
    <3> QED
      BY <2>1, <3>5, <3>7, <3>9, <3>10, <3>11, OneHeld
  <2>3. ASSUME OpendirNone PROVE SearchHeld' /\ Apart'
    BY <1>2, <2>1, <2>3 DEF OpendirNone
  <2> QED
    BY <1>6, <2>2, <2>3 DEF Opendir, OpendirOk, OpendirNone
<1>7. ASSUME Readdir PROVE SearchHeld' /\ Apart'
  <2> DEFINE e == Content[Top.buf.dir][Top.buf.pos + 1]
             f == Used(Top, e)
  <2>1. stack # <<>> /\ Top.count > 0 /\ SetTop(f) /\ UNCHANGED <<up, searches>>
    BY <1>7 DEF Readdir, Walking
  <2>2. /\ f \in Search /\ f.dir = Top.dir /\ f.sid = Top.sid /\ f.end = Top.end
        /\ f.buf.dir = Top.buf.dir /\ f.buf.pos = Top.buf.pos + 1 /\ f.count = Top.count - 1
    BY <2>1, NextEntry
  <2> HIDE DEF f, e
  <2>3. Top \in Search /\ Top.buf.pos \in Nat /\ Top.count \in Nat
    BY <2>1, StackTop DEF Search, Place
  <2>4. f.buf.pos + f.count = Top.buf.pos + Top.count
    BY <2>2, <2>3
  <2>5. Held(f, up, searches)
    BY <2>1, <2>2, <2>4, TopHeld DEF Held
  <2>6. /\ Len(stack') = Len(stack) /\ stack'[Len(stack)] = f /\ Len(stack) \in 1..Len(stack)
        /\ \A k \in 1..Len(stack) : k # Len(stack) => stack'[k] = stack[k]
    BY <2>1, <2>2, Replaced, StackTop
  <2>7. \A i \in 1..Len(stack) : i # Len(stack) /\ up /\ ~stack[i].end =>
            /\ stack[i].sid \in DOMAIN searches
            /\ ~f.end => stack[i].sid # f.sid
    BY <2>1, <2>2, TopHeld, HeldIs DEF Held
  <2> QED
    BY <2>1, <2>5, <2>6, <2>7, OneHeld
<1>8. ASSUME ReaddirMore PROVE SearchHeld' /\ Apart'
  <2>1. stack # <<>> /\ Top \in Search /\ UNCHANGED up /\ Top.count = 0 /\ ~Top.end
    BY <1>8, StackTop DEF ReaddirMore, Walking
  <2>2. ASSUME NEW s, NEW b \in Batches(s.dir, s.pos), Findnext(s, b),
               Top.sid \in DOMAIN searches, s = searches[Top.sid], up
        PROVE  SearchHeld' /\ Apart'
    <3>1. s \in Place /\ s.dir \in Dirs /\ s.pos \in Nat
      BY <2>2 DEF TypeOK, Place
    <3>2. s.dir = Top.dir
      BY <2>1, <2>2, TopHeld DEF Held
    <3> DEFINE f == Refilled(s, b)
    <3>3. /\ f \in Search /\ f.dir = Top.dir /\ f.sid = Top.sid
          /\ f.end = b.end /\ f.buf = s /\ f.count = b.n
      BY <2>1, <3>1, RefilledIs
    <3>4. /\ b.n \in Nat /\ b.end \in BOOLEAN /\ s.pos + b.n \in Nat /\ Top.sid \in Sids
          /\ b.end => s.pos + b.n = Len(Content[s.dir])
      BY <2>1, <3>1, BatchType DEF Search
    <3> HIDE DEF f
    <3>5. /\ \A x \in DOMAIN searches : x # Top.sid =>
                x \in DOMAIN searches' /\ searches'[x] = searches[x]
          /\ ~b.end => /\ Top.sid \in DOMAIN searches'
                       /\ searches'[Top.sid] = [dir |-> s.dir, pos |-> s.pos + b.n]
      BY <2>2, <3>1, <3>4, Advanced DEF Findnext
    <3>6. \A i \in 1..Len(stack) : i # Len(stack) /\ ~stack[i].end =>
              /\ stack[i].sid \in DOMAIN searches'
              /\ searches'[stack[i].sid] = searches[stack[i].sid]
              /\ stack[i].sid # Top.sid
      BY <2>1, <2>2, <3>5, TopHeld, HeldIs DEF Held
    <3>7. CASE b.n = 0
      <4>1. \A k \in 1..Len(stack') : k \in 1..Len(stack) /\ k # Len(stack) /\ stack'[k] = stack[k]
        BY <2>1, <2>2, <3>3, <3>7, Closed, StackTop DEF Findnext, f
      <4> QED
        BY <2>1, <3>6, <4>1, StayHeld
    <3>8. CASE b.n # 0
      <4>1. /\ Len(stack') = Len(stack) /\ stack'[Len(stack)] = f /\ Len(stack) \in 1..Len(stack)
            /\ \A k \in 1..Len(stack) : k # Len(stack) => stack'[k] = stack[k]
        BY <2>1, <2>2, <3>3, <3>8, Replaced, StackTop DEF Findnext, f
      <4>2. Held(f, up, searches')
        BY <3>2, <3>3, <3>4, <3>5 DEF Held
      <4> QED
        BY <2>1, <3>3, <3>6, <4>1, <4>2, OneHeld
    <3> QED
      BY <3>7, <3>8
  <2>3. ASSUME Closedir(Top), UNCHANGED searches PROVE SearchHeld' /\ Apart'
    BY <1>1, <2>1, <2>3
  <2> QED
    BY <1>8, <2>2, <2>3 DEF ReaddirMore
<1>9. ASSUME ReaddirEnd PROVE SearchHeld' /\ Apart'
  BY <1>1, <1>9, StackTop DEF ReaddirEnd, Walking
<1>10. CASE UNCHANGED vars
  BY <1>2, <1>10 DEF vars
<1> QED
  BY <1>3, <1>4, <1>5, <1>6, <1>7, <1>8, <1>9, <1>10 DEF Next, Client

\* Every search that the client has open is held by the server, under a number of its
\* own, at the place where its buffer ends (cifs_readdir goes on there).
THEOREM HeldCorrect == Spec => []SearchHeld
<1>1. TypeOK /\ SearchHeld /\ Apart /\ [Next]_vars => (TypeOK /\ SearchHeld /\ Apart)'
  BY TypeStep, HeldStep
<1> QED
  BY <1>1, TypeInit, HeldInit, PTL DEF Spec
-------------------------------------------------------------------------------
(* The walk *)

\* A step that leaves the walk where it is.
LEMMA SameWalk ==
    ASSUME WalkInv, UNCHANGED <<nested, pending, given>>, faults' = 0 => faults = 0 /\ (up => up'),
           Len(stack') = Len(stack),
           \A k \in 1..Len(stack) : /\ stack'[k].dir = stack[k].dir /\ stack'[k].subs = stack[k].subs
                                    /\ stack'[k].buf.pos = stack[k].buf.pos
    PROVE  WalkInv'
<1>1. \A d : /\ Waits(d, pending', stack') <=> Waits(d, pending, stack)
             /\ Entered(d, stack') <=> Entered(d, stack)
  BY DEF Waits, Entered
<1>2. Modes'
  BY DEF WalkInv, Modes
<1>3. Unique'
  BY <1>1 DEF WalkInv, Unique
<1>4. Fresh'
  BY <1>1 DEF WalkInv, Fresh
<1>5. EntryOnce'
  BY DEF WalkInv, EntryOnce
<1>6. Covered'
  BY <1>1 DEF WalkInv, Covered
<1> QED
  BY <1>2, <1>3, <1>4, <1>5, <1>6 DEF WalkInv

\* When a search is closed, its directories wait as they did.
LEMMA ClosedWaits ==
    ASSUME TypeOK, Modes, stack # <<>>, NEW f \in Search, f.subs = Top.subs, Closedir(f),
           UNCHANGED nested, NEW d
    PROVE  /\ Waits(d, pending', stack') <=> Waits(d, pending, stack)
           /\ Entered(d, stack') => Entered(d, stack)
           /\ Entered(d, stack) => Entered(d, stack') \/ d = Top.dir
<1>1. /\ Len(stack) \in Nat \ {0} /\ Len(stack') = Len(stack) - 1
      /\ \A k \in 1..Len(stack') : k \in 1..Len(stack) /\ stack'[k] = stack[k]
  BY Closed, StackTop
<1>2. /\ Entered(d, stack') => Entered(d, stack)
      /\ Entered(d, stack) => Entered(d, stack') \/ d = Top.dir
  BY <1>1 DEF Entered, Top
<1>3. CASE nested
  <2>1. pending' = pending /\ \A k \in 1..Len(stack) : stack[k].subs = <<>>
    BY <1>3, Closed DEF Modes
  <2>2. \A k \in 1..Len(stack) : ~Occurs(d, stack[k].subs)
    BY <2>1, EmptySeq DEF Occurs
  <2>3. \A k \in 1..Len(stack') : ~Occurs(d, stack'[k].subs)
    BY <1>1, <2>2
  <2> QED
    BY <1>2, <2>1, <2>2, <2>3 DEF Waits
<1>4. CASE ~nested
  <2>1. Len(stack) = 1 /\ Len(stack') = 0 /\ Top = stack[1]
    BY <1>1, <1>4 DEF Modes, Top
  <2>2. f.subs = stack[1].subs /\ Len(f.subs) \in Nat /\ Len(pending) \in Nat
    BY <2>1, LenProperties DEF Search, TypeOK
  <2>3. /\ Len(pending') = Len(f.subs) + Len(pending)
        /\ \A k \in 1..Len(pending') : pending'[k] =
              IF k <= Len(f.subs) THEN f.subs[k] ELSE pending[k - Len(f.subs)]
    BY <1>4, Closed
  <2>4. Occurs(d, pending') <=> Occurs(d, f.subs) \/ Occurs(d, pending)
    <3>1. ASSUME Occurs(d, pending') PROVE Occurs(d, f.subs) \/ Occurs(d, pending)
      BY <2>2, <2>3, <3>1 DEF Occurs
    <3>2. ASSUME NEW k \in 1..Len(f.subs), f.subs[k] = d PROVE Occurs(d, pending')
      <4>1. k \in 1..Len(pending') /\ pending'[k] = d
        BY <2>2, <2>3, <3>2
      <4> QED
        BY <4>1 DEF Occurs
    <3>3. ASSUME NEW k \in 1..Len(pending), pending[k] = d PROVE Occurs(d, pending')
      <4> DEFINE m == Len(f.subs) + k
      <4>1. m \in 1..Len(pending') /\ ~(m <= Len(f.subs)) /\ m - Len(f.subs) = k
        BY <2>2, <2>3
      <4> HIDE DEF m
      <4>2. pending'[m] = d
        BY <2>3, <3>3, <4>1
      <4> QED
        BY <4>1, <4>2 DEF Occurs
    <3> QED
      BY <3>1, <3>2, <3>3 DEF Occurs
  <2>5. Waits(d, pending', stack') <=> Occurs(d, pending')
    BY <2>1 DEF Waits
  <2>6. Waits(d, pending, stack) <=> Occurs(d, pending) \/ Occurs(d, stack[1].subs)
    BY <2>1 DEF Waits
  <2> QED
    BY <1>2, <2>2, <2>4, <2>5, <2>6
<1> QED
  BY <1>3, <1>4

LEMMA ClosedUnique ==
    ASSUME TypeOK, Modes, Unique, stack # <<>>, NEW f \in Search, f.subs = Top.subs, Closedir(f),
           UNCHANGED nested
    PROVE  Modes' /\ Unique'
<1>1. /\ Len(stack) \in Nat \ {0} /\ Len(stack') = Len(stack) - 1
      /\ \A k \in 1..Len(stack') : k \in 1..Len(stack) /\ stack'[k] = stack[k]
  BY Closed, StackTop
<1>2. \A d : Waits(d, pending', stack') <=> Waits(d, pending, stack)
  BY ClosedWaits
<1>3. /\ \A k \in 1..Len(stack') : ~Waits(stack'[k].dir, pending', stack')
      /\ \A j, k \in 1..Len(stack') : stack'[j].dir = stack'[k].dir => j = k
  BY <1>1, <1>2 DEF Unique
<1>4. CASE nested
  <2>1. pending' = pending
    BY <1>4, Closed
  <2> QED
    BY <1>1, <1>3, <1>4, <2>1 DEF Modes, Unique
<1>5. CASE ~nested
  <2>1. Len(stack) = 1 /\ Len(stack') = 0 /\ Top = stack[1] /\ 1 \in 1..Len(stack)
    BY <1>1, <1>5 DEF Modes, Top
  <2>2. /\ f.subs = stack[1].subs /\ Len(f.subs) \in Nat /\ Len(pending) \in Nat
        /\ f.subs \in Seq(Dirs)
    BY <2>1, LenProperties DEF Search, TypeOK
  <2>3. /\ Len(pending') = Len(f.subs) + Len(pending)
        /\ \A k \in 1..Len(pending') : pending'[k] =
              IF k <= Len(f.subs) THEN f.subs[k] ELSE pending[k - Len(f.subs)]
    BY <1>5, Closed
  <2>4. Injective(f.subs) /\ Injective(pending)
    BY <2>1, <2>2 DEF Unique
  <2>5. \A j \in 1..Len(f.subs), k \in 1..Len(pending) : f.subs[j] # pending[k]
    <3> SUFFICES ASSUME NEW j \in 1..Len(f.subs), NEW k \in 1..Len(pending), f.subs[j] = pending[k]
                 PROVE  FALSE
      OBVIOUS
    <3>1. f.subs[j] \in Dirs
      BY <2>2, ElementOfSeq
    <3>2. Occurs(f.subs[j], f.subs) /\ Occurs(f.subs[j], pending)
      BY DEF Occurs
    <3> QED
      BY <2>1, <2>2, <3>1, <3>2 DEF Unique
  <2>6. Injective(pending')
    <3> SUFFICES ASSUME NEW j \in 1..Len(pending'), NEW k \in 1..Len(pending'),
                        pending'[j] = pending'[k]
                 PROVE  j = k
      BY DEF Injective
    <3>1. \A m \in 1..Len(pending') :
            /\ m <= Len(f.subs) => m \in 1..Len(f.subs) /\ pending'[m] = f.subs[m]
            /\ ~(m <= Len(f.subs)) => /\ m - Len(f.subs) \in 1..Len(pending)
                                      /\ pending'[m] = pending[m - Len(f.subs)]
      BY <2>2, <2>3
    <3>2. CASE j <= Len(f.subs) /\ k <= Len(f.subs)
      BY <2>4, <3>1, <3>2 DEF Injective
    <3>3. CASE ~(j <= Len(f.subs)) /\ ~(k <= Len(f.subs))
      <4> DEFINE a == j - Len(f.subs)
                 b == k - Len(f.subs)
      <4>1. a \in 1..Len(pending) /\ b \in 1..Len(pending) /\ pending[a] = pending[b]
        BY <3>1, <3>3
      <4>2. a = b => j = k
        BY <2>2, <2>3
      <4> HIDE DEF a, b
      <4> QED
        BY <2>4, <4>1, <4>2 DEF Injective
    <3> QED
      BY <2>5, <3>1, <3>2, <3>3
  <2> QED
    BY <1>3, <1>5, <2>1, <2>6 DEF Modes, Unique
<1> QED
  BY <1>4, <1>5
\* A search is closed: what it covers has to be all when nothing failed.
LEMMA ClosedWalk ==
    ASSUME TypeOK, WalkInv, stack # <<>>, NEW f \in Search, f.subs = Top.subs, Closedir(f),
           UNCHANGED <<up, nested, given>>,
           faults' = 0 => faults = 0 /\ Top.buf.pos = Len(Content[Top.dir])
    PROVE  WalkInv'
<1>1. \A k \in 1..Len(stack') : k \in 1..Len(stack) /\ stack'[k] = stack[k]
  BY Closed, StackTop
<1>2. \A d : /\ Waits(d, pending', stack') <=> Waits(d, pending, stack)
             /\ Entered(d, stack') => Entered(d, stack)
             /\ Entered(d, stack) => Entered(d, stack') \/ d = Top.dir
  BY ClosedWaits DEF WalkInv
<1>3. Modes' /\ Unique'
  BY ClosedUnique DEF WalkInv
<1>4. Fresh'
  BY <1>1, <1>2 DEF WalkInv, Fresh
<1>5. EntryOnce'
  BY DEF WalkInv, EntryOnce
<1>6. Covered'
  <2> SUFFICES ASSUME faults' = 0
               PROVE  /\ up
                      /\ \A k \in 1..Len(stack') : HandedOut(stack'[k].dir, stack'[k].buf.pos, given)
                      /\ \A d \in Dirs : Found(d, given) =>
                            \/ Waits(d, pending', stack') \/ Entered(d, stack')
                            \/ HandedOut(d, Len(Content[d]), given)
    BY DEF Covered
  <2>1. HandedOut(Top.dir, Len(Content[Top.dir]), given)
    BY StackTop DEF WalkInv, Covered, Top
  <2> QED
    BY <1>1, <1>2, <2>1 DEF WalkInv, Covered
<1> QED
  BY <1>3, <1>4, <1>5, <1>6 DEF WalkInv

\* The first directory of those that wait is taken, and waits no longer.
LEMMA TakenWaits ==
    ASSUME TypeOK, Unique, pending # <<>>, pending' = Tail(pending), NEW d \in Dirs
    PROVE  /\ Occurs(d, pending') <=> Occurs(d, pending) /\ d # Head(pending)
           /\ Injective(pending') /\ Len(pending') = Len(pending) - 1
           /\ Waits(Head(pending), pending, stack) /\ Head(pending) \in Dirs
           /\ Waits(d, pending', stack) <=> Waits(d, pending, stack) /\ d # Head(pending)
<1>1. /\ Len(pending) \in Nat \ {0} /\ Len(pending') = Len(pending) - 1
      /\ \A k \in 1..Len(pending') : pending'[k] = pending[k + 1]
      /\ Head(pending) \in Dirs
  BY HeadTailProperties, EmptySeq DEF TypeOK
<1>2. Head(pending) = pending[1]
  BY DEF TypeOK
<1>3. Injective(pending)
  BY DEF Unique
<1>4. Injective(pending')
  <2> SUFFICES ASSUME NEW j \in 1..Len(pending'), NEW k \in 1..Len(pending'),
                      pending'[j] = pending'[k]
               PROVE  j = k
    BY DEF Injective
  <2>1. j + 1 \in 1..Len(pending) /\ k + 1 \in 1..Len(pending) /\ pending[j + 1] = pending[k + 1]
    BY <1>1
  <2>2. j + 1 = k + 1
    BY <1>3, <2>1 DEF Injective
  <2> QED
    BY <1>1, <2>2
<1>5. Occurs(d, pending') <=> Occurs(d, pending) /\ d # Head(pending)
  <2>1. ASSUME NEW k \in 1..Len(pending'), pending'[k] = d
        PROVE  Occurs(d, pending) /\ d # Head(pending)
    <3>1. k + 1 \in 1..Len(pending) /\ 1 \in 1..Len(pending) /\ pending[k + 1] = d /\ k + 1 # 1
      BY <1>1, <2>1
    <3> QED
      BY <1>2, <1>3, <3>1 DEF Injective, Occurs
  <2>2. ASSUME NEW k \in 1..Len(pending), pending[k] = d, d # Head(pending)
        PROVE  Occurs(d, pending')
    <3>1. k - 1 \in 1..Len(pending') /\ (k - 1) + 1 = k
      BY <1>1, <1>2, <2>2
    <3>2. pending'[k - 1] = d
      BY <1>1, <2>2, <3>1
    <3> QED
      BY <3>1, <3>2 DEF Occurs
  <2> QED
    BY <2>1, <2>2 DEF Occurs
<1>6. Occurs(Head(pending), pending)
  BY <1>1, <1>2 DEF Occurs
<1>7. \A k \in 1..Len(stack) : ~Occurs(Head(pending), stack[k].subs)
  BY <1>1, <1>6 DEF Unique
<1> QED
  BY <1>1, <1>4, <1>5, <1>6, <1>7 DEF Waits

\* A directory that cannot be opened is left out, and one without entries has none.
LEMMA SkippedWalk ==
    ASSUME TypeOK, WalkInv, pending # <<>>, pending' = Tail(pending),
           UNCHANGED <<up, nested, stack, given>>,
           faults' = 0 => faults = 0 /\ Content[Head(pending)] = <<>>
    PROVE  WalkInv'
<1> DEFINE h == Head(pending)
<1>0. Unique
  BY DEF WalkInv
<1>1. /\ h \in Dirs /\ Injective(pending') /\ Len(pending') = Len(pending) - 1
      /\ \A d \in Dirs : /\ Occurs(d, pending') <=> Occurs(d, pending) /\ d # h
                         /\ Waits(d, pending', stack) <=> Waits(d, pending, stack) /\ d # h
  BY <1>0, TakenWaits, HeadTailProperties DEF TypeOK
<1> HIDE DEF h
<1>2. \A k \in 1..Len(stack) : stack[k].dir \in Dirs
  BY DirType
<1>3. Modes'
  BY <1>1, LenProperties DEF WalkInv, Modes, TypeOK
<1>4. Unique'
  BY <1>1, <1>2 DEF WalkInv, Unique
<1>5. Fresh'
  BY <1>1 DEF WalkInv, Fresh
<1>6. EntryOnce'
  BY DEF WalkInv, EntryOnce
<1>7. faults' = 0 => HandedOut(h, Len(Content[h]), given)
  <2> SUFFICES ASSUME faults' = 0 PROVE Len(Content[h]) = 0
    BY DEF HandedOut, Places
  <2> QED
    BY EmptySeq DEF h
<1>8. Covered'
  BY <1>1, <1>7 DEF WalkInv, Covered
<1> QED
  BY <1>3, <1>4, <1>5, <1>6, <1>8 DEF WalkInv

\* A search begins in the first directory that waits.
LEMMA OpenedWalk ==
    ASSUME TypeOK, WalkInv, pending # <<>>, nested \/ stack = <<>>, pending' = Tail(pending),
           UNCHANGED <<up, nested, given, faults>>, NEW f \in Search, stack' = Append(stack, f),
           f.dir = Head(pending), f.subs = <<>>, f.buf.pos = 0
    PROVE  WalkInv'
<1> DEFINE h == Head(pending)
           n == Len(stack)
<1>0. Unique
  BY DEF WalkInv
<1>1. /\ h \in Dirs /\ Injective(pending') /\ Len(pending') = Len(pending) - 1
      /\ Waits(h, pending, stack)
      /\ \A d \in Dirs : /\ Occurs(d, pending') <=> Occurs(d, pending) /\ d # h
                         /\ Waits(d, pending', stack) <=> Waits(d, pending, stack) /\ d # h
  BY <1>0, TakenWaits, HeadTailProperties DEF TypeOK
<1>2. /\ n \in Nat /\ Len(stack') = n + 1 /\ stack'[n + 1] = f
      /\ \A k \in 1..n : stack'[k] = stack[k]
  BY Pushed, LenProperties DEF TypeOK
<1>3. f.dir = h
  OBVIOUS
<1> HIDE DEF h, n
<1>4. \A k \in 1..Len(stack') : k = n + 1 \/ k \in 1..n
  BY <1>2
<1>5. \A k \in 1..n : k \in 1..Len(stack') /\ stack[k].dir \in Dirs
  BY <1>2, DirType DEF n
<1>6. n + 1 \in 1..Len(stack')
  BY <1>2
<1>7. \A d : ~Occurs(d, f.subs)
  BY EmptySeq DEF Occurs
<1>8. \A d : Waits(d, pending', stack') <=> Waits(d, pending', stack)
  BY <1>2, <1>4, <1>5, <1>7 DEF Waits, n
<1>9. \A d : Entered(d, stack') <=> Entered(d, stack) \/ d = h
  BY <1>2, <1>3, <1>4, <1>5, <1>6 DEF Entered, n
<1>10. Modes'
  <2>1. \A k \in 1..Len(stack') : nested => stack'[k].subs = <<>>
    BY <1>2, <1>4 DEF WalkInv, Modes, n
  <2>2. ~nested => n = 0
    BY EmptySeq DEF n
  <2> QED
    BY <1>1, <1>2, <2>1, <2>2, LenProperties DEF WalkInv, Modes, TypeOK
<1>11. Unique'
  <2>1. \A k \in 1..n : ~Entered(h, stack) /\ stack[k].dir # h
    BY <1>1 DEF WalkInv, Unique, Entered, n
  <2>2. \A j, k \in 1..Len(stack') : stack'[j].dir = stack'[k].dir => j = k
    BY <1>2, <1>3, <1>4, <2>1 DEF WalkInv, Unique, n
  <2>3. \A k \in 1..Len(stack') : ~Waits(stack'[k].dir, pending', stack')
    BY <1>1, <1>2, <1>3, <1>4, <1>5, <1>8 DEF WalkInv, Unique, n
  <2>4. \A k \in 1..Len(stack') : Injective(stack'[k].subs)
    <3>1. Injective(f.subs)
      BY EmptySeq DEF Injective
    <3> QED
      BY <1>2, <1>4, <3>1 DEF WalkInv, Unique, n
  <2>5. \A k \in 1..Len(stack') : \A d \in Dirs : Occurs(d, stack'[k].subs) => ~Occurs(d, pending')
    BY <1>1, <1>2, <1>4, <1>7 DEF WalkInv, Unique, n
  <2> QED
    BY <1>1, <2>2, <2>3, <2>4, <2>5 DEF Unique
<1>12. Fresh'
  <2>1. \A i \in Places(h) : ~(given[h][i] > 0)
    BY <1>1 DEF WalkInv, Fresh
  <2>2. Found(h, given)
    BY <1>1 DEF WalkInv, Fresh
  <2>3. \A k \in 1..Len(stack') : \A i \in Places(stack'[k].dir) :
           given[stack'[k].dir][i] > 0 => i <= stack'[k].buf.pos
    BY <1>2, <1>3, <1>4, <2>1 DEF WalkInv, Fresh, n
  <2> QED
    BY <1>1, <1>8, <1>9, <2>2, <2>3 DEF WalkInv, Fresh
<1>13. EntryOnce'
  BY DEF WalkInv, EntryOnce
<1>14. Covered'
  <2>1. HandedOut(h, 0, given)
    BY <1>1, LengthType DEF HandedOut, Places
  <2>2. faults = 0 => \A k \in 1..Len(stack') : HandedOut(stack'[k].dir, stack'[k].buf.pos, given)
    BY <1>2, <1>3, <1>4, <2>1 DEF WalkInv, Covered, n
  <2> QED
    BY <1>1, <1>8, <1>9, <2>2 DEF WalkInv, Covered
<1> QED
  BY <1>10, <1>11, <1>12, <1>13, <1>14 DEF WalkInv
\* An entry is taken: how the sequences change, for the tops f of the stack before and
\* g after.
LEMMA ReadWalk ==
    ASSUME TypeOK, WalkInv, SearchHeld, stack # <<>>, nested => pending = <<>>, Top.count > 0,
           NEW e, e = Content[Top.buf.dir][Top.buf.pos + 1],
           SetTop(Used(Top, e)), Handed(Top.buf, e), UNCHANGED <<up, nested, faults>>
    PROVE  WalkInv'
<1> DEFINE n == Len(stack)
           p == Top.dir
           i == Top.buf.pos + 1
           g == Used(Top, e)
<1>1. /\ n \in Nat \ {0} /\ n \in 1..n /\ Top \in Search /\ Top = stack[n]
      /\ Top.buf.dir = p /\ p \in Dirs /\ Top.buf \in Place /\ Top.buf.pos \in Nat
  BY StackTop DEF Top, SearchHeld, Search, Place
<1>2. /\ i \in Places(p) /\ e \in Entry /\ g \in Search
      /\ g.dir = p /\ g.buf.pos = i /\ g.subs = Gather(Top, e)
  BY <1>1, NextEntry
<1>3. e = Content[p][i]
  BY <1>1
<1>4. /\ DOMAIN given' = Dirs
      /\ \A d \in Dirs : \A j \in Places(d) :
            given'[d][j] = IF e \notin Dots /\ d = p /\ j = i THEN given[d][j] + 1 ELSE given[d][j]
  <2>1. Top.buf.pos + 1 \in Places(Top.buf.dir)
    BY <1>1, <1>2
  <2>2. /\ DOMAIN given' = Dirs
        /\ \A d \in Dirs : \A j \in Places(d) :
              given'[d][j] = IF e \notin Dots /\ d = Top.buf.dir /\ j = Top.buf.pos + 1
                             THEN given[d][j] + 1 ELSE given[d][j]
    <3> DEFINE at == Top.buf
    <3>1. at \in Place /\ at.pos + 1 \in Places(at.dir) /\ Handed(at, e)
      BY <1>1, <2>1
    <3> HIDE DEF at
    <3>2. /\ DOMAIN given' = Dirs
          /\ \A d \in Dirs : \A j \in Places(d) :
                given'[d][j] = IF e \notin Dots /\ d = at.dir /\ j = at.pos + 1
                               THEN given[d][j] + 1 ELSE given[d][j]
      BY <3>1, GivenType
    <3> QED
      BY <3>2 DEF at
  <2>3. Top.buf.dir = p
    BY <1>1
  <2> QED
    BY <2>2, <2>3
<1>5. \A d \in Dirs : \A j \in Places(d) : given[d][j] \in Nat
  BY DEF TypeOK
<1>6. /\ Len(stack') = n /\ stack'[n] = g
      /\ \A k \in 1..n : k # n => stack'[k] = stack[k]
  BY <1>1, <1>2, Replaced
<1>7. /\ pending' \in Seq(Dirs)
      /\ ~(nested /\ e \in Dirs) => pending' = pending
      /\ nested /\ e \in Dirs => pending' = <<e>>
  BY <1>2, PendingType
<1>8. i = stack[n].buf.pos + 1 /\ stack[n].dir = p /\ stack[n].subs = Top.subs /\ Top.subs \in Seq(Dirs)
  BY <1>1 DEF Search
<1> HIDE DEF n, p, i, g
<1>9. \A k \in 1..n : stack'[k].dir = stack[k].dir
  BY <1>2, <1>6, <1>8
\* The entry was not handed out before, and if it is a directory, it was not found.
<1>10. given[p][i] = 0
  <2>1. ~(i <= stack[n].buf.pos)
    BY <1>1, <1>8
  <2> QED
    BY <1>1, <1>2, <1>5, <1>8, <2>1 DEF WalkInv, Fresh, n
<1>11. \A d \in Dirs : Found(d, given') <=> Found(d, given) \/ d = e
  <2>1. ASSUME NEW d \in Dirs, Found(d, given) PROVE Found(d, given')
    BY <1>4, <1>5, <2>1 DEF Found
  <2>2. e \in Dirs => Found(e, given')
    <3>1. e \in Dirs => given'[p][i] > 0
      BY <1>1, <1>2, <1>4, <1>10, FindAssumption
    <3> QED
      BY <1>1, <1>2, <1>3, <3>1 DEF Found
  <2>3. ASSUME NEW d \in Dirs, Found(d, given'), d # e PROVE Found(d, given)
    BY <1>3, <1>4, <1>5, <2>3 DEF Found
  <2> QED
    BY <2>1, <2>2, <2>3
<1>12. e \in Dirs => ~Found(e, given)
  <2> SUFFICES ASSUME e \in Dirs, Found(e, given) PROVE FALSE
    OBVIOUS
  <2>1. e # Root
    BY <1>1, <1>2, <1>3, TreeAssumption
  <2>2. PICK q \in Dirs : \E j \in Places(q) : Content[q][j] = e /\ given[q][j] > 0
    BY <2>1 DEF Found
  <2>3. PICK j \in Places(q) : Content[q][j] = e /\ given[q][j] > 0
    BY <2>2
  <2>4. q = p /\ j = i
    BY <1>1, <1>2, <1>3, <2>3, TreeAssumption
  <2> QED
    BY <1>10, <2>3, <2>4
<1>13. e \in Dirs => /\ ~Waits(e, pending, stack) /\ ~Entered(e, stack)
                     /\ \A j \in Places(e) : ~(given[e][j] > 0)
  BY <1>12 DEF WalkInv, Fresh
\* The directory found waits, and all others wait as before.
<1>14. \A d \in Dirs : Occurs(d, g.subs) <=> Occurs(d, Top.subs) \/ (~nested /\ d = e)
  <2> SUFFICES ASSUME NEW d \in Dirs
               PROVE  Occurs(d, g.subs) <=> Occurs(d, Top.subs) \/ (~nested /\ d = e)
    OBVIOUS
  <2>1. CASE ~(e \in Dirs /\ ~nested)
    BY <1>2, <2>1 DEF Gather
  <2>2. CASE e \in Dirs /\ ~nested
    <3>1. g.subs = Append(Top.subs, e)
      BY <1>2, <2>2 DEF Gather
    <3>2. /\ Len(g.subs) = Len(Top.subs) + 1 /\ Len(Top.subs) \in Nat
          /\ \A k \in 1..Len(Top.subs) : g.subs[k] = Top.subs[k]
          /\ g.subs[Len(Top.subs) + 1] = e
      BY <1>8, <2>2, <3>1, AppendProperties, LenProperties
    <3>3. Len(Top.subs) + 1 \in 1..Len(g.subs)
      BY <3>2
    <3>4. \A k \in 1..Len(g.subs) : k = Len(Top.subs) + 1 \/ k \in 1..Len(Top.subs)
      BY <3>2
    <3>5. \A k \in 1..Len(Top.subs) : k \in 1..Len(g.subs)
      BY <3>2
    <3> QED
      BY <2>2, <3>2, <3>3, <3>4, <3>5 DEF Occurs
  <2> QED
    BY <2>1, <2>2
<1>15. \A d \in Dirs : Occurs(d, pending') <=> Occurs(d, pending) \/ (nested /\ d = e)
  <2>1. CASE ~(nested /\ e \in Dirs)
    BY <1>7, <2>1
  <2>2. CASE nested /\ e \in Dirs
    <3>1. Len(pending') = 1 /\ pending'[1] = e /\ Len(pending) = 0
      BY <1>7, <2>2, EmptySeq
    <3>2. 1 \in 1..Len(pending') /\ (\A k \in 1..Len(pending') : k = 1) /\ ~(\E k \in 1..Len(pending) : TRUE)
      BY <3>1
    <3> QED
      BY <2>2, <3>1, <3>2 DEF Occurs
  <2> QED
    BY <2>1, <2>2
<1>16. \A d \in Dirs : Waits(d, pending', stack') <=> Waits(d, pending, stack) \/ d = e
  <2> SUFFICES ASSUME NEW d \in Dirs
               PROVE  Waits(d, pending', stack') <=> Waits(d, pending, stack) \/ d = e
    OBVIOUS
  <2>1. (\E k \in 1..Len(stack') : Occurs(d, stack'[k].subs)) <=>
           (\E k \in 1..Len(stack) : Occurs(d, stack[k].subs)) \/ (~nested /\ d = e)
    BY <1>1, <1>6, <1>8, <1>14 DEF n
  <2> QED
    BY <1>15, <2>1 DEF Waits
<1>17. \A d : Entered(d, stack') <=> Entered(d, stack)
  BY <1>6, <1>9 DEF Entered, n
<1>18. Modes'
  <2>1. nested => Len(pending') <= 1
    <3> SUFFICES ASSUME nested PROVE Len(pending') <= 1
      OBVIOUS
    <3>1. CASE e \in Dirs
      <4>1. Len(pending') = 1
        BY <1>7, <3>1
      <4> QED
        BY <4>1
    <3>2. CASE e \notin Dirs
      BY <1>7, <3>2 DEF WalkInv, Modes
    <3> QED
      BY <3>1, <3>2
  <2>2. nested => g.subs = Top.subs
    BY <1>2 DEF Gather
  <2> QED
    BY <1>6, <1>8, <2>1, <2>2 DEF WalkInv, Modes, n
<1>19. Unique'
  <2>1. Injective(pending')
    <3>1. CASE ~(nested /\ e \in Dirs)
      BY <1>7, <3>1 DEF WalkInv, Unique
    <3>2. CASE nested /\ e \in Dirs
      <4>1. Len(pending') = 1
        BY <1>7, <3>2
      <4> QED
        BY <4>1 DEF Injective
    <3> QED
      BY <3>1, <3>2
  <2>2. Injective(g.subs)
    <3>1. Injective(Top.subs)
      BY <1>1, <1>8 DEF WalkInv, Unique, n
    <3>2. CASE ~(e \in Dirs /\ ~nested)
      BY <1>2, <3>1, <3>2 DEF Gather
    <3>3. CASE e \in Dirs /\ ~nested
      <4>1. /\ Len(g.subs) = Len(Top.subs) + 1 /\ Len(Top.subs) \in Nat
            /\ \A k \in 1..Len(Top.subs) : g.subs[k] = Top.subs[k]
            /\ g.subs[Len(Top.subs) + 1] = e
        BY <1>2, <1>8, <3>3, AppendProperties, LenProperties DEF Gather
      <4>2. ~Occurs(e, Top.subs)
        BY <1>1, <1>8, <1>13, <3>3 DEF Waits, n
      <4>3. \A k \in 1..Len(g.subs) : k = Len(Top.subs) + 1 \/ k \in 1..Len(Top.subs)
        BY <4>1
      <4> QED
        BY <3>1, <4>1, <4>2, <4>3 DEF Injective, Occurs
    <3> QED
      BY <3>2, <3>3
  <2>3. \A k \in 1..n : stack[k].dir \in Dirs /\ stack[k].dir # e
    BY <1>13, DirType DEF Entered, n
  <2>4. \A k \in 1..Len(stack') : ~Waits(stack'[k].dir, pending', stack')
    BY <1>6, <1>9, <1>16, <2>3 DEF WalkInv, Unique, n
  <2>5. \A d \in Dirs : Occurs(d, g.subs) => ~Occurs(d, pending')
    <3>1. \A d \in Dirs : Occurs(d, Top.subs) => ~Occurs(d, pending)
      BY <1>1, <1>8 DEF WalkInv, Unique, n
    <3>2. nested => \A d \in Dirs : ~Occurs(d, Top.subs)
      BY <1>1, <1>8, EmptySeq DEF WalkInv, Modes, Occurs, n
    <3>3. e \in Dirs => ~Occurs(e, pending)
      BY <1>13 DEF Waits
    <3> QED
      BY <1>14, <1>15, <3>1, <3>2, <3>3
  <2>6. \A k \in 1..n : k # n => \A d \in Dirs : Occurs(d, stack[k].subs) => ~Occurs(d, pending')
    <3>1. \A k \in 1..n : nested => \A d \in Dirs : ~Occurs(d, stack[k].subs)
      BY EmptySeq DEF WalkInv, Modes, Occurs, n
    <3> QED
      BY <1>15, <3>1 DEF WalkInv, Unique, n
  <2>7. \A j, k \in 1..n : stack'[j].dir = stack'[k].dir => j = k
    BY <1>9 DEF WalkInv, Unique, n
  <2>8. \A k \in 1..n : /\ Injective(stack'[k].subs)
                        /\ \A d \in Dirs : Occurs(d, stack'[k].subs) => ~Occurs(d, pending')
    BY <1>6, <2>2, <2>5, <2>6 DEF WalkInv, Unique, n
  <2> QED
    BY <1>6, <2>1, <2>4, <2>7, <2>8 DEF Unique
<1>20. Fresh'
  <2>1. Entered(p, stack)
    BY <1>1, <1>8 DEF Entered, n
  <2>2. p # e /\ ~Waits(p, pending, stack) /\ Found(p, given)
    BY <1>1, <1>8, <1>13, <2>1 DEF WalkInv, Unique, Fresh, n
  <2>3. ASSUME NEW d \in Dirs, NEW j \in Places(d), given'[d][j] > 0
        PROVE  Found(d, given') /\ ~Waits(d, pending', stack')
    <3>1. CASE d = p
      BY <1>11, <1>16, <2>2, <3>1
    <3>2. CASE d # p
      <4>1. given[d][j] > 0
        BY <1>4, <2>3, <3>2
      <4>2. d # e
        BY <1>13, <4>1
      <4> QED
        BY <1>11, <1>16, <4>1, <4>2 DEF WalkInv, Fresh
    <3> QED
      BY <3>1, <3>2
  <2>4. ASSUME NEW k \in 1..n, NEW j \in Places(stack[k].dir), given'[stack[k].dir][j] > 0
        PROVE  j <= stack'[k].buf.pos
    <3>0. stack[k].dir \in Dirs
      BY DirType DEF n
    <3>1. CASE k = n
      <4>1. j = i \/ given[p][j] > 0
        BY <1>1, <1>4, <1>8, <2>4, <3>1
      <4>2. j = i \/ j <= stack[n].buf.pos
        BY <1>1, <1>8, <2>4, <3>1, <4>1 DEF WalkInv, Fresh, n
      <4>3. stack'[n].buf.pos = i /\ j \in Nat /\ stack[n].buf.pos \in Nat
        BY <1>1, <1>2, <1>6 DEF Places
      <4> QED
        BY <1>8, <3>1, <4>2, <4>3
    <3>2. CASE k # n
      <4>1. stack[k].dir # p
        BY <1>1, <1>8, <3>2 DEF WalkInv, Unique, n
      <4>2. given[stack[k].dir][j] > 0
        BY <1>4, <2>4, <3>0, <4>1
      <4> QED
        BY <1>6, <3>2, <4>2 DEF WalkInv, Fresh, n
    <3> QED
      BY <3>1, <3>2
  <2>5. \A d \in Dirs : /\ Waits(d, pending', stack') => Found(d, given')
                        /\ Entered(d, stack') => Found(d, given')
    BY <1>11, <1>16, <1>17 DEF WalkInv, Fresh
  <2> QED
    BY <1>6, <1>9, <2>3, <2>4, <2>5 DEF Fresh
<1>21. EntryOnce'
  <2> SUFFICES ASSUME NEW d \in Dirs, NEW j \in Places(d)
               PROVE  given'[d][j] <= (IF Content[d][j] \in Dots THEN 0 ELSE 1)
    BY DEF EntryOnce
  <2>1. CASE e \notin Dots /\ d = p /\ j = i
    BY <1>3, <1>4, <1>10, <2>1
  <2>2. CASE ~(e \notin Dots /\ d = p /\ j = i)
    BY <1>4, <2>2 DEF WalkInv, EntryOnce
  <2> QED
    BY <2>1, <2>2
<1>22. Covered'
  <2> SUFFICES ASSUME faults = 0 PROVE Covered'
    BY DEF Covered
  <2>1. \A d \in Dirs : \A m : HandedOut(d, m, given) => HandedOut(d, m, given')
    BY <1>4, <1>5 DEF HandedOut
  <2>2. \A k \in 1..n : stack[k].dir \in Dirs /\ HandedOut(stack[k].dir, stack[k].buf.pos, given)
    BY DirType DEF WalkInv, Covered, n
  <2>3. HandedOut(p, i, given')
    <3> SUFFICES ASSUME NEW j \in Places(p), j <= i, Content[p][j] \notin Dots
                 PROVE  given'[p][j] > 0
      BY DEF HandedOut
    <3>1. CASE j = i
      BY <1>1, <1>3, <1>4, <1>10, <3>1
    <3>2. CASE j # i
      <4>1. j <= stack[n].buf.pos
        BY <1>1, <1>8, <3>2 DEF Places
      <4>2. given[p][j] > 0
        BY <1>1, <1>8, <2>2, <4>1 DEF HandedOut
      <4> QED
        BY <1>1, <1>4, <1>5, <4>2
    <3> QED
      BY <3>1, <3>2
  <2>4. \A k \in 1..Len(stack') : HandedOut(stack'[k].dir, stack'[k].buf.pos, given')
    BY <1>2, <1>6, <2>1, <2>2, <2>3
  <2>5. \A d \in Dirs : Found(d, given') =>
           \/ Waits(d, pending', stack') \/ Entered(d, stack')
           \/ HandedOut(d, Len(Content[d]), given')
    BY <1>11, <1>16, <1>17, <2>1 DEF WalkInv, Covered
  <2> QED
    BY <2>4, <2>5 DEF WalkInv, Covered
<1> QED
  BY <1>18, <1>19, <1>20, <1>21, <1>22 DEF WalkInv
LEMMA WalkInit == Init => WalkInv
<1> SUFFICES ASSUME Init PROVE WalkInv
  OBVIOUS
<1>1. Len(stack) = 0 /\ pending = <<Root>> /\ Len(pending) = 1 /\ pending[1] = Root
  BY EmptySeq DEF Init
<1>2. \A d \in Dirs : \A i \in Places(d) : given[d][i] = 0
  BY DEF Init
<1>3. \A d : ~Entered(d, stack) /\ (Waits(d, pending, stack) <=> d = Root)
  BY <1>1 DEF Entered, Waits, Occurs
<1>4. \A d : Found(d, given) <=> d = Root
  BY <1>2 DEF Found
<1>5. Modes /\ Unique
  BY <1>1 DEF Modes, Unique, Injective
<1>6. Fresh
  BY <1>1, <1>2, <1>3, <1>4 DEF Fresh
<1>7. EntryOnce
  BY <1>2 DEF EntryOnce
<1>8. Covered
  BY <1>1, <1>3, <1>4 DEF Covered, Init
<1> QED
  BY <1>5, <1>6, <1>7, <1>8 DEF WalkInv

LEMMA WalkStep == TypeOK /\ SearchHeld /\ Apart /\ WalkInv /\ [Next]_vars => WalkInv'
<1> SUFFICES ASSUME TypeOK, SearchHeld, Apart, WalkInv, [Next]_vars PROVE WalkInv'
  OBVIOUS
<1>0. faults \in Nat /\ (faults = 0 => up)
  BY FindAssumption DEF TypeOK, WalkInv, Covered
<1>1. ASSUME LinkLost PROVE WalkInv'
  BY <1>0, <1>1, SameWalk DEF LinkLost
<1>2. ASSUME MkdirFails PROVE WalkInv'
  <2>1. stack # <<>> /\ Closedir(Top) /\ faults' = faults + 1 /\ UNCHANGED <<up, nested, given>>
    BY <1>2 DEF MkdirFails
  <2>2. faults' # 0
    BY <1>0, <2>1
  <2> QED
    BY <2>1, <2>2, ClosedWalk, StackTop
<1>3. ASSUME Stat PROVE WalkInv'
  <2>1. UNCHANGED <<up, nested, pending, stack, given>> /\ (UNCHANGED faults \/ Fault)
    BY <1>3 DEF Stat
  <2> QED
    BY <1>0, <2>1, SameWalk, FaultType
<1>4. ASSUME Opendir PROVE WalkInv'
  <2>1. /\ pending # <<>> /\ (nested \/ stack = <<>>) /\ pending' = Tail(pending)
        /\ UNCHANGED <<up, nested, given>>
    BY <1>4 DEF Opendir
  <2>2. ASSUME NEW sid \in Sids, NEW b, OpendirOk(sid, b) PROVE WalkInv'
    <3> DEFINE f == [dir |-> Head(pending), sid |-> sid, end |-> b.end,
                     buf |-> [dir |-> Head(pending), pos |-> 0], count |-> b.n, subs |-> <<>>]
    <3>1. f \in Search /\ stack' = Append(stack, f) /\ UNCHANGED faults
      BY <2>1, <2>2, OpenedIs DEF OpendirOk, Opened
    <3>2. f.dir = Head(pending) /\ f.subs = <<>> /\ f.buf.pos = 0
      OBVIOUS
    <3> HIDE DEF f
    <3> QED
      BY <2>1, <3>1, <3>2, OpenedWalk
  <2>3. ASSUME OpendirNone PROVE WalkInv'
    <3>1. faults' = 0 => faults = 0 /\ Content[Head(pending)] = <<>>
      BY <1>0, <2>3, FaultType DEF OpendirNone
    <3> QED
      BY <2>1, <2>3, <3>1, SkippedWalk DEF OpendirNone
  <2> QED
    BY <1>4, <2>2, <2>3 DEF Opendir, OpendirOk, OpendirNone
<1>5. ASSUME Readdir PROVE WalkInv'
  BY <1>5, ReadWalk DEF Readdir, Walking
<1>6. ASSUME ReaddirMore PROVE WalkInv'
  <2>1. /\ stack # <<>> /\ Top \in Search /\ Top.count = 0 /\ ~Top.end /\ Top.buf.pos \in Nat
        /\ UNCHANGED <<up, nested, given>>
    BY <1>6, StackTop DEF ReaddirMore, Walking, Search, Place
  <2>2. ASSUME up, Top.sid \in DOMAIN searches
        PROVE  searches[Top.sid].dir = Top.dir /\ searches[Top.sid].pos = Top.buf.pos
    BY <2>1, <2>2, TopHeld DEF Held
  <2>3. ASSUME NEW s, s = searches[Top.sid], NEW b \in Batches(s.dir, s.pos), Findnext(s, b),
               Top.sid \in DOMAIN searches, up, UNCHANGED faults
        PROVE  WalkInv'
    <3> DEFINE f == Refilled(s, b)
    <3>1. /\ s \in Place /\ s.dir \in Dirs /\ s.pos \in Nat /\ s.dir = Top.dir /\ s.pos = Top.buf.pos
      BY <2>2, <2>3 DEF TypeOK, Place
    <3>2. f \in Search /\ f.dir = Top.dir /\ f.subs = Top.subs /\ f.buf = s
      BY <2>1, <3>1, RefilledIs
    <3>3. b.n = 0 => Top.buf.pos = Len(Content[Top.dir])
      BY <3>1, BatchType
    <3> HIDE DEF f
    <3>4. CASE b.n = 0
      BY <1>0, <2>1, <2>3, <3>2, <3>3, <3>4, ClosedWalk DEF Findnext, f
    <3>5. CASE b.n # 0
      <4>1. SetTop(f) /\ UNCHANGED pending
        BY <2>3, <3>5 DEF Findnext, f
      <4>2. /\ Len(stack') = Len(stack) /\ stack'[Len(stack)] = f
            /\ \A k \in 1..Len(stack) : k # Len(stack) => stack'[k] = stack[k]
        BY <2>1, <3>2, <4>1, Replaced
      <4>3. \A k \in 1..Len(stack) : /\ stack'[k].dir = stack[k].dir
                                     /\ stack'[k].subs = stack[k].subs
                                     /\ stack'[k].buf.pos = stack[k].buf.pos
        BY <3>1, <3>2, <4>2 DEF Top
      <4> QED
        BY <2>1, <2>3, <4>1, <4>2, <4>3, SameWalk
    <3> QED
      BY <3>4, <3>5
  <2>4. ASSUME up, Top.sid \in DOMAIN searches, Closedir(Top), UNCHANGED faults,
               searches[Top.sid].pos = Len(Content[searches[Top.sid].dir])
        PROVE  WalkInv'
    BY <2>1, <2>2, <2>4, ClosedWalk
  <2>5. ASSUME Fault, Closedir(Top) PROVE WalkInv'
    BY <1>0, <2>1, <2>5, FaultType, ClosedWalk
  <2> QED
    BY <1>6, <2>3, <2>4, <2>5 DEF ReaddirMore
<1>7. ASSUME ReaddirEnd PROVE WalkInv'
  <2>1. /\ stack # <<>> /\ Top \in Search /\ Top.count = 0 /\ Top.end /\ Top.buf.pos \in Nat
        /\ Closedir(Top) /\ UNCHANGED <<up, nested, given, faults>>
    BY <1>7, StackTop DEF ReaddirEnd, Walking, Search, Place
  <2>2. Top.buf.pos = Len(Content[Top.dir])
    BY <2>1, TopHeld DEF Held
  <2> QED
    BY <2>1, <2>2, ClosedWalk
<1>8. CASE UNCHANGED vars
  BY <1>0, <1>8, SameWalk DEF vars
<1> QED
  BY <1>1, <1>2, <1>3, <1>4, <1>5, <1>6, <1>7, <1>8 DEF Next, Client

\* When nothing waits and nothing is listed, everything that was found is done; and
\* every directory was found, for the found ones are closed under going down.
LEMMA WalkComplete == TypeOK /\ WalkInv => Complete
<1> SUFFICES ASSUME TypeOK, WalkInv, Done, faults = 0 PROVE
        \A d \in Dirs : \A i \in Places(d) : Content[d][i] \notin Dots => given[d][i] = 1
  BY DEF Complete
<1>1. Len(stack) = 0 /\ Len(pending) = 0
  BY EmptySeq DEF Done
<1>2. \A d \in Dirs : Found(d, given) => HandedOut(d, Len(Content[d]), given)
  BY <1>1 DEF WalkInv, Covered, Waits, Entered, Occurs
<1> DEFINE reached == {d \in Dirs : Found(d, given)}
<1>3. \A d \in reached : \A i \in Places(d) : Content[d][i] \notin Dots => given[d][i] > 0
  BY <1>2, LengthType DEF HandedOut, Places
<1>4. reached = Dirs
  <2>1. reached \in SUBSET Dirs /\ Root \in reached
    BY FindAssumption DEF Found
  <2>2. \A d \in reached : \A i \in Places(d) : Content[d][i] \in Dirs => Content[d][i] \in reached
    <3> SUFFICES ASSUME NEW d \in reached, NEW i \in Places(d), Content[d][i] \in Dirs
                 PROVE  Content[d][i] \in reached
      OBVIOUS
    <3>1. Content[d][i] \notin Dots
      BY FindAssumption
    <3>2. given[d][i] > 0
      BY <1>3, <3>1
    <3> QED
      BY <3>2 DEF Found
  <2> HIDE DEF reached
  <2> QED
    BY <2>1, <2>2, TreeAssumption
<1> HIDE DEF reached
<1> SUFFICES ASSUME NEW d \in Dirs, NEW i \in Places(d), Content[d][i] \notin Dots
             PROVE  given[d][i] = 1
  OBVIOUS
<1>5. given[d][i] \in Nat /\ given[d][i] > 0 /\ given[d][i] <= 1
  BY <1>3, <1>4 DEF TypeOK, WalkInv, EntryOnce
<1> QED
  BY <1>5

\* The walk is never in two places of the tree at once, loses none, and every search that
\* is open stands where its entries were handed out to (cifs_readdir and its callers).
THEOREM InvCorrect == Spec => []IInv
<1>1. Init => IInv
  BY TypeInit, HeldInit, WalkInit DEF IInv
<1>2. IInv /\ [Next]_vars => IInv'
  BY TypeStep, HeldStep, WalkStep DEF IInv
<1> QED
  BY <1>1, <1>2, PTL DEF Spec

\* No entry is handed out twice, and "." and ".." never (cifs_readdir), in trees of any
\* size, whatever fails.
THEOREM OnceCorrect == Spec => []EntryOnce
<1>1. IInv => EntryOnce
  BY DEF IInv, WalkInv
<1> QED
  BY <1>1, InvCorrect, PTL

\* A walk in which nothing failed has handed out every entry of the whole tree, however
\* the server divided the listings and wherever it announced their ends.
THEOREM CompleteCorrect == Spec => []Complete
<1>1. IInv => Complete
  BY WalkComplete DEF IInv
<1> QED
  BY <1>1, InvCorrect, PTL
===============================================================================
