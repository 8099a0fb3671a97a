---------------------------- MODULE DownloadProofs ----------------------------
(***************************************************************************)
(* The safety of a download for every file size, buffer and server: the    *)
(* local file is always the beginning of the remote one, and a download    *)
(* implements FileCopy.                                                    *)
(***************************************************************************)
EXTENDS Download, SequenceTheorems, TLAPS

\* What the properties leave unsaid: bytes wait to be written only before the
\* write, they are bytes that were asked for, and the server holds at most the
\* handle that the function knows.
Waiting == /\ pc # "write" => res = 0
           /\ pc = "write" => rem >= 0
           /\ pc = "andx" => rem > 0

HandleHeld == /\ pc \in {"off", "open"} => handles = {}
              /\ pc \in {"local", "loop", "andx", "write"} => handles = {fid}
              /\ pc = "fail" => handles \subseteq {fid}

IInv == TypeOK /\ OffsetsAgree /\ LocalIsPrefix /\ Waiting /\ HandleHeld /\ HandleClosed

\* Appending the next n positions to the first ones gives the first ones.
LEMMA PrefixGrows ==
    ASSUME NEW s \in Seq(Nat), Copy!IsPrefix(s), NEW n \in Nat
    PROVE  LET t == s \o [i \in 1..n |-> Len(s) + i]
           IN  t \in Seq(Nat) /\ Len(t) = Len(s) + n /\ Copy!IsPrefix(t)
<1> DEFINE u == [i \in 1..n |-> Len(s) + i]
           t == s \o u
<1>0. Len(s) \in Nat
  BY LenProperties
<1>1. u \in Seq(Nat) /\ Len(u) = n /\ \A i \in 1..n : u[i] = Len(s) + i
  BY <1>0, IsASeq
<1> HIDE DEF u
<1>2. /\ t \in Seq(Nat) /\ Len(t) = Len(s) + n
      /\ \A i \in 1 .. Len(s) + n : t[i] = IF i <= Len(s) THEN s[i] ELSE u[i - Len(s)]
  BY <1>1, ConcatProperties
<1>3. \A i \in 1..Len(s) : s[i] = i
  BY DEF Copy!IsPrefix, Copy!Identity
<1> HIDE DEF t
<1>4. \A i \in 1 .. Len(t) : t[i] = i
  <2> SUFFICES ASSUME NEW i \in 1 .. Len(s) + n PROVE t[i] = i
    BY <1>2
  <2>1. CASE i <= Len(s)
    BY <1>0, <1>2, <1>3, <2>1
  <2>2. CASE i > Len(s)
    <3>1. i - Len(s) \in 1..n
      BY <1>0, <2>2
    <3>2. t[i] = u[i - Len(s)]
      BY <1>0, <1>2, <2>2
    <3> QED BY <1>0, <1>1, <3>1, <3>2
  <2> QED BY <1>0, <2>1, <2>2
<1>5. t = [i \in 1..Len(t) |-> i]
  <2>1. t = [i \in 1..Len(t) |-> t[i]]
    BY <1>2, LenProperties
  <2> QED BY <1>4, <2>1
<1> QED BY <1>2, <1>5 DEF t, u, Copy!IsPrefix, Copy!Identity

\* What a read can return: no more than is missing.
LEMMA ReadBounds ==
    ASSUME TypeOK, rem > 0
    PROVE  /\ Wanted \in 1..rem /\ Stored(off) \in Nat
           /\ \A m \in Nat \ {0} : Least(Least(Wanted, m), Stored(off)) \in 0..rem
  BY DownloadAssumption DEF TypeOK, Wanted, Stored, Least

LEMMA InitIInv == Init => IInv
<1> SUFFICES ASSUME Init PROVE IInv
  OBVIOUS
<1>1. TypeOK
  BY DownloadAssumption DEF Init, TypeOK
<1>2. LocalIsPrefix
  BY DEF Init, LocalIsPrefix, Copy!IsPrefix, Copy!Identity
<1> QED BY <1>1, <1>2 DEF Init, IInv, OffsetsAgree, Waiting, HandleHeld, HandleClosed

LEMMA StepIInv == IInv /\ [Next]_vars => IInv'
<1> SUFFICES ASSUME IInv, [Next]_vars PROVE IInv'
  OBVIOUS
<1> USE DownloadAssumption
<1>0. TypeOK /\ OffsetsAgree /\ LocalIsPrefix /\ Waiting /\ HandleHeld /\ HandleClosed
  BY DEF IInv
<1>1. ASSUME UNCHANGED local, TypeOK', OffsetsAgree', Waiting', HandleHeld', HandleClosed'
      PROVE  IInv'
  BY <1>0, <1>1 DEF IInv, LocalIsPrefix
<1>2. CASE Resize
  BY <1>0, <1>1, <1>2 DEF Resize, TypeOK, OffsetsAgree, Waiting, HandleHeld, HandleClosed
<1>3. CASE Start
  BY <1>0, <1>1, <1>3 DEF Start, TypeOK, OffsetsAgree, Waiting, HandleHeld, HandleClosed
<1>4. CASE Kill
  BY <1>0, <1>1, <1>4 DEF Kill, TypeOK, OffsetsAgree, Waiting, HandleHeld, HandleClosed
<1>5. CASE Open
  BY <1>0, <1>1, <1>5 DEF Open, TypeOK, OffsetsAgree, Waiting, HandleHeld, HandleClosed
<1>6. CASE OpenLocal
  <2>1. Len(local) \in Nat
    BY <1>0, LenProperties DEF TypeOK
  <2> QED BY <1>0, <1>1, <1>6, <2>1
    DEF OpenLocal, TypeOK, OffsetsAgree, Waiting, HandleHeld, HandleClosed
\* Bytes that were read, at most what is missing.
<1>7. ASSUME pc \in {"loop", "andx"}, rem > 0, NEW n \in 1..rem, Got(n), stalls' \in 0..MaxStalls,
             UNCHANGED <<fsize, local, raw, handles, fid, size, ret, runs>>
      PROVE  IInv'
  <2>1. Len(local) \in Nat
    BY <1>0, LenProperties DEF TypeOK
  <2> QED BY <1>0, <1>1, <1>7, <2>1
    DEF Got, TypeOK, OffsetsAgree, Waiting, HandleHeld, HandleClosed
\* A read without bytes.
<1>8. ASSUME pc \in {"loop", "andx"}, pc' \in {"loop", "andx", "fail"},
             pc' = "andx" => rem > 0, stalls' \in 0..MaxStalls,
             UNCHANGED <<fsize, local, raw, handles, fid, size, off, rem, res, ret, runs>>
      PROVE  IInv'
  BY <1>0, <1>1, <1>8 DEF TypeOK, OffsetsAgree, Waiting, HandleHeld, HandleClosed
<1>9. CASE ReadRaw
  <2>1. stalls \in 0..MaxStalls /\ rem > 0 /\ pc = "loop"
    BY <1>0, <1>9 DEF TypeOK, ReadRaw
  <2> DEFINE n == Least(Least(Wanted, MaxRaw), Stored(off))
  <2>2. n \in 0..rem
    BY <1>0, <2>1, ReadBounds
  <2>3. ASSUME n > 0, Got(n), UNCHANGED stalls PROVE IInv'
    BY <1>7, <1>9, <2>1, <2>2, <2>3 DEF ReadRaw
  <2>4. ASSUME n = 0 \/ stalls < MaxStalls,
               stalls' = IF n = 0 THEN stalls ELSE stalls + 1,
               pc' = "andx", UNCHANGED <<off, rem, res>>
        PROVE  IInv'
    <3>1. stalls' \in 0..MaxStalls
      BY <2>1, <2>4
    <3> QED BY <1>8, <1>9, <2>1, <2>4, <3>1 DEF ReadRaw
  <2> QED BY <1>9, <2>3, <2>4 DEF ReadRaw
<1>10. CASE ReadAndx
  <2>1. rem > 0 /\ pc \in {"loop", "andx"} /\ stalls \in 0..MaxStalls
    BY <1>0, <1>10 DEF ReadAndx, Waiting, TypeOK
  <2> DEFINE most == Least(Least(Wanted, MaxAndx), Stored(off))
  <2>2. most \in 0..rem
    BY <1>0, <2>1, ReadBounds
  <2>3. ASSUME NEW n \in 1..most, Got(n) PROVE IInv'
    <3>1. n \in 1..rem
      BY <1>0, <2>2 DEF TypeOK
    <3> QED BY <1>7, <1>10, <2>1, <2>3, <3>1 DEF ReadAndx
  <2>4. ASSUME pc' = "loop", UNCHANGED <<off, rem, res>> PROVE IInv'
    BY <1>8, <1>10, <2>1, <2>4 DEF ReadAndx
  <2> QED BY <1>10, <2>3, <2>4 DEF ReadAndx
<1>11. CASE ReadRefused
  <2>1. pc \in {"loop", "andx"} /\ pc' \in {"loop", "fail"} /\ stalls' \in 0..MaxStalls
    BY <1>0, <1>11 DEF ReadRefused, TypeOK
  <2> QED BY <1>8, <1>11, <2>1 DEF ReadRefused
<1>12. CASE ReadFails
  <2>1. pc \in {"loop", "andx"} /\ stalls' \in 0..MaxStalls
    BY <1>0, <1>12 DEF ReadFails, TypeOK
  <2> QED BY <1>8, <1>12, <2>1 DEF ReadFails
<1>13. CASE Write
  <2> PICK n \in 0..res : /\ local' = local \o [i \in 1..n |-> off - res + i]
                          /\ pc' = IF n = res THEN "loop" ELSE "fail"
    BY <1>13 DEF Write
  <2>1. Len(local) \in Nat /\ n \in Nat /\ off - res = Len(local)
    BY <1>0, <1>13, LenProperties DEF TypeOK, OffsetsAgree, Write
  <2>2. local' = local \o [i \in 1..n |-> Len(local) + i]
    BY <2>1
  <2>3. local' \in Seq(Nat) /\ Len(local') = Len(local) + n /\ Copy!IsPrefix(local')
    BY <1>0, <2>1, <2>2, PrefixGrows DEF TypeOK, LocalIsPrefix
  <2>4. TypeOK'
    BY <1>0, <1>13, <2>3 DEF TypeOK, Write
  <2>5. OffsetsAgree'
    BY <1>0, <1>13, <2>1, <2>3 DEF TypeOK, OffsetsAgree, Write
  <2> QED BY <1>0, <1>13, <2>3, <2>4, <2>5
    DEF Write, IInv, LocalIsPrefix, Waiting, HandleHeld, HandleClosed
<1>14. CASE Finish
  BY <1>0, <1>1, <1>14 DEF Finish, TypeOK, OffsetsAgree, Waiting, HandleHeld, HandleClosed
<1>15. CASE Fail
  BY <1>0, <1>1, <1>15 DEF Fail, TypeOK, OffsetsAgree, Waiting, HandleHeld, HandleClosed
<1>16. CASE UNCHANGED vars
  BY <1>0, <1>1, <1>16 DEF vars, TypeOK, OffsetsAgree, Waiting, HandleHeld, HandleClosed
<1> QED
  BY <1>2, <1>3, <1>4, <1>5, <1>6, <1>9, <1>10, <1>11, <1>12, <1>13, <1>14, <1>15, <1>16
  DEF Next, Step

\* The inductive invariant holds in every state.
THEOREM Invariance == Spec => []IInv
  BY InitIInv, StepIInv, PTL DEF Spec

\* The type invariant of Download.
THEOREM TypeCorrect == Spec => []TypeOK
<1>1. IInv => TypeOK
  BY DEF IInv
<1> QED BY <1>1, Invariance, PTL

\* At all times the local file is the beginning of the remote one, through every
\* mixture of reads, partial writes, failures, kills and restarts.
THEOREM PrefixCorrect == Spec => []LocalIsPrefix
<1>1. IInv => LocalIsPrefix
  BY DEF IInv
<1> QED BY <1>1, Invariance, PTL

\* off and rem agree with the local file and the size wherever the loop may fail.
THEOREM OffsetsCorrect == Spec => []OffsetsAgree
<1>1. IInv => OffsetsAgree
  BY DEF IInv
<1> QED BY <1>1, Invariance, PTL

\* No handle but 0, and that only after a failure, is left open.
THEOREM HandleCorrect == Spec => []HandleClosed
<1>1. IInv => HandleClosed
  BY DEF IInv
<1> QED BY <1>1, Invariance, PTL

\* Every step is one of FileCopy's or leaves the copy, its goal and the verdict
\* alone: Open begins, Write grows, Finish and Fail end.
LEMMA StepCopies == IInv /\ [Next]_vars => [Copy!AbsNext]_(Copy!copyVars)
<1> SUFFICES ASSUME IInv, IInv', [Next]_vars PROVE [Copy!AbsNext]_(Copy!copyVars)
  BY StepIInv
<1>0. TypeOK /\ OffsetsAgree /\ LocalIsPrefix /\ Waiting
  BY DEF IInv
<1>1. ASSUME UNCHANGED <<local, size, ret>> PROVE [Copy!AbsNext]_(Copy!copyVars)
  BY <1>1 DEF Copy!copyVars
<1>2. CASE Open
  <2>1. size' \in Nat /\ ret' = "none" /\ UNCHANGED local
    BY <1>0, <1>2, DownloadAssumption DEF Open, TypeOK
  <2> QED BY <2>1 DEF Copy!AbsNext, Copy!Begin
<1>3. CASE Write
  <2> PICK n \in 0..res : local' = local \o [i \in 1..n |-> off - res + i]
    BY <1>3 DEF Write
  <2>1. /\ Len(local) \in Nat /\ n \in Nat /\ n <= res /\ off = Len(local) + res
        /\ off + rem = size /\ rem >= 0 /\ rem \in Int /\ res \in Nat /\ size \in Nat
        /\ UNCHANGED <<size, ret>>
    BY <1>0, <1>3, LenProperties, DownloadAssumption DEF TypeOK, OffsetsAgree, Waiting, Write
  <2>2. local' = local \o [i \in 1..n |-> Len(local) + i]
    BY <2>1
  <2>3. Len(local') = Len(local) + n /\ Copy!IsPrefix(local')
    BY <1>0, <2>1, <2>2, PrefixGrows DEF TypeOK, LocalIsPrefix
  <2>4. CASE n = 0
    <3>1. Len(local') = Len(local) /\ Copy!IsPrefix(local)
      BY <1>0, <2>1, <2>3, <2>4 DEF LocalIsPrefix
    <3>2. local' = local
      BY <2>3, <3>1 DEF Copy!IsPrefix
    <3> QED BY <1>1, <2>1, <3>2
  <2>5. CASE n > 0
    <3>1. Len(local') > Len(local) /\ Len(local') <= size
      BY <2>1, <2>3, <2>5
    <3> QED BY <2>1, <2>3, <3>1 DEF Copy!AbsNext, Copy!Grow, Copy!IsPrefix
  <2> QED BY <2>1, <2>4, <2>5
<1>4. CASE Finish
  <2>1. Len(local) \in Nat
    BY <1>0, LenProperties DEF TypeOK
  <2>2. Len(local) >= size /\ ret' = "ok" /\ UNCHANGED <<local, size>>
    BY <1>0, <1>4, <2>1 DEF Finish, TypeOK, OffsetsAgree, Waiting
  <2> QED BY <2>2 DEF Copy!AbsNext, Copy!End
<1>5. CASE Fail
  BY <1>5 DEF Fail, Copy!AbsNext, Copy!End
<1>6. CASE Resize \/ Start \/ Kill \/ OpenLocal \/ ReadRaw \/ ReadAndx \/ ReadRefused
           \/ ReadFails \/ UNCHANGED vars
  BY <1>1, <1>6 DEF Resize, Start, Kill, OpenLocal, ReadRaw, ReadAndx, ReadRefused, ReadFails, vars
<1> QED
  BY <1>2, <1>3, <1>4, <1>5, <1>6 DEF Next, Step

\* Downloading implements FileCopy: the local file only grows, by the bytes that
\* come next in the remote one, and a success means that it is as long as the
\* remote file was when it was opened.
THEOREM CopyCorrect == Spec => CopiesFile
<1>1. Init => Copy!AbsInit
  BY DEF Init, Copy!AbsInit
<1> QED
  BY <1>1, Invariance, StepCopies, PTL DEF Spec, CopiesFile, Copy!AbsSpec
===============================================================================
