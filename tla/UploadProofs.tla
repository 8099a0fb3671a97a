----------------------------- MODULE UploadProofs -----------------------------
(***************************************************************************)
(* The safety of an upload for every file size, chunk and server: without  *)
(* errors of the class ERRHRD the remote file is always the beginning of   *)
(* the local one, whatever late writes there are; if the local file keeps  *)
(* its size as well, an upload implements FileCopy.                        *)
(***************************************************************************)
EXTENDS Upload, SequenceTheorems, TLAPS

HandleHeld == /\ pc \in {"off", "open"} => handles = {}
              /\ pc \in {"local", "loop", "sent"} => handles = {fid}
              /\ pc = "fail" => handles \subseteq {fid}

\* What holds whatever the server answers.
IInv == TypeOK /\ HandleHeld /\ HandleClosed

\* The size of the remote file that was seen at the opening is not beyond it.
SizeSeen == pc = "local" => st <= Len(remote)

PInv == IInv /\ RemoteIsPrefix /\ NoGap /\ SizeSeen

\* No write, performed or still to come, reaches beyond the size of the local file.
WithinSize == /\ pc \in {"loop", "sent"} \/ late # {} => size = lsize
              /\ pc = "sent" => req.off + req.len <= size
              /\ \A r \in late : r.off + r.len <= size
              /\ pc \in {"local", "loop", "sent", "fail"} => ret = "none"

CInv == PInv /\ WithinSize

\* A write inside the file or at its end leaves a prefix that is not shorter.
LEMMA OverlayGrows ==
    ASSUME NEW s \in Seq(Nat), NEW at \in Nat, NEW n \in Nat
    PROVE  /\ Overlay(s, at, n) \in Seq(Nat)
           /\ Len(Overlay(s, at, n)) >= Len(s)
           /\ n > 0 => Len(Overlay(s, at, n)) >= at + n
           /\ Len(Overlay(s, at, n)) \in {Len(s), at + n}
           /\ at <= Len(s) /\ Copy!IsPrefix(s) => Copy!IsPrefix(Overlay(s, at, n))
<1> DEFINE m == IF n = 0 \/ at + n < Len(s) THEN Len(s) ELSE at + n
           t == [i \in 1..m |-> IF i \in at + 1 .. at + n THEN i
                                ELSE IF i <= Len(s) THEN s[i] ELSE 0]
<1>1. Overlay(s, at, n) = t
  BY DEF Overlay
<1>2. Len(s) \in Nat /\ m \in Nat /\ m >= Len(s) /\ (n > 0 => m >= at + n) /\ m \in {Len(s), at + n}
  BY LenProperties
<1> HIDE DEF m
<1>3. ASSUME NEW i \in 1..m PROVE (IF i \in at + 1 .. at + n THEN i
                                   ELSE IF i <= Len(s) THEN s[i] ELSE 0) \in Nat
  <2>1. i <= Len(s) => s[i] \in Nat
    BY <1>2, ElementOfSeq
  <2> QED BY <1>2, <2>1
<1>4. t \in Seq(Nat) /\ Len(t) = m
  BY <1>2, <1>3, IsASeq
<1>5. ASSUME at <= Len(s), Copy!IsPrefix(s) PROVE Copy!IsPrefix(t)
  <2>1. \A i \in 1..Len(s) : s[i] = i
    BY <1>5 DEF Copy!IsPrefix, Copy!Identity
  <2>2. ASSUME NEW i \in 1..m PROVE t[i] = i
    <3>1. CASE i \in at + 1 .. at + n
      BY <3>1
    <3>2. CASE i \notin at + 1 .. at + n
      <4>1. i <= Len(s)
        BY <1>2, <1>5, <3>2 DEF m
      <4> QED BY <1>2, <2>1, <3>2, <4>1
    <3> QED BY <3>1, <3>2
  <2>3. t = [i \in 1..m |-> i]
    BY <2>2
  <2> QED BY <1>4, <2>3 DEF Copy!IsPrefix, Copy!Identity
<1> QED BY <1>1, <1>2, <1>4, <1>5

LEMMA InitIInv == Init => IInv
  BY UploadAssumption DEF Init, IInv, TypeOK, HandleHeld, HandleClosed

\* What a request asks to be written.
LEMMA SendBounds ==
    ASSUME TypeOK, Send
    PROVE  /\ req' = [off |-> off, len |-> req'.len] /\ req'.len \in Nat
           /\ off < lsize => off + req'.len <= lsize
  BY UploadAssumption DEF TypeOK, Send, Least

LEMMA StepIInv == IInv /\ [Next]_vars => IInv'
<1> SUFFICES ASSUME IInv, [Next]_vars PROVE IInv'
  OBVIOUS
<1> USE UploadAssumption
<1>0. TypeOK /\ HandleHeld /\ HandleClosed
  BY DEF IInv
<1>1. CASE Shrink
  BY <1>0, <1>1 DEF Shrink, IInv, TypeOK, HandleHeld, HandleClosed, locals
<1>2. CASE Start
  BY <1>0, <1>2 DEF Start, IInv, TypeOK, HandleHeld, HandleClosed, locals
<1>3. CASE Kill
  BY <1>0, <1>3 DEF Kill, IInv, TypeOK, HandleHeld, HandleClosed, locals
<1>4. CASE LateWrite
  <2> PICK r \in late : /\ late' = late \ {r}
                        /\ \E n \in 0..r.len : remote' = Overlay(remote, r.off, n)
    BY <1>4 DEF LateWrite
  <2> PICK n \in 0..r.len : remote' = Overlay(remote, r.off, n)
    OBVIOUS
  <2>1. r.off \in Nat /\ n \in Nat
    BY <1>0 DEF TypeOK
  <2>2. remote' \in Seq(Nat)
    BY <1>0, <2>1, OverlayGrows DEF TypeOK
  <2> QED BY <1>0, <1>4, <2>2 DEF LateWrite, IInv, TypeOK, HandleHeld, HandleClosed, locals
<1>5. CASE Open
  <2>1. Len(remote) \in Nat
    BY <1>0, LenProperties DEF TypeOK
  <2> QED BY <1>0, <1>5, <2>1 DEF Open, IInv, TypeOK, HandleHeld, HandleClosed
<1>6. CASE OpenLocal
  BY <1>0, <1>6 DEF OpenLocal, IInv, TypeOK, HandleHeld, HandleClosed
<1>7. CASE Send
  <2>1. req' \in [off : Nat, len : Nat]
    BY <1>0, <1>7, SendBounds DEF TypeOK
  <2> QED BY <1>0, <1>7, <2>1 DEF Send, IInv, TypeOK, HandleHeld, HandleClosed, locals
<1>8. CASE ReadFails
  BY <1>0, <1>8 DEF ReadFails, IInv, TypeOK, HandleHeld, HandleClosed, locals
<1>9. CASE Written
  <2> PICK n \in 0 .. req.len : remote' = Overlay(remote, req.off, n) /\ count' = n /\ Moved(n)
    BY <1>9 DEF Written
  <2>1. req.off \in Nat /\ n \in Nat
    BY <1>0 DEF TypeOK
  <2>2. remote' \in Seq(Nat)
    BY <1>0, <2>1, OverlayGrows DEF TypeOK
  <2> QED BY <1>0, <1>9, <2>1, <2>2 DEF Written, Moved, IInv, TypeOK, HandleHeld, HandleClosed
<1>10. CASE Stalled
  BY <1>0, <1>10 DEF Stalled, IInv, TypeOK, HandleHeld, HandleClosed, locals
<1>11. CASE Refused
  BY <1>0, <1>11 DEF Refused, IInv, TypeOK, HandleHeld, HandleClosed, locals
<1>12. CASE RefusedHard
  <2> PICK n \in (IF count >= 0 THEN {count} ELSE 0..MaxSize) : Moved(n)
    BY <1>12 DEF RefusedHard
  <2>1. n \in Nat
    BY <1>0 DEF TypeOK
  <2> QED BY <1>0, <1>12, <2>1 DEF RefusedHard, Moved, IInv, TypeOK, HandleHeld, HandleClosed
<1>13. CASE Lost
  BY <1>0, <1>13 DEF Lost, IInv, TypeOK, HandleHeld, HandleClosed, locals
<1>14. CASE Finish
  BY <1>0, <1>14 DEF Finish, IInv, TypeOK, HandleHeld, HandleClosed, locals
<1>15. CASE Fail
  BY <1>0, <1>15 DEF Fail, IInv, TypeOK, HandleHeld, HandleClosed, locals
<1>16. CASE UNCHANGED vars
  BY <1>0, <1>16 DEF vars, IInv, TypeOK, HandleHeld, HandleClosed, locals
<1> QED
  BY <1>1, <1>2, <1>3, <1>4, <1>5, <1>6, <1>7, <1>8, <1>9, <1>10, <1>11, <1>12, <1>13,
     <1>14, <1>15, <1>16 DEF Next, Step

\* The type invariant of Upload.
THEOREM TypeCorrect == Spec => []TypeOK
<1>1. IInv => TypeOK
  BY DEF IInv
<1> QED BY <1>1, InitIInv, StepIInv, PTL DEF Spec

\* No handle but 0, and that only after a failure, is left open.
THEOREM HandleCorrect == Spec => []HandleClosed
<1>1. IInv => HandleClosed
  BY DEF IInv
<1> QED BY <1>1, InitIInv, StepIInv, PTL DEF Spec

LEMMA InitPInv == Init => PInv
  BY InitIInv, UploadAssumption
  DEF Init, PInv, RemoteIsPrefix, NoGap, SizeSeen, Copy!IsPrefix, Copy!Identity

LEMMA StepPInv == HardErrors = FALSE => (PInv /\ [Next]_vars => PInv')
<1> SUFFICES ASSUME HardErrors = FALSE, PInv, [Next]_vars PROVE PInv'
  OBVIOUS
<1> USE UploadAssumption
<1>0. IInv /\ IInv' /\ TypeOK /\ TypeOK' /\ RemoteIsPrefix /\ NoGap /\ SizeSeen
  BY StepIInv DEF PInv, IInv
<1>n. Len(remote) \in Nat /\ Len(remote') \in Nat
  BY <1>0, LenProperties DEF TypeOK
\* A step that performs no write and does not touch the loop's position.
<1>1. ASSUME UNCHANGED remote, NoGap', SizeSeen' PROVE PInv'
  BY <1>0, <1>1 DEF PInv, RemoteIsPrefix
<1>2. CASE Shrink \/ Start \/ Kill \/ ReadFails \/ Stalled \/ Refused \/ Lost \/ Finish \/ Fail
           \/ UNCHANGED vars
  <2>1. UNCHANGED <<remote, off, rem, size, st, req>>
    BY <1>2 DEF Shrink, Start, Kill, ReadFails, Stalled, Refused, Lost, Finish, Fail, vars, locals
  <2>2. late' \in {late, late \cup {req}} /\ (late' # late => pc = "sent")
    BY <1>2 DEF Shrink, Start, Kill, ReadFails, Stalled, Refused, Lost, Finish, Fail, vars
  <2>3. /\ pc' # "local" \/ UNCHANGED pc
        /\ pc' = "sent" => pc = "sent"
        /\ pc' = "loop" => pc \in {"loop", "sent"}
    BY <1>2 DEF Shrink, Start, Kill, ReadFails, Stalled, Refused, Lost, Finish, Fail, vars
  <2> QED BY <1>0, <1>1, <2>1, <2>2, <2>3 DEF NoGap, SizeSeen
<1>3. CASE Open
  BY <1>0, <1>n, <1>1, <1>3 DEF Open, NoGap, SizeSeen
<1>4. CASE OpenLocal
  <2>1. /\ pc = "local" /\ pc' \in {"loop", "fail"} /\ UNCHANGED <<remote, late, req>>
        /\ pc' = "loop" => size' = lsize /\ off' = st /\ rem' = lsize - st
    BY <1>4 DEF OpenLocal
  <2>2. st \in Nat /\ lsize \in Nat /\ st <= Len(remote)
    BY <1>0, <2>1 DEF TypeOK, SizeSeen
  <2>3. pc' = "loop" => off' <= Len(remote') /\ off' + rem' = size'
    BY <2>1, <2>2
  <2> QED BY <1>0, <1>1, <2>1, <2>3 DEF NoGap, SizeSeen
<1>5. CASE Send
  <2>1. req'.off = off
    BY <1>5 DEF Send
  <2> QED BY <1>0, <1>1, <1>5, <2>1 DEF Send, NoGap, SizeSeen, locals
<1>6. CASE LateWrite
  <2> PICK r \in late : /\ late' = late \ {r}
                        /\ \E n \in 0..r.len : remote' = Overlay(remote, r.off, n)
    BY <1>6 DEF LateWrite
  <2> PICK n \in 0..r.len : remote' = Overlay(remote, r.off, n)
    OBVIOUS
  <2>1. r.off \in Nat /\ n \in Nat /\ r.off <= Len(remote)
    BY <1>0 DEF TypeOK, NoGap
  <2>2. Copy!IsPrefix(remote') /\ Len(remote') >= Len(remote)
    BY <1>0, <2>1, OverlayGrows DEF TypeOK, RemoteIsPrefix
  <2>3. UNCHANGED <<pc, off, rem, size, st, req>>
    BY <1>6 DEF LateWrite, locals
  <2>4. NoGap'
    <3>1. ASSUME NEW q \in late' PROVE q.off <= Len(remote')
      <4>1. q \in late /\ q.off \in Nat /\ q.off <= Len(remote)
        BY <1>0, <3>1 DEF TypeOK, NoGap
      <4> QED BY <1>n, <2>2, <4>1
    <3>2. pc \in {"loop", "sent"} => off <= Len(remote') /\ off + rem = size
      BY <1>0, <1>n, <2>2 DEF TypeOK, NoGap
    <3> QED BY <1>0, <2>3, <3>1, <3>2 DEF NoGap
  <2>5. SizeSeen'
    BY <1>0, <1>n, <2>2, <2>3 DEF TypeOK, SizeSeen
  <2> QED BY <1>0, <2>2, <2>4, <2>5 DEF PInv, RemoteIsPrefix
<1>7. CASE Written
  <2> PICK n \in 0 .. req.len : /\ n > 0 \/ req.len = 0
                                /\ remote' = Overlay(remote, req.off, n) /\ Moved(n)
    BY <1>7 DEF Written
  <2>1. /\ req.off = off /\ off \in Nat /\ n \in Nat /\ off <= Len(remote)
        /\ off + rem = size /\ rem \in Int
    BY <1>0, <1>7 DEF TypeOK, NoGap, Written
  <2>2. /\ Copy!IsPrefix(remote') /\ Len(remote') >= Len(remote)
        /\ n > 0 => Len(remote') >= off + n
    BY <1>0, <2>1, OverlayGrows DEF TypeOK, RemoteIsPrefix
  <2>3. off' <= Len(remote') /\ off' + rem' = size'
    BY <1>7, <1>n, <2>1, <2>2 DEF Moved, Written
  <2>4. \A q \in late' : q.off <= Len(remote')
    <3> SUFFICES ASSUME NEW q \in late PROVE q.off <= Len(remote')
      BY <1>7 DEF Written
    <3>1. q.off \in Nat /\ q.off <= Len(remote)
      BY <1>0 DEF TypeOK, NoGap
    <3> QED BY <1>n, <2>2, <3>1
  <2>5. pc' = "loop"
    BY DEF Moved
  <2> QED BY <1>0, <2>2, <2>3, <2>4, <2>5 DEF PInv, RemoteIsPrefix, NoGap, SizeSeen
<1>8. ~RefusedHard
  BY DEF RefusedHard
<1> QED BY <1>2, <1>3, <1>4, <1>5, <1>6, <1>7, <1>8 DEF Next, Step

\* Without errors of the class ERRHRD the remote file is at all times the
\* beginning of the local one.
THEOREM PrefixCorrect == HardErrors = FALSE => (Spec => []RemoteIsPrefix)
<1>1. PInv => RemoteIsPrefix
  BY DEF PInv
<1> SUFFICES ASSUME HardErrors = FALSE PROVE Spec => []RemoteIsPrefix
  OBVIOUS
<1>2. PInv /\ [Next]_vars => PInv'
  BY StepPInv
<1> QED BY <1>1, <1>2, InitPInv, PTL DEF Spec

\* And no write of the present or of an earlier invocation leaves a gap.
THEOREM GapCorrect == HardErrors = FALSE => (Spec => []NoGap)
<1>1. PInv => NoGap
  BY DEF PInv
<1> SUFFICES ASSUME HardErrors = FALSE PROVE Spec => []NoGap
  OBVIOUS
<1>2. PInv /\ [Next]_vars => PInv'
  BY StepPInv
<1> QED BY <1>1, <1>2, InitPInv, PTL DEF Spec

LEMMA InitCInv == Init => CInv
  BY InitPInv DEF Init, CInv, WithinSize

LEMMA StepCInv == HardErrors = FALSE /\ Shrinks = FALSE => (CInv /\ [Next]_vars => CInv')
<1> SUFFICES ASSUME HardErrors = FALSE, Shrinks = FALSE, CInv, [Next]_vars PROVE WithinSize'
  BY StepPInv DEF CInv
<1> USE UploadAssumption
<1>0. TypeOK /\ NoGap /\ WithinSize
  BY DEF CInv, PInv, IInv
<1>1. CASE Start
  BY <1>0, <1>1 DEF Start, WithinSize, locals
<1>2. CASE Kill \/ ReadFails \/ Stalled \/ Refused \/ Lost \/ Finish \/ Fail \/ UNCHANGED vars
  <2>1. UNCHANGED <<lsize, size, req>>
    BY <1>2 DEF Kill, ReadFails, Stalled, Refused, Lost, Finish, Fail, vars, locals
  <2>2. late' \in {late, late \cup {req}} /\ (late' # late => pc = "sent")
    BY <1>2 DEF Kill, ReadFails, Stalled, Refused, Lost, Finish, Fail, vars
  <2>3. /\ pc' # "local" \/ UNCHANGED <<pc, ret>>
        /\ pc' = "sent" => pc = "sent" /\ UNCHANGED ret
        /\ pc' \in {"loop", "fail"} => pc \in {"loop", "sent", "fail"} /\ UNCHANGED ret
        /\ pc' = "loop" => pc \in {"loop", "sent"}
    BY <1>2 DEF Kill, ReadFails, Stalled, Refused, Lost, Finish, Fail, vars
  <2> QED BY <1>0, <2>1, <2>2, <2>3 DEF WithinSize
<1>3. CASE Open
  BY <1>0, <1>3 DEF Open, WithinSize
<1>4. CASE OpenLocal
  BY <1>0, <1>4 DEF OpenLocal, WithinSize
<1>5. CASE Send
  <2>1. /\ req'.off = off /\ req'.len \in Nat /\ (off < lsize => off + req'.len <= lsize)
        /\ off + rem = size /\ size = lsize /\ rem > 0 /\ off \in Nat /\ rem \in Int
    BY <1>0, <1>5, SendBounds DEF TypeOK, NoGap, WithinSize, Send
  <2>2. req'.off + req'.len <= lsize
    BY <2>1
  <2> QED BY <1>0, <1>5, <2>1, <2>2 DEF Send, WithinSize, locals
<1>6. CASE LateWrite
  <2>1. late' \subseteq late /\ UNCHANGED <<lsize, size, req, pc, ret>>
    BY <1>6 DEF LateWrite, locals
  <2> QED BY <1>0, <2>1 DEF WithinSize
<1>7. CASE Written
  BY <1>0, <1>7 DEF Written, Moved, WithinSize
<1>8. ~RefusedHard /\ ~Shrink
  BY DEF RefusedHard, Shrink
<1> QED BY <1>1, <1>2, <1>3, <1>4, <1>5, <1>6, <1>7, <1>8 DEF Next, Step

\* A write that the server performs makes the copy grow or leaves it as it is.
LEMMA WriteCopies ==
    ASSUME TypeOK, TypeOK', RemoteIsPrefix, RemoteIsPrefix', UNCHANGED <<size, ret>>,
           NEW at \in Nat, NEW n \in Nat, at + n <= size, remote' = Overlay(remote, at, n)
    PROVE  [Copy!AbsNext]_(Copy!copyVars)
<1>1. /\ Len(remote) \in Nat /\ Len(remote') \in Nat /\ size \in Nat
      /\ remote = Copy!Identity(Len(remote)) /\ remote' = Copy!Identity(Len(remote'))
  BY LenProperties, UploadAssumption DEF TypeOK, RemoteIsPrefix, Copy!IsPrefix
<1>2. Len(remote') >= Len(remote) /\ Len(remote') \in {Len(remote), at + n}
  BY OverlayGrows DEF TypeOK
<1>3. CASE Len(remote') = Len(remote)
  <2>1. remote' = remote
    BY <1>1, <1>3
  <2> QED BY <2>1 DEF Copy!copyVars
<1>4. CASE Len(remote') # Len(remote)
  <2>1. Len(remote') > Len(remote) /\ Len(remote') <= size
    BY <1>1, <1>2, <1>4
  <2> QED BY <1>1, <2>1 DEF Copy!AbsNext, Copy!Grow
<1> QED BY <1>3, <1>4

LEMMA StepCopies ==
    HardErrors = FALSE /\ Shrinks = FALSE =>
        (CInv /\ [Next]_vars => [Copy!AbsNext]_(Copy!copyVars))
<1> SUFFICES ASSUME HardErrors = FALSE, Shrinks = FALSE, CInv, CInv', [Next]_vars
             PROVE  [Copy!AbsNext]_(Copy!copyVars)
  BY StepCInv
<1> USE UploadAssumption
<1>0. TypeOK /\ TypeOK' /\ RemoteIsPrefix /\ RemoteIsPrefix' /\ NoGap /\ WithinSize
  BY DEF CInv, PInv, IInv
<1>1. ASSUME UNCHANGED <<remote, size, ret>> PROVE [Copy!AbsNext]_(Copy!copyVars)
  BY <1>1 DEF Copy!copyVars
<1>2. CASE Open
  <2>1. size' \in Nat /\ ret' = "none" /\ UNCHANGED remote
    BY <1>0, <1>2 DEF Open, TypeOK
  <2> QED BY <2>1 DEF Copy!AbsNext, Copy!Begin
<1>3. CASE OpenLocal
  <2>1. size' \in Nat /\ ret' = "none" /\ UNCHANGED remote
    BY <1>0, <1>3 DEF OpenLocal, TypeOK, WithinSize
  <2> QED BY <2>1 DEF Copy!AbsNext, Copy!Begin
<1>4. CASE LateWrite
  <2> PICK r \in late : \E n \in 0..r.len : remote' = Overlay(remote, r.off, n)
    BY <1>4 DEF LateWrite
  <2> PICK n \in 0..r.len : remote' = Overlay(remote, r.off, n)
    OBVIOUS
  <2>0. r.off \in Nat /\ r.len \in Nat /\ r.off + r.len <= size /\ size \in Nat
    BY <1>0 DEF TypeOK, WithinSize
  <2>1. r.off \in Nat /\ n \in Nat /\ r.off + n <= size
    BY <2>0
  <2>2. UNCHANGED <<size, ret>>
    BY <1>4 DEF LateWrite, locals
  <2> QED BY <1>0, <2>1, <2>2, WriteCopies
<1>5. CASE Written
  <2> PICK n \in 0 .. req.len : remote' = Overlay(remote, req.off, n)
    BY <1>5 DEF Written
  <2>1. req.off \in Nat /\ n \in Nat /\ req.off + n <= size
    BY <1>0, <1>5 DEF TypeOK, WithinSize, Written
  <2>2. UNCHANGED <<size, ret>>
    BY <1>5 DEF Written
  <2> QED BY <1>0, <2>1, <2>2, WriteCopies
<1>6. CASE Finish
  <2>1. Len(remote) \in Nat
    BY <1>0, LenProperties DEF TypeOK
  <2>2. Len(remote) >= size /\ ret' = "ok" /\ UNCHANGED <<remote, size>>
    BY <1>0, <1>6, <2>1 DEF Finish, TypeOK, NoGap, locals
  <2> QED BY <2>2 DEF Copy!AbsNext, Copy!End
<1>7. CASE Fail
  BY <1>7 DEF Fail, Copy!AbsNext, Copy!End, locals
<1>8. CASE Start \/ Kill \/ Send \/ ReadFails \/ Stalled \/ Refused \/ Lost \/ UNCHANGED vars
  BY <1>1, <1>8 DEF Start, Kill, Send, ReadFails, Stalled, Refused, Lost, vars, locals
<1>9. ~RefusedHard /\ ~Shrink
  BY DEF RefusedHard, Shrink
<1> QED
  BY <1>2, <1>3, <1>4, <1>5, <1>6, <1>7, <1>8, <1>9 DEF Next, Step

\* If the local file keeps its size as well, uploading implements FileCopy: the
\* remote file only grows, never beyond the local one, also by writes of earlier
\* invocations, and a success means that it is complete.
THEOREM CopyCorrect == HardErrors = FALSE /\ Shrinks = FALSE => (Spec => CopiesFile)
<1>1. Init => Copy!AbsInit
  BY DEF Init, Copy!AbsInit
<1> SUFFICES ASSUME HardErrors = FALSE, Shrinks = FALSE PROVE Spec => CopiesFile
  OBVIOUS
<1>2. CInv /\ [Next]_vars => CInv'
  BY StepCInv
<1>3. CInv /\ [Next]_vars => [Copy!AbsNext]_(Copy!copyVars)
  BY StepCopies
<1> QED
  BY <1>1, <1>2, <1>3, InitCInv, PTL DEF Spec, CopiesFile, Copy!AbsSpec
===============================================================================
