---------------------------- MODULE TransactProofs ----------------------------
(***************************************************************************)
(* Proofs about Transact, for buffers of every size, any number of         *)
(* fragments and any number of transactions.                               *)
(***************************************************************************)
EXTENDS Transact, SequenceTheorems, TLAPS

USE DEF BufSize, BufLen, BufLeft, BufSet, BufInc, BufFits, BufResize, BufNew, BufRange

\* What the client relies on: fragments come in sequence, and only the sole
\* fragment of a reply has setup words.
InSequence == Ordered /\ ~SetupInParts

\* How far a reply with the plan q reaches after i fragments.
Reach(q, i) == IF i = 0 THEN [p |-> 0, d |-> 0] ELSE q[i]

\* The total of the data that fragment i states.
StatedData(q, i, over) ==
    IF i < Len(q) /\ over /\ q[Len(q)].d < MaxData THEN q[Len(q)].d + 1 ELSE q[Len(q)].d

\* The buffers as a request leaves them.
Cleared ==
    /\ setup = [p |-> 0, e |-> MaxSetup, x |-> MaxSetup]
    /\ param = [p |-> 0, e |-> MaxParam, x |-> MaxParam]
    /\ data  = [p |-> 0, e |-> MaxData, x |-> MaxData]

\* The buffers after i fragments.
Filled(q, i, over) ==
    /\ i = 0 => Cleared
    /\ i > 0 => /\ setup = [p |-> 0, e |-> 0, x |-> MaxSetup]
                /\ param = [p |-> q[i].p, e |-> q[Len(q)].p, x |-> MaxParam]
                /\ data  = [p |-> q[i].d, e |-> StatedData(q, i, over), x |-> MaxData]
    /\ \A k \in 0 .. Reach(q, i).p - 1 : pmem[k] = <<txn, k>>
    /\ \A k \in 0 .. Reach(q, i).d - 1 : dmem[k] = <<txn, k>>

\* i fragments of a reply are taken, the others on their way.
Coming(q, i, over, words) ==
    /\ Len(wire) = Len(q) - i
    /\ \A j \in 1..Len(wire) : wire[j] = Piece(q, i + j, words, over)
    /\ Filled(q, i, over)
    /\ reply = [ok |-> TRUE, p |-> q[Len(q)].p, d |-> q[Len(q)].d]

Waiting == asked /\ wire = <<>> /\ Cleared

Taking ==
    /\ ~asked
    /\ \E q \in Plans, over \in BOOLEAN : \E i \in 0 .. Len(q) - 1, words \in SetupWords(Len(q)) :
          Coming(q, i, over, words)

Refusing == ~asked /\ Cleared /\ Len(wire) = 1 /\ wire[1] \in Refusals /\ ~reply.ok

\* Every packet on its way belongs to the transaction under way.
OneReply ==
    /\ link = "dead" => pc = "idle" /\ ret = "error"
    /\ link = "up" /\ pc = "recv" => Waiting \/ Taking \/ Refusing
    /\ InSync /\ ReplyWhole /\ Accepted

IInv == TypeOK /\ OneReply
-------------------------------------------------------------------------------
(* What a server sends *)

LEMMA PlanIs ==
    ASSUME NEW q \in Plans
    PROVE  /\ Len(q) \in Nat \ {0}
           /\ \A i \in 1..Len(q) : q[i].p \in 0..MaxParam /\ q[i].d \in 0..MaxData
           /\ \A i, j \in 1..Len(q) : i < j =>
                 /\ q[i].p <= q[j].p /\ q[i].d <= q[j].d
                 /\ q[i].p # q[j].p \/ q[i].d # q[j].d
<1> DEFINE S == [p : 0..MaxParam, d : 0..MaxData]
<1>1. PICK n \in 1..MaxFrags : q \in [1..n -> S]
  BY DEF Plans
<1>2. n \in Nat \ {0} /\ q = [i \in 1..n |-> q[i]] /\ \A i \in 1..n : q[i] \in S
  BY <1>1, TransactAssumption
<1>3. Len([i \in 1..n |-> q[i]]) = n
  BY <1>2, IsASeq
<1>4. Len(q) = n
  BY <1>2, <1>3
<1>5. \A i, j \in 1..Len(q) : i < j => q[i].p <= q[j].p /\ q[i].d <= q[j].d /\ q[i] # q[j]
  BY DEF Plans
<1>6. \A i \in 1..n : q[i] = [p |-> q[i].p, d |-> q[i].d]
  BY <1>2
<1> QED
  BY <1>2, <1>4, <1>5, <1>6

LEMMA WordsAre ==
    ASSUME NEW n \in Nat \ {0}, NEW words \in SetupWords(n), NEW i \in 1..n
    PROVE  words[i] \in Nat /\ words[i] * 2 <= MaxSetup /\ (InSequence /\ n > 1 => words[i] = 0)
<1>1. PICK w \in IF n = 1 \/ SetupInParts THEN 0 .. MaxSetup \div 2 ELSE {0}, all \in BOOLEAN :
          words = [k \in 1..n |-> IF k = 1 \/ all THEN w ELSE 0]
  BY DEF SetupWords
<1>2. w \in Nat /\ w * 2 <= MaxSetup
  BY <1>1, TransactAssumption
<1>3. InSequence /\ n > 1 => w = 0
  BY <1>1 DEF InSequence
<1> QED
  BY <1>1, <1>2, <1>3, TransactAssumption

\* A fragment carries what its plan says, and states totals within the limits.
LEMMA PieceIs ==
    ASSUME NEW q \in Plans, NEW i \in 1..Len(q), NEW over \in BOOLEAN,
           NEW words \in SetupWords(Len(q)), NEW f, f = Piece(q, i, words, over)
    PROVE  /\ f = [cmd |-> "trans", err |-> FALSE, setup |-> words[i], txn |-> txn,
                   tp |-> q[Len(q)].p, td |-> StatedData(q, i, over),
                   pdis |-> Reach(q, i - 1).p, pcnt |-> q[i].p - Reach(q, i - 1).p,
                   ddis |-> Reach(q, i - 1).d, dcnt |-> q[i].d - Reach(q, i - 1).d]
           /\ Reach(q, i - 1).p \in 0 .. q[i].p /\ Reach(q, i - 1).d \in 0 .. q[i].d
           /\ q[i].p <= q[Len(q)].p /\ q[i].d <= q[Len(q)].d
           /\ StatedData(q, i, over) \in q[Len(q)].d .. MaxData
           /\ i = Len(q) => StatedData(q, i, over) = q[Len(q)].d
           /\ i < Len(q) => q[i].p # q[Len(q)].p \/ q[i].d # StatedData(q, i, over)
<1> DEFINE n == Len(q)
<1>1. n \in Nat \ {0} /\ n \in 1..n
  BY PlanIs
<1>2. q[i].p \in 0..MaxParam /\ q[i].d \in 0..MaxData /\ q[n].p \in 0..MaxParam /\ q[n].d \in 0..MaxData
  BY <1>1, PlanIs
<1>3. /\ q[i].p <= q[n].p /\ q[i].d <= q[n].d
      /\ i < n => q[i].p # q[n].p \/ q[i].d # q[n].d
  <2>1. CASE i = n
    BY <1>2, <2>1
  <2>2. CASE i < n
    BY <1>1, <2>2, PlanIs
  <2> QED
    BY <1>1, <2>1, <2>2
<1>4. /\ Reach(q, i - 1).p \in 0 .. q[i].p /\ Reach(q, i - 1).d \in 0 .. q[i].d
      /\ Reach(q, i - 1) = IF i = 1 THEN [p |-> 0, d |-> 0] ELSE q[i-1]
  <2>1. CASE i = 1
    BY <1>2, <2>1 DEF Reach
  <2>2. CASE i # 1
    <3>1. i - 1 \in 1..n /\ i - 1 < i /\ i - 1 # 0
      BY <1>1, <2>2
    <3> QED
      BY <1>2, <2>2, <3>1, PlanIs DEF Reach
  <2> QED
    BY <2>1, <2>2
<1>5. /\ StatedData(q, i, over) \in q[n].d .. MaxData
      /\ i = n => StatedData(q, i, over) = q[n].d
      /\ i < n => q[i].p # q[n].p \/ q[i].d # StatedData(q, i, over)
  BY <1>1, <1>2, <1>3, TransactAssumption DEF StatedData
<1>6. f = [cmd |-> "trans", err |-> FALSE, txn |-> txn, setup |-> words[i],
           tp |-> q[n].p, td |-> StatedData(q, i, over),
           pdis |-> Reach(q, i - 1).p, pcnt |-> q[i].p - Reach(q, i - 1).p,
           ddis |-> Reach(q, i - 1).d, dcnt |-> q[i].d - Reach(q, i - 1).d]
  BY <1>4 DEF Piece, StatedData
<1> QED
  BY <1>3, <1>4, <1>5, <1>6

LEMMA PieceType ==
    ASSUME TypeOK, NEW q \in Plans, NEW i \in 1..Len(q), NEW over \in BOOLEAN,
           NEW words \in SetupWords(Len(q))
    PROVE  Piece(q, i, words, over) \in Fragment
<1>1. /\ words[i] \in Nat /\ txn \in 0..MaxTxn /\ Len(q) \in Nat \ {0} /\ Len(q) \in 1..Len(q)
  BY PlanIs, WordsAre DEF TypeOK
<1>2. q[Len(q)].p \in Nat /\ q[i].p \in Nat /\ q[i].d \in Nat /\ q[Len(q)].d \in Nat
  BY <1>1, PlanIs
<1>3. /\ Reach(q, i - 1).p \in Nat /\ q[i].p - Reach(q, i - 1).p \in Nat
      /\ Reach(q, i - 1).d \in Nat /\ q[i].d - Reach(q, i - 1).d \in Nat
      /\ StatedData(q, i, over) \in Nat
  <2>1. /\ Reach(q, i - 1).p \in 0 .. q[i].p /\ Reach(q, i - 1).d \in 0 .. q[i].d
        /\ StatedData(q, i, over) \in q[Len(q)].d .. MaxData
    BY PieceIs
  <2> DEFINE p0 == Reach(q, i - 1).p    p1 == q[i].p
             d0 == Reach(q, i - 1).d    d1 == q[i].d
             d2 == q[Len(q)].d          sd == StatedData(q, i, over)
  <2>2. p0 \in 0 .. p1 /\ d0 \in 0 .. d1 /\ sd \in d2 .. MaxData /\ p1 \in Nat /\ d1 \in Nat /\ d2 \in Nat
    BY <1>2, <2>1
  <2> HIDE DEF p0, p1, d0, d1, d2, sd
  <2>3. p0 \in Nat /\ p1 - p0 \in Nat
    BY <2>2
  <2>4. d0 \in Nat /\ d1 - d0 \in Nat /\ sd \in Nat
    BY <2>2, TransactAssumption
  <2> QED
    BY <2>3, <2>4 DEF p0, p1, d0, d1, sd
<1> DEFINE f == Piece(q, i, words, over)
<1>4. f = [cmd |-> "trans", err |-> FALSE, setup |-> words[i], txn |-> txn,
           tp |-> q[Len(q)].p, td |-> StatedData(q, i, over),
           pdis |-> Reach(q, i - 1).p, pcnt |-> q[i].p - Reach(q, i - 1).p,
           ddis |-> Reach(q, i - 1).d, dcnt |-> q[i].d - Reach(q, i - 1).d]
  BY PieceIs
<1> HIDE DEF f
<1>5. f \in Fragment
  BY <1>1, <1>2, <1>3, <1>4 DEF Fragment
<1> QED
  BY <1>5 DEF f

\* A packet of the server's that breaks one rule.
LEMMA RefusalType ==
    ASSUME TypeOK, NEW r \in Refusals
    PROVE  /\ r \in Fragment
           /\ \/ r.err \/ r.cmd = "other" \/ r.tp > MaxParam \/ r.td > MaxData \/ r.setup > MaxSetup
              \/ r.tp <= MaxParam /\ r.pcnt > 0 /\ r.pdis + r.pcnt > r.tp
              \/ r.td <= MaxData /\ r.dcnt > 0 /\ r.ddis + r.dcnt > r.td
<1> DEFINE R(cmd, err, s, tp, td, pdis, pcnt, ddis, dcnt) ==
        [cmd |-> cmd, err |-> err, txn |-> txn, setup |-> s, tp |-> tp, td |-> td,
         pdis |-> pdis, pcnt |-> pcnt, ddis |-> ddis, dcnt |-> dcnt]
<1>1. \/ r = [Nothing EXCEPT !.err = TRUE]
      \/ r = [Nothing EXCEPT !.cmd = "other"]
      \/ r = [Nothing EXCEPT !.tp = MaxParam + 1]
      \/ r = [Nothing EXCEPT !.td = MaxData + 1]
      \/ r = [Nothing EXCEPT !.setup = MaxSetup + 1]
      \/ r = [Nothing EXCEPT !.tp = MaxParam, !.pdis = MaxParam, !.pcnt = 1]
      \/ r = [Nothing EXCEPT !.td = MaxData, !.ddis = MaxData, !.dcnt = 1]
  BY DEF Refusals
<1>2. /\ MaxParam \in Nat /\ MaxData \in Nat /\ MaxSetup \in Nat /\ txn \in 0..MaxTxn
      /\ MaxParam + 1 \in Nat /\ MaxData + 1 \in Nat /\ MaxSetup + 1 \in Nat
  BY TransactAssumption DEF TypeOK
<1>3. CASE r = [Nothing EXCEPT !.err = TRUE]
  <2>1. r = R("trans", TRUE, 0, 0, 0, 0, 0, 0, 0)
    BY <1>3 DEF Nothing
  <2> QED
    BY <1>2, <2>1 DEF Fragment
<1>4. CASE r = [Nothing EXCEPT !.cmd = "other"]
  <2>1. r = R("other", FALSE, 0, 0, 0, 0, 0, 0, 0)
    BY <1>4 DEF Nothing
  <2> QED
    BY <1>2, <2>1 DEF Fragment
<1>5. CASE r = [Nothing EXCEPT !.tp = MaxParam + 1]
  <2>1. r = R("trans", FALSE, 0, MaxParam + 1, 0, 0, 0, 0, 0)
    BY <1>5 DEF Nothing
  <2> QED
    BY <1>2, <2>1 DEF Fragment
<1>6. CASE r = [Nothing EXCEPT !.td = MaxData + 1]
  <2>1. r = R("trans", FALSE, 0, 0, MaxData + 1, 0, 0, 0, 0)
    BY <1>6 DEF Nothing
  <2> QED
    BY <1>2, <2>1 DEF Fragment
<1>7. CASE r = [Nothing EXCEPT !.setup = MaxSetup + 1]
  <2>1. r = R("trans", FALSE, MaxSetup + 1, 0, 0, 0, 0, 0, 0)
    BY <1>7 DEF Nothing
  <2> QED
    BY <1>2, <2>1 DEF Fragment
<1>8. CASE r = [Nothing EXCEPT !.tp = MaxParam, !.pdis = MaxParam, !.pcnt = 1]
  <2>1. r = R("trans", FALSE, 0, MaxParam, 0, MaxParam, 1, 0, 0)
    BY <1>8 DEF Nothing
  <2> QED
    BY <1>2, <2>1 DEF Fragment
<1>9. CASE r = [Nothing EXCEPT !.td = MaxData, !.ddis = MaxData, !.dcnt = 1]
  <2>1. r = R("trans", FALSE, 0, 0, MaxData, 0, 0, MaxData, 1)
    BY <1>9 DEF Nothing
  <2> QED
    BY <1>2, <2>1 DEF Fragment
<1> QED
  BY <1>1, <1>3, <1>4, <1>5, <1>6, <1>7, <1>8, <1>9

\* What the server sends for one request.
LEMMA AnswerSends ==
    ASSUME TypeOK, Answer
    PROVE  \E q \in Plans, over \in BOOLEAN :
           \E f \in Orders(Len(q)), words \in SetupWords(Len(q)) :
              /\ wire' \in Seq(Fragment) /\ Len(wire') = Len(wire) + Len(q)
              /\ \A j \in 1..Len(q) : wire'[Len(wire) + j] = Piece(q, f[j], words, over)
              /\ reply' = [ok |-> TRUE, p |-> q[Len(q)].p, d |-> q[Len(q)].d]
              /\ reply' \in [ok : BOOLEAN, p : 0..MaxParam, d : 0..MaxData]
<1>1. PICK q \in Plans, over \in BOOLEAN :
      \E f \in Orders(Len(q)), words \in SetupWords(Len(q)) :
          /\ wire' = wire \o [i \in 1..Len(q) |-> Piece(q, f[i], words, over)]
          /\ reply' = [ok |-> TRUE, p |-> q[Len(q)].p, d |-> q[Len(q)].d]
  BY DEF Answer
<1>2. PICK f \in Orders(Len(q)), words \in SetupWords(Len(q)) :
          /\ wire' = wire \o [i \in 1..Len(q) |-> Piece(q, f[i], words, over)]
          /\ reply' = [ok |-> TRUE, p |-> q[Len(q)].p, d |-> q[Len(q)].d]
  BY <1>1
<1>3. Len(q) \in Nat \ {0} /\ Len(q) \in 1..Len(q)
  BY PlanIs
<1>4. \A i \in 1..Len(q) : Piece(q, f[i], words, over) \in Fragment
  <2>1. \A i \in 1..Len(q) : f[i] \in 1..Len(q)
    BY DEF Orders
  <2> QED
    BY <2>1, PieceType
<1> DEFINE s == [i \in 1..Len(q) |-> Piece(q, f[i], words, over)]
<1>5. s \in Seq(Fragment) /\ Len(s) = Len(q)
  BY <1>3, <1>4, IsASeq
<1>6. \A j \in 1..Len(q) : s[j] = Piece(q, f[j], words, over)
  OBVIOUS
<1> HIDE DEF s
<1>7. wire \in Seq(Fragment) /\ Len(wire) \in Nat
  BY LenProperties DEF TypeOK
<1>8. /\ wire \o s \in Seq(Fragment) /\ Len(wire \o s) = Len(wire) + Len(s)
      /\ \A i \in 1 .. Len(wire) + Len(s) :
            (wire \o s)[i] = IF i <= Len(wire) THEN wire[i] ELSE s[i - Len(wire)]
  BY <1>5, <1>7, ConcatProperties
<1>9. wire' = wire \o s
  BY <1>2 DEF s
<1>10. ASSUME NEW j \in 1..Len(q) PROVE wire'[Len(wire) + j] = Piece(q, f[j], words, over)
  <2> DEFINE m == Len(wire) + j
  <2>1. m \in 1 .. Len(wire) + Len(s) /\ ~(m <= Len(wire)) /\ m - Len(wire) = j
    BY <1>3, <1>5, <1>7
  <2> HIDE DEF m
  <2>2. wire'[m] = s[j]
    BY <1>8, <1>9, <2>1
  <2> QED
    BY <1>6, <2>2 DEF m
<1>11. reply' \in [ok : BOOLEAN, p : 0..MaxParam, d : 0..MaxData]
  BY <1>2, <1>3, PlanIs
<1> QED
  BY <1>2, <1>5, <1>8, <1>9, <1>10, <1>11
-------------------------------------------------------------------------------
(* Types *)

BufType(b, max) == b \in [p : Nat, e : Nat, x : {max}] /\ b.p <= b.x /\ b.e <= b.x

LEMMA BufTypes ==
    ASSUME TypeOK
    PROVE  BufType(setup, MaxSetup) /\ BufType(param, MaxParam) /\ BufType(data, MaxData)
  BY DEF TypeOK, BufType

LEMMA Resized ==
    ASSUME NEW max \in Nat, NEW b, BufType(b, max), NEW size \in Nat, size <= b.e
    PROVE  BufResize(b, size) = [p |-> b.p, e |-> size, x |-> max]
  BY DEF BufType

LEMMA TypeInit == Init => TypeOK
<1> SUFFICES ASSUME Init PROVE TypeOK
  OBVIOUS
<1>1. NoByte \in Byte
  BY TransactAssumption DEF NoByte, Byte
<1>2. wire \in Seq(Fragment)
  BY EmptySeq DEF Init
<1>3. BufType(setup, MaxSetup) /\ BufType(param, MaxParam) /\ BufType(data, MaxData)
  BY TransactAssumption DEF Init, BufType
<1>4. pmem \in [0 .. MaxParam - 1 -> Byte] /\ dmem \in [0 .. MaxData - 1 -> Byte]
  BY <1>1 DEF Init
<1>5. reply \in [ok : BOOLEAN, p : 0..MaxParam, d : 0..MaxData] /\ txn \in 0..MaxTxn
  BY TransactAssumption DEF Init
<1> QED
  BY <1>2, <1>3, <1>4, <1>5 DEF Init, TypeOK, BufType

\* What a fragment leaves of the buffers before its bytes are moved.
LEMMA Opened ==
    ASSUME TypeOK, NEW f \in Fragment, Acceptable(f)
    PROVE  /\ BufResize(param, f.tp) = [p |-> param.p, e |-> f.tp, x |-> MaxParam]
           /\ BufResize(data, f.td) = [p |-> data.p, e |-> f.td, x |-> MaxData]
           /\ BufInc(BufResize(setup, f.setup * 2), f.setup * 2) =
                  [p |-> setup.p + f.setup * 2, e |-> f.setup * 2, x |-> MaxSetup]
           /\ f.tp <= MaxParam /\ f.td <= MaxData /\ setup.p + f.setup * 2 <= setup.e
           /\ setup.p \in Nat /\ setup.e \in 0..MaxSetup /\ param.p \in 0..MaxParam /\ data.p \in 0..MaxData
           /\ f.tp \in Nat /\ f.td \in Nat /\ f.setup * 2 \in Nat
<1>1. /\ MaxSetup \in Nat /\ MaxParam \in Nat /\ MaxData \in Nat
      /\ f.tp \in Nat /\ f.td \in Nat /\ f.setup * 2 \in Nat
  BY TransactAssumption DEF Fragment
<1>2. /\ setup.p \in Nat /\ setup.e \in Nat /\ setup.e <= MaxSetup
      /\ param.p \in Nat /\ param.e \in Nat /\ param.p <= MaxParam /\ param.e <= MaxParam
      /\ data.p \in Nat /\ data.e \in Nat /\ data.p <= MaxData /\ data.e <= MaxData
  BY BufTypes DEF BufType
<1>3. f.tp <= param.e /\ f.td <= data.e /\ f.setup * 2 <= setup.e - setup.p
  BY DEF Acceptable
<1>4. f.setup * 2 <= setup.e
  BY <1>1, <1>2, <1>3
<1>5. /\ BufResize(param, f.tp) = [p |-> param.p, e |-> f.tp, x |-> MaxParam]
      /\ BufResize(data, f.td) = [p |-> data.p, e |-> f.td, x |-> MaxData]
      /\ BufResize(setup, f.setup * 2) = [p |-> setup.p, e |-> f.setup * 2, x |-> MaxSetup]
  BY <1>1, <1>3, <1>4, BufTypes, Resized
<1> QED
  BY <1>1, <1>2, <1>3, <1>5

LEMMA CopiedType ==
    ASSUME NEW n \in Nat, NEW mem \in [0 .. n - 1 -> Byte], n <= MaxParam + MaxData, NEW from \in 0..MaxTxn,
           NEW dis, NEW cnt
    PROVE  Copied(mem, from, dis, cnt) \in [0 .. n - 1 -> Byte]
  BY TransactAssumption DEF Copied, Byte

LEMMA MovedIs ==
    ASSUME NEW b, b.e \in Nat, NEW dis \in Nat, NEW cnt \in Nat, ~Outside(b, dis, cnt)
    PROVE  /\ Moved(b, dis, cnt) = IF cnt > 0 THEN [p |-> dis + cnt, e |-> b.e, x |-> b.x] ELSE b
           /\ cnt > 0 => dis + cnt <= b.e
  BY DEF Moved, Outside

LEMMA RequestClears == ASSUME TypeOK, Request PROVE Cleared'
<1>1. /\ BufResize(setup, -1) = [p |-> setup.p, e |-> MaxSetup, x |-> MaxSetup]
      /\ BufResize(param, -1) = [p |-> param.p, e |-> MaxParam, x |-> MaxParam]
      /\ BufResize(data, -1) = [p |-> data.p, e |-> MaxData, x |-> MaxData]
  BY TransactAssumption, BufTypes DEF BufType
<1> QED
  BY <1>1 DEF Request, Cleared

LEMMA TypeStep == TypeOK /\ [Next]_vars => TypeOK'
<1> SUFFICES ASSUME TypeOK, [Next]_vars PROVE TypeOK'
  OBVIOUS
<1>1. ASSUME Answer PROVE TypeOK'
  <2>1. /\ wire' \in Seq(Fragment) /\ reply' \in [ok : BOOLEAN, p : 0..MaxParam, d : 0..MaxData]
        /\ asked' = FALSE
    BY <1>1, AnswerSends DEF Answer
  <2> QED
    BY <1>1, <2>1 DEF Answer, TypeOK
<1>2. ASSUME Refuse PROVE TypeOK'
  <2>1. wire' \in Seq(Fragment)
    BY <1>2, RefusalType, AppendProperties DEF Refuse, TypeOK
  <2>2. reply' \in [ok : BOOLEAN, p : 0..MaxParam, d : 0..MaxData] /\ asked' = FALSE
    BY <1>2, TransactAssumption DEF Refuse
  <2> QED
    BY <1>2, <2>1, <2>2 DEF Refuse, TypeOK
<1>3. ASSUME Request PROVE TypeOK'
  <2>1. /\ setup' = [p |-> 0, e |-> MaxSetup, x |-> MaxSetup] /\ param' = [p |-> 0, e |-> MaxParam, x |-> MaxParam]
        /\ data' = [p |-> 0, e |-> MaxData, x |-> MaxData]
    BY <1>3, RequestClears DEF Cleared
  <2>2. /\ setup' \in [p : Nat, e : Nat, x : {MaxSetup}] /\ setup'.p <= setup'.x /\ setup'.e <= setup'.x
        /\ param' \in [p : Nat, e : Nat, x : {MaxParam}] /\ param'.p <= param'.x /\ param'.e <= param'.x
        /\ data' \in [p : Nat, e : Nat, x : {MaxData}] /\ data'.p <= data'.x /\ data'.e <= data'.x
    BY <2>1, TransactAssumption
  <2>3. txn' \in 0..MaxTxn
    BY <1>3, TransactAssumption DEF Request, TypeOK
  <2> QED
    BY <1>3, <2>2, <2>3 DEF Request, TypeOK
<1>4. ASSUME RecvFails PROVE TypeOK'
  BY <1>4 DEF RecvFails, Finish, TypeOK
<1>5. ASSUME Receive PROVE TypeOK'
  <2> DEFINE f == Head(wire)
  <2>1. f \in Fragment /\ wire' \in Seq(Fragment)
    BY <1>5, HeadTailProperties DEF Receive, TypeOK
  <2>2. UNCHANGED <<txn, asked, reply, link>>
    BY <1>5 DEF Receive
  <2> HIDE DEF f
  <2>3. CASE ~Acceptable(f) /\ Finish("error") /\ UNCHANGED bufs
    BY <2>1, <2>2, <2>3 DEF Finish, bufs, TypeOK
  <2>4. CASE Acceptable(f) /\ TakeFragment(f)
    <3> DEFINE p == BufResize(param, f.tp)
               d == BufResize(data, f.td)
               s == BufInc(BufResize(setup, f.setup * 2), f.setup * 2)
               p2 == Moved(p, f.pdis, f.pcnt)
               d2 == Moved(d, f.ddis, f.dcnt)
               pm == Copied(pmem, f.txn, f.pdis, f.pcnt)
               dm == Copied(dmem, f.txn, f.ddis, f.dcnt)
    <3>0. /\ MaxSetup \in Nat /\ MaxParam \in Nat /\ MaxData \in Nat
          /\ f.pdis \in Nat /\ f.pcnt \in Nat /\ f.ddis \in Nat /\ f.dcnt \in Nat /\ f.txn \in 0..MaxTxn
      BY <2>1, TransactAssumption DEF Fragment
    <3>1. /\ p = [p |-> param.p, e |-> f.tp, x |-> MaxParam]
          /\ d = [p |-> data.p, e |-> f.td, x |-> MaxData]
          /\ s = [p |-> setup.p + f.setup * 2, e |-> f.setup * 2, x |-> MaxSetup]
          /\ f.tp <= MaxParam /\ f.td <= MaxData /\ setup.p + f.setup * 2 <= setup.e
          /\ setup.p \in Nat /\ setup.e \in 0..MaxSetup /\ param.p \in 0..MaxParam /\ data.p \in 0..MaxData
          /\ f.tp \in Nat /\ f.td \in Nat /\ f.setup * 2 \in Nat
      BY <2>1, <2>4, Opened
    <3>2. pm \in [0 .. MaxParam - 1 -> Byte] /\ dm \in [0 .. MaxData - 1 -> Byte]
      <4>1. MaxParam <= MaxParam + MaxData /\ MaxData <= MaxParam + MaxData
        BY <3>0
      <4>2. pmem \in [0 .. MaxParam - 1 -> Byte] /\ dmem \in [0 .. MaxData - 1 -> Byte]
        BY DEF TypeOK
      <4> QED
        BY <3>0, <4>1, <4>2, CopiedType
    <3>3. \/ setup' = s /\ param' = p /\ data' = d /\ UNCHANGED <<pmem, dmem>> /\ Finish("error")
          \/ /\ ~Outside(p, f.pdis, f.pcnt)
             /\ pmem' = pm /\ setup' = s /\ param' = p2 /\ data' = d /\ UNCHANGED dmem
             /\ Finish("error")
          \/ /\ ~Outside(p, f.pdis, f.pcnt) /\ ~Outside(d, f.ddis, f.dcnt)
             /\ pmem' = pm /\ dmem' = dm
             /\ \/ setup' = Rewound(s) /\ param' = Rewound(p2) /\ data' = Rewound(d2) /\ Finish("ok")
                \/ setup' = s /\ param' = p2 /\ data' = d2 /\ UNCHANGED <<pc, ret>>
      BY <2>4 DEF TakeFragment
    <3> HIDE DEF p, d, s, p2, d2, pm, dm
    <3>4. BufType(s, MaxSetup) /\ BufType(p, MaxParam) /\ BufType(d, MaxData)
      BY <3>0, <3>1 DEF BufType
    <3>5. ~Outside(p, f.pdis, f.pcnt) => BufType(p2, MaxParam)
      BY <3>0, <3>1, <3>4, MovedIs DEF BufType, p2
    <3>6. ~Outside(d, f.ddis, f.dcnt) => BufType(d2, MaxData)
      BY <3>0, <3>1, <3>4, MovedIs DEF BufType, d2
    <3>7. \A b : \A max \in Nat : BufType(b, max) => BufType(Rewound(b), max)
      BY DEF BufType, Rewound
    <3>8. BufType(setup', MaxSetup) /\ BufType(param', MaxParam) /\ BufType(data', MaxData)
      BY <3>0, <3>3, <3>4, <3>5, <3>6, <3>7
    <3>9. /\ pmem' \in [0 .. MaxParam - 1 -> Byte] /\ dmem' \in [0 .. MaxData - 1 -> Byte]
          /\ pc' \in {"idle", "recv"} /\ ret' \in {"none", "ok", "error"}
      BY <3>2, <3>3 DEF TypeOK, Finish
    <3> QED
      BY <2>1, <2>2, <3>8, <3>9 DEF TypeOK, BufType
  <2> QED
    BY <1>5, <2>3, <2>4 DEF Receive, f
<1>6. CASE UNCHANGED vars
  BY <1>6 DEF vars, TypeOK
<1> QED
  BY <1>1, <1>2, <1>3, <1>4, <1>5, <1>6 DEF Next

\* The buffers keep to their sizes and their cursors inside, and all else has its type,
\* whatever a server sends (cifs_trans_recv checks its displacements).
THEOREM TypeCorrect == Spec => []TypeOK
  BY TypeInit, TypeStep, PTL DEF Spec
-------------------------------------------------------------------------------
(* One reply at a time *)

\* The packets of a reply are the same as long as the transaction is.
LEMMA SameReply ==
    ASSUME UNCHANGED txn
    PROVE  /\ \A q, i, words, over : Piece(q, i, words, over)' = Piece(q, i, words, over)
           /\ Refusals' = Refusals
  BY DEF Piece, Refusals, Nothing

\* The request left the buffers open, and a server with a reply to send has none on its way.
LEMMA AnswerInv ==
    ASSUME InSequence, TypeOK, Waiting, Answer
    PROVE  Taking'
<1>1. PICK q \in Plans, over \in BOOLEAN :
      \E f \in Orders(Len(q)), words \in SetupWords(Len(q)) :
          /\ wire' \in Seq(Fragment) /\ Len(wire') = Len(wire) + Len(q)
          /\ \A j \in 1..Len(q) : wire'[Len(wire) + j] = Piece(q, f[j], words, over)
          /\ reply' = [ok |-> TRUE, p |-> q[Len(q)].p, d |-> q[Len(q)].d]
  BY AnswerSends
<1>2. PICK f \in Orders(Len(q)), words \in SetupWords(Len(q)) :
          /\ wire' \in Seq(Fragment) /\ Len(wire') = Len(wire) + Len(q)
          /\ \A j \in 1..Len(q) : wire'[Len(wire) + j] = Piece(q, f[j], words, over)
          /\ reply' = [ok |-> TRUE, p |-> q[Len(q)].p, d |-> q[Len(q)].d]
  BY <1>1
<1>3. Len(wire) = 0 /\ Len(q) \in Nat \ {0}
  BY PlanIs, EmptySeq DEF Waiting
<1>4. \A j \in 1..Len(q) : f[j] = j
  BY DEF Orders, InSequence
<1>5. \A j \in 1..Len(q) : wire'[j] = Piece(q, 0 + j, words, over)
  BY <1>2, <1>3, <1>4
<1>6. UNCHANGED <<txn, setup, param, data, pmem, dmem>> /\ asked' = FALSE
  BY DEF Answer
<1>7. Filled(q, 0, over)'
  BY <1>6 DEF Filled, Reach, Cleared, Waiting
<1>8. \A j \in 1..Len(wire') : wire'[j] = Piece(q, 0 + j, words, over)'
  BY <1>2, <1>3, <1>5, <1>6, SameReply
<1>9. Coming(q, 0, over, words)'
  BY <1>2, <1>3, <1>7, <1>8 DEF Coming
<1>10. 0 \in 0 .. Len(q) - 1
  BY <1>3
<1> QED
  BY <1>6, <1>9, <1>10 DEF Taking

LEMMA RefuseInv ==
    ASSUME TypeOK, Waiting, Refuse
    PROVE  Refusing'
<1>1. UNCHANGED <<txn, setup, param, data>> /\ asked' = FALSE /\ reply' = [ok |-> FALSE, p |-> 0, d |-> 0]
  BY DEF Refuse
<1>2. PICK r \in Refusals : wire' = Append(wire, r)
  BY DEF Refuse
<1>3. Len(wire') = 1 /\ wire'[1] = r
  BY <1>2 DEF Waiting
<1> QED
  BY <1>1, <1>3, SameReply DEF Refusing, Cleared, Waiting

\* A packet that breaks a rule ends the transaction, and nothing is left.
LEMMA RefusedInv ==
    ASSUME TypeOK, Refusing, Receive
    PROVE  pc' = "idle" /\ ret' = "error" /\ wire' = <<>> /\ UNCHANGED <<asked, reply, link>>
<1> DEFINE f == Head(wire)
<1>1. f \in Refusals /\ wire' = <<>> /\ UNCHANGED <<asked, reply, link>>
  <2>1. wire \in Seq(Fragment) /\ wire # <<>> /\ wire' = Tail(wire)
    BY DEF Receive, TypeOK
  <2>2. Len(wire') = 0 /\ wire' \in Seq(Fragment)
    BY <2>1, HeadTailProperties DEF Refusing
  <2>3. Head(wire) = wire[1]
    BY <2>1
  <2> QED
    BY <2>2, <2>3, EmptySeq DEF Receive, Refusing
<1>2. (~Acceptable(f) /\ Finish("error")) \/ (Acceptable(f) /\ TakeFragment(f))
  BY DEF Receive
<1> HIDE DEF f
<1>3. f \in Fragment
  BY <1>1, RefusalType
<1>4. /\ MaxSetup \in Nat /\ f.setup \in Nat /\ f.tp \in Nat /\ f.td \in Nat
      /\ f.pdis \in Nat /\ f.pcnt \in Nat /\ f.ddis \in Nat /\ f.dcnt \in Nat
  BY <1>3, TransactAssumption DEF Fragment
<1>5. CASE Acceptable(f) /\ TakeFragment(f)
  <2>1. ~f.err /\ f.cmd # "other" /\ f.tp <= MaxParam /\ f.td <= MaxData /\ f.setup * 2 <= MaxSetup
    <3>1. BufLeft(setup) = MaxSetup /\ BufSize(param) = MaxParam /\ BufSize(data) = MaxData
      BY <1>4 DEF Refusing, Cleared
    <3> QED
      BY <1>5, <3>1 DEF Acceptable
  <2>2. \/ f.pcnt > 0 /\ f.pdis + f.pcnt > f.tp
        \/ f.dcnt > 0 /\ f.ddis + f.dcnt > f.td
    <3>1. \/ f.err \/ f.cmd = "other" \/ f.tp > MaxParam \/ f.td > MaxData \/ f.setup > MaxSetup
          \/ f.tp <= MaxParam /\ f.pcnt > 0 /\ f.pdis + f.pcnt > f.tp
          \/ f.td <= MaxData /\ f.dcnt > 0 /\ f.ddis + f.dcnt > f.td
      BY <1>1, RefusalType
    <3>2. ~(f.tp > MaxParam) /\ ~(f.td > MaxData) /\ ~(f.setup > MaxSetup)
      BY <1>4, <2>1, TransactAssumption
    <3> QED
      BY <2>1, <3>1, <3>2
  <2>3. BufResize(param, f.tp).e = f.tp /\ BufResize(data, f.td).e = f.td
    <3>1. /\ BufResize(param, f.tp) = [p |-> param.p, e |-> f.tp, x |-> MaxParam]
          /\ BufResize(data, f.td) = [p |-> data.p, e |-> f.td, x |-> MaxData]
      BY <1>3, <1>5, Opened
    <3> QED
      BY <3>1
  <2>4. Outside(BufResize(param, f.tp), f.pdis, f.pcnt) \/ Outside(BufResize(data, f.td), f.ddis, f.dcnt)
    BY <2>2, <2>3 DEF Outside
  <2> QED
    BY <1>1, <1>5, <2>4 DEF TakeFragment, Finish
<1> QED
  BY <1>1, <1>2, <1>5 DEF Finish

\* Fragment i + 1 of a reply is taken.
LEMMA TakeInv ==
    ASSUME InSequence, TypeOK, NEW q \in Plans, NEW over \in BOOLEAN, NEW i \in 0 .. Len(q) - 1,
           NEW words \in SetupWords(Len(q)), Coming(q, i, over, words), ~asked, pc = "recv", Receive
    PROVE  /\ UNCHANGED <<asked, reply, link>>
           /\ \/ i + 1 < Len(q) /\ UNCHANGED <<pc, ret>> /\ Coming(q, i + 1, over, words)'
              \/ /\ pc' = "idle" /\ ret' = "ok" /\ wire' = <<>> /\ reply'.ok
                 /\ Holds(pmem, param, reply.p)' /\ Holds(dmem, data, reply.d)'
<1> DEFINE n == Len(q)
           k == i + 1
           f == Head(wire)
           sd == StatedData(q, k, over)
<1>1. /\ n \in Nat \ {0} /\ n \in 1..n /\ k \in 1..n /\ k - 1 = i /\ i \in Nat
      /\ MaxSetup \in Nat /\ MaxParam \in Nat /\ MaxData \in Nat
  BY PlanIs, TransactAssumption
<1>2. /\ q[k].p \in 0..MaxParam /\ q[k].d \in 0..MaxData
      /\ q[n].p \in 0..MaxParam /\ q[n].d \in 0..MaxData
  BY <1>1, PlanIs
<1>3. words[k] \in Nat /\ words[k] * 2 <= MaxSetup /\ (n > 1 => words[k] = 0)
  BY <1>1, WordsAre
<1>4. /\ UNCHANGED <<txn, asked, reply, link>> /\ wire' = Tail(wire)
      /\ (~Acceptable(f) /\ Finish("error") /\ UNCHANGED bufs) \/ (Acceptable(f) /\ TakeFragment(f))
  BY DEF Receive
<1>5. /\ Len(wire) = n - i /\ wire' \in Seq(Fragment) /\ Len(wire') = n - k /\ f \in Fragment
      /\ \A j \in 1..Len(wire') : wire'[j] = wire[j + 1]
  BY <1>1, HeadTailProperties DEF Receive, Coming, TypeOK
<1>6. f = Piece(q, k, words, over)
  <2>1. 1 \in 1..Len(wire) /\ Head(wire) = wire[1]
    BY <1>1, <1>5 DEF Receive, TypeOK
  <2>2. wire[1] = Piece(q, i + 1, words, over)
    BY <2>1 DEF Coming
  <2> QED
    BY <2>1, <2>2
<1> DEFINE a == Reach(q, i).p
           b == Reach(q, i).d
<1>7. /\ f = [cmd |-> "trans", err |-> FALSE, setup |-> words[k], txn |-> txn, tp |-> q[n].p, td |-> sd,
              pdis |-> a, pcnt |-> q[k].p - a, ddis |-> b, dcnt |-> q[k].d - b]
      /\ a \in 0 .. q[k].p /\ b \in 0 .. q[k].d
      /\ q[k].p <= q[n].p /\ q[k].d <= q[n].d /\ sd \in q[n].d .. MaxData
      /\ k = n => sd = q[n].d
      /\ k < n => q[k].p # q[n].p \/ q[k].d # sd
  BY <1>1, <1>6, PieceIs
<1>8. /\ f.cmd = "trans" /\ ~f.err /\ f.setup = words[k] /\ f.txn = txn /\ f.tp = q[n].p /\ f.td = sd
      /\ f.pdis = a /\ f.pcnt = q[k].p - a /\ f.ddis = b /\ f.dcnt = q[k].d - b
  BY <1>7
<1> DEFINE up == q[k].p
           ud == q[k].d
           tp == q[n].p
\* The numbers in play, all of them integers.
<1>num. /\ a \in Int /\ b \in Int /\ up \in Int /\ ud \in Int /\ tp \in Int /\ sd \in Int
        /\ 0 <= a /\ a <= up /\ up <= tp /\ up <= MaxParam
        /\ 0 <= b /\ b <= ud /\ ud <= sd /\ ud <= MaxData
        /\ k < n => up # tp \/ ud # sd
        /\ f.pdis = a /\ f.pcnt = up - a /\ f.ddis = b /\ f.dcnt = ud - b
  <2>1. /\ a \in 0 .. up /\ b \in 0 .. ud /\ up <= tp /\ ud <= q[n].d /\ sd \in q[n].d .. MaxData
    BY <1>7
  <2>2. up \in 0..MaxParam /\ ud \in 0..MaxData /\ tp \in 0..MaxParam /\ q[n].d \in 0..MaxData
    BY <1>2
  <2>3. k < n => up # tp \/ ud # sd
    BY <1>7
  <2>4. f.pdis = a /\ f.pcnt = up - a /\ f.ddis = b /\ f.dcnt = ud - b
    BY <1>8
  <2> HIDE DEF a, b, up, ud, tp, sd, f
  <2> QED
    BY <1>1, <2>1, <2>2, <2>3, <2>4
\* What the buffers are, in terms of the plan.
<1>9. /\ param.p = a /\ data.p = b /\ q[n].p <= param.e /\ sd <= data.e
      /\ setup.p = 0 /\ words[k] * 2 <= setup.e
  <2>1. CASE i = 0
    BY <1>1, <1>2, <1>3, <1>7, <2>1 DEF Coming, Filled, Cleared, Reach
  <2>2. CASE i # 0
    <3>1. i > 0 /\ n > 1 /\ i < n /\ i \in 1..n
      BY <1>1, <2>2
    <3>2. /\ setup = [p |-> 0, e |-> 0, x |-> MaxSetup]
          /\ param = [p |-> q[i].p, e |-> q[n].p, x |-> MaxParam]
          /\ data = [p |-> q[i].d, e |-> StatedData(q, i, over), x |-> MaxData]
      BY <3>1 DEF Coming, Filled
    <3>3. sd <= StatedData(q, i, over)
      BY <1>1, <1>2, <3>1 DEF StatedData
    <3> QED
      BY <1>2, <1>3, <2>2, <3>1, <3>2, <3>3 DEF Reach
  <2> QED
    BY <2>1, <2>2
<1> DEFINE p == BufResize(param, f.tp)
           d == BufResize(data, f.td)
           s == BufInc(BufResize(setup, f.setup * 2), f.setup * 2)
           p2 == Moved(p, f.pdis, f.pcnt)
           d2 == Moved(d, f.ddis, f.dcnt)
<1> HIDE DEF f, n, k, a, b, sd, up, ud, tp
<1>10. Acceptable(f)
  <2>1. f.setup * 2 <= BufLeft(setup)
    BY <1>3, <1>8, <1>9, BufTypes DEF BufType
  <2> QED
    BY <1>8, <1>9, <2>1 DEF Acceptable
<1>11. TakeFragment(f)
  BY <1>4, <1>10
<1>12. /\ p = [p |-> a, e |-> q[n].p, x |-> MaxParam] /\ d = [p |-> b, e |-> sd, x |-> MaxData]
       /\ s = [p |-> words[k] * 2, e |-> words[k] * 2, x |-> MaxSetup]
  <2>1. /\ p = [p |-> param.p, e |-> f.tp, x |-> MaxParam]
        /\ d = [p |-> data.p, e |-> f.td, x |-> MaxData]
        /\ s = [p |-> setup.p + f.setup * 2, e |-> f.setup * 2, x |-> MaxSetup]
    BY <1>5, <1>10, Opened
  <2>2. setup.p + f.setup * 2 = words[k] * 2
    BY <1>3, <1>8, <1>9
  <2> HIDE DEF p, d, s
  <2> QED
    BY <1>8, <1>9, <2>1, <2>2
<1> HIDE DEF p, d, s
<1>13. ~Outside(p, f.pdis, f.pcnt) /\ ~Outside(d, f.ddis, f.dcnt)
  <2>1. p.e = tp /\ d.e = sd
    BY <1>12 DEF tp
  <2> QED
    BY <1>num, <2>1 DEF Outside
<1>14. p2 = [p |-> q[k].p, e |-> q[n].p, x |-> MaxParam] /\ d2 = [p |-> q[k].d, e |-> sd, x |-> MaxData]
  <2>1. f.pcnt > 0 \/ a = q[k].p
    BY <1>2, <1>7, <1>8
  <2>2. f.dcnt > 0 \/ b = q[k].d
    BY <1>2, <1>7, <1>8
  <2>3. f.pdis + f.pcnt = q[k].p /\ f.ddis + f.dcnt = q[k].d
    BY <1>2, <1>7, <1>8
  <2> QED
    BY <1>12, <2>1, <2>2, <2>3 DEF Moved
<1> HIDE DEF p2, d2
<1>15. /\ pmem' = Copied(pmem, f.txn, f.pdis, f.pcnt) /\ dmem' = Copied(dmem, f.txn, f.ddis, f.dcnt)
       /\ \/ /\ Complete(p2, d2) /\ setup' = Rewound(s) /\ param' = Rewound(p2) /\ data' = Rewound(d2)
             /\ Finish("ok")
          \/ /\ ~Complete(p2, d2) /\ setup' = s /\ param' = p2 /\ data' = d2
             /\ UNCHANGED <<pc, ret>>
  BY <1>11, <1>13 DEF TakeFragment, p, d, s, p2, d2
<1>16. Complete(p2, d2) <=> k = n
  <2>1. /\ BufLeft(p2) = q[n].p - q[k].p /\ BufLeft(d2) = sd - q[k].d
    BY <1>14
  <2>2. CASE k = n
    BY <1>2, <1>7, <2>1, <2>2 DEF Complete
  <2>3. CASE k # n
    <3>1. k < n
      BY <1>1, <2>3
    <3>2. tp - up # 0 \/ sd - ud # 0
      BY <1>num, <3>1
    <3> QED
      BY <2>1, <2>3, <3>2 DEF Complete, tp, up, ud
  <2> QED
    BY <2>2, <2>3
\* The bytes that are there.
<1>17. \A j \in 0 .. q[k].p - 1 : pmem'[j] = <<txn, j>>
  <2> SUFFICES ASSUME NEW j \in 0 .. q[k].p - 1 PROVE pmem'[j] = <<txn, j>>
    OBVIOUS
  <2>1. j \in DOMAIN pmem
    <3>1. DOMAIN pmem = 0 .. MaxParam - 1
      BY DEF TypeOK
    <3>2. j \in 0 .. up - 1
      BY DEF up
    <3> QED
      BY <1>1, <1>num, <3>1, <3>2
  <2>2. pmem'[j] = IF j \in f.pdis .. f.pdis + f.pcnt - 1 THEN <<f.txn, j>> ELSE pmem[j]
    BY <1>15, <2>1 DEF Copied
  <2>3. j \in 0 .. a - 1 \/ j \in f.pdis .. f.pdis + f.pcnt - 1
    BY <1>2, <1>7, <1>8
  <2>4. j \in 0 .. a - 1 => pmem[j] = <<txn, j>>
    BY DEF Coming, Filled, a
  <2> QED
    BY <1>8, <2>2, <2>3, <2>4
<1>18. \A j \in 0 .. q[k].d - 1 : dmem'[j] = <<txn, j>>
  <2> SUFFICES ASSUME NEW j \in 0 .. q[k].d - 1 PROVE dmem'[j] = <<txn, j>>
    OBVIOUS
  <2>1. j \in DOMAIN dmem
    <3>1. DOMAIN dmem = 0 .. MaxData - 1
      BY DEF TypeOK
    <3>2. j \in 0 .. ud - 1
      BY DEF ud
    <3> QED
      BY <1>1, <1>num, <3>1, <3>2
  <2>2. dmem'[j] = IF j \in f.ddis .. f.ddis + f.dcnt - 1 THEN <<f.txn, j>> ELSE dmem[j]
    BY <1>15, <2>1 DEF Copied
  <2>3. j \in 0 .. b - 1 \/ j \in f.ddis .. f.ddis + f.dcnt - 1
    BY <1>2, <1>7, <1>8
  <2>4. j \in 0 .. b - 1 => dmem[j] = <<txn, j>>
    BY DEF Coming, Filled, b
  <2> QED
    BY <1>8, <2>2, <2>3, <2>4
<1>19. reply' = [ok |-> TRUE, p |-> q[n].p, d |-> q[n].d]
  BY <1>4 DEF Coming, n
<1>20. CASE k = n
  <2>1. /\ param' = Rewound(p2) /\ data' = Rewound(d2) /\ pc' = "idle" /\ ret' = "ok"
    BY <1>15, <1>16, <1>20 DEF Finish
  <2>2. BufSize(param') = q[n].p /\ BufSize(data') = q[n].d
    BY <1>7, <1>14, <1>20, <2>1 DEF Rewound
  <2>3. wire' = <<>>
    BY <1>1, <1>5, <1>20, EmptySeq
  <2> QED
    BY <1>4, <1>17, <1>18, <1>19, <1>20, <2>1, <2>2, <2>3 DEF Holds
<1>21. CASE k # n
  <2>1. k < n /\ n > 1 /\ k > 0 /\ k # 0
    BY <1>1, <1>21
  <2>2. setup' = s /\ param' = p2 /\ data' = d2 /\ UNCHANGED <<pc, ret>>
    BY <1>15, <1>16, <1>21
  <2>3. s = [p |-> 0, e |-> 0, x |-> MaxSetup]
    BY <1>3, <1>12, <2>1
  <2>4. Filled(q, k, over)'
    BY <1>4, <1>14, <1>17, <1>18, <2>1, <2>2, <2>3 DEF Filled, Reach, n, sd
  <2>5. \A j \in 1..Len(wire') : wire'[j] = Piece(q, k + j, words, over)
    <3> SUFFICES ASSUME NEW j \in 1..Len(wire') PROVE wire'[j] = Piece(q, k + j, words, over)
      OBVIOUS
    <3>1. j + 1 \in 1..Len(wire) /\ i + (j + 1) = k + j
      BY <1>1, <1>5 DEF k
    <3>2. wire[j + 1] = Piece(q, i + (j + 1), words, over)
      BY <3>1 DEF Coming
    <3> QED
      BY <1>5, <3>1, <3>2
  <2>6. Coming(q, k, over, words)'
    <3>1. \A j \in 1..Len(wire') : wire'[j] = Piece(q, k + j, words, over)'
      BY <1>4, <2>5, SameReply
    <3> QED
      BY <1>5, <1>19, <2>4, <3>1 DEF Coming, n
  <2> QED
    BY <1>4, <2>1, <2>2, <2>6 DEF k, n
<1> QED
  BY <1>20, <1>21

LEMMA OneReplyInit ==
    ASSUME Init
    PROVE  OneReply
  BY DEF Init, OneReply, InSync, ReplyWhole, Accepted

LEMMA OneReplyStep ==
    ASSUME InSequence, TypeOK, OneReply, [Next]_vars
    PROVE  OneReply'
<1>1. ASSUME Answer PROVE OneReply'
  <2>1. asked /\ asked' = FALSE /\ UNCHANGED <<link, param, data, pmem, dmem, txn, pc, ret>>
    BY <1>1 DEF Answer
  <2>2. CASE link = "dead"
    BY <2>1, <2>2 DEF OneReply, InSync, ReplyWhole, Accepted
  <2>3. CASE link = "up"
    <3>1. pc = "recv"
      BY <2>1, <2>3 DEF OneReply, InSync, TypeOK
    <3>2. Waiting
      BY <2>1, <2>3, <3>1 DEF OneReply, Taking, Refusing
    <3>3. Taking'
      BY <1>1, <3>2, AnswerInv
    <3> QED
      BY <2>1, <2>3, <3>1, <3>3 DEF OneReply, InSync, ReplyWhole, Accepted
  <2> QED
    BY <2>2, <2>3 DEF TypeOK
<1>2. ASSUME Refuse PROVE OneReply'
  <2>1. asked /\ asked' = FALSE /\ UNCHANGED <<link, pc, ret>>
    BY <1>2 DEF Refuse
  <2>2. CASE link = "dead"
    BY <2>1, <2>2 DEF OneReply, InSync, ReplyWhole, Accepted
  <2>3. CASE link = "up"
    <3>1. pc = "recv"
      BY <2>1, <2>3 DEF OneReply, InSync, TypeOK
    <3>2. Waiting
      BY <2>1, <2>3, <3>1 DEF OneReply, Taking, Refusing
    <3>3. Refusing'
      BY <1>2, <3>2, RefuseInv
    <3> QED
      BY <2>1, <2>3, <3>1, <3>3 DEF OneReply, InSync, ReplyWhole, Accepted
  <2> QED
    BY <2>2, <2>3 DEF TypeOK
<1>3. ASSUME Request PROVE OneReply'
  <2>1. pc = "idle" /\ link = "up" /\ pc' = "recv" /\ asked' = TRUE /\ UNCHANGED <<wire, link>>
    BY <1>3 DEF Request
  <2>2. wire' = <<>>
    BY <2>1 DEF OneReply, InSync
  <2>3. Cleared'
    BY <1>3, RequestClears
  <2> QED
    BY <2>1, <2>2, <2>3 DEF OneReply, InSync, ReplyWhole, Accepted, Waiting
<1>4. ASSUME RecvFails PROVE OneReply'
  BY <1>4 DEF RecvFails, Finish, OneReply, InSync, ReplyWhole, Accepted
<1>5. ASSUME Receive PROVE OneReply'
  <2>1. pc = "recv" /\ link = "up" /\ wire # <<>>
    BY <1>5 DEF Receive
  <2>2. Taking \/ Refusing
    BY <2>1 DEF OneReply, Waiting
  <2>3. CASE Taking
    <3>1. PICK q \in Plans, over \in BOOLEAN :
          \E i \in 0 .. Len(q) - 1, words \in SetupWords(Len(q)) : Coming(q, i, over, words)
      BY <2>3 DEF Taking
    <3>2. PICK i \in 0 .. Len(q) - 1, words \in SetupWords(Len(q)) : Coming(q, i, over, words)
      BY <3>1
    <3>3. ~asked
      BY <2>3 DEF Taking
    <3>4. /\ UNCHANGED <<asked, reply, link>>
          /\ \/ i + 1 < Len(q) /\ UNCHANGED <<pc, ret>> /\ Coming(q, i + 1, over, words)'
             \/ /\ pc' = "idle" /\ ret' = "ok" /\ wire' = <<>> /\ reply'.ok
                /\ Holds(pmem, param, reply.p)' /\ Holds(dmem, data, reply.d)'
      BY <1>5, <2>1, <3>2, <3>3, TakeInv
    <3>5. CASE i + 1 < Len(q) /\ UNCHANGED <<pc, ret>> /\ Coming(q, i + 1, over, words)'
      <4>1. i + 1 \in 0 .. Len(q) - 1
        BY <3>5, PlanIs
      <4>2. Taking'
        BY <3>3, <3>4, <3>5, <4>1 DEF Taking
      <4> QED
        BY <2>1, <3>4, <3>5, <4>2 DEF OneReply, InSync, ReplyWhole, Accepted
    <3>6. CASE /\ pc' = "idle" /\ ret' = "ok" /\ wire' = <<>> /\ reply'.ok
               /\ Holds(pmem, param, reply.p)' /\ Holds(dmem, data, reply.d)'
      BY <2>1, <3>3, <3>4, <3>6 DEF OneReply, InSync, ReplyWhole, Accepted
    <3> QED
      BY <3>4, <3>5, <3>6
  <2>4. CASE Refusing
    <3>1. pc' = "idle" /\ ret' = "error" /\ wire' = <<>> /\ UNCHANGED <<asked, reply, link>>
      BY <1>5, <2>4, RefusedInv
    <3> QED
      BY <2>1, <2>4, <3>1 DEF OneReply, InSync, ReplyWhole, Accepted, Refusing
  <2> QED
    BY <2>2, <2>3, <2>4
<1>6. CASE UNCHANGED vars
  <2>1. /\ UNCHANGED <<txn, asked, reply, wire, link, setup, param, data, pmem, dmem, pc, ret>>
        /\ \A q, i, words, over : Piece(q, i, words, over)' = Piece(q, i, words, over)
        /\ Refusals' = Refusals
    BY <1>6, SameReply DEF vars
  <2>2. Cleared' <=> Cleared
    BY <2>1 DEF Cleared
  <2>3. \A q, over, i, words : Coming(q, i, over, words) => Coming(q, i, over, words)'
    BY <2>1 DEF Coming, Filled, Reach, Cleared
  <2>4. Taking => Taking'
    BY <2>1, <2>3 DEF Taking
  <2>5. (Waiting => Waiting') /\ (Refusing => Refusing')
    BY <2>1, <2>2 DEF Waiting, Refusing
  <2>6. InSync' /\ ReplyWhole' /\ Accepted'
    BY <2>1 DEF OneReply, InSync, ReplyWhole, Accepted, Holds
  <2> QED
    BY <2>1, <2>4, <2>5, <2>6 DEF OneReply
<1> QED
  BY <1>1, <1>2, <1>3, <1>4, <1>5, <1>6 DEF Next

\* Between transactions nothing is on its way; in one, the packets that are on
\* their way are the rest of its reply, and the buffers hold exactly what came
\* before them (cifs_trans_recv). Fragments out of sequence break this (the run
\* TransactReordered), as the loop takes the end of its buffers for the last one.
THEOREM InvCorrect == ASSUME InSequence PROVE Spec => []IInv
<1>1. Init => IInv
  BY TypeInit, OneReplyInit DEF IInv
<1>2. IInv /\ [Next]_vars => IInv'
  BY TypeStep, OneReplyStep DEF IInv
<1> QED
  BY <1>1, <1>2, PTL DEF Spec

\* A transaction that ends well has the whole reply to its own request, each byte
\* at its place, for every division of the reply into fragments.
THEOREM WholeCorrect == ASSUME InSequence PROVE Spec => []ReplyWhole
<1>1. IInv => ReplyWhole
  BY DEF IInv, OneReply
<1> QED
  BY <1>1, InvCorrect, PTL

\* While the link holds, no transaction leaves a fragment behind for the next one.
THEOREM InSyncCorrect == ASSUME InSequence PROVE Spec => []InSync
<1>1. IInv => InSync
  BY DEF IInv, OneReply
<1> QED
  BY <1>1, InvCorrect, PTL

\* While the link holds, a reply within the limits of the request is taken.
THEOREM AcceptedCorrect == ASSUME InSequence PROVE Spec => []Accepted
<1>1. IInv => Accepted
  BY DEF IInv, OneReply
<1> QED
  BY <1>1, InvCorrect, PTL
===============================================================================
