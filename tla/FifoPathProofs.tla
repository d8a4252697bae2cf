--------------------------- MODULE FifoPathProofs ---------------------------
(***************************************************************************)
(* Theorems about FifoPath, for packets, FIFOs and runs of any length.     *)
(*                                                                         *)
(* How many words are owed to the readers is a matter of counting          *)
(* (CountInv).  Where packets begin follows from it: the words in the FIFO *)
(* follow one another as they were written, and what the readers have      *)
(* still to read brings the first one back to the begin of a packet        *)
(* (OrderInv).                                                             *)
(***************************************************************************)
EXTENDS FifoPath, SequencesExt,
        SequenceTheorems, FiniteSetTheorems, WellFoundedInduction, TLAPS

-----------------------------------------------------------------------------
(* Numbers.                                                                *)

\* Every set of natural numbers but the empty one has a least element.
LEMMA LeastNumber ==
  ASSUME NEW T \in SUBSET Nat, T # {}
  PROVE  \E x \in T : \A y \in T : x <= y
<1> DEFINE below(n) == 1 .. n
           U == {below(n) : n \in T}
<1>1. U \subseteq FiniteSubsetsOf(Nat)
  <2>1. ASSUME NEW n \in T PROVE below(n) \subseteq Nat /\ IsFiniteSet(below(n))
    BY FS_Interval
  <2> QED BY <2>1 DEF FiniteSubsetsOf
<1>2. PICK S \in U : \A V \in U : ~(<<V, S>> \in StrictSubsetOrdering(Nat))
  <2> HIDE DEF U
  <2>1. U # {}
    BY DEF U
  <2>2. IsWellFoundedOn(StrictSubsetOrdering(Nat), FiniteSubsetsOf(Nat))
    BY FS_StrictSubsetOrderingWellFounded
  <2> QED BY <2>1, <2>2, <1>1, WFMin
<1>3. PICK x \in T : S = below(x)
  OBVIOUS
<1>4. ASSUME NEW y \in T PROVE x <= y
  <2> SUFFICES ASSUME y < x PROVE FALSE
    OBVIOUS
  <2>1. below(y) \subseteq below(x) /\ x \in below(x) /\ x \notin below(y)
    OBVIOUS
  <2>2. below(y) \subseteq Nat /\ below(x) \subseteq Nat
    OBVIOUS
  <2>3. below(y) \in U
    OBVIOUS
  <2>4. <<below(y), below(x)>> \in StrictSubsetOrdering(Nat)
    <3> HIDE DEF below
    <3> QED BY <2>1, <2>2 DEF StrictSubsetOrdering
  <2> QED BY <1>2, <1>3, <2>3, <2>4
<1> QED BY <1>4

\* A set that has 0, and with each number below n the next, has all up to n.
LEMMA UpTo ==
  ASSUME NEW n \in Nat, NEW S, 0 \in S, \A k \in 0 .. n - 1 : k \in S => k + 1 \in S
  PROVE  \A k \in 0 .. n : k \in S
<1> DEFINE T == {k \in 0 .. n : k \notin S}
<1> SUFFICES ASSUME T # {} PROVE FALSE
  OBVIOUS
<1>1. PICK x \in T : \A y \in T : x <= y
  <2>1. T \in SUBSET Nat
    OBVIOUS
  <2> HIDE DEF T
  <2> QED BY <2>1, LeastNumber
<1>2. x - 1 \in 0 .. n - 1 /\ x - 1 \notin T
  BY <1>1
<1> QED BY <1>2

-----------------------------------------------------------------------------
(* Sums.                                                                   *)

\* f is the running sum of s.
Sums(f, s) ==
  /\ f[0] = 0
  /\ \A k \in 1 .. Len(s) : f[k] = f[k - 1] + s[k]

\* Running sums agree.
LEMMA SumsAgree ==
  ASSUME NEW s \in Seq(Nat), NEW f, NEW g, Sums(f, s), Sums(g, s)
  PROVE  f[Len(s)] = g[Len(s)]
<1> DEFINE n == Len(s)
           T == {k \in 0 .. n : f[k] = g[k]}
<1>1. n \in Nat
  BY LenProperties
<1> HIDE DEF n
<1>2. ASSUME NEW k \in 0 .. n - 1, k \in T PROVE k + 1 \in T
  <2>1. k + 1 \in 1 .. n /\ k + 1 - 1 = k
    BY <1>1
  <2>2. f[k + 1] = f[k] + s[k + 1] /\ g[k + 1] = g[k] + s[k + 1]
    BY <2>1 DEF Sums, n
  <2>3. f[k] = g[k]
    BY <1>2
  <2> QED BY <2>1, <2>2, <2>3, <1>1
<1>3. 0 \in T
  BY <1>1 DEF Sums
<1> HIDE DEF T
<1>4. \A k \in 0 .. n : k \in T
  BY <1>1, <1>2, <1>3, UpTo
<1>5. n \in T
  BY <1>1, <1>4
<1> QED BY <1>5 DEF T, n

\* Total is the last of the running sums, which are numbers.
LEMMA TotalSums ==
  ASSUME NEW s \in Seq(Nat)
  PROVE  \E f : /\ Sums(f, s) /\ Total(s) = f[Len(s)]
                /\ \A k \in 0 .. Len(s) : f[k] \in Nat
<1> DEFINE n == Len(s)
           Is(f, m) == f = [k \in 0 .. m |-> IF k = 0 THEN 0 ELSE f[k - 1] + s[k]]
           C == CHOOSE f : Is(f, n)
           T == {m \in 0 .. n : \E f : Is(f, m)}
<1>1. n \in Nat /\ \A k \in 1 .. n : s[k] \in Nat
  BY LenProperties, ElementOfSeq
<1>2. Total(s) = C[n]
  BY DEF Total
<1> HIDE DEF n
<1>3. 0 \in T
  <2>1. Is([k \in 0 .. 0 |-> 0], 0)
    OBVIOUS
  <2> HIDE DEF Is
  <2> QED BY <2>1, <1>1
<1>4. ASSUME NEW k \in 0 .. n - 1, k \in T PROVE k + 1 \in T
  <2>1. PICK f : Is(f, k)
    BY <1>4
  <2> DEFINE g == [j \in 0 .. k + 1 |-> IF j = k + 1 THEN f[k] + s[k + 1] ELSE f[j]]
  <2>2. \A j \in 0 .. k + 1 : g[j] = IF j = 0 THEN 0 ELSE g[j - 1] + s[j]
    <3> SUFFICES ASSUME NEW j \in 0 .. k + 1
                 PROVE g[j] = IF j = 0 THEN 0 ELSE g[j - 1] + s[j]
      OBVIOUS
    <3>1. CASE j = k + 1
      <4>1. j # 0 /\ j - 1 = k /\ k \in 0 .. k + 1 /\ k # k + 1
        BY <3>1, <1>1
      <4>2. g[j] = f[k] + s[k + 1] /\ g[k] = f[k]
        BY <4>1, <3>1
      <4> HIDE DEF g
      <4> QED BY <4>1, <4>2, <3>1
    <3>2. CASE j # k + 1
      <4>1. j \in 0 .. k /\ g[j] = f[j]
        BY <3>2, <1>1
      <4>2. f[j] = IF j = 0 THEN 0 ELSE f[j - 1] + s[j]
        BY <4>1, <2>1
      <4>3. j # 0 => g[j - 1] = f[j - 1]
        BY <4>1, <1>1
      <4> HIDE DEF g
      <4> QED BY <4>1, <4>2, <4>3
    <3> QED BY <3>1, <3>2
  <2>3. g = [j \in 0 .. k + 1 |-> g[j]]
    OBVIOUS
  <2>4. Is(g, k + 1)
    <3> HIDE DEF g
    <3> QED BY <2>2, <2>3
  <2> HIDE DEF Is, g
  <2> QED BY <2>4, <1>1
<1>5. Is(C, n)
  <2> HIDE DEF Is
  <2>1. n \in T
    <3> HIDE DEF T
    <3>1. \A k \in 0 .. n : k \in T
      BY <1>1, <1>3, <1>4, UpTo
    <3> QED BY <3>1, <1>1
  <2>2. \E f : Is(f, n)
    BY <2>1
  <2> QED BY <2>2
<1> HIDE DEF C
<1>6. C[0] = 0 /\ \A k \in 1 .. n : C[k] = C[k - 1] + s[k]
  BY <1>5, <1>1
<1> HIDE DEF Is, T
<1>7. \A k \in 0 .. n : k \in {j \in 0 .. n : C[j] \in Nat}
  <2> DEFINE N == {j \in 0 .. n : C[j] \in Nat}
  <2>1. ASSUME NEW k \in 0 .. n - 1, k \in N PROVE k + 1 \in N
    <3>1. k + 1 \in 1 .. n /\ k + 1 - 1 = k
      BY <1>1
    <3>2. C[k + 1] = C[k] + s[k + 1] /\ s[k + 1] \in Nat
      BY <3>1, <1>6, <1>1
    <3> QED BY <3>1, <3>2, <2>1
  <2>2. 0 \in N
    BY <1>1, <1>6
  <2> HIDE DEF N
  <2>3. \A k \in 0 .. n : k \in N
    BY <1>1, <2>1, <2>2, UpTo
  <2> QED BY <2>3 DEF N
<1> QED BY <1>2, <1>6, <1>7 DEF Sums, n

\* No lengths add up to 0, and no sum of lengths is less.
LEMMA TotalIsNat ==
  ASSUME NEW s \in Seq(Nat)
  PROVE  Total(s) \in Nat /\ (s = <<>> => Total(s) = 0)
<1>1. PICK f : /\ Sums(f, s) /\ Total(s) = f[Len(s)]
               /\ \A k \in 0 .. Len(s) : f[k] \in Nat
  BY TotalSums
<1>2. Len(s) \in Nat /\ (s = <<>> => Len(s) = 0)
  BY LenProperties, EmptySeq
<1> QED BY <1>1, <1>2 DEF Sums

\* A length is announced.
LEMMA TotalAppend ==
  ASSUME NEW s \in Seq(Nat), NEW x \in Nat
  PROVE  Total(Append(s, x)) = Total(s) + x
<1>1. PICK f : /\ Sums(f, s) /\ Total(s) = f[Len(s)]
  BY TotalSums
<1> DEFINE t == Append(s, x)
           n == Len(s)
           g == [k \in 0 .. n + 1 |-> IF k = n + 1 THEN f[n] + x ELSE f[k]]
<1>2. /\ t \in Seq(Nat) /\ Len(t) = n + 1 /\ n \in Nat
      /\ \A k \in 1 .. n : t[k] = s[k]
      /\ t[n + 1] = x
  BY AppendProperties, LenProperties
<1> HIDE DEF t
<1>3. Sums(g, t)
  <2>1. g[0] = 0
    BY <1>1, <1>2 DEF Sums
  <2>2. ASSUME NEW k \in 1 .. n + 1 PROVE g[k] = g[k - 1] + t[k]
    <3>1. CASE k = n + 1
      <4>1. g[k] = f[n] + x /\ g[k - 1] = f[n]
        BY <3>1, <1>2
      <4> HIDE DEF g
      <4> QED BY <4>1, <1>2, <3>1
    <3>2. CASE k # n + 1
      <4>1. k \in 1 .. n /\ g[k] = f[k] /\ g[k - 1] = f[k - 1]
        BY <3>2, <1>2
      <4>2. f[k] = f[k - 1] + s[k]
        BY <4>1, <1>1 DEF Sums
      <4> HIDE DEF g
      <4> QED BY <4>1, <4>2, <1>2
    <3> QED BY <3>1, <3>2
  <2> HIDE DEF g
  <2> QED BY <2>1, <2>2, <1>2 DEF Sums
<1>4. g[n + 1] = f[n] + x
  BY <1>2
<1>5. PICK h : Sums(h, t) /\ Total(t) = h[Len(t)]
  BY <1>2, TotalSums
<1> HIDE DEF g
<1>6. h[Len(t)] = g[Len(t)]
  BY <1>2, <1>3, <1>5, SumsAgree
<1> QED BY <1>1, <1>2, <1>4, <1>5, <1>6 DEF t

\* A length is read.
LEMMA TotalTail ==
  ASSUME NEW s \in Seq(Nat), s # <<>>
  PROVE  Total(s) = Head(s) + Total(Tail(s))
<1>1. PICK f : /\ Sums(f, s) /\ Total(s) = f[Len(s)]
               /\ \A k \in 0 .. Len(s) : f[k] \in Nat
  BY TotalSums
<1> DEFINE t == Tail(s)
           n == Len(s)
           g == [k \in 0 .. n - 1 |-> f[k + 1] - s[1]]
<1>2. /\ t \in Seq(Nat) /\ Len(t) = n - 1 /\ n \in Nat \ {0}
      /\ \A k \in 1 .. n - 1 : t[k] = s[k + 1]
      /\ Head(s) = s[1] /\ s[1] \in Nat
  BY HeadTailProperties, LenProperties, EmptySeq, ElementOfSeq
<1> HIDE DEF t
<1>3. f[1] = s[1]
  <2>1. f[1] = f[0] + s[1] /\ f[0] = 0
    BY <1>1, <1>2 DEF Sums
  <2> QED BY <2>1, <1>2
<1>4. Sums(g, t)
  <2>1. g[0] = 0
    BY <1>3, <1>2
  <2>2. ASSUME NEW k \in 1 .. n - 1 PROVE g[k] = g[k - 1] + t[k]
    <3>1. g[k] = f[k + 1] - s[1] /\ g[k - 1] = f[k] - s[1]
      BY <1>2
    <3>2. f[k + 1] = f[k] + s[k + 1] /\ f[k] \in Nat /\ f[k + 1] \in Nat
      <4>1. k + 1 \in 1 .. n /\ k + 1 - 1 = k /\ k \in 0 .. n /\ k + 1 \in 0 .. n
        BY <1>2
      <4> QED BY <4>1, <1>1 DEF Sums
    <3>3. t[k] = s[k + 1] /\ s[k + 1] \in Nat
      BY <1>2, ElementOfSeq
    <3>4. s[1] \in Nat
      BY <1>2
    <3> HIDE DEF g, n
    <3> QED BY <3>1, <3>2, <3>3, <3>4
  <2> HIDE DEF g
  <2> QED BY <2>1, <2>2, <1>2 DEF Sums
<1>5. g[n - 1] = f[n] - s[1]
  BY <1>2
<1>6. PICK h : Sums(h, t) /\ Total(t) = h[Len(t)]
  BY <1>2, TotalSums
<1> HIDE DEF g
<1>7. h[Len(t)] = g[Len(t)]
  BY <1>2, <1>4, <1>6, SumsAgree
<1>8. f[n] \in Nat
  BY <1>1, <1>2
<1> QED BY <1>1, <1>2, <1>5, <1>6, <1>7, <1>8 DEF t

-----------------------------------------------------------------------------
(* How many words are left to each reader.                                 *)

EmitterDue == IF epc = "words" THEN Words - Len(ebuf) ELSE 0
ReaderDue(r) == IF rpc[r] = "words" THEN left[r] ELSE 0
Due == EmitterDue + ReaderDue("clear") + ReaderDue("tool")

\* A reader that reads words has some left, and all they have left is covered
\* by complete packets.
CountInv ==
  /\ TypeOK
  /\ next > 0 => ev > 0
  /\ epc = "words" => Len(ebuf) < Words
  /\ \A r \in Readers : rpc[r] = "words" => left[r] > 0
  /\ NoUnderflow

\* The invariant in numbers.
LEMMA Counts ==
  ASSUME CountInv
  PROVE  /\ Words \in Nat \ {0} /\ Depth \in Nat
         /\ Len(data) \in Nat /\ open \in Nat /\ Total(lens) \in Nat /\ Len(ebuf) \in Nat
         /\ EmitterDue \in Nat /\ \A r \in Readers : ReaderDue(r) \in Nat
         /\ Due \in Nat
         /\ Due + Total(lens) + open <= Len(data)
<1>1. Words \in Nat \ {0} /\ Depth \in Nat
  BY FifoAssumption DEF FifoAssumption
<1>2. Len(data) \in Nat /\ open \in Nat /\ Len(ebuf) \in Nat
  BY <1>1, LenProperties DEF CountInv, TypeOK
<1>3. Total(lens) \in Nat
  <2>1. lens \in Seq(Nat)
    <3>1. 1 .. Depth \subseteq Nat /\ lens \in Seq(1 .. Depth)
      BY <1>1 DEF CountInv, TypeOK
    <3> QED BY <3>1, SeqMonotonic
  <2> QED BY <2>1, TotalIsNat
<1>4. EmitterDue \in Nat
  BY <1>1, <1>2 DEF CountInv, EmitterDue
<1>5. ASSUME NEW r \in Readers PROVE ReaderDue(r) \in Nat
  <2>1. left[r] \in Nat
    BY <1>1 DEF CountInv, TypeOK
  <2> QED BY <2>1 DEF ReaderDue
<1>6. ReaderDue("clear") \in Nat /\ ReaderDue("tool") \in Nat
  BY <1>5 DEF Readers
<1>7. Due + Total(lens) <= Rdfo
  BY DEF CountInv, NoUnderflow, Due, EmitterDue, ReaderDue
<1>8. Due \in Nat
  BY <1>4, <1>6 DEF Due
<1>9. Due + Total(lens) + open <= Len(data)
  BY <1>2, <1>3, <1>7, <1>8 DEF Rdfo
<1> QED BY <1>1, <1>2, <1>3, <1>4, <1>5, <1>8, <1>9

\* The same the other way round, after a step.
LEMMA Covered ==
  ASSUME Len(data)' \in Nat, open' \in Nat, Total(lens)' \in Nat, Due' \in Nat,
         Due' + Total(lens)' + open' <= Len(data)'
  PROVE  NoUnderflow'
<1>1. Due' + Total(lens)' <= Rdfo'
  BY DEF Rdfo
<1> QED BY <1>1 DEF NoUnderflow, Due, EmitterDue, ReaderDue

\* What a step leaves alone keeps what is due.
LEMMA DueKept ==
  ASSUME UNCHANGED <<epc, ebuf>>
  PROVE  EmitterDue' = EmitterDue
BY DEF EmitterDue

\* A length that is read was the first, or 0 where none was left.
LEMMA LengthTaken ==
  ASSUME CountInv
  PROVE  /\ Rlr \in 0 .. Depth
         /\ DropLength \in Seq(1 .. Depth)
         /\ Total(DropLength) \in Nat
         /\ Total(lens) = Rlr + Total(DropLength)
         /\ Rlr = 0 <=> lens = <<>>
<1>1. Depth \in Nat /\ lens \in Seq(1 .. Depth) /\ 1 .. Depth \subseteq Nat
  BY FifoAssumption DEF FifoAssumption, CountInv, TypeOK
<1>2. lens \in Seq(Nat)
  BY <1>1, SeqMonotonic
<1>3. CASE lens = <<>>
  <2>1. Rlr = 0 /\ DropLength = lens
    BY <1>3 DEF Rlr, DropLength
  <2>2. Total(lens) = 0
    BY <1>2, <1>3, TotalIsNat
  <2> QED BY <2>1, <2>2, <1>1, <1>3
<1>4. CASE lens # <<>>
  <2>1. Rlr = Head(lens) /\ DropLength = Tail(lens)
    BY <1>4 DEF Rlr, DropLength
  <2>2. Head(lens) \in 1 .. Depth /\ Tail(lens) \in Seq(1 .. Depth) /\ Tail(lens) \in Seq(Nat)
    BY <1>1, <1>2, <1>4, HeadTailProperties
  <2>3. Total(lens) = Head(lens) + Total(Tail(lens)) /\ Total(Tail(lens)) \in Nat
    BY <1>2, <1>4, <2>2, TotalTail, TotalIsNat
  <2> QED BY <2>1, <2>2, <2>3, <1>1, <1>4
<1> QED BY <1>3, <1>4

\* A word that is taken was the first.
LEMMA WordTaken ==
  ASSUME CountInv, data # <<>>
  PROVE  /\ Head(data) \in Word /\ Head(data)[1] \in Events
         /\ Tail(data) \in Seq(Word) /\ Len(Tail(data)) = Len(data) - 1
         /\ Head(data) = data[1]
         /\ \A k \in 1 .. Len(data) - 1 : Tail(data)[k] = data[k + 1]
<1>1. data \in Seq(Word)
  BY DEF CountInv, TypeOK
<1>2. Head(data) \in Word
  BY <1>1, HeadTailProperties
<1> QED BY <1>1, <1>2, HeadTailProperties DEF Word

\* The stream begins an event or cuts one.
LEMMA CountStream ==
  ASSUME CountInv, EventBegins \/ Cut
  PROVE  CountInv'
<1>1. UNCHANGED <<data, lens, open, epc, ebuf, rpc, left>>
  BY DEF EventBegins, Cut, fifoVars, emitterVars, readerVars
<1>2. TypeOK'
  <2>1. CASE EventBegins
    <3>1. ev' \in 0 .. MaxEvents /\ next' \in 0 .. Words
      BY <2>1, FifoAssumption DEF EventBegins, CountInv, TypeOK, FifoAssumption
    <3> QED BY <2>1, <3>1 DEF EventBegins, CountInv, TypeOK, fifoVars, emitterVars, readerVars, history
  <2>2. CASE Cut
    <3>1. next' \in 0 .. Words
      BY <2>2, FifoAssumption DEF Cut, FifoAssumption
    <3> QED BY <2>2, <3>1 DEF Cut, CountInv, TypeOK, fifoVars, emitterVars, readerVars
  <2> QED BY <2>1, <2>2
<1>3. NoUnderflow'
  BY <1>1 DEF CountInv, NoUnderflow, Rdfo, Total
<1>4. next' > 0 => ev' > 0
  BY FifoAssumption DEF EventBegins, Cut, CountInv, TypeOK, FifoAssumption
<1> QED BY <1>1, <1>2, <1>3, <1>4 DEF CountInv

\* The stream writes a word.
LEMMA CountWrite ==
  ASSUME CountInv, WriteWord
  PROVE  CountInv'
<1>1. UNCHANGED <<epc, ebuf, rpc, left>>
  BY DEF WriteWord, emitterVars, readerVars
<1>2. Due' = Due
  BY <1>1 DEF Due, EmitterDue, ReaderDue
<1>3. next' \in 0 .. Words /\ ev' = ev /\ ev > 0
  BY Counts DEF WriteWord, CountInv, TypeOK
<1>4. CASE ~(Len(data) < Depth)
  <2>1. UNCHANGED fifoVars /\ harm' = harm \cup {"full"}
    BY <1>4 DEF WriteWord
  <2>2. TypeOK'
    BY <1>3, <2>1 DEF WriteWord, CountInv, TypeOK, fifoVars, emitterVars, readerVars
  <2>3. NoUnderflow'
    BY <2>1, <1>1 DEF CountInv, NoUnderflow, Rdfo, Total, fifoVars
  <2> QED BY <1>1, <1>3, <2>2, <2>3 DEF CountInv
<1>5. CASE Len(data) < Depth
  <2>1. /\ data' = Append(data, <<ev, next>>)
        /\ open' = IF LastWord THEN 0 ELSE open + 1
        /\ lens' = IF LastWord THEN Append(lens, open + 1) ELSE lens
        /\ UNCHANGED harm
    BY <1>5 DEF WriteWord
  <2>2. <<ev, next>> \in Word
    <3>1. ev \in Events /\ next \in 1 .. Words
      BY Counts, FifoAssumption DEF WriteWord, CountInv, TypeOK, Events, FifoAssumption
    <3> QED BY <3>1 DEF Word
  <2>3. data' \in Seq(Word) /\ Len(data)' = Len(data) + 1
    BY <2>1, <2>2, AppendProperties DEF CountInv, TypeOK
  <2>4. open + 1 \in 1 .. Depth /\ open + 1 \in Nat
    BY Counts, <1>5
  <2>5. lens' \in Seq(1 .. Depth)
    <3>1. Append(lens, open + 1) \in Seq(1 .. Depth)
      BY <2>4, AppendProperties DEF CountInv, TypeOK
    <3> QED BY <2>1, <3>1 DEF CountInv, TypeOK
  <2>6. TypeOK'
    <3>1. Len(data)' <= Depth /\ open' \in 0 .. Depth
      BY <2>1, <2>3, <2>4, <1>5, Counts
    <3> QED BY <1>3, <2>1, <2>3, <2>5, <3>1
            DEF WriteWord, CountInv, TypeOK, emitterVars, readerVars
  <2>7. Total(lens)' \in Nat /\ Total(lens)' + open' = Total(lens) + open + 1
    <3>1. CASE ~LastWord
      <4>1. Total(lens)' = Total(lens)
        BY <2>1, <3>1 DEF Total
      <4> QED BY <2>1, <3>1, <4>1, Counts
    <3>2. CASE LastWord
      <4>1. lens \in Seq(Nat)
        <5>1. 1 .. Depth \subseteq Nat /\ lens \in Seq(1 .. Depth)
          BY Counts DEF CountInv, TypeOK
        <5> QED BY <5>1, SeqMonotonic
      <4>2. Total(Append(lens, open + 1)) = Total(lens) + (open + 1)
        BY <2>4, <4>1, TotalAppend
      <4>3. Total(lens)' = Total(Append(lens, open + 1))
        BY <2>1, <3>2 DEF Total
      <4> QED BY <2>1, <3>2, <4>2, <4>3, Counts
    <3> QED BY <3>1, <3>2
  <2>8. NoUnderflow'
    <3>1. open' \in Nat
      BY <2>1, <2>4
    <3>2. Due' \in Nat /\ Due + Total(lens) + open <= Len(data) /\ Total(lens) \in Nat
          /\ Len(data) \in Nat /\ open \in Nat /\ Due \in Nat
      BY <1>2, Counts
    <3>3. Len(data)' \in Nat /\ Due' + Total(lens)' + open' <= Len(data)'
      <4> HIDE DEF Due
      <4> QED BY <1>2, <2>3, <2>7, <3>1, <3>2
    <3> QED BY <2>7, <3>1, <3>2, <3>3, Covered
  <2> QED BY <1>1, <1>3, <2>6, <2>8 DEF CountInv
<1> QED BY <1>4, <1>5

\* The emitter looks.
LEMMA CountEmitterLooks ==
  ASSUME CountInv, EmitterLooks
  PROVE  CountInv'
<1>1. /\ UNCHANGED <<streamVars, fifoVars, ebuf, readerVars, handed, stale, discarded>>
      /\ epc = "look" /\ epc' = "length"
      /\ harm' \in {harm, harm \cup {"race"}}
  BY DEF EmitterLooks, Raced, readerVars
<1>2. TypeOK'
  BY <1>1 DEF CountInv, TypeOK, streamVars, fifoVars, readerVars
<1>3. NoUnderflow'
  BY <1>1 DEF CountInv, NoUnderflow, Rdfo, Total, fifoVars, readerVars
<1> QED BY <1>1, <1>2, <1>3 DEF CountInv, readerVars, streamVars

\* The emitter reads a length.
LEMMA CountEmitterLength ==
  ASSUME CountInv, EmitterLength
  PROVE  /\ CountInv'
         /\ Due' = Due + (IF Rlr >= Words THEN Words ELSE 0)
         /\ \A r \in Readers : ReaderDue(r)' = ReaderDue(r)
<1>1. /\ UNCHANGED <<streamVars, data, open, readerVars, harm, discarded>>
      /\ lens' = DropLength /\ epc = "length"
  BY DEF EmitterLength
<1>2. EmitterDue = 0
  BY <1>1 DEF EmitterDue
<1>3. \A r \in Readers : ReaderDue(r)' = ReaderDue(r)
  BY <1>1 DEF ReaderDue, readerVars
<1>4. Total(lens)' = Total(DropLength) /\ Total(lens)' \in Nat
  BY <1>1, LengthTaken DEF Total
<1>5. CASE Rlr >= Words /\ epc' = "words" /\ ebuf' = <<>> /\ UNCHANGED <<handed, stale>>
  <2>1. Len(ebuf)' = 0 /\ ebuf' \in Seq(Word)
    <3>1. <<>> \in Seq(Word) /\ Len(<<>>) = 0
      OBVIOUS
    <3> QED BY <1>5, <3>1
  <2>2. TypeOK'
    <3>1. Len(ebuf)' <= Words
      BY <2>1, Counts
    <3>2. lens' \in Seq(1 .. Depth)
      BY <1>1, LengthTaken
    <3> QED BY <1>1, <1>5, <2>1, <3>1, <3>2 DEF CountInv, TypeOK, streamVars, readerVars
  <2>3. EmitterDue' = Words
    BY <1>5, <2>1, Counts DEF EmitterDue
  <2>4. Due' = Due + Words /\ Due' \in Nat
    BY <1>2, <1>3, <2>3, Counts DEF Due, Readers
  <2>5. NoUnderflow'
    <3>1. Words \in Nat /\ Rlr \in Nat /\ Total(DropLength) \in Nat
      BY Counts, LengthTaken
    <3>2. Due' + Total(lens)' <= Due + Total(lens)
      BY <1>4, <1>5, <2>4, <3>1, LengthTaken, Counts
    <3> QED BY <1>1, <1>4, <2>4, <3>2, Counts, Covered
  <2>6. 0 < Words
    BY Counts
  <2>7. CountInv'
    BY <1>1, <1>5, <2>1, <2>2, <2>5, <2>6 DEF CountInv, readerVars, streamVars
  <2> QED BY <1>3, <1>5, <2>4, <2>7
<1>6. CASE /\ Rlr < Words /\ epc' = "look" /\ UNCHANGED ebuf
           /\ stale' = (stale \/ Rlr = 0)
           /\ handed' = IF Rlr = 0 THEN handed \cup {ebuf} ELSE handed
  <2>1. \A q \in handed' : q \in Seq(Word)
    BY <1>6 DEF CountInv, TypeOK
  <2>2. stale' \in BOOLEAN
    BY <1>6, Zenon DEF CountInv, TypeOK
  <2>3. TypeOK'
    BY <1>1, <1>6, <2>1, <2>2, LengthTaken DEF CountInv, TypeOK, streamVars, readerVars
  <2>4. EmitterDue' = 0
    BY <1>6 DEF EmitterDue
  <2>5. Due' = Due
    BY <1>2, <1>3, <2>4 DEF Due, Readers
  <2>6. NoUnderflow'
    <3>1. Total(lens)' <= Total(lens)
      BY <1>4, LengthTaken
    <3> QED BY <1>1, <1>4, <2>5, <3>1, Counts, Covered
  <2>7. CountInv'
    BY <1>1, <1>6, <2>3, <2>6 DEF CountInv, readerVars, streamVars
  <2>8. ~(Rlr >= Words)
    BY <1>6, LengthTaken, Counts
  <2>9. Due + 0 = Due
    BY Counts
  <2> QED BY <1>3, <2>5, <2>7, <2>8, <2>9
<1> QED BY <1>5, <1>6 DEF EmitterLength

\* The emitter reads a word.
LEMMA CountEmitterWord ==
  ASSUME CountInv, EmitterWord
  PROVE  /\ CountInv'
         /\ Due' = Due - 1 /\ Due' \in Nat
         /\ \A r \in Readers : ReaderDue(r)' = ReaderDue(r)
<1>1. /\ UNCHANGED <<streamVars, lens, open, readerVars, harm, stale, discarded>>
      /\ epc = "words" /\ data # <<>> /\ data' = Tail(data)
      /\ ebuf' = Append(ebuf, Head(data))
      /\ epc' = IF Len(ebuf') = Words THEN "look" ELSE "words"
      /\ handed' = IF epc' = "look" THEN handed \cup {ebuf'} ELSE handed
  BY DEF EmitterWord
<1>2. data' \in Seq(Word) /\ Len(data)' = Len(data) - 1
  BY <1>1, WordTaken
<1>3. ebuf' \in Seq(Word) /\ Len(ebuf)' = Len(ebuf) + 1
  BY <1>1, WordTaken, AppendProperties DEF CountInv, TypeOK
<1>4. Len(ebuf) < Words
  BY <1>1 DEF CountInv
<1>5. TypeOK'
  <2>1. Len(data)' <= Depth /\ Len(ebuf)' <= Words
    BY <1>2, <1>3, <1>4, Counts DEF CountInv, TypeOK
  <2>2. \A q \in handed' : q \in Seq(Word)
    BY <1>1, <1>3 DEF CountInv, TypeOK
  <2> QED BY <1>1, <1>2, <1>3, <2>1, <2>2 DEF CountInv, TypeOK, streamVars, readerVars
<1>6. EmitterDue' = EmitterDue - 1
  <2>1. EmitterDue = Words - Len(ebuf)
    BY <1>1 DEF EmitterDue
  <2>2. CASE Len(ebuf') = Words
    BY <2>1, <2>2, <1>1, <1>3, Counts DEF EmitterDue
  <2>3. CASE Len(ebuf') # Words
    BY <2>1, <2>3, <1>1, <1>3, Counts DEF EmitterDue
  <2> QED BY <2>2, <2>3
<1>7. \A r \in Readers : ReaderDue(r)' = ReaderDue(r)
  BY <1>1 DEF ReaderDue, readerVars
<1>8. Due' = Due - 1 /\ Due' \in Nat
  <2>1. EmitterDue \in Nat \ {0}
    BY <1>1, <1>4, Counts DEF EmitterDue
  <2>2. ReaderDue("clear") \in Nat /\ ReaderDue("tool") \in Nat
    BY Counts DEF Readers
  <2>3. ReaderDue("clear")' = ReaderDue("clear") /\ ReaderDue("tool")' = ReaderDue("tool")
    BY <1>7 DEF Readers
  <2> HIDE DEF EmitterDue
  <2> QED BY <1>6, <2>1, <2>2, <2>3 DEF Due
<1>9. Total(lens)' = Total(lens)
  BY <1>1 DEF Total
<1>10. NoUnderflow'
  BY <1>1, <1>2, <1>8, <1>9, Counts, Covered
<1>11. epc' = "words" => Len(ebuf)' < Words
  BY <1>1, <1>3, <1>4, Counts
<1>12. CountInv'
  BY <1>1, <1>5, <1>10, <1>11 DEF CountInv, readerVars, streamVars
<1> QED BY <1>7, <1>8, <1>12

\* A step of one reader changes what is due to it and to nobody else.
LEMMA DueOfOne ==
  ASSUME CountInv, NEW r \in Readers, NEW l, NEW n,
         UNCHANGED <<epc, ebuf>>,
         rpc' = [rpc EXCEPT ![r] = l], left' = [left EXCEPT ![r] = n],
         n \in Nat
  PROVE  /\ ReaderDue(r)' = IF l = "words" THEN n ELSE 0
         /\ \A o \in Readers \ {r} : ReaderDue(o)' = ReaderDue(o)
         /\ Due' = Due - ReaderDue(r) + ReaderDue(r)'
         /\ Due' \in Nat
<1>1. r \in DOMAIN rpc /\ r \in DOMAIN left /\ DOMAIN rpc = Readers /\ DOMAIN left = Readers
  BY DEF CountInv, TypeOK
<1>2. ReaderDue(r)' = IF l = "words" THEN n ELSE 0
  BY <1>1 DEF ReaderDue
<1>3. \A o \in Readers \ {r} : ReaderDue(o)' = ReaderDue(o)
  BY <1>1 DEF ReaderDue
<1>4. EmitterDue' = EmitterDue
  BY DueKept
<1>5. EmitterDue \in Nat /\ ReaderDue("clear") \in Nat /\ ReaderDue("tool") \in Nat
  BY Counts DEF Readers
<1>6. ReaderDue(r)' \in Nat
  BY <1>2
<1>7. CASE r = "clear"
  <2>1. ReaderDue("tool")' = ReaderDue("tool")
    BY <1>3, <1>7 DEF Readers
  <2> HIDE DEF EmitterDue, ReaderDue
  <2> QED BY <1>2, <1>3, <1>4, <1>5, <1>6, <1>7, <2>1 DEF Due
<1>8. CASE r = "tool"
  <2>1. ReaderDue("clear")' = ReaderDue("clear")
    BY <1>3, <1>8 DEF Readers
  <2> HIDE DEF EmitterDue, ReaderDue
  <2> QED BY <1>2, <1>3, <1>4, <1>5, <1>6, <1>8, <2>1 DEF Due
<1> QED BY <1>7, <1>8 DEF Readers

\* Its place and its count keep their types.
LEMMA ReaderTypes ==
  ASSUME CountInv, NEW r \in Readers, NEW n \in 0 .. Depth,
         NEW l \in {"idle", "check", "look", "length", "words"},
         rpc' = [rpc EXCEPT ![r] = l], left' = [left EXCEPT ![r] = n],
         l = "words" => n > 0
  PROVE  /\ rpc' \in [Readers -> {"idle", "check", "look", "length", "words"}]
         /\ left' \in [Readers -> 0 .. Depth]
         /\ \A o \in Readers : rpc'[o] = "words" => left'[o] > 0
BY DEF CountInv, TypeOK

\* A reader begins, looks, or checks whether to go on.
LEMMA CountReaderMoves ==
  ASSUME CountInv, NEW r \in Readers, Begins(r) \/ Checks(r) \/ Looks(r)
  PROVE  CountInv'
<1>1. /\ UNCHANGED <<streamVars, fifoVars, epc, ebuf, left>>
      /\ rpc[r] # "words"
  BY DEF Begins, Checks, Looks, emitterVars
<1>2. PICK l \in {"idle", "check", "look", "length"} : rpc' = [rpc EXCEPT ![r] = l]
  BY DEF Begins, Checks, Looks, Goto, Again
<1>3. left' = [left EXCEPT ![r] = left[r]] /\ left[r] \in 0 .. Depth /\ left[r] \in Nat
  BY <1>1, FifoAssumption DEF FifoAssumption, CountInv, TypeOK
<1>4. /\ rpc' \in [Readers -> {"idle", "check", "look", "length", "words"}]
      /\ left' \in [Readers -> 0 .. Depth]
      /\ \A o \in Readers : rpc'[o] = "words" => left'[o] > 0
  BY <1>2, <1>3, ReaderTypes
<1>5. /\ harm' \subseteq {"full", "cut", "race", "crash"} /\ stale' \in BOOLEAN
      /\ single' \in BOOLEAN
      /\ discarded' \subseteq Events
      /\ \A q \in handed' : q \in Seq(Word)
  <2>1. CASE Begins(r)
    BY <2>1 DEF Begins, Raced, CountInv, TypeOK
  <2>2. CASE Looks(r)
    BY <2>2 DEF Looks, CountInv, TypeOK, history
  <2>3. CASE Checks(r)
    <3>1. 1 .. ev \subseteq Events
      BY FifoAssumption DEF FifoAssumption, CountInv, TypeOK, Events
    <3> QED BY <2>3, <3>1 DEF Checks, CountInv, TypeOK, history
  <2> QED BY <2>1, <2>2, <2>3
<1>6. TypeOK'
  BY <1>1, <1>4, <1>5 DEF CountInv, TypeOK, streamVars, fifoVars
<1>7. Due' = Due /\ Due' \in Nat
  <2>1. ReaderDue(r) = 0
    BY <1>1 DEF ReaderDue
  <2> HIDE DEF Due, ReaderDue
  <2>2. ReaderDue(r)' = 0 /\ Due' = Due - ReaderDue(r) + ReaderDue(r)' /\ Due' \in Nat
    BY <1>1, <1>2, <1>3, DueOfOne
  <2> QED BY <2>1, <2>2, Counts
<1>8. NoUnderflow'
  <2>1. UNCHANGED <<data, open>> /\ Total(lens)' = Total(lens)
    BY <1>1 DEF fifoVars, Total
  <2> HIDE DEF Due
  <2> QED BY <1>7, <2>1, Counts, Covered
<1> QED BY <1>1, <1>4, <1>6, <1>8 DEF CountInv, streamVars

\* A reader reads a length.
LEMMA CountReadsLength ==
  ASSUME CountInv, NEW r \in Readers, ReadsLength(r)
  PROVE  /\ CountInv'
         /\ Due' = Due + Rlr
         /\ ReaderDue(r)' = Rlr
         /\ \A o \in Readers \ {r} : ReaderDue(o)' = ReaderDue(o)
<1>1. /\ UNCHANGED <<streamVars, data, open, epc, ebuf, single, history>>
      /\ lens' = DropLength /\ rpc[r] = "length"
      /\ left' = [left EXCEPT ![r] = Rlr]
  BY DEF ReadsLength, emitterVars
<1>2. Rlr \in 0 .. Depth /\ Rlr \in Nat
  BY LengthTaken, Counts
<1>3. PICK l \in {"idle", "check", "words"} :
        rpc' = [rpc EXCEPT ![r] = l] /\ (l = "words" <=> Rlr > 0)
  <2> DEFINE l == IF Rlr = 0 THEN Again(r) ELSE "words"
  <2>1. rpc' = [rpc EXCEPT ![r] = l]
    BY DEF ReadsLength, Goto
  <2>2. l \in {"idle", "check", "words"}
    BY DEF Again
  <2>3. l = "words" <=> Rlr > 0
    BY <1>2 DEF Again
  <2> QED BY <2>1, <2>2, <2>3
<1>4. /\ rpc' \in [Readers -> {"idle", "check", "look", "length", "words"}]
      /\ left' \in [Readers -> 0 .. Depth]
      /\ \A o \in Readers : rpc'[o] = "words" => left'[o] > 0
  BY <1>1, <1>2, <1>3, ReaderTypes
<1>5. TypeOK'
  BY <1>1, <1>4, LengthTaken DEF CountInv, TypeOK, streamVars, history
<1>6. /\ Due' = Due + Rlr /\ Due' \in Nat
      /\ ReaderDue(r)' = Rlr
      /\ \A o \in Readers \ {r} : ReaderDue(o)' = ReaderDue(o)
  <2>1. ReaderDue(r) = 0
    BY <1>1 DEF ReaderDue
  <2> HIDE DEF Due, ReaderDue
  <2>2. /\ ReaderDue(r)' = IF Rlr > 0 THEN Rlr ELSE 0
        /\ Due' = Due - ReaderDue(r) + ReaderDue(r)' /\ Due' \in Nat
        /\ \A o \in Readers \ {r} : ReaderDue(o)' = ReaderDue(o)
    BY <1>1, <1>2, <1>3, DueOfOne
  <2> QED BY <1>2, <2>1, <2>2, Counts
<1>7. Total(lens)' = Total(DropLength)
  BY <1>1 DEF Total
<1>8. NoUnderflow'
  <2> HIDE DEF Due
  <2>1. Due' + Total(lens)' <= Due + Total(lens) /\ Total(lens)' \in Nat
    <3>1. Total(DropLength) \in Nat /\ Total(lens) = Rlr + Total(DropLength)
      BY LengthTaken
    <3>2. Due \in Nat /\ Due' = Due + Rlr
      BY <1>6, Counts
    <3> QED BY <1>2, <1>7, <3>1, <3>2
  <2> QED BY <1>1, <1>6, <2>1, Counts, Covered
<1>9. CountInv'
  BY <1>1, <1>4, <1>5, <1>8 DEF CountInv, streamVars
<1> QED BY <1>6, <1>9

\* A reader reads a word.
LEMMA CountReadsWord ==
  ASSUME CountInv, NEW r \in Readers, ReadsWord(r)
  PROVE  /\ CountInv'
         /\ Due' = Due - 1 /\ Due' \in Nat
         /\ ReaderDue(r)' = ReaderDue(r) - 1
         /\ \A o \in Readers \ {r} : ReaderDue(o)' = ReaderDue(o)
<1>1. /\ UNCHANGED <<streamVars, lens, open, epc, ebuf, single, harm, handed, stale>>
      /\ rpc[r] = "words" /\ data # <<>> /\ data' = Tail(data)
      /\ left' = [left EXCEPT ![r] = left[r] - 1]
      /\ discarded' = discarded \cup {Head(data)[1]}
  BY DEF ReadsWord, emitterVars
<1>2. left[r] \in 1 .. Depth /\ left[r] - 1 \in 0 .. Depth /\ left[r] - 1 \in Nat
  <2>1. left[r] \in 0 .. Depth /\ left[r] > 0
    BY <1>1 DEF CountInv, TypeOK
  <2> QED BY <2>1, Counts
<1>3. PICK l \in {"idle", "check", "words"} :
        rpc' = [rpc EXCEPT ![r] = l] /\ (l = "words" <=> left[r] - 1 > 0)
  <2> DEFINE l == IF left[r] = 1 THEN Again(r) ELSE "words"
  <2>1. rpc' = [rpc EXCEPT ![r] = l]
    BY DEF ReadsWord, Goto
  <2>2. l \in {"idle", "check", "words"}
    BY DEF Again
  <2>3. l = "words" <=> left[r] - 1 > 0
    BY <1>2, Counts DEF Again
  <2> QED BY <2>1, <2>2, <2>3
<1>4. /\ rpc' \in [Readers -> {"idle", "check", "look", "length", "words"}]
      /\ left' \in [Readers -> 0 .. Depth]
      /\ \A o \in Readers : rpc'[o] = "words" => left'[o] > 0
  BY <1>1, <1>2, <1>3, ReaderTypes
<1>5. data' \in Seq(Word) /\ Len(data)' = Len(data) - 1 /\ Head(data)[1] \in Events
  BY <1>1, WordTaken
<1>6. TypeOK'
  <2>1. Len(data)' <= Depth
    BY <1>5, Counts DEF CountInv, TypeOK
  <2> QED BY <1>1, <1>4, <1>5, <2>1 DEF CountInv, TypeOK, streamVars
<1>7. /\ Due' = Due - 1 /\ Due' \in Nat
      /\ ReaderDue(r)' = ReaderDue(r) - 1
      /\ \A o \in Readers \ {r} : ReaderDue(o)' = ReaderDue(o)
  <2>1. ReaderDue(r) = left[r]
    BY <1>1 DEF ReaderDue
  <2> HIDE DEF Due, ReaderDue
  <2>2. /\ ReaderDue(r)' = IF left[r] - 1 > 0 THEN left[r] - 1 ELSE 0
        /\ Due' = Due - ReaderDue(r) + ReaderDue(r)' /\ Due' \in Nat
        /\ \A o \in Readers \ {r} : ReaderDue(o)' = ReaderDue(o)
    BY <1>1, <1>2, <1>3, DueOfOne
  <2>3. ReaderDue(r)' = ReaderDue(r) - 1
    BY <1>2, <2>1, <2>2
  <2>4. Due \in Nat /\ ReaderDue(r) \in Nat
    BY <1>2, <2>1, Counts
  <2>5. Due' = Due - 1
    BY <2>2, <2>3, <2>4
  <2> QED BY <2>2, <2>3, <2>5
<1>8. NoUnderflow'
  <2> HIDE DEF Due
  <2>1. Total(lens)' = Total(lens)
    BY <1>1 DEF Total
  <2> QED BY <1>1, <1>5, <1>7, <2>1, Counts, Covered
<1>9. CountInv'
  BY <1>1, <1>4, <1>6, <1>8 DEF CountInv, streamVars
<1> QED BY <1>7, <1>9

\* The server is started again, or the tool interrupted.
LEMMA CountEnds ==
  ASSUME CountInv, Restart \/ Interrupt
  PROVE  CountInv'
<1> DEFINE r == IF Restart THEN "clear" ELSE "tool"
<1>1. /\ UNCHANGED <<streamVars, fifoVars, single, handed, stale, discarded>>
      /\ rpc' = [rpc EXCEPT ![r] = "idle"] /\ left' = [left EXCEPT ![r] = 0]
      /\ harm' \in {harm, harm \cup {"crash"}}
      /\ UNCHANGED <<epc, ebuf>> \/ (epc' = "look" /\ ebuf' = <<>>)
  BY DEF Restart, Interrupt, Goto, emitterVars
<1>2. r \in Readers
  BY DEF Readers
<1> HIDE DEF r
<1>3. 0 \in 0 .. Depth /\ 0 \in Nat
  BY Counts
<1>4. /\ rpc' \in [Readers -> {"idle", "check", "look", "length", "words"}]
      /\ left' \in [Readers -> 0 .. Depth]
      /\ \A o \in Readers : rpc'[o] = "words" => left'[o] > 0
  BY <1>1, <1>2, <1>3, ReaderTypes
<1>5. ebuf' \in Seq(Word) /\ Len(ebuf)' <= Words /\ epc' \in {"look", "length", "words"}
      /\ (epc' = "words" => Len(ebuf)' < Words)
  <2>1. CASE UNCHANGED <<epc, ebuf>>
    BY <2>1 DEF CountInv, TypeOK
  <2>2. CASE epc' = "look" /\ ebuf' = <<>>
    <3>1. <<>> \in Seq(Word) /\ Len(<<>>) = 0
      OBVIOUS
    <3> QED BY <2>2, <3>1, Counts
  <2> QED BY <1>1, <2>1, <2>2
<1>6. TypeOK'
  BY <1>1, <1>4, <1>5 DEF CountInv, TypeOK, streamVars, fifoVars
<1>7. Due' <= Due /\ Due' \in Nat
  <2>1. \A o \in Readers : ReaderDue(o)' \in {0, ReaderDue(o)}
    BY <1>1, <1>2 DEF ReaderDue, CountInv, TypeOK
  <2>2. EmitterDue' \in {0, EmitterDue}
    BY <1>1 DEF EmitterDue
  <2>3. EmitterDue \in Nat /\ ReaderDue("clear") \in Nat /\ ReaderDue("tool") \in Nat
    BY Counts DEF Readers
  <2>4. ReaderDue("clear")' \in {0, ReaderDue("clear")} /\ ReaderDue("tool")' \in {0, ReaderDue("tool")}
    BY <2>1 DEF Readers
  <2> HIDE DEF EmitterDue, ReaderDue
  <2> QED BY <2>2, <2>3, <2>4 DEF Due
<1>8. NoUnderflow'
  <2> HIDE DEF Due
  <2>1. UNCHANGED <<data, open>> /\ Total(lens)' = Total(lens)
    BY <1>1 DEF fifoVars, Total
  <2> QED BY <1>7, <2>1, Counts, Covered
<1> QED BY <1>1, <1>4, <1>5, <1>6, <1>8 DEF CountInv, streamVars

\* At first nothing is there, and nothing due.
LEMMA CountInit == Init => CountInv
<1> SUFFICES ASSUME Init PROVE CountInv
  OBVIOUS
<1>1. /\ <<>> \in Seq(Word) /\ <<>> \in Seq(1 .. Depth) /\ <<>> \in Seq(Nat)
      /\ Len(<<>>) = 0
  OBVIOUS
<1>2. Words \in Nat /\ Depth \in Nat /\ MaxEvents \in Nat
  BY FifoAssumption DEF FifoAssumption
<1>3. TypeOK
  <2>1. /\ ev \in 0 .. MaxEvents /\ next \in 0 .. Words /\ open \in 0 .. Depth
        /\ Len(data) <= Depth /\ Len(ebuf) <= Words
    BY <1>1, <1>2 DEF Init
  <2>2. /\ rpc \in [Readers -> {"idle", "check", "look", "length", "words"}]
        /\ left \in [Readers -> 0 .. Depth]
    BY <1>2 DEF Init
  <2> QED BY <1>1, <2>1, <2>2 DEF Init, TypeOK
<1>4. Total(lens) = 0
  BY <1>1, TotalIsNat DEF Init
<1>5. EmitterDue = 0 /\ ReaderDue("clear") = 0 /\ ReaderDue("tool") = 0 /\ Rdfo = 0
  BY <1>1 DEF Init, EmitterDue, ReaderDue, Rdfo, Readers
<1>6. NoUnderflow
  BY <1>4, <1>5 DEF NoUnderflow, EmitterDue, ReaderDue
<1> QED BY <1>3, <1>6 DEF CountInv, Init

LEMMA CountStep == CountInv /\ [Next]_vars => CountInv'
<1> SUFFICES ASSUME CountInv, [Next]_vars PROVE CountInv'
  OBVIOUS
<1>1. CASE UNCHANGED vars
  BY <1>1 DEF vars, streamVars, fifoVars, emitterVars, readerVars, history,
              CountInv, TypeOK, NoUnderflow, Rdfo, Total
<1>2. ASSUME NEW r \in Readers, Reader(r) PROVE CountInv'
  BY <1>2, CountReaderMoves, CountReadsLength, CountReadsWord DEF Reader
<1> QED BY <1>1, <1>2, CountStream, CountWrite, CountEmitterLooks, CountEmitterLength,
           CountEmitterWord, CountEnds DEF Next

\* The type invariant of the stream, the FIFO and its readers.
THEOREM TypeCorrect == Spec => []TypeOK
<1>1. CountInv => TypeOK
  BY DEF CountInv
<1> QED BY <1>1, CountInit, CountStep, PTL DEF Spec

\* No reader takes a word from an empty FIFO or from a packet still being
\* written, for packets and FIFOs of any size, whoever reads at the same time
\* and whatever was cut, dropped or interrupted before (read_fifo).
THEOREM NeverUnderflows == Spec => []NoUnderflow
<1>1. CountInv => NoUnderflow
  BY DEF CountInv
<1> QED BY <1>1, CountInit, CountStep, PTL DEF Spec

-----------------------------------------------------------------------------
(* In which order the words are.                                           *)

\* The word after w, the one the state machine writes next, and the one that
\* is read next.
After(w) == IF w[2] = Words THEN <<w[1] + 1, 1>> ELSE <<w[1], w[2] + 1>>
NextWord == IF next = 0 THEN <<ev + 1, 1>> ELSE <<ev, next>>
First == IF data = <<>> THEN NextWord ELSE data[1]

\* The words follow one another, up to the one written next.
StreamOrder ==
  /\ open = IF next = 0 THEN 0 ELSE next - 1
  /\ \A k \in 1 .. Len(data) - 1 : data[k + 1] = After(data[k])
  /\ data # <<>> => After(data[Len(data)]) = NextWord

\* All packets are of the full length, and what the readers have left is the
\* rest of packets: as many words as bring First to the begin of one.
LengthOrder ==
  /\ \A k \in 1 .. Len(lens) : lens[k] = Words
  /\ \A r \in Readers : ReaderDue(r) <= Words
  /\ Due + Total(lens) + open = Len(data)
  /\ First[2] - 1 + Due \in {0, Words, 2 * Words, 3 * Words}

OrderInv == harm \subseteq {"race"} => StreamOrder /\ LengthOrder

\* The first word is one of a packet; of an empty FIFO it is the first of one.
LEMMA FirstWord ==
  ASSUME CountInv, StreamOrder
  PROVE  /\ First[1] \in Nat /\ First[2] \in 1 .. Words
         /\ First = <<First[1], First[2]>>
         /\ data = <<>> => First[2] = 1 /\ Due = 0 /\ next \in {0, 1}
         /\ Due = 0 /\ LengthOrder => First[2] = 1
<1>1. Words \in Nat \ {0} /\ ev \in Nat /\ next \in 0 .. Words /\ ev \in 0 .. MaxEvents
      /\ MaxEvents \in Nat
  BY FifoAssumption DEF FifoAssumption, CountInv, TypeOK
<1>2. CASE data = <<>>
  <2>1. Len(data) = 0
    BY <1>2, EmptySeq
  <2>2. open = 0 /\ Due = 0
    <3> HIDE DEF Due
    <3> QED BY <2>1, Counts
  <2>3. next \in {0, 1}
    BY <1>1, <2>2 DEF StreamOrder
  <2>4. First[1] \in Nat /\ First[2] = 1 /\ First = <<First[1], First[2]>>
    BY <1>1, <1>2, <2>3 DEF First, NextWord
  <2> HIDE DEF Due, First
  <2> QED BY <1>1, <2>2, <2>3, <2>4
<1>3. CASE data # <<>>
  <2>1. First \in Word
    BY <1>3, WordTaken DEF First
  <2> HIDE DEF Due, First
  <2>2. First[1] \in Nat /\ First[2] \in 1 .. Words /\ First = <<First[1], First[2]>>
    BY <1>1, <2>1 DEF Word, Events
  <2>3. Due = 0 /\ LengthOrder => First[2] = 1
    <3> SUFFICES ASSUME Due = 0, LengthOrder PROVE First[2] = 1
      OBVIOUS
    <3>1. First[2] - 1 \in {0, Words, 2 * Words, 3 * Words}
      BY <2>2 DEF LengthOrder
    <3> QED BY <3>1, <2>2, <1>1
  <2> QED BY <1>3, <2>2, <2>3
<1> QED BY <1>2, <1>3

\* The first word is taken.
LEMMA WordGone ==
  ASSUME CountInv, StreamOrder, data # <<>>, data' = Tail(data), UNCHANGED <<ev, next, open>>
  PROVE  StreamOrder' /\ First' = After(First)
<1>1. /\ Len(data) \in Nat \ {0} /\ Len(data)' = Len(data) - 1
      /\ \A k \in 1 .. Len(data) - 1 : data'[k] = data[k + 1]
      /\ data' \in Seq(Word)
  BY WordTaken, EmptySeq, Counts DEF CountInv, TypeOK
<1>2. ASSUME NEW k \in 1 .. Len(data)' - 1 PROVE data'[k + 1] = After(data'[k])
  <2>1. /\ k \in 1 .. Len(data) - 1 /\ k + 1 \in 1 .. Len(data) - 1
    BY <1>1
  <2>2. data'[k] = data[k + 1] /\ data'[k + 1] = data[k + 1 + 1]
        /\ data[k + 1 + 1] = After(data[k + 1])
    BY <1>1, <2>1 DEF StreamOrder
  <2> QED BY <2>2 DEF After
<1>3. data' # <<>> => After(data'[Len(data)']) = NextWord'
  <2> SUFFICES ASSUME data' # <<>> PROVE After(data'[Len(data)']) = NextWord'
    OBVIOUS
  <2>1. Len(data)' # 0
    BY <1>1, EmptySeq
  <2>2. Len(data) - 1 \in 1 .. Len(data) - 1 /\ Len(data) - 1 + 1 = Len(data)
    BY <1>1, <2>1
  <2>3. data'[Len(data)'] = data[Len(data)]
    BY <1>1, <2>2
  <2>4. NextWord' = NextWord
    BY DEF NextWord
  <2> QED BY <2>3, <2>4 DEF StreamOrder
<1>4. StreamOrder'
  <2>1. \A k \in 1 .. Len(data') - 1 : data'[k + 1] = (After(data[k]))'
    BY <1>2 DEF After
  <2>2. data' # <<>> => (After(data[Len(data)]))' = NextWord'
    BY <1>3 DEF After
  <2> QED BY <2>1, <2>2 DEF StreamOrder
<1>5. First' = After(First)
  <2>1. CASE Len(data) = 1
    <3>1. data' = <<>> /\ First' = NextWord'
      BY <1>1, <2>1, EmptySeq DEF First
    <3>2. After(data[1]) = NextWord
      BY <2>1 DEF StreamOrder
    <3> QED BY <3>1, <3>2 DEF First, NextWord
  <2>2. CASE Len(data) # 1
    <3>1. 1 \in 1 .. Len(data) - 1 /\ data' # <<>>
      <4>1. Len(data)' # 0 /\ 1 \in 1 .. Len(data) - 1
        BY <1>1, <2>2
      <4>2. Len(<<>>) = 0
        OBVIOUS
      <4> QED BY <4>1, <4>2
    <3>2. data'[1] = data[2] /\ data[2] = After(data[1])
      BY <1>1, <3>1 DEF StreamOrder
    <3> QED BY <3>1, <3>2 DEF First
  <2> QED BY <2>1, <2>2
<1> QED BY <1>4, <1>5

\* A word is put.
LEMMA WordPut ==
  ASSUME CountInv, StreamOrder, data' = Append(data, NextWord), NextWord' = After(NextWord),
         open' = IF next' = 0 THEN 0 ELSE next' - 1
  PROVE  StreamOrder' /\ First' = First
<1>1. data \in Seq(Word)
  BY DEF CountInv, TypeOK
<1>2. /\ Len(data) \in Nat /\ Len(data') = Len(data) + 1
      /\ \A k \in 1 .. Len(data) : data'[k] = data[k]
      /\ data'[Len(data) + 1] = NextWord
  <2> DEFINE w == NextWord
             S == Word \cup {w}
  <2>1. data \in Seq(S) /\ w \in S
    <3>1. Word \subseteq S
      OBVIOUS
    <3> HIDE DEF S
    <3> QED BY <1>1, <3>1, SeqMonotonic DEF S
  <2> HIDE DEF w, S
  <2>2. data' = Append(data, w)
    BY DEF w
  <2> QED BY <2>1, <2>2, AppendProperties, LenProperties DEF w
<1>3. data' # <<>>
  <2>1. Len(<<>>) = 0
    OBVIOUS
  <2> QED BY <1>2, <2>1
<1>4. ASSUME NEW k \in 1 .. Len(data') - 1 PROVE data'[k + 1] = After(data'[k])
  <2>1. CASE k = Len(data)
    <3>1. data # <<>> /\ data'[k] = data[Len(data)] /\ data'[k + 1] = NextWord
      <4>1. Len(<<>>) = 0
        OBVIOUS
      <4> QED BY <1>2, <2>1, <4>1
    <3> QED BY <3>1 DEF StreamOrder
  <2>2. CASE k # Len(data)
    <3>1. k \in 1 .. Len(data) - 1 /\ k \in 1 .. Len(data) /\ k + 1 \in 1 .. Len(data)
      BY <1>2, <2>2
    <3> QED BY <1>2, <3>1 DEF StreamOrder
  <2> QED BY <2>1, <2>2
<1>5. StreamOrder'
  <2>1. \A k \in 1 .. Len(data') - 1 : data'[k + 1] = (After(data[k]))'
    BY <1>4 DEF After
  <2>2. (After(data[Len(data)]))' = NextWord'
    <3>1. data'[Len(data')] = NextWord
      BY <1>2
    <3> QED BY <3>1 DEF After
  <2> QED BY <2>1, <2>2 DEF StreamOrder
<1>6. First' = First
  <2>1. CASE data = <<>>
    <3>1. Len(data) = 0 /\ data'[1] = NextWord
      BY <1>2, <2>1, EmptySeq
    <3> QED BY <1>3, <2>1, <3>1 DEF First
  <2>2. CASE data # <<>>
    <3>1. 1 \in 1 .. Len(data)
      BY <1>1, <1>2, <2>2, EmptySeq
    <3> QED BY <1>2, <1>3, <2>2, <3>1 DEF First
  <2> QED BY <2>1, <2>2
<1> QED BY <1>5, <1>6

\* Steps that touch neither the stream nor the words, and nobody's due.
LEMMA OrderKept ==
  ASSUME OrderInv, harm' \subseteq {"race"} => harm \subseteq {"race"},
         UNCHANGED <<streamVars, fifoVars>>, Due' = Due,
         \A r \in Readers : ReaderDue(r)' = ReaderDue(r)
  PROVE  OrderInv'
<1> SUFFICES ASSUME harm \subseteq {"race"} PROVE StreamOrder' /\ LengthOrder'
  BY DEF OrderInv
<1>1. StreamOrder /\ LengthOrder
  BY DEF OrderInv
<1>2. First' = First
  BY DEF First, NextWord, streamVars, fifoVars
<1>3. StreamOrder'
  BY <1>1 DEF StreamOrder, After, NextWord, streamVars, fifoVars
<1>4. LengthOrder'
  <2>1. Total(lens)' = Total(lens)
    BY DEF Total, fifoVars
  <2>2. First[2]' = First[2]
    BY <1>2
  <2> HIDE DEF Due, ReaderDue, First
  <2> QED BY <1>1, <2>1, <2>2 DEF LengthOrder, fifoVars
<1> QED BY <1>3, <1>4

\* The stream: an event begins, a word is written, a packet is cut.
LEMMA OrderStream ==
  ASSUME CountInv, OrderInv, EventBegins \/ WriteWord \/ Cut
  PROVE  OrderInv' /\ (harm' \subseteq {"race"} => First' = First)
<1>1. UNCHANGED <<epc, ebuf, rpc, left>>
  BY DEF EventBegins, WriteWord, Cut, emitterVars, readerVars
<1>2. Due' = Due /\ \A r \in Readers : ReaderDue(r)' = ReaderDue(r)
  BY <1>1 DEF Due, EmitterDue, ReaderDue
<1> SUFFICES ASSUME harm' \subseteq {"race"}
             PROVE  StreamOrder' /\ LengthOrder' /\ First' = First
  BY DEF OrderInv
<1>3. harm' = harm
  BY DEF EventBegins, WriteWord, Cut, history
<1>4. StreamOrder /\ LengthOrder
  BY <1>3 DEF OrderInv
<1>5. CASE EventBegins
  <2>1. next = 0 /\ ev' = ev + 1 /\ next' = 1 /\ UNCHANGED <<data, lens, open>>
    BY <1>5 DEF EventBegins, fifoVars
  <2>2. NextWord' = NextWord
    BY <2>1 DEF NextWord
  <2>3. StreamOrder'
    BY <1>4, <2>1, <2>2 DEF StreamOrder, After
  <2>4. First' = First /\ Total(lens)' = Total(lens)
    BY <2>1, <2>2 DEF First, Total
  <2>5. LengthOrder'
    <3>1. First[2]' = First[2]
      BY <2>4
    <3> HIDE DEF Due, ReaderDue, First
    <3> QED BY <1>2, <1>4, <2>1, <2>4, <3>1 DEF LengthOrder
  <2> QED BY <2>3, <2>4, <2>5
<1>6. CASE WriteWord
  <2>1. /\ next > 0 /\ UNCHANGED ev
        /\ next' = IF LastWord THEN 0 ELSE next + 1
        /\ data' = Append(data, NextWord)
        /\ open' = IF LastWord THEN 0 ELSE open + 1
        /\ lens' = IF LastWord THEN Append(lens, open + 1) ELSE lens
    <3>1. Len(data) < Depth
      BY <1>6, <1>3 DEF WriteWord
    <3>2. next > 0
      BY <1>6 DEF WriteWord
    <3>3. next # 0
      BY <3>2, Counts DEF CountInv, TypeOK
    <3> QED BY <1>6, <3>1, <3>2, <3>3 DEF WriteWord, LastWord, NextWord
  <2>2. next \in 1 .. Words /\ open = next - 1 /\ Words \in Nat
    BY <1>4, <2>1, Counts DEF CountInv, TypeOK, StreamOrder
  <2>3. NextWord' = After(NextWord)
    <3>1. NextWord = <<ev, next>>
      BY <2>2 DEF NextWord
    <3>2. After(NextWord) = IF next = Words THEN <<ev + 1, 1>> ELSE <<ev, next + 1>>
      BY <3>1 DEF After
    <3>3. NextWord' = IF next' = 0 THEN <<ev' + 1, 1>> ELSE <<ev', next'>>
      BY DEF NextWord
    <3>4. next + 1 # 0
      BY <2>2
    <3> QED BY <2>1, <3>2, <3>3, <3>4 DEF LastWord
  <2>4. open' = IF next' = 0 THEN 0 ELSE next' - 1
    BY <2>1, <2>2 DEF LastWord
  <2>5. StreamOrder' /\ First' = First
    BY <1>4, <2>1, <2>3, <2>4, WordPut
  <2>6. lens \in Seq(Nat) /\ lens \in Seq(1 .. Depth)
    <3>1. 1 .. Depth \subseteq Nat /\ lens \in Seq(1 .. Depth)
      BY Counts DEF CountInv, TypeOK
    <3> QED BY <3>1, SeqMonotonic
  <2>7. Total(lens)' + open' = Total(lens) + open + 1
    <3>1. CASE ~LastWord
      <4>1. Total(lens)' = Total(lens)
        BY <2>1, <3>1 DEF Total
      <4> QED BY <2>1, <2>2, <3>1, <4>1, Counts
    <3>2. CASE LastWord
      <4>1. Total(Append(lens, open + 1)) = Total(lens) + (open + 1)
        BY <2>2, <2>6, TotalAppend
      <4>2. Total(lens)' = Total(Append(lens, open + 1))
        BY <2>1, <3>2 DEF Total
      <4> QED BY <2>1, <2>2, <3>2, <4>1, <4>2, Counts
    <3> QED BY <3>1, <3>2
  <2>8. \A k \in 1 .. Len(lens') : lens'[k] = Words
    <3>1. CASE ~LastWord
      BY <1>4, <2>1, <3>1 DEF LengthOrder
    <3>2. CASE LastWord
      <4>1. open + 1 = Words
        BY <2>2, <3>2 DEF LastWord
      <4>2. /\ Len(lens) \in Nat /\ Len(lens') = Len(lens) + 1
            /\ \A k \in 1 .. Len(lens) : lens'[k] = lens[k]
            /\ lens'[Len(lens) + 1] = Words
        BY <2>1, <2>2, <2>6, <3>2, <4>1, AppendProperties, LenProperties
      <4> QED BY <1>4, <4>2 DEF LengthOrder
    <3> QED BY <3>1, <3>2
  <2>9. Len(data') = Len(data) + 1
    <3>1. NextWord \in Word
      BY <2>2, FifoAssumption DEF NextWord, CountInv, TypeOK, Word, Events, FifoAssumption
    <3> QED BY <2>1, <3>1, AppendProperties DEF CountInv, TypeOK
  <2>10. LengthOrder'
    <3>1. First[2]' = First[2]
      BY <2>5
    <3>2. Due' + Total(lens)' + open' = Len(data')
      <4>1. Total(lens)' \in Nat /\ open' \in Nat /\ Len(data) \in Nat /\ Due \in Nat
            /\ Total(lens) \in Nat /\ open \in Nat
        <5>1. CountInv'
          BY <1>6, CountWrite
        <5>2. Total(lens)' \in Nat /\ open' \in Nat
          <6>1. lens' \in Seq(1 .. Depth) /\ 1 .. Depth \subseteq Nat /\ open' \in Nat
            BY <5>1, Counts DEF CountInv, TypeOK
          <6>2. lens' \in Seq(Nat)
            BY <6>1, SeqMonotonic
          <6>3. Total(lens') \in Nat
            BY <6>2, TotalIsNat
          <6> QED BY <6>1, <6>3 DEF Total
        <5> QED BY <5>2, Counts
      <4> HIDE DEF Due
      <4> QED BY <1>2, <1>4, <2>7, <2>9, <4>1 DEF LengthOrder
    <3> HIDE DEF Due, ReaderDue, First
    <3> QED BY <1>2, <1>4, <2>8, <3>1, <3>2 DEF LengthOrder
  <2> QED BY <2>5, <2>10
<1>7. CASE Cut
  BY <1>3, <1>7 DEF Cut
<1> QED BY <1>5, <1>6, <1>7

\* The emitter looks, or one of the others looks, begins or checks.
LEMMA OrderLooks ==
  ASSUME CountInv, OrderInv,
         EmitterLooks \/ \E r \in Readers : Begins(r) \/ Checks(r) \/ Looks(r)
  PROVE  OrderInv'
<1>1. CASE EmitterLooks
  <2>1. /\ UNCHANGED <<streamVars, fifoVars, ebuf, rpc, left>>
        /\ epc # "words" /\ epc' # "words"
        /\ harm' \in {harm, harm \cup {"race"}}
    BY <1>1 DEF EmitterLooks, Raced
  <2>2. Due' = Due /\ \A r \in Readers : ReaderDue(r)' = ReaderDue(r)
    BY <2>1 DEF Due, EmitterDue, ReaderDue
  <2> HIDE DEF Due, ReaderDue
  <2>3. harm' \subseteq {"race"} => harm \subseteq {"race"}
    BY <2>1
  <2> QED BY <2>1, <2>2, <2>3, OrderKept
<1>2. ASSUME NEW r \in Readers, Begins(r) \/ Checks(r) \/ Looks(r)
      PROVE  OrderInv'
  <2>1. /\ UNCHANGED <<streamVars, fifoVars, epc, ebuf, left>>
        /\ rpc[r] # "words"
    BY <1>2 DEF Begins, Checks, Looks, emitterVars
  <2>2. PICK l \in {"idle", "check", "look", "length"} : rpc' = [rpc EXCEPT ![r] = l]
    BY <1>2 DEF Begins, Checks, Looks, Goto, Again
  <2>3. \A o \in Readers : ReaderDue(o)' = ReaderDue(o)
    BY <2>1, <2>2 DEF ReaderDue, CountInv, TypeOK
  <2>4. Due' = Due
    <3>1. ReaderDue("clear")' = ReaderDue("clear") /\ ReaderDue("tool")' = ReaderDue("tool")
      BY <2>3 DEF Readers
    <3> QED BY <2>1, <3>1, DueKept DEF Due
  <2>5. CASE harm' \subseteq {"race"} => harm \subseteq {"race"}
    <3> HIDE DEF Due, ReaderDue
    <3> QED BY <2>1, <2>3, <2>4, <2>5, OrderKept
  <2>6. CASE harm' \subseteq {"race"} /\ ~(harm \subseteq {"race"})
    <3>1. Checks(r)
      BY <1>2, <2>6 DEF Begins, Looks, Raced, history
    <3>2. /\ data = <<>> /\ lens = <<>> /\ next = 0 /\ epc = "look"
          /\ \A o \in Readers : rpc'[o] = "idle"
      BY <2>6, <3>1 DEF Checks, history
    <3>3. Len(data) = 0 /\ Len(lens) = 0 /\ lens \in Seq(Nat) /\ Total(lens) = 0
      <4>1. Len(<<>>) = 0 /\ <<>> \in Seq(Nat)
        OBVIOUS
      <4> QED BY <3>2, <4>1, TotalIsNat
    <3>4. open = 0
      BY <3>3, Counts
    <3>5. StreamOrder'
      BY <2>1, <3>2, <3>3, <3>4 DEF StreamOrder, streamVars, fifoVars
    <3>6. \A o \in Readers : ReaderDue(o)' = 0
      BY <3>2 DEF ReaderDue
    <3>7. EmitterDue' = 0
      BY <2>1, <3>2 DEF EmitterDue
    <3>8. Due' = 0
      BY <3>6, <3>7 DEF Due, Readers
    <3>9. First[2]' = 1 /\ Total(lens)' = Total(lens)
      BY <2>1, <3>2 DEF First, NextWord, streamVars, fifoVars, Total
    <3>10. LengthOrder'
      <4>1. UNCHANGED <<lens, data, open>> /\ Words \in Nat
        BY <2>1, Counts DEF fifoVars
      <4> HIDE DEF Due, ReaderDue, First
      <4> QED BY <3>3, <3>4, <3>6, <3>8, <3>9, <4>1 DEF LengthOrder
    <3> QED BY <3>5, <3>10 DEF OrderInv
  <2> QED BY <2>5, <2>6
<1> QED BY <1>1, <1>2

\* The first length, where all are of the full length.
LEMMA FullLength ==
  ASSUME CountInv, LengthOrder
  PROVE  /\ Rlr = IF lens = <<>> THEN 0 ELSE Words
         /\ \A k \in 1 .. Len(DropLength) : DropLength[k] = Words
<1>1. lens \in Seq(1 .. Depth)
  BY DEF CountInv, TypeOK
<1>2. CASE lens = <<>>
  BY <1>2 DEF Rlr, DropLength, LengthOrder
<1>3. CASE lens # <<>>
  <2>1. /\ Head(lens) = lens[1] /\ Len(lens) \in Nat \ {0}
        /\ Len(Tail(lens)) = Len(lens) - 1
        /\ \A k \in 1 .. Len(Tail(lens)) : Tail(lens)[k] = lens[k + 1]
    BY <1>1, <1>3, HeadTailProperties, LenProperties, EmptySeq
  <2>2. 1 \in 1 .. Len(lens) /\ \A k \in 1 .. Len(Tail(lens)) : k + 1 \in 1 .. Len(lens)
    BY <2>1
  <2> QED BY <1>3, <2>1, <2>2 DEF Rlr, DropLength, LengthOrder
<1> QED BY <1>2, <1>3

\* Somebody reads a length: what is due to him grows by it.
LEMMA OrderLength ==
  ASSUME CountInv, CountInv', StreamOrder, LengthOrder,
         UNCHANGED <<streamVars, data, open>>, lens' = DropLength,
         Due' = Due + Rlr,
         \A r \in Readers : ReaderDue(r)' <= Words
  PROVE  StreamOrder' /\ LengthOrder'
<1>1. StreamOrder'
  BY DEF StreamOrder, After, NextWord, streamVars
<1>2. First' = First
  BY DEF First, NextWord, streamVars
<1>3. Total(lens)' = Total(DropLength)
  BY DEF Total
<1>4. Due' + Total(lens)' + open' = Len(data)'
  <2>1. Due + Total(lens) + open = Len(data)
    BY DEF LengthOrder
  <2>2. Due \in Nat /\ Total(lens) \in Nat /\ open \in Nat /\ Len(data) \in Nat
    BY Counts
  <2>3. Rlr \in Nat /\ Total(DropLength) \in Nat /\ Total(lens) = Rlr + Total(DropLength)
    BY LengthTaken, Counts
  <2>4. open' = open /\ Len(data)' = Len(data)
    OBVIOUS
  <2>5. Due' = Due + Rlr
    OBVIOUS
  <2>6. Due' + Total(DropLength) + open = Len(data)
    BY <2>1, <2>2, <2>3, <2>5
  <2> QED BY <1>3, <2>4, <2>6
<1>5. First[2]' - 1 + Due' \in {0, Words, 2 * Words, 3 * Words}
  <2>1. First[2] \in 1 .. Words /\ First[2]' = First[2] /\ Words \in Nat \ {0}
    BY <1>2, FirstWord, Counts
  <2>2. Due' <= 3 * Words /\ Due' \in Nat
    <3>1. Due' \in Nat /\ EmitterDue' \in Nat /\ EmitterDue' <= Words
          /\ ReaderDue("clear")' <= Words /\ ReaderDue("tool")' <= Words
          /\ ReaderDue("clear")' \in Nat /\ ReaderDue("tool")' \in Nat
      <4>1. Words \in Nat \ {0} /\ Len(ebuf)' \in Nat
        <5>1. ebuf' \in Seq(Word)
          BY DEF CountInv, TypeOK
        <5> QED BY <5>1, Counts, LenProperties
      <4>2. EmitterDue' \in Nat /\ EmitterDue' <= Words
        <5>1. epc' = "words" => Len(ebuf)' < Words
          BY DEF CountInv
        <5> QED BY <4>1, <5>1 DEF EmitterDue
      <4>3. \A r \in Readers : ReaderDue(r)' \in Nat
        <5>1. left' \in [Readers -> 0 .. Depth] /\ Depth \in Nat
          BY Counts DEF CountInv, TypeOK
        <5> QED BY <5>1 DEF ReaderDue
      <4>4. ReaderDue("clear")' \in Nat /\ ReaderDue("tool")' \in Nat
            /\ ReaderDue("clear")' <= Words /\ ReaderDue("tool")' <= Words
        BY <4>3 DEF Readers
      <4> HIDE DEF EmitterDue, ReaderDue
      <4> QED BY <4>2, <4>4 DEF Due
    <3> HIDE DEF EmitterDue, ReaderDue
    <3> QED BY <2>1, <3>1 DEF Due
  <2>3. Rlr \in {0, Words}
    BY FullLength
  <2>4. First[2] - 1 + Due \in {0, Words, 2 * Words, 3 * Words} /\ Due \in Nat
    BY Counts DEF LengthOrder
  <2> HIDE DEF Due, First
  <2> QED BY <2>1, <2>2, <2>3, <2>4
<1>6. \A k \in 1 .. Len(lens') : lens'[k] = Words
  BY FullLength
<1> QED BY <1>1, <1>4, <1>5, <1>6 DEF LengthOrder

\* Somebody reads a word: what is due to him is one less.
LEMMA OrderWord ==
  ASSUME CountInv, StreamOrder, LengthOrder, data # <<>>,
         UNCHANGED <<streamVars, lens, open>>, data' = Tail(data),
         Due' = Due - 1, Due' \in Nat,
         \A r \in Readers : ReaderDue(r)' <= Words
  PROVE  StreamOrder' /\ LengthOrder' /\ First' = After(First)
<1>1. StreamOrder' /\ First' = After(First)
  BY WordGone DEF streamVars
<1>2. Total(lens)' = Total(lens) /\ Len(data)' = Len(data) - 1
  BY WordTaken DEF Total
<1>3. Due' + Total(lens)' + open' = Len(data)'
  <2>1. Due + Total(lens) + open = Len(data)
    BY DEF LengthOrder
  <2>2. Due \in Nat /\ Total(lens) \in Nat /\ open \in Nat /\ Len(data) \in Nat
    BY Counts
  <2>3. Due' = Due - 1 /\ open' = open
    OBVIOUS
  <2>4. (Due - 1) + Total(lens) + open = Len(data) - 1
    BY <2>1, <2>2
  <2> QED BY <1>2, <2>3, <2>4
<1>4. First[2]' - 1 + Due' \in {0, Words, 2 * Words, 3 * Words}
  <2>1. First[2] \in 1 .. Words /\ Words \in Nat \ {0}
    BY FirstWord, Counts
  <2>2. First[2]' = IF First[2] = Words THEN 1 ELSE First[2] + 1
    BY <1>1 DEF After
  <2>3. First[2] - 1 + Due \in {0, Words, 2 * Words, 3 * Words} /\ Due \in Nat
    BY Counts DEF LengthOrder
  <2>4. Due' = Due - 1 /\ Due' \in Nat
    OBVIOUS
  <2> DEFINE d == Due
             f == First[2]
  <2>5. CASE f = Words
    <3>1. First[2]' = 1 /\ Due' = d - 1
      BY <2>2, <2>4, <2>5
    <3>2. f - 1 + d # 0
      BY <2>1, <2>3, <2>4, <2>5
    <3> HIDE DEF d, f
    <3>3. f - 1 + d \in {0, Words, 2 * Words, 3 * Words} /\ d \in Nat
      BY <2>3 DEF d, f
    <3> QED BY <2>1, <2>5, <3>1, <3>2, <3>3
  <2>6. CASE f # Words
    <3>1. First[2]' - 1 + Due' = f - 1 + d
      BY <2>1, <2>2, <2>3, <2>4, <2>6
    <3> QED BY <2>3, <3>1
  <2> QED BY <2>5, <2>6
<1> QED BY <1>1, <1>3, <1>4 DEF LengthOrder

\* The emitter and the other readers read.
LEMMA OrderReads ==
  ASSUME CountInv, OrderInv,
         EmitterLength \/ EmitterWord \/ \E r \in Readers : ReadsLength(r) \/ ReadsWord(r)
  PROVE  OrderInv'
<1> SUFFICES ASSUME harm' \subseteq {"race"} PROVE StreamOrder' /\ LengthOrder'
  BY DEF OrderInv
<1>1. harm' = harm
  BY DEF EmitterLength, EmitterWord, ReadsLength, ReadsWord, history
<1>2. StreamOrder /\ LengthOrder
  BY <1>1 DEF OrderInv
<1>3. \A r \in Readers : ReaderDue(r) <= Words /\ ReaderDue(r) \in Nat
  BY <1>2, Counts DEF LengthOrder
<1>4. CASE EmitterLength
  <2>1. UNCHANGED <<streamVars, data, open>> /\ lens' = DropLength
    BY <1>4 DEF EmitterLength
  <2>2. CountInv' /\ \A r \in Readers : ReaderDue(r)' <= Words
    BY <1>3, <1>4, CountEmitterLength
  <2>3. Due' = Due + Rlr
    <3>1. Rlr \in {0, Words} /\ Words \in Nat \ {0}
      BY <1>2, FullLength, Counts
    <3>2. Rlr >= Words => Rlr = Words
      BY <3>1
    <3>3. ~(Rlr >= Words) => Rlr = 0
      BY <3>1
    <3>4. Due' = Due + (IF Rlr >= Words THEN Words ELSE 0)
      BY <1>4, CountEmitterLength
    <3> QED BY <3>2, <3>3, <3>4
  <2> QED BY <1>2, <2>1, <2>2, <2>3, OrderLength
<1>5. CASE EmitterWord
  <2>1. UNCHANGED <<streamVars, lens, open>> /\ data # <<>> /\ data' = Tail(data)
    BY <1>5 DEF EmitterWord
  <2>2. Due' = Due - 1 /\ Due' \in Nat /\ \A r \in Readers : ReaderDue(r)' <= Words
    BY <1>3, <1>5, CountEmitterWord
  <2> QED BY <1>2, <2>1, <2>2, OrderWord
<1>6. ASSUME NEW r \in Readers, ReadsLength(r) PROVE StreamOrder' /\ LengthOrder'
  <2>1. UNCHANGED <<streamVars, data, open>> /\ lens' = DropLength
    BY <1>6 DEF ReadsLength
  <2>2. Rlr <= Words
    BY <1>2, FullLength, Counts
  <2>3. /\ CountInv' /\ Due' = Due + Rlr
        /\ \A o \in Readers : ReaderDue(o)' <= Words
    <3>1. /\ CountInv' /\ Due' = Due + Rlr /\ ReaderDue(r)' = Rlr
          /\ \A o \in Readers \ {r} : ReaderDue(o)' = ReaderDue(o)
      BY <1>6, CountReadsLength
    <3> QED BY <1>3, <2>2, <3>1
  <2> QED BY <1>2, <2>1, <2>3, OrderLength
<1>7. ASSUME NEW r \in Readers, ReadsWord(r) PROVE StreamOrder' /\ LengthOrder'
  <2>1. UNCHANGED <<streamVars, lens, open>> /\ data # <<>> /\ data' = Tail(data)
    BY <1>7 DEF ReadsWord
  <2>2. /\ Due' = Due - 1 /\ Due' \in Nat /\ ReaderDue(r)' = ReaderDue(r) - 1
        /\ \A o \in Readers \ {r} : ReaderDue(o)' = ReaderDue(o)
    BY <1>7, CountReadsWord
  <2>3. ReaderDue(r)' <= Words
    BY <1>3, <2>2, Counts
  <2>4. \A o \in Readers : ReaderDue(o)' <= Words
    BY <1>3, <2>2, <2>3
  <2> QED BY <1>2, <2>1, <2>2, <2>4, OrderWord
<1> QED BY <1>4, <1>5, <1>6, <1>7

\* An end between packets.
LEMMA OrderEnds ==
  ASSUME CountInv, OrderInv, Restart \/ Interrupt
  PROVE  OrderInv'
<1> DEFINE r == IF Restart THEN "clear" ELSE "tool"
<1> SUFFICES ASSUME harm' \subseteq {"race"} PROVE OrderInv'
  BY DEF OrderInv
<1>1. /\ UNCHANGED <<streamVars, fifoVars>>
      /\ rpc[r] # "words" /\ harm' = harm
      /\ rpc' = [rpc EXCEPT ![r] = "idle"] /\ left' = [left EXCEPT ![r] = 0]
      /\ UNCHANGED <<epc, ebuf>> \/ (epc # "words" /\ epc' # "words")
  BY DEF Restart, Interrupt, Goto, emitterVars
<1>2. EmitterDue' = EmitterDue
  BY <1>1 DEF EmitterDue
<1>3. \A o \in Readers : ReaderDue(o)' = ReaderDue(o)
  BY <1>1 DEF ReaderDue, CountInv, TypeOK
<1>4. Due' = Due
  BY <1>2, <1>3 DEF Due, Readers
<1> HIDE DEF r
<1> QED BY <1>1, <1>3, <1>4, OrderKept

LEMMA OrderInit == Init => OrderInv
<1> SUFFICES ASSUME Init PROVE StreamOrder /\ LengthOrder
  BY DEF OrderInv
<1>1. Len(data) = 0 /\ Len(lens) = 0 /\ Words \in Nat /\ Total(lens) = 0
  <2>1. <<>> \in Seq(Nat) /\ Len(<<>>) = 0
    OBVIOUS
  <2> QED BY <2>1, TotalIsNat, FifoAssumption DEF FifoAssumption, Init
<1>2. EmitterDue = 0 /\ \A r \in Readers : ReaderDue(r) = 0
  BY DEF Init, EmitterDue, ReaderDue
<1>3. Due = 0
  BY <1>2 DEF Due, Readers
<1>4. First = <<1, 1>>
  BY DEF Init, First, NextWord
<1>5. StreamOrder
  BY <1>1 DEF Init, StreamOrder
<1>6. LengthOrder
  <2> HIDE DEF Due, ReaderDue
  <2> QED BY <1>1, <1>2, <1>3, <1>4 DEF Init, LengthOrder
<1> QED BY <1>5, <1>6

LEMMA OrderStep == CountInv /\ OrderInv /\ [Next]_vars => OrderInv'
<1> SUFFICES ASSUME CountInv, OrderInv, [Next]_vars PROVE OrderInv'
  OBVIOUS
<1>1. CASE UNCHANGED vars
  <2>1. UNCHANGED <<streamVars, fifoVars, harm>>
        /\ Due' = Due /\ \A r \in Readers : ReaderDue(r)' = ReaderDue(r)
    BY <1>1 DEF vars, emitterVars, readerVars, history, Due, EmitterDue, ReaderDue
  <2> HIDE DEF Due, ReaderDue
  <2> QED BY <2>1, OrderKept
<1>2. ASSUME NEW r \in Readers, Reader(r) PROVE OrderInv'
  BY <1>2, OrderLooks, OrderReads DEF Reader
<1> QED BY <1>1, <1>2, OrderStream, OrderLooks, OrderReads, OrderEnds DEF Next

\* Counting on, the remainder grows by one or starts again.
LEMMA NextRemainder ==
  ASSUME NEW n \in Nat, NEW w \in Nat \ {0}
  PROVE  (n + 1) % w = IF n % w = w - 1 THEN 0 ELSE (n % w) + 1
<1> DEFINE q == n \div w
           r == n % w
           p == (n + 1) \div w
           t == (n + 1) % w
<1>1. q \in Int /\ r \in 0 .. w - 1 /\ n = w * q + r
  OBVIOUS
<1>2. p \in Int /\ t \in 0 .. w - 1 /\ n + 1 = w * p + t
  OBVIOUS
<1> HIDE DEF q, r, p, t
<1>3. w * (p - q) = r + 1 - t
  BY <1>1, <1>2
<1>4. p - q \in {0, 1}
  <2> DEFINE d == p - q
  <2>1. d \in Int /\ w * d = r + 1 - t
    BY <1>1, <1>2, <1>3
  <2>2. r + 1 - t \in -(w - 2) .. w
    BY <1>1, <1>2
  <2> HIDE DEF d
  <2>3. d > -1
    <3> SUFFICES ASSUME d <= -1 PROVE FALSE
      BY <2>1
    <3>1. w * d <= -w
      BY <2>1
    <3> QED BY <2>1, <2>2, <3>1
  <2>4. d < 2
    <3> SUFFICES ASSUME d >= 2 PROVE FALSE
      BY <2>1
    <3>1. w * d >= 2 * w
      BY <2>1
    <3> QED BY <2>1, <2>2, <3>1
  <2> QED BY <2>1, <2>3, <2>4 DEF d
<1>5. CASE p - q = 0
  <2>1. t = r + 1
    BY <1>1, <1>2, <1>3, <1>5
  <2> QED BY <1>1, <1>2, <2>1 DEF r, t
<1>6. CASE p - q = 1
  <2>1. t = r + 1 - w
    BY <1>1, <1>2, <1>3, <1>6
  <2>2. t = 0 /\ r = w - 1
    BY <1>1, <1>2, <2>1
  <2> QED BY <2>2 DEF r, t
<1> QED BY <1>4, <1>5, <1>6

\* Words that follow one another from the begin of a packet are whole packets.
LEMMA InPackets ==
  ASSUME CountInv, StreamOrder, First[2] = 1
  PROVE  \A k \in 1 .. Len(data) :
           /\ data[k][2] = ((k - 1) % Words) + 1
           /\ data[k][1] = data[k + 1 - data[k][2]][1]
<1> DEFINE n == Len(data)
           Is(k) == /\ data[k][2] = ((k - 1) % Words) + 1
                    /\ data[k][1] = data[k + 1 - data[k][2]][1]
           T == {k \in 0 .. n : k = 0 \/ Is(k)}
<1>1. n \in Nat /\ Words \in Nat \ {0} /\ data \in Seq(Word)
  BY Counts DEF CountInv, TypeOK
<1>2. ASSUME NEW k \in 1 .. n PROVE data[k][2] \in 1 .. Words
  <2>1. data[k] \in Word
    BY <1>1, <1>2, ElementOfSeq
  <2> QED BY <2>1 DEF Word
<1>3. \A k \in 1 .. n - 1 : data[k + 1] = After(data[k])
  BY DEF StreamOrder
<1>4. n > 0 => data[1][2] = 1
  <2>1. n > 0 => data # <<>>
    BY EmptySeq
  <2> QED BY <2>1 DEF First
<1> HIDE DEF n
<1>5. ASSUME NEW k \in 0 .. n - 1, k \in T PROVE k + 1 \in T
  <2>1. CASE k = 0
    <3>1. 0 % Words = 0
      BY <1>1
    <3>2. data[1][2] = 1 /\ 1 + 1 - 1 = 1 /\ 1 - 1 = 0
      BY <1>1, <1>4
    <3>3. Is(1)
      BY <3>1, <3>2
    <3> HIDE DEF Is
    <3> QED BY <2>1, <3>3, <1>1
  <2>2. CASE k # 0
    <3>1. k \in 1 .. n - 1 /\ k \in 1 .. n /\ k - 1 \in Nat /\ k - 1 + 1 = k
      BY <1>1, <2>2
    <3>2. Is(k)
      BY <1>5, <2>2
    <3>3. data[k + 1] = After(data[k]) /\ data[k][2] \in 1 .. Words
      BY <1>2, <1>3, <3>1
    <3>4. k % Words = IF (k - 1) % Words = Words - 1 THEN 0 ELSE ((k - 1) % Words) + 1
      <4>1. (k - 1 + 1) % Words = IF (k - 1) % Words = Words - 1 THEN 0 ELSE ((k - 1) % Words) + 1
        BY <1>1, <3>1, NextRemainder
      <4> QED BY <3>1, <4>1
    <3> DEFINE m == (k - 1) % Words
               j == data[k][2]
    <3>5. j = m + 1 /\ m \in 0 .. Words - 1 /\ data[k][1] = data[k + 1 - j][1]
      BY <1>1, <3>1, <3>2
    <3>6. k % Words = IF m = Words - 1 THEN 0 ELSE m + 1
      BY <3>4
    <3>7. data[k + 1] = IF j = Words THEN <<data[k][1] + 1, 1>> ELSE <<data[k][1], j + 1>>
      BY <3>3 DEF After
    <3> HIDE DEF m, j
    <3>8. data[k + 1][2] = (k % Words) + 1
      BY <1>1, <3>5, <3>6, <3>7
    <3>9. data[k + 1][1] = data[k + 1 + 1 - data[k + 1][2]][1]
      <4>1. CASE j = Words
        <5>1. data[k + 1][2] = 1 /\ k + 1 + 1 - 1 = k + 1
          BY <3>1, <3>7, <4>1
        <5> QED BY <5>1
      <4>2. CASE j # Words
        <5>1. data[k + 1][2] = j + 1 /\ data[k + 1][1] = data[k][1]
              /\ k + 1 + 1 - (j + 1) = k + 1 - j
          BY <3>1, <3>5, <3>7, <4>2, <1>1
        <5> QED BY <3>5, <5>1
      <4> QED BY <4>1, <4>2
    <3>10. Is(k + 1)
      <4>1. k + 1 - 1 = k
        BY <3>1
      <4> QED BY <3>8, <3>9, <4>1
    <3> HIDE DEF Is
    <3> QED BY <3>1, <3>10, <1>1
  <2> QED BY <2>1, <2>2
<1>6. \A k \in 0 .. n : k \in T
  <2>1. 0 \in T
    BY <1>1
  <2> HIDE DEF T
  <2> QED BY <1>1, <1>5, <2>1, UpTo
<1>7. \A k \in 1 .. n : Is(k)
  <2> HIDE DEF Is
  <2> QED BY <1>1, <1>6
<1> QED BY <1>7 DEF n

\* Between reads the FIFO holds whole packets in a row, for packets of any
\* length, also when readers have read at the same time: each takes as many
\* words as a packet has, whichever they are (read_fifo).
THEOREM StaysAligned == Spec => []Aligned
<1>1. CountInv /\ OrderInv => Aligned
  <2> SUFFICES ASSUME CountInv, OrderInv, harm \subseteq {"race"},
                      "words" \notin {epc, rpc["clear"], rpc["tool"]}
               PROVE  \A k \in 1 .. Len(data) :
                        /\ data[k][2] = ((k - 1) % Words) + 1
                        /\ data[k][1] = data[k + 1 - data[k][2]][1]
    BY DEF Aligned
  <2>1. StreamOrder /\ LengthOrder
    BY DEF OrderInv
  <2>2. Due = 0
    BY DEF Due, EmitterDue, ReaderDue
  <2>3. First[2] = 1
    <3> HIDE DEF Due, First
    <3> QED BY <2>1, <2>2, FirstWord
  <2> QED BY <2>1, <2>3, InPackets
<1> QED BY <1>1, CountInit, CountStep, OrderInit, OrderStep, PTL DEF Spec

-----------------------------------------------------------------------------
(* That each event comes once.                                             *)

\* One reader at a time.
OnlyOne ==
  /\ epc # "look" => \A r \in Readers : rpc[r] = "idle"
  /\ \A r, o \in Readers : r # o => rpc[r] = "idle" \/ rpc[o] = "idle"

\* All events before the one of the word read next were handed over or taken
\* by the other readers; of that one the emitter has the words before, or
\* another reader has taken them.
Once ==
  /\ OnlyOne
  /\ epc = "length" => lens # <<>>
  /\ epc = "words" => \A k \in 1 .. Len(ebuf) : ebuf[k] = <<First[1], k>>
  /\ ~stale
  /\ \A p \in handed : (\E e \in Events : p = Whole(e)) /\ p[1][1] < First[1]
  /\ \A d \in discarded : d < First[1] \/ (d = First[1] /\ First[2] > 1 /\ epc # "words")
  /\ \A e \in Events : e < First[1] => e \in Handed \cup discarded
  /\ Handed \cap discarded = {}

OnceInv == harm = {} => Once

\* One more is no more than one.
LEMMA TwoAtLeast ==
  ASSUME NEW S, IsFiniteSet(S), NEW x \in S, NEW y \in S, x # y
  PROVE  Cardinality(S) > 1
<1>1. Cardinality(S) \in Nat
  BY FS_CardinalityType
<1>2. Cardinality(S) # 0
  BY FS_EmptySet
<1>3. Cardinality(S) # 1
  BY FS_Singleton
<1> QED BY <1>1, <1>2, <1>3

\* While the emitter alone reads words, it has those of First's event before it;
\* while nobody reads words First is the first of its event.
LEMMA Place ==
  ASSUME CountInv, StreamOrder, LengthOrder, OnlyOne
  PROVE  /\ epc = "words" => First[2] = Len(ebuf) + 1
         /\ epc # "words" /\ (\A r \in Readers : rpc[r] # "words") => First[2] = 1 /\ Due = 0
<1>1. Words \in Nat \ {0} /\ Len(ebuf) \in Nat /\ First[2] \in 1 .. Words
  BY Counts, FirstWord
<1>2. ASSUME epc = "words" PROVE First[2] = Len(ebuf) + 1
  <2>1. \A r \in Readers : ReaderDue(r) = 0
    BY <1>2 DEF OnlyOne, ReaderDue
  <2>2. Due = Words - Len(ebuf) /\ Len(ebuf) < Words
    <3>1. EmitterDue = Words - Len(ebuf) /\ Len(ebuf) < Words
      BY <1>2 DEF EmitterDue, CountInv
    <3>2. Words - Len(ebuf) + 0 + 0 = Words - Len(ebuf)
      BY <1>1
    <3> QED BY <2>1, <3>1, <3>2 DEF Due, Readers
  <2>3. First[2] - 1 + Due \in {0, Words, 2 * Words, 3 * Words}
    BY DEF LengthOrder
  <2> DEFINE f == First[2]
             l == Len(ebuf)
  <2>4. f - 1 + (Words - l) \in {0, Words, 2 * Words, 3 * Words}
    BY <2>2, <2>3
  <2> HIDE DEF f, l
  <2>5. f \in 1 .. Words /\ l \in Nat /\ l < Words
    BY <1>1, <2>2 DEF f, l
  <2>6. f = l + 1
    BY <1>1, <2>4, <2>5
  <2> QED BY <2>6 DEF f, l
<1>3. ASSUME epc # "words", \A r \in Readers : rpc[r] # "words" PROVE First[2] = 1 /\ Due = 0
  <2>1. Due = 0
    BY <1>3 DEF Due, EmitterDue, ReaderDue, Readers
  <2> HIDE DEF Due, First
  <2> QED BY <2>1, FirstWord
<1> QED BY <1>2, <1>3

\* Steps that only move readers, or only the stream.
LEMMA OnceKept ==
  ASSUME Once, UNCHANGED <<handed, stale, discarded, ebuf>>,
         First' = First, OnlyOne', epc' = "length" => lens' # <<>>,
         epc' = "words" => epc = "words"
  PROVE  Once'
<1>1. Handed' = Handed
  BY DEF Handed
<1>2. First[1]' = First[1] /\ First[2]' = First[2]
  OBVIOUS
<1>3. epc' = "words" => \A k \in 1 .. Len(ebuf') : ebuf'[k] = <<First[1]', k>>
  BY <1>2 DEF Once
<1>4. \A p \in handed' : (\E e \in Events : p = Whole(e)) /\ p[1][1] < First[1]'
  BY <1>2 DEF Once
<1>5. \A d \in discarded' : d < First[1]' \/ (d = First[1]' /\ First[2]' > 1 /\ epc' # "words")
  <2> SUFFICES ASSUME NEW d \in discarded
               PROVE  d < First[1] \/ (d = First[1] /\ First[2] > 1 /\ epc' # "words")
    BY <1>2
  <2> HIDE DEF First
  <2> QED BY DEF Once
<1>6. \A e \in Events : e < First[1]' => e \in Handed' \cup discarded'
  BY <1>1, <1>2 DEF Once
<1>7. Handed' \cap discarded' = {} /\ ~stale'
  BY <1>1 DEF Once
<1> QED BY <1>3, <1>4, <1>5, <1>6, <1>7 DEF Once, Whole

\* A reader that was active goes on, or one ends.
LEMMA OnlyOneKept ==
  ASSUME CountInv, OnlyOne, NEW r \in Readers, NEW l,
         rpc' = [rpc EXCEPT ![r] = l], rpc[r] # "idle" \/ l = "idle",
         epc' \in {epc, "look"}
  PROVE  OnlyOne'
BY DEF OnlyOne, CountInv, TypeOK

\* The stream.
LEMMA OnceStream ==
  ASSUME CountInv, OrderInv, OnceInv, EventBegins \/ WriteWord \/ Cut
  PROVE  OnceInv'
<1> SUFFICES ASSUME harm' = {} PROVE Once'
  BY DEF OnceInv
<1>1. harm = {} /\ UNCHANGED <<epc, ebuf, rpc, handed, stale, discarded>>
  BY DEF EventBegins, WriteWord, Cut, emitterVars, readerVars, history
<1>2. Once
  BY <1>1 DEF OnceInv
<1>3. First' = First
  BY OrderStream
<1>4. OnlyOne'
  BY <1>1, <1>2 DEF Once, OnlyOne
<1>5. lens # <<>> => lens' # <<>>
  <2>1. lens' = lens \/ lens' = Append(lens, open + 1)
    BY DEF EventBegins, WriteWord, Cut, fifoVars
  <2>2. Append(lens, open + 1) # <<>>
    <3>1. lens \in Seq(Nat) /\ open + 1 \in Nat
      <4>1. 1 .. Depth \subseteq Nat /\ lens \in Seq(1 .. Depth)
        BY Counts DEF CountInv, TypeOK
      <4> QED BY <4>1, SeqMonotonic, Counts
    <3> QED BY <3>1, AppendProperties
  <2> QED BY <2>1, <2>2
<1>6. epc' = "length" => lens' # <<>>
  BY <1>1, <1>2, <1>5 DEF Once
<1> QED BY <1>1, <1>2, <1>3, <1>4, <1>6, OnceKept

\* The emitter finds a packet, alone.
LEMMA OnceEmitterLooks ==
  ASSUME CountInv, OrderInv, OnceInv, EmitterLooks
  PROVE  OnceInv'
<1> SUFFICES ASSUME harm' = {} PROVE Once'
  BY DEF OnceInv
<1>1. /\ UNCHANGED <<ev, next, data, lens, open, ebuf, rpc, handed, stale, discarded>>
      /\ epc = "look" /\ epc' = "length" /\ Rdfo > 0
  BY DEF EmitterLooks, streamVars, fifoVars
<1> DEFINE active == {r \in Readers : rpc'[r] # "idle"}
                       \cup IF epc' = "look" THEN {} ELSE {"emitter"}
<1>2. harm = {} /\ ~(Cardinality(active) > 1)
  BY DEF EmitterLooks, Raced
<1>3. \A r \in Readers : rpc'[r] = "idle"
  <2> SUFFICES ASSUME NEW r \in Readers, rpc'[r] # "idle" PROVE FALSE
    OBVIOUS
  <2>1. r \in active /\ "emitter" \in active /\ r # "emitter"
    BY <1>1 DEF Readers
  <2>2. IsFiniteSet(active)
    <3>1. active \subseteq {"clear", "tool", "emitter"}
      BY DEF Readers
    <3>2. IsFiniteSet({"clear", "tool", "emitter"})
      <4>1. IsFiniteSet({"clear"} \cup {"tool"} \cup {"emitter"})
        BY FS_Singleton, FS_Union
      <4>2. {"clear"} \cup {"tool"} \cup {"emitter"} = {"clear", "tool", "emitter"}
        OBVIOUS
      <4> QED BY <4>1, <4>2
    <3> HIDE DEF active
    <3> QED BY <3>1, <3>2, FS_Subset
  <2> HIDE DEF active
  <2> QED BY <1>2, <2>1, <2>2, TwoAtLeast
<1> HIDE DEF active
<1>4. Once /\ StreamOrder /\ LengthOrder
  BY <1>2 DEF OnceInv, OrderInv
<1>5. OnlyOne'
  BY <1>3 DEF OnlyOne
<1>6. First' = First
  BY <1>1 DEF First, NextWord
<1>7. lens' # <<>>
  <2>1. OnlyOne
    BY <1>4 DEF Once
  <2>2. Due = 0
    <3>1. epc # "words" /\ \A r \in Readers : rpc[r] # "words"
      BY <1>1, <1>3
    <3> QED BY <1>4, <2>1, <3>1, Place
  <2>3. Total(lens) # 0
    <3>1. Due + Total(lens) + open = Len(data)
      BY <1>4 DEF LengthOrder
    <3>2. Rdfo = Len(data) - open
      BY DEF Rdfo
    <3>3. Total(lens) \in Nat /\ open \in Nat
      BY Counts
    <3> QED BY <1>1, <2>2, <3>1, <3>2, <3>3
  <2>4. lens \in Seq(Nat)
    <3>1. 1 .. Depth \subseteq Nat /\ lens \in Seq(1 .. Depth)
      BY Counts DEF CountInv, TypeOK
    <3> QED BY <3>1, SeqMonotonic
  <2> QED BY <1>1, <2>3, <2>4, TotalIsNat
<1>8. epc' = "words" => epc = "words"
  BY <1>1
<1> QED BY <1>1, <1>4, <1>5, <1>6, <1>7, <1>8, OnceKept

\* The emitter reads the length of a packet, which is there.
LEMMA OnceEmitterLength ==
  ASSUME CountInv, OrderInv, OnceInv, EmitterLength
  PROVE  OnceInv'
<1> SUFFICES ASSUME harm' = {} PROVE Once'
  BY DEF OnceInv
<1>1. /\ UNCHANGED <<ev, next, data, open, rpc, harm, discarded>> /\ epc = "length"
  BY DEF EmitterLength, streamVars, readerVars
<1>2. Once /\ StreamOrder /\ LengthOrder
  BY <1>1 DEF OnceInv, OrderInv
<1>3. lens # <<>> /\ Rlr >= Words
  <2>1. lens # <<>>
    BY <1>1, <1>2 DEF Once
  <2>2. Rlr = Words
    BY <1>2, <2>1, FullLength
  <2> QED BY <2>1, <2>2, Counts
<1>4. epc' = "words" /\ ebuf' = <<>> /\ UNCHANGED <<handed, stale>>
  <2>1. ~(Rlr < Words)
    BY <1>3, Counts, LengthTaken
  <2> QED BY <2>1 DEF EmitterLength
<1>5. First[2] = 1
  <2>1. OnlyOne /\ \A r \in Readers : rpc[r] # "words"
    BY <1>1, <1>2 DEF Once, OnlyOne
  <2> QED BY <1>1, <1>2, <2>1, Place
<1>6. First' = First /\ Handed' = Handed
  BY <1>1, <1>4 DEF First, NextWord, Handed
<1>7. First[1]' = First[1] /\ First[2]' = First[2]
  BY <1>6
<1>8. OnlyOne'
  BY <1>1, <1>2, <1>4 DEF Once, OnlyOne
<1>9. \A k \in 1 .. Len(ebuf') : ebuf'[k] = <<First[1]', k>>
  BY <1>4
<1>10. \A d \in discarded' : d < First[1]'
  <2> HIDE DEF First
  <2>1. ~(First[2] > 1)
    BY <1>5
  <2> QED BY <1>1, <1>2, <1>7, <2>1 DEF Once
<1>11. epc' # "length"
  BY <1>4
<1>12. /\ ~stale'
       /\ \A p \in handed' : (\E e \in Events : p = Whole(e)) /\ p[1][1] < First[1]'
       /\ \A e \in Events : e < First[1]' => e \in Handed' \cup discarded'
       /\ Handed' \cap discarded' = {}
  BY <1>1, <1>2, <1>4, <1>6, <1>7 DEF Once
<1> QED BY <1>8, <1>9, <1>10, <1>11, <1>12 DEF Once, Whole

\* The emitter reads a word, the last one of a packet or one before.
LEMMA OnceEmitterWord ==
  ASSUME CountInv, OrderInv, OnceInv, EmitterWord
  PROVE  OnceInv'
<1> SUFFICES ASSUME harm' = {} PROVE Once'
  BY DEF OnceInv
<1>1. /\ UNCHANGED <<ev, next, lens, open, rpc, harm, stale, discarded>>
      /\ epc = "words" /\ data # <<>> /\ data' = Tail(data)
      /\ ebuf' = Append(ebuf, Head(data))
      /\ epc' = IF Len(ebuf') = Words THEN "look" ELSE "words"
      /\ handed' = IF epc' = "look" THEN handed \cup {ebuf'} ELSE handed
  BY DEF EmitterWord, streamVars, readerVars
<1>2. Once /\ StreamOrder /\ LengthOrder /\ OnlyOne
  BY <1>1 DEF OnceInv, OrderInv, Once
<1> DEFINE e == First[1]
           n == Len(ebuf)
<1>3. First = <<e, n + 1>> /\ Head(data) = First /\ n \in Nat /\ n < Words /\ Words \in Nat
  <2>1. First[2] = n + 1 /\ First = <<First[1], First[2]>>
    BY <1>1, <1>2, Place, FirstWord
  <2>2. Head(data) = First
    BY <1>1, WordTaken DEF First
  <2>3. n \in Nat /\ n < Words /\ Words \in Nat
    BY <1>1, Counts DEF CountInv
  <2> QED BY <2>1, <2>2, <2>3
<1>4. e \in Events
  <2>1. Head(data)[1] \in Events
    BY <1>1, WordTaken
  <2> HIDE DEF First
  <2> QED BY <1>3, <2>1
<1>5. First' = After(First)
  BY <1>1, <1>2, WordGone
<1>6. /\ Len(ebuf') = n + 1
      /\ \A k \in 1 .. n + 1 : ebuf'[k] = <<e, k>>
      /\ ebuf' \in Seq(Word)
  <2>1. ebuf \in Seq(Word) /\ Head(data) \in Word
    BY <1>1, WordTaken DEF CountInv, TypeOK
  <2>2. /\ Len(ebuf') = n + 1 /\ ebuf'[n + 1] = Head(data) /\ ebuf' \in Seq(Word)
        /\ \A k \in 1 .. n : ebuf'[k] = ebuf[k]
    BY <1>1, <2>1, AppendProperties
  <2>3. \A k \in 1 .. n : ebuf[k] = <<e, k>>
    BY <1>1, <1>2 DEF Once
  <2> HIDE DEF e, n
  <2> QED BY <1>3, <2>2, <2>3
<1>7. OnlyOne'
  BY <1>1, <1>2 DEF OnlyOne
<1>8. e \in Int /\ \A d \in discarded : d \in Int
  BY <1>4, FifoAssumption DEF Events, FifoAssumption, CountInv, TypeOK
<1>9. /\ \A p \in handed : (\E x \in Events : p = Whole(x)) /\ p[1][1] < e
      /\ \A d \in discarded : d < e
      /\ \A x \in Events : x < e => x \in Handed \cup discarded
      /\ Handed \cap discarded = {} /\ ~stale
  BY <1>1, <1>2 DEF Once
<1> HIDE DEF e, n, First
<1>10. After(First) = IF n + 1 = Words THEN <<e + 1, 1>> ELSE <<e, n + 2>>
  BY <1>3 DEF After
<1>11. CASE n + 1 = Words
  <2>1. First[1]' = e + 1 /\ First[2]' = 1 /\ epc' = "look" /\ handed' = handed \cup {ebuf'}
    BY <1>1, <1>5, <1>6, <1>10, <1>11
  <2>2. ebuf' = Whole(e)
    <3>1. ebuf' = [k \in 1 .. n + 1 |-> ebuf'[k]]
      BY <1>6, LenProperties
    <3> QED BY <1>6, <1>11, <3>1 DEF Whole
  <2>3. Handed' = Handed \cup {e}
    <3>1. ebuf'[1][1] = e
      BY <1>3, <1>6, <1>11
    <3> QED BY <2>1, <3>1 DEF Handed
  <2>4. \A p \in handed' : (\E x \in Events : p = Whole(x)) /\ p[1][1] < First[1]'
    <3> SUFFICES ASSUME NEW p \in handed'
                 PROVE  (\E x \in Events : p = Whole(x)) /\ p[1][1] < e + 1
      BY <2>1
    <3>1. CASE p = ebuf'
      <4>1. p[1][1] = e
        BY <1>3, <1>6, <1>11, <3>1
      <4> QED BY <1>4, <1>8, <2>2, <3>1, <4>1
    <3>2. CASE p \in handed
      <4>1. PICK x \in Events : p = Whole(x)
        BY <1>9, <3>2
      <4>2. p[1][1] = x
        BY <1>3, <1>11, <4>1 DEF Whole
      <4>3. x < e /\ x \in Int
        BY <1>9, <3>2, <4>2 DEF Events
      <4> QED BY <1>8, <4>1, <4>2, <4>3
    <3> QED BY <2>1, <3>1, <3>2
  <2>5. \A d \in discarded' : d < First[1]'
    BY <1>1, <1>8, <1>9, <2>1
  <2>6. \A x \in Events : x < First[1]' => x \in Handed' \cup discarded'
    <3> SUFFICES ASSUME NEW x \in Events, x < e + 1 PROVE x \in Handed \cup {e} \cup discarded
      BY <1>1, <2>1, <2>3
    <3>1. x = e \/ x < e
      BY <1>8 DEF Events
    <3> QED BY <1>9, <3>1
  <2>7. Handed' \cap discarded' = {}
    <3>1. e \notin discarded
      BY <1>8, <1>9
    <3> QED BY <1>1, <1>9, <2>3, <3>1
  <2>8. epc' # "length" /\ epc' # "words" /\ ~stale'
    BY <1>1, <1>9, <2>1
  <2> QED BY <1>7, <2>4, <2>5, <2>6, <2>7, <2>8 DEF Once, Whole
<1>12. CASE n + 1 # Words
  <2>1. First[1]' = e /\ epc' = "words" /\ handed' = handed
    BY <1>1, <1>5, <1>6, <1>10, <1>12
  <2>2. Handed' = Handed
    BY <2>1 DEF Handed
  <2>3. \A k \in 1 .. Len(ebuf') : ebuf'[k] = <<First[1]', k>>
    BY <1>6, <2>1
  <2>4. /\ ~stale' /\ epc' # "length"
        /\ \A p \in handed' : (\E x \in Events : p = Whole(x)) /\ p[1][1] < First[1]'
        /\ \A d \in discarded' : d < First[1]'
        /\ \A x \in Events : x < First[1]' => x \in Handed' \cup discarded'
        /\ Handed' \cap discarded' = {}
    BY <1>1, <1>9, <2>1, <2>2
  <2> QED BY <1>7, <2>3, <2>4 DEF Once, Whole
<1> QED BY <1>11, <1>12

\* Another reader begins, alone, or looks, or reads a length.
LEMMA OnceReaderMoves ==
  ASSUME CountInv, OrderInv, OnceInv, NEW r \in Readers,
         Begins(r) \/ Looks(r) \/ ReadsLength(r)
  PROVE  OnceInv'
<1> SUFFICES ASSUME harm' = {} PROVE Once'
  BY DEF OnceInv
<1>1. /\ UNCHANGED <<ev, next, data, open, epc, ebuf, handed, stale, discarded>>
      /\ harm = {}
  BY DEF Begins, Looks, ReadsLength, Raced, streamVars, fifoVars, emitterVars, history
<1>2. Once
  BY <1>1 DEF OnceInv
<1>3. First' = First
  BY <1>1 DEF First, NextWord
<1>4. CASE Begins(r)
  <2> DEFINE active == {o \in Readers : rpc'[o] # "idle"}
                         \cup IF epc' = "look" THEN {} ELSE {"emitter"}
  <2>1. ~(Cardinality(active) > 1) /\ rpc' = [rpc EXCEPT ![r] = "check"] /\ lens' = lens
    BY <1>1, <1>4 DEF Begins, Raced, Goto, fifoVars
  <2>2. r \in active
    BY <2>1 DEF CountInv, TypeOK
  <2>3. IsFiniteSet(active)
    <3>1. active \subseteq {"clear", "tool", "emitter"}
      BY DEF Readers
    <3>2. IsFiniteSet({"clear", "tool", "emitter"})
      <4>1. IsFiniteSet({"clear"} \cup {"tool"} \cup {"emitter"})
        BY FS_Singleton, FS_Union
      <4>2. {"clear"} \cup {"tool"} \cup {"emitter"} = {"clear", "tool", "emitter"}
        OBVIOUS
      <4> QED BY <4>1, <4>2
    <3> HIDE DEF active
    <3> QED BY <3>1, <3>2, FS_Subset
  <2>4. \A x \in active : x = r
    <3> HIDE DEF active
    <3> QED BY <2>1, <2>2, <2>3, TwoAtLeast
  <2>5. epc' = "look" /\ \A o \in Readers \ {r} : rpc'[o] = "idle"
    <3>1. "emitter" # r
      BY DEF Readers
    <3> QED BY <2>4, <3>1
  <2> HIDE DEF active
  <2>6. OnlyOne'
    BY <2>5 DEF OnlyOne
  <2>7. epc' # "length"
    BY <2>5
  <2>8. epc' = "words" => epc = "words"
    BY <1>1
  <2> QED BY <1>1, <1>2, <1>3, <2>6, <2>7, <2>8, OnceKept
<1>5. CASE Looks(r) \/ ReadsLength(r)
  <2>1. rpc[r] # "idle" /\ \E l : rpc' = [rpc EXCEPT ![r] = l]
    BY <1>5 DEF Looks, ReadsLength, Goto
  <2>2. OnlyOne' /\ epc' = "look"
    <3>1. epc = "look"
      BY <1>2, <2>1 DEF Once, OnlyOne
    <3>2. OnlyOne /\ epc' \in {epc, "look"}
      BY <1>1, <1>2 DEF Once
    <3> QED BY <1>1, <2>1, <3>1, <3>2, OnlyOneKept
  <2>3. epc' # "length" /\ (epc' = "words" => epc = "words")
    BY <2>2
  <2> QED BY <1>1, <1>2, <1>3, <2>2, <2>3, OnceKept
<1> QED BY <1>4, <1>5

\* A reader checks: goes on, ends, or ends with nothing left at all.
LEMMA OnceChecks ==
  ASSUME CountInv, OrderInv, OnceInv, NEW r \in Readers, Checks(r)
  PROVE  OnceInv'
<1> SUFFICES ASSUME harm' = {} PROVE Once'
  BY DEF OnceInv
<1> DEFINE l == IF Rdfo > 0 THEN "look" ELSE "idle"
           clear == /\ data = <<>> /\ lens = <<>> /\ next = 0
                    /\ epc = "look" /\ \A o \in Readers : rpc'[o] = "idle"
<1>1. /\ UNCHANGED <<ev, next, data, lens, open, epc, ebuf>>
      /\ rpc[r] = "check" /\ rpc' = [rpc EXCEPT ![r] = l]
  BY DEF Checks, streamVars, fifoVars, emitterVars, Goto
<1>2. First' = First
  BY <1>1 DEF First, NextWord
<1>3. CASE clear
  <2>1. handed' = {} /\ stale' = FALSE /\ discarded' = 1 .. ev
    BY <1>3 DEF Checks
  <2>2. First[1]' = ev + 1
    BY <1>1, <1>3 DEF First, NextWord
  <2>3. ev \in Nat
    BY FifoAssumption DEF FifoAssumption, CountInv, TypeOK
  <2>4. Handed' = {}
    BY <2>1 DEF Handed
  <2>5. OnlyOne'
    BY <1>1, <1>3 DEF OnlyOne
  <2>6. epc' = "look"
    BY <1>1, <1>3
  <2>7. \A d \in discarded' : d < First[1]'
    BY <2>1, <2>2, <2>3
  <2>8. \A e \in Events : e < First[1]' => e \in Handed' \cup discarded'
    BY <2>1, <2>2, <2>3 DEF Events
  <2>9. epc' # "length" /\ epc' # "words"
    BY <2>6
  <2> QED BY <2>1, <2>4, <2>5, <2>7, <2>8, <2>9 DEF Once
<1>4. CASE ~clear
  <2>1. UNCHANGED <<harm, handed, stale, discarded>>
    BY <1>4 DEF Checks, history
  <2>2. Once
    BY <2>1 DEF OnceInv
  <2>3. OnlyOne' /\ epc = "look"
    <3>1. OnlyOne /\ epc' \in {epc, "look"} /\ rpc[r] # "idle"
      BY <1>1, <2>2 DEF Once
    <3>2. epc = "look"
      BY <3>1 DEF OnlyOne
    <3> HIDE DEF l
    <3> QED BY <1>1, <3>1, <3>2, OnlyOneKept
  <2>4. epc' # "length" /\ (epc' = "words" => epc = "words")
    BY <1>1, <2>3
  <2> QED BY <1>1, <1>2, <2>1, <2>2, <2>3, <2>4, OnceKept
<1> QED BY <1>3, <1>4

\* A reader takes a word.
LEMMA OnceReadsWord ==
  ASSUME CountInv, OrderInv, OnceInv, NEW r \in Readers, ReadsWord(r)
  PROVE  OnceInv'
<1> SUFFICES ASSUME harm' = {} PROVE Once'
  BY DEF OnceInv
<1>1. /\ UNCHANGED <<ev, next, lens, open, epc, ebuf, harm, handed, stale>>
      /\ rpc[r] = "words" /\ data # <<>> /\ data' = Tail(data)
      /\ discarded' = discarded \cup {Head(data)[1]}
  BY DEF ReadsWord, streamVars, emitterVars
<1>2. Once /\ StreamOrder /\ LengthOrder /\ OnlyOne
  BY <1>1 DEF OnceInv, OrderInv, Once
<1>3. OnlyOne' /\ epc = "look"
  <2>1. epc = "look"
    BY <1>1, <1>2 DEF OnlyOne
  <2>2. \E l : rpc' = [rpc EXCEPT ![r] = l]
    BY DEF ReadsWord, Goto
  <2>3. rpc[r] # "idle" /\ epc' \in {epc, "look"}
    BY <1>1
  <2> QED BY <1>2, <2>1, <2>2, <2>3, OnlyOneKept
<1> DEFINE e == First[1]
           f == First[2]
<1>4. First = <<e, f>> /\ Head(data) = First /\ f \in 1 .. Words /\ e \in Nat /\ Words \in Nat
  BY <1>1, <1>2, FirstWord, WordTaken, Counts DEF First
<1>5. First' = After(First)
  BY <1>1, <1>2, WordGone
<1>6. /\ \A p \in handed : (\E x \in Events : p = Whole(x)) /\ p[1][1] < e
      /\ \A d \in discarded : d < e \/ d = e
      /\ \A x \in Events : x < e => x \in Handed \cup discarded
      /\ Handed \cap discarded = {} /\ ~stale
  BY <1>2 DEF Once
<1>7. \A d \in discarded : d \in Nat
  BY FifoAssumption DEF Events, FifoAssumption, CountInv, TypeOK
<1> HIDE DEF e, f, First
<1>8. After(First) = IF f = Words THEN <<e + 1, 1>> ELSE <<e, f + 1>>
  BY <1>4 DEF After
<1>9. discarded' = discarded \cup {e}
  BY <1>1, <1>4
<1>10. Handed' = Handed
  BY <1>1 DEF Handed
<1>11. \A p \in Handed : p < e /\ p \in Nat
  <2> SUFFICES ASSUME NEW p \in handed PROVE p[1][1] < e /\ p[1][1] \in Nat
    BY DEF Handed
  <2>1. PICK x \in Events : p = Whole(x)
    BY <1>6
  <2>2. p[1] = <<x, 1>>
    BY <2>1, <1>4 DEF Whole
  <2> QED BY <1>6, <2>2 DEF Events
<1>12. Handed' \cap discarded' = {}
  BY <1>6, <1>9, <1>10, <1>11, <1>4
<1>13. e <= First[1]' /\ First[1]' <= e + 1 /\ First[1]' \in Nat
       /\ (First[1]' = e => First[2]' > 1)
  BY <1>4, <1>5, <1>8
<1>14. \A p \in handed' : (\E x \in Events : p = Whole(x)) /\ p[1][1] < First[1]'
  <2> SUFFICES ASSUME NEW p \in handed PROVE p[1][1] < First[1]'
    BY <1>1, <1>6
  <2>1. p[1][1] \in Handed
    BY DEF Handed
  <2> QED BY <2>1, <1>4, <1>11, <1>13
<1>15. \A d \in discarded' : d < First[1]' \/ (d = First[1]' /\ First[2]' > 1 /\ epc' # "words")
  <2> SUFFICES ASSUME NEW d \in discarded \cup {e}
               PROVE  d < First[1]' \/ (d = First[1]' /\ First[2]' > 1)
    BY <1>1, <1>3, <1>9
  <2>1. d \in Nat /\ d <= e
    BY <1>4, <1>6, <1>7
  <2> QED BY <1>4, <1>13, <2>1
<1>16. \A x \in Events : x < First[1]' => x \in Handed' \cup discarded'
  <2> SUFFICES ASSUME NEW x \in Events, x < First[1]' PROVE x \in Handed \cup discarded \cup {e}
    BY <1>9, <1>10
  <2>1. x < e \/ x = e
    BY <1>4, <1>13 DEF Events
  <2> QED BY <1>6, <2>1
<1>17. ~stale' /\ epc' # "length" /\ epc' # "words"
  BY <1>1, <1>3, <1>6
<1> QED BY <1>3, <1>12, <1>14, <1>15, <1>16, <1>17 DEF Once, Whole

\* An end between packets.
LEMMA OnceEnds ==
  ASSUME CountInv, OrderInv, OnceInv, Restart \/ Interrupt
  PROVE  OnceInv'
<1> DEFINE r == IF Restart THEN "clear" ELSE "tool"
<1> SUFFICES ASSUME harm' = {} PROVE Once'
  BY DEF OnceInv
<1>1. /\ UNCHANGED <<ev, next, data, lens, open, handed, stale, discarded>> /\ harm = {}
      /\ rpc[r] # "words" /\ rpc' = [rpc EXCEPT ![r] = "idle"]
      /\ UNCHANGED <<epc, ebuf>> \/ (epc # "words" /\ epc' = "look")
  BY DEF Restart, Interrupt, Goto, emitterVars, streamVars, fifoVars
<1>2. Once
  BY <1>1 DEF OnceInv
<1>3. OnlyOne'
  <2>1. r \in Readers
    BY DEF Readers
  <2>2. OnlyOne /\ epc' \in {epc, "look"}
    BY <1>1, <1>2 DEF Once
  <2> HIDE DEF r
  <2> QED BY <1>1, <2>1, <2>2, OnlyOneKept
<1>4. First' = First /\ Handed' = Handed
  BY <1>1 DEF First, NextWord, Handed
<1>5. First[1]' = First[1] /\ First[2]' = First[2]
  BY <1>4
<1> HIDE DEF r, First
<1>6. CASE UNCHANGED <<epc, ebuf>>
  <2>1. epc' = "length" => lens' # <<>>
    BY <1>1, <1>2, <1>6 DEF Once
  <2> QED BY <1>1, <1>2, <1>3, <1>4, <1>6, <2>1, OnceKept
<1>7. CASE epc # "words" /\ epc' = "look"
  <2>1. /\ ~stale' /\ Handed' \cap discarded' = {}
        /\ \A p \in handed' : (\E x \in Events : p = Whole(x)) /\ p[1][1] < First[1]'
        /\ \A d \in discarded' : d < First[1]' \/ (d = First[1]' /\ First[2]' > 1 /\ epc' # "words")
        /\ \A x \in Events : x < First[1]' => x \in Handed' \cup discarded'
    BY <1>1, <1>2, <1>4, <1>5, <1>7 DEF Once
  <2>2. epc' # "length" /\ epc' # "words"
    BY <1>7
  <2> QED BY <1>3, <2>1, <2>2 DEF Once, Whole
<1> QED BY <1>1, <1>6, <1>7

LEMMA OnceInit == Init => OnceInv
<1> SUFFICES ASSUME Init PROVE Once
  BY DEF OnceInv
<1>1. First = <<1, 1>> /\ Handed = {}
  BY DEF Init, First, NextWord, Handed
<1>2. OnlyOne /\ epc = "look" /\ ~stale /\ discarded = {} /\ handed = {}
  BY DEF Init, OnlyOne
<1>3. \A e \in Events : ~(e < First[1])
  BY <1>1 DEF Events
<1> QED BY <1>1, <1>2, <1>3 DEF Once

LEMMA OnceStep == CountInv /\ OrderInv /\ OnceInv /\ [Next]_vars => OnceInv'
<1> SUFFICES ASSUME CountInv, OrderInv, OnceInv, [Next]_vars PROVE OnceInv'
  OBVIOUS
<1>1. CASE UNCHANGED vars
  <2> SUFFICES ASSUME harm' = {} PROVE Once'
    BY DEF OnceInv
  <2>1. /\ UNCHANGED <<epc, ebuf, rpc, lens, handed, stale, discarded>> /\ harm = {}
        /\ First' = First
    BY <1>1 DEF vars, streamVars, fifoVars, emitterVars, readerVars, history, First, NextWord
  <2>2. Once
    BY <2>1 DEF OnceInv
  <2>3. OnlyOne' /\ (epc' = "length" => lens' # <<>>)
    BY <2>1, <2>2 DEF Once, OnlyOne
  <2> QED BY <2>1, <2>2, <2>3, OnceKept
<1>2. ASSUME NEW r \in Readers, Reader(r) PROVE OnceInv'
  BY <1>2, OnceReaderMoves, OnceChecks, OnceReadsWord DEF Reader
<1> QED BY <1>1, <1>2, OnceStream, OnceEmitterLooks, OnceEmitterLength, OnceEmitterWord,
           OnceEnds DEF Next

\* The words in the FIFO belong to the events from First's on, none left out.
LEMMA EventsInRow ==
  ASSUME CountInv, StreamOrder
  PROVE  \A k \in 1 .. Len(data) :
           /\ data[k][1] \in Nat /\ First[1] <= data[k][1]
           /\ \A e \in First[1] .. data[k][1] : \E j \in 1 .. k : data[j][1] = e
<1> DEFINE n == Len(data)
           Is(k) == /\ First[1] <= data[k][1]
                    /\ \A e \in First[1] .. data[k][1] : \E j \in 1 .. k : data[j][1] = e
           T == {k \in 0 .. n : k = 0 \/ Is(k)}
<1>1. n \in Nat /\ Words \in Nat \ {0} /\ data \in Seq(Word)
  BY Counts DEF CountInv, TypeOK
<1>2. ASSUME NEW k \in 1 .. n PROVE data[k][1] \in Nat
  <2>1. data[k] \in Word
    BY <1>1, <1>2, ElementOfSeq
  <2> QED BY <2>1 DEF Word, Events
<1>3. \A k \in 1 .. n - 1 : data[k + 1] = After(data[k])
  BY DEF StreamOrder
<1>4. n > 0 => First = data[1]
  <2>1. n > 0 => data # <<>>
    BY EmptySeq
  <2> QED BY <2>1 DEF First
<1> HIDE DEF n
<1>5. ASSUME NEW k \in 0 .. n - 1, k \in T PROVE k + 1 \in T
  <2>1. CASE k = 0
    <3>1. First = data[1] /\ 1 \in 1 .. n /\ data[1][1] \in Nat
      BY <1>1, <1>2, <1>4, <2>1
    <3>2. Is(1)
      BY <3>1
    <3> HIDE DEF Is
    <3> QED BY <2>1, <3>2, <1>1
  <2>2. CASE k # 0
    <3>1. k \in 1 .. n - 1 /\ k \in 1 .. n /\ k + 1 \in 1 .. n
      BY <1>1, <2>2
    <3>2. data[k + 1][1] \in {data[k][1], data[k][1] + 1} /\ data[k][1] \in Nat
      <4>1. data[k + 1] = IF data[k][2] = Words THEN <<data[k][1] + 1, 1>>
                          ELSE <<data[k][1], data[k][2] + 1>>
        BY <1>3, <3>1 DEF After
      <4>2. CASE data[k][2] = Words
        BY <1>2, <3>1, <4>1, <4>2
      <4>3. CASE data[k][2] # Words
        BY <1>2, <3>1, <4>1, <4>3
      <4> QED BY <4>2, <4>3
    <3>3. /\ First[1] <= data[k][1]
          /\ \A e \in First[1] .. data[k][1] : \E j \in 1 .. k : data[j][1] = e
      BY <1>5, <2>2
    <3>4. First[1] \in Nat
      BY FirstWord
    <3>5. First[1] <= data[k + 1][1]
      <4> HIDE DEF First
      <4> QED BY <3>2, <3>3, <3>4
    <3>6. ASSUME NEW e \in First[1] .. data[k + 1][1]
          PROVE  \E j \in 1 .. k + 1 : data[j][1] = e
      <4> HIDE DEF First
      <4>1. e = data[k + 1][1] \/ e \in First[1] .. data[k][1]
        BY <3>2, <3>4
      <4>2. k + 1 \in 1 .. k + 1 /\ \A j \in 1 .. k : j \in 1 .. k + 1
        BY <3>1
      <4> QED BY <3>3, <4>1, <4>2
    <3>7. Is(k + 1)
      BY <3>5, <3>6
    <3> HIDE DEF Is
    <3> QED BY <3>1, <3>7, <1>1
  <2> QED BY <2>1, <2>2
<1>6. \A k \in 0 .. n : k \in T
  <2>1. 0 \in T
    BY <1>1
  <2> HIDE DEF T
  <2> QED BY <1>1, <1>5, <2>1, UpTo
<1>7. \A k \in 1 .. n : Is(k)
  <2> HIDE DEF Is
  <2> QED BY <1>1, <1>6
<1> QED BY <1>2, <1>7 DEF n

\* What is stored is of First's event or of later ones, up to the last.
LEMMA StoredEvents ==
  ASSUME CountInv, OrderInv, OnceInv, harm = {}
  PROVE  /\ \A e \in Stored : First[1] <= e
         /\ \A e \in 1 .. ev : First[1] <= e => e \in Stored \/ (e = ev /\ next = 1)
<1>1. Once /\ StreamOrder
  BY DEF OnceInv, OrderInv
<1>2. Len(data) \in Nat /\ First[1] \in Nat /\ ev \in Nat /\ next \in 0 .. Words /\ Words \in Nat
  BY <1>1, FirstWord, Counts, FifoAssumption DEF CountInv, TypeOK, FifoAssumption
<1>3. ASSUME NEW e \in Stored PROVE First[1] <= e
  <2>1. CASE e \in {data[k][1] : k \in 1 .. Len(data)}
    BY <1>1, <2>1, EventsInRow
  <2>2. CASE epc = "words" /\ e \in {ebuf[k][1] : k \in 1 .. Len(ebuf)}
    <3>1. e = First[1]
      BY <1>1, <2>2 DEF Once
    <3> HIDE DEF First
    <3> QED BY <1>2, <3>1
  <2> QED BY <2>1, <2>2 DEF Stored
<1>4. ASSUME NEW e \in 1 .. ev, First[1] <= e
      PROVE  e \in Stored \/ (e = ev /\ next = 1)
  <2>1. CASE data = <<>>
    <3>1. next \in {0, 1}
      BY <1>1, <2>1, FirstWord
    <3>2. next = 0 => First[1] = ev + 1
      BY <2>1 DEF First, NextWord
    <3>3. next = 1 => First[1] = ev
      BY <2>1 DEF First, NextWord
    <3> HIDE DEF First
    <3> QED BY <1>2, <1>4, <3>1, <3>2, <3>3
  <2>2. CASE data # <<>>
    <3> DEFINE n == Len(data)
               w == data[n]
    <3>1. n \in 1 .. n
      BY <1>2, <2>2, EmptySeq
    <3>2. w[1] \in Nat /\ First[1] <= w[1]
          /\ \A x \in First[1] .. w[1] : \E j \in 1 .. n : data[j][1] = x
      BY <1>1, <3>1, EventsInRow
    <3>3. After(w) = NextWord
      BY <1>1, <2>2 DEF StreamOrder
    <3>4. \A x \in First[1] .. w[1] : x \in Stored
      BY <3>2 DEF Stored
    <3> HIDE DEF First, n, w
    <3>5. (w[1] + 1 = ev + 1 /\ next = 0) \/ (w[1] + 1 = ev /\ next = 1) \/ w[1] = ev
      <4>1. After(w) = IF w[2] = Words THEN <<w[1] + 1, 1>> ELSE <<w[1], w[2] + 1>>
        BY DEF After
      <4>2. NextWord = IF next = 0 THEN <<ev + 1, 1>> ELSE <<ev, next>>
        BY DEF NextWord
      <4>3. w[2] \in Nat \ {0}
        <5>1. w \in Word
          BY <3>1, ElementOfSeq DEF CountInv, TypeOK, n, w
        <5> QED BY <5>1 DEF Word
      <4>4. CASE w[2] = Words
        <5>1. NextWord = <<w[1] + 1, 1>>
          BY <3>3, <4>1, <4>4
        <5>2. CASE next = 0
          BY <4>2, <5>1, <5>2
        <5>3. CASE next # 0
          BY <4>2, <5>1, <5>3
        <5> QED BY <5>2, <5>3
      <4>5. CASE w[2] # Words
        <5>1. NextWord = <<w[1], w[2] + 1>> /\ w[2] + 1 # 1
          BY <3>3, <4>1, <4>3, <4>5
        <5>2. next # 0
          BY <4>2, <5>1
        <5> QED BY <4>2, <5>1, <5>2
      <4> QED BY <4>4, <4>5
    <3>6. e \in First[1] .. w[1] \/ (e = ev /\ next = 1)
      BY <1>2, <1>4, <3>2, <3>5
    <3> QED BY <3>4, <3>6
  <2> QED BY <2>1, <2>2
<1> QED BY <1>3, <1>4

\* As long as nothing disturbs the FIFO, every event is handed over once or
\* taken by another reader, whole and in its turn, for packets and FIFOs of any
\* size and any number of events (read_fifo_full_packet, clear_fifo).
THEOREM EventsComeOnce == Spec => []EachEventOnce
<1>1. CountInv /\ OrderInv /\ OnceInv => EachEventOnce
  <2> SUFFICES ASSUME CountInv, OrderInv, OnceInv, harm = {}
               PROVE  /\ ~stale
                      /\ \A p \in handed : \E e \in Events : p = Whole(e)
                      /\ \A e \in 1 .. ev : e \in Handed \cup discarded \cup Stored
                                              \/ (e = ev /\ next = 1)
                      /\ Handed \cap (discarded \cup Stored) = {}
    BY DEF EachEventOnce
  <2>1. Once /\ StreamOrder
    BY DEF OnceInv, OrderInv
  <2>2. First[1] \in Nat /\ ev \in 0 .. MaxEvents /\ MaxEvents \in Nat /\ Words \in Nat \ {0}
    BY <2>1, FirstWord, FifoAssumption DEF CountInv, TypeOK, FifoAssumption
  <2>3. ASSUME NEW e \in 1 .. ev
        PROVE  e \in Handed \cup discarded \cup Stored \/ (e = ev /\ next = 1)
    <3>1. e \in Events /\ e \in Nat
      BY <2>2 DEF Events
    <3>2. CASE e < First[1]
      BY <2>1, <3>1, <3>2 DEF Once
    <3>3. CASE First[1] <= e
      BY <3>3, StoredEvents
    <3> HIDE DEF First
    <3> QED BY <2>2, <3>1, <3>2, <3>3
  <2>4. Handed \cap Stored = {}
    <3> SUFFICES ASSUME NEW p \in handed, p[1][1] \in Stored PROVE FALSE
      BY DEF Handed
    <3>1. PICK x \in Events : p = Whole(x)
      BY <2>1 DEF Once
    <3>2. p[1] = <<x, 1>>
      BY <2>2, <3>1 DEF Whole
    <3>3. p[1][1] \in Nat
      BY <3>2 DEF Events
    <3>4. p[1][1] < First[1] /\ First[1] <= p[1][1]
      BY <2>1, StoredEvents DEF Once
    <3> HIDE DEF First
    <3> QED BY <2>2, <3>3, <3>4
  <2>5. Handed \cap discarded = {} /\ ~stale /\ \A p \in handed : \E e \in Events : p = Whole(e)
    BY <2>1 DEF Once
  <2> QED BY <2>3, <2>4, <2>5
<1> QED BY <1>1, CountInit, CountStep, OrderInit, OrderStep, OnceInit, OnceStep, PTL DEF Spec

=============================================================================
