-------------------------- MODULE LayerServerProofs -------------------------
(***************************************************************************)
(* What holds of the request server for any sessions: first about the      *)
(* steps each request and each run of a tool is made of, then about the    *)
(* state, as inductive invariants; then that the requests and the tools    *)
(* keep the contract, call by call, and what is left of it when they       *)
(* overlap.                                                                *)
(***************************************************************************)
EXTENDS LayerServer, SequencesExt,
        SequenceTheorems, FiniteSetTheorems, WellFoundedInduction, TLAPS

-----------------------------------------------------------------------------
(* Numbers.                                                                *)

\* Every set of natural numbers but the empty one has a least element.
LEMMA LeastNumber ==
  ASSUME NEW T \in SUBSET Nat, T # {}
  PROVE  \E x \in T : \A y \in T : x <= y
<1> DEFINE below(n) == 1 .. n
           U == {below(n) : n \in T}
<1>1. U \subseteq FiniteSubsetsOf(Nat)
  <2>1. ASSUME NEW n \in T PROVE below(n) \subseteq Nat /\ IsFiniteSet(below(n))
    BY FS_Interval
  <2> QED BY <2>1 DEF FiniteSubsetsOf
<1>2. PICK S \in U : \A V \in U : ~(<<V, S>> \in StrictSubsetOrdering(Nat))
  <2> HIDE DEF U
  <2>1. U # {}
    BY DEF U
  <2>2. IsWellFoundedOn(StrictSubsetOrdering(Nat), FiniteSubsetsOf(Nat))
    BY FS_StrictSubsetOrderingWellFounded
  <2> QED BY <2>1, <2>2, <1>1, WFMin
<1>3. PICK x \in T : S = below(x)
  OBVIOUS
<1>4. ASSUME NEW y \in T PROVE x <= y
  <2> SUFFICES ASSUME y < x PROVE FALSE
    OBVIOUS
  <2>1. below(y) \subseteq below(x) /\ x \in below(x) /\ x \notin below(y)
    OBVIOUS
  <2>2. below(y) \subseteq Nat /\ below(x) \subseteq Nat
    OBVIOUS
  <2>3. below(y) \in U
    OBVIOUS
  <2>4. <<below(y), below(x)>> \in StrictSubsetOrdering(Nat)
    <3> HIDE DEF below
    <3> QED BY <2>1, <2>2 DEF StrictSubsetOrdering
  <2> QED BY <1>2, <1>3, <2>3, <2>4
<1> QED BY <1>4

\* A set that has 0, and with each number below n the next, has all up to n.
LEMMA UpTo ==
  ASSUME NEW n \in Nat, NEW S, 0 \in S, \A k \in 0 .. n - 1 : k \in S => k + 1 \in S
  PROVE  \A k \in 0 .. n : k \in S
<1> DEFINE T == {k \in 0 .. n : k \notin S}
<1> SUFFICES ASSUME T # {} PROVE FALSE
  OBVIOUS
<1>1. PICK x \in T : \A y \in T : x <= y
  <2>1. T \in SUBSET Nat
    OBVIOUS
  <2> HIDE DEF T
  <2> QED BY <2>1, LeastNumber
<1>2. x - 1 \in 0 .. n - 1 /\ x - 1 \notin T
  BY <1>1
<1> QED BY <1>2

-----------------------------------------------------------------------------
(* Sequences.                                                              *)

\* A sequence, of whatever elements it has.
IsSeq(s) == Len(s) \in Nat /\ s = [i \in 1 .. Len(s) |-> s[i]]

\* A sequence over any set is one.
LEMMA SeqIsSeq ==
  ASSUME NEW S, NEW s \in Seq(S)
  PROVE  IsSeq(s)
<1>1. Len(s) \in Nat /\ s \in [1 .. Len(s) -> S]
  BY LenProperties
<1> QED BY <1>1 DEF IsSeq

\* A sequence is one over its elements.
LEMMA OverItself ==
  ASSUME NEW s, IsSeq(s)
  PROVE  s \in Seq({s[i] : i \in DOMAIN s})
<1> DEFINE n == Len(s)
           R == {s[i] : i \in DOMAIN s}
<1>1. n \in Nat /\ s = [i \in 1 .. n |-> s[i]]
  BY DEF IsSeq
<1> HIDE DEF n
<1>2. DOMAIN s = 1 .. n
  BY <1>1
<1>3. s \in [1 .. n -> R]
  BY <1>1, <1>2
<1> HIDE DEF R
<1>4. s \in Seq(R)
  BY <1>1, <1>3, SeqDef
<1> QED BY <1>4 DEF R

\* Its positions are 1 to its length.
LEMMA Positions ==
  ASSUME NEW s, IsSeq(s)
  PROVE  /\ Len(s) \in Nat
         /\ DOMAIN s = 1 .. Len(s)
         /\ s = <<>> <=> Len(s) = 0
<1> DEFINE R == {s[i] : i \in DOMAIN s}
<1>1. s \in Seq(R)
  BY OverItself
<1> HIDE DEF R
<1> QED BY <1>1, LenProperties, EmptySeq

\* The first element is taken off.
LEMMA TailOf ==
  ASSUME NEW s, IsSeq(s), s # <<>>
  PROVE  /\ IsSeq(Tail(s))
         /\ Len(Tail(s)) = Len(s) - 1
         /\ \A i \in DOMAIN Tail(s) : i + 1 \in DOMAIN s /\ Tail(s)[i] = s[i + 1]
         /\ \A i \in DOMAIN s : i # 1 => i - 1 \in DOMAIN Tail(s)
         /\ 1 \in DOMAIN s /\ Head(s) = s[1]
<1> DEFINE R == {s[i] : i \in DOMAIN s}
<1>1. s \in Seq(R)
  BY OverItself
<1> HIDE DEF R
<1>2. Tail(s) \in Seq(R) /\ Len(Tail(s)) = Len(s) - 1
  BY <1>1, HeadTailProperties
<1>3. IsSeq(Tail(s))
  BY <1>2, SeqIsSeq
<1>4. \A i \in 1 .. Len(Tail(s)) : Tail(s)[i] = s[i + 1]
  BY <1>1, HeadTailProperties
<1>5. DOMAIN s = 1 .. Len(s) /\ Len(s) \in Nat /\ Len(s) # 0
  BY Positions
<1>6. DOMAIN Tail(s) = 1 .. Len(s) - 1
  BY <1>2, <1>3, Positions
<1> QED BY <1>2, <1>3, <1>4, <1>5, <1>6

\* One sequence after another.
LEMMA Joined ==
  ASSUME NEW s, IsSeq(s), NEW t, IsSeq(t)
  PROVE  /\ IsSeq(s \o t)
         /\ Len(s \o t) = Len(s) + Len(t)
         /\ \A i \in 1 .. Len(s) : (s \o t)[i] = s[i]
         /\ \A i \in Len(s) + 1 .. Len(s) + Len(t) : (s \o t)[i] = t[i - Len(s)]
<1> DEFINE A == {s[i] : i \in DOMAIN s}
           B == {t[i] : i \in DOMAIN t}
           R == A \cup B
<1>1. s \in Seq(A) /\ t \in Seq(B)
  BY OverItself
<1>2. s \in Seq(R) /\ t \in Seq(R)
  <2>1. A \subseteq R /\ B \subseteq R
    OBVIOUS
  <2> HIDE DEF A, B, R
  <2> QED BY <1>1, <2>1, SeqMonotonic
<1> HIDE DEF A, B, R
<1>3. s \o t \in Seq(R)
  BY <1>2, ConcatProperties
<1>4. IsSeq(s \o t)
  BY <1>3, SeqIsSeq
<1>5. Len(s) \in Nat /\ Len(t) \in Nat /\ Len(s \o t) = Len(s) + Len(t)
  BY <1>2, ConcatProperties, LenProperties
<1>6. \A i \in 1 .. Len(s) + Len(t) :
        (s \o t)[i] = IF i <= Len(s) THEN s[i] ELSE t[i - Len(s)]
  BY <1>2, ConcatProperties
<1> QED BY <1>4, <1>5, <1>6

\* Sequences are joined one by one.
LEMMA FlattenedOneByOne ==
  ASSUME NEW ss, Len(ss) \in Nat
  PROVE  /\ Len(ss) = 0 => FlattenSeq(ss) = ss
         /\ Len(ss) # 0 =>
              \E C : /\ FlattenSeq(ss) = C[Len(ss)]
                    /\ \A i \in 1 .. Len(ss) : C[i] = IF i = 1 THEN ss[i] ELSE C[i - 1] \o ss[i]
<1> DEFINE n == Len(ss)
           Is(f, m) == f = [i \in 1 .. m |-> IF i = 1 THEN ss[i] ELSE f[i - 1] \o ss[i]]
           C == CHOOSE f : Is(f, n)
<1>1. n = 0 => FlattenSeq(ss) = ss
  BY DEF FlattenSeq
<1>2. n # 0 => FlattenSeq(ss) = C[n]
  BY DEF FlattenSeq
<1> HIDE DEF n
<1>3. n \in Nat
  BY DEF n
<1>4. \A m \in 0 .. n : m \in {k \in 0 .. n : \E f : Is(f, k)}
  <2> DEFINE T == {k \in 0 .. n : \E f : Is(f, k)}
  <2>1. 0 \in T
    <3>1. Is([i \in 1 .. 0 |-> <<>>], 0)
      OBVIOUS
    <3> HIDE DEF Is
    <3> QED BY <3>1, <1>3
  <2>2. ASSUME NEW k \in 0 .. n - 1, k \in T PROVE k + 1 \in T
    <3>1. PICK f : Is(f, k)
      BY <2>2
    <3> DEFINE g == [i \in 1 .. k + 1 |->
                       IF i = k + 1 THEN IF i = 1 THEN ss[i] ELSE f[k] \o ss[i] ELSE f[i]]
    <3>2. Is(g, k + 1)
      <4>1. \A i \in 1 .. k + 1 : g[i] = IF i = 1 THEN ss[i] ELSE g[i - 1] \o ss[i]
        <5> SUFFICES ASSUME NEW i \in 1 .. k + 1
                     PROVE g[i] = IF i = 1 THEN ss[i] ELSE g[i - 1] \o ss[i]
          OBVIOUS
        <5>1. CASE i = k + 1
          BY <5>1, <1>3
        <5>2. CASE i # k + 1
          <6>1. i \in 1 .. k /\ g[i] = f[i]
            BY <5>2, <1>3
          <6>2. f[i] = IF i = 1 THEN ss[i] ELSE f[i - 1] \o ss[i]
            BY <6>1, <3>1
          <6>3. i # 1 => g[i - 1] = f[i - 1]
            BY <6>1, <1>3
          <6> HIDE DEF g
          <6> QED BY <6>1, <6>2, <6>3
        <5> QED BY <5>1, <5>2
      <4>2. DOMAIN g = 1 .. k + 1 /\ g = [i \in 1 .. k + 1 |-> g[i]]
        OBVIOUS
      <4> HIDE DEF g
      <4> QED BY <4>1, <4>2
    <3> HIDE DEF Is, g
    <3> QED BY <3>2, <1>3
  <2> HIDE DEF T
  <2>3. \A k \in 0 .. n - 1 : k \in T => k + 1 \in T
    BY <2>2
  <2>4. \A m \in 0 .. n : m \in T
    BY <2>1, <2>3, <1>3, UpTo
  <2> QED BY <2>4 DEF T
<1>5. Is(C, n)
  <2>1. \E f : Is(f, n)
    <3> HIDE DEF Is
    <3>1. n \in {k \in 0 .. n : \E f : Is(f, k)}
      BY <1>3, <1>4
    <3> QED BY <3>1
  <2> QED BY <2>1, Zenon
<1> HIDE DEF C
<1>6. \A i \in 1 .. n : C[i] = IF i = 1 THEN ss[i] ELSE C[i - 1] \o ss[i]
  BY <1>5
<1> QED BY <1>1, <1>2, <1>6 DEF n

\* Members of a set of sequences that joining two does not leave, joined one
\* after another, stay in it.
LEMMA FlattenedWithin ==
  ASSUME NEW K, <<>> \in K, \A u, v \in K : u \o v \in K, NEW ss \in Seq(K)
  PROVE  FlattenSeq(ss) \in K
<1> DEFINE n == Len(ss)
<1>1. n \in Nat /\ \A i \in 1 .. n : ss[i] \in K
  BY LenProperties, ElementOfSeq
<1>2. CASE n = 0
  BY <1>1, <1>2, EmptySeq, FlattenedOneByOne
<1>3. CASE n # 0
  <2>1. PICK C : /\ FlattenSeq(ss) = C[n]
                 /\ \A i \in 1 .. n : C[i] = IF i = 1 THEN ss[i] ELSE C[i - 1] \o ss[i]
    <3>1. Len(ss) # 0 =>
            \E C : /\ FlattenSeq(ss) = C[Len(ss)]
                  /\ \A i \in 1 .. Len(ss) : C[i] = IF i = 1 THEN ss[i] ELSE C[i - 1] \o ss[i]
      BY <1>1, FlattenedOneByOne, Zenon
    <3> QED BY <1>1, <1>3, <3>1, Zenon
  <2> HIDE DEF n
  <2> DEFINE T == {i \in 0 .. n : i = 0 \/ C[i] \in K}
  <2>2. ASSUME NEW k \in 0 .. n - 1, k \in T PROVE k + 1 \in T
    <3>1. C[k + 1] = IF k + 1 = 1 THEN ss[k + 1] ELSE C[k] \o ss[k + 1]
      <4>1. k + 1 \in 1 .. n /\ k + 1 - 1 = k
        BY <1>1
      <4> QED BY <4>1, <2>1
    <3>2. k = 0 => C[k + 1] \in K
      BY <3>1, <1>1, <1>3
    <3>3. k # 0 => C[k + 1] \in K
      <4>1. k # 0 => C[k] \in K /\ ss[k + 1] \in K /\ k + 1 # 1
        BY <2>2, <1>1
      <4> QED BY <3>1, <4>1
    <3> QED BY <3>2, <3>3, <1>1
  <2>3. \A m \in 0 .. n : m \in T
    <3>1. 0 \in T /\ \A k \in 0 .. n - 1 : k \in T => k + 1 \in T
      BY <2>2, <1>1
    <3> HIDE DEF T
    <3> QED BY <3>1, <1>1, UpTo
  <2> QED BY <2>1, <2>3, <1>1, <1>3 DEF n
<1> QED BY <1>2, <1>3

\* Sequences over one set, joined one after another, are a sequence over it.
LEMMA Flattened ==
  ASSUME NEW S, NEW ss \in Seq(Seq(S))
  PROVE  FlattenSeq(ss) \in Seq(S)
<1>1. <<>> \in Seq(S) /\ \A u, v \in Seq(S) : u \o v \in Seq(S)
  BY EmptySeq, ConcatProperties
<1> QED BY <1>1, FlattenedWithin

-----------------------------------------------------------------------------
(* The library's calls.                                                    *)

AccessKinds == {"put", "load", "store", "fetch"}

\* The registers that hold the calibration settings.
CalRegisters == {"cal-enable", "pulse-width", "trigger-delay", "repeat-delay"}

\* A step that accesses a register, and writes no calibration setting.
IsAccess(x) == x.do \in AccessKinds
Harmless(x) == x.do \in {"put", "store"} => x.reg \notin CalRegisters

\* A counter is fetched in halves and never written, but for its reset; the
\* fetch of a high half comes right after that of its low half.
WideCounters == {"running", "live"}
IsHalf(x, h) == x.do = "fetch" /\ x.part = h
Counted(x) ==
  /\ x.do \in {"put", "store"} => x.reg \notin WideCounters
  /\ IsHalf(x, "low") \/ IsHalf(x, "high") => x.reg \in WideCounters
Paired(s) ==
  \A i \in DOMAIN s :
    /\ Counted(s[i])
    /\ IsHalf(s[i], "high") => i - 1 \in DOMAIN s /\ s[i - 1] = FetchPart(s[i].reg, "low")

\* Accesses only; those of calls that have nothing to do with the settings.
Accesses(s) == IsSeq(s) /\ Paired(s) /\ \A i \in DOMAIN s : IsAccess(s[i])
Plain(s) == Accesses(s) /\ \A i \in DOMAIN s : Harmless(s[i])

\* A sequence given by its elements is one.
LEMMA Tuples ==
  /\ IsSeq(<<>>)
  /\ \A a : IsSeq(<<a>>)
  /\ \A a, b : IsSeq(<<a, b>>)
  /\ \A a, b, c, d : IsSeq(<<a, b, c, d>>)
  /\ \A a, b, c : IsSeq(<<a, b, c>>)
<1>1. IsSeq(<<>>)
  <2>1. <<>> \in Seq({1})
    OBVIOUS
  <2> QED BY <2>1, SeqIsSeq
<1>2. ASSUME NEW a PROVE IsSeq(<<a>>)
  <2>1. <<a>> \in Seq({a})
    OBVIOUS
  <2> QED BY <2>1, SeqIsSeq
<1>3. ASSUME NEW a, NEW b PROVE IsSeq(<<a, b>>)
  <2>1. <<a, b>> \in Seq({a, b})
    OBVIOUS
  <2> QED BY <2>1, SeqIsSeq
<1>4. ASSUME NEW a, NEW b, NEW c, NEW d PROVE IsSeq(<<a, b, c, d>>)
  <2>1. <<a, b, c, d>> \in Seq({a, b, c, d})
    OBVIOUS
  <2> QED BY <2>1, SeqIsSeq
<1>5. ASSUME NEW a, NEW b, NEW c PROVE IsSeq(<<a, b, c>>)
  <2>1. <<a, b, c>> \in Seq({a, b, c})
    OBVIOUS
  <2> QED BY <2>1, SeqIsSeq
<1> QED BY <1>1, <1>2, <1>3, <1>4, <1>5

\* What is paired stays so when one comes after another.
LEMMA PairedJoined ==
  ASSUME NEW s, IsSeq(s), Paired(s), NEW t, IsSeq(t), Paired(t)
  PROVE  Paired(s \o t)
<1> DEFINE n == Len(s)
           u == s \o t
<1>1. /\ n \in Nat /\ Len(t) \in Nat /\ DOMAIN s = 1 .. n /\ DOMAIN t = 1 .. Len(t)
      /\ IsSeq(u) /\ DOMAIN u = 1 .. n + Len(t)
      /\ \A i \in 1 .. n : u[i] = s[i]
      /\ \A i \in n + 1 .. n + Len(t) : u[i] = t[i - n]
  BY Joined, Positions
<1> HIDE DEF n, u
<1>2. ASSUME NEW i \in 1 .. n
      PROVE  /\ Counted(u[i])
             /\ IsHalf(u[i], "high") => i - 1 \in DOMAIN u /\ u[i - 1] = FetchPart(u[i].reg, "low")
  <2>1. /\ Counted(s[i]) /\ u[i] = s[i]
        /\ IsHalf(s[i], "high") => i - 1 \in DOMAIN s /\ s[i - 1] = FetchPart(s[i].reg, "low")
    BY <1>1, <1>2 DEF Paired
  <2>2. i - 1 \in DOMAIN s => i - 1 \in DOMAIN u /\ u[i - 1] = s[i - 1]
    BY <1>1
  <2> QED BY <2>1, <2>2
<1>3. ASSUME NEW i \in n + 1 .. n + Len(t)
      PROVE  /\ Counted(u[i])
             /\ IsHalf(u[i], "high") => i - 1 \in DOMAIN u /\ u[i - 1] = FetchPart(u[i].reg, "low")
  <2> DEFINE j == i - n
  <2>1. j \in DOMAIN t /\ u[i] = t[j]
    BY <1>1
  <2>2. /\ Counted(t[j])
        /\ IsHalf(t[j], "high") => j - 1 \in DOMAIN t /\ t[j - 1] = FetchPart(t[j].reg, "low")
    <3> HIDE DEF j
    <3> QED BY <2>1 DEF Paired
  <2>3. j - 1 \in DOMAIN t => i - 1 \in DOMAIN u /\ u[i - 1] = t[j - 1]
    <3>1. (i - 1) - n = j - 1
      BY <1>1
    <3>2. j - 1 \in DOMAIN t => i - 1 \in n + 1 .. n + Len(t)
      BY <1>1
    <3> QED BY <1>1, <3>1, <3>2
  <2> HIDE DEF j
  <2> QED BY <2>1, <2>2, <2>3
<1>4. \A i \in DOMAIN u : i \in 1 .. n \/ i \in n + 1 .. n + Len(t)
  BY <1>1
<1>5. Paired(u)
  BY <1>2, <1>3, <1>4 DEF Paired
<1> QED BY <1>5 DEF u

\* So does what has no high half.
LEMMA PairedWithout ==
  ASSUME NEW s, \A i \in DOMAIN s : Counted(s[i]) /\ ~IsHalf(s[i], "high")
  PROVE  Paired(s)
BY DEF Paired

\* Both halves of a counter.
LEMMA PairedHalves ==
  ASSUME NEW r \in WideCounters
  PROVE  Paired(<<FetchPart(r, "low"), FetchPart(r, "high")>>)
<1> DEFINE s == <<FetchPart(r, "low"), FetchPart(r, "high")>>
<1>1. DOMAIN s = {1, 2} /\ s[1] = FetchPart(r, "low") /\ s[2] = FetchPart(r, "high")
  OBVIOUS
<1> HIDE DEF s
<1>2. \A h : /\ Counted(FetchPart(r, h)) /\ FetchPart(r, h).reg = r
             /\ IsHalf(FetchPart(r, h), "high") => h = "high"
  BY DEF Counted, IsHalf, FetchPart
<1>3. ~IsHalf(s[1], "high") /\ s[2].reg = r /\ Counted(s[1]) /\ Counted(s[2])
  BY <1>1, <1>2
<1>4. ASSUME NEW i \in DOMAIN s, IsHalf(s[i], "high")
      PROVE  i - 1 \in DOMAIN s /\ s[i - 1] = FetchPart(s[i].reg, "low")
  <2>1. i = 2
    BY <1>1, <1>3, <1>4
  <2>2. 2 - 1 = 1
    OBVIOUS
  <2> QED BY <1>1, <1>3, <2>1, <2>2
<1>5. Paired(s)
  BY <1>1, <1>3, <1>4 DEF Paired
<1> QED BY <1>5 DEF s

\* Plain if each of its elements is.
LEMMA PlainEmpty == Plain(<<>>)
<1>1. DOMAIN <<>> = {}
  OBVIOUS
<1> QED BY <1>1, Tuples DEF Plain, Accesses, Paired

\* An access that writes neither a setting nor a counter, and fetches no half.
Single(a) == IsAccess(a) /\ Harmless(a) /\ Counted(a) /\ ~IsHalf(a, "high")

LEMMA PlainTuples ==
  ASSUME NEW a, Single(a)
  PROVE  /\ Plain(<<a>>)
         /\ \A b : Single(b) => Plain(<<a, b>>)
<1>1. Plain(<<a>>)
  <2>1. DOMAIN <<a>> = {1} /\ <<a>>[1] = a
    OBVIOUS
  <2>2. Paired(<<a>>)
    BY <2>1, PairedWithout DEF Single
  <2> QED BY <2>1, <2>2, Tuples DEF Plain, Accesses, Single
<1>2. ASSUME NEW b, Single(b) PROVE Plain(<<a, b>>)
  <2>1. DOMAIN <<a, b>> = {1, 2} /\ <<a, b>>[1] = a /\ <<a, b>>[2] = b
    OBVIOUS
  <2>2. Paired(<<a, b>>)
    BY <1>2, <2>1, PairedWithout DEF Single
  <2> QED BY <2>1, <2>2, <1>2, Tuples DEF Plain, Accesses, Single
<1> QED BY <1>1, <1>2

\* Both halves of a counter are plain.
LEMMA PlainHalves ==
  ASSUME NEW r \in WideCounters
  PROVE  Plain(<<FetchPart(r, "low"), FetchPart(r, "high")>>)
<1> DEFINE s == <<FetchPart(r, "low"), FetchPart(r, "high")>>
<1>1. DOMAIN s = {1, 2} /\ s[1] = FetchPart(r, "low") /\ s[2] = FetchPart(r, "high") /\ IsSeq(s)
  BY Tuples
<1>2. Paired(s)
  BY PairedHalves
<1> HIDE DEF s
<1>3. \A h : IsAccess(FetchPart(r, h)) /\ Harmless(FetchPart(r, h))
  BY DEF IsAccess, Harmless, AccessKinds, FetchPart
<1>4. Plain(s)
  BY <1>1, <1>2, <1>3 DEF Plain, Accesses
<1> QED BY <1>4 DEF s

\* The elements of one sequence after another are those of both.
LEMMA ElementsJoined ==
  ASSUME NEW s, IsSeq(s), NEW t, IsSeq(t), NEW i \in DOMAIN (s \o t)
  PROVE  (\E j \in DOMAIN s : (s \o t)[i] = s[j]) \/ (\E j \in DOMAIN t : (s \o t)[i] = t[j])
<1>1. DOMAIN s = 1 .. Len(s) /\ DOMAIN t = 1 .. Len(t) /\ Len(s) \in Nat /\ Len(t) \in Nat
  BY Positions
<1>2. i \in 1 .. Len(s) + Len(t)
  BY Joined, Positions
<1>3. CASE i \in 1 .. Len(s)
  BY <1>1, <1>3, Joined
<1>4. CASE i \in Len(s) + 1 .. Len(s) + Len(t)
  <2>1. i - Len(s) \in DOMAIN t /\ (s \o t)[i] = t[i - Len(s)]
    BY <1>1, <1>4, Joined
  <2> QED BY <2>1
<1> QED BY <1>1, <1>2, <1>3, <1>4

\* Accesses after others are accesses again.
LEMMA AccessesJoined ==
  ASSUME NEW s, Accesses(s), NEW t, Accesses(t)
  PROVE  Accesses(s \o t)
<1>1. IsSeq(s) /\ IsSeq(t) /\ IsSeq(s \o t) /\ Paired(s \o t)
  BY Joined, PairedJoined DEF Accesses
<1> QED BY <1>1, ElementsJoined DEF Accesses

\* One plain call after another is plain.
LEMMA PlainJoined ==
  ASSUME NEW s, Plain(s), NEW t, Plain(t)
  PROVE  Plain(s \o t)
<1>1. Accesses(s) /\ Accesses(t) /\ IsSeq(s) /\ IsSeq(t)
  BY DEF Plain, Accesses
<1>2. Accesses(s \o t)
  BY <1>1, AccessesJoined
<1> QED BY <1>1, <1>2, ElementsJoined DEF Plain

\* The calls that are one access, or a change of a mask.
LEMMA SingleAccesses ==
  ASSUME NEW r, NEW x, NEW on, NEW off, r \notin CalRegisters \cup WideCounters
  PROVE  Plain(<<Put(r, x)>>) /\ Plain(<<Fetch(r)>>) /\ Plain(Change(r, on, off))
<1>1. Single(Put(r, x)) /\ Single(Fetch(r))
  BY DEF Single, Counted, IsHalf, IsAccess, Harmless, AccessKinds, Put, Fetch
<1>2. Single(Load(r)) /\ Single(Store(r, on, off))
  BY DEF Single, Counted, IsHalf, IsAccess, Harmless, AccessKinds, Load, Store
<1>3. Plain(<<Put(r, x)>>) /\ Plain(<<Fetch(r)>>)
  BY <1>1, PlainTuples
<1>4. Plain(Change(r, on, off))
  BY <1>2, PlainTuples DEF Change
<1> QED BY <1>3, <1>4

\* Plain calls one after another, as many as there are, are plain.
LEMMA PlainFlattened ==
  ASSUME NEW ss, IsSeq(ss), \A i \in DOMAIN ss : Plain(ss[i])
  PROVE  Plain(FlattenSeq(ss))
<1> DEFINE S == UNION {{ss[i][j] : j \in DOMAIN ss[i]} : i \in DOMAIN ss}
           K == {s \in Seq(S) : Plain(s)}
<1>1. ASSUME NEW i \in DOMAIN ss PROVE ss[i] \in K
  <2> DEFINE R == {ss[i][j] : j \in DOMAIN ss[i]}
  <2>1. ss[i] \in Seq(R)
    BY OverItself DEF Plain, Accesses
  <2>2. R \subseteq S
    OBVIOUS
  <2>3. ss[i] \in Seq(S)
    <3> HIDE DEF R, S
    <3> QED BY <2>1, <2>2, SeqMonotonic
  <2> QED BY <2>3
<1>2. <<>> \in K /\ \A u, v \in K : u \o v \in K
  <2> HIDE DEF S
  <2>1. <<>> \in Seq(S) /\ \A u, v \in Seq(S) : u \o v \in Seq(S)
    BY EmptySeq, ConcatProperties
  <2> QED BY <2>1, PlainEmpty, PlainJoined
<1>3. ss \in Seq(K)
  <2> DEFINE R == {ss[i] : i \in DOMAIN ss}
  <2>1. ss \in Seq(R)
    BY OverItself
  <2>2. R \subseteq K
    <3> HIDE DEF K
    <3> QED BY <1>1
  <2> HIDE DEF R, K
  <2> QED BY <2>1, <2>2, SeqMonotonic
<1>4. FlattenSeq(ss) \in K
  <2> HIDE DEF K
  <2> QED BY <1>2, <1>3, FlattenedWithin
<1> QED BY <1>4

\* The loops over the local asics.
LEMMA PlainLoops == Plain(trigger_enable_all_local_asics) /\ Plain(trigger_disable_all_local_asics)
<1> DEFINE on == [i \in 1 .. NVata |-> trigger_enable(i - 1)]
           off == [i \in 1 .. NVata |-> trigger_disable(i - 1)]
<1>1. \A b : Plain(trigger_enable(b)) /\ Plain(trigger_disable(b))
  BY SingleAccesses DEF trigger_enable, trigger_disable, CalRegisters, WideCounters
<1>2. NVata \in Nat
  BY LibraryAssumption DEF LibraryAssumption
<1>3. IsSeq(on) /\ IsSeq(off)
  <2>1. Len(on) = NVata /\ Len(off) = NVata
    BY <1>2
  <2> QED BY <2>1, <1>2 DEF IsSeq
<1>4. /\ \A i \in DOMAIN on : Plain(on[i])
      /\ \A i \in DOMAIN off : Plain(off[i])
  BY <1>1
<1> HIDE DEF on, off
<1>5. Plain(FlattenSeq(on)) /\ Plain(FlattenSeq(off))
  BY <1>3, <1>4, PlainFlattened
<1> QED
  BY <1>5 DEF trigger_enable_all_local_asics, trigger_disable_all_local_asics, on, off

\* The calls of VataCtrl, SyncCtrl and DacCtrl, and of CalCtrl the one that
\* stops the pulses.
LEMMA PlainCalls ==
  /\ \A b : Plain(trigger_enable(b)) /\ Plain(trigger_disable(b))
  /\ Plain(trigger_enable_all) /\ Plain(trigger_disable_all) /\ Plain(get_trigger_ena_mask)
  /\ \A x : Plain(set_hold_delay(x)) /\ Plain(set_trigger_ack_timeout(x)) /\ Plain(set_delay(x))
  /\ Plain(get_hold_delay) /\ Plain(get_trigger_ack_timeout)
  /\ Plain(get_counters) /\ Plain(get_counter) /\ Plain(<<>>)
  /\ Plain(get_event_count) /\ Plain(reset_event_count) /\ Plain(force_fsm_to_idle)
  /\ Plain(counter_reset) /\ Plain(force_trigger) /\ Plain(stop_inf_pulses)
  /\ \A a : Plain(asic_hit_disable(a)) /\ Plain(asic_hit_enable(a))
  /\ Plain(get_asic_hit_disable_mask)
  /\ Plain(global_hit_enable) /\ Plain(global_hit_disable) /\ Plain(is_global_hit_enabled)
  /\ Plain(get_delay) /\ Plain(get_input)
  /\ \A d, x : Plain(set_counts(d, x))
<1>1. /\ \A b : Plain(trigger_enable(b)) /\ Plain(trigger_disable(b))
      /\ \A a : Plain(asic_hit_disable(a)) /\ Plain(asic_hit_enable(a))
  BY SingleAccesses
  DEF CalRegisters, WideCounters, trigger_enable, trigger_disable, asic_hit_disable, asic_hit_enable
<1>2. /\ Plain(trigger_enable_all) /\ Plain(trigger_disable_all)
      /\ \A x : Plain(set_hold_delay(x)) /\ Plain(set_trigger_ack_timeout(x)) /\ Plain(set_delay(x))
      /\ Plain(reset_event_count) /\ Plain(force_fsm_to_idle)
  BY SingleAccesses
  DEF CalRegisters, WideCounters, trigger_enable_all, trigger_disable_all, set_hold_delay,
      set_trigger_ack_timeout, set_delay, reset_event_count, force_fsm_to_idle
<1>3. /\ Plain(counter_reset) /\ Plain(force_trigger) /\ Plain(stop_inf_pulses)
      /\ Plain(global_hit_enable) /\ Plain(global_hit_disable)
  BY SingleAccesses
  DEF CalRegisters, WideCounters, counter_reset, force_trigger, stop_inf_pulses, global_hit_enable,
      global_hit_disable
<1>4. /\ Plain(get_trigger_ena_mask) /\ Plain(get_hold_delay) /\ Plain(get_trigger_ack_timeout)
      /\ Plain(get_event_count) /\ Plain(get_asic_hit_disable_mask)
      /\ Plain(is_global_hit_enabled) /\ Plain(get_delay) /\ Plain(get_input)
  BY SingleAccesses
  DEF CalRegisters, WideCounters, get_trigger_ena_mask, get_hold_delay, get_trigger_ack_timeout,
      get_event_count, get_asic_hit_disable_mask, is_global_hit_enabled, get_delay, get_input
<1>5. /\ Plain(<<FetchPart("running", "low"), FetchPart("running", "high")>>)
      /\ Plain(<<FetchPart("live", "low"), FetchPart("live", "high")>>)
  BY PlainHalves DEF WideCounters
<1>6. Plain(get_counter) /\ Plain(get_counters)
  <2>1. get_counters = <<FetchPart("running", "low"), FetchPart("running", "high")>>
                         \o <<FetchPart("live", "low"), FetchPart("live", "high")>>
    BY DEF get_counters
  <2> QED BY <2>1, <1>5, PlainJoined DEF get_counter
<1>7. Plain(<<>>)
  BY PlainEmpty
<1>8. ASSUME NEW d, NEW x PROVE Plain(set_counts(d, x))
  <2>1. /\ \A b : Plain(<<Put("dac-select", d)>>) /\ Plain(<<Put("dac-input", x)>>)
                  /\ Plain(<<Put("dac-write", b)>>)
    BY SingleAccesses DEF CalRegisters, WideCounters
  <2>2. set_counts(d, x) = <<Put("dac-select", d)>> \o (<<Put("dac-input", x)>>
          \o (<<Put("dac-write", 0)>> \o (<<Put("dac-write", 1)>> \o <<Put("dac-write", 0)>>)))
    BY DEF set_counts
  <2> QED BY <2>1, <2>2, PlainJoined
<1> QED BY <1>1, <1>2, <1>3, <1>4, <1>6, <1>7, <1>8

-----------------------------------------------------------------------------
(* The steps of a request.                                                 *)

\* Steps that end with an answer, or with the process.
Ends(s) == IsSeq(s) /\ \E i \in DOMAIN s : s[i].do \in {"say", "crash"}

\* Nothing but further answers comes after an answer.
AnswersLast(s) == \A i, j \in DOMAIN s : i < j /\ s[i].do = "say" => s[j].do = "say"

\* What most requests are made of, and what those that answer first are.
Answering(s) == Ends(s) /\ AnswersLast(s) /\ Paired(s) /\ \A i \in DOMAIN s : Harmless(s[i])
AnsweringFirst(s) == Ends(s) /\ Paired(s) /\ \A i \in DOMAIN s : Harmless(s[i])

\* An answer is no half of a counter, nor is the end of the process.
LEMMA PairedAnswers ==
  /\ \A a : Paired(<<Say(a)>>)
  /\ Paired(<<Say("error"), Say("error")>>) /\ Paired(<<Crash>>)
<1>1. /\ \A a : Counted(Say(a)) /\ ~IsHalf(Say(a), "high")
      /\ Counted(Crash) /\ ~IsHalf(Crash, "high")
  BY DEF Counted, IsHalf, Say, Crash
<1>2. \A a : DOMAIN <<a>> = {1} /\ <<a>>[1] = a
  OBVIOUS
<1>3. \A a : DOMAIN <<a, a>> = {1, 2} /\ <<a, a>>[1] = a /\ <<a, a>>[2] = a
  OBVIOUS
<1>4. \A a : Counted(a) /\ ~IsHalf(a, "high") => Paired(<<a>>) /\ Paired(<<a, a>>)
  BY <1>2, <1>3, PairedWithout
<1> QED BY <1>1, <1>4

\* Accesses and then the answer.
LEMMA AnswerAfter ==
  ASSUME NEW call, Accesses(call), NEW a
  PROVE  /\ Ends(call \o <<Say(a)>>) /\ AnswersLast(call \o <<Say(a)>>)
         /\ Paired(call \o <<Say(a)>>)
         /\ Len(call \o <<Say(a)>>) = Len(call) + 1
         /\ \A i \in DOMAIN call : (call \o <<Say(a)>>)[i] = call[i]
         /\ \A i \in DOMAIN (call \o <<Say(a)>>) :
              \/ i \in DOMAIN call
              \/ (call \o <<Say(a)>>)[i] = Say(a)
<1> DEFINE s == call \o <<Say(a)>>
<1>1. IsSeq(call) /\ IsSeq(<<Say(a)>>) /\ Len(<<Say(a)>>) = 1 /\ <<Say(a)>>[1] = Say(a)
  BY Tuples DEF Accesses
<1>2. Len(call) \in Nat /\ DOMAIN call = 1 .. Len(call)
  BY <1>1, Positions
<1>3. /\ IsSeq(s) /\ Len(s) = Len(call) + 1
      /\ \A i \in 1 .. Len(call) : s[i] = call[i]
      /\ \A i \in Len(call) + 1 .. Len(call) + 1 : s[i] = <<Say(a)>>[i - Len(call)]
  BY <1>1, Joined
<1>4. s[Len(call) + 1] = Say(a)
  BY <1>1, <1>2, <1>3
<1>5. DOMAIN s = 1 .. Len(call) + 1 /\ Paired(s)
  BY <1>1, <1>3, Positions, PairedJoined, PairedAnswers DEF Accesses
<1> HIDE DEF s
<1>6. Say(a).do = "say" /\ \A i \in 1 .. Len(call) : call[i].do # "say"
  BY <1>2 DEF Say, Accesses, IsAccess, AccessKinds
<1>7. Ends(s)
  BY <1>2, <1>3, <1>4, <1>5, <1>6 DEF Ends
<1>8. AnswersLast(s)
  BY <1>2, <1>3, <1>4, <1>5, <1>6 DEF AnswersLast
<1>9. \A i \in DOMAIN s : i \in DOMAIN call \/ s[i] = Say(a)
  BY <1>2, <1>4, <1>5
<1> QED BY <1>2, <1>3, <1>5, <1>7, <1>8, <1>9 DEF s

\* A single answer, two, and the end of the process.
LEMMA NothingDone ==
  /\ \A a : Answering(<<Say(a)>>)
  /\ Answering(<<Say("error"), Say("error")>>)
  /\ Answering(<<Crash>>)
<1>1. ASSUME NEW a PROVE Answering(<<Say(a)>>)
  <2>1. DOMAIN <<Say(a)>> = {1} /\ <<Say(a)>>[1] = Say(a)
    OBVIOUS
  <2> QED BY <2>1, Tuples, PairedAnswers DEF Answering, Ends, AnswersLast, Harmless, Say
<1>2. Answering(<<Say("error"), Say("error")>>)
  <2> DEFINE s == <<Say("error"), Say("error")>>
  <2>1. DOMAIN s = {1, 2} /\ s[1] = Say("error") /\ s[2] = Say("error") /\ IsSeq(s) /\ Paired(s)
    BY Tuples, PairedAnswers
  <2> HIDE DEF s
  <2>2. Answering(s)
    BY <2>1 DEF Answering, Ends, AnswersLast, Harmless, Say
  <2> QED BY <2>2 DEF s
<1>3. Answering(<<Crash>>)
  <2>1. DOMAIN <<Crash>> = {1} /\ <<Crash>>[1] = Crash
    OBVIOUS
  <2> QED BY <2>1, Tuples, PairedAnswers DEF Answering, Ends, AnswersLast, Harmless, Crash
<1> QED BY <1>1, <1>2, <1>3

\* A plain call with its answer after it.
LEMMA PlainAnswered ==
  ASSUME NEW call, Plain(call)
  PROVE  /\ \A valid : Answering(OkAfter(valid, call))
         /\ Answering(ValueOf(call))
<1>1. ASSUME NEW a PROVE Answering(call \o <<Say(a)>>)
  <2> DEFINE s == call \o <<Say(a)>>
  <2>1. /\ Ends(s) /\ AnswersLast(s) /\ Paired(s)
        /\ \A i \in DOMAIN call : s[i] = call[i]
        /\ \A i \in DOMAIN s : i \in DOMAIN call \/ s[i] = Say(a)
    BY AnswerAfter DEF Plain
  <2> HIDE DEF s
  <2>2. \A i \in DOMAIN s : Harmless(s[i])
    BY <2>1 DEF Plain, Harmless, Say
  <2>3. Answering(s)
    BY <2>1, <2>2 DEF Answering
  <2> QED BY <2>3 DEF s
<1> QED BY <1>1, NothingDone DEF OkAfter, ValueOf

\* A plain call with its answer before it.
LEMMA PlainAnsweredFirst ==
  ASSUME NEW call, Plain(call), NEW a
  PROVE  AnsweringFirst(<<Say(a)>> \o call)
<1> DEFINE s == <<Say(a)>> \o call
<1>1. IsSeq(call) /\ IsSeq(<<Say(a)>>) /\ Len(<<Say(a)>>) = 1 /\ <<Say(a)>>[1] = Say(a)
  BY Tuples DEF Plain, Accesses
<1>2. Len(call) \in Nat /\ DOMAIN call = 1 .. Len(call)
  BY <1>1, Positions
<1>3. /\ IsSeq(s) /\ Len(s) = 1 + Len(call) /\ s[1] = Say(a)
      /\ \A i \in 2 .. 1 + Len(call) : s[i] = call[i - 1]
  BY <1>1, <1>2, Joined
<1>4. DOMAIN s = 1 .. 1 + Len(call) /\ Paired(s)
  BY <1>1, <1>3, Positions, PairedJoined, PairedAnswers DEF Plain, Accesses
<1> HIDE DEF s
<1>5. \A i \in 2 .. 1 + Len(call) : Harmless(s[i])
  BY <1>2, <1>3 DEF Plain
<1>6. Harmless(s[1]) /\ s[1].do = "say"
  BY <1>3 DEF Harmless, Say
<1>7. AnsweringFirst(s)
  BY <1>2, <1>3, <1>4, <1>5, <1>6 DEF AnsweringFirst, Ends
<1> QED BY <1>7 DEF s

\* The requests about the bits and the chips of the trigger mask.
LEMMA TriggerAnswered ==
  ASSUME NEW x
  PROVE  /\ Answering(TriggerEnableBit(x)) /\ Answering(TriggerDisableBit(x))
         /\ Answering(TriggerEnableAsic(x)) /\ Answering(TriggerDisableAsic(x))
<1>1. \A valid : /\ Answering(OkAfter(valid, trigger_enable(x)))
                 /\ Answering(OkAfter(valid, trigger_disable(x)))
                 /\ Answering(OkAfter(valid, trigger_enable_all))
                 /\ Answering(OkAfter(valid, trigger_disable_all))
                 /\ Answering(OkAfter(valid, trigger_enable_all_local_asics))
                 /\ Answering(OkAfter(valid, trigger_disable_all_local_asics))
  BY PlainCalls, PlainLoops, PlainAnswered
<1>2. Answering(TriggerEnableBit(x))
  BY <1>1, NothingDone DEF TriggerEnableBit
<1>3. Answering(TriggerDisableBit(x))
  BY <1>1, NothingDone DEF TriggerDisableBit
<1>4. Answering(TriggerEnableAsic(x))
  BY <1>1, NothingDone DEF TriggerEnableAsic
<1>5. Answering(TriggerDisableAsic(x))
  BY <1>1, NothingDone DEF TriggerDisableAsic
<1> QED BY <1>2, <1>3, <1>4, <1>5

\* Those about the other sources.
LEMMA SourceAnswered ==
  ASSUME NEW cmd \in Sources
  PROVE  /\ AnsweringFirst(TriggerSource(cmd))
         /\ cmd = "trigger-enable-tm-hit" => Answering(TriggerSource(cmd))
<1>1. CASE cmd = "trigger-enable-tm-hit"
  <2>1. TriggerSource(cmd) = OkAfter(TRUE, trigger_enable(TmHit))
    BY <1>1 DEF TriggerSource
  <2>2. Answering(TriggerSource(cmd))
    BY <2>1, PlainCalls, PlainAnswered
  <2> QED BY <2>2 DEF Answering, AnsweringFirst
<1>2. CASE cmd # "trigger-enable-tm-hit"
  <2>1. \A b : /\ AnsweringFirst(<<Say("ok")>> \o trigger_enable(b))
               /\ AnsweringFirst(<<Say("ok")>> \o trigger_disable(b))
    BY PlainCalls, PlainAnsweredFirst
  <2>2. \/ TriggerSource(cmd) = <<Say("ok")>> \o trigger_disable(TmHit)
        \/ TriggerSource(cmd) = <<Say("ok")>> \o trigger_enable(TmAck)
        \/ TriggerSource(cmd) = <<Say("ok")>> \o trigger_disable(TmAck)
        \/ TriggerSource(cmd) = <<Say("ok")>> \o trigger_enable(Forced)
        \/ TriggerSource(cmd) = <<Say("ok")>> \o trigger_disable(Forced)
    BY <1>2 DEF TriggerSource, Sources
  <2> QED BY <1>2, <2>1, <2>2
<1> QED BY <1>1, <1>2

LEMMA VataAnswered ==
  ASSUME NEW q, q.cmd \in VataCommands
  PROVE  /\ AnsweringFirst(VataSteps(q))
         /\ q.cmd \notin AnsweredFirst => Answering(VataSteps(q))
<1>1. CASE q.cmd \in Sources
  <2>1. VataSteps(q) = TriggerSource(q.cmd)
    BY <1>1 DEF VataSteps, Sources
  <2> QED BY <1>1, <2>1, SourceAnswered DEF AnsweredFirst
<1>2. CASE q.cmd \notin Sources
  <2>1. \A valid : /\ Answering(OkAfter(valid, set_hold_delay(q.arg)))
                   /\ Answering(OkAfter(valid, reset_counters))
                   /\ Answering(OkAfter(valid, reset_event_count))
                   /\ Answering(OkAfter(valid, force_fsm_to_idle))
                   /\ Answering(OkAfter(valid, <<>>))
    BY PlainCalls, PlainAnswered DEF reset_counters
  <2>2. /\ Answering(ValueOf(get_trigger_ena_mask)) /\ Answering(ValueOf(get_hold_delay))
        /\ Answering(ValueOf(get_counters)) /\ Answering(ValueOf(get_event_count))
        /\ Answering(ValueOf(<<>>))
    BY PlainCalls, PlainAnswered
  <2>3. /\ Answering(TriggerEnableBit(q.arg)) /\ Answering(TriggerDisableBit(q.arg))
        /\ Answering(TriggerEnableAsic(q.arg)) /\ Answering(TriggerDisableAsic(q.arg))
    BY TriggerAnswered
  <2>4. Answering(VataSteps(q))
    BY <1>2, <2>1, <2>2, <2>3 DEF VataSteps, VataCommands
  <2> QED BY <2>4 DEF Answering, AnsweringFirst
<1> QED BY <1>1, <1>2

LEMMA DacAnswered ==
  ASSUME NEW q, q.cmd \in DacCommands
  PROVE  Answering(DacSteps(q))
<1>1. \A valid : /\ Answering(OkAfter(valid, set_delay(q.arg)))
                 /\ Answering(OkAfter(valid, set_counts(q.arg[1], q.arg[2])))
  BY PlainCalls, PlainAnswered
<1>2. Answering(ValueOf(get_delay)) /\ Answering(ValueOf(get_input))
  BY PlainCalls, PlainAnswered
<1> QED BY <1>1, <1>2 DEF DacSteps, DacCommands

LEMMA SyncAnswered ==
  ASSUME NEW q, q.cmd \in SyncCommands
  PROVE  Answering(SyncSteps(q))
<1>1. \A valid : /\ Answering(OkAfter(valid, counter_reset))
                 /\ Answering(OkAfter(valid, force_trigger))
                 /\ Answering(OkAfter(valid, global_hit_enable))
                 /\ Answering(OkAfter(valid, global_hit_disable))
                 /\ Answering(OkAfter(valid, asic_hit_enable(q.arg)))
                 /\ Answering(OkAfter(valid, asic_hit_disable(q.arg)))
  BY PlainCalls, PlainAnswered
<1>2. /\ Answering(ValueOf(get_counter)) /\ Answering(ValueOf(is_global_hit_enabled))
      /\ Answering(ValueOf(get_asic_hit_disable_mask))
  BY PlainCalls, PlainAnswered
<1> QED BY <1>1, <1>2 DEF SyncSteps, SyncCommands

-----------------------------------------------------------------------------
(* The steps of the calibration requests.                                  *)

\* What a register holds of settings f: the registers have the names of the
\* settings, but for that of the flags.
Held(f, r) == IF r = "cal-enable" THEN [s \in Flags |-> f[s]] ELSE f[r]

\* A step that writes a setting writes that of f.
Faithful(x, f) ==
  x.do \in {"put", "store"} /\ x.reg \in CalRegisters => x = Put(x.reg, Held(f, x.reg))

\* All settings are written, in a row without any other.
Settles(s, f) ==
  /\ \A i \in DOMAIN s : Faithful(s[i], f)
  /\ \A r \in CalRegisters : \E i \in DOMAIN s : s[i] = Put(r, Held(f, r))

LEMMA SettingsWritten ==
  ASSUME NEW f
  PROVE  Accesses(write_settings(f)) /\ Settles(write_settings(f), f)
<1> DEFINE s == write_settings(f)
<1>1. /\ IsSeq(s) /\ DOMAIN s = {1, 2, 3, 4}
      /\ s[1] = Put("cal-enable", [x \in Flags |-> f[x]]) /\ s[2] = Put("pulse-width", f["pulse-width"])
      /\ s[3] = Put("trigger-delay", f["trigger-delay"])
      /\ s[4] = Put("repeat-delay", f["repeat-delay"])
  BY Tuples DEF write_settings
<1> HIDE DEF s
<1>2. /\ s[1] = Put("cal-enable", Held(f, "cal-enable"))
      /\ s[2] = Put("pulse-width", Held(f, "pulse-width"))
      /\ s[3] = Put("trigger-delay", Held(f, "trigger-delay"))
      /\ s[4] = Put("repeat-delay", Held(f, "repeat-delay"))
  BY <1>1 DEF Held
<1>3. \A r \in CalRegisters : IsAccess(Put(r, Held(f, r))) /\ Faithful(Put(r, Held(f, r)), f)
  BY DEF IsAccess, AccessKinds, Faithful, Put
<1>4. Accesses(s)
  <2>1. \A r \in CalRegisters :
          Counted(Put(r, Held(f, r))) /\ ~IsHalf(Put(r, Held(f, r)), "high")
    BY DEF Counted, IsHalf, Put, CalRegisters, WideCounters
  <2>2. Paired(s)
    BY <1>1, <1>2, <2>1, PairedWithout DEF CalRegisters
  <2> QED BY <1>1, <1>2, <1>3, <2>2 DEF Accesses, CalRegisters
<1>5. Settles(s, f)
  BY <1>1, <1>2, <1>3 DEF Settles, CalRegisters
<1> QED BY <1>4, <1>5 DEF s

\* Followed by accesses to other registers.
LEMMA SettingsAndMore ==
  ASSUME NEW f, NEW more, Plain(more)
  PROVE  /\ Accesses(write_settings(f) \o more) /\ Settles(write_settings(f) \o more, f)
         /\ Len(write_settings(f) \o more) >= 4
<1> DEFINE w == write_settings(f)
           s == w \o more
<1>1. Accesses(w) /\ Settles(w, f) /\ IsSeq(w) /\ IsSeq(more) /\ Len(w) = 4
  BY SettingsWritten DEF Accesses, Plain, write_settings
<1> HIDE DEF w
<1>2. Len(more) \in Nat /\ DOMAIN more = 1 .. Len(more) /\ DOMAIN w = 1 .. 4
  BY <1>1, Positions
<1>3. /\ IsSeq(s) /\ Len(s) = 4 + Len(more)
      /\ \A i \in 1 .. 4 : s[i] = w[i]
      /\ \A i \in 5 .. 4 + Len(more) : s[i] = more[i - 4]
  <2>1. /\ IsSeq(s) /\ Len(s) = Len(w) + Len(more)
        /\ \A i \in 1 .. Len(w) : s[i] = w[i]
        /\ \A i \in Len(w) + 1 .. Len(w) + Len(more) : s[i] = more[i - Len(w)]
    BY <1>1, Joined
  <2> HIDE DEF s
  <2> QED BY <2>1, <1>1, <1>2
<1>4. DOMAIN s = 1 .. 4 + Len(more)
  BY <1>3, Positions
<1> HIDE DEF s
<1>5. \A i \in DOMAIN s : \/ i \in DOMAIN w /\ s[i] = w[i]
                          \/ i - 4 \in DOMAIN more /\ s[i] = more[i - 4]
  BY <1>2, <1>3, <1>4
<1>6. Accesses(s)
  <2>1. Paired(s)
    BY <1>1, PairedJoined DEF Accesses, Plain, s
  <2> QED BY <1>1, <1>3, <1>5, <2>1 DEF Accesses, Plain
<1>7. \A i \in DOMAIN s : Faithful(s[i], f)
  BY <1>1, <1>5 DEF Settles, Plain, Harmless, Faithful
<1>8. \A i \in DOMAIN w : i \in DOMAIN s /\ s[i] = w[i]
  BY <1>2, <1>3, <1>4
<1>9. Settles(s, f)
  BY <1>1, <1>7, <1>8 DEF Settles
<1> QED BY <1>2, <1>3, <1>6, <1>9 DEF s, w

\* And answered.
LEMMA SettingsAnswered ==
  ASSUME NEW f, NEW call, Accesses(call), Settles(call, f), Len(call) >= 4
  PROVE  LET s == OkAfter(TRUE, call)
         IN Ends(s) /\ AnswersLast(s) /\ Paired(s) /\ Settles(s, f) /\ Len(s) > 1
<1> DEFINE s == call \o <<Say("ok")>>
<1>1. Len(call) \in Nat /\ DOMAIN call = 1 .. Len(call)
  BY Positions DEF Accesses
<1>2. /\ Ends(s) /\ AnswersLast(s) /\ Paired(s) /\ Len(s) = Len(call) + 1
      /\ \A i \in DOMAIN call : s[i] = call[i]
      /\ \A i \in DOMAIN s : i \in DOMAIN call \/ s[i] = Say("ok")
  BY AnswerAfter
<1> HIDE DEF s
<1>3. DOMAIN s = 1 .. Len(call) + 1
  BY <1>2, Positions DEF Ends
<1>4. \A i \in DOMAIN s : Faithful(s[i], f)
  BY <1>2 DEF Settles, Faithful, Say
<1>5. Settles(s, f)
  BY <1>1, <1>2, <1>3, <1>4 DEF Settles
<1>6. Len(s) > 1
  BY <1>1, <1>2
<1>7. OkAfter(TRUE, call) = s
  BY DEF OkAfter, s
<1> QED BY <1>2, <1>5, <1>6, <1>7

\* The calls that start the pulses.
LEMMA PulseCalls ==
  ASSUME NEW f
  PROVE  /\ Accesses(start_inf_pulses(f)) /\ Settles(start_inf_pulses(f), f)
         /\ Len(start_inf_pulses(f)) >= 4
         /\ \A n : /\ Accesses(n_pulses(f, n)) /\ Settles(n_pulses(f, n), f)
                   /\ Len(n_pulses(f, n)) >= 4
<1>1. \A x : \A r \in {"n-pulses", "cal-init"} : Plain(<<Put(r, x)>>)
  BY SingleAccesses DEF CalRegisters, WideCounters
<1>2. \A s : Plain(s) => Accesses(s)
  BY DEF Plain
<1>3. Plain(<<Put("n-pulses", 0), Put("cal-init", 1)>>)
  <2>1. <<Put("n-pulses", 0), Put("cal-init", 1)>>
          = <<Put("n-pulses", 0)>> \o <<Put("cal-init", 1)>>
    OBVIOUS
  <2> QED BY <1>1, <1>2, <2>1, PlainJoined
<1>4. ASSUME NEW n PROVE Plain(<<Put("n-pulses", n), Put("cal-init", 1), Put("cal-init", 0)>>)
  <2>1. <<Put("n-pulses", n), Put("cal-init", 1), Put("cal-init", 0)>>
          = <<Put("n-pulses", n)>> \o (<<Put("cal-init", 1)>> \o <<Put("cal-init", 0)>>)
    OBVIOUS
  <2>2. Plain(<<Put("cal-init", 1)>> \o <<Put("cal-init", 0)>>)
    BY <1>1, <1>2, PlainJoined
  <2> QED BY <1>1, <1>2, <2>1, <2>2, PlainJoined
<1>5. \A n : /\ Accesses(n_pulses(f, n)) /\ Settles(n_pulses(f, n), f)
             /\ Len(n_pulses(f, n)) >= 4
  BY <1>4, SettingsAndMore DEF n_pulses
<1> QED BY <1>3, <1>5, SettingsAndMore DEF start_inf_pulses

\* What a calibration request does: it writes all settings, or nothing.
LEMMA CalAnswered ==
  ASSUME NEW q, NEW f, q.cmd \in CalCommands
  PROVE  LET s == CalSteps(q, f)
         IN /\ Ends(s) /\ AnswersLast(s) /\ Paired(s)
            /\ \/ Settles(s, f) /\ Len(s) > 1 /\ q.cmd # "stop-inf"
               \/ Answering(s) /\ (q.cmd = "stop-inf" \/ Len(s) = 1)
            /\ q.cmd \in Settings /\ Admissible(q.cmd, q.arg) => Settles(s, f) /\ Len(s) > 1
<1> DEFINE Concludes(s) ==
             Ends(s) /\ AnswersLast(s) /\ Paired(s) /\ Settles(s, f) /\ Len(s) > 1
           Refused(s) == Answering(s) /\ Len(s) = 1
<1>1. Concludes(OkAfter(TRUE, write_settings(f)))
  <2>1. Len(write_settings(f)) >= 4
    BY DEF write_settings
  <2>2. Accesses(write_settings(f)) /\ Settles(write_settings(f), f)
    BY SettingsWritten
  <2> QED BY <2>1, <2>2, SettingsAnswered
<1>2. Concludes(OkAfter(TRUE, start_inf_pulses(f)))
  BY PulseCalls, SettingsAnswered
<1>3. ASSUME NEW n PROVE Concludes(OkAfter(TRUE, n_pulses(f, n)))
  BY PulseCalls, SettingsAnswered
<1>4. \A call : Refused(OkAfter(FALSE, call))
  BY NothingDone DEF OkAfter
<1>5. Answering(OkAfter(TRUE, stop_inf_pulses))
  BY PlainCalls, PlainAnswered
<1>6. \A s : Refused(s) => Ends(s) /\ AnswersLast(s) /\ Paired(s)
  BY DEF Answering
<1>7. CASE q.cmd \in Settings
  <2>1. CalSteps(q, f) = OkAfter(Admissible(q.cmd, q.arg), write_settings(f))
    BY <1>7 DEF CalSteps, Settings, Flags
  <2>2. q.cmd # "stop-inf"
    BY <1>7 DEF Settings, Flags
  <2> HIDE DEF Concludes, Refused
  <2>4. \/ Admissible(q.cmd, q.arg) /\ Concludes(CalSteps(q, f))
        \/ ~Admissible(q.cmd, q.arg) /\ Refused(CalSteps(q, f))
    <3>1. CASE Admissible(q.cmd, q.arg)
      <4>1. OkAfter(Admissible(q.cmd, q.arg), write_settings(f)) = OkAfter(TRUE, write_settings(f))
        BY <3>1 DEF OkAfter
      <4> QED BY <3>1, <4>1, <2>1, <1>1
    <3>2. CASE ~Admissible(q.cmd, q.arg)
      <4>1. OkAfter(Admissible(q.cmd, q.arg), write_settings(f)) = OkAfter(FALSE, write_settings(f))
        BY <3>2 DEF OkAfter
      <4> QED BY <3>2, <4>1, <2>1, <1>4
    <3> QED BY <3>1, <3>2
  <2> QED BY <2>2, <2>4, <1>6 DEF Concludes, Refused
<1>8. CASE q.cmd = "start-inf"
  <2>1. CalSteps(q, f) = OkAfter(TRUE, start_inf_pulses(f)) /\ q.cmd \notin Settings
    BY <1>8 DEF CalSteps, Settings, Flags
  <2> QED BY <1>8, <2>1, <1>2
<1>9. CASE q.cmd = "stop-inf"
  <2>1. CalSteps(q, f) = OkAfter(TRUE, stop_inf_pulses) /\ q.cmd \notin Settings
    BY <1>9 DEF CalSteps, Settings, Flags
  <2> QED BY <1>9, <2>1, <1>5 DEF Answering
<1>10. CASE q.cmd = "n-pulses"
  <2>1. CalSteps(q, f) = OkAfter(q.arg \in Nat \ {0}, n_pulses(f, q.arg)) /\ q.cmd \notin Settings
    BY <1>10 DEF CalSteps, Settings, Flags
  <2>2. CASE q.arg \in Nat \ {0}
    <3>1. OkAfter(q.arg \in Nat \ {0}, n_pulses(f, q.arg)) = OkAfter(TRUE, n_pulses(f, q.arg))
      BY <2>2 DEF OkAfter
    <3> QED BY <1>10, <2>1, <3>1, <1>3
  <2>3. CASE q.arg \notin Nat \ {0}
    <3>1. OkAfter(q.arg \in Nat \ {0}, n_pulses(f, q.arg)) = OkAfter(FALSE, n_pulses(f, q.arg))
      BY <2>3 DEF OkAfter
    <3> QED BY <1>10, <2>1, <3>1, <1>4, <1>6
  <2> QED BY <2>2, <2>3
<1> QED BY <1>7, <1>8, <1>9, <1>10 DEF CalCommands

-----------------------------------------------------------------------------
(* The steps of any request.                                               *)

LEMMA RequestSteps ==
  ASSUME NEW q, IsRequest(q), NEW f
  PROVE  LET s == Steps(q, f)
         IN /\ Ends(s) /\ Paired(s)
            /\ q.cmd \notin AnsweredFirst => AnswersLast(s)
            /\ WritesSettings(q) /\ Len(s) > 1 => Settles(s, f)
            /\ ~(WritesSettings(q) /\ Len(s) > 1) => \A i \in DOMAIN s : Harmless(s[i])
<1> DEFINE s == Steps(q, f)
<1>1. CASE q.group = "vata" /\ q.cmd # Absent
  <2>1. s = VataSteps(q) /\ q.cmd \in VataCommands /\ ~WritesSettings(q)
    BY <1>1 DEF Steps, IsRequest, WritesSettings
  <2> HIDE DEF s
  <2>2. AnsweringFirst(s) /\ (q.cmd \notin AnsweredFirst => Answering(s))
    BY <2>1, VataAnswered
  <2> QED BY <2>1, <2>2 DEF Answering, AnsweringFirst, s
<1>2. CASE q.group = "cal" /\ q.cmd # Absent
  <2>1. s = CalSteps(q, f) /\ q.cmd \in CalCommands
    BY <1>2 DEF Steps, IsRequest
  <2>2. WritesSettings(q) <=> q.cmd # "stop-inf"
    BY <1>2, <2>1 DEF WritesSettings, CalCommands, Settings, Flags
  <2> HIDE DEF s
  <2>3. /\ Ends(s) /\ AnswersLast(s) /\ Paired(s)
        /\ \/ Settles(s, f) /\ Len(s) > 1 /\ q.cmd # "stop-inf"
           \/ Answering(s) /\ (q.cmd = "stop-inf" \/ Len(s) = 1)
    BY <2>1, CalAnswered
  <2>4. ASSUME Answering(s) PROVE \A i \in DOMAIN s : Harmless(s[i])
    BY <2>4 DEF Answering
  <2>5. Len(s) = 1 => ~(Len(s) > 1)
    OBVIOUS
  <2>6. WritesSettings(q) /\ Len(s) > 1 => Settles(s, f)
    BY <2>2, <2>3, <2>5, Zenon
  <2>7. ~(WritesSettings(q) /\ Len(s) > 1) => \A i \in DOMAIN s : Harmless(s[i])
    BY <2>2, <2>3, <2>4, Zenon
  <2> QED BY <2>3, <2>6, <2>7 DEF s
<1>3. CASE q.group = "dac" /\ q.cmd # Absent
  <2>1. s = DacSteps(q) /\ q.cmd \in DacCommands /\ ~WritesSettings(q)
    BY <1>3 DEF Steps, IsRequest, WritesSettings
  <2> HIDE DEF s
  <2>2. Answering(s)
    BY <2>1, DacAnswered
  <2> QED BY <2>1, <2>2 DEF Answering, s
<1>4. CASE q.group = "sync" /\ q.cmd # Absent
  <2>1. s = SyncSteps(q) /\ q.cmd \in SyncCommands /\ ~WritesSettings(q)
    BY <1>4 DEF Steps, IsRequest, WritesSettings
  <2> HIDE DEF s
  <2>2. Answering(s)
    BY <2>1, SyncAnswered
  <2> QED BY <2>1, <2>2 DEF Answering, s
<1>5. CASE q.group \notin {"vata", "cal", "dac", "sync"} \/ q.cmd = Absent
  <2>1. s \in {ValueOf(<<>>), <<Say("error")>>, <<Crash>>}
    BY <1>5 DEF Steps
  <2>2. Answering(ValueOf(<<>>)) /\ Answering(<<Say("error")>>) /\ Answering(<<Crash>>)
    BY PlainEmpty, PlainAnswered, NothingDone
  <2>3. /\ Len(<<Say("error")>>) = 1 /\ Len(<<Crash>>) = 1 /\ Len(<<Say("value")>>) = 1
        /\ ValueOf(<<>>) = <<Say("value")>>
    BY DEF ValueOf
  <2> HIDE DEF s
  <2>4. Answering(s) /\ Len(s) = 1
    BY <2>1, <2>2, <2>3
  <2> QED BY <2>4 DEF Answering, s
<1> QED BY <1>1, <1>2, <1>3, <1>4, <1>5

\* A request that changes a setting writes them all.
LEMMA ChangeSettles ==
  ASSUME NEW q, IsRequest(q), q.group = "cal", NEW f, NEW g, SettingsAfter(q, f) # f
  PROVE  WritesSettings(q) /\ Len(Steps(q, g)) > 1
<1>1. q.cmd \in Settings /\ Admissible(q.cmd, q.arg)
  BY DEF SettingsAfter
<1>2. q.cmd # Absent
  BY <1>1, ServerAssumption DEF ServerAssumption
<1>3. q.cmd \in CalCommands /\ Steps(q, g) = CalSteps(q, g)
  BY <1>1, <1>2 DEF CalCommands, Steps
<1> QED BY <1>1, <1>3, CalAnswered DEF WritesSettings

\* What taking the next step leaves.
LEMMA NextStep ==
  ASSUME NEW s, IsSeq(s), s # <<>>
  PROVE  /\ IsSeq(Tail(s)) /\ (Len(s) = 1 <=> Tail(s) = <<>>)
         /\ Ends(s) /\ Head(s).do \notin {"say", "crash"} => Ends(Tail(s)) /\ Tail(s) # <<>>
         /\ AnswersLast(s) => AnswersLast(Tail(s))
         /\ AnswersLast(s) /\ Head(s).do = "say" => \A i \in DOMAIN Tail(s) : Tail(s)[i].do = "say"
<1>1. /\ IsSeq(Tail(s)) /\ Len(Tail(s)) = Len(s) - 1
      /\ \A i \in DOMAIN Tail(s) : i + 1 \in DOMAIN s /\ Tail(s)[i] = s[i + 1]
      /\ \A i \in DOMAIN s : i # 1 => i - 1 \in DOMAIN Tail(s)
      /\ 1 \in DOMAIN s /\ Head(s) = s[1]
  BY TailOf
<1>2. /\ Len(s) \in Nat /\ DOMAIN s = 1 .. Len(s)
      /\ Len(Tail(s)) \in Nat /\ DOMAIN Tail(s) = 1 .. Len(Tail(s))
      /\ (Tail(s) = <<>> <=> Len(Tail(s)) = 0)
  BY <1>1, Positions
<1>3. Len(s) = 1 <=> Tail(s) = <<>>
  BY <1>1, <1>2
<1>4. Ends(s) /\ Head(s).do \notin {"say", "crash"} => Ends(Tail(s)) /\ Tail(s) # <<>>
  <2> SUFFICES ASSUME Ends(s), Head(s).do \notin {"say", "crash"}
               PROVE  Ends(Tail(s)) /\ Tail(s) # <<>>
    OBVIOUS
  <2>1. PICK i \in DOMAIN s : s[i].do \in {"say", "crash"}
    BY DEF Ends
  <2>2. i # 1 /\ i \in Nat
    BY <2>1, <1>1, <1>2
  <2>3. i - 1 \in DOMAIN Tail(s) /\ Tail(s)[i - 1] = s[i]
    <3>1. i - 1 \in DOMAIN Tail(s) /\ (i - 1) + 1 = i
      BY <2>2, <1>1
    <3> QED BY <3>1, <1>1
  <2>4. Ends(Tail(s))
    BY <2>1, <2>3, <1>1 DEF Ends
  <2>5. Tail(s) # <<>>
    BY <2>3, <1>2
  <2> QED BY <2>4, <2>5
<1>5. AnswersLast(s) => AnswersLast(Tail(s))
  <2> SUFFICES ASSUME AnswersLast(s), NEW i \in DOMAIN Tail(s), NEW j \in DOMAIN Tail(s),
                      i < j, Tail(s)[i].do = "say"
               PROVE  Tail(s)[j].do = "say"
    BY DEF AnswersLast
  <2>1. i + 1 \in DOMAIN s /\ j + 1 \in DOMAIN s /\ i + 1 < j + 1
    BY <1>1, <1>2
  <2> QED BY <2>1, <1>1 DEF AnswersLast
<1>6. AnswersLast(s) /\ Head(s).do = "say" => \A i \in DOMAIN Tail(s) : Tail(s)[i].do = "say"
  <2> SUFFICES ASSUME AnswersLast(s), Head(s).do = "say", NEW i \in DOMAIN Tail(s)
               PROVE  Tail(s)[i].do = "say"
    OBVIOUS
  <2>1. i + 1 \in DOMAIN s /\ 1 < i + 1
    BY <1>1, <1>2
  <2> QED BY <2>1, <1>1 DEF AnswersLast
<1> QED BY <1>1, <1>3, <1>4, <1>5, <1>6

-----------------------------------------------------------------------------
(* The dialogue of the server with its clients.                            *)

\* What a client may send.
Messages == session.requests \cup {Data}

DialogueType ==
  /\ session \in Sessions
  /\ pending \in [Clients -> Messages \cup {None}]
  /\ client \in [Clients -> {"idle", "waiting", "ready", "lost"}]
  /\ todo = [p \in Processes |-> todo[p]]

\* The request being handled: it is another client's, or the same's for which
\* nothing more is pending, and as long as it was not answered its remaining
\* steps hold an answer.
RequestInv ==
  /\ server \in {"handle", "join"} /\ answers = 0 => peer \in Clients /\ pending[peer] = None
  /\ server = "handle" => req \in Messages /\ peer \in Clients
  /\ server = "handle" /\ req \in Own => answers = 0
  /\ server # "handle" \/ req \in Own => todo["server"] = <<>>
  /\ server = "handle" /\ req \notin Own =>
       LET s == todo["server"]
       IN /\ IsSeq(s) /\ s # <<>>
          /\ answers = 0 => Ends(s)
          /\ req.cmd \notin AnsweredFirst =>
               AnswersLast(s) /\ (answers # 0 => \A i \in DOMAIN s : s[i].do = "say")

\* Those who wait for each answer start nothing before it.
SerialInv ==
  session.serial => todo["tool"] = <<>> \/ \A c \in Clients : client[c] # "waiting"

DialogueInv == DialogueType /\ RequestInv /\ EachAnsweredOnce /\ SerialInv

\* No message is None, and each that is not the server's own is a request.
LEMMA MessagesKnown ==
  ASSUME session \in Sessions, NEW q \in Messages
  PROVE  q # None /\ (q \in Own \/ IsRequest(q))
<1>1. Data # None /\ IsRequest(Data)
  BY ServerAssumption DEF ServerAssumption, IsRequest, Data
<1>2. q \in session.requests => q # None /\ (q \in Own \/ IsRequest(q))
  BY ServerAssumption DEF ServerAssumption
<1> QED BY <1>1, <1>2 DEF Messages

\* The four requests of which more than accesses is made are four.
LEMMA OwnRequests ==
  /\ EmitStart # EmitStop /\ EmitStart # Halt /\ EmitStart # SetConfigBinary
  /\ EmitStop # Halt /\ EmitStop # SetConfigBinary /\ Halt # SetConfigBinary
<1>1. EmitStart.group = "emit" /\ EmitStop.group = "emit" /\ Halt.group = "halt"
  BY DEF EmitStart, EmitStop, Halt
<1>2. SetConfigBinary.group = "vata" /\ EmitStart.cmd = "start" /\ EmitStop.cmd = "stop"
  BY DEF EmitStart, EmitStop, SetConfigBinary
<1> QED BY <1>1, <1>2

LEMMA DialogueInit == Init => DialogueInv
<1> SUFFICES ASSUME Init PROVE DialogueInv
  OBVIOUS
<1>1. todo = [p \in Processes |-> <<>>] /\ session \in Sessions
  BY DEF Init, RegInit
<1>2. todo = [p \in Processes |-> todo[p]] /\ todo["server"] = <<>> /\ todo["tool"] = <<>>
  BY <1>1 DEF Processes
<1>3. DialogueType
  BY <1>1, <1>2 DEF DialogueType, Init
<1>4. RequestInv /\ EachAnsweredOnce /\ SerialInv
  BY <1>2 DEF RequestInv, EachAnsweredOnce, SerialInv, Init
<1> QED BY <1>3, <1>4 DEF DialogueInv

\* A step that is neither the server's nor a client's.
LEMMA DialogueKept ==
  ASSUME DialogueInv, UNCHANGED <<server, peer, req, answers, pending, client, session>>,
         DOMAIN todo' = Processes, todo' = [p \in Processes |-> todo'[p]],
         todo'["server"] = todo["server"],
         \/ todo'["tool"] = todo["tool"]
         \/ todo["tool"] # <<>>
         \/ session.serial => \A c \in Clients : client[c] # "waiting"
  PROVE  DialogueInv'
<1>1. DialogueType'
  BY DEF DialogueInv, DialogueType, Messages
<1>2. RequestInv'
  BY DEF DialogueInv, RequestInv, Messages
<1>3. EachAnsweredOnce'
  BY DEF DialogueInv, EachAnsweredOnce
<1>4. SerialInv'
  BY DEF DialogueInv, SerialInv
<1> QED BY <1>1, <1>2, <1>3, <1>4 DEF DialogueInv

\* What the steps of RegisterAccess make of todo.
LEMMA TodoAfter ==
  ASSUME todo = [p \in Processes |-> todo[p]], NEW p \in Processes
  PROVE  /\ Access(p) \/ Take(p) =>
              /\ DOMAIN todo' = Processes /\ todo' = [r \in Processes |-> todo'[r]]
              /\ todo'[p] = Tail(todo[p])
              /\ \A r \in Processes : r # p => todo'[r] = todo[r]
         /\ Cut(p) =>
              /\ DOMAIN todo' = Processes /\ todo' = [r \in Processes |-> todo'[r]]
              /\ todo'[p] = <<>>
              /\ \A r \in Processes : r # p => todo'[r] = todo[r]
         /\ \A op, steps : Begin(p, op, steps) =>
              /\ DOMAIN todo' = Processes /\ todo' = [r \in Processes |-> todo'[r]]
              /\ todo'[p] = steps
              /\ \A r \in Processes : r # p => todo'[r] = todo[r]
<1>1. Access(p) \/ Take(p) => todo' = [todo EXCEPT ![p] = Tail(@)]
  BY DEF Access, Take
<1>2. Cut(p) => todo' = [todo EXCEPT ![p] = <<>>]
  BY DEF Cut
<1>3. \A op, steps : Begin(p, op, steps) => todo' = [todo EXCEPT ![p] = steps]
  BY DEF Begin
<1> QED BY <1>1, <1>2, <1>3

\* The server's steps for a request.
LEMMA DialogueAccess ==
  ASSUME DialogueInv, ServerAccess
  PROVE  DialogueInv'
<1> DEFINE s == todo["server"]
<1>1. /\ server = "handle" /\ Access("server") /\ s # <<>>
      /\ Head(s).do \in {"put", "load", "store", "fetch"}
      /\ IF Len(s) = 1 THEN server' = "recv" /\ req' = None ELSE UNCHANGED <<server, req>>
      /\ UNCHANGED <<peer, answers, pending, client, session>>
  BY DEF ServerAccess, Access, NextIs, Finished, clientVars
<1>2. /\ todo' = [p \in Processes |-> todo'[p]] /\ DOMAIN todo' = Processes
      /\ todo'["server"] = Tail(s) /\ todo'["tool"] = todo["tool"]
  BY <1>1, TodoAfter DEF DialogueInv, DialogueType, Processes
<1>3. req \notin Own /\ IsSeq(s)
  BY <1>1 DEF DialogueInv, RequestInv
<1> HIDE DEF s
<1>4. /\ IsSeq(Tail(s)) /\ (Len(s) = 1 <=> Tail(s) = <<>>)
      /\ Ends(s) => Ends(Tail(s)) /\ Tail(s) # <<>>
      /\ AnswersLast(s) => AnswersLast(Tail(s))
      /\ (\A i \in DOMAIN s : s[i].do = "say") => \A i \in DOMAIN Tail(s) : Tail(s)[i].do = "say"
  <2>1. \A i \in DOMAIN Tail(s) : i + 1 \in DOMAIN s /\ Tail(s)[i] = s[i + 1]
    BY <1>1, <1>3, TailOf
  <2> QED BY <1>1, <1>3, <2>1, NextStep
<1>5. DialogueType'
  BY <1>1, <1>2 DEF DialogueInv, DialogueType, Messages
<1>6. SerialInv'
  BY <1>1, <1>2 DEF DialogueInv, SerialInv
<1>7. CASE Len(s) = 1
  <2>1. answers # 0
    BY <1>1, <1>3, <1>4, <1>7 DEF DialogueInv, RequestInv, s
  <2>2. server' = "recv" /\ todo'["server"] = <<>>
    BY <1>1, <1>2, <1>4, <1>7
  <2>3. RequestInv'
    BY <2>2 DEF RequestInv
  <2>4. EachAnsweredOnce'
    BY <1>1, <2>1, <2>2 DEF DialogueInv, EachAnsweredOnce
  <2> QED BY <1>5, <1>6, <2>3, <2>4 DEF DialogueInv
<1>8. CASE Len(s) # 1
  <2>1. server' = server /\ req' = req
    BY <1>1, <1>8
  <2>2. RequestInv'
    BY <1>1, <1>2, <1>3, <1>4, <1>8, <2>1 DEF DialogueInv, RequestInv, Messages, s
  <2>3. EachAnsweredOnce'
    BY <1>1, <2>1 DEF DialogueInv, EachAnsweredOnce
  <2> QED BY <1>5, <1>6, <2>2, <2>3 DEF DialogueInv
<1> QED BY <1>7, <1>8

LEMMA DialogueAnswer ==
  ASSUME DialogueInv, AnswerRequest
  PROVE  DialogueInv'
<1> DEFINE s == todo["server"]
<1>1. /\ server = "handle" /\ Take("server") /\ s # <<>> /\ Head(s).do = "say" /\ answers = 0
      /\ IF Len(s) = 1 THEN server' = "recv" /\ req' = None ELSE UNCHANGED <<server, req>>
      /\ client' = [client EXCEPT ![peer] = "idle"] /\ answers' = answers + 1
      /\ UNCHANGED <<peer, pending, session>>
  BY DEF AnswerRequest, Answer, NextIs, Finished
<1>2. /\ todo' = [p \in Processes |-> todo'[p]] /\ DOMAIN todo' = Processes
      /\ todo'["server"] = Tail(s) /\ todo'["tool"] = todo["tool"]
  BY <1>1, TodoAfter DEF DialogueInv, DialogueType, Processes
<1>3. req \notin Own /\ IsSeq(s) /\ peer \in Clients /\ pending[peer] = None
  BY <1>1 DEF DialogueInv, RequestInv
<1>4. answers' # 0
  BY <1>1
<1> HIDE DEF s
<1>5. /\ IsSeq(Tail(s)) /\ (Len(s) = 1 <=> Tail(s) = <<>>)
      /\ AnswersLast(s) => AnswersLast(Tail(s))
      /\ AnswersLast(s) => \A i \in DOMAIN Tail(s) : Tail(s)[i].do = "say"
  BY <1>1, <1>3, NextStep
<1>6. DialogueType'
  BY <1>1, <1>2 DEF DialogueInv, DialogueType, Messages
<1>7. SerialInv'
  BY <1>1, <1>2, <1>3 DEF DialogueInv, SerialInv, DialogueType
<1>8. EachAnsweredOnce'
  <2>1. \A c \in Clients : client'[c] = IF c = peer THEN "idle" ELSE client[c]
    BY <1>1, <1>3 DEF DialogueInv, DialogueType
  <2> QED BY <1>1, <1>3, <1>4, <2>1 DEF DialogueInv, EachAnsweredOnce
<1>9. RequestInv'
  <2>1. CASE Len(s) = 1
    BY <1>1, <1>2, <1>4, <1>5, <2>1 DEF RequestInv
  <2>2. CASE Len(s) # 1
    BY <1>1, <1>2, <1>3, <1>4, <1>5, <2>2 DEF DialogueInv, RequestInv, Messages, s
  <2> QED BY <2>1, <2>2
<1> QED BY <1>6, <1>7, <1>8, <1>9 DEF DialogueInv

\* The end of the process.
LEMMA DialogueDies ==
  ASSUME DialogueInv, Die, UNCHANGED <<clientVars, session>>
  PROVE  DialogueInv'
<1>1. /\ server' = "down" /\ todo' = [p \in Processes |-> todo'[p]] /\ todo'["server"] = <<>>
      /\ todo'["tool"] = todo["tool"] /\ UNCHANGED <<pending, client, session>>
  BY TodoAfter DEF Die, DialogueInv, DialogueType, Processes, clientVars
<1>2. DialogueType'
  BY <1>1 DEF DialogueInv, DialogueType, Messages
<1>3. RequestInv' /\ EachAnsweredOnce'
  BY <1>1 DEF RequestInv, EachAnsweredOnce
<1>4. SerialInv'
  BY <1>1 DEF DialogueInv, SerialInv
<1> QED BY <1>2, <1>3, <1>4 DEF DialogueInv

\* A request of the server's own is answered, or goes on without an answer.
LEMMA DialogueOwn ==
  ASSUME DialogueInv, HandleEmit \/ HandleSetConfig \/ HandleHalt
  PROVE  DialogueInv'
<1>1. /\ server = "handle" /\ req \in Own /\ UNCHANGED <<peer, pending, session, todo>>
  BY DEF HandleEmit, HandleSetConfig, HandleHalt, Answer, Own, clientVars, regVars
<1>2. answers = 0 /\ todo["server"] = <<>> /\ peer \in Clients /\ pending[peer] = None
  BY <1>1 DEF DialogueInv, RequestInv
<1>3. CASE HandleHalt
  <2>1. server' = "join" /\ UNCHANGED <<answers, client>>
    BY <1>3 DEF HandleHalt, clientVars
  <2>2. DialogueType'
    BY <1>1, <2>1 DEF DialogueInv, DialogueType, Messages
  <2>3. RequestInv'
    BY <1>1, <1>2, <2>1 DEF RequestInv
  <2>4. EachAnsweredOnce' /\ SerialInv'
    BY <1>1, <2>1 DEF DialogueInv, EachAnsweredOnce, SerialInv
  <2> QED BY <2>2, <2>3, <2>4 DEF DialogueInv
<1>4. CASE HandleEmit \/ HandleSetConfig
  <2>1. /\ server' \in {"recv", "poll"} /\ answers' # 0
        /\ \E n \in {"idle", "ready"} : client' = [client EXCEPT ![peer] = n]
    BY <1>2, <1>4 DEF HandleEmit, HandleSetConfig, Answer, Finished
  <2>2. /\ client' \in [Clients -> {"idle", "waiting", "ready", "lost"}]
        /\ \A c \in Clients : c # peer => client'[c] = client[c]
        /\ client'[peer] # "waiting"
    BY <1>2, <2>1 DEF DialogueInv, DialogueType
  <2>3. DialogueType'
    BY <1>1, <2>2 DEF DialogueInv, DialogueType, Messages
  <2>4. RequestInv'
    BY <1>1, <1>2, <2>1 DEF RequestInv
  <2>5. EachAnsweredOnce'
    BY <1>1, <1>2, <2>1, <2>2 DEF DialogueInv, EachAnsweredOnce
  <2>6. SerialInv'
    BY <1>1, <2>2 DEF DialogueInv, SerialInv
  <2> QED BY <2>3, <2>4, <2>5, <2>6 DEF DialogueInv
<1> QED BY <1>3, <1>4

\* A request is received.
LEMMA DialogueReceive ==
  ASSUME DialogueInv, NEW c \in session.clients, Receive(c)
  PROVE  DialogueInv'
<1> DEFINE q == pending[c]
           f == IF q.group = "cal" THEN SettingsAfter(q, calctrl) ELSE calctrl
           s == Steps(q, f)
<1>1. c \in Clients /\ session \in Sessions
  BY DEF DialogueInv, DialogueType, Clients
<1>2. /\ server = "recv" /\ q # None /\ peer' = c /\ req' = q
      /\ pending' = [pending EXCEPT ![c] = None] /\ answers' = 0 /\ server' = "handle"
      /\ UNCHANGED <<client, session>>
      /\ IF q \in Own THEN UNCHANGED todo
         ELSE Begin("server", [by |-> "server", ask |-> q, f |-> f], s)
  BY DEF Receive, regVars
<1>3. q \in Messages /\ (q \in Own \/ IsRequest(q))
  <2>1. q \in Messages
    BY <1>1, <1>2 DEF DialogueInv, DialogueType
  <2> QED BY <1>1, <2>1, MessagesKnown
<1> HIDE DEF q, f, s
<1>4. /\ todo' = [p \in Processes |-> todo'[p]] /\ todo'["tool"] = todo["tool"]
      /\ q \in Own => todo'["server"] = todo["server"]
      /\ q \notin Own => todo'["server"] = s
  <2>1. CASE q \in Own
    BY <1>2, <2>1 DEF DialogueInv, DialogueType
  <2>2. CASE q \notin Own
    BY <1>2, <2>2, TodoAfter DEF DialogueInv, DialogueType, Processes
  <2> QED BY <2>1, <2>2
<1>5. \A d \in Clients : pending'[d] = IF d = c THEN None ELSE pending[d]
  BY <1>1, <1>2 DEF DialogueInv, DialogueType
<1>6. DialogueType'
  BY <1>1, <1>2, <1>4 DEF DialogueInv, DialogueType, Messages
<1>7. EachAnsweredOnce'
  <2>1. \A d \in Clients : client[d] = "waiting" <=> pending[d] # None
    BY <1>2 DEF DialogueInv, EachAnsweredOnce
  <2>2. pending[c] # None
    BY <1>2 DEF q
  <2> QED BY <1>1, <1>2, <1>5, <2>1, <2>2 DEF EachAnsweredOnce
<1>8. SerialInv'
  BY <1>2, <1>4 DEF DialogueInv, SerialInv
<1>9. RequestInv'
  <2>1. Messages' = Messages
    BY <1>2 DEF Messages
  <2>2. CASE q \in Own
    <3>1. todo'["server"] = <<>>
      BY <1>2, <1>4, <2>2 DEF DialogueInv, RequestInv
    <3> QED BY <1>1, <1>2, <1>3, <1>5, <2>1, <2>2, <3>1 DEF RequestInv
  <2>3. CASE q \notin Own
    <3>1. Ends(s) /\ (q.cmd \notin AnsweredFirst => AnswersLast(s))
      BY <1>3, <2>3, RequestSteps DEF s
    <3>2. IsSeq(s) /\ s # <<>>
      <4>1. IsSeq(s) /\ DOMAIN s # {}
        BY <3>1 DEF Ends
      <4>2. DOMAIN <<>> = {}
        OBVIOUS
      <4> QED BY <4>1, <4>2
    <3> QED BY <1>1, <1>2, <1>3, <1>4, <1>5, <2>1, <2>3, <3>1, <3>2 DEF RequestInv
  <2> QED BY <2>2, <2>3
<1> QED BY <1>6, <1>7, <1>8, <1>9 DEF DialogueInv

\* What comes after set-config-binary.
LEMMA DialoguePoll ==
  ASSUME DialogueInv, PollTimeout \/ \E c \in session.clients : PollConfig(c)
  PROVE  DialogueInv'
<1>1. server = "poll" /\ server' = "recv" /\ UNCHANGED <<todo, session>>
  BY DEF PollTimeout, PollConfig, Finished, regVars
<1>2. RequestInv'
  BY <1>1 DEF DialogueInv, RequestInv
<1>3. CASE PollTimeout
  <2>1. UNCHANGED <<pending, client>>
    BY <1>3 DEF PollTimeout, clientVars
  <2> QED BY <1>1, <1>2, <2>1
          DEF DialogueInv, DialogueType, EachAnsweredOnce, SerialInv, Messages
<1>4. ASSUME NEW c \in session.clients, PollConfig(c) PROVE DialogueInv'
  <2>1. /\ pending' = [pending EXCEPT ![c] = None] /\ client' = [client EXCEPT ![c] = "idle"]
        /\ c \in Clients
    BY <1>4 DEF PollConfig, DialogueInv, DialogueType, Clients
  <2>2. DialogueType'
    BY <1>1, <2>1 DEF DialogueInv, DialogueType, Messages
  <2>3. EachAnsweredOnce' /\ SerialInv'
    BY <1>1, <2>1 DEF DialogueInv, DialogueType, EachAnsweredOnce, SerialInv
  <2> QED BY <1>2, <2>2, <2>3 DEF DialogueInv
<1> QED BY <1>3, <1>4

\* The clients' own steps.
LEMMA DialogueClient ==
  ASSUME DialogueInv, NEW c \in session.clients,
         GiveUp(c) \/ \E q \in session.requests \cup {Data} : Send(c, q)
  PROVE  DialogueInv'
<1>1. c \in Clients /\ session \in Sessions /\ UNCHANGED <<server, peer, req, answers, todo, session>>
  <2>1. c \in Clients /\ session \in Sessions
    BY DEF DialogueInv, DialogueType, Clients
  <2>2. UNCHANGED <<server, peer, req, answers, todo, session>>
    BY DEF GiveUp, Send, regVars
  <2> QED BY <2>1, <2>2
<1>2. CASE GiveUp(c)
  <2>1. client[c] = "lost" /\ client' = [client EXCEPT ![c] = "idle"] /\ pending' = pending
    BY <1>2 DEF GiveUp
  <2>2. DialogueType'
    BY <1>1, <2>1 DEF DialogueInv, DialogueType, Messages
  <2>3. RequestInv'
    BY <1>1, <2>1 DEF DialogueInv, RequestInv, Messages
  <2>4. EachAnsweredOnce' /\ SerialInv'
    BY <1>1, <2>1 DEF DialogueInv, DialogueType, EachAnsweredOnce, SerialInv
  <2> QED BY <2>2, <2>3, <2>4 DEF DialogueInv
<1>3. ASSUME NEW q \in session.requests \cup {Data}, Send(c, q) PROVE DialogueInv'
  <2>1. /\ client[c] \in {"idle", "ready"}
        /\ session.serial => todo["tool"] = <<>>
        /\ pending' = [pending EXCEPT ![c] = q] /\ client' = [client EXCEPT ![c] = "waiting"]
    BY <1>3 DEF Send
  <2>2. q \in Messages /\ q # None
    BY <1>1, <1>3, MessagesKnown DEF Messages
  <2>3. /\ \A d \in Clients : pending'[d] = IF d = c THEN q ELSE pending[d]
        /\ \A d \in Clients : client'[d] = IF d = c THEN "waiting" ELSE client[d]
    BY <1>1, <2>1 DEF DialogueInv, DialogueType
  <2>4. DialogueType'
    BY <1>1, <2>1, <2>2 DEF DialogueInv, DialogueType, Messages
  <2>5. server # "down" => ~(peer = c /\ server \in {"handle", "join"} /\ answers = 0)
    BY <1>1, <2>1 DEF DialogueInv, EachAnsweredOnce
  <2>6. RequestInv'
    <3>1. server \in {"handle", "join"} /\ answers = 0 => peer # c
      BY <2>5
    <3> QED BY <1>1, <2>3, <3>1 DEF DialogueInv, RequestInv, Messages
  <2>7. EachAnsweredOnce'
    BY <1>1, <2>2, <2>3 DEF DialogueInv, EachAnsweredOnce
  <2>8. SerialInv'
    BY <1>1, <2>1 DEF SerialInv
  <2> QED BY <2>4, <2>6, <2>7, <2>8 DEF DialogueInv
<1> QED BY <1>2, <1>3

\* The server is started again.
LEMMA DialogueRestart ==
  ASSUME DialogueInv, Restart
  PROVE  DialogueInv'
<1>1. /\ server = "down" /\ server' = "recv" /\ answers' = 0 /\ UNCHANGED <<session, todo>>
      /\ pending' = [c \in Clients |-> None]
      /\ client' = [c \in Clients |-> IF client[c] = "waiting" THEN "lost" ELSE client[c]]
  BY DEF Restart, Start, regVars
<1>2. \A c \in Clients : client'[c] # "waiting" /\ pending'[c] = None
  BY <1>1
<1>3. DialogueType'
  BY <1>1 DEF DialogueInv, DialogueType, Messages
<1>4. RequestInv'
  BY <1>1 DEF DialogueInv, RequestInv
<1>5. EachAnsweredOnce' /\ SerialInv'
  BY <1>1, <1>2 DEF EachAnsweredOnce, SerialInv
<1> QED BY <1>3, <1>4, <1>5 DEF DialogueInv

\* The tools, the clock and the emitter.
LEMMA DialogueOthers ==
  ASSUME DialogueInv, EmitterLoop \/ ToolAccess \/ Clock \/ \E run \in session.runs : Tool(run)
  PROVE  DialogueInv'
<1>1. UNCHANGED <<server, peer, req, answers, pending, client, session>>
  BY DEF EmitterLoop, ToolAccess, Clock, Tool, clientVars
<1>2. todo = [p \in Processes |-> todo[p]] /\ DOMAIN todo = Processes
  BY DEF DialogueInv, DialogueType
<1>3. CASE EmitterLoop \/ Clock
  <2>1. UNCHANGED todo
    BY <1>3 DEF EmitterLoop, Clock, Tick, regVars
  <2> QED BY <1>1, <1>2, <2>1, DialogueKept
<1>4. CASE ToolAccess
  <2>1. Access("tool") /\ todo["tool"] # <<>>
    BY <1>4 DEF ToolAccess, Access, NextIs
  <2>2. /\ DOMAIN todo' = Processes /\ todo' = [r \in Processes |-> todo'[r]]
        /\ todo'["server"] = todo["server"]
    BY <1>2, <2>1, TodoAfter DEF Processes
  <2> QED BY <1>1, <2>1, <2>2, DialogueKept
<1>5. ASSUME NEW run \in session.runs, Tool(run) PROVE DialogueInv'
  <2>1. /\ session.serial => \A c \in Clients : client[c] = "idle"
        /\ Begin("tool", [by |-> "tool", run |-> run], ToolSteps(run))
    BY <1>5 DEF Tool, RunTool
  <2>2. /\ DOMAIN todo' = Processes /\ todo' = [r \in Processes |-> todo'[r]]
        /\ todo'["server"] = todo["server"]
    BY <1>2, <2>1, TodoAfter DEF Processes
  <2> QED BY <1>1, <2>1, <2>2, DialogueKept
<1> QED BY <1>3, <1>4, <1>5

\* The dialogue keeps its invariant, whatever the step.
LEMMA DialogueStep == DialogueInv /\ [Next]_vars => DialogueInv'
<1> SUFFICES ASSUME DialogueInv, [Next]_vars PROVE DialogueInv'
  OBVIOUS
<1>1. CASE Server
  <2>1. CASE AnswerAgain \/ ReadNull
    <3>1. Die /\ UNCHANGED <<clientVars, session>>
      BY <2>1 DEF AnswerAgain, ReadNull
    <3> QED BY <3>1, DialogueDies
  <2>2. CASE Join
    <3>1. /\ server = "join" /\ server' = "down" /\ UNCHANGED <<clientVars, session, todo>>
      BY <2>2 DEF Join, regVars
    <3> QED BY <3>1
            DEF DialogueInv, DialogueType, RequestInv, EachAnsweredOnce, SerialInv, Messages, clientVars
  <2> QED BY <1>1, <2>1, <2>2, DialogueAccess, DialogueAnswer, DialogueOwn, DialoguePoll,
             DialogueReceive DEF Server
<1>2. CASE EmitterFault
  <2>1. Die /\ UNCHANGED <<clientVars, session>>
    BY <1>2 DEF EmitterFault
  <2> QED BY <2>1, DialogueDies
<1>3. CASE EmitterLoop \/ ToolAccess \/ Clock \/ \E run \in session.runs : Tool(run)
  BY <1>3, DialogueOthers
<1>4. CASE Restart
  BY <1>4, DialogueRestart
<1>5. ASSUME NEW c \in session.clients, GiveUp(c) \/ \E q \in session.requests \cup {Data} : Send(c, q)
      PROVE  DialogueInv'
  BY <1>5, DialogueClient
<1>6. CASE UNCHANGED vars
  <2>1. UNCHANGED <<server, peer, req, answers, pending, client, session, todo>>
    BY <1>6 DEF vars, clientVars, regVars
  <2> QED BY <2>1 DEF DialogueInv, DialogueType, RequestInv, EachAnsweredOnce, SerialInv, Messages
<1> QED BY <1>1, <1>2, <1>3, <1>4, <1>5, <1>6 DEF Next

\* As long as the server is up, a client waits if and only if its request is
\* on its way or is being handled and was not answered: nobody is answered
\* twice or in place of another, nobody is forgotten (process_req).
THEOREM EachClientOnce == Spec => []EachAnsweredOnce
<1>1. DialogueInv => EachAnsweredOnce
  BY DEF DialogueInv
<1> QED BY DialogueInit, DialogueStep, <1>1, PTL DEF Spec

\* Where everybody waits for each answer before the next command, a tool runs
\* only while nothing is left of the last request but answers, unless it is
\* one of the five that are answered first (_process_vata_msg).
THEOREM WaitersHaveThemDone == Spec => []AnsweredIsDone
<1>1. DialogueInv => AnsweredIsDone
  <2> SUFFICES ASSUME DialogueInv, session.serial, todo["tool"] # <<>>,
                      NEW i \in DOMAIN todo["server"], todo["server"][i].do # "say",
                      req.cmd \notin AnsweredFirst
               PROVE  FALSE
    BY DEF AnsweredIsDone
  <2>1. todo["server"] # <<>>
    <3>1. DOMAIN <<>> = {}
      OBVIOUS
    <3> QED BY <3>1
  <2>2. server = "handle" /\ req \notin Own
    BY <2>1 DEF DialogueInv, RequestInv
  <2>3. answers = 0 /\ peer \in Clients
    BY <2>2 DEF DialogueInv, RequestInv
  <2>4. client[peer] = "waiting"
    BY <2>2, <2>3 DEF DialogueInv, EachAnsweredOnce
  <2> QED BY <2>3, <2>4 DEF DialogueInv, SerialInv
<1> QED BY DialogueInit, DialogueStep, <1>1, PTL DEF Spec

-----------------------------------------------------------------------------
(* The emitter thread and what the server believes of it.                  *)

EmitterType ==
  /\ flag \in BOOLEAN /\ emRunning \in BOOLEAN
  /\ inproc \in Seq({"start", "stop", "halt"})

\* While the server takes requests no halt is on its way to the emitter.
EmitterInv ==
  /\ EmitterType
  /\ server \notin {"join", "down"} =>
       emitter = "loop" /\ \A i \in 1 .. Len(inproc) : inproc[i] # "halt"
  /\ FlagAgrees

LEMMA EmitterInit == Init => EmitterInv
<1> SUFFICES ASSUME Init PROVE EmitterInv
  OBVIOUS
<1>1. <<>> \in Seq({"start", "stop", "halt"}) /\ Len(<<>>) = 0
  OBVIOUS
<1>2. flag = FALSE /\ emRunning = FALSE /\ inproc = <<>> /\ emitter = "loop"
  BY DEF Init
<1>3. Queued = FALSE
  BY <1>2, Zenon DEF Queued
<1>4. EmitterType
  BY <1>1, <1>2 DEF EmitterType
<1>5. \A i \in 1 .. Len(inproc) : inproc[i] # "halt"
  BY <1>1, <1>2
<1> QED BY <1>2, <1>3, <1>4, <1>5, Zenon DEF EmitterInv, FlagAgrees

\* One more message for the emitter.
LEMMA EmitterTold ==
  ASSUME EmitterInv, HandleEmit
  PROVE  EmitterInv'
<1>1. /\ server = "handle" /\ server' = "recv" /\ UNCHANGED <<emitter, emRunning>>
      /\ req \in {EmitStart, EmitStop} /\ req.cmd = IF req = EmitStart THEN "start" ELSE "stop"
  BY OwnRequests DEF HandleEmit, Finished, EmitStart, EmitStop
<1>2. CASE UNCHANGED <<flag, inproc>>
  BY <1>1, <1>2 DEF EmitterInv, EmitterType, FlagAgrees, Queued
<1>3. CASE flag # (req = EmitStart) /\ flag' = ~flag /\ inproc' = Append(inproc, req.cmd)
  <2> DEFINE m == req.cmd
  <2>1. m \in {"start", "stop"} /\ (m = "start" <=> req = EmitStart)
    BY <1>1
  <2>2. flag' \in BOOLEAN /\ (flag' <=> m = "start")
    BY <1>3, <2>1 DEF EmitterInv, EmitterType
  <2> HIDE DEF m
  <2>3. inproc' = Append(inproc, m)
    BY <1>3 DEF m
  <2>4. /\ inproc' \in Seq({"start", "stop", "halt"}) /\ Len(inproc') = Len(inproc) + 1
        /\ Len(inproc) \in Nat /\ inproc'[Len(inproc')] = m
        /\ \A i \in 1 .. Len(inproc) : inproc'[i] = inproc[i]
    BY <2>1, <2>3 DEF EmitterInv, EmitterType
  <2>5. inproc' # <<>>
    BY <2>4
  <2>6. \A i \in 1 .. Len(inproc') : inproc'[i] # "halt"
    BY <1>1, <2>1, <2>4 DEF EmitterInv
  <2>7. Queued' <=> m = "start"
    BY <2>1, <2>4, <2>5 DEF Queued
  <2>8. Queued' \in BOOLEAN
    BY <2>1, <2>4, <2>5 DEF Queued
  <2>9. FlagAgrees'
    BY <2>2, <2>7, <2>8 DEF FlagAgrees
  <2> QED BY <1>1, <2>2, <2>4, <2>6, <2>9 DEF EmitterInv, EmitterType
<1> QED BY <1>2, <1>3 DEF HandleEmit

\* The emitter takes one.
LEMMA EmitterTakes ==
  ASSUME EmitterInv, EmitterLoop
  PROVE  EmitterInv'
<1> DEFINE h == Head(inproc)
<1>1. /\ inproc # <<>> /\ inproc' = Tail(inproc) /\ UNCHANGED <<server, flag>>
      /\ emitter' = IF h = "halt" THEN "halted" ELSE "loop"
      /\ emRunning' = IF h = "halt" THEN emRunning ELSE h = "start"
  BY DEF EmitterLoop
<1>2. /\ h = inproc[1] /\ Len(inproc) \in Nat \ {0} /\ Len(inproc') = Len(inproc) - 1
      /\ inproc' \in Seq({"start", "stop", "halt"})
      /\ \A i \in 1 .. Len(inproc') : inproc'[i] = inproc[i + 1]
      /\ (inproc' = <<>> <=> Len(inproc) = 1)
  <2>1. IsSeq(inproc)
    BY SeqIsSeq DEF EmitterInv, EmitterType
  <2>2. /\ IsSeq(inproc') /\ Len(inproc') = Len(inproc) - 1 /\ h = inproc[1]
        /\ \A i \in DOMAIN inproc' : inproc'[i] = inproc[i + 1]
    BY <1>1, <2>1, TailOf
  <2>3. /\ Len(inproc) \in Nat /\ (inproc = <<>> <=> Len(inproc) = 0)
        /\ DOMAIN inproc' = 1 .. Len(inproc') /\ (inproc' = <<>> <=> Len(inproc') = 0)
    BY <2>1, <2>2, Positions
  <2>4. inproc' \in Seq({"start", "stop", "halt"})
    BY <1>1, HeadTailProperties DEF EmitterInv, EmitterType
  <2> HIDE DEF h
  <2> QED BY <1>1, <2>2, <2>3, <2>4
<1> HIDE DEF h
<1>3. EmitterType'
  <2>1. emRunning' \in BOOLEAN
    BY <1>1 DEF EmitterInv, EmitterType
  <2> QED BY <1>1, <1>2, <2>1 DEF EmitterInv, EmitterType
<1>4. CASE server \in {"join", "down"}
  BY <1>1, <1>3, <1>4 DEF EmitterInv, FlagAgrees
<1>5. CASE server \notin {"join", "down"}
  <2>1. h # "halt" /\ \A i \in 1 .. Len(inproc') : inproc'[i] # "halt"
    BY <1>2, <1>5 DEF EmitterInv
  <2>2. emitter' = "loop" /\ emRunning' = (h = "start")
    BY <1>1, <2>1
  <2>3. flag = (inproc[Len(inproc)] = "start")
    <3>1. inproc[Len(inproc)] # "halt"
      BY <1>2, <1>5 DEF EmitterInv
    <3> QED BY <1>1, <1>5, <3>1 DEF EmitterInv, FlagAgrees, Queued
  <2>4. CASE Len(inproc) = 1
    <3>1. Queued' = emRunning' /\ flag' = (h = "start")
      BY <1>1, <1>2, <2>3, <2>4 DEF Queued
    <3> QED BY <1>1, <1>3, <2>1, <2>2, <3>1 DEF EmitterInv, FlagAgrees
  <2>5. CASE Len(inproc) # 1
    <3>1. inproc' # <<>> /\ inproc'[Len(inproc')] = inproc[Len(inproc)]
      BY <1>2, <2>5
    <3>2. inproc'[Len(inproc')] # "halt"
      BY <1>2, <2>1, <2>5
    <3>3. Queued' = (inproc[Len(inproc)] = "start")
      BY <3>1, <3>2 DEF Queued
    <3> QED BY <1>1, <1>3, <2>1, <2>2, <2>3, <3>3 DEF EmitterInv, FlagAgrees
  <2> QED BY <2>4, <2>5
<1> QED BY <1>4, <1>5

\* Steps that leave the emitter and what it was told alone, and at which the
\* server does not come back.
LEMMA EmitterKept ==
  ASSUME EmitterInv, UNCHANGED <<flag, inproc, emRunning>>,
         \/ server' = "down"
         \/ emitter' = emitter /\ (server \in {"join", "down"} => server' \in {"join", "down"})
  PROVE  EmitterInv'
<1>1. EmitterType' /\ Queued' = Queued
  BY DEF EmitterInv, EmitterType, Queued
<1> QED BY <1>1 DEF EmitterInv, FlagAgrees

LEMMA EmitterStep == EmitterInv /\ [Next]_vars => EmitterInv'
<1> SUFFICES ASSUME EmitterInv, [Next]_vars PROVE EmitterInv'
  OBVIOUS
<1>1. CASE HandleEmit
  BY <1>1, EmitterTold
<1>2. CASE EmitterLoop
  BY <1>2, EmitterTakes
<1>3. CASE HandleHalt
  <2>1. /\ inproc' = Append(inproc, "halt") /\ server' = "join" /\ UNCHANGED <<flag, emRunning>>
    BY <1>3 DEF HandleHalt
  <2>2. inproc' \in Seq({"start", "stop", "halt"})
    BY <2>1 DEF EmitterInv, EmitterType
  <2> QED BY <2>1, <2>2 DEF EmitterInv, EmitterType, FlagAgrees
<1>4. CASE Join
  <2>1. flag' = FALSE /\ server' = "down" /\ UNCHANGED <<inproc, emRunning>>
    BY <1>4 DEF Join
  <2> QED BY <2>1 DEF EmitterInv, EmitterType, FlagAgrees
<1>5. CASE Restart
  <2>1. flag' = FALSE /\ inproc' = <<>> /\ emitter' = "loop" /\ emRunning' = FALSE
    BY <1>5 DEF Restart, Start
  <2>2. <<>> \in Seq({"start", "stop", "halt"}) /\ Len(<<>>) = 0
    OBVIOUS
  <2>3. Queued' = FALSE
    BY <2>1, Zenon DEF Queued
  <2>4. EmitterType'
    BY <2>1, <2>2 DEF EmitterType
  <2>5. \A i \in 1 .. Len(inproc') : inproc'[i] # "halt"
    BY <2>1, <2>2
  <2> QED BY <2>1, <2>3, <2>4, <2>5, Zenon DEF EmitterInv, FlagAgrees
<1>6. CASE AnswerAgain \/ ReadNull \/ EmitterFault
  <2>1. server' = "down" /\ UNCHANGED <<flag, inproc, emRunning>>
    BY <1>6 DEF AnswerAgain, ReadNull, EmitterFault, Die
  <2> QED BY <2>1, EmitterKept
<1>7. CASE ServerAccess \/ AnswerRequest \/ HandleSetConfig \/ PollTimeout
           \/ \E c \in session.clients : Receive(c) \/ PollConfig(c)
  <2>1. UNCHANGED <<flag, inproc, emRunning, emitter>> /\ server \notin {"join", "down"}
    BY <1>7 DEF ServerAccess, AnswerRequest, HandleSetConfig, PollTimeout, Receive, PollConfig, emitVars
  <2> QED BY <2>1, EmitterKept
<1>8. CASE ToolAccess \/ Clock \/ \E run \in session.runs : Tool(run)
  <2>1. UNCHANGED <<flag, inproc, emRunning, emitter, server>>
    BY <1>8 DEF ToolAccess, Clock, Tool, emitVars
  <2> QED BY <2>1, EmitterKept
<1>9. CASE \E c \in session.clients : GiveUp(c) \/ \E q \in session.requests \cup {Data} : Send(c, q)
  <2>1. UNCHANGED <<flag, inproc, emRunning, emitter, server>>
    BY <1>9 DEF GiveUp, Send, emitVars
  <2> QED BY <2>1, EmitterKept
<1>10. CASE UNCHANGED vars
  <2>1. UNCHANGED <<flag, inproc, emRunning, emitter, server>>
    BY <1>10 DEF vars, emitVars
  <2> QED BY <2>1, EmitterKept
<1> QED BY <1>1, <1>2, <1>3, <1>4, <1>5, <1>6, <1>7, <1>8, <1>9, <1>10 DEF Next, Server

\* What "emit status" reports is what the emitter is about to do, however
\* many messages are queued for it (_kick_emitter, DataEmitter::operator()).
THEOREM StatusIsTrue == Spec => []FlagAgrees
<1>1. EmitterInv => FlagAgrees
  BY DEF EmitterInv
<1> QED BY EmitterInit, EmitterStep, <1>1, PTL DEF Spec

-----------------------------------------------------------------------------
(* The calibration settings.                                               *)

\* Steps of which none writes a setting.
Safe(s) == IsSeq(s) /\ \A i \in DOMAIN s : Harmless(s[i])

SettingsType ==
  /\ regs = [r \in DOMAIN regs |-> regs[r]]
  /\ CalRegisters \subseteq DOMAIN regs

\* A register is as the server believes, or about to be written so; the
\* server writes nothing else, and a tool, unless a run of calctrl is among
\* the operations going on, no setting at all.
SettingsInv ==
  /\ SettingsType
  /\ inStep \/ (\A op \in ops : ~Meddles(op)) => Safe(todo["tool"])
  /\ \A i \in DOMAIN todo["server"] : Faithful(todo["server"][i], calctrl)
  /\ inStep /\ server # "down" =>
       \A r \in CalRegisters :
         \/ regs[r] = Held(calctrl, r)
         \/ \E i \in DOMAIN todo["server"] : todo["server"][i] = Put(r, Held(calctrl, r))

\* The options of a run that are used: the first ones, as long as they can be.
LEMMA UsableOptions ==
  ASSUME NEW run, IsRun(run)
  PROVE  \E n \in 0 .. Len(run.opts) :
           /\ DOMAIN UsablePrefix(run) = 1 .. n
           /\ \A i \in 1 .. n : /\ UsablePrefix(run)[i] = run.opts[i]
                                /\ OptionUsable(run.tool, run.opts[i])
           /\ n = Len(run.opts) \/ ~OptionUsable(run.tool, run.opts[n + 1])
<1> DEFINE opts == run.opts
           bad == {i \in 1 .. Len(opts) : ~OptionUsable(run.tool, opts[i])}
<1>1. Len(opts) \in Nat /\ DOMAIN opts = 1 .. Len(opts)
  BY DEF IsRun
<1>2. CASE bad = {}
  <2>1. SelectInSeq(opts, LAMBDA o : ~OptionUsable(run.tool, o)) = 0
    BY <1>2 DEF SelectInSeq
  <2>2. UsablePrefix(run) = opts
    BY <2>1 DEF UsablePrefix
  <2>3. \A i \in 1 .. Len(opts) : OptionUsable(run.tool, opts[i])
    BY <1>2
  <2>4. Len(opts) \in 0 .. Len(opts)
    BY <1>1
  <2> HIDE DEF bad
  <2> QED BY <1>1, <2>2, <2>3, <2>4
<1>3. CASE bad # {}
  <2> DEFINE m == Min(bad)
  <2>1. m \in bad /\ \A i \in bad : m <= i
    <3>1. bad \in SUBSET Nat
      OBVIOUS
    <3> HIDE DEF bad
    <3>2. \E x \in bad : \A y \in bad : x <= y
      BY <1>3, <3>1, LeastNumber
    <3> QED BY <3>2 DEF Min
  <2>2. SelectInSeq(opts, LAMBDA o : ~OptionUsable(run.tool, o)) = m
    BY <1>3 DEF SelectInSeq
  <2>3. m \in 1 .. Len(opts) /\ ~OptionUsable(run.tool, opts[m])
    BY <2>1
  <2>4. UsablePrefix(run) = SubSeq(opts, 1, m - 1)
    <3>1. m # 0
      BY <2>3
    <3> QED BY <2>2, <3>1 DEF UsablePrefix
  <2>5. \A i \in 1 .. m - 1 : i \notin bad /\ i \in 1 .. Len(opts)
    BY <2>1, <2>3, <1>1
  <2>6. \A i \in 1 .. m - 1 : OptionUsable(run.tool, opts[i])
    BY <2>5
  <2> HIDE DEF m, opts, bad
  <2>7. /\ DOMAIN SubSeq(opts, 1, m - 1) = 1 .. m - 1
        /\ \A i \in 1 .. m - 1 : SubSeq(opts, 1, m - 1)[i] = opts[i]
    BY <2>3, <1>1
  <2>8. m - 1 \in 0 .. Len(opts) /\ (m - 1) + 1 = m
    BY <2>3, <1>1
  <2>9. ~OptionUsable(run.tool, opts[(m - 1) + 1])
    BY <2>3, <2>8
  <2> QED BY <2>4, <2>6, <2>7, <2>8, <2>9 DEF opts
<1> QED BY <1>2, <1>3

\* The calls of the options of vatactrl, syncctrl and dacctrl.
LEMMA PlainOptions ==
  ASSUME NEW tool \in {"vatactrl", "syncctrl", "dacctrl"}, NEW o, OptionUsable(tool, o)
  PROVE  Plain(OptionCall(tool, o))
<1>1. CASE tool = "vatactrl"
  <2>1. VataUsable(o) /\ OptionCall(tool, o) = VataCall(o)
    BY <1>1 DEF OptionUsable, OptionCall
  <2>2. o.name \in {"set-hold", "get-hold", "get-counters", "reset-counters", "trigger-enable-bit",
                    "trigger-disable-bit", "trigger-enable-asic", "trigger-disable-asic",
                    "trigger-enable-tm-hit", "trigger-disable-tm-hit", "trigger-enable-tm-ack",
                    "trigger-disable-tm-ack", "trigger-enable-forced", "trigger-disable-forced",
                    "get-trigger-ena-mask", "set-ack-timeout", "get-ack-timeout",
                    "get-event-count", "reset-event-count", "force-fsm-idle"}
    BY <2>1 DEF VataUsable, VataOptions
  <2>3. Plain(reset_counters)
    BY PlainEmpty DEF reset_counters
  <2>4. Plain(VataCall(o))
    BY <2>2, <2>3, PlainCalls, PlainLoops DEF VataCall
  <2> QED BY <2>1, <2>4
<1>2. CASE tool = "syncctrl"
  <2>1. SyncUsable(o) /\ OptionCall(tool, o) = SyncCall(o)
    BY <1>2 DEF OptionUsable, OptionCall
  <2>2. Plain(SyncCall(o))
    BY <2>1, PlainCalls DEF SyncUsable, SyncCall
  <2> QED BY <2>1, <2>2
<1>3. CASE tool = "dacctrl"
  <2>1. DacUsable(o) /\ OptionCall(tool, o) = DacCall(o)
    BY <1>3 DEF OptionUsable, OptionCall
  <2>2. Plain(DacCall(o))
    BY <2>1, PlainCalls DEF DacUsable, DacCall
  <2> QED BY <2>1, <2>2
<1> QED BY <1>1, <1>2, <1>3

\* A run of any tool but calctrl makes plain calls.
LEMMA OtherToolsPlain ==
  ASSUME NEW run, IsRun(run), run.tool # "calctrl"
  PROVE  Plain(ToolSteps(run))
<1> DEFINE done == UsablePrefix(run)
           calls == [i \in DOMAIN done |-> OptionCall(run.tool, done[i])]
<1>1. run.tool \in {"vatactrl", "syncctrl", "dacctrl"}
  BY DEF IsRun
<1>2. PICK n \in Nat : DOMAIN done = 1 .. n /\ \A i \in 1 .. n : OptionUsable(run.tool, done[i])
  <2>1. \A n \in 0 .. Len(run.opts) : n \in Nat
    BY DEF IsRun
  <2> QED BY <2>1, UsableOptions
<1> HIDE DEF done
<1>3. \A i \in DOMAIN calls : Plain(calls[i])
  BY <1>1, <1>2, PlainOptions
<1>4. IsSeq(calls)
  <2>1. Len(calls) = n
    BY <1>2
  <2> QED BY <2>1, <1>2 DEF IsSeq
<1> HIDE DEF calls
<1>5. Plain(FlattenSeq(calls))
  BY <1>3, <1>4, PlainFlattened
<1>6. ToolSteps(run) = FlattenSeq(calls)
  BY <1>1 DEF ToolSteps, OneByOne, calls, done
<1> QED BY <1>5, <1>6

\* It writes no setting.
LEMMA OtherToolsSafe ==
  ASSUME NEW run, IsRun(run), run.tool # "calctrl"
  PROVE  Safe(ToolSteps(run))
BY OtherToolsPlain DEF Plain, Accesses, Safe

\* One access: it leaves the settings alone if it is harmless, and if it is
\* faithful a setting is afterwards as it was or as it should be.
LEMMA SettingsAccess ==
  ASSUME SettingsType, NEW p \in Processes, Access(p), NEW f
  PROVE  LET s == Head(todo[p])
         IN /\ SettingsType'
            /\ Harmless(s) => \A r \in CalRegisters : regs'[r] = regs[r]
            /\ Faithful(s, f) =>
                 \A r \in CalRegisters :
                   /\ regs'[r] = regs[r] \/ regs'[r] = Held(f, r)
                   /\ s = Put(r, Held(f, r)) => regs'[r] = Held(f, r)
<1> DEFINE s == Head(todo[p])
<1>1. \/ s.do = "put" /\ regs' = Written(regs, s.reg, s.val)
      \/ s.do = "store" /\ \E x : regs' = [regs EXCEPT ![s.reg] = x]
      \/ s.do \in {"load", "fetch"} /\ regs' = regs
  BY DEF Access
<1> HIDE DEF s
<1>2. CASE s.do = "put" /\ regs' = Written(regs, s.reg, s.val)
  <2>1. \/ s.reg \notin CalRegisters /\ regs' = [regs EXCEPT !["dac-write"] = 1,
                                       !["dacs"][regs["dac-select"]] = regs["dac-input"]]
        \/ s.reg \notin CalRegisters /\ regs' = [regs EXCEPT !["event-count"] = 0]
        \/ s.reg \notin CalRegisters /\ regs' = [regs EXCEPT !["running"] = 0, !["live"] = 0]
        \/ s.reg \notin CalRegisters /\ regs' = regs
        \/ regs' = [regs EXCEPT ![s.reg] = s.val]
    BY <1>2 DEF Written, CalRegisters
  <2>2. SettingsType'
    BY <2>1 DEF SettingsType
  <2>3. \A r \in CalRegisters : regs'[r] = IF r = s.reg THEN s.val ELSE regs[r]
    BY <2>1 DEF SettingsType, CalRegisters
  <2>4. Harmless(s) => \A r \in CalRegisters : regs'[r] = regs[r]
    BY <1>2, <2>3 DEF Harmless
  <2>5. ASSUME Faithful(s, f), NEW r \in CalRegisters
        PROVE  /\ regs'[r] = regs[r] \/ regs'[r] = Held(f, r)
               /\ s = Put(r, Held(f, r)) => regs'[r] = Held(f, r)
    <3>1. s.reg \in CalRegisters => s.val = Held(f, s.reg)
      BY <1>2, <2>5 DEF Faithful, Put
    <3>2. s = Put(r, Held(f, r)) => s.reg = r
      BY DEF Put
    <3> QED BY <2>3, <2>5, <3>1, <3>2
  <2> QED BY <2>2, <2>4, <2>5 DEF s
<1>3. CASE s.do = "store" /\ \E x : regs' = [regs EXCEPT ![s.reg] = x]
  <2>1. PICK x : regs' = [regs EXCEPT ![s.reg] = x]
    BY <1>3
  <2>2. SettingsType'
    BY <2>1 DEF SettingsType
  <2>3. s.reg \notin CalRegisters => \A r \in CalRegisters : regs'[r] = regs[r]
    BY <2>1 DEF SettingsType
  <2>4. Harmless(s) => \A r \in CalRegisters : regs'[r] = regs[r]
    BY <1>3, <2>3 DEF Harmless
  <2>5. Faithful(s, f) => s.reg \notin CalRegisters
    BY <1>3 DEF Faithful, Put
  <2>6. \A r \in CalRegisters : s # Put(r, Held(f, r))
    BY <1>3 DEF Put
  <2> QED BY <2>2, <2>3, <2>4, <2>5, <2>6 DEF s
<1>4. CASE s.do \in {"load", "fetch"} /\ regs' = regs
  <2>1. \A r \in CalRegisters : s # Put(r, Held(f, r))
    BY <1>4 DEF Put
  <2> QED BY <1>4, <2>1 DEF SettingsType, s
<1> QED BY <1>1, <1>2, <1>3, <1>4

\* The operations going on after a step.
LEMMA NoneMeddles ==
  ASSUME NEW more, Histories(more), \A op \in ops' : ~Meddles(op)
  PROVE  todo'["tool"] = <<>> \/ \A op \in ops \cup more : ~Meddles(op)
BY DEF Histories, Quiet, Processes

LEMMA SafeNothing == Safe(<<>>)
<1>1. DOMAIN <<>> = {}
  OBVIOUS
<1> QED BY <1>1, Tuples DEF Safe

LEMMA SafeTail ==
  ASSUME NEW s, Safe(s), s # <<>>
  PROVE  Safe(Tail(s)) /\ Harmless(Head(s))
BY TailOf DEF Safe

LEMMA SettingsInit == Init => SettingsInv
<1> SUFFICES ASSUME Init PROVE SettingsInv
  OBVIOUS
<1>1. /\ regs = PowerUp /\ todo["server"] = <<>> /\ todo["tool"] = <<>> /\ inStep = FALSE
  BY DEF Init, RegInit, Processes
<1>2. SettingsType
  <2>1. CalRegisters \subseteq Registers
    BY DEF CalRegisters, Registers
  <2> QED BY <1>1, <2>1 DEF SettingsType, PowerUp
<1>3. DOMAIN <<>> = {}
  OBVIOUS
<1> QED BY <1>1, <1>2, <1>3, SafeNothing DEF SettingsInv

\* The server's accesses.
LEMMA SettingsServer ==
  ASSUME DialogueInv, SettingsInv, ServerAccess
  PROVE  SettingsInv'
<1> DEFINE s == todo["server"]
<1>1. /\ Access("server") /\ s # <<>> /\ UNCHANGED <<calctrl, inStep>> /\ "server" \in Processes
      /\ server = "handle" /\ server' \in {"recv", "handle"}
  BY DEF ServerAccess, Access, NextIs, Finished, calVars, Processes
<1>2. IsSeq(s)
  BY <1>1 DEF DialogueInv, RequestInv
<1>3. /\ todo'["server"] = Tail(s) /\ todo'["tool"] = todo["tool"] /\ Histories({})
  BY <1>1, TodoAfter DEF DialogueInv, DialogueType, Processes, Access
<1> HIDE DEF s
<1>4. /\ \A i \in DOMAIN Tail(s) : i + 1 \in DOMAIN s /\ Tail(s)[i] = s[i + 1]
      /\ \A i \in DOMAIN s : i # 1 => i - 1 \in DOMAIN Tail(s)
      /\ 1 \in DOMAIN s /\ Head(s) = s[1]
  BY <1>1, <1>2, TailOf
<1>5. Faithful(Head(s), calctrl)
  BY <1>4 DEF SettingsInv, s
<1>6. /\ SettingsType'
      /\ \A r \in CalRegisters :
           /\ regs'[r] = regs[r] \/ regs'[r] = Held(calctrl, r)
           /\ Head(s) = Put(r, Held(calctrl, r)) => regs'[r] = Held(calctrl, r)
  BY <1>1, <1>5, SettingsAccess DEF SettingsInv, s
<1>7. inStep' \/ (\A op \in ops' : ~Meddles(op)) => Safe(todo'["tool"])
  BY <1>1, <1>3, NoneMeddles, SafeNothing DEF SettingsInv
<1>8. \A i \in DOMAIN todo'["server"] : Faithful(todo'["server"][i], calctrl')
  BY <1>1, <1>3, <1>4 DEF SettingsInv, s
<1>9. ASSUME inStep', NEW r \in CalRegisters
      PROVE  \/ regs'[r] = Held(calctrl', r)
             \/ \E i \in DOMAIN todo'["server"] : todo'["server"][i] = Put(r, Held(calctrl', r))
  <2> DEFINE Stands == \/ regs'[r] = Held(calctrl', r)
                       \/ \E i \in DOMAIN todo'["server"] : todo'["server"][i] = Put(r, Held(calctrl', r))
  <2>1. CASE regs[r] = Held(calctrl, r)
    BY <1>1, <1>6, <2>1
  <2>2. ASSUME NEW i \in DOMAIN s, s[i] = Put(r, Held(calctrl, r)) PROVE Stands
    <3>1. CASE i = 1
      BY <1>1, <1>4, <1>6, <2>2, <3>1
    <3>2. CASE i # 1
      <4>1. i - 1 \in DOMAIN Tail(s) /\ i \in Nat
        BY <1>2, <1>4, <2>2, <3>2, Positions
      <4>2. Tail(s)[i - 1] = s[i]
        <5>1. (i - 1) + 1 = i
          BY <4>1
        <5> QED BY <4>1, <5>1, <1>4
      <4> QED BY <1>1, <1>3, <2>2, <4>1, <4>2
    <3> QED BY <3>1, <3>2
  <2>3. \/ regs[r] = Held(calctrl, r)
        \/ \E i \in DOMAIN s : s[i] = Put(r, Held(calctrl, r))
    BY <1>1, <1>9 DEF SettingsInv, s
  <2> HIDE DEF Stands
  <2>4. Stands
    <3>1. regs[r] = Held(calctrl, r) => Stands
      BY <2>1 DEF Stands
    <3> QED BY <2>2, <2>3, <3>1
  <2> QED BY <2>4 DEF Stands
<1> QED BY <1>6, <1>7, <1>8, <1>9 DEF SettingsInv

\* A request is received: its steps write the settings it leaves, all or none.
LEMMA SettingsReceive ==
  ASSUME DialogueInv, SettingsInv, NEW c \in session.clients, Receive(c)
  PROVE  SettingsInv'
<1> DEFINE q == pending[c]
           f == IF q.group = "cal" THEN SettingsAfter(q, calctrl) ELSE calctrl
           s == Steps(q, f)
           writes == WritesSettings(q) /\ Len(s) > 1
<1>1. /\ server = "recv" /\ q # None /\ calctrl' = f /\ server' = "handle"
      /\ IF q \in Own THEN UNCHANGED <<inStep, regs, todo, ops>>
         ELSE /\ Begin("server", [by |-> "server", ask |-> q, f |-> f], s)
              /\ inStep' = IF writes THEN todo["tool"] = <<>> \/ ~\E op \in ops : Meddles(op)
                           ELSE inStep
  BY DEF Receive, regVars
<1>2. q \in Own \/ IsRequest(q)
  <2>1. session \in Sessions /\ q \in Messages
    BY <1>1 DEF DialogueInv, DialogueType, Clients
  <2> QED BY <2>1, MessagesKnown
<1>3. /\ todo["server"] = <<>>
      /\ inStep => \A r \in CalRegisters : regs[r] = Held(calctrl, r)
  <2>1. DOMAIN <<>> = {}
    OBVIOUS
  <2>2. todo["server"] = <<>>
    BY <1>1 DEF DialogueInv, RequestInv
  <2> QED BY <1>1, <2>1, <2>2 DEF SettingsInv
<1>4. CASE q \in Own
  <2>1. q.group # "cal"
    BY <1>4 DEF Own, EmitStart, EmitStop, Halt, SetConfigBinary
  <2>2. calctrl' = calctrl
    BY <1>1, <2>1
  <2>3. UNCHANGED <<inStep, regs, todo, ops>>
    BY <1>1, <1>4
  <2> HIDE DEF q, f, s
  <2> QED BY <1>1, <2>2, <2>3 DEF SettingsInv, SettingsType
<1>5. CASE q \notin Own
  <2> HIDE DEF q, f, s, writes
  <2>1. /\ Begin("server", [by |-> "server", ask |-> q, f |-> f], s)
        /\ inStep' = IF writes THEN todo["tool"] = <<>> \/ ~\E op \in ops : Meddles(op) ELSE inStep
    BY <1>1, <1>5
  <2>2. /\ todo'["server"] = s /\ todo'["tool"] = todo["tool"] /\ regs' = regs
        /\ Histories({[by |-> "server", ask |-> q, f |-> f]})
    BY <2>1, TodoAfter DEF DialogueInv, DialogueType, Processes, Begin
  <2>3. IsRequest(q)
    BY <1>2, <1>5
  <2>4. /\ writes => Settles(s, f)
        /\ ~writes => \A i \in DOMAIN s : Harmless(s[i])
    BY <2>3, RequestSteps DEF s, writes
  <2>5. \A i \in DOMAIN s : Faithful(s[i], f)
    BY <2>4 DEF Settles, Harmless, Faithful
  <2>6. inStep' \/ (\A op \in ops' : ~Meddles(op)) => Safe(todo'["tool"])
    <3>1. (\A op \in ops' : ~Meddles(op)) =>
            todo'["tool"] = <<>> \/ \A op \in ops : ~Meddles(op)
      BY <2>2, NoneMeddles
    <3>2. inStep' => inStep \/ todo["tool"] = <<>> \/ \A op \in ops : ~Meddles(op)
      BY <2>1
    <3> QED BY <2>2, <3>1, <3>2, SafeNothing DEF SettingsInv
  <2>7. ASSUME inStep', NEW r \in CalRegisters
        PROVE  \/ regs'[r] = Held(calctrl', r)
               \/ \E i \in DOMAIN todo'["server"] : todo'["server"][i] = Put(r, Held(calctrl', r))
    <3>1. CASE writes
      BY <1>1, <2>2, <2>4, <3>1 DEF Settles
    <3>2. CASE ~writes
      <4>1. calctrl' = calctrl
        <5>1. CASE q.group = "cal"
          <6>1. SettingsAfter(q, calctrl) = calctrl
            BY <2>3, <3>2, <5>1, ChangeSettles DEF writes, s
          <6> QED BY <1>1, <5>1, <6>1 DEF f
        <5>2. CASE q.group # "cal"
          BY <1>1, <5>2 DEF f
        <5> QED BY <5>1, <5>2
      <4>2. inStep
        BY <2>1, <2>7, <3>2
      <4> QED BY <1>3, <2>2, <4>1, <4>2
    <3> QED BY <3>1, <3>2
  <2>8. SettingsType'
    BY <2>2 DEF SettingsInv, SettingsType
  <2> QED BY <1>1, <2>2, <2>5, <2>6, <2>7, <2>8 DEF SettingsInv
<1> QED BY <1>4, <1>5

\* A step of a tool, or its start.
LEMMA SettingsTool ==
  ASSUME DialogueInv, SettingsInv, ToolAccess \/ \E run \in session.runs : Tool(run)
  PROVE  SettingsInv'
<1>1. /\ UNCHANGED <<calctrl, server>> /\ "tool" \in Processes
      /\ todo = [p \in Processes |-> todo[p]]
  BY DEF ToolAccess, Tool, calVars, Processes, DialogueInv, DialogueType
<1>2. CASE ToolAccess
  <2> DEFINE s == todo["tool"]
  <2>1. Access("tool") /\ s # <<>> /\ inStep' = inStep
    BY <1>2 DEF ToolAccess, Access, NextIs, calVars
  <2>2. todo'["tool"] = Tail(s) /\ todo'["server"] = todo["server"] /\ Histories({})
    BY <1>1, <2>1, TodoAfter DEF Processes, Access
  <2>3. /\ SettingsType'
        /\ Harmless(Head(s)) => \A r \in CalRegisters : regs'[r] = regs[r]
    BY <1>1, <2>1, SettingsAccess DEF SettingsInv
  <2> HIDE DEF s
  <2>4. inStep' \/ (\A op \in ops' : ~Meddles(op)) => Safe(todo'["tool"])
    <3>1. (\A op \in ops' : ~Meddles(op)) =>
            todo'["tool"] = <<>> \/ \A op \in ops : ~Meddles(op)
      BY <2>2, NoneMeddles
    <3>2. inStep \/ (\A op \in ops : ~Meddles(op)) => Safe(s)
      BY DEF SettingsInv, s
    <3>3. Safe(s) => Safe(Tail(s))
      BY <2>1, SafeTail
    <3> QED BY <2>1, <2>2, <3>1, <3>2, <3>3, SafeNothing
  <2>5. inStep => \A r \in CalRegisters : regs'[r] = regs[r]
    <3>1. inStep => Safe(s)
      BY DEF SettingsInv, s
    <3> QED BY <2>1, <2>3, <3>1, SafeTail
  <2> QED BY <1>1, <2>1, <2>2, <2>3, <2>4, <2>5 DEF SettingsInv
<1>3. ASSUME NEW run \in session.runs, Tool(run) PROVE SettingsInv'
  <2> DEFINE op == [by |-> "tool", run |-> run]
  <2>1. /\ Begin("tool", op, ToolSteps(run)) /\ inStep' = (inStep /\ run.tool # "calctrl")
        /\ Histories({op}) /\ regs' = regs
    BY <1>3 DEF Tool, RunTool, Begin
  <2>2. todo'["tool"] = ToolSteps(run) /\ todo'["server"] = todo["server"]
    BY <1>1, <2>1, TodoAfter DEF Processes
  <2>3. IsRun(run)
    BY ServerAssumption DEF ServerAssumption, DialogueInv, DialogueType
  <2>4. run.tool # "calctrl" => Safe(todo'["tool"])
    BY <2>2, <2>3, OtherToolsSafe
  <2>5. ~Meddles(op) => run.tool # "calctrl"
    BY DEF Meddles
  <2> HIDE DEF op
  <2>6. inStep' \/ (\A o \in ops' : ~Meddles(o)) => Safe(todo'["tool"])
    <3>1. (\A o \in ops' : ~Meddles(o)) => todo'["tool"] = <<>> \/ ~Meddles(op)
      BY <2>1, NoneMeddles
    <3> QED BY <2>1, <2>4, <2>5, <3>1, SafeNothing
  <2>7. SettingsType' /\ (inStep' => inStep)
    BY <2>1 DEF SettingsInv, SettingsType
  <2> QED BY <1>1, <2>1, <2>2, <2>6, <2>7 DEF SettingsInv
<1> QED BY <1>2, <1>3

\* Steps at which the server's operation goes on or is cut off, with the
\* settings and those of the registers as they were.
LEMMA SettingsKept ==
  ASSUME SettingsInv, UNCHANGED <<inStep, calctrl>>, SettingsType',
         \A r \in CalRegisters : regs'[r] = regs[r], todo'["tool"] = todo["tool"],
         ops' = ops \/ \E more : Histories(more),
         \/ todo'["server"] = todo["server"] /\ (server = "down" => server' = "down")
         \/ server' = "down" /\ todo'["server"] = <<>>
  PROVE  SettingsInv'
<1>1. inStep' \/ (\A op \in ops' : ~Meddles(op)) => Safe(todo'["tool"])
  BY NoneMeddles, SafeNothing DEF SettingsInv
<1>2. DOMAIN <<>> = {}
  OBVIOUS
<1>3. \A i \in DOMAIN todo'["server"] : Faithful(todo'["server"][i], calctrl')
  BY <1>2 DEF SettingsInv
<1> QED BY <1>1, <1>3 DEF SettingsInv

LEMMA SettingsStep == DialogueInv /\ SettingsInv /\ [Next]_vars => SettingsInv'
<1> SUFFICES ASSUME DialogueInv, SettingsInv, [Next]_vars PROVE SettingsInv'
  OBVIOUS
<1> DEFINE Same == /\ UNCHANGED <<inStep, calctrl, regs, todo, ops>>
                   /\ server = "down" => server' = "down"
<1>1. ASSUME Same PROVE SettingsInv'
  BY <1>1, SettingsKept DEF SettingsInv, SettingsType
<1>2. ASSUME Cut("server"), server' = "down", UNCHANGED calVars PROVE SettingsInv'
  <2>1. /\ todo'["server"] = <<>> /\ todo'["tool"] = todo["tool"] /\ regs' = regs
        /\ \E more : Histories(more)
    BY <1>2, TodoAfter DEF DialogueInv, DialogueType, Processes, Cut
  <2> QED BY <1>2, <2>1, SettingsKept DEF SettingsInv, SettingsType, calVars
<1>3. CASE AnswerRequest
  <2>1. /\ Take("server") /\ UNCHANGED calVars /\ todo["server"] # <<>>
        /\ Head(todo["server"]).do = "say" /\ server = "handle" /\ server' \in {"recv", "handle"}
    BY <1>3 DEF AnswerRequest, NextIs, Finished
  <2>2. /\ todo'["server"] = Tail(todo["server"]) /\ todo'["tool"] = todo["tool"]
        /\ regs' = regs /\ Histories({})
    BY <2>1, TodoAfter DEF DialogueInv, DialogueType, Processes, Take
  <2> DEFINE s == todo["server"]
  <2>3. IsSeq(s)
    BY <2>1 DEF DialogueInv, RequestInv
  <2>4. /\ \A i \in DOMAIN Tail(s) : i + 1 \in DOMAIN s /\ Tail(s)[i] = s[i + 1]
        /\ \A i \in DOMAIN s : i # 1 => i - 1 \in DOMAIN Tail(s)
        /\ s[1].do = "say"
    BY <2>1, <2>3, TailOf
  <2>5. \A i \in DOMAIN todo'["server"] : Faithful(todo'["server"][i], calctrl')
    BY <2>1, <2>2, <2>4 DEF SettingsInv, calVars
  <2>6. inStep' \/ (\A op \in ops' : ~Meddles(op)) => Safe(todo'["tool"])
    BY <2>1, <2>2, NoneMeddles, SafeNothing DEF SettingsInv, calVars
  <2>7. ASSUME NEW x, x.do = "put", NEW i \in DOMAIN s, s[i] = x
        PROVE  \E j \in DOMAIN Tail(s) : Tail(s)[j] = x
    <3>1. i # 1 /\ i \in Nat
      BY <2>3, <2>4, <2>7, Positions
    <3>2. i - 1 \in DOMAIN Tail(s) /\ (i - 1) + 1 = i
      BY <2>4, <3>1
    <3> QED BY <2>4, <2>7, <3>2
  <2> HIDE DEF s
  <2>8. \A r, v : Put(r, v).do = "put"
    BY DEF Put
  <2>9. \A r \in CalRegisters :
          (\E i \in DOMAIN s : s[i] = Put(r, Held(calctrl, r)))
            => \E i \in DOMAIN Tail(s) : Tail(s)[i] = Put(r, Held(calctrl, r))
    BY <2>7, <2>8
  <2>10. UNCHANGED <<inStep, calctrl>> /\ server # "down"
    BY <2>1 DEF calVars
  <2>11. inStep => \A r \in CalRegisters :
           \/ regs[r] = Held(calctrl, r)
           \/ \E i \in DOMAIN Tail(s) : Tail(s)[i] = Put(r, Held(calctrl, r))
    BY <2>9, <2>10 DEF SettingsInv, s
  <2>12. SettingsType'
    BY <2>2 DEF SettingsInv, SettingsType
  <2> QED BY <2>2, <2>5, <2>6, <2>10, <2>11, <2>12 DEF SettingsInv, s
<1>4. CASE AnswerAgain \/ ReadNull \/ EmitterFault
  <2>1. Cut("server") /\ server' = "down" /\ UNCHANGED calVars
    BY <1>4 DEF AnswerAgain, ReadNull, EmitterFault, Die
  <2> QED BY <1>2, <2>1
<1>5. CASE \/ HandleEmit \/ HandleSetConfig \/ PollTimeout \/ HandleHalt \/ Join
           \/ \E c \in session.clients : PollConfig(c)
  <2>1. Same
    BY <1>5 DEF HandleEmit, HandleSetConfig, PollTimeout, HandleHalt, Join, PollConfig, Finished,
                calVars, regVars
  <2> QED BY <1>1, <2>1
<1>6. CASE Restart
  <2>1. /\ inStep' = FALSE /\ UNCHANGED <<regs, todo, ops>> /\ todo["server"] = <<>>
    BY <1>6 DEF Restart, Start, regVars, DialogueInv, RequestInv
  <2>2. DOMAIN <<>> = {}
    OBVIOUS
  <2> QED BY <2>1, <2>2 DEF SettingsInv, SettingsType
<1>7. CASE EmitterLoop
  <2>1. Same
    BY <1>7 DEF EmitterLoop, calVars, regVars
  <2> QED BY <1>1, <2>1
<1>8. CASE Clock
  <2>1. UNCHANGED calVars /\ todo' = todo /\ server' = server /\ Histories({})
    BY <1>8 DEF Clock, Tick
  <2>2. SettingsType' /\ \A r \in CalRegisters : regs'[r] = regs[r]
    BY <1>8 DEF Clock, Tick, SettingsInv, SettingsType, CalRegisters
  <2> QED BY <2>1, <2>2, SettingsKept DEF calVars
<1>9. CASE \E c \in session.clients : GiveUp(c) \/ \E q \in session.requests \cup {Data} : Send(c, q)
  <2>1. Same
    BY <1>9 DEF GiveUp, Send, calVars, regVars
  <2> QED BY <1>1, <2>1
<1>10. CASE UNCHANGED vars
  <2>1. Same
    BY <1>10 DEF vars, calVars, regVars
  <2> QED BY <1>1, <2>1
<1> QED BY <1>3, <1>4, <1>5, <1>6, <1>7, <1>8, <1>9, <1>10, SettingsServer, SettingsReceive,
           SettingsTool DEF Next, Server

\* As long as the server wrote the calibration registers last, they hold,
\* between requests, the settings it believes in, whatever it refused since
\* and whatever tools but calctrl do meanwhile (CalCtrl::write_settings).
THEOREM SettingsHold == Spec => []SettingsInStep
<1>1. DialogueInv /\ SettingsInv => SettingsInStep
  <2> SUFFICES ASSUME DialogueInv, SettingsInv, inStep, server = "recv"
               PROVE  regs = Holds(calctrl, regs)
    BY DEF SettingsInStep
  <2>1. todo["server"] = <<>>
    BY DEF DialogueInv, RequestInv
  <2>2. DOMAIN <<>> = {}
    OBVIOUS
  <2>3. \A r \in CalRegisters : regs[r] = Held(calctrl, r)
    BY <2>1, <2>2 DEF SettingsInv
  <2>4. /\ regs["cal-enable"] = [s \in Flags |-> calctrl[s]]
        /\ regs["pulse-width"] = calctrl["pulse-width"]
        /\ regs["trigger-delay"] = calctrl["trigger-delay"]
        /\ regs["repeat-delay"] = calctrl["repeat-delay"]
    BY <2>3 DEF CalRegisters, Held
  <2> QED BY <2>4 DEF Holds, SettingsInv, SettingsType
<1> QED BY DialogueInit, DialogueStep, SettingsInit, SettingsStep, <1>1, PTL DEF Spec

-----------------------------------------------------------------------------
(* The counters.                                                           *)

\* The steps of a run of calctrl fetch no half, and write no counter.
LEMMA CalRunPaired ==
  ASSUME NEW opts
  PROVE  Accesses(CalRun(opts))
<1> DEFINE f == CalSettings(opts)
           fires == {i \in DOMAIN opts : opts[i].name \in Fire}
           o == opts[CHOOSE i \in fires : TRUE]
           set == IF fires = DOMAIN opts THEN <<>> ELSE write_settings(f)
           fire == IF fires = {} THEN <<>> ELSE CalFire(o, f)
<1>1. CalRun(opts) = IF CalAccepted(opts) THEN set \o fire ELSE <<>>
  BY DEF CalRun
<1>2. Accesses(<<>>)
  BY PlainEmpty DEF Plain
<1>3. Accesses(set)
  BY <1>2, SettingsWritten
<1>4. Accesses(fire)
  <2>1. fires # {} => o.name \in Fire
    OBVIOUS
  <2> HIDE DEF fires, o, f
  <2>2. Accesses(start_inf_pulses(f)) /\ Accesses(stop_inf_pulses)
    BY PulseCalls, PlainCalls DEF Plain
  <2>3. \A n : Accesses(n_pulses(f, n))
    BY PulseCalls
  <2> QED BY <1>2, <2>1, <2>2, <2>3 DEF CalFire, Fire
<1> HIDE DEF set, fire
<1>5. Accesses(set \o fire)
  BY <1>3, <1>4, AccessesJoined
<1> QED BY <1>1, <1>2, <1>5

\* The steps of a run of any tool.
LEMMA ToolPaired ==
  ASSUME NEW run, IsRun(run)
  PROVE  IsSeq(ToolSteps(run)) /\ Paired(ToolSteps(run))
BY CalRunPaired, OtherToolsPlain DEF ToolSteps, Plain, Accesses

\* The quotient is not smaller for a larger number.
LEMMA Quotients ==
  ASSUME NEW h \in Nat \ {0}, NEW a \in Nat, NEW b \in Nat, a <= b
  PROVE  /\ a = h * (a \div h) + (a % h) /\ a % h \in 0 .. h - 1 /\ a \div h \in Nat
         /\ b = h * (b \div h) + (b % h) /\ b % h \in 0 .. h - 1 /\ b \div h \in Nat
         /\ a \div h <= b \div h
<1>1. \A n \in Nat : n = h * (n \div h) + (n % h) /\ n % h \in 0 .. h - 1 /\ n \div h \in Nat
  OBVIOUS
<1> DEFINE m == a \div h
           n == b \div h
           x == a % h
           y == b % h
<1>2. /\ a = h * m + x /\ x \in 0 .. h - 1 /\ m \in Nat
      /\ b = h * n + y /\ y \in 0 .. h - 1 /\ n \in Nat
  BY <1>1
<1> HIDE DEF m, n, x, y
<1>3. ASSUME n < m PROVE FALSE
  <2>1. \A k, l \in Nat : k < l => h * k + h <= h * l
    OBVIOUS
  <2>2. h * n + h <= h * m /\ h * n \in Nat /\ h * m \in Nat
    BY <1>2, <1>3, <2>1
  <2> QED BY <1>2, <2>2
<1>4. m <= n
  BY <1>2, <1>3
<1> QED BY <1>2, <1>4 DEF m, n, x, y

\* What two halves show, the low one of a number and the high one of another
\* that is no smaller.
LEMMA Shown ==
  ASSUME NEW a \in Nat, NEW b \in Nat, a <= b
  PROVE  LET shown == (a % Half) + Half * (b \div Half)
         IN /\ a <= shown /\ shown < b + Half
            /\ a \div Half = b \div Half => shown = a
<1>1. Half \in Nat \ {0}
  BY LibraryAssumption DEF LibraryAssumption
<1> DEFINE m == a \div Half
           n == b \div Half
           x == a % Half
           y == b % Half
<1>2. /\ a = Half * m + x /\ x \in 0 .. Half - 1 /\ m \in Nat
      /\ b = Half * n + y /\ y \in 0 .. Half - 1 /\ n \in Nat
      /\ m <= n
  BY <1>1, Quotients
<1> HIDE DEF m, n, x, y
<1>3. Half * m <= Half * n /\ Half * m \in Nat /\ Half * n \in Nat
  BY <1>1, <1>2
<1>4. a <= x + Half * n /\ x + Half * n < b + Half /\ (m = n => x + Half * n = a)
  BY <1>1, <1>2, <1>3
<1> QED BY <1>4 DEF m, n, x

CountersType ==
  /\ regs = [r \in DOMAIN regs |-> regs[r]] /\ WideCounters \subseteq DOMAIN regs
  /\ \A c \in WideCounters : regs[c] \in Nat
  /\ got = [p \in Processes |-> got[p]]

\* A high half that a process will fetch comes right after its low half,
\* which is the next but one of its steps or was the last it fetched.
Fetching(s, last) ==
  /\ IsSeq(s)
  /\ \A i \in DOMAIN s :
       /\ Counted(s[i])
       /\ IsHalf(s[i], "high") =>
            \/ i - 1 \in DOMAIN s /\ s[i - 1] = FetchPart(s[i].reg, "low")
            \/ i = 1 /\ last.part = "low" /\ last.of = s[i].reg

\* A low half was that of the counter then.
LowOfThen(h) ==
  h.part = "low" =>
    h.of \in WideCounters /\ h[h.of] \in Nat /\ h.val = h[h.of] % Half

CountersInv ==
  /\ CountersType
  /\ \A p \in Processes : Fetching(todo[p], got[p].last) /\ LowOfThen(got[p].last)
  /\ CountersClose

\* What nothing was taken of satisfies it, and so does what is started anew.
LEMMA FetchingStarts ==
  ASSUME NEW s, NEW last
  PROVE  /\ IsSeq(s) /\ Paired(s) => Fetching(s, last)
         /\ Fetching(<<>>, last)
<1>1. DOMAIN <<>> = {}
  OBVIOUS
<1> QED BY <1>1, Tuples DEF Fetching, Paired

\* A step is taken; if it fetched a low half that was the last.
LEMMA FetchingGoesOn ==
  ASSUME NEW s, NEW last, Fetching(s, last), s # <<>>, NEW now,
         IsHalf(Head(s), "low") => now.part = "low" /\ now.of = Head(s).reg
  PROVE  Fetching(Tail(s), now)
<1>1. /\ IsSeq(Tail(s))
      /\ \A i \in DOMAIN Tail(s) : i + 1 \in DOMAIN s /\ Tail(s)[i] = s[i + 1]
      /\ \A i \in DOMAIN s : i # 1 => i - 1 \in DOMAIN Tail(s)
      /\ 1 \in DOMAIN s /\ Head(s) = s[1]
  BY TailOf DEF Fetching
<1>2. DOMAIN s = 1 .. Len(s) /\ DOMAIN Tail(s) = 1 .. Len(Tail(s))
  BY <1>1, Positions DEF Fetching
<1> SUFFICES ASSUME NEW i \in DOMAIN Tail(s)
             PROVE  /\ Counted(Tail(s)[i])
                    /\ IsHalf(Tail(s)[i], "high") =>
                         \/ i - 1 \in DOMAIN Tail(s) /\ Tail(s)[i - 1] = FetchPart(Tail(s)[i].reg, "low")
                         \/ i = 1 /\ now.part = "low" /\ now.of = Tail(s)[i].reg
  BY <1>1 DEF Fetching
<1>3. i \in Nat \ {0} /\ i + 1 \in DOMAIN s /\ Tail(s)[i] = s[i + 1] /\ i + 1 # 1 /\ (i + 1) - 1 = i
  BY <1>1, <1>2
<1>4. Counted(Tail(s)[i])
  BY <1>3 DEF Fetching
<1>5. ASSUME IsHalf(Tail(s)[i], "high")
      PROVE  \/ i - 1 \in DOMAIN Tail(s) /\ Tail(s)[i - 1] = FetchPart(Tail(s)[i].reg, "low")
             \/ i = 1 /\ now.part = "low" /\ now.of = Tail(s)[i].reg
  <2> DEFINE r == Tail(s)[i].reg
  <2>1. i \in DOMAIN s /\ s[i] = FetchPart(r, "low")
    BY <1>3, <1>5 DEF Fetching
  <2> HIDE DEF r
  <2>2. CASE i = 1
    <3>1. Head(s) = FetchPart(r, "low")
      BY <1>1, <2>1, <2>2
    <3>2. IsHalf(Head(s), "low") /\ Head(s).reg = r
      BY <3>1 DEF IsHalf, FetchPart
    <3> QED BY <2>2, <3>2 DEF r
  <2>3. CASE i # 1
    <3>1. i - 1 \in DOMAIN Tail(s) /\ (i - 1) + 1 = i
      BY <1>1, <1>3, <2>1, <2>3
    <3>2. Tail(s)[i - 1] = s[i]
      BY <1>1, <3>1
    <3> QED BY <2>1, <3>1, <3>2 DEF r
  <2> QED BY <2>2, <2>3
<1> QED BY <1>4, <1>5

\* An access leaves the counters alone, or resets them both.
LEMMA CountersWritten ==
  ASSUME CountersType, NEW p \in Processes, Access(p), Counted(Head(todo[p]))
  PROVE  CountersType'
<1> DEFINE s == Head(todo[p])
<1>1. \/ s.do = "put" /\ regs' = Written(regs, s.reg, s.val)
      \/ s.do = "store" /\ \E x : regs' = [regs EXCEPT ![s.reg] = x]
      \/ s.do \in {"load", "fetch"} /\ regs' = regs
  BY DEF Access
<1>2. got' = [q \in Processes |-> got'[q]]
  <2>1. got' = got \/ \E x : got' = [got EXCEPT ![p] = x]
    BY DEF Access
  <2> QED BY <2>1 DEF CountersType
<1>3. s.do \in {"put", "store"} => s.reg \notin WideCounters
  BY DEF Counted
<1> HIDE DEF s
<1>4. \/ regs' = [regs EXCEPT !["dac-write"] = 1, !["dacs"][regs["dac-select"]] = regs["dac-input"]]
      \/ regs' = [regs EXCEPT !["event-count"] = 0]
      \/ regs' = [regs EXCEPT !["running"] = 0, !["live"] = 0]
      \/ regs' = regs
      \/ \E x : s.reg \notin WideCounters /\ regs' = [regs EXCEPT ![s.reg] = x]
  BY <1>1, <1>3 DEF Written
<1>5. /\ regs' = [r \in DOMAIN regs' |-> regs'[r]] /\ WideCounters \subseteq DOMAIN regs'
      /\ \A c \in WideCounters : regs'[c] \in Nat
  BY <1>4 DEF CountersType, WideCounters
<1> QED BY <1>2, <1>5 DEF CountersType

\* One access of either process.
LEMMA CountersAccess ==
  ASSUME DialogueType, CountersInv, NEW p \in Processes, Access(p)
  PROVE  CountersInv'
<1> DEFINE s == Head(todo[p])
           half == FetchedHalf(s.reg, s.part, regs[s.reg], regs)
<1>1. /\ todo[p] # <<>> /\ s.do \in {"put", "load", "store", "fetch"}
      /\ \A q \in Processes : todo'[q] = IF q = p THEN Tail(todo[p]) ELSE todo[q]
  <2>1. todo[p] # <<>> /\ s.do \in {"put", "load", "store", "fetch"}
    BY DEF Access, NextIs
  <2>2. todo'[p] = Tail(todo[p]) /\ \A q \in Processes : q # p => todo'[q] = todo[q]
    BY TodoAfter DEF DialogueType
  <2> QED BY <2>1, <2>2
<1>2. Fetching(todo[p], got[p].last) /\ 1 \in DOMAIN todo[p] /\ s = todo[p][1]
  BY <1>1, TailOf DEF CountersInv, Fetching
<1>3. /\ Counted(s)
      /\ IsHalf(s, "high") => got[p].last.part = "low" /\ got[p].last.of = s.reg
  <2>1. 1 - 1 \notin DOMAIN todo[p]
    BY <1>2, Positions DEF Fetching
  <2> HIDE DEF s
  <2> QED BY <1>2, <2>1 DEF Fetching
<1>4. CountersType'
  BY <1>3, CountersWritten DEF CountersInv
<1>5. CASE ~(s.do = "fetch" /\ s.part # "all")
  <2>1. got' = got
    BY <1>5 DEF Access
  <2>2. ~IsHalf(s, "low")
    BY <1>5 DEF IsHalf
  <2>3. Fetching(Tail(todo[p]), got[p].last)
    BY <1>1, <1>2, <2>2, FetchingGoesOn
  <2>4. CountersClose'
    BY <2>1 DEF CountersInv, CountersClose, Close
  <2> HIDE DEF s
  <2> QED BY <1>1, <1>4, <2>1, <2>3, <2>4 DEF CountersInv
<1>6. CASE s.do = "fetch" /\ s.part # "all"
  <2> DEFINE x == CASE s.part = "low" -> regs[s.reg] % Half
                    [] s.part = "high" -> regs[s.reg] \div Half
                    [] OTHER -> regs[s.reg]
             new == FetchedHalf(s.reg, s.part, x, regs)
  <2>1. got' = [got EXCEPT ![p] = [before |-> got[p].last, last |-> new]]
    BY <1>6 DEF Access, CountersInv, CountersType
  <2>2. \A q \in Processes :
          got'[q] = IF q = p THEN [before |-> got[p].last, last |-> new] ELSE got[q]
    <3> HIDE DEF new
    <3> QED BY <2>1 DEF CountersInv, CountersType
  <2>3. /\ new.of = s.reg /\ new.part = s.part /\ new.val = x
        /\ new["running"] = regs["running"] /\ new["live"] = regs["live"]
    BY DEF FetchedHalf
  <2>4. got'[p].before = got[p].last /\ got'[p].last = new
    BY <2>2
  <2>6. s.part = "low" => x = regs[s.reg] % Half
    OBVIOUS
  <2>7. s.part = "high" => x = regs[s.reg] \div Half
    OBVIOUS
  <2> HIDE DEF x, new, s
  <2>5. s.part \in {"low", "high"} =>
          s.reg \in WideCounters /\ new[s.reg] = regs[s.reg] /\ regs[s.reg] \in Nat
    <3>1. s.part \in {"low", "high"} => s.reg \in WideCounters
      BY <1>3, <1>6 DEF Counted, IsHalf
    <3>2. \A r \in WideCounters : new[r] = regs[r] /\ regs[r] \in Nat
      BY <2>3 DEF CountersInv, CountersType, WideCounters
    <3> QED BY <3>1, <3>2
  <2>8. LowOfThen(new)
    BY <2>3, <2>5, <2>6 DEF LowOfThen
  <2>9. Fetching(Tail(todo[p]), new)
    <3>1. IsHalf(s, "low") => new.part = "low" /\ new.of = s.reg
      BY <2>3 DEF IsHalf
    <3> QED BY <1>1, <1>2, <3>1, FetchingGoesOn DEF s
  <2>10. ASSUME s.part = "high" PROVE Close(got[p].last, new, s.reg)
    <3> DEFINE low == got[p].last
               a == low[s.reg]
               b == new[s.reg]
    <3>1. low.part = "low" /\ low.of = s.reg
      BY <1>3, <1>6, <2>10 DEF IsHalf
    <3>2. a \in Nat /\ low.val = a % Half
      BY <3>1 DEF CountersInv, LowOfThen
    <3>3. b \in Nat /\ new.val = b \div Half
      BY <2>3, <2>5, <2>7, <2>10
    <3> HIDE DEF low, a, b
    <3>4. a <= b => LET shown == low.val + Half * new.val
                    IN /\ a <= shown /\ shown < b + Half
                       /\ a \div Half = b \div Half => shown = a
      BY <3>2, <3>3, Shown
    <3> QED BY <3>4 DEF Close, low, a, b
  <2>11. CountersClose'
    <3> SUFFICES ASSUME NEW q \in Processes, got'[q].last.part = "high"
                 PROVE  Close(got'[q].before, got'[q].last, got'[q].last.of)
      BY DEF CountersClose, Close
    <3>1. CASE q = p
      BY <2>3, <2>4, <2>10, <3>1
    <3>2. CASE q # p
      BY <2>2, <3>2 DEF CountersInv, CountersClose
    <3> QED BY <3>1, <3>2
  <2>12. ASSUME NEW q \in Processes
         PROVE  Fetching(todo'[q], got'[q].last) /\ LowOfThen(got'[q].last)
    <3>1. CASE q = p
      BY <1>1, <2>4, <2>8, <2>9, <3>1
    <3>2. CASE q # p
      BY <1>1, <2>2, <3>2 DEF CountersInv
    <3> QED BY <3>1, <3>2
  <2> QED BY <1>4, <2>11, <2>12 DEF CountersInv
<1> QED BY <1>5, <1>6

\* A process begins an operation.
LEMMA CountersBegin ==
  ASSUME DialogueType, CountersInv, NEW p \in Processes, NEW op, NEW steps,
         Begin(p, op, steps), IsSeq(steps), Paired(steps)
  PROVE  CountersInv'
<1>1. /\ regs' = regs /\ got' = [got EXCEPT ![p] = NoHalves]
      /\ todo'[p] = steps /\ \A q \in Processes : q # p => todo'[q] = todo[q]
  BY TodoAfter DEF Begin, DialogueType
<1>2. \A q \in Processes : got'[q] = IF q = p THEN NoHalves ELSE got[q]
  BY <1>1 DEF CountersInv, CountersType
<1>3. NoHalves.last.part = "none"
  BY DEF NoHalves, FetchedHalf
<1>4. CountersType'
  BY <1>1 DEF CountersInv, CountersType
<1>5. ASSUME NEW q \in Processes
      PROVE  Fetching(todo'[q], got'[q].last) /\ LowOfThen(got'[q].last)
  <2>1. CASE q = p
    BY <1>1, <1>2, <1>3, <2>1, FetchingStarts DEF LowOfThen
  <2>2. CASE q # p
    BY <1>1, <1>2, <2>2 DEF CountersInv
  <2> QED BY <2>1, <2>2
<1>6. CountersClose'
  <2> SUFFICES ASSUME NEW q \in Processes, got'[q].last.part = "high"
               PROVE  Close(got'[q].before, got'[q].last, got'[q].last.of)
    BY DEF CountersClose, Close
  <2>1. q # p
    BY <1>2, <1>3
  <2> QED BY <1>2, <2>1 DEF CountersInv, CountersClose
<1> QED BY <1>4, <1>5, <1>6 DEF CountersInv

\* Steps at which nothing is fetched and no counter is written, though the
\* counters may run; a process goes on with its operation or ends it.
LEMMA CountersKept ==
  ASSUME CountersInv, UNCHANGED got, CountersType',
         \A p \in Processes : todo'[p] = todo[p] \/ Fetching(todo'[p], got[p].last)
  PROVE  CountersInv'
<1>1. CountersClose'
  BY DEF CountersInv, CountersClose, Close
<1> QED BY <1>1 DEF CountersInv

LEMMA CountersInit == Init => CountersInv
<1> SUFFICES ASSUME Init PROVE CountersInv
  OBVIOUS
<1>1. regs = PowerUp /\ \A p \in Processes : todo[p] = <<>> /\ got[p] = NoHalves
  BY DEF Init, RegInit
<1>2. CountersType
  <2>1. WideCounters \subseteq Registers
    BY DEF WideCounters, Registers
  <2>2. ASSUME NEW c \in WideCounters PROVE PowerUp[c] = 0
    <3>1. c \in Registers
      BY <2>1
    <3>2. /\ c \notin {"mask", "disable-hits"} /\ c # "cal-enable" /\ c # "dac-select"
          /\ c # "dacs"
      BY DEF WideCounters
    <3> QED BY <3>1, <3>2, Zenon DEF PowerUp
  <2>3. got = [p \in Processes |-> got[p]]
    BY DEF Init, RegInit
  <2>4. PowerUp = [r \in Registers |-> PowerUp[r]] /\ DOMAIN PowerUp = Registers
    BY Zenon DEF PowerUp
  <2> QED BY <1>1, <2>1, <2>2, <2>3, <2>4 DEF CountersType
<1>3. NoHalves.last.part = "none"
  BY DEF NoHalves, FetchedHalf
<1> QED BY <1>1, <1>2, <1>3, FetchingStarts DEF CountersInv, CountersClose, LowOfThen

LEMMA CountersStep == DialogueInv /\ CountersInv /\ [Next]_vars => CountersInv'
<1> SUFFICES ASSUME DialogueInv, CountersInv, [Next]_vars PROVE CountersInv'
  OBVIOUS
<1>1. DialogueType /\ "server" \in Processes /\ "tool" \in Processes
  BY DEF DialogueInv, Processes
<1>2. ASSUME UNCHANGED <<regs, todo, got>> PROVE CountersInv'
  BY <1>2, CountersKept DEF CountersInv, CountersType
<1>3. ASSUME Cut("server") PROVE CountersInv'
  <2>1. /\ UNCHANGED <<regs, got>> /\ todo'["server"] = <<>>
        /\ \A p \in Processes : p # "server" => todo'[p] = todo[p]
    BY <1>1, <1>3, TodoAfter DEF Cut, DialogueType
  <2>2. CountersType'
    BY <2>1 DEF CountersInv, CountersType
  <2>3. \A p \in Processes : todo'[p] = todo[p] \/ Fetching(todo'[p], got[p].last)
    BY <2>1, FetchingStarts
  <2> QED BY <2>1, <2>2, <2>3, CountersKept
<1>4. CASE ServerAccess \/ ToolAccess
  BY <1>1, <1>4, CountersAccess DEF ServerAccess, ToolAccess
<1>5. CASE AnswerRequest
  <2> DEFINE s == todo["server"]
  <2>1. Take("server") /\ s # <<>> /\ Head(s).do = "say"
    BY <1>5 DEF AnswerRequest, NextIs
  <2>2. /\ UNCHANGED <<regs, got>> /\ todo'["server"] = Tail(s)
        /\ \A p \in Processes : p # "server" => todo'[p] = todo[p]
    BY <1>1, <2>1, TodoAfter DEF Take, DialogueType
  <2>3. CountersType'
    BY <2>2 DEF CountersInv, CountersType
  <2>4. Fetching(s, got["server"].last)
    BY <1>1 DEF CountersInv
  <2> HIDE DEF s
  <2>5. Fetching(Tail(s), got["server"].last)
    <3>1. ~IsHalf(Head(s), "low")
      BY <2>1 DEF IsHalf
    <3> QED BY <2>1, <2>4, <3>1, FetchingGoesOn
  <2> QED BY <2>2, <2>3, <2>5, CountersKept
<1>6. CASE AnswerAgain \/ ReadNull \/ EmitterFault
  BY <1>3, <1>6 DEF AnswerAgain, ReadNull, EmitterFault, Die
<1>7. CASE \/ HandleEmit \/ HandleSetConfig \/ PollTimeout \/ HandleHalt \/ Join
           \/ \E c \in session.clients : PollConfig(c)
  <2>1. UNCHANGED <<regs, todo, got>>
    BY <1>7 DEF HandleEmit, HandleSetConfig, PollTimeout, HandleHalt, Join, PollConfig, regVars
  <2> QED BY <1>2, <2>1
<1>8. CASE \/ Restart \/ EmitterLoop
           \/ \E c \in session.clients : GiveUp(c) \/ \E q \in session.requests \cup {Data} : Send(c, q)
  <2>1. UNCHANGED <<regs, todo, got>>
    BY <1>8 DEF Restart, Start, EmitterLoop, GiveUp, Send, regVars
  <2> QED BY <1>2, <2>1
<1>9. ASSUME NEW c \in session.clients, Receive(c) PROVE CountersInv'
  <2> DEFINE q == pending[c]
             f == IF q.group = "cal" THEN SettingsAfter(q, calctrl) ELSE calctrl
             steps == Steps(q, f)
  <2>1. /\ q # None
        /\ \/ q \in Own /\ UNCHANGED <<regs, todo, got>>
           \/ q \notin Own /\ Begin("server", [by |-> "server", ask |-> q, f |-> f], steps)
    BY <1>9 DEF Receive, regVars
  <2>2. q \in Own \/ IsRequest(q)
    <3>1. session \in Sessions /\ q \in Messages
      BY <1>1, <1>9, <2>1 DEF DialogueType, Clients
    <3> QED BY <3>1, MessagesKnown
  <2> HIDE DEF q, f
  <2>3. IsRequest(q) => IsSeq(steps) /\ Paired(steps)
    BY RequestSteps DEF Ends
  <2> HIDE DEF steps
  <2> QED BY <1>1, <1>2, <2>1, <2>2, <2>3, CountersBegin
<1>10. ASSUME NEW run \in session.runs, Tool(run) PROVE CountersInv'
  <2>1. Begin("tool", [by |-> "tool", run |-> run], ToolSteps(run))
    BY <1>10 DEF Tool, RunTool
  <2>2. IsRun(run)
    BY <1>1, ServerAssumption DEF ServerAssumption, DialogueType
  <2> QED BY <1>1, <2>1, <2>2, ToolPaired, CountersBegin
<1>11. CASE Clock
  <2>1. UNCHANGED <<todo, got>>
    BY <1>11 DEF Clock, Tick
  <2>2. \/ regs' = [regs EXCEPT !["running"] = regs["running"] + 1, !["live"] = regs["live"] + 1]
        \/ regs' = [regs EXCEPT !["running"] = regs["running"] + 1]
        \/ regs' = [regs EXCEPT !["running"] = regs["running"] + 1, !["event-count"] = regs["event-count"] + 1]
    BY <1>11 DEF Clock, Tick, CountersInv, CountersType, WideCounters
  <2>3. /\ regs' = [r \in DOMAIN regs' |-> regs'[r]] /\ DOMAIN regs' = DOMAIN regs
        /\ regs'["running"] \in Nat /\ regs'["live"] \in Nat
    BY <2>2 DEF CountersInv, CountersType, WideCounters
  <2>4. CountersType'
    BY <2>1, <2>3 DEF CountersInv, CountersType, WideCounters
  <2> QED BY <2>1, <2>4, CountersKept
<1>12. CASE UNCHANGED vars
  <2>1. UNCHANGED <<regs, todo, got>>
    BY <1>12 DEF vars, regVars
  <2> QED BY <1>2, <2>1
<1> QED BY <1>4, <1>5, <1>6, <1>7, <1>8, <1>9, <1>10, <1>11, <1>12 DEF Next, Server

\* A counter read in two halves, whoever reads it and however far the clock
\* runs in between, shows no less than it was at the first half and less than
\* a low half more than it was at the second; exactly what it was if nothing
\* carried (VataCtrl::get_counters, SyncCtrl::get_counter).
THEOREM HalvesAreClose == Spec => []CountersClose
<1>1. CountersInv => CountersClose
  BY DEF CountersInv
<1> QED BY DialogueInit, DialogueStep, CountersInit, CountersStep, <1>1, PTL DEF Spec

-----------------------------------------------------------------------------
(* What a call makes of the registers, when nothing comes in between.      *)

\* The registers only software writes, of all of them.
Soft(r) == [x \in Ours |-> r[x]]

\* Registers a mask of which has no bits but those there are.
IsFile(r) == r = [x \in Registers |-> r[x]] /\ r["mask"] \subseteq Bits

LEMMA OursAre ==
  /\ DOMAIN PowerUp = Registers
  /\ Ours = {"mask", "hold", "ack-timeout", "disable-hits", "global-enable", "cal-enable",
             "pulse-width", "trigger-delay", "repeat-delay", "n-pulses", "cal-init", "dac-delay",
             "dac-select", "dac-input", "dac-write", "dacs"}
<1>1. DOMAIN PowerUp = Registers
  BY Zenon DEF PowerUp
<1> QED BY <1>1 DEF Ours, Registers, Hardware

\* A state: the registers and the value the process has loaded.
State(r, z) == [reg |-> r, acc |-> z]

\* The state after a step of the process.
Does(s, a) ==
  CASE s.do = "put" -> State(Written(a.reg, s.reg, s.val), a.acc)
    [] s.do = "load" -> State(a.reg, a.reg[s.reg])
    [] s.do = "store" -> State([a.reg EXCEPT ![s.reg] = (a.acc \cup s.on) \ s.off], {})
    [] OTHER -> a

\* The steps of s lead from one to another.
Trace(f, s) == \A i \in 1 .. Len(s) : f[i] = Does(s[i], f[i - 1])
Leads(s, a, b) == \E f : Trace(f, s) /\ f[0] = a /\ f[Len(s)] = b

\* They make registers b of a, whatever was loaded before.
Makes(s, a, b) == IsSeq(s) /\ \A z : \E y : Leads(s, State(a, z), State(b, y))

\* Taking the first step.
LEMMA LeadsTail ==
  ASSUME NEW s, IsSeq(s), s # <<>>, NEW a, NEW b, Leads(s, a, b)
  PROVE  Leads(Tail(s), Does(Head(s), a), b)
<1> DEFINE n == Len(s)
<1>1. PICK f : Trace(f, s) /\ f[0] = a /\ f[n] = b
  BY DEF Leads
<1>2. /\ n \in Nat \ {0} /\ Len(Tail(s)) = n - 1
      /\ \A i \in 1 .. n - 1 : Tail(s)[i] = s[i + 1]
      /\ Head(s) = s[1]
  <2>1. Len(Tail(s)) = n - 1 /\ IsSeq(Tail(s)) /\ \A i \in DOMAIN Tail(s) : Tail(s)[i] = s[i + 1]
    BY TailOf
  <2>2. DOMAIN Tail(s) = 1 .. Len(Tail(s)) /\ n \in Nat /\ n # 0 /\ Head(s) = s[1]
    BY <2>1, Positions, TailOf
  <2> QED BY <2>1, <2>2
<1> HIDE DEF n
<1>3. \A i \in 1 .. n : f[i] = Does(s[i], f[i - 1])
  BY <1>1 DEF Trace, n
<1> DEFINE g == [i \in 0 .. n - 1 |-> f[i + 1]]
<1>4. g[0] = Does(Head(s), a)
  <2>1. f[1] = Does(s[1], f[1 - 1]) /\ 1 - 1 = 0
    BY <1>2, <1>3
  <2> QED BY <1>1, <1>2, <2>1
<1>5. g[n - 1] = b
  BY <1>1, <1>2
<1>6. \A i \in 1 .. n - 1 : g[i] = Does(Tail(s)[i], g[i - 1])
  <2> SUFFICES ASSUME NEW i \in 1 .. n - 1 PROVE g[i] = Does(Tail(s)[i], g[i - 1])
    OBVIOUS
  <2>1. f[i + 1] = Does(s[i + 1], f[(i + 1) - 1])
    BY <1>2, <1>3
  <2>2. g[i] = f[i + 1] /\ g[i - 1] = f[(i + 1) - 1]
    BY <1>2
  <2> HIDE DEF g
  <2> QED BY <1>2, <2>1, <2>2
<1> HIDE DEF g
<1> QED BY <1>2, <1>4, <1>5, <1>6 DEF Leads, Trace

\* Nothing leads nowhere else.
LEMMA LeadsNowhere ==
  ASSUME NEW a, NEW b
  PROVE  Leads(<<>>, a, b) <=> a = b
<1>1. Len(<<>>) = 0
  OBVIOUS
<1>2. Leads(<<>>, a, b) => a = b
  BY <1>1 DEF Leads
<1>3. a = b => Leads(<<>>, a, b)
  <2> SUFFICES ASSUME a = b PROVE Leads(<<>>, a, b)
    OBVIOUS
  <2> DEFINE f == [i \in {0} |-> a]
  <2>1. f[0] = a /\ \A i \in 1 .. 0 : FALSE
    OBVIOUS
  <2> HIDE DEF f
  <2> QED BY <1>1, <2>1 DEF Leads, Trace
<1> QED BY <1>2, <1>3

\* One after another.
LEMMA LeadsOn ==
  ASSUME NEW s, IsSeq(s), NEW t, IsSeq(t), NEW a, NEW b, NEW c, Leads(s, a, b), Leads(t, b, c)
  PROVE  Leads(s \o t, a, c)
<1> DEFINE n == Len(s)
           m == Len(t)
           u == s \o t
<1>1. PICK f : Trace(f, s) /\ f[0] = a /\ f[n] = b
  BY DEF Leads
<1>2. PICK g : Trace(g, t) /\ g[0] = b /\ g[m] = c
  BY DEF Leads
<1>3. /\ n \in Nat /\ m \in Nat /\ Len(u) = n + m
      /\ \A i \in 1 .. n : u[i] = s[i]
      /\ \A i \in n + 1 .. n + m : u[i] = t[i - n]
  BY Joined, Positions
<1>4. /\ \A i \in 1 .. n : f[i] = Does(s[i], f[i - 1])
      /\ \A i \in 1 .. m : g[i] = Does(t[i], g[i - 1])
  BY <1>1, <1>2 DEF Trace
<1> HIDE DEF n, m, u
<1> DEFINE h == [i \in 0 .. n + m |-> IF i <= n THEN f[i] ELSE g[i - n]]
<1>5. /\ \A i \in 0 .. n : h[i] = f[i]
      /\ \A i \in n .. n + m : h[i] = g[i - n]
  <2>1. \A i \in 0 .. n : h[i] = f[i]
    BY <1>3
  <2>2. h[n] = g[n - n] /\ \A i \in n + 1 .. n + m : h[i] = g[i - n]
    <3>1. n - n = 0
      BY <1>3
    <3> QED BY <1>1, <1>2, <1>3, <3>1
  <2> HIDE DEF h
  <2> QED BY <1>3, <2>1, <2>2
<1> HIDE DEF h
<1>6. ASSUME NEW i \in 1 .. n PROVE h[i] = Does(u[i], h[i - 1])
  <2>1. i \in 0 .. n /\ i - 1 \in 0 .. n
    BY <1>3
  <2> QED BY <1>3, <1>4, <1>5, <2>1
<1>7. ASSUME NEW i \in n + 1 .. n + m PROVE h[i] = Does(u[i], h[i - 1])
  <2>1. i \in n .. n + m /\ i - 1 \in n .. n + m /\ i - n \in 1 .. m /\ (i - 1) - n = (i - n) - 1
    BY <1>3
  <2>2. h[i] = g[i - n] /\ h[i - 1] = g[(i - n) - 1] /\ u[i] = t[i - n]
    BY <1>3, <1>5, <2>1
  <2> QED BY <1>4, <2>1, <2>2
<1>8. \A i \in 1 .. n + m : h[i] = Does(u[i], h[i - 1])
  <2>1. \A i \in 1 .. n + m : i \in 1 .. n \/ i \in n + 1 .. n + m
    BY <1>3
  <2> QED BY <1>6, <1>7, <2>1
<1>9. h[0] = a /\ h[n + m] = c
  <2>1. 0 \in 0 .. n /\ n + m \in n .. n + m /\ (n + m) - n = m
    BY <1>3
  <2> QED BY <1>1, <1>2, <1>5, <2>1 DEF n, m
<1> QED BY <1>3, <1>8, <1>9 DEF Leads, Trace, u

LEMMA MakesOn ==
  ASSUME NEW s, NEW t, NEW a, NEW b, NEW c, Makes(s, a, b), Makes(t, b, c)
  PROVE  Makes(s \o t, a, c)
<1>1. IsSeq(s) /\ IsSeq(t) /\ IsSeq(s \o t)
  BY Joined DEF Makes
<1>2. ASSUME NEW z PROVE \E y : Leads(s \o t, State(a, z), State(c, y))
  <2>1. PICK x : Leads(s, State(a, z), State(b, x))
    BY DEF Makes
  <2>2. PICK y : Leads(t, State(b, x), State(c, y))
    BY DEF Makes
  <2> QED BY <1>1, <2>1, <2>2, LeadsOn
<1> QED BY <1>1, <1>2 DEF Makes

\* Nothing makes nothing; a single step what it does.
LEMMA MakesNothing == \A a : Makes(<<>>, a, a)
BY Tuples, LeadsNowhere DEF Makes

LEMMA MakesStep ==
  ASSUME NEW s, NEW a, NEW b, \A z : \E y : Does(s, State(a, z)) = State(b, y)
  PROVE  Makes(<<s>>, a, b)
<1>1. IsSeq(<<s>>) /\ Len(<<s>>) = 1 /\ <<s>>[1] = s
  BY Tuples
<1>2. ASSUME NEW z PROVE \E y : Leads(<<s>>, State(a, z), State(b, y))
  <2>1. PICK y : Does(s, State(a, z)) = State(b, y)
    OBVIOUS
  <2> DEFINE f == [i \in 0 .. 1 |-> IF i = 0 THEN State(a, z) ELSE State(b, y)]
  <2>2. f[0] = State(a, z) /\ f[1] = State(b, y)
    OBVIOUS
  <2> HIDE DEF f
  <2>3. \A i \in 1 .. 1 : i = 1 /\ i - 1 = 0
    OBVIOUS
  <2>4. Trace(f, <<s>>)
    BY <1>1, <2>1, <2>2, <2>3 DEF Trace
  <2> QED BY <1>1, <2>2, <2>4 DEF Leads
<1> QED BY <1>1, <1>2 DEF Makes

-----------------------------------------------------------------------------
(* What a call may write.                                                  *)

\* The masks, which are changed bit by bit; the registers written as a whole;
\* those of them a call sets and resets; the two for commands.
Masks == {"mask", "disable-hits"}
Singles == Ours \ (Masks \cup {"dacs"})
Twice == {"cal-init", "dac-write"}
Commands == {"vata-cmd", "sync-cmd"}

\* Every bit of v, or all of v, is as one of X has it in register r.
Bitwise(X, r, v) == \A n \in Bits : \E x \in X : n \in v <=> n \in x[r]
Wholly(X, r, v) == \E x \in X : v = x[r]

Puts(s, r) == s.do = "put" /\ s.reg = r

\* What is put is asked for, or will be replaced by the same call.
GoodPut(s, X) ==
  /\ s.reg \in Masks => s.val \subseteq Bits /\ Bitwise(X, s.reg, s.val)
  /\ s.reg \in Singles => Wholly(X, s.reg, s.val)
Passing(s, i) ==
  /\ s[i].reg \in Twice /\ s[i].val = 1
  /\ \E j \in DOMAIN s : j > i /\ Puts(s[j], s[i].reg)

\* The bits that are set and reset are asked for.
GoodStore(s, X) ==
  /\ s.reg \in Masks /\ s.on \subseteq Bits
  /\ \A n \in s.on : \E x \in X : n \in x[s.reg]
  /\ \A n \in s.off : \E x \in X : n \notin x[s.reg]

\* All that is written leads to what some of X is, and what is stored was
\* loaded just before.
Allowed(s, X) ==
  /\ IsSeq(s)
  /\ \A i \in DOMAIN s :
       /\ s[i].do = "put" => /\ s[i].reg \in Masks \cup Singles \cup Commands
                             /\ GoodPut(s[i], X) \/ Passing(s, i)
       /\ s[i].do = "load" => s[i].reg \in Masks
       /\ s[i].do = "store" => /\ GoodStore(s[i], X)
                               /\ i - 1 \in DOMAIN s /\ s[i - 1] = Load(s[i].reg)

\* It stays so when more is asked for.
LEMMA AllowedMore ==
  ASSUME NEW X, NEW Y, X \subseteq Y
  PROVE  /\ \A s : GoodPut(s, X) => GoodPut(s, Y)
         /\ \A s : GoodStore(s, X) => GoodStore(s, Y)
         /\ \A s : Allowed(s, X) => Allowed(s, Y)
<1>1. \A s : GoodPut(s, X) => GoodPut(s, Y)
  BY DEF GoodPut, Bitwise, Wholly
<1>2. \A s : GoodStore(s, X) => GoodStore(s, Y)
  BY DEF GoodStore
<1> QED BY <1>1, <1>2 DEF Allowed

LEMMA AllowedJoined ==
  ASSUME NEW X, NEW s, Allowed(s, X), NEW t, Allowed(t, X)
  PROVE  Allowed(s \o t, X)
<1> DEFINE n == Len(s)
           u == s \o t
           Fine(v, i) ==
             /\ v[i].do = "put" => /\ v[i].reg \in Masks \cup Singles \cup Commands
                                   /\ GoodPut(v[i], X) \/ Passing(v, i)
             /\ v[i].do = "load" => v[i].reg \in Masks
             /\ v[i].do = "store" => /\ GoodStore(v[i], X)
                                     /\ i - 1 \in DOMAIN v /\ v[i - 1] = Load(v[i].reg)
<1>1. IsSeq(s) /\ IsSeq(t) /\ (\A i \in DOMAIN s : Fine(s, i)) /\ \A i \in DOMAIN t : Fine(t, i)
  BY DEF Allowed
<1>2. /\ n \in Nat /\ Len(t) \in Nat /\ DOMAIN s = 1 .. n /\ DOMAIN t = 1 .. Len(t)
      /\ IsSeq(u) /\ DOMAIN u = 1 .. n + Len(t)
      /\ \A i \in 1 .. n : u[i] = s[i]
      /\ \A i \in n + 1 .. n + Len(t) : u[i] = t[i - n]
  BY <1>1, Joined, Positions
<1> HIDE DEF n, u
<1>3. ASSUME NEW i \in 1 .. n PROVE Fine(u, i)
  <2>1. Fine(s, i) /\ u[i] = s[i]
    BY <1>1, <1>2
  <2>2. Passing(s, i) => Passing(u, i)
    <3>1. \A j \in DOMAIN s : j \in DOMAIN u /\ u[j] = s[j]
      BY <1>2
    <3> QED BY <2>1, <3>1 DEF Passing
  <2>3. i - 1 \in DOMAIN s => i - 1 \in DOMAIN u /\ u[i - 1] = s[i - 1]
    BY <1>2
  <2> QED BY <2>1, <2>2, <2>3
<1>4. ASSUME NEW i \in n + 1 .. n + Len(t) PROVE Fine(u, i)
  <2> DEFINE k == i - n
  <2>1. k \in DOMAIN t /\ u[i] = t[k] /\ i = k + n
    BY <1>2
  <2>2. Fine(t, k)
    BY <1>1, <2>1
  <2>3. ASSUME NEW j \in DOMAIN t PROVE j + n \in DOMAIN u /\ u[j + n] = t[j]
    <3>1. j + n \in n + 1 .. n + Len(t) /\ (j + n) - n = j
      BY <1>2
    <3> QED BY <1>2, <3>1
  <2>4. k - 1 \in DOMAIN t => i - 1 \in DOMAIN u /\ u[i - 1] = t[k - 1]
    <3>1. (k - 1) + n = i - 1
      BY <1>2
    <3> QED BY <2>3, <3>1
  <2>5. Passing(t, k) => Passing(u, i)
    <3> SUFFICES ASSUME Passing(t, k) PROVE Passing(u, i)
      OBVIOUS
    <3>1. PICK j \in DOMAIN t : j > k /\ Puts(t[j], t[k].reg)
      BY DEF Passing
    <3>2. j + n > i
      BY <1>2, <2>1, <3>1
    <3> HIDE DEF k
    <3>3. \E l \in DOMAIN u : l > i /\ Puts(u[l], u[i].reg)
      BY <2>1, <2>3, <3>1, <3>2
    <3> QED BY <2>1, <3>3 DEF Passing
  <2> HIDE DEF k
  <2> QED BY <2>1, <2>2, <2>4, <2>5
<1>5. \A i \in DOMAIN u : Fine(u, i)
  <2>1. \A i \in DOMAIN u : i \in 1 .. n \/ i \in n + 1 .. n + Len(t)
    BY <1>2
  <2> HIDE DEF Fine
  <2> QED BY <1>3, <1>4, <2>1
<1> QED BY <1>2, <1>5 DEF Allowed, u

\* The call makes b of a, and writes nothing X does not ask for.
Performs(s, X, a, b) == Allowed(s, X) /\ Makes(s, a, b)

LEMMA PerformsOn ==
  ASSUME NEW s, NEW t, NEW X, NEW a, NEW b, NEW c, Performs(s, X, a, b), Performs(t, X, b, c)
  PROVE  Performs(s \o t, X, a, c)
BY AllowedJoined, MakesOn DEF Performs

LEMMA PerformsNothing == \A X, a : Performs(<<>>, X, a, a)
<1>1. DOMAIN <<>> = {}
  OBVIOUS
<1> QED BY <1>1, Tuples, MakesNothing DEF Performs, Allowed

\* Calls one after another, as many as there are.
LEMMA PerformsFlattened ==
  ASSUME NEW n \in Nat, NEW ss, ss = [i \in 1 .. n |-> ss[i]], NEW h, NEW X,
         \A i \in 1 .. n : Performs(ss[i], X, h[i - 1], h[i])
  PROVE  Performs(FlattenSeq(ss), X, h[0], h[n])
<1>1. Len(ss) = n
  OBVIOUS
<1>2. CASE n = 0
  <2>1. ss = <<>>
    <3>1. IsSeq(ss)
      BY <1>1 DEF IsSeq
    <3> QED BY <1>1, <1>2, <3>1, Positions
  <2> QED BY <1>1, <1>2, <2>1, FlattenedOneByOne, PerformsNothing
<1>3. CASE n # 0
  <2>1. PICK C : /\ FlattenSeq(ss) = C[n]
                 /\ \A i \in 1 .. n : C[i] = IF i = 1 THEN ss[i] ELSE C[i - 1] \o ss[i]
    <3>1. Len(ss) # 0 =>
            \E C : /\ FlattenSeq(ss) = C[Len(ss)]
                  /\ \A i \in 1 .. Len(ss) : C[i] = IF i = 1 THEN ss[i] ELSE C[i - 1] \o ss[i]
      BY <1>1, FlattenedOneByOne, Zenon
    <3> QED BY <1>1, <1>3, <3>1, Zenon
  <2> DEFINE T == {i \in 0 .. n : i = 0 \/ Performs(C[i], X, h[0], h[i])}
  <2>2. ASSUME NEW k \in 0 .. n - 1, k \in T PROVE k + 1 \in T
    <3>1. /\ k + 1 \in 1 .. n /\ (k + 1) - 1 = k /\ (k + 1 = 1 <=> k = 0) /\ k + 1 \in 0 .. n
      OBVIOUS
    <3>2. Performs(ss[k + 1], X, h[k], h[k + 1])
      BY <3>1
    <3>3. C[k + 1] = IF k = 0 THEN ss[k + 1] ELSE C[k] \o ss[k + 1]
      BY <2>1, <3>1
    <3>4. Performs(C[k + 1], X, h[0], h[k + 1])
      BY <2>2, <3>2, <3>3, PerformsOn
    <3> QED BY <3>1, <3>4
  <2>3. \A m \in 0 .. n : m \in T
    <3>1. 0 \in T /\ \A k \in 0 .. n - 1 : k \in T => k + 1 \in T
      BY <2>2
    <3> HIDE DEF T
    <3> QED BY <3>1, UpTo
  <2>4. n \in T
    <3> HIDE DEF T
    <3> QED BY <2>3
  <2> QED BY <1>3, <2>1, <2>4
<1> QED BY <1>2, <1>3

-----------------------------------------------------------------------------
(* The library's calls keep the contract.                                  *)

\* A step that writes no register, and the answers.
LEMMA PerformsIdle ==
  ASSUME NEW s, s.do \in {"fetch", "say", "crash"}, NEW X, NEW a
  PROVE  Performs(<<s>>, X, a, a)
<1>1. \A z : Does(s, State(a, z)) = State(a, z)
  BY DEF Does
<1>2. Makes(<<s>>, a, a)
  BY <1>1, MakesStep
<1>3. IsSeq(<<s>>) /\ DOMAIN <<s>> = {1} /\ <<s>>[1] = s
  BY Tuples
<1>4. Allowed(<<s>>, X)
  BY <1>3 DEF Allowed
<1> QED BY <1>2, <1>4 DEF Performs

\* A command.
LEMMA PerformsCommand ==
  ASSUME NEW reg \in Commands, NEW x, NEW X, NEW r
  PROVE  Performs(<<Put(reg, x)>>, X, Soft(r), Soft(r))
<1> DEFINE s == Put(reg, x)
           a == Soft(r)
<1>1. s.do = "put" /\ s.reg = reg /\ s.val = x /\ reg \in {"vata-cmd", "sync-cmd"}
  BY DEF Put, Commands
<1>2. Written(a, reg, x) = a
  <2>1. a = [y \in DOMAIN a |-> a[y]] /\ {"event-count", "running", "live"} \cap DOMAIN a = {}
    BY OursAre DEF Soft
  <2> HIDE DEF a
  <2>2. [a EXCEPT !["event-count"] = 0] = a /\ [a EXCEPT !["running"] = 0, !["live"] = 0] = a
    BY <2>1
  <2>3. \/ Written(a, reg, x) = [a EXCEPT !["event-count"] = 0]
        \/ Written(a, reg, x) = [a EXCEPT !["running"] = 0, !["live"] = 0]
        \/ Written(a, reg, x) = a
    BY <1>1 DEF Written
  <2> QED BY <2>2, <2>3
<1>3. IsSeq(<<s>>) /\ DOMAIN <<s>> = {1} /\ <<s>>[1] = s
  BY Tuples
<1> HIDE DEF s, a
<1>4. \A z : Does(s, State(a, z)) = State(a, z)
  BY <1>1, <1>2 DEF Does, State
<1>5. Makes(<<s>>, a, a)
  BY <1>4, MakesStep
<1>6. Allowed(<<s>>, X)
  <2>1. reg \notin Masks \cup Singles
    BY <1>1, OursAre DEF Masks, Singles
  <2> QED BY <1>1, <1>3, <2>1 DEF Allowed, GoodPut
<1> QED BY <1>5, <1>6 DEF Performs, s, a

\* What a register is written to.
LEMMA MakesPut ==
  ASSUME NEW reg, reg \notin Commands, NEW x, reg # "dac-write" \/ x # 1, NEW a
  PROVE  Makes(<<Put(reg, x)>>, a, [a EXCEPT ![reg] = x])
<1>1. Put(reg, x).do = "put" /\ Put(reg, x).reg = reg /\ Put(reg, x).val = x
  BY DEF Put
<1>2. Written(a, reg, x) = [a EXCEPT ![reg] = x]
  BY DEF Written, Commands
<1>3. \A z : Does(Put(reg, x), State(a, z)) = State([a EXCEPT ![reg] = x], z)
  BY <1>1, <1>2 DEF Does, State
<1> QED BY <1>3, MakesStep

LEMMA PerformsPut ==
  ASSUME NEW reg \in Masks \cup Singles, NEW x, reg # "dac-write" \/ x # 1, NEW X, NEW a,
         GoodPut(Put(reg, x), X)
  PROVE  Performs(<<Put(reg, x)>>, X, a, [a EXCEPT ![reg] = x])
<1>1. IsSeq(<<Put(reg, x)>>) /\ DOMAIN <<Put(reg, x)>> = {1} /\ <<Put(reg, x)>>[1] = Put(reg, x)
  BY Tuples
<1>2. Put(reg, x).do = "put" /\ Put(reg, x).reg = reg
  BY DEF Put
<1>3. Allowed(<<Put(reg, x)>>, X)
  BY <1>1, <1>2 DEF Allowed
<1>4. reg \notin Commands
  BY OursAre DEF Commands, Masks, Singles
<1> QED BY <1>3, <1>4, MakesPut DEF Performs

\* A mask is changed.
LEMMA PerformsChange ==
  ASSUME NEW reg \in Masks, NEW on, NEW off, NEW X, NEW a, GoodStore(Store(reg, on, off), X)
  PROVE  Performs(Change(reg, on, off), X, a, [a EXCEPT ![reg] = (a[reg] \cup on) \ off])
<1> DEFINE u == Load(reg)
           v == Store(reg, on, off)
           b == [a EXCEPT ![reg] = (a[reg] \cup on) \ off]
           s == <<u, v>>
<1>1. /\ u.do = "load" /\ u.reg = reg
      /\ v.do = "store" /\ v.reg = reg /\ v.on = on /\ v.off = off
  BY DEF Load, Store
<1>2. IsSeq(s) /\ Len(s) = 2 /\ DOMAIN s = {1, 2} /\ s[1] = u /\ s[2] = v
  BY Tuples
<1> HIDE DEF s
<1>3. Allowed(s, X)
  <2>1. 2 - 1 = 1 /\ s[2].reg = reg /\ s[1] = Load(reg)
    BY <1>1, <1>2
  <2> HIDE DEF u, v
  <2>2. GoodStore(v, X)
    BY DEF v
  <2> QED BY <1>1, <1>2, <2>1, <2>2 DEF Allowed
<1>4. ASSUME NEW z PROVE Leads(s, State(a, z), State(b, {}))
  <2>1. Does(u, State(a, z)) = State(a, a[reg])
    BY <1>1 DEF Does, State
  <2> DEFINE f == [i \in 0 .. 2 |-> IF i = 0 THEN State(a, z)
                                    ELSE IF i = 1 THEN State(a, a[reg]) ELSE State(b, {})]
  <2>2. Does(v, State(a, a[reg])) = State(b, {})
    BY <1>1 DEF Does, State
  <2>3. f[0] = State(a, z) /\ f[1] = State(a, a[reg]) /\ f[2] = State(b, {})
    OBVIOUS
  <2> HIDE DEF f, b, u, v
  <2>4. Trace(f, s)
    <3>1. f[1] = Does(s[1], f[0]) /\ f[2] = Does(s[2], f[1])
      BY <1>2, <2>1, <2>2, <2>3
    <3>2. \A i \in 1 .. 2 : (i = 1 /\ i - 1 = 0) \/ (i = 2 /\ i - 1 = 1)
      OBVIOUS
    <3> QED BY <1>2, <3>1, <3>2 DEF Trace
  <2> QED BY <1>2, <2>3, <2>4 DEF Leads
<1>5. Makes(s, a, b)
  BY <1>2, <1>4 DEF Makes
<1> QED BY <1>3, <1>5 DEF Performs, Change, s, u, v, b

\* The call does to registers r what makes x of them, and no more.
Fulfils(s, r, x) == Performs(s, {x}, Soft(r), Soft(x))

\* One register is written.
LEMMA FulfilsPut ==
  ASSUME NEW r, IsFile(r), NEW reg \in Singles \ {"dac-write"}, NEW x
  PROVE  Fulfils(<<Put(reg, x)>>, r, [r EXCEPT ![reg] = x])
<1> DEFINE y == [r EXCEPT ![reg] = x]
<1>1. reg \in Ours /\ reg \notin Masks /\ Ours \subseteq Registers
  BY OursAre DEF Singles, Registers
<1>2. y[reg] = x /\ Soft(y) = [Soft(r) EXCEPT ![reg] = x]
  BY <1>1 DEF IsFile, Soft
<1>3. GoodPut(Put(reg, x), {y})
  BY <1>1, <1>2 DEF GoodPut, Put, Wholly
<1> QED BY <1>2, <1>3, PerformsPut DEF Fulfils

\* A mask is changed.
LEMMA FulfilsChange ==
  ASSUME NEW r, IsFile(r), NEW reg \in Masks, NEW on, on \subseteq Bits, NEW off, on \cap off = {}
  PROVE  Fulfils(Change(reg, on, off), r, [r EXCEPT ![reg] = (@ \cup on) \ off])
<1> DEFINE y == [r EXCEPT ![reg] = (r[reg] \cup on) \ off]
<1>1. reg \in Ours /\ Ours \subseteq Registers
  BY OursAre DEF Masks, Registers
<1>2. /\ y[reg] = (r[reg] \cup on) \ off /\ Soft(r)[reg] = r[reg]
      /\ Soft(y) = [Soft(r) EXCEPT ![reg] = (r[reg] \cup on) \ off]
  BY <1>1 DEF IsFile, Soft
<1>3. GoodStore(Store(reg, on, off), {y})
  BY <1>2 DEF GoodStore, Store
<1> QED BY <1>2, <1>3, PerformsChange DEF Fulfils

\* What reads, and does, nothing to these registers.
LEMMA FulfilsNothing ==
  ASSUME NEW r
  PROVE  /\ Fulfils(<<>>, r, r)
         /\ \A s : s.do \in {"fetch", "say", "crash"} => Fulfils(<<s>>, r, r)
         /\ \A reg \in Commands : \A x : Fulfils(<<Put(reg, x)>>, r, r)
BY PerformsNothing, PerformsIdle, PerformsCommand DEF Fulfils

\* Followed by nothing.
LEMMA FulfilsOn ==
  ASSUME NEW s, NEW t, NEW r, NEW x, Fulfils(s, r, x)
  PROVE  /\ Fulfils(t, x, x) => Fulfils(s \o t, r, x)
         /\ Fulfils(t, r, r) /\ Performs(t, {x}, Soft(r), Soft(r)) => Fulfils(t \o s, r, x)
BY PerformsOn DEF Fulfils

\* The numbers of the chips and of the other sources are bits of the mask.
LEMMA BitsAre ==
  /\ Asics \subseteq MaskBits /\ MaskBits \subseteq Bits /\ MaskBits \subseteq Nat
  /\ {TmHit, TmAck, Forced} \subseteq MaskBits
<1>1. /\ {NVata, TmHit, TmAck, Forced, MaskLen, Width} \subseteq Nat
      /\ NVata <= TmHit /\ TmHit < TmAck /\ TmAck < Forced /\ Forced < MaskLen /\ MaskLen <= Width
  BY LibraryAssumption DEF LibraryAssumption
<1> QED BY <1>1 DEF Asics, MaskBits, Bits

\* The bits of the trigger mask, one or all.
LEMMA FulfilsTrigger ==
  ASSUME NEW r, IsFile(r)
  PROVE  /\ \A b \in Bits : Fulfils(trigger_enable(b), r, [r EXCEPT !["mask"] = @ \cup {b}])
         /\ \A b : Fulfils(trigger_disable(b), r, [r EXCEPT !["mask"] = @ \ {b}])
         /\ Fulfils(trigger_enable_all, r, [r EXCEPT !["mask"] = @ \cup Bits])
         /\ Fulfils(trigger_disable_all, r, [r EXCEPT !["mask"] = @ \ Bits])
<1>1. "mask" \in Masks /\ "mask" \in Ours /\ "mask" \in Registers
  BY OursAre DEF Masks, Registers
<1>2. ASSUME NEW b \in Bits PROVE Fulfils(trigger_enable(b), r, [r EXCEPT !["mask"] = @ \cup {b}])
  <2>1. Fulfils(Change("mask", {b}, {}), r, [r EXCEPT !["mask"] = (@ \cup {b}) \ {}])
    BY <1>1, FulfilsChange
  <2>2. (r["mask"] \cup {b}) \ {} = r["mask"] \cup {b}
    OBVIOUS
  <2> QED BY <2>1, <2>2 DEF trigger_enable
<1>3. ASSUME NEW b PROVE Fulfils(trigger_disable(b), r, [r EXCEPT !["mask"] = @ \ {b}])
  <2>1. Fulfils(Change("mask", {}, {b}), r, [r EXCEPT !["mask"] = (@ \cup {}) \ {b}])
    BY <1>1, FulfilsChange
  <2>2. (r["mask"] \cup {}) \ {b} = r["mask"] \ {b}
    OBVIOUS
  <2> QED BY <2>1, <2>2 DEF trigger_disable
<1>4. ASSUME NEW v \in SUBSET Bits
      PROVE  Fulfils(<<Put("mask", v)>>, r, [r EXCEPT !["mask"] = v])
  <2> DEFINE y == [r EXCEPT !["mask"] = v]
  <2>1. y["mask"] = v /\ Soft(y) = [Soft(r) EXCEPT !["mask"] = v]
    BY <1>1, OursAre DEF IsFile, Soft, Registers
  <2>2. GoodPut(Put("mask", v), {y})
    BY <1>1, <2>1 DEF GoodPut, Put, Bitwise, Singles
  <2> QED BY <1>1, <2>1, <2>2, PerformsPut DEF Fulfils
<1>5. r["mask"] \cup Bits = Bits /\ r["mask"] \ Bits = {}
  BY DEF IsFile
<1>6. /\ Fulfils(trigger_enable_all, r, [r EXCEPT !["mask"] = @ \cup Bits])
      /\ Fulfils(trigger_disable_all, r, [r EXCEPT !["mask"] = @ \ Bits])
  BY <1>4, <1>5 DEF trigger_enable_all, trigger_disable_all
<1> QED BY <1>2, <1>3, <1>6

\* The loops over the chips: each changes one bit of what those before left.
LEMMA FulfilsLoops ==
  ASSUME NEW r, IsFile(r)
  PROVE  /\ Fulfils(trigger_enable_all_local_asics, r, [r EXCEPT !["mask"] = @ \cup Asics])
         /\ Fulfils(trigger_disable_all_local_asics, r, [r EXCEPT !["mask"] = @ \ Asics])
<1>1. "mask" \in Masks /\ "mask" \in Ours /\ "mask" \in Registers
  BY OursAre DEF Masks, Registers
<1>2. NVata \in Nat /\ Asics = 0 .. NVata - 1 /\ Asics \subseteq Bits
  BY BitsAre, LibraryAssumption DEF LibraryAssumption, Asics
<1>3. Fulfils(trigger_enable_all_local_asics, r, [r EXCEPT !["mask"] = @ \cup Asics])
  <2> DEFINE y == [r EXCEPT !["mask"] = r["mask"] \cup Asics]
             ss == [i \in 1 .. NVata |-> trigger_enable(i - 1)]
             h == [i \in 0 .. NVata |-> [Soft(r) EXCEPT !["mask"] = r["mask"] \cup 0 .. i - 1]]
  <2>1. y["mask"] = r["mask"] \cup Asics /\ Soft(y) = [Soft(r) EXCEPT !["mask"] = y["mask"]]
    BY <1>1, OursAre DEF IsFile, Soft, Registers
  <2>2. Soft(r) = [x \in DOMAIN Soft(r) |-> Soft(r)[x]] /\ "mask" \in DOMAIN Soft(r)
        /\ Soft(r)["mask"] = r["mask"]
    BY <1>1 DEF Soft
  <2>3. h[0] = Soft(r) /\ h[NVata] = Soft(y)
    <3>1. 0 .. 0 - 1 = {}
      OBVIOUS
    <3>2. h[0] = Soft(r)
      BY <1>2, <2>2, <3>1
    <3>3. h[NVata] = [Soft(r) EXCEPT !["mask"] = r["mask"] \cup Asics]
      BY <1>2
    <3> HIDE DEF h, y
    <3> QED BY <2>1, <3>2, <3>3
  <2>4. ASSUME NEW i \in 1 .. NVata PROVE Performs(ss[i], {y}, h[i - 1], h[i])
    <3> DEFINE a == h[i - 1]
    <3>1. i - 1 \in Asics /\ i - 1 \in Bits
      BY <1>2
    <3>2. GoodStore(Store("mask", {i - 1}, {}), {y})
      <4> HIDE DEF y
      <4> QED BY <1>1, <2>1, <3>1 DEF GoodStore, Store
    <3>3. Performs(Change("mask", {i - 1}, {}), {y}, a, [a EXCEPT !["mask"] = (a["mask"] \cup {i - 1}) \ {}])
      <4> HIDE DEF a, y
      <4> QED BY <1>1, <3>2, PerformsChange
    <3>4. ss[i] = Change("mask", {i - 1}, {})
      BY DEF trigger_enable
    <3>5. a = [Soft(r) EXCEPT !["mask"] = r["mask"] \cup 0 .. (i - 1) - 1]
          /\ h[i] = [Soft(r) EXCEPT !["mask"] = r["mask"] \cup 0 .. i - 1]
      BY <1>2
    <3>6. 0 .. i - 1 = (0 .. (i - 1) - 1) \cup {i - 1}
      BY <1>2
    <3>7. h[i] = [a EXCEPT !["mask"] = (a["mask"] \cup {i - 1}) \ {}]
      <4> HIDE DEF a, h
      <4>1. a["mask"] = r["mask"] \cup 0 .. (i - 1) - 1
        BY <2>2, <3>5
      <4>2. (a["mask"] \cup {i - 1}) \ {} = r["mask"] \cup 0 .. i - 1
        BY <3>6, <4>1
      <4> QED BY <2>2, <3>5, <4>2
    <3> HIDE DEF a, h, y, ss
    <3> QED BY <3>3, <3>4, <3>7 DEF a
  <2>5. ss = [i \in 1 .. NVata |-> ss[i]]
    OBVIOUS
  <2> HIDE DEF h, y, ss
  <2>6. Performs(FlattenSeq(ss), {y}, h[0], h[NVata])
    BY <1>2, <2>4, <2>5, PerformsFlattened
  <2> QED BY <2>3, <2>6 DEF Fulfils, trigger_enable_all_local_asics, ss, y
<1>4. Fulfils(trigger_disable_all_local_asics, r, [r EXCEPT !["mask"] = @ \ Asics])
  <2> DEFINE y == [r EXCEPT !["mask"] = r["mask"] \ Asics]
             ss == [i \in 1 .. NVata |-> trigger_disable(i - 1)]
             h == [i \in 0 .. NVata |-> [Soft(r) EXCEPT !["mask"] = r["mask"] \ (0 .. i - 1)]]
  <2>1. y["mask"] = r["mask"] \ Asics /\ Soft(y) = [Soft(r) EXCEPT !["mask"] = y["mask"]]
    BY <1>1, OursAre DEF IsFile, Soft, Registers
  <2>2. Soft(r) = [x \in DOMAIN Soft(r) |-> Soft(r)[x]] /\ "mask" \in DOMAIN Soft(r)
        /\ Soft(r)["mask"] = r["mask"]
    BY <1>1 DEF Soft
  <2>3. h[0] = Soft(r) /\ h[NVata] = Soft(y)
    <3>1. 0 .. 0 - 1 = {}
      OBVIOUS
    <3>2. h[0] = Soft(r)
      BY <1>2, <2>2, <3>1
    <3>3. h[NVata] = [Soft(r) EXCEPT !["mask"] = r["mask"] \ Asics]
      BY <1>2
    <3> HIDE DEF h, y
    <3> QED BY <2>1, <3>2, <3>3
  <2>4. ASSUME NEW i \in 1 .. NVata PROVE Performs(ss[i], {y}, h[i - 1], h[i])
    <3> DEFINE a == h[i - 1]
    <3>1. i - 1 \in Asics
      BY <1>2
    <3>2. GoodStore(Store("mask", {}, {i - 1}), {y})
      <4> HIDE DEF y
      <4> QED BY <1>1, <2>1, <3>1 DEF GoodStore, Store
    <3>3. Performs(Change("mask", {}, {i - 1}), {y}, a, [a EXCEPT !["mask"] = (a["mask"] \cup {}) \ {i - 1}])
      <4> HIDE DEF a, y
      <4> QED BY <1>1, <3>2, PerformsChange
    <3>4. ss[i] = Change("mask", {}, {i - 1})
      BY DEF trigger_disable
    <3>5. a = [Soft(r) EXCEPT !["mask"] = r["mask"] \ (0 .. (i - 1) - 1)]
          /\ h[i] = [Soft(r) EXCEPT !["mask"] = r["mask"] \ (0 .. i - 1)]
      BY <1>2
    <3>6. 0 .. i - 1 = (0 .. (i - 1) - 1) \cup {i - 1}
      BY <1>2
    <3>7. h[i] = [a EXCEPT !["mask"] = (a["mask"] \cup {}) \ {i - 1}]
      <4> HIDE DEF a, h
      <4>1. a["mask"] = r["mask"] \ (0 .. (i - 1) - 1)
        BY <2>2, <3>5
      <4>2. (a["mask"] \cup {}) \ {i - 1} = r["mask"] \ (0 .. i - 1)
        BY <3>6, <4>1
      <4> QED BY <2>2, <3>5, <4>2
    <3> HIDE DEF a, h, y, ss
    <3> QED BY <3>3, <3>4, <3>7 DEF a
  <2>5. ss = [i \in 1 .. NVata |-> ss[i]]
    OBVIOUS
  <2> HIDE DEF h, y, ss
  <2>6. Performs(FlattenSeq(ss), {y}, h[0], h[NVata])
    BY <1>2, <2>4, <2>5, PerformsFlattened
  <2> QED BY <2>3, <2>6 DEF Fulfils, trigger_disable_all_local_asics, ss, y
<1> QED BY <1>3, <1>4

\* What reads, and the commands.
LEMMA FulfilsReads ==
  ASSUME NEW r
  PROVE  /\ Fulfils(get_trigger_ena_mask, r, r) /\ Fulfils(get_hold_delay, r, r)
         /\ Fulfils(get_trigger_ack_timeout, r, r) /\ Fulfils(get_event_count, r, r)
         /\ Fulfils(get_counters, r, r) /\ Fulfils(get_counter, r, r)
         /\ Fulfils(reset_event_count, r, r) /\ Fulfils(force_fsm_to_idle, r, r)
         /\ Fulfils(reset_counters, r, r) /\ Fulfils(<<>>, r, r)
         /\ Fulfils(counter_reset, r, r) /\ Fulfils(force_trigger, r, r)
         /\ Fulfils(get_asic_hit_disable_mask, r, r) /\ Fulfils(is_global_hit_enabled, r, r)
         /\ Fulfils(get_delay, r, r) /\ Fulfils(get_input, r, r)
<1>1. \A x, h : Fulfils(<<Fetch(x)>>, r, r) /\ Fulfils(<<FetchPart(x, h)>>, r, r)
  BY FulfilsNothing DEF Fetch, FetchPart
<1>2. \A x : Fulfils(<<Put("vata-cmd", x)>>, r, r) /\ Fulfils(<<Put("sync-cmd", x)>>, r, r)
  BY FulfilsNothing DEF Commands
<1>3. \A x, y, h, k : Fulfils(<<FetchPart(x, h), FetchPart(y, k)>>, r, r)
  <2> SUFFICES ASSUME NEW x, NEW y, NEW h, NEW k
               PROVE  Fulfils(<<FetchPart(x, h), FetchPart(y, k)>>, r, r)
    OBVIOUS
  <2>1. <<FetchPart(x, h), FetchPart(y, k)>> = <<FetchPart(x, h)>> \o <<FetchPart(y, k)>>
    OBVIOUS
  <2> QED BY <1>1, <2>1, FulfilsOn
<1>4. get_counters = get_counter \o <<FetchPart("live", "low"), FetchPart("live", "high")>>
  BY DEF get_counters, get_counter
<1>5. Fulfils(get_counter, r, r)
  BY <1>3 DEF get_counter
<1>6. Fulfils(get_counters, r, r)
  BY <1>3, <1>4, <1>5, FulfilsOn
<1>7. /\ Fulfils(get_trigger_ena_mask, r, r) /\ Fulfils(get_hold_delay, r, r)
      /\ Fulfils(get_trigger_ack_timeout, r, r) /\ Fulfils(get_event_count, r, r)
      /\ Fulfils(get_asic_hit_disable_mask, r, r) /\ Fulfils(is_global_hit_enabled, r, r)
      /\ Fulfils(get_delay, r, r) /\ Fulfils(get_input, r, r)
  BY <1>1 DEF get_trigger_ena_mask, get_hold_delay, get_trigger_ack_timeout, get_event_count,
              get_asic_hit_disable_mask, is_global_hit_enabled, get_delay, get_input
<1>8. /\ Fulfils(reset_event_count, r, r) /\ Fulfils(force_fsm_to_idle, r, r)
      /\ Fulfils(counter_reset, r, r) /\ Fulfils(force_trigger, r, r)
  BY <1>2 DEF reset_event_count, force_fsm_to_idle, counter_reset, force_trigger
<1>9. Fulfils(reset_counters, r, r) /\ Fulfils(<<>>, r, r)
  BY FulfilsNothing DEF reset_counters
<1> QED BY <1>5, <1>6, <1>7, <1>8, <1>9

\* What writes one register, or changes the mask of the hits.
LEMMA FulfilsWrites ==
  ASSUME NEW r, IsFile(r)
  PROVE  /\ \A x : /\ Fulfils(set_hold_delay(x), r, [r EXCEPT !["hold"] = x])
                   /\ Fulfils(set_trigger_ack_timeout(x), r, [r EXCEPT !["ack-timeout"] = x])
                   /\ Fulfils(set_delay(x), r, [r EXCEPT !["dac-delay"] = x])
         /\ Fulfils(stop_inf_pulses, r, [r EXCEPT !["cal-init"] = 0])
         /\ Fulfils(global_hit_enable, r, [r EXCEPT !["global-enable"] = 1])
         /\ Fulfils(global_hit_disable, r, [r EXCEPT !["global-enable"] = 0])
         /\ \A a \in Asics :
              /\ Fulfils(asic_hit_disable(a), r, [r EXCEPT !["disable-hits"] = @ \cup {a}])
              /\ Fulfils(asic_hit_enable(a), r, [r EXCEPT !["disable-hits"] = @ \ {a}])
<1>1. /\ {"hold", "ack-timeout", "dac-delay", "cal-init", "global-enable"}
           \subseteq Singles \ {"dac-write"}
      /\ "disable-hits" \in Masks
  BY OursAre DEF Singles, Masks
<1>2. \A x : /\ Fulfils(set_hold_delay(x), r, [r EXCEPT !["hold"] = x])
             /\ Fulfils(set_trigger_ack_timeout(x), r, [r EXCEPT !["ack-timeout"] = x])
             /\ Fulfils(set_delay(x), r, [r EXCEPT !["dac-delay"] = x])
  BY <1>1, FulfilsPut DEF set_hold_delay, set_trigger_ack_timeout, set_delay
<1>3. /\ Fulfils(stop_inf_pulses, r, [r EXCEPT !["cal-init"] = 0])
      /\ Fulfils(global_hit_enable, r, [r EXCEPT !["global-enable"] = 1])
      /\ Fulfils(global_hit_disable, r, [r EXCEPT !["global-enable"] = 0])
  BY <1>1, FulfilsPut DEF stop_inf_pulses, global_hit_enable, global_hit_disable
<1>4. ASSUME NEW a \in Asics
      PROVE  /\ Fulfils(asic_hit_disable(a), r, [r EXCEPT !["disable-hits"] = @ \cup {a}])
             /\ Fulfils(asic_hit_enable(a), r, [r EXCEPT !["disable-hits"] = @ \ {a}])
  <2>1. {a} \subseteq Bits
    BY BitsAre
  <2>2. /\ Fulfils(Change("disable-hits", {a}, {}), r, [r EXCEPT !["disable-hits"] = (@ \cup {a}) \ {}])
        /\ Fulfils(Change("disable-hits", {}, {a}), r, [r EXCEPT !["disable-hits"] = (@ \cup {}) \ {a}])
    BY <1>1, <2>1, FulfilsChange
  <2>3. /\ (r["disable-hits"] \cup {a}) \ {} = r["disable-hits"] \cup {a}
        /\ (r["disable-hits"] \cup {}) \ {a} = r["disable-hits"] \ {a}
    OBVIOUS
  <2> QED BY <2>2, <2>3 DEF asic_hit_disable, asic_hit_enable
<1> QED BY <1>2, <1>3, <1>4

\* A register is set and then reset.
LEMMA PerformsPulse ==
  ASSUME NEW reg \in Twice, NEW X, GoodPut(Put(reg, 0), X), NEW a, NEW b,
         Makes(<<Put(reg, 1)>>, a, b)
  PROVE  Performs(<<Put(reg, 1), Put(reg, 0)>>, X, a, [b EXCEPT ![reg] = 0])
<1> DEFINE u == Put(reg, 1)
           v == Put(reg, 0)
           s == <<u, v>>
<1>1. reg \in Singles /\ reg \notin Commands
  BY OursAre DEF Twice, Singles, Masks, Commands
<1>2. IsSeq(s) /\ DOMAIN s = {1, 2} /\ s[1] = u /\ s[2] = v /\ s = <<u>> \o <<v>>
  BY Tuples
<1>3. /\ u.do = "put" /\ u.reg = reg /\ u.val = 1
      /\ v.do = "put" /\ v.reg = reg
  BY DEF Put
<1>4. Makes(<<v>>, b, [b EXCEPT ![reg] = 0])
  BY <1>1, MakesPut
<1>5. Makes(s, a, [b EXCEPT ![reg] = 0])
  BY <1>2, <1>4, MakesOn
<1> HIDE DEF s, u
<1>6. Passing(s, 1)
  <2>1. 2 > 1
    OBVIOUS
  <2> HIDE DEF v
  <2> QED BY <1>2, <1>3, <2>1 DEF Passing, Puts
<1>7. GoodPut(v, X)
  OBVIOUS
<1> HIDE DEF v
<1>8. Allowed(s, X)
  BY <1>1, <1>2, <1>3, <1>6, <1>7 DEF Allowed
<1> QED BY <1>5, <1>8 DEF Performs, s, u, v

\* A register is set as one of X has it.
LEMMA GoodSingle ==
  ASSUME NEW reg \in Singles, NEW x, NEW y, y[reg] = x
  PROVE  GoodPut(Put(reg, x), {y})
<1>1. reg \notin Masks
  BY DEF Singles
<1> QED BY <1>1 DEF GoodPut, Put, Wholly

\* The input is sent to the converter that is selected.
LEMMA FulfilsCounts ==
  ASSUME NEW r, IsFile(r), NEW d, NEW x
  PROVE  Fulfils(set_counts(d, x), r,
                 [r EXCEPT !["dacs"][d] = x, !["dac-select"] = d, !["dac-input"] = x,
                           !["dac-write"] = 0])
<1> DEFINE y == [r EXCEPT !["dacs"][d] = x, !["dac-select"] = d, !["dac-input"] = x,
                          !["dac-write"] = 0]
           a == Soft(r)
           a1 == [a EXCEPT !["dac-select"] = d]
           a2 == [a1 EXCEPT !["dac-input"] = x]
           a3 == [a2 EXCEPT !["dac-write"] = 0]
           a4 == [a3 EXCEPT !["dac-write"] = 1, !["dacs"][d] = x]
           a5 == [a4 EXCEPT !["dac-write"] = 0]
<1>1. /\ {"dac-select", "dac-input", "dac-write"} \subseteq Singles
      /\ {"dac-select", "dac-input", "dac-write", "dacs"} \subseteq Ours /\ Ours \subseteq Registers
      /\ "dac-write" \in Twice
  BY OursAre DEF Singles, Masks, Registers, Twice
<1>2. y["dac-select"] = d /\ y["dac-input"] = x /\ y["dac-write"] = 0
  BY <1>1 DEF IsFile
<1>3. /\ DOMAIN a3 = Ours /\ a3["dac-select"] = d /\ a3["dac-input"] = x /\ a3["dac-write"] = 0
      /\ a3 = [z \in Ours |-> a3[z]]
  BY <1>1 DEF Soft
<1>4. Soft(y) = a5
  BY <1>1 DEF IsFile, Soft
<1> HIDE DEF y
<1>5. /\ GoodPut(Put("dac-select", d), {y}) /\ GoodPut(Put("dac-input", x), {y})
      /\ GoodPut(Put("dac-write", 0), {y})
  BY <1>1, <1>2, GoodSingle
<1>6. /\ Performs(<<Put("dac-select", d)>>, {y}, a, a1)
      /\ Performs(<<Put("dac-input", x)>>, {y}, a1, a2)
      /\ Performs(<<Put("dac-write", 0)>>, {y}, a2, a3)
  <2> HIDE DEF a
  <2>1. Performs(<<Put("dac-select", d)>>, {y}, a, a1)
    BY <1>1, <1>5, PerformsPut
  <2> HIDE DEF a1
  <2>2. Performs(<<Put("dac-input", x)>>, {y}, a1, a2)
    BY <1>1, <1>5, PerformsPut
  <2> HIDE DEF a2
  <2>3. Performs(<<Put("dac-write", 0)>>, {y}, a2, a3)
    BY <1>1, <1>5, PerformsPut
  <2> QED BY <2>1, <2>2, <2>3 DEF a1, a2
<1>7. Makes(<<Put("dac-write", 1)>>, a3, a4)
  <2> HIDE DEF a3
  <2>1. Written(a3, "dac-write", 1) = a4
    BY <1>3 DEF Written
  <2> HIDE DEF a4
  <2>2. \A z : Does(Put("dac-write", 1), State(a3, z)) = State(a4, z)
    BY <2>1 DEF Does, State, Put
  <2> QED BY <2>2, MakesStep
<1>8. Performs(<<Put("dac-write", 1), Put("dac-write", 0)>>, {y}, a3, a5)
  <2> HIDE DEF a3, a4
  <2> QED BY <1>1, <1>5, <1>7, PerformsPulse
<1>9. set_counts(d, x) = <<Put("dac-select", d)>> \o (<<Put("dac-input", x)>>
        \o (<<Put("dac-write", 0)>> \o <<Put("dac-write", 1), Put("dac-write", 0)>>))
  BY DEF set_counts
<1> HIDE DEF a, a1, a2, a3, a5
<1>10. Performs(set_counts(d, x), {y}, a, a5)
  BY <1>6, <1>8, <1>9, PerformsOn
<1> QED BY <1>4, <1>10 DEF Fulfils, a, y

-----------------------------------------------------------------------------
(* The calibration calls.                                                  *)

\* Registers y hold settings f.
HasSettings(y, f) ==
  /\ y["cal-enable"] = [s \in Flags |-> f[s]] /\ y["pulse-width"] = f["pulse-width"]
  /\ y["trigger-delay"] = f["trigger-delay"] /\ y["repeat-delay"] = f["repeat-delay"]

LEMMA PerformsSettings ==
  ASSUME NEW f, NEW y, HasSettings(y, f), NEW a
  PROVE  Performs(write_settings(f), {y}, a, Holds(f, a))
<1> DEFINE e == [s \in Flags |-> f[s]]
           a1 == [a EXCEPT !["cal-enable"] = e]
           a2 == [a1 EXCEPT !["pulse-width"] = f["pulse-width"]]
           a3 == [a2 EXCEPT !["trigger-delay"] = f["trigger-delay"]]
           a4 == [a3 EXCEPT !["repeat-delay"] = f["repeat-delay"]]
<1>1. {"cal-enable", "pulse-width", "trigger-delay", "repeat-delay"} \subseteq Singles
  BY OursAre DEF Singles, Masks
<1>2. /\ GoodPut(Put("cal-enable", e), {y}) /\ GoodPut(Put("pulse-width", f["pulse-width"]), {y})
      /\ GoodPut(Put("trigger-delay", f["trigger-delay"]), {y})
      /\ GoodPut(Put("repeat-delay", f["repeat-delay"]), {y})
  BY <1>1, GoodSingle DEF HasSettings
<1>3. write_settings(f) = <<Put("cal-enable", e)>> \o (<<Put("pulse-width", f["pulse-width"])>>
        \o (<<Put("trigger-delay", f["trigger-delay"])>> \o <<Put("repeat-delay", f["repeat-delay"])>>))
  BY DEF write_settings
<1>4. Holds(f, a) = a4
  BY DEF Holds
<1> HIDE DEF e
<1>5. Performs(<<Put("cal-enable", e)>>, {y}, a, a1)
  BY <1>1, <1>2, PerformsPut
<1> HIDE DEF a1
<1>6. Performs(<<Put("pulse-width", f["pulse-width"])>>, {y}, a1, a2)
  BY <1>1, <1>2, PerformsPut
<1> HIDE DEF a2
<1>7. Performs(<<Put("trigger-delay", f["trigger-delay"])>>, {y}, a2, a3)
  BY <1>1, <1>2, PerformsPut
<1> HIDE DEF a3
<1>8. Performs(<<Put("repeat-delay", f["repeat-delay"])>>, {y}, a3, a4)
  BY <1>1, <1>2, PerformsPut
<1> HIDE DEF a4
<1> QED BY <1>3, <1>4, <1>5, <1>6, <1>7, <1>8, PerformsOn

\* The calls that start pulses, from any registers.
LEMMA PerformsPulses ==
  ASSUME NEW f, NEW y, HasSettings(y, f), NEW a
  PROVE  /\ y["n-pulses"] = 0 /\ y["cal-init"] = 1 =>
              Performs(start_inf_pulses(f), {y}, a,
                       [Holds(f, a) EXCEPT !["n-pulses"] = 0, !["cal-init"] = 1])
         /\ \A n : y["n-pulses"] = n /\ y["cal-init"] = 0 =>
              Performs(n_pulses(f, n), {y}, a,
                       [Holds(f, a) EXCEPT !["n-pulses"] = n, !["cal-init"] = 0])
<1> DEFINE b == Holds(f, a)
           c(n) == [b EXCEPT !["n-pulses"] = n]
<1>1. /\ {"n-pulses", "cal-init"} \subseteq Singles /\ "cal-init" \in Twice
      /\ {"n-pulses", "cal-init"} \cap Commands = {}
  BY OursAre DEF Singles, Masks, Twice, Commands
<1>2. Performs(write_settings(f), {y}, a, b)
  BY PerformsSettings
<1> HIDE DEF b
<1>3. ASSUME NEW n, y["n-pulses"] = n PROVE Performs(<<Put("n-pulses", n)>>, {y}, b, c(n))
  BY <1>1, <1>3, GoodSingle, PerformsPut
<1>4. ASSUME y["n-pulses"] = 0, y["cal-init"] = 1
      PROVE  Performs(start_inf_pulses(f), {y}, a, [b EXCEPT !["n-pulses"] = 0, !["cal-init"] = 1])
  <2>1. GoodPut(Put("cal-init", 1), {y})
    BY <1>1, <1>4, GoodSingle
  <2>2. [b EXCEPT !["n-pulses"] = 0, !["cal-init"] = 1] = [c(0) EXCEPT !["cal-init"] = 1]
    OBVIOUS
  <2>3. start_inf_pulses(f) = write_settings(f) \o (<<Put("n-pulses", 0)>> \o <<Put("cal-init", 1)>>)
    BY DEF start_inf_pulses
  <2> HIDE DEF c
  <2>4. Performs(<<Put("cal-init", 1)>>, {y}, c(0), [c(0) EXCEPT !["cal-init"] = 1])
    BY <1>1, <2>1, PerformsPut
  <2>5. Performs(<<Put("n-pulses", 0)>>, {y}, b, c(0))
    BY <1>3, <1>4
  <2>6. Performs(<<Put("n-pulses", 0)>> \o <<Put("cal-init", 1)>>, {y}, b, [c(0) EXCEPT !["cal-init"] = 1])
    BY <2>4, <2>5, PerformsOn
  <2>7. Performs(start_inf_pulses(f), {y}, a, [c(0) EXCEPT !["cal-init"] = 1])
    BY <1>2, <2>3, <2>6, PerformsOn
  <2> QED BY <2>2, <2>7
<1>5. ASSUME NEW n, y["n-pulses"] = n, y["cal-init"] = 0
      PROVE  Performs(n_pulses(f, n), {y}, a, [b EXCEPT !["n-pulses"] = n, !["cal-init"] = 0])
  <2> DEFINE d == [c(n) EXCEPT !["cal-init"] = 1]
  <2>1. GoodPut(Put("cal-init", 0), {y})
    BY <1>1, <1>5, GoodSingle
  <2>2. [b EXCEPT !["n-pulses"] = n, !["cal-init"] = 0] = [d EXCEPT !["cal-init"] = 0]
    OBVIOUS
  <2>3. n_pulses(f, n) = write_settings(f)
          \o (<<Put("n-pulses", n)>> \o <<Put("cal-init", 1), Put("cal-init", 0)>>)
    BY DEF n_pulses
  <2>4. Performs(<<Put("n-pulses", n)>>, {y}, b, c(n))
    BY <1>3, <1>5
  <2> HIDE DEF c
  <2>5. Makes(<<Put("cal-init", 1)>>, c(n), d)
    BY <1>1, MakesPut
  <2> HIDE DEF d
  <2>6. Performs(<<Put("cal-init", 1), Put("cal-init", 0)>>, {y}, c(n), [d EXCEPT !["cal-init"] = 0])
    BY <1>1, <2>1, <2>5, PerformsPulse
  <2>7. Performs(<<Put("n-pulses", n)>> \o <<Put("cal-init", 1), Put("cal-init", 0)>>, {y}, b,
                 [d EXCEPT !["cal-init"] = 0])
    BY <2>4, <2>6, PerformsOn
  <2>8. Performs(n_pulses(f, n), {y}, a, [d EXCEPT !["cal-init"] = 0])
    BY <1>2, <2>3, <2>7, PerformsOn
  <2> QED BY <2>2, <2>8
<1> QED BY <1>4, <1>5 DEF b

\* What is left of the registers only software writes.
LEMMA SoftHolds ==
  ASSUME NEW r, r = [x \in Registers |-> r[x]], NEW f
  PROVE  LET h == Holds(f, r)
         IN /\ h = [x \in Registers |-> h[x]] /\ h["mask"] = r["mask"]
            /\ HasSettings(h, f) /\ Soft(h) = Holds(f, Soft(r))
            /\ Holds(f, h) = h /\ Holds(f, Soft(h)) = Soft(h)
            /\ \A n, i : LET p == [h EXCEPT !["n-pulses"] = n, !["cal-init"] = i]
                         IN /\ HasSettings(p, f) /\ p["n-pulses"] = n /\ p["cal-init"] = i
                            /\ Soft(p) = [Soft(h) EXCEPT !["n-pulses"] = n, !["cal-init"] = i]
            /\ \A i : LET p == [h EXCEPT !["cal-init"] = i]
                      IN /\ HasSettings(p, f) /\ p["cal-init"] = i
                         /\ Soft(p) = [Soft(h) EXCEPT !["cal-init"] = i]
<1> DEFINE h == Holds(f, r)
<1>1. /\ {"mask", "cal-enable", "pulse-width", "trigger-delay", "repeat-delay", "n-pulses", "cal-init"}
           \subseteq Ours
      /\ Ours \subseteq Registers
  BY OursAre DEF Registers
<1>2. /\ h = [x \in Registers |-> h[x]] /\ h["mask"] = r["mask"] /\ HasSettings(h, f)
  BY <1>1 DEF Holds, HasSettings
<1>3. Soft(h) = Holds(f, Soft(r))
  BY <1>1 DEF Holds, Soft
<1> HIDE DEF h
<1>4. \A g : g = [x \in DOMAIN g |-> g[x]] /\ HasSettings(g, f) => Holds(f, g) = g
  BY DEF Holds, HasSettings
<1>5. Soft(h) = [x \in DOMAIN Soft(h) |-> Soft(h)[x]] /\ HasSettings(Soft(h), f)
  BY <1>1, <1>2 DEF Soft, HasSettings
<1>6. DOMAIN h = Registers
  BY <1>2
<1>7. Holds(f, h) = h /\ Holds(f, Soft(h)) = Soft(h)
  BY <1>2, <1>4, <1>5, <1>6
<1>8. \A n, i : LET p == [h EXCEPT !["n-pulses"] = n, !["cal-init"] = i]
                IN /\ HasSettings(p, f) /\ p["n-pulses"] = n /\ p["cal-init"] = i
                   /\ Soft(p) = [Soft(h) EXCEPT !["n-pulses"] = n, !["cal-init"] = i]
  BY <1>1, <1>2 DEF HasSettings, Soft
<1>9. \A i : LET p == [h EXCEPT !["cal-init"] = i]
             IN /\ HasSettings(p, f) /\ p["cal-init"] = i
                /\ Soft(p) = [Soft(h) EXCEPT !["cal-init"] = i]
  BY <1>1, <1>2 DEF HasSettings, Soft
<1> QED BY <1>2, <1>3, <1>7, <1>8, <1>9 DEF h

-----------------------------------------------------------------------------
(* The requests keep the contract.                                         *)

\* An answer before or after a call changes no register; nor does a refusal.
LEMMA FulfilsAnswered ==
  ASSUME NEW r
  PROVE  /\ \A a : Fulfils(<<Say(a)>>, r, r)
         /\ Fulfils(<<Say("error"), Say("error")>>, r, r) /\ Fulfils(<<Crash>>, r, r)
         /\ \A call : Fulfils(OkAfter(FALSE, call), r, r)
         /\ \A call, x : Fulfils(call, r, x) =>
              /\ Fulfils(OkAfter(TRUE, call), r, x) /\ Fulfils(ValueOf(call), r, x)
              /\ Fulfils(<<Say("ok")>> \o call, r, x)
<1>1. \A a, x, y : Performs(<<Say(a)>>, x, y, y) /\ Performs(<<Crash>>, x, y, y)
  BY PerformsIdle DEF Say, Crash
<1>2. /\ \A a, x : Fulfils(<<Say(a)>>, x, x) /\ Fulfils(<<Crash>>, x, x)
  BY <1>1 DEF Fulfils
<1>3. Fulfils(<<Say("error"), Say("error")>>, r, r)
  <2>1. <<Say("error"), Say("error")>> = <<Say("error")>> \o <<Say("error")>>
    OBVIOUS
  <2> QED BY <1>2, <2>1, FulfilsOn
<1>4. \A call : Fulfils(OkAfter(FALSE, call), r, r)
  BY <1>2 DEF OkAfter
<1>5. ASSUME NEW call, NEW x, Fulfils(call, r, x)
      PROVE  /\ Fulfils(OkAfter(TRUE, call), r, x) /\ Fulfils(ValueOf(call), r, x)
             /\ Fulfils(<<Say("ok")>> \o call, r, x)
  <2>1. \A a : Fulfils(call \o <<Say(a)>>, r, x)
    BY <1>2, <1>5, FulfilsOn
  <2>2. Performs(<<Say("ok")>>, {x}, Soft(r), Soft(r)) /\ Fulfils(<<Say("ok")>>, r, r)
    BY <1>1, <1>2
  <2>3. Fulfils(<<Say("ok")>> \o call, r, x)
    BY <1>5, <2>2, FulfilsOn
  <2> QED BY <2>1, <2>3 DEF OkAfter, ValueOf
<1> QED BY <1>2, <1>3, <1>4, <1>5

\* A command that is carried out if its argument is valid.
LEMMA FulfilsCarriedOut ==
  ASSUME NEW r, NEW call, NEW x, Fulfils(call, r, x)
  PROVE  Fulfils(call \o <<Say("ok")>>, r, x)
<1>1. OkAfter(TRUE, call) = call \o <<Say("ok")>>
  BY DEF OkAfter
<1> QED BY <1>1, FulfilsAnswered

LEMMA FulfilsRefused == \A r : Fulfils(<<Say("error")>>, r, r)
BY FulfilsAnswered

\* The bits a command of vata is about.
LEMMA MaskUnchanged ==
  ASSUME NEW r, IsFile(r)
  PROVE  [r EXCEPT !["mask"] = @ \cup {}] = r /\ [r EXCEPT !["mask"] = @ \ {}] = r
<1>1. "mask" \in Registers
  BY DEF Registers
<1> QED BY <1>1 DEF IsFile

LEMMA FulfilsTriggerRequest ==
  ASSUME NEW r, IsFile(r), NEW x
  PROVE  /\ Fulfils(TriggerEnableBit(x), r, AfterVata("trigger-enable-bit", x, r))
         /\ Fulfils(TriggerDisableBit(x), r, AfterVata("trigger-disable-bit", x, r))
         /\ Fulfils(TriggerEnableAsic(x), r, AfterVata("trigger-enable-asic", x, r))
         /\ Fulfils(TriggerDisableAsic(x), r, AfterVata("trigger-disable-asic", x, r))
<1> DEFINE on(B) == [r EXCEPT !["mask"] = @ \cup B]
           off(B) == [r EXCEPT !["mask"] = @ \ B]
<1>1. /\ AfterVata("trigger-enable-bit", x, r) = on(IF x = All THEN Bits ELSE {x} \cap MaskBits)
      /\ AfterVata("trigger-disable-bit", x, r) = off(IF x = All THEN Bits ELSE {x} \cap MaskBits)
      /\ AfterVata("trigger-enable-asic", x, r) = on(IF x = All THEN Asics ELSE {x} \cap Asics)
      /\ AfterVata("trigger-disable-asic", x, r) = off(IF x = All THEN Asics ELSE {x} \cap Asics)
  BY DEF AfterVata, TriggerBits, Enabling
<1>2. on({}) = r /\ off({}) = r
  BY MaskUnchanged
<1>3. /\ Fulfils(trigger_enable_all, r, on(Bits)) /\ Fulfils(trigger_disable_all, r, off(Bits))
      /\ Fulfils(trigger_enable_all_local_asics, r, on(Asics))
      /\ Fulfils(trigger_disable_all_local_asics, r, off(Asics))
      /\ \A b \in Bits : Fulfils(trigger_enable(b), r, on({b})) /\ Fulfils(trigger_disable(b), r, off({b}))
  BY FulfilsTrigger, FulfilsLoops
<1>4. /\ {All, Junk, Absent} \cap Nat = {} /\ All # Junk /\ All # Absent /\ Junk # Absent
      /\ Asics \subseteq Bits /\ MaskBits \subseteq Bits /\ Asics \subseteq Nat /\ MaskBits \subseteq Nat
  BY BitsAre, LibraryAssumption DEF LibraryAssumption
<1> HIDE DEF on, off
<1>5. CASE x = All
  <2>1. /\ TriggerEnableBit(x) = OkAfter(TRUE, trigger_enable_all)
        /\ TriggerDisableBit(x) = OkAfter(TRUE, trigger_disable_all)
        /\ TriggerEnableAsic(x) = OkAfter(TRUE, trigger_enable_all_local_asics)
        /\ TriggerDisableAsic(x) = OkAfter(TRUE, trigger_disable_all_local_asics)
    BY <1>4, <1>5 DEF TriggerEnableBit, TriggerDisableBit, TriggerEnableAsic, TriggerDisableAsic
  <2> QED BY <1>1, <1>3, <1>5, <2>1, FulfilsAnswered
<1>6. CASE x = Absent
  <2>1. /\ TriggerEnableBit(x) = <<Crash>> /\ TriggerDisableBit(x) = <<Crash>>
        /\ TriggerEnableAsic(x) = <<Crash>> /\ TriggerDisableAsic(x) = <<Crash>>
    BY <1>4, <1>6 DEF TriggerEnableBit, TriggerDisableBit, TriggerEnableAsic, TriggerDisableAsic
  <2>2. x # All /\ {x} \cap MaskBits = {} /\ {x} \cap Asics = {}
    BY <1>4, <1>6
  <2> QED BY <1>1, <1>2, <2>1, <2>2, FulfilsAnswered
<1>7. CASE x \notin {All, Absent}
  <2>1. /\ TriggerEnableBit(x) = OkAfter(x \in MaskBits, trigger_enable(x))
        /\ TriggerDisableBit(x) = OkAfter(x \in MaskBits, trigger_disable(x))
    BY <1>7 DEF TriggerEnableBit, TriggerDisableBit
  <2>2. \/ x \in MaskBits /\ {x} \cap MaskBits = {x} /\ x \in Bits
        \/ x \notin MaskBits /\ {x} \cap MaskBits = {}
    BY <1>4
  <2>3. /\ Fulfils(TriggerEnableBit(x), r, on({x} \cap MaskBits))
        /\ Fulfils(TriggerDisableBit(x), r, off({x} \cap MaskBits))
    <3>1. CASE x \in MaskBits /\ {x} \cap MaskBits = {x} /\ x \in Bits
      BY <1>3, <2>1, <3>1, FulfilsCarriedOut DEF OkAfter
    <3>2. CASE x \notin MaskBits /\ {x} \cap MaskBits = {}
      BY <1>2, <2>1, <3>2, FulfilsAnswered DEF OkAfter
    <3> QED BY <2>2, <3>1, <3>2
  <2>4. /\ Fulfils(TriggerEnableAsic(x), r, on({x} \cap Asics))
        /\ Fulfils(TriggerDisableAsic(x), r, off({x} \cap Asics))
    <3>1. CASE x \in Asics
      <4>1. /\ TriggerEnableAsic(x) = OkAfter(x \in Asics, trigger_enable(x))
            /\ TriggerDisableAsic(x) = OkAfter(TRUE, trigger_disable(x))
            /\ {x} \cap Asics = {x} /\ x \in Bits
        BY <1>4, <1>7, <3>1 DEF TriggerEnableAsic, TriggerDisableAsic
      <4>2. /\ TriggerEnableAsic(x) = OkAfter(TRUE, trigger_enable(x))
            /\ OkAfter(TRUE, trigger_enable(x)) = trigger_enable(x) \o <<Say("ok")>>
            /\ OkAfter(TRUE, trigger_disable(x)) = trigger_disable(x) \o <<Say("ok")>>
        BY <3>1, <4>1 DEF OkAfter
      <4>3. /\ Fulfils(trigger_enable(x) \o <<Say("ok")>>, r, on({x}))
            /\ Fulfils(trigger_disable(x) \o <<Say("ok")>>, r, off({x}))
        <5>1. x \in Bits
          BY <4>1
        <5> QED BY <1>3, <5>1, FulfilsCarriedOut
      <4> QED BY <4>1, <4>2, <4>3
    <3>2. CASE x \notin Asics
      <4>1. /\ \/ TriggerEnableAsic(x) = OkAfter(x \in Asics, trigger_enable(x))
               \/ TriggerEnableAsic(x) = <<Say("error"), Say("error")>>
            /\ TriggerDisableAsic(x) = <<Say("error"), Say("error")>>
            /\ {x} \cap Asics = {}
        BY <1>4, <1>7, <3>2 DEF TriggerEnableAsic, TriggerDisableAsic
      <4>2. OkAfter(x \in Asics, trigger_enable(x)) = <<Say("error")>>
        BY <3>2 DEF OkAfter
      <4> QED BY <1>2, <4>1, <4>2, FulfilsAnswered
    <3> QED BY <3>1, <3>2
  <2> QED BY <1>1, <1>7, <2>3, <2>4
<1> QED BY <1>5, <1>6, <1>7

LEMMA FulfilsVata ==
  ASSUME NEW r, IsFile(r), NEW q, q.cmd \in VataCommands
  PROVE  Fulfils(VataSteps(q), r, AfterVata(q.cmd, q.arg, r))
<1> DEFINE on(B) == [r EXCEPT !["mask"] = @ \cup B]
           off(B) == [r EXCEPT !["mask"] = @ \ B]
           x == AfterVata(q.cmd, q.arg, r)
<1>1. on({}) = r /\ off({}) = r
  BY MaskUnchanged
<1>2. \A b \in {TmHit, TmAck, Forced} :
        Fulfils(trigger_enable(b), r, on({b})) /\ Fulfils(trigger_disable(b), r, off({b}))
  BY BitsAre, FulfilsTrigger
<1>3. CASE q.cmd \in Sources
  <2>1. VataSteps(q) = TriggerSource(q.cmd)
    BY <1>3 DEF VataSteps, Sources
  <2>2. /\ q.cmd = "trigger-enable-tm-hit" =>
             x = on({TmHit}) /\ TriggerSource(q.cmd) = OkAfter(TRUE, trigger_enable(TmHit))
        /\ q.cmd = "trigger-disable-tm-hit" =>
             x = off({TmHit}) /\ TriggerSource(q.cmd) = <<Say("ok")>> \o trigger_disable(TmHit)
        /\ q.cmd = "trigger-enable-tm-ack" =>
             x = on({TmAck}) /\ TriggerSource(q.cmd) = <<Say("ok")>> \o trigger_enable(TmAck)
        /\ q.cmd = "trigger-disable-tm-ack" =>
             x = off({TmAck}) /\ TriggerSource(q.cmd) = <<Say("ok")>> \o trigger_disable(TmAck)
        /\ q.cmd = "trigger-enable-forced" =>
             x = on({Forced}) /\ TriggerSource(q.cmd) = <<Say("ok")>> \o trigger_enable(Forced)
        /\ q.cmd = "trigger-disable-forced" =>
             x = off({Forced}) /\ TriggerSource(q.cmd) = <<Say("ok")>> \o trigger_disable(Forced)
    BY DEF AfterVata, TriggerBits, Enabling, TriggerSource
  <2> HIDE DEF on, off, x
  <2>3. Fulfils(TriggerSource(q.cmd), r, x)
    BY <1>2, <1>3, <2>2, FulfilsAnswered DEF Sources
  <2> QED BY <2>1, <2>3 DEF x
<1>4. CASE q.cmd \in {"trigger-enable-bit", "trigger-disable-bit", "trigger-enable-asic",
                      "trigger-disable-asic"}
  <2>1. /\ q.cmd = "trigger-enable-bit" => VataSteps(q) = TriggerEnableBit(q.arg)
        /\ q.cmd = "trigger-disable-bit" => VataSteps(q) = TriggerDisableBit(q.arg)
        /\ q.cmd = "trigger-enable-asic" => VataSteps(q) = TriggerEnableAsic(q.arg)
        /\ q.cmd = "trigger-disable-asic" => VataSteps(q) = TriggerDisableAsic(q.arg)
    BY DEF VataSteps, Sources
  <2> QED BY <1>4, <2>1, FulfilsTriggerRequest
<1>5. CASE q.cmd = "set-hold"
  <2>1. VataSteps(q) = IF q.arg \in Nat THEN set_hold_delay(q.arg) \o <<Say("ok")>>
                       ELSE <<Say("error")>>
    BY <1>5 DEF VataSteps, Sources, OkAfter
  <2>2. q.arg \in Nat => x = [r EXCEPT !["hold"] = q.arg]
    BY <1>5 DEF AfterVata, Enabling
  <2>3. q.arg \notin Nat => x = off({})
    BY <1>5 DEF AfterVata, Enabling, TriggerBits
  <2>4. Fulfils(set_hold_delay(q.arg), r, [r EXCEPT !["hold"] = q.arg])
    BY FulfilsWrites
  <2> HIDE DEF x, off
  <2>5. CASE q.arg \in Nat
    <3>1. Fulfils(set_hold_delay(q.arg), r, x)
      BY <2>2, <2>4, <2>5
    <3>2. Fulfils(set_hold_delay(q.arg) \o <<Say("ok")>>, r, x)
      BY <3>1, FulfilsCarriedOut
    <3> QED BY <2>1, <2>5, <3>2 DEF x
  <2>6. CASE q.arg \notin Nat
    <3>1. Fulfils(<<Say("error")>>, r, x)
      BY <1>1, <2>3, <2>6, FulfilsRefused
    <3> QED BY <2>1, <2>6, <3>1 DEF x
  <2> QED BY <2>5, <2>6
<1>6. CASE q.cmd \in {"get-trigger-ena-mask", "get-hold", "get-counters", "reset-counters",
                      "get-event-count", "reset-event-count", "fsm-idle", "set-config", "get-config",
                      "clear-fifo", "get-n-fifo", "get-config-binary"}
  <2>1. x = off({})
    BY <1>6 DEF AfterVata, Enabling, TriggerBits
  <2>2. \/ VataSteps(q) \in {ValueOf(get_trigger_ena_mask), ValueOf(get_hold_delay),
                             ValueOf(get_counters), ValueOf(get_event_count), ValueOf(<<>>)}
        \/ VataSteps(q) \in {OkAfter(TRUE, reset_counters), OkAfter(TRUE, reset_event_count),
                             OkAfter(TRUE, force_fsm_to_idle), OkAfter(TRUE, <<>>)}
        \/ VataSteps(q) = <<>> \o <<Say("ok")>>
        \/ VataSteps(q) = <<Say("error")>>
    <3>1. CASE q.cmd \in {"set-config", "get-config"}
      BY <3>1 DEF VataSteps, Sources, OkAfter
    <3>2. CASE q.cmd \in {"get-trigger-ena-mask", "get-hold", "get-counters", "get-event-count",
                          "get-n-fifo", "get-config-binary"}
      <4>1. VataSteps(q) = CASE q.cmd = "get-trigger-ena-mask" -> ValueOf(get_trigger_ena_mask)
                             [] q.cmd = "get-hold" -> ValueOf(get_hold_delay)
                             [] q.cmd = "get-counters" -> ValueOf(get_counters)
                             [] q.cmd = "get-event-count" -> ValueOf(get_event_count)
                             [] q.cmd \in {"get-n-fifo", "get-config-binary"} -> ValueOf(<<>>)
        BY <3>2 DEF VataSteps, Sources
      <4> QED BY <3>2, <4>1
    <3>3. CASE q.cmd \in {"reset-counters", "reset-event-count", "fsm-idle", "clear-fifo"}
      <4>1. VataSteps(q) = CASE q.cmd = "reset-counters" -> OkAfter(TRUE, reset_counters)
                             [] q.cmd = "reset-event-count" -> OkAfter(TRUE, reset_event_count)
                             [] q.cmd = "fsm-idle" -> OkAfter(TRUE, force_fsm_to_idle)
                             [] q.cmd = "clear-fifo" -> OkAfter(TRUE, <<>>)
        BY <3>3 DEF VataSteps, Sources
      <4> QED BY <3>3, <4>1
    <3> QED BY <1>6, <3>1, <3>2, <3>3
  <2>3. Fulfils(<<>> \o <<Say("ok")>>, r, r) /\ Fulfils(<<Say("error")>>, r, r)
    BY FulfilsReads, FulfilsCarriedOut, FulfilsRefused
  <2> HIDE DEF x, off
  <2>4. Fulfils(VataSteps(q), r, r)
    BY <2>2, <2>3, FulfilsReads, FulfilsAnswered
  <2> QED BY <1>1, <2>1, <2>4 DEF x
<1> QED BY <1>3, <1>4, <1>5, <1>6 DEF VataCommands

LEMMA FulfilsDac ==
  ASSUME NEW r, IsFile(r), NEW q, q.cmd \in DacCommands
  PROVE  Fulfils(DacSteps(q), r, AfterDac(q.cmd, q.arg, r))
<1>1. CASE q.cmd = "set-delay"
  <2>1. DacSteps(q) = IF q.arg \in 0 .. MaxDelay THEN set_delay(q.arg) \o <<Say("ok")>>
                      ELSE <<Say("error")>>
    BY <1>1 DEF DacSteps, OkAfter
  <2>2. AfterDac(q.cmd, q.arg, r) = IF q.arg \in 0 .. MaxDelay THEN [r EXCEPT !["dac-delay"] = q.arg] ELSE r
    BY <1>1 DEF AfterDac
  <2>3. Fulfils(set_delay(q.arg) \o <<Say("ok")>>, r, [r EXCEPT !["dac-delay"] = q.arg])
    BY FulfilsWrites, FulfilsCarriedOut
  <2>4. Fulfils(<<Say("error")>>, r, r)
    BY FulfilsRefused
  <2> QED BY <2>1, <2>2, <2>3, <2>4
<1>2. CASE q.cmd = "set-counts"
  <2> DEFINE d == q.arg[1]
             n == q.arg[2]
             x == [r EXCEPT !["dacs"][d] = n, !["dac-select"] = d, !["dac-input"] = n, !["dac-write"] = 0]
             call == set_counts(d, n) \o <<Say("ok")>>
             refusal == <<Say("error")>>
  <2>1. DacSteps(q) = IF q.arg \in Dacs \X (0 .. MaxInput) THEN call ELSE refusal
    BY <1>2 DEF DacSteps, OkAfter
  <2>2. AfterDac(q.cmd, q.arg, r) = IF q.arg \in Dacs \X (0 .. MaxInput) THEN x ELSE r
    BY <1>2 DEF AfterDac
  <2>3. Fulfils(call, r, x) /\ Fulfils(refusal, r, r)
    <3>1. Fulfils(set_counts(d, n), r, x)
      BY FulfilsCounts
    <3> HIDE DEF x, d, n
    <3> QED BY <3>1, FulfilsCarriedOut, FulfilsRefused
  <2> HIDE DEF x, call, refusal
  <2> QED BY <2>1, <2>2, <2>3
<1>3. CASE q.cmd \in {"get-delay", "get-input"}
  <2>1. DacSteps(q) = ValueOf(get_delay) \/ DacSteps(q) = ValueOf(get_input)
    BY <1>3 DEF DacSteps
  <2>2. AfterDac(q.cmd, q.arg, r) = r
    BY <1>3 DEF AfterDac
  <2> QED BY <2>1, <2>2, FulfilsReads, FulfilsAnswered
<1> QED BY <1>1, <1>2, <1>3 DEF DacCommands

LEMMA FulfilsSync ==
  ASSUME NEW r, IsFile(r), NEW q, q.cmd \in SyncCommands
  PROVE  Fulfils(SyncSteps(q), r, AfterSync(q.cmd, q.arg, r))
<1>1. CASE q.cmd \in {"asic-hit-enable", "asic-hit-disable"}
  <2> DEFINE a == q.arg
             off == [r EXCEPT !["disable-hits"] = @ \ ({a} \cap Asics)]
             on == [r EXCEPT !["disable-hits"] = @ \cup ({a} \cap Asics)]
  <2>1. /\ q.cmd = "asic-hit-enable" =>
             /\ SyncSteps(q) = IF a \in Asics THEN asic_hit_enable(a) \o <<Say("ok")>>
                               ELSE <<Say("error")>>
             /\ AfterSync(q.cmd, q.arg, r) = off
        /\ q.cmd = "asic-hit-disable" =>
             /\ SyncSteps(q) = IF a \in Asics THEN asic_hit_disable(a) \o <<Say("ok")>>
                               ELSE <<Say("error")>>
             /\ AfterSync(q.cmd, q.arg, r) = on
    BY DEF SyncSteps, AfterSync, OkAfter
  <2>2. "disable-hits" \in Registers
    BY DEF Registers
  <2>3. CASE a \in Asics
    <3>1. {a} \cap Asics = {a}
      BY <2>3
    <3>2. /\ Fulfils(asic_hit_enable(a), r, [r EXCEPT !["disable-hits"] = @ \ {a}])
          /\ Fulfils(asic_hit_disable(a), r, [r EXCEPT !["disable-hits"] = @ \cup {a}])
      BY <2>3, FulfilsWrites
    <3>3. Fulfils(asic_hit_enable(a), r, off) /\ Fulfils(asic_hit_disable(a), r, on)
      BY <3>1, <3>2
    <3> HIDE DEF off, on
    <3>4. /\ Fulfils(asic_hit_enable(a) \o <<Say("ok")>>, r, off)
          /\ Fulfils(asic_hit_disable(a) \o <<Say("ok")>>, r, on)
      BY <3>3, FulfilsCarriedOut
    <3> QED BY <1>1, <2>1, <2>3, <3>4
  <2>4. CASE a \notin Asics
    <3>1. {a} \cap Asics = {}
      BY <2>4
    <3>2. /\ [r EXCEPT !["disable-hits"] = @ \ {}] = r
          /\ [r EXCEPT !["disable-hits"] = @ \cup {}] = r
      BY <2>2 DEF IsFile
    <3>3. off = r /\ on = r
      BY <3>1, <3>2
    <3> HIDE DEF off, on
    <3>4. Fulfils(<<Say("error")>>, r, r)
      BY FulfilsRefused
    <3> QED BY <1>1, <2>1, <2>4, <3>3, <3>4
  <2> QED BY <2>3, <2>4
<1>2. CASE q.cmd \in {"global-hit-enable", "global-hit-disable"}
  <2>1. /\ q.cmd = "global-hit-enable" =>
             /\ SyncSteps(q) = OkAfter(TRUE, global_hit_enable)
             /\ AfterSync(q.cmd, q.arg, r) = [r EXCEPT !["global-enable"] = 1]
        /\ q.cmd = "global-hit-disable" =>
             /\ SyncSteps(q) = OkAfter(TRUE, global_hit_disable)
             /\ AfterSync(q.cmd, q.arg, r) = [r EXCEPT !["global-enable"] = 0]
    BY DEF SyncSteps, AfterSync
  <2>2. /\ Fulfils(global_hit_enable, r, [r EXCEPT !["global-enable"] = 1])
        /\ Fulfils(global_hit_disable, r, [r EXCEPT !["global-enable"] = 0])
    BY FulfilsWrites
  <2>3. /\ Fulfils(OkAfter(TRUE, global_hit_enable), r, [r EXCEPT !["global-enable"] = 1])
        /\ Fulfils(OkAfter(TRUE, global_hit_disable), r, [r EXCEPT !["global-enable"] = 0])
    BY <2>2, FulfilsAnswered
  <2> QED BY <1>2, <2>1, <2>3
<1>3. CASE q.cmd \in {"counter-reset", "get-counter", "force-trigger", "get-global-hit-ena",
                      "get-asic-hit-disable-mask"}
  <2>1. AfterSync(q.cmd, q.arg, r) = r
    BY <1>3 DEF AfterSync
  <2>2. SyncSteps(q) \in {OkAfter(TRUE, counter_reset), OkAfter(TRUE, force_trigger),
                          ValueOf(get_counter), ValueOf(is_global_hit_enabled),
                          ValueOf(get_asic_hit_disable_mask)}
    BY <1>3 DEF SyncSteps
  <2> QED BY <2>1, <2>2, FulfilsReads, FulfilsAnswered
<1> QED BY <1>1, <1>2, <1>3 DEF SyncCommands

LEMMA FulfilsCal ==
  ASSUME NEW r, IsFile(r), NEW q, q.cmd \in CalCommands, NEW f
  PROVE  Fulfils(CalSteps(q, f), r, AfterCal(q.cmd, q.arg, f, r))
<1> DEFINE h == Holds(f, r)
           run(n, i) == [h EXCEPT !["n-pulses"] = n, !["cal-init"] = i]
<1>1. HasSettings(h, f) /\ Soft(h) = Holds(f, Soft(r))
  BY SoftHolds DEF IsFile
<1>2. ASSUME NEW n, NEW i
      PROVE  /\ HasSettings(run(n, i), f)
             /\ run(n, i)["n-pulses"] = n /\ run(n, i)["cal-init"] = i
             /\ Soft(run(n, i)) = [Holds(f, Soft(r)) EXCEPT !["n-pulses"] = n, !["cal-init"] = i]
  <2> DEFINE p == [h EXCEPT !["n-pulses"] = n, !["cal-init"] = i]
  <2>1. /\ {"cal-enable", "pulse-width", "trigger-delay", "repeat-delay", "n-pulses", "cal-init"}
             \subseteq Ours
        /\ Ours \subseteq Registers
    BY OursAre DEF Registers
  <2>2. h = [x \in Registers |-> h[x]]
    BY SoftHolds DEF IsFile
  <2> HIDE DEF h
  <2>3. HasSettings(p, f) /\ p["n-pulses"] = n /\ p["cal-init"] = i
    BY <1>1, <2>1, <2>2 DEF HasSettings
  <2>4. Soft(p) = [Soft(h) EXCEPT !["n-pulses"] = n, !["cal-init"] = i]
    BY <2>1, <2>2 DEF Soft
  <2> QED BY <1>1, <2>3, <2>4
<1>3. Fulfils(<<Say("error")>>, r, r)
  BY FulfilsRefused
<1>4. CASE q.cmd \in Settings
  <2>1. CalSteps(q, f) = IF Admissible(q.cmd, q.arg) THEN write_settings(f) \o <<Say("ok")>>
                         ELSE <<Say("error")>>
    BY <1>4 DEF CalSteps, Settings, Flags, OkAfter
  <2>2. AfterCal(q.cmd, q.arg, f, r) = IF Admissible(q.cmd, q.arg) THEN h ELSE r
    BY <1>4 DEF AfterCal, Admissible, Settings, Flags
  <2> HIDE DEF h
  <2>3. Fulfils(write_settings(f), r, h)
    BY <1>1, PerformsSettings DEF Fulfils
  <2>4. Fulfils(write_settings(f) \o <<Say("ok")>>, r, h)
    BY <2>3, FulfilsCarriedOut
  <2> QED BY <1>3, <2>1, <2>2, <2>4
<1>5. CASE q.cmd = "start-inf"
  <2>1. /\ CalSteps(q, f) = start_inf_pulses(f) \o <<Say("ok")>>
        /\ AfterCal(q.cmd, q.arg, f, r) = run(0, 1)
    BY <1>5 DEF CalSteps, AfterCal, Settings, Flags, OkAfter
  <2>2. /\ HasSettings(run(0, 1), f) /\ run(0, 1)["n-pulses"] = 0 /\ run(0, 1)["cal-init"] = 1
        /\ Soft(run(0, 1)) = [Holds(f, Soft(r)) EXCEPT !["n-pulses"] = 0, !["cal-init"] = 1]
    BY <1>2
  <2> DEFINE y == run(0, 1)
  <2> HIDE DEF y
  <2>3. HasSettings(y, f) /\ y["n-pulses"] = 0 /\ y["cal-init"] = 1
        /\ Soft(y) = [Holds(f, Soft(r)) EXCEPT !["n-pulses"] = 0, !["cal-init"] = 1]
    BY <2>2 DEF y
  <2>4. Performs(start_inf_pulses(f), {y}, Soft(r),
                 [Holds(f, Soft(r)) EXCEPT !["n-pulses"] = 0, !["cal-init"] = 1])
    BY <2>3, PerformsPulses
  <2>5. Fulfils(start_inf_pulses(f) \o <<Say("ok")>>, r, y)
    BY <2>3, <2>4, FulfilsCarriedOut DEF Fulfils
  <2> QED BY <2>1, <2>5 DEF y
<1>6. CASE q.cmd = "stop-inf"
  <2>1. /\ CalSteps(q, f) = OkAfter(TRUE, stop_inf_pulses)
        /\ AfterCal(q.cmd, q.arg, f, r) = [r EXCEPT !["cal-init"] = 0]
    BY <1>6 DEF CalSteps, AfterCal, Settings, Flags
  <2>2. Fulfils(stop_inf_pulses, r, [r EXCEPT !["cal-init"] = 0])
    BY FulfilsWrites
  <2>3. Fulfils(OkAfter(TRUE, stop_inf_pulses), r, [r EXCEPT !["cal-init"] = 0])
    BY <2>2, FulfilsAnswered
  <2> QED BY <2>1, <2>3
<1>7. CASE q.cmd = "n-pulses"
  <2> DEFINE n == q.arg
             y == run(n, 0)
  <2>1. /\ CalSteps(q, f) = IF n \in Nat \ {0} THEN n_pulses(f, n) \o <<Say("ok")>>
                            ELSE <<Say("error")>>
        /\ AfterCal(q.cmd, n, f, r) = IF n \in Nat \ {0} THEN y ELSE r
    BY <1>7 DEF CalSteps, AfterCal, Settings, Flags, OkAfter
  <2>2. /\ HasSettings(y, f) /\ y["n-pulses"] = n /\ y["cal-init"] = 0
        /\ Soft(y) = [Holds(f, Soft(r)) EXCEPT !["n-pulses"] = n, !["cal-init"] = 0]
    BY <1>2
  <2> HIDE DEF y, n
  <2>3. Performs(n_pulses(f, n), {y}, Soft(r),
                 [Holds(f, Soft(r)) EXCEPT !["n-pulses"] = n, !["cal-init"] = 0])
    BY <2>2, PerformsPulses
  <2>4. Fulfils(n_pulses(f, n) \o <<Say("ok")>>, r, y)
    BY <2>2, <2>3, FulfilsCarriedOut DEF Fulfils
  <2> QED BY <1>3, <2>1, <2>4 DEF n
<1> QED BY <1>4, <1>5, <1>6, <1>7 DEF CalCommands

\* What a request does to the registers, on its own, is what it promises; what
\* it writes on the way is no more than that.
LEMMA RequestFulfils ==
  ASSUME NEW r, IsFile(r), NEW q, IsRequest(q), NEW f
  PROVE  Fulfils(Steps(q, f), r, AfterRequest(q, f, r))
<1>1. CASE q.group = "vata" /\ q.cmd # Absent
  <2>1. /\ q.cmd \in VataCommands /\ Steps(q, f) = VataSteps(q)
        /\ AfterRequest(q, f, r) = AfterVata(q.cmd, q.arg, r)
    BY <1>1 DEF IsRequest, Steps, AfterRequest
  <2> QED BY <2>1, FulfilsVata
<1>2. CASE q.group = "cal" /\ q.cmd # Absent
  <2>1. /\ q.cmd \in CalCommands /\ Steps(q, f) = CalSteps(q, f)
        /\ AfterRequest(q, f, r) = AfterCal(q.cmd, q.arg, f, r)
    BY <1>2 DEF IsRequest, Steps, AfterRequest
  <2> QED BY <2>1, FulfilsCal
<1>3. CASE q.group = "dac" /\ q.cmd # Absent
  <2>1. /\ q.cmd \in DacCommands /\ Steps(q, f) = DacSteps(q)
        /\ AfterRequest(q, f, r) = AfterDac(q.cmd, q.arg, r)
    BY <1>3 DEF IsRequest, Steps, AfterRequest
  <2> QED BY <2>1, FulfilsDac
<1>4. CASE q.group = "sync" /\ q.cmd # Absent
  <2>1. /\ q.cmd \in SyncCommands /\ Steps(q, f) = SyncSteps(q)
        /\ AfterRequest(q, f, r) = AfterSync(q.cmd, q.arg, r)
    BY <1>4 DEF IsRequest, Steps, AfterRequest
  <2> QED BY <2>1, FulfilsSync
<1>5. CASE q.group \notin {"vata", "cal", "dac", "sync"} \/ q.cmd = Absent
  <2>1. Steps(q, f) \in {ValueOf(<<>>), <<Say("error")>>, <<Crash>>} /\ AfterRequest(q, f, r) = r
    BY <1>5 DEF Steps, AfterRequest
  <2> QED BY <2>1, FulfilsReads, FulfilsAnswered
<1> QED BY <1>1, <1>2, <1>3, <1>4, <1>5

-----------------------------------------------------------------------------
(* The tools keep the contract.                                            *)

\* Of vatactrl's options, those about one bit or all of a kind.
LEMMA FulfilsBitOption ==
  ASSUME NEW r, IsFile(r), NEW o, VataUsable(o),
         o.name \in VataOptions.bits \cup VataOptions.asics
  PROVE  Fulfils(VataCall(o), r, AfterVata(o.name, o.arg, r))
<1> DEFINE on(B) == [r EXCEPT !["mask"] = @ \cup B]
           off(B) == [r EXCEPT !["mask"] = @ \ B]
           x == AfterVata(o.name, o.arg, r)
           n == o.name
           a == o.arg
<1>1. /\ Fulfils(trigger_enable_all, r, on(Bits)) /\ Fulfils(trigger_disable_all, r, off(Bits))
      /\ Fulfils(trigger_enable_all_local_asics, r, on(Asics))
      /\ Fulfils(trigger_disable_all_local_asics, r, off(Asics))
      /\ \A b \in Bits : Fulfils(trigger_enable(b), r, on({b})) /\ Fulfils(trigger_disable(b), r, off({b}))
  BY FulfilsTrigger, FulfilsLoops
<1>2. /\ All \notin MaskBits /\ All \notin Asics /\ Asics \subseteq Bits /\ MaskBits \subseteq Bits
  BY BitsAre, LibraryAssumption DEF LibraryAssumption
<1>3. /\ n \in {"trigger-enable-bit", "trigger-disable-bit"} => a = All \/ a \in MaskBits
      /\ n \in {"trigger-enable-asic", "trigger-disable-asic"} => a = All \/ a \in Asics
      /\ n \in {"trigger-enable-bit", "trigger-disable-bit", "trigger-enable-asic", "trigger-disable-asic"}
  BY DEF VataUsable, VataOptions
<1>4. CASE a = All
  <2>1. /\ n = "trigger-enable-bit" => x = on(Bits)
        /\ n = "trigger-disable-bit" => x = off(Bits)
        /\ n = "trigger-enable-asic" => x = on(Asics)
        /\ n = "trigger-disable-asic" => x = off(Asics)
    BY <1>4 DEF AfterVata, TriggerBits, Enabling
  <2>2. /\ n = "trigger-enable-bit" => VataCall(o) = trigger_enable_all
        /\ n = "trigger-disable-bit" => VataCall(o) = trigger_disable_all
    BY <1>4 DEF VataCall
  <2>3. /\ n = "trigger-enable-asic" => VataCall(o) = trigger_enable_all_local_asics
        /\ n = "trigger-disable-asic" => VataCall(o) = trigger_disable_all_local_asics
    BY <1>4 DEF VataCall
  <2> HIDE DEF x, on, off
  <2> QED BY <1>1, <1>3, <2>1, <2>2, <2>3 DEF x
<1>5. CASE a # All
  <2>1. /\ n \in {"trigger-enable-bit", "trigger-disable-bit"} => {a} \cap MaskBits = {a}
        /\ n \in {"trigger-enable-asic", "trigger-disable-asic"} => {a} \cap Asics = {a}
        /\ a \in Bits
    BY <1>2, <1>3, <1>5
  <2>2. /\ n = "trigger-enable-bit" => VataCall(o) = trigger_enable(a) /\ x = on({a} \cap MaskBits)
        /\ n = "trigger-disable-bit" => VataCall(o) = trigger_disable(a) /\ x = off({a} \cap MaskBits)
        /\ n = "trigger-enable-asic" => VataCall(o) = trigger_enable(a) /\ x = on({a} \cap Asics)
        /\ n = "trigger-disable-asic" => VataCall(o) = trigger_disable(a) /\ x = off({a} \cap Asics)
    BY <1>5 DEF VataCall, AfterVata, TriggerBits, Enabling
  <2> HIDE DEF x, on, off
  <2> QED BY <1>1, <1>3, <2>1, <2>2 DEF x
<1> QED BY <1>4, <1>5

LEMMA FulfilsVataOption ==
  ASSUME NEW r, IsFile(r), NEW o, VataUsable(o)
  PROVE  Fulfils(VataCall(o), r, AfterVata(o.name, o.arg, r))
<1> DEFINE on(B) == [r EXCEPT !["mask"] = @ \cup B]
           off(B) == [r EXCEPT !["mask"] = @ \ B]
           x == AfterVata(o.name, o.arg, r)
           n == o.name
<1>1. on({}) = r /\ off({}) = r
  BY MaskUnchanged
<1>2. \A b \in {TmHit, TmAck, Forced} :
        Fulfils(trigger_enable(b), r, on({b})) /\ Fulfils(trigger_disable(b), r, off({b}))
  BY BitsAre, FulfilsTrigger
<1>3. CASE n \in VataOptions.bits \cup VataOptions.asics
  BY <1>3, FulfilsBitOption
<1>4. CASE n \in Sources
  <2>1. /\ n = "trigger-enable-tm-hit" => VataCall(o) = trigger_enable(TmHit) /\ x = on({TmHit})
        /\ n = "trigger-disable-tm-hit" => VataCall(o) = trigger_disable(TmHit) /\ x = off({TmHit})
        /\ n = "trigger-enable-tm-ack" => VataCall(o) = trigger_enable(TmAck) /\ x = on({TmAck})
        /\ n = "trigger-disable-tm-ack" => VataCall(o) = trigger_disable(TmAck) /\ x = off({TmAck})
        /\ n = "trigger-enable-forced" => VataCall(o) = trigger_enable(Forced) /\ x = on({Forced})
        /\ n = "trigger-disable-forced" => VataCall(o) = trigger_disable(Forced) /\ x = off({Forced})
    BY DEF VataCall, AfterVata, TriggerBits, Enabling
  <2> HIDE DEF x, on, off
  <2> QED BY <1>2, <1>4, <2>1 DEF x, Sources
<1>5. CASE n \in VataOptions.values /\ o.arg \in Nat
  <2>1. /\ n = "set-hold" =>
             VataCall(o) = set_hold_delay(o.arg) /\ x = [r EXCEPT !["hold"] = o.arg]
        /\ n = "set-ack-timeout" =>
             VataCall(o) = set_trigger_ack_timeout(o.arg) /\ x = [r EXCEPT !["ack-timeout"] = o.arg]
    BY <1>5 DEF VataCall, AfterVata, Enabling
  <2>2. n \in {"set-hold", "set-ack-timeout"}
    BY <1>5 DEF VataOptions
  <2>3. /\ Fulfils(set_hold_delay(o.arg), r, [r EXCEPT !["hold"] = o.arg])
        /\ Fulfils(set_trigger_ack_timeout(o.arg), r, [r EXCEPT !["ack-timeout"] = o.arg])
    BY FulfilsWrites
  <2> HIDE DEF x
  <2> QED BY <2>1, <2>2, <2>3 DEF x
<1>6. CASE n \in {"get-hold", "get-counters", "reset-counters", "get-trigger-ena-mask",
                  "get-ack-timeout", "get-event-count", "reset-event-count", "force-fsm-idle"}
  <2>1. x = off({})
    BY <1>6 DEF AfterVata, Enabling, TriggerBits
  <2>2. VataCall(o) = CASE n = "get-hold" -> get_hold_delay
                        [] n = "get-counters" -> get_counters
                        [] n = "reset-counters" -> reset_counters
                        [] n = "get-trigger-ena-mask" -> get_trigger_ena_mask
                        [] n = "get-ack-timeout" -> get_trigger_ack_timeout
                        [] n = "get-event-count" -> get_event_count
                        [] n = "reset-event-count" -> reset_event_count
                        [] n = "force-fsm-idle" -> force_fsm_to_idle
    BY <1>6 DEF VataCall
  <2> HIDE DEF x, off
  <2>3. Fulfils(VataCall(o), r, r)
    BY <1>6, <2>2, FulfilsReads
  <2> QED BY <1>1, <2>1, <2>3 DEF x
<1> QED BY <1>3, <1>4, <1>5, <1>6 DEF VataUsable, VataOptions, Sources

\* An option that can be used.
LEMMA FulfilsOption ==
  ASSUME NEW r, IsFile(r), NEW tool \in {"vatactrl", "syncctrl", "dacctrl"}, NEW o,
         OptionUsable(tool, o)
  PROVE  Fulfils(OptionCall(tool, o), r, AfterOption(tool, o, r))
<1>1. CASE tool = "vatactrl"
  <2>1. /\ VataUsable(o) /\ OptionCall(tool, o) = VataCall(o)
        /\ AfterOption(tool, o, r) = AfterVata(o.name, o.arg, r)
    BY <1>1 DEF OptionUsable, OptionCall, AfterOption
  <2> QED BY <2>1, FulfilsVataOption
<1>2. CASE tool = "syncctrl"
  <2> DEFINE a == o.arg
             n == o.name
  <2>1. /\ SyncUsable(o) /\ OptionCall(tool, o) = SyncCall(o)
        /\ AfterOption(tool, o, r) = AfterSync(n, a, r)
    BY <1>2 DEF OptionUsable, OptionCall, AfterOption
  <2>2. CASE n \in {"asic-hit-disable", "asic-hit-enable"} /\ a \in Asics
    <3>1. {a} \cap Asics = {a}
      BY <2>2
    <3>2. /\ n = "asic-hit-disable" =>
               /\ SyncCall(o) = asic_hit_disable(a)
               /\ AfterSync(n, a, r) = [r EXCEPT !["disable-hits"] = @ \cup ({a} \cap Asics)]
          /\ n = "asic-hit-enable" =>
               /\ SyncCall(o) = asic_hit_enable(a)
               /\ AfterSync(n, a, r) = [r EXCEPT !["disable-hits"] = @ \ ({a} \cap Asics)]
      BY DEF SyncCall, AfterSync
    <3>3. /\ Fulfils(asic_hit_disable(a), r, [r EXCEPT !["disable-hits"] = @ \cup {a}])
          /\ Fulfils(asic_hit_enable(a), r, [r EXCEPT !["disable-hits"] = @ \ {a}])
      BY <2>2, FulfilsWrites
    <3> QED BY <2>1, <2>2, <3>1, <3>2, <3>3
  <2>3. CASE n \in {"global-hit-enable", "global-hit-disable"}
    <3>1. /\ n = "global-hit-enable" =>
               SyncCall(o) = global_hit_enable /\ AfterSync(n, a, r) = [r EXCEPT !["global-enable"] = 1]
          /\ n = "global-hit-disable" =>
               SyncCall(o) = global_hit_disable /\ AfterSync(n, a, r) = [r EXCEPT !["global-enable"] = 0]
      BY DEF SyncCall, AfterSync
    <3>2. /\ Fulfils(global_hit_enable, r, [r EXCEPT !["global-enable"] = 1])
          /\ Fulfils(global_hit_disable, r, [r EXCEPT !["global-enable"] = 0])
      BY FulfilsWrites
    <3> QED BY <2>1, <2>3, <3>1, <3>2
  <2>4. CASE n \in {"counter-reset", "get-counter", "force-trigger", "get-global-hit-enable",
                    "asic-hit-disable-mask"}
    <3>1. AfterSync(n, a, r) = r
      BY <2>4 DEF AfterSync
    <3>2. SyncCall(o) = CASE n = "counter-reset" -> counter_reset
                          [] n = "get-counter" -> get_counter
                          [] n = "force-trigger" -> force_trigger
                          [] n = "get-global-hit-enable" -> is_global_hit_enabled
                          [] n = "asic-hit-disable-mask" -> get_asic_hit_disable_mask
      BY <2>4 DEF SyncCall
    <3> QED BY <2>1, <2>4, <3>1, <3>2, FulfilsReads
  <2> QED BY <2>1, <2>2, <2>3, <2>4 DEF SyncUsable
<1>3. CASE tool = "dacctrl"
  <2> DEFINE a == o.arg
             n == o.name
  <2>1. /\ DacUsable(o) /\ OptionCall(tool, o) = DacCall(o)
        /\ AfterOption(tool, o, r) = AfterDac(n, a, r)
    BY <1>3 DEF OptionUsable, OptionCall, AfterOption
  <2>2. CASE n = "set-delay" /\ a \in 0 .. MaxDelay
    <3>1. DacCall(o) = set_delay(a) /\ AfterDac(n, a, r) = [r EXCEPT !["dac-delay"] = a]
      BY <2>2 DEF DacCall, AfterDac
    <3>2. Fulfils(set_delay(a), r, [r EXCEPT !["dac-delay"] = a])
      BY FulfilsWrites
    <3> QED BY <2>1, <3>1, <3>2
  <2>3. CASE n = "set-counts" /\ a \in Dacs \X (0 .. MaxInput)
    <3> DEFINE x == [r EXCEPT !["dacs"][a[1]] = a[2], !["dac-select"] = a[1],
                              !["dac-input"] = a[2], !["dac-write"] = 0]
    <3>1. DacCall(o) = set_counts(a[1], a[2]) /\ AfterDac(n, a, r) = x
      BY <2>3 DEF DacCall, AfterDac
    <3>2. Fulfils(set_counts(a[1], a[2]), r, x)
      BY FulfilsCounts
    <3> HIDE DEF x
    <3> QED BY <2>1, <3>1, <3>2
  <2>4. CASE n \in {"get-delay", "get-input"}
    <3>1. AfterDac(n, a, r) = r /\ (DacCall(o) = get_delay \/ DacCall(o) = get_input)
      BY <2>4 DEF DacCall, AfterDac
    <3> QED BY <2>1, <3>1, FulfilsReads
  <2> QED BY <2>1, <2>2, <2>3, <2>4 DEF DacUsable
<1> QED BY <1>1, <1>2, <1>3

\* It leaves a register file.
LEMMA OptionLeavesFile ==
  ASSUME NEW r, IsFile(r), NEW tool \in {"vatactrl", "syncctrl", "dacctrl"}, NEW o
  PROVE  IsFile(AfterOption(tool, o, r))
<1>1. "mask" \in Registers
  BY DEF Registers
<1>2. \A cmd, arg : IsFile(AfterVata(cmd, arg, r))
  <2> SUFFICES ASSUME NEW cmd, NEW arg PROVE IsFile(AfterVata(cmd, arg, r))
    OBVIOUS
  <2>1. TriggerBits(cmd, arg) \subseteq Bits
    BY BitsAre DEF TriggerBits
  <2>2. \/ AfterVata(cmd, arg, r) = [r EXCEPT !["mask"] = @ \cup TriggerBits(cmd, arg)]
        \/ AfterVata(cmd, arg, r) = [r EXCEPT !["mask"] = @ \ TriggerBits(cmd, arg)]
        \/ AfterVata(cmd, arg, r) = [r EXCEPT !["hold"] = arg]
        \/ AfterVata(cmd, arg, r) = [r EXCEPT !["ack-timeout"] = arg]
    BY DEF AfterVata
  <2> QED BY <1>1, <2>1, <2>2 DEF IsFile
<1>3. \A cmd, arg : IsFile(AfterSync(cmd, arg, r))
  <2> SUFFICES ASSUME NEW cmd, NEW arg PROVE IsFile(AfterSync(cmd, arg, r))
    OBVIOUS
  <2>1. \/ \E v : AfterSync(cmd, arg, r) = [r EXCEPT !["disable-hits"] = v]
        \/ \E v : AfterSync(cmd, arg, r) = [r EXCEPT !["global-enable"] = v]
        \/ AfterSync(cmd, arg, r) = r
    BY DEF AfterSync
  <2> QED BY <1>1, <2>1 DEF IsFile
<1>4. \A cmd, arg : IsFile(AfterDac(cmd, arg, r))
  <2> SUFFICES ASSUME NEW cmd, NEW arg PROVE IsFile(AfterDac(cmd, arg, r))
    OBVIOUS
  <2>1. \/ AfterDac(cmd, arg, r) = [r EXCEPT !["dac-delay"] = arg]
        \/ AfterDac(cmd, arg, r) =
             [r EXCEPT !["dacs"][arg[1]] = arg[2], !["dac-select"] = arg[1], !["dac-input"] = arg[2],
                       !["dac-write"] = 0]
        \/ AfterDac(cmd, arg, r) = r
    BY DEF AfterDac
  <2> QED BY <1>1, <2>1 DEF IsFile
<1> QED BY <1>2, <1>3, <1>4 DEF AfterOption

\* A run of a tool that is not calctrl: the options done are the first ones.
LEMMA DoneAre ==
  ASSUME NEW run, IsRun(run), run.tool # "calctrl"
  PROVE  \E n \in 0 .. Len(run.opts) :
           /\ Done(run) = 1 .. n
           /\ DOMAIN UsablePrefix(run) = 1 .. n
           /\ \A i \in 1 .. n : /\ UsablePrefix(run)[i] = run.opts[i]
                                /\ OptionUsable(run.tool, run.opts[i])
<1>1. run.tool \in {"vatactrl", "syncctrl", "dacctrl"} /\ Len(run.opts) \in Nat
      /\ DOMAIN run.opts = 1 .. Len(run.opts)
  BY DEF IsRun
<1>2. \A o : Usable(run.tool, o) <=> OptionUsable(run.tool, o)
  BY <1>1 DEF Usable, OptionUsable, VataUsable, SyncUsable, DacUsable
<1>3. PICK n \in 0 .. Len(run.opts) :
        /\ DOMAIN UsablePrefix(run) = 1 .. n
        /\ \A i \in 1 .. n : /\ UsablePrefix(run)[i] = run.opts[i]
                             /\ OptionUsable(run.tool, run.opts[i])
        /\ n = Len(run.opts) \/ ~OptionUsable(run.tool, run.opts[n + 1])
  BY UsableOptions
<1>4. ASSUME NEW i \in 1 .. n PROVE i \in Done(run)
  <2>1. i \in DOMAIN run.opts /\ \A j \in 1 .. i : j \in 1 .. n
    BY <1>1
  <2> QED BY <1>2, <1>3, <2>1 DEF Done
<1>5. ASSUME NEW i \in Done(run) PROVE i \in 1 .. n
  <2>1. i \in 1 .. Len(run.opts) /\ \A j \in 1 .. i : OptionUsable(run.tool, run.opts[j])
    BY <1>1, <1>2 DEF Done
  <2>2. i > n => n # Len(run.opts) /\ n + 1 \in 1 .. i
    BY <1>1, <2>1
  <2> QED BY <1>1, <1>3, <2>1, <2>2
<1> QED BY <1>3, <1>4, <1>5

\* The registers after each option of a run.
LEMMA AfterOneByOne ==
  ASSUME NEW run, Len(run.opts) \in Nat, run.tool # "calctrl", NEW r
  PROVE  \E h : /\ AfterRun(run, r) = h[Len(run.opts)]
                /\ h[0] = r
                /\ \A i \in 1 .. Len(run.opts) :
                     h[i] = IF i \in Done(run) THEN AfterOption(run.tool, run.opts[i], h[i - 1])
                            ELSE h[i - 1]
<1> DEFINE n == Len(run.opts)
           D == Done(run)
           Is(f, m) == f = [i \in 0 .. m |->
                              IF i = 0 THEN r
                              ELSE IF i \in D THEN AfterOption(run.tool, run.opts[i], f[i - 1])
                              ELSE f[i - 1]]
           C == CHOOSE f : Is(f, n)
<1>1. AfterRun(run, r) = C[n]
  BY DEF AfterRun
<1> HIDE DEF n, D
<1>2. n \in Nat
  BY DEF n
<1>3. \A m \in 0 .. n : m \in {k \in 0 .. n : \E f : Is(f, k)}
  <2> DEFINE T == {k \in 0 .. n : \E f : Is(f, k)}
  <2>1. 0 \in T
    <3>1. Is([i \in 0 .. 0 |-> r], 0)
      OBVIOUS
    <3> HIDE DEF Is
    <3> QED BY <3>1, <1>2
  <2>2. ASSUME NEW k \in 0 .. n - 1, k \in T PROVE k + 1 \in T
    <3>1. PICK f : Is(f, k)
      BY <2>2
    <3> DEFINE new == IF k + 1 \in D THEN AfterOption(run.tool, run.opts[k + 1], f[k]) ELSE f[k]
               g == [i \in 0 .. k + 1 |-> IF i = k + 1 THEN new ELSE f[i]]
    <3>2. Is(g, k + 1)
      <4>1. \A i \in 0 .. k + 1 :
              g[i] = IF i = 0 THEN r
                     ELSE IF i \in D THEN AfterOption(run.tool, run.opts[i], g[i - 1]) ELSE g[i - 1]
        <5> SUFFICES ASSUME NEW i \in 0 .. k + 1
                     PROVE g[i] = IF i = 0 THEN r
                                  ELSE IF i \in D THEN AfterOption(run.tool, run.opts[i], g[i - 1])
                                  ELSE g[i - 1]
          OBVIOUS
        <5>1. CASE i = k + 1
          <6>1. g[i] = new /\ i # 0 /\ g[i - 1] = f[k]
            <7>1. i - 1 = k /\ k \in 0 .. k + 1 /\ k # k + 1 /\ k + 1 # 0 /\ k + 1 \in 0 .. k + 1
              BY <1>2, <5>1
            <7> HIDE DEF new
            <7> QED BY <5>1, <7>1
          <6> HIDE DEF g
          <6> QED BY <5>1, <6>1
        <5>2. CASE i # k + 1
          <6>1. i \in 0 .. k /\ g[i] = f[i]
            BY <5>2, <1>2
          <6>2. f[i] = IF i = 0 THEN r
                       ELSE IF i \in D THEN AfterOption(run.tool, run.opts[i], f[i - 1]) ELSE f[i - 1]
            BY <6>1, <3>1
          <6>3. i # 0 => g[i - 1] = f[i - 1]
            BY <6>1, <1>2
          <6> HIDE DEF g
          <6> QED BY <6>1, <6>2, <6>3
        <5> QED BY <5>1, <5>2
      <4>2. g = [i \in 0 .. k + 1 |-> g[i]]
        OBVIOUS
      <4> HIDE DEF g
      <4> QED BY <4>1, <4>2
    <3> HIDE DEF Is, g
    <3> QED BY <3>2, <1>2
  <2> HIDE DEF T
  <2>3. \A k \in 0 .. n - 1 : k \in T => k + 1 \in T
    BY <2>2
  <2>4. \A m \in 0 .. n : m \in T
    BY <2>1, <2>3, <1>2, UpTo
  <2> QED BY <2>4 DEF T
<1>4. Is(C, n)
  <2>1. \E f : Is(f, n)
    <3> HIDE DEF Is
    <3>1. n \in {k \in 0 .. n : \E f : Is(f, k)}
      BY <1>2, <1>3
    <3> QED BY <3>1
  <2> QED BY <2>1, Zenon
<1> HIDE DEF C
<1>5. \A i \in 0 .. n : C[i] = IF i = 0 THEN r
                               ELSE IF i \in D THEN AfterOption(run.tool, run.opts[i], C[i - 1])
                               ELSE C[i - 1]
  BY <1>4
<1>6. C[0] = r
  BY <1>2, <1>5
<1>7. \A i \in 1 .. n : C[i] = IF i \in D THEN AfterOption(run.tool, run.opts[i], C[i - 1])
                               ELSE C[i - 1]
  <2>1. \A i \in 1 .. n : i \in 0 .. n /\ i # 0
    BY <1>2
  <2> QED BY <1>5, <2>1
<1> QED BY <1>1, <1>6, <1>7 DEF n, D

\* What a run of a tool does to the registers, on its own, is what it promises;
\* what it writes on the way is what one of its calls leads to.
PerformsRun(run, r) ==
  Performs(ToolSteps(run), Calls([by |-> "tool", run |-> run], r), Soft(r), Soft(AfterRun(run, r)))

LEMMA CallsOfRun ==
  ASSUME NEW run, NEW r
  PROVE  Calls([by |-> "tool", run |-> run], r) =
           IF run.tool = "calctrl" THEN {AfterCalRun(run.opts, r)}
           ELSE {AfterOption(run.tool, run.opts[i], r) : i \in Done(run)}
<1> DEFINE op == [by |-> "tool", run |-> run]
<1>1. op.by = "tool" /\ op.run = run
  OBVIOUS
<1>2. op # Interruption
  <2>1. Interruption.by = "end"
    BY DEF Interruption
  <2> HIDE DEF op
  <2> QED BY <1>1, <2>1
<1> HIDE DEF op
<1>3. Calls(op, r) = IF op.run.tool = "calctrl" THEN {AfterCalRun(op.run.opts, r)}
                     ELSE {AfterOption(op.run.tool, op.run.opts[i], r) : i \in Done(op.run)}
  BY <1>1, <1>2 DEF Calls
<1> QED BY <1>1, <1>3 DEF op

LEMMA OtherRunFulfils ==
  ASSUME NEW r, IsFile(r), NEW run, IsRun(run), run.tool # "calctrl"
  PROVE  PerformsRun(run, r)
<1> DEFINE tool == run.tool
           opts == run.opts
           X == Calls([by |-> "tool", run |-> run], r)
<1>1. tool \in {"vatactrl", "syncctrl", "dacctrl"} /\ Len(opts) \in Nat
  BY DEF IsRun
<1>2. PICK n \in 0 .. Len(opts) :
        /\ Done(run) = 1 .. n
        /\ DOMAIN UsablePrefix(run) = 1 .. n
        /\ \A i \in 1 .. n : UsablePrefix(run)[i] = opts[i] /\ OptionUsable(tool, opts[i])
  BY DoneAre
<1>3. PICK h : /\ AfterRun(run, r) = h[Len(opts)]
               /\ h[0] = r
               /\ \A i \in 1 .. Len(opts) :
                    h[i] = IF i \in Done(run) THEN AfterOption(tool, opts[i], h[i - 1]) ELSE h[i - 1]
  BY <1>1, AfterOneByOne
<1>4. X = {AfterOption(tool, opts[i], r) : i \in 1 .. n}
  <2>1. X = {AfterOption(tool, opts[i], r) : i \in Done(run)}
    BY CallsOfRun, Zenon
  <2> HIDE DEF X
  <2> QED BY <1>2, <2>1
<1> HIDE DEF X, tool, opts
<1>5. \A i \in 0 .. n : IsFile(h[i])
  <2> DEFINE T == {i \in 0 .. n : IsFile(h[i])}
  <2>1. 0 \in T
    BY <1>1, <1>3
  <2>2. ASSUME NEW k \in 0 .. n - 1, k \in T PROVE k + 1 \in T
    <3>1. k + 1 \in 1 .. n /\ k + 1 \in 1 .. Len(opts) /\ k + 1 \in 0 .. n /\ (k + 1) - 1 = k
      BY <1>1
    <3>2. h[k + 1] = AfterOption(tool, opts[k + 1], h[k])
      BY <1>2, <1>3, <3>1
    <3>3. IsFile(h[k])
      BY <2>2
    <3> QED BY <1>1, <3>1, <3>2, <3>3, OptionLeavesFile
  <2> HIDE DEF T
  <2>3. \A k \in 0 .. n : k \in T
    BY <1>1, <2>1, <2>2, UpTo
  <2> QED BY <2>3 DEF T
<1>6. h[Len(opts)] = h[n]
  <2> DEFINE N == Len(opts)
             T == {i \in 0 .. N - n : h[n + i] = h[n]}
  <2>1. N \in Nat /\ n \in 0 .. N /\ N - n \in Nat
    BY <1>1
  <2>2. 0 \in T
    BY <2>1
  <2>3. ASSUME NEW k \in 0 .. (N - n) - 1, k \in T PROVE k + 1 \in T
    <3>1. /\ n + (k + 1) \in 1 .. N /\ n + (k + 1) \notin 1 .. n /\ k + 1 \in 0 .. N - n
          /\ (n + (k + 1)) - 1 = n + k
      BY <2>1
    <3>2. h[n + (k + 1)] = h[n + k]
      BY <1>2, <1>3, <3>1
    <3>3. h[n + k] = h[n]
      BY <2>3
    <3> QED BY <3>1, <3>2, <3>3
  <2> HIDE DEF T, N
  <2>4. \A k \in 0 .. N - n : k \in T
    BY <2>1, <2>2, <2>3, UpTo
  <2>5. N - n \in T /\ n + (N - n) = N
    BY <2>1, <2>4
  <2> QED BY <2>5 DEF T, N
<1> DEFINE ss == [i \in 1 .. n |-> OptionCall(tool, opts[i])]
           g == [i \in 0 .. n |-> Soft(h[i])]
<1>7. ASSUME NEW i \in 1 .. n PROVE Performs(ss[i], X, g[i - 1], g[i])
  <2>1. i \in 1 .. Len(opts) /\ i - 1 \in 0 .. n /\ i \in 0 .. n
    BY <1>1
  <2>2. /\ ss[i] = OptionCall(tool, opts[i])
        /\ g[i - 1] = Soft(h[i - 1]) /\ g[i] = Soft(h[i])
        /\ h[i] = AfterOption(tool, opts[i], h[i - 1])
        /\ OptionUsable(tool, opts[i]) /\ IsFile(h[i - 1])
    BY <1>2, <1>3, <1>5, <2>1
  <2> HIDE DEF ss, g
  <2>3. Makes(ss[i], g[i - 1], g[i])
    <3>1. Fulfils(ss[i], h[i - 1], h[i])
      BY <1>1, <2>2, FulfilsOption
    <3> QED BY <2>2, <3>1 DEF Fulfils, Performs
  <2>4. Allowed(ss[i], X)
    <3> DEFINE x == AfterOption(tool, opts[i], r)
    <3>1. Fulfils(ss[i], r, x)
      BY <1>1, <2>2, FulfilsOption
    <3>2. {x} \subseteq X
      BY <1>4
    <3> HIDE DEF x
    <3>3. Allowed(ss[i], {x})
      BY <3>1 DEF Fulfils, Performs
    <3> QED BY <3>2, <3>3, AllowedMore
  <2> QED BY <2>3, <2>4 DEF Performs
<1>8. ToolSteps(run) = FlattenSeq(ss)
  <2>1. [i \in DOMAIN UsablePrefix(run) |-> OptionCall(run.tool, UsablePrefix(run)[i])] = ss
    BY <1>2 DEF tool
  <2> QED BY <2>1 DEF ToolSteps, OneByOne
<1>9. ss = [i \in 1 .. n |-> ss[i]] /\ n \in Nat
  BY <1>1
<1>10. g[0] = Soft(r) /\ g[n] = Soft(AfterRun(run, r))
  BY <1>1, <1>3, <1>6 DEF opts
<1> HIDE DEF ss, g
<1>11. Performs(FlattenSeq(ss), X, g[0], g[n])
  BY <1>7, <1>9, PerformsFlattened
<1> QED BY <1>8, <1>10, <1>11 DEF PerformsRun, X

\* calctrl: what the options of a run say.
IsGiven(opts, n) == \E i \in DOMAIN opts : opts[i].name = n
LastOf(opts, n) ==
  opts[CHOOSE i \in DOMAIN opts :
         opts[i].name = n /\ \A j \in DOMAIN opts : opts[j].name = n => j <= i].arg
GivenBy(opts) ==
  [s \in Settings |->
     CASE s = "pulse-ena" -> IF IsGiven(opts, "cal-pulse-disable") THEN 0 ELSE 1
       [] s = "trigger-ena" -> IF IsGiven(opts, "vata-trigger-enable") THEN 1 ELSE 0
       [] s = "fast-or-disable" -> IF IsGiven(opts, "fast-or-disable") THEN 1 ELSE 0
       [] OTHER -> IF IsGiven(opts, s) THEN LastOf(opts, s) ELSE Defaults[s]]

\* The settings after each option.
LEMMA SettingsOneByOne ==
  ASSUME NEW opts, Len(opts) \in Nat
  PROVE  \E h : /\ CalSettings(opts) = h[Len(opts)]
                /\ h[0] = Defaults
                /\ \A i \in 1 .. Len(opts) :
                     h[i] = IF opts[i].name \in Fire THEN h[i - 1]
                            ELSE [h[i - 1] EXCEPT ![CalSetting(opts[i])[1]] = CalSetting(opts[i])[2]]
<1> DEFINE n == Len(opts)
           Is(f, m) == f = [i \in 0 .. m |->
                              IF i = 0 THEN Defaults
                              ELSE IF opts[i].name \in Fire THEN f[i - 1]
                              ELSE [f[i - 1] EXCEPT ![CalSetting(opts[i])[1]] = CalSetting(opts[i])[2]]]
           C == CHOOSE f : Is(f, n)
<1>1. CalSettings(opts) = C[n]
  BY DEF CalSettings
<1> HIDE DEF n
<1>2. n \in Nat
  BY DEF n
<1>3. \A m \in 0 .. n : m \in {k \in 0 .. n : \E f : Is(f, k)}
  <2> DEFINE T == {k \in 0 .. n : \E f : Is(f, k)}
  <2>1. 0 \in T
    <3>1. Is([i \in 0 .. 0 |-> Defaults], 0)
      OBVIOUS
    <3> HIDE DEF Is
    <3> QED BY <3>1, <1>2
  <2>2. ASSUME NEW k \in 0 .. n - 1, k \in T PROVE k + 1 \in T
    <3>1. PICK f : Is(f, k)
      BY <2>2
    <3> DEFINE new == IF opts[k + 1].name \in Fire THEN f[k]
                      ELSE [f[k] EXCEPT ![CalSetting(opts[k + 1])[1]] = CalSetting(opts[k + 1])[2]]
               g == [i \in 0 .. k + 1 |-> IF i = k + 1 THEN new ELSE f[i]]
    <3>2. Is(g, k + 1)
      <4>1. \A i \in 0 .. k + 1 :
              g[i] = IF i = 0 THEN Defaults
                     ELSE IF opts[i].name \in Fire THEN g[i - 1]
                     ELSE [g[i - 1] EXCEPT ![CalSetting(opts[i])[1]] = CalSetting(opts[i])[2]]
        <5> SUFFICES ASSUME NEW i \in 0 .. k + 1
                     PROVE g[i] = IF i = 0 THEN Defaults
                                  ELSE IF opts[i].name \in Fire THEN g[i - 1]
                                  ELSE [g[i - 1] EXCEPT ![CalSetting(opts[i])[1]] = CalSetting(opts[i])[2]]
          OBVIOUS
        <5>1. CASE i = k + 1
          <6>1. g[i] = new /\ i # 0 /\ g[i - 1] = f[k]
            <7>1. i - 1 = k /\ k \in 0 .. k + 1 /\ k # k + 1 /\ k + 1 # 0 /\ k + 1 \in 0 .. k + 1
              BY <1>2, <5>1
            <7> HIDE DEF new
            <7> QED BY <5>1, <7>1
          <6> HIDE DEF g
          <6> QED BY <5>1, <6>1
        <5>2. CASE i # k + 1
          <6>1. i \in 0 .. k /\ g[i] = f[i]
            BY <5>2, <1>2
          <6>2. f[i] = IF i = 0 THEN Defaults
                       ELSE IF opts[i].name \in Fire THEN f[i - 1]
                       ELSE [f[i - 1] EXCEPT ![CalSetting(opts[i])[1]] = CalSetting(opts[i])[2]]
            BY <6>1, <3>1
          <6>3. i # 0 => g[i - 1] = f[i - 1]
            BY <6>1, <1>2
          <6> HIDE DEF g
          <6> QED BY <6>1, <6>2, <6>3
        <5> QED BY <5>1, <5>2
      <4>2. g = [i \in 0 .. k + 1 |-> g[i]]
        OBVIOUS
      <4> HIDE DEF g
      <4> QED BY <4>1, <4>2
    <3> HIDE DEF Is, g
    <3> QED BY <3>2, <1>2
  <2> HIDE DEF T
  <2>3. \A k \in 0 .. n - 1 : k \in T => k + 1 \in T
    BY <2>2
  <2>4. \A m \in 0 .. n : m \in T
    BY <2>1, <2>3, <1>2, UpTo
  <2> QED BY <2>4 DEF T
<1>4. Is(C, n)
  <2>1. \E f : Is(f, n)
    <3> HIDE DEF Is
    <3>1. n \in {k \in 0 .. n : \E f : Is(f, k)}
      BY <1>2, <1>3
    <3> QED BY <3>1
  <2> QED BY <2>1, Zenon
<1> HIDE DEF C
<1>5. \A i \in 0 .. n :
        C[i] = IF i = 0 THEN Defaults
               ELSE IF opts[i].name \in Fire THEN C[i - 1]
               ELSE [C[i - 1] EXCEPT ![CalSetting(opts[i])[1]] = CalSetting(opts[i])[2]]
  BY <1>4
<1>6. C[0] = Defaults
  <2>1. 0 \in 0 .. n
    BY <1>2
  <2> QED BY <1>5, <2>1, Zenon
<1>7. \A i \in 1 .. n :
        C[i] = IF opts[i].name \in Fire THEN C[i - 1]
               ELSE [C[i - 1] EXCEPT ![CalSetting(opts[i])[1]] = CalSetting(opts[i])[2]]
  <2>1. \A i \in 1 .. n : i \in 0 .. n /\ i # 0
    BY <1>2
  <2> QED BY <1>5, <2>1
<1> QED BY <1>1, <1>6, <1>7 DEF n

\* A setting is that of the last option that gives it, or the default.
LEMMA SettingsGiven ==
  ASSUME NEW opts, Len(opts) \in Nat, DOMAIN opts = 1 .. Len(opts), CalAccepted(opts)
  PROVE  CalSettings(opts) = GivenBy(opts)
<1> DEFINE N == Len(opts)
           Has(k, n) == \E i \in 1 .. k : opts[i].name = n
           Numbers == {"pulse-width", "trigger-delay", "repeat-delay"}
           Latest(k, n, v) == \E j \in 1 .. k : /\ opts[j].name = n /\ opts[j].arg = v
                                              /\ \A i \in 1 .. k : opts[i].name = n => i <= j
           Right(f, k) ==
             /\ f = [s \in Settings |-> f[s]]
             /\ f["pulse-ena"] = IF Has(k, "cal-pulse-disable") THEN 0 ELSE 1
             /\ f["trigger-ena"] = IF Has(k, "vata-trigger-enable") THEN 1 ELSE 0
             /\ f["fast-or-disable"] = IF Has(k, "fast-or-disable") THEN 1 ELSE 0
             /\ \A s \in Numbers : IF Has(k, s) THEN Latest(k, s, f[s]) ELSE f[s] = Defaults[s]
<1>1. PICK h : /\ CalSettings(opts) = h[N]
               /\ h[0] = Defaults
               /\ \A i \in 1 .. N :
                    h[i] = IF opts[i].name \in Fire THEN h[i - 1]
                           ELSE [h[i - 1] EXCEPT ![CalSetting(opts[i])[1]] = CalSetting(opts[i])[2]]
  BY SettingsOneByOne
<1>2. N \in Nat /\ DOMAIN opts = 1 .. N
  OBVIOUS
<1>3. Settings = {"pulse-ena", "trigger-ena", "fast-or-disable", "pulse-width", "trigger-delay",
                  "repeat-delay"}
  BY DEF Settings, Flags
<1>4. /\ Defaults = [s \in Settings |-> Defaults[s]]
      /\ Defaults["pulse-ena"] = 1 /\ Defaults["trigger-ena"] = 0 /\ Defaults["fast-or-disable"] = 0
  BY <1>3 DEF Defaults
<1>5. \A i \in 1 .. N : CalUsable(opts[i])
  BY DEF CalAccepted
<1> HIDE DEF N
<1>6. Right(Defaults, 0)
  <2>1. 1 .. 0 = {}
    OBVIOUS
  <2> QED BY <1>4, <2>1
<1>7. ASSUME NEW k \in 0 .. N - 1, Right(h[k], k) PROVE Right(h[k + 1], k + 1)
  <2> DEFINE o == opts[k + 1]
             f == h[k]
             g == h[k + 1]
  <2>1. /\ k + 1 \in 1 .. N /\ (k + 1) - 1 = k
        /\ 1 .. k + 1 = (1 .. k) \cup {k + 1} /\ \A i \in 1 .. k : i <= k + 1
    BY <1>2
  <2>2. g = IF o.name \in Fire THEN f ELSE [f EXCEPT ![CalSetting(o)[1]] = CalSetting(o)[2]]
    BY <1>1, <2>1
  <2>3. CalUsable(o)
    BY <1>5, <2>1
  <2>4. \A n : Has(k + 1, n) <=> Has(k, n) \/ o.name = n
    BY <2>1
  <2>5. \A n, v : o.name # n /\ Latest(k, n, v) => Latest(k + 1, n, v)
    BY <2>1
  <2>6. \A n, v : o.name = n /\ o.arg = v => Latest(k + 1, n, v)
    BY <2>1
  <2>7. Right(f, k)
    BY <1>7
  <2> HIDE DEF o, f, g, Has, Latest
  <2>8. CASE o.name \in Fire
    <3>1. g = f /\ o.name \notin Numbers \cup {"cal-pulse-disable", "vata-trigger-enable", "fast-or-disable"}
      BY <2>2, <2>8 DEF Fire
    <3> QED BY <2>4, <2>5, <2>7, <3>1 DEF g
  <2>9. CASE o.name = "cal-pulse-disable"
    <3>1. g = [f EXCEPT !["pulse-ena"] = 0]
      BY <2>2, <2>9 DEF Fire, CalSetting
    <3> QED BY <1>3, <2>4, <2>5, <2>7, <2>9, <3>1 DEF g
  <2>10. CASE o.name = "vata-trigger-enable"
    <3>1. g = [f EXCEPT !["trigger-ena"] = 1]
      BY <2>2, <2>10 DEF Fire, CalSetting
    <3> QED BY <1>3, <2>4, <2>5, <2>7, <2>10, <3>1 DEF g
  <2>11. CASE o.name = "fast-or-disable"
    <3>1. g = [f EXCEPT !["fast-or-disable"] = 1]
      BY <2>2, <2>11 DEF Fire, CalSetting
    <3> QED BY <1>3, <2>4, <2>5, <2>7, <2>11, <3>1 DEF g
  <2>12. CASE o.name \in Numbers
    <3>1. g = [f EXCEPT ![o.name] = o.arg]
      BY <2>2, <2>12 DEF Fire, CalSetting
    <3>2. /\ g = [s \in Settings |-> g[s]] /\ g[o.name] = o.arg
          /\ \A s \in Settings : s # o.name => g[s] = f[s]
      BY <1>3, <2>7, <2>12, <3>1
    <3> QED BY <1>3, <2>4, <2>5, <2>6, <2>7, <2>12, <3>2 DEF g
  <2> QED BY <2>3, <2>8, <2>9, <2>10, <2>11, <2>12 DEF CalUsable, Fire
<1>8. Right(h[N], N)
  <2> HIDE DEF Right
  <2> DEFINE T == {k \in 0 .. N : Right(h[k], k)}
  <2>1. 0 \in T /\ \A k \in 0 .. N - 1 : k \in T => k + 1 \in T
    BY <1>1, <1>2, <1>6, <1>7
  <2> HIDE DEF T
  <2>2. N \in T
    BY <1>2, <2>1, UpTo
  <2> QED BY <2>2 DEF T
<1>9. \A n : Has(N, n) <=> IsGiven(opts, n)
  BY <1>2 DEF IsGiven
<1>10. ASSUME NEW n, NEW v, Latest(N, n, v) PROVE v = LastOf(opts, n)
  <2>1. PICK j \in 1 .. N : /\ opts[j].name = n /\ opts[j].arg = v
                            /\ \A i \in 1 .. N : opts[i].name = n => i <= j
    BY <1>10
  <2> DEFINE P(i) == opts[i].name = n /\ \A l \in DOMAIN opts : opts[l].name = n => l <= i
             c == CHOOSE i \in DOMAIN opts : P(i)
  <2>2. j \in DOMAIN opts /\ P(j)
    BY <1>2, <2>1
  <2>3. c \in DOMAIN opts /\ P(c)
    <3> HIDE DEF P
    <3> QED BY <2>2, Zenon
  <2>4. LastOf(opts, n) = opts[c].arg
    BY DEF LastOf
  <2> HIDE DEF c
  <2>5. c <= j /\ j <= c /\ c \in Nat /\ j \in Nat
    BY <1>2, <2>1, <2>3
  <2>6. c = j
    BY <2>5
  <2> QED BY <2>1, <2>4, <2>6
<1> HIDE DEF Has, Latest
<1> QED BY <1>1, <1>3, <1>8, <1>9, <1>10 DEF GivenBy

\* The registers after the settings are written, if any is given.
Set(opts) == \E i \in DOMAIN opts : opts[i].name \notin Fire
DoneSet(opts, r) == IF Set(opts) THEN Holds(GivenBy(opts), r) ELSE r

LEMMA AfterCalRunIs ==
  ASSUME NEW opts, NEW r, CalAccepted(opts)
  PROVE  AfterCalRun(opts, r) =
           CASE IsGiven(opts, "start") -> AfterCal("start-inf", Absent, GivenBy(opts), r)
             [] IsGiven(opts, "stop") -> AfterCal("stop-inf", Absent, GivenBy(opts), DoneSet(opts, r))
             [] IsGiven(opts, "n-pulses") /\ LastOf(opts, "n-pulses") > 0 ->
                  AfterCal("n-pulses", LastOf(opts, "n-pulses"), GivenBy(opts), r)
             [] OTHER -> DoneSet(opts, r)
BY DEF AfterCalRun, IsGiven, LastOf, GivenBy, Set, DoneSet

\* The steps of a run, by the option that fires, if there is one.
LEMMA CalRunIs ==
  ASSUME NEW opts, Len(opts) \in Nat, DOMAIN opts = 1 .. Len(opts), CalAccepted(opts)
  PROVE  LET f == GivenBy(opts)
             set == IF Set(opts) THEN write_settings(f) ELSE <<>>
         IN \/ /\ \A i \in DOMAIN opts : opts[i].name \notin Fire
               /\ CalRun(opts) = set \o <<>>
            \/ \E i \in DOMAIN opts :
                 /\ opts[i].name \in Fire /\ \A j \in DOMAIN opts : opts[j].name \in Fire => j = i
                 /\ CalRun(opts) = set \o CalFire(opts[i], f)
<1> DEFINE f == GivenBy(opts)
           set == IF Set(opts) THEN write_settings(f) ELSE <<>>
           fires == {i \in DOMAIN opts : opts[i].name \in Fire}
           c == CHOOSE i \in fires : TRUE
<1>1. CalSettings(opts) = f
  BY SettingsGiven
<1>2. CalRun(opts) = (IF fires = DOMAIN opts THEN <<>> ELSE write_settings(f))
                     \o (IF fires = {} THEN <<>> ELSE CalFire(opts[c], f))
  <2>1. CalRun(opts) =
          (IF fires = DOMAIN opts THEN <<>> ELSE write_settings(CalSettings(opts)))
          \o (IF fires = {} THEN <<>> ELSE CalFire(opts[c], CalSettings(opts)))
    BY Zenon DEF CalRun
  <2> HIDE DEF f, fires, c
  <2> QED BY <1>1, <2>1
<1>3. fires = DOMAIN opts <=> ~Set(opts)
  BY DEF Set
<1>4. \A i, j \in fires : i = j
  BY DEF CalAccepted
<1>5. fires # {} => c \in fires
  OBVIOUS
<1>6. CASE fires = {}
  <2>1. CalRun(opts) = set \o <<>>
    <3> HIDE DEF f, fires, c
    <3> QED BY <1>2, <1>3, <1>6
  <2>2. \A i \in DOMAIN opts : opts[i].name \notin Fire
    BY <1>6
  <2> QED BY <2>1, <2>2
<1>7. CASE fires # {}
  <2>1. CalRun(opts) = set \o CalFire(opts[c], f)
    <3> HIDE DEF f, fires, c
    <3> QED BY <1>2, <1>3, <1>7
  <2>2. c \in DOMAIN opts /\ opts[c].name \in Fire /\ \A j \in DOMAIN opts : opts[j].name \in Fire => j = c
    BY <1>4, <1>5, <1>7
  <2> QED BY <2>1, <2>2
<1> QED BY <1>6, <1>7

\* Writing the settings, if any is given; and once more, before pulses.
LEMMA PerformsSet ==
  ASSUME NEW opts, NEW r, IsFile(r)
  PROVE  LET f == GivenBy(opts)
             set == IF Set(opts) THEN write_settings(f) ELSE <<>>
         IN /\ \A y : (Set(opts) => HasSettings(y, f)) =>
                 Performs(set, {y}, Soft(r), Soft(DoneSet(opts, r)))
            /\ IsFile(DoneSet(opts, r))
            /\ Set(opts) => HasSettings(DoneSet(opts, r), f)
            /\ Holds(f, Soft(DoneSet(opts, r))) = Holds(f, Soft(r))
<1> DEFINE f == GivenBy(opts)
           h == Holds(f, r)
           set == IF Set(opts) THEN write_settings(f) ELSE <<>>
<1>1. /\ h = [x \in Registers |-> h[x]] /\ h["mask"] = r["mask"]
      /\ HasSettings(h, f) /\ Soft(h) = Holds(f, Soft(r)) /\ Holds(f, Soft(h)) = Soft(h)
  BY SoftHolds DEF IsFile
<1>2. DoneSet(opts, r) = IF Set(opts) THEN h ELSE r
  BY DEF DoneSet
<1> HIDE DEF f, h
<1>3. IsFile(h)
  BY <1>1 DEF IsFile
<1>4. ASSUME NEW y, Set(opts) => HasSettings(y, f)
      PROVE  Performs(set, {y}, Soft(r), Soft(DoneSet(opts, r)))
  <2>1. CASE Set(opts)
    BY <1>1, <1>2, <1>4, <2>1, PerformsSettings
  <2>2. CASE ~Set(opts)
    BY <1>2, <2>2, PerformsNothing
  <2> QED BY <2>1, <2>2
<1> HIDE DEF set
<1> QED BY <1>1, <1>2, <1>3, <1>4 DEF f, set

\* A run of calctrl.
LEMMA CalRunFulfils ==
  ASSUME NEW r, IsFile(r), NEW opts, Len(opts) \in Nat, DOMAIN opts = 1 .. Len(opts)
  PROVE  Fulfils(CalRun(opts), r, AfterCalRun(opts, r))
<1> DEFINE f == GivenBy(opts)
           set == IF Set(opts) THEN write_settings(f) ELSE <<>>
           done == DoneSet(opts, r)
           pulsing(n, i) == [Holds(f, r) EXCEPT !["n-pulses"] = n, !["cal-init"] = i]
           x == AfterCalRun(opts, r)
<1>1. CASE ~CalAccepted(opts)
  <2>1. CalRun(opts) = <<>> /\ x = r
    BY <1>1 DEF CalRun, AfterCalRun
  <2> QED BY <2>1, FulfilsNothing
<1>2. CASE CalAccepted(opts)
  <2>1. x = CASE IsGiven(opts, "start") -> AfterCal("start-inf", Absent, f, r)
              [] IsGiven(opts, "stop") -> AfterCal("stop-inf", Absent, f, done)
              [] IsGiven(opts, "n-pulses") /\ LastOf(opts, "n-pulses") > 0 ->
                   AfterCal("n-pulses", LastOf(opts, "n-pulses"), f, r)
              [] OTHER -> done
    BY <1>2, AfterCalRunIs
  <2>2. /\ \A y : (Set(opts) => HasSettings(y, f)) => Performs(set, {y}, Soft(r), Soft(done))
        /\ IsFile(done) /\ (Set(opts) => HasSettings(done, f))
        /\ Holds(f, Soft(done)) = Holds(f, Soft(r))
    BY PerformsSet
  <2>3. ASSUME NEW n, NEW i
        PROVE  /\ HasSettings(pulsing(n, i), f)
               /\ pulsing(n, i)["n-pulses"] = n /\ pulsing(n, i)["cal-init"] = i
               /\ Soft(pulsing(n, i)) = [Holds(f, Soft(r)) EXCEPT !["n-pulses"] = n, !["cal-init"] = i]
    <3> DEFINE h == Holds(f, r)
               p == [h EXCEPT !["n-pulses"] = n, !["cal-init"] = i]
    <3>1. /\ {"cal-enable", "pulse-width", "trigger-delay", "repeat-delay", "n-pulses", "cal-init"}
               \subseteq Ours
          /\ Ours \subseteq Registers
      BY OursAre DEF Registers
    <3>2. h = [y \in Registers |-> h[y]] /\ HasSettings(h, f) /\ Soft(h) = Holds(f, Soft(r))
      BY SoftHolds DEF IsFile
    <3> HIDE DEF h
    <3>3. HasSettings(p, f) /\ p["n-pulses"] = n /\ p["cal-init"] = i
      BY <3>1, <3>2 DEF HasSettings
    <3>4. Soft(p) = [Soft(h) EXCEPT !["n-pulses"] = n, !["cal-init"] = i]
      BY <3>1, <3>2 DEF Soft
    <3> QED BY <3>2, <3>3, <3>4 DEF h
  <2> HIDE DEF f, set, done, x
  <2>4. CASE \A i \in DOMAIN opts : opts[i].name \notin Fire
    <3>1. x = done
      BY <2>1, <2>4 DEF IsGiven, Fire
    <3>2. CalRun(opts) = set \o <<>>
      BY <1>2, <2>4, CalRunIs DEF set, f
    <3>3. Performs(set, {done}, Soft(r), Soft(done))
      BY <2>2
    <3>4. Performs(set \o <<>>, {done}, Soft(r), Soft(done))
      BY <3>3, PerformsNothing, PerformsOn
    <3> QED BY <3>1, <3>2, <3>4 DEF Fulfils, x
  <2>5. ASSUME NEW i \in DOMAIN opts, opts[i].name \in Fire,
               \A j \in DOMAIN opts : opts[j].name \in Fire => j = i,
               CalRun(opts) = set \o CalFire(opts[i], f)
        PROVE  Fulfils(CalRun(opts), r, x)
    <3> DEFINE o == opts[i]
               call == CalFire(o, f)
    <3>1. \A n \in Fire : IsGiven(opts, n) <=> o.name = n
      BY <2>5 DEF IsGiven
    <3>2. CASE o.name = "start"
      <4>1. call = start_inf_pulses(f)
        BY <3>2 DEF CalFire
      <4>2. x = pulsing(0, 1)
        <5>1. IsGiven(opts, "start") /\ ~IsGiven(opts, "stop") /\ ~IsGiven(opts, "n-pulses")
          BY <3>1, <3>2 DEF Fire
        <5>2. x = AfterCal("start-inf", Absent, f, r)
          BY <2>1, <5>1
        <5> QED BY <5>2 DEF AfterCal, Flags, Settings
      <4> DEFINE y == pulsing(0, 1)
      <4>3. /\ HasSettings(y, f) /\ y["n-pulses"] = 0 /\ y["cal-init"] = 1
            /\ Soft(y) = [Holds(f, Soft(done)) EXCEPT !["n-pulses"] = 0, !["cal-init"] = 1]
        BY <2>2, <2>3
      <4> HIDE DEF y
      <4>4. Performs(set, {y}, Soft(r), Soft(done))
        BY <2>2, <4>3
      <4>5. Performs(call, {y}, Soft(done), Soft(y))
        <5>1. Performs(start_inf_pulses(f), {y}, Soft(done),
                       [Holds(f, Soft(done)) EXCEPT !["n-pulses"] = 0, !["cal-init"] = 1])
          BY <4>3, PerformsPulses
        <5> HIDE DEF call
        <5> QED BY <4>1, <4>3, <5>1
      <4>6. Performs(set \o call, {y}, Soft(r), Soft(y))
        <5> HIDE DEF call
        <5> QED BY <4>4, <4>5, PerformsOn
      <4> QED BY <2>5, <4>2, <4>6 DEF Fulfils, y
    <3>3. CASE o.name = "stop"
      <4> DEFINE y == [done EXCEPT !["cal-init"] = 0]
      <4>1. call = stop_inf_pulses
        BY <3>3 DEF CalFire
      <4>2. x = y
        <5>1. ~IsGiven(opts, "start") /\ IsGiven(opts, "stop") /\ ~IsGiven(opts, "n-pulses")
          BY <3>1, <3>3 DEF Fire
        <5>2. x = AfterCal("stop-inf", Absent, f, done)
          BY <2>1, <5>1
        <5> QED BY <5>2 DEF AfterCal, Flags, Settings
      <4>3. Fulfils(call, done, y)
        BY <2>2, <4>1, FulfilsWrites
      <4>4. Set(opts) => HasSettings(y, f)
        <5>1. "cal-init" \notin {"cal-enable", "pulse-width", "trigger-delay", "repeat-delay"}
          OBVIOUS
        <5> QED BY <2>2 DEF HasSettings, IsFile
      <4> HIDE DEF y, call
      <4>5. Performs(set, {y}, Soft(r), Soft(done))
        BY <2>2, <4>4
      <4>6. Performs(set \o call, {y}, Soft(r), Soft(y))
        BY <4>3, <4>5, PerformsOn DEF Fulfils
      <4> QED BY <2>5, <4>2, <4>6 DEF Fulfils, call
    <3>4. CASE o.name = "n-pulses"
      <4> DEFINE n == o.arg
      <4>1. n \in Nat
        BY <1>2, <2>5, <3>4 DEF CalAccepted, CalUsable
      <4>2. LastOf(opts, "n-pulses") = n
        <5> DEFINE P(k) == /\ opts[k].name = "n-pulses"
                           /\ \A j \in DOMAIN opts : opts[j].name = "n-pulses" => j <= k
                   c == CHOOSE k \in DOMAIN opts : P(k)
        <5>1. i \in DOMAIN opts /\ P(i)
          <6>1. i \in Nat
            BY <2>5
          <6> QED BY <2>5, <3>4, <6>1 DEF Fire
        <5>2. c \in DOMAIN opts /\ P(c)
          <6> HIDE DEF P
          <6> QED BY <5>1, Zenon
        <5>3. c = i
          BY <2>5, <5>2 DEF Fire
        <5>4. LastOf(opts, "n-pulses") = opts[c].arg
          BY DEF LastOf
        <5> HIDE DEF c
        <5> QED BY <5>3, <5>4
      <4>3. ~IsGiven(opts, "start") /\ ~IsGiven(opts, "stop") /\ IsGiven(opts, "n-pulses")
        BY <3>1, <3>4 DEF Fire
      <4>4. CASE n > 0
        <5>1. call = n_pulses(f, n)
          BY <3>4, <4>4 DEF CalFire
        <5>2. x = pulsing(n, 0)
          <6>1. x = AfterCal("n-pulses", n, f, r)
            BY <2>1, <4>2, <4>3, <4>4
          <6>2. n \in Nat \ {0}
            BY <4>1, <4>4
          <6> HIDE DEF n
          <6> QED BY <6>1, <6>2 DEF AfterCal, Flags, Settings
        <5> DEFINE y == pulsing(n, 0)
        <5>3. /\ HasSettings(y, f) /\ y["n-pulses"] = n /\ y["cal-init"] = 0
              /\ Soft(y) = [Holds(f, Soft(done)) EXCEPT !["n-pulses"] = n, !["cal-init"] = 0]
          BY <2>2, <2>3
        <5> HIDE DEF y, n
        <5>4. Performs(set, {y}, Soft(r), Soft(done))
          BY <2>2, <5>3
        <5>5. Performs(call, {y}, Soft(done), Soft(y))
          <6>1. Performs(n_pulses(f, n), {y}, Soft(done),
                         [Holds(f, Soft(done)) EXCEPT !["n-pulses"] = n, !["cal-init"] = 0])
            BY <5>3, PerformsPulses
          <6> HIDE DEF call
          <6> QED BY <5>1, <5>3, <6>1
        <5>6. Performs(set \o call, {y}, Soft(r), Soft(y))
          <6> HIDE DEF call
          <6> QED BY <5>4, <5>5, PerformsOn
        <5> QED BY <2>5, <5>2, <5>6 DEF Fulfils, y
      <4>5. CASE ~(n > 0)
        <5>1. call = <<>>
          BY <3>4, <4>5 DEF CalFire
        <5>2. x = done
          BY <2>1, <4>2, <4>3, <4>5
        <5>3. Performs(set, {done}, Soft(r), Soft(done))
          BY <2>2
        <5>4. Performs(set \o <<>>, {done}, Soft(r), Soft(done))
          BY <5>3, PerformsNothing, PerformsOn
        <5> QED BY <2>5, <5>1, <5>2, <5>4 DEF Fulfils
      <4> QED BY <4>4, <4>5
    <3> QED BY <2>5, <3>2, <3>3, <3>4 DEF Fire
  <2> QED BY <1>2, <2>4, <2>5, CalRunIs DEF x, set, f
<1> QED BY <1>1, <1>2

\* Any run.
LEMMA RunFulfils ==
  ASSUME NEW r, IsFile(r), NEW run, IsRun(run)
  PROVE  PerformsRun(run, r)
<1>1. CASE run.tool = "calctrl"
  <2>1. /\ ToolSteps(run) = CalRun(run.opts) /\ AfterRun(run, r) = AfterCalRun(run.opts, r)
        /\ Calls([by |-> "tool", run |-> run], r) = {AfterCalRun(run.opts, r)}
    BY <1>1, CallsOfRun DEF ToolSteps, AfterRun
  <2>2. Fulfils(CalRun(run.opts), r, AfterCalRun(run.opts, r))
    BY CalRunFulfils DEF IsRun
  <2> QED BY <2>1, <2>2 DEF PerformsRun, Fulfils
<1>2. CASE run.tool # "calctrl"
  BY <1>2, OtherRunFulfils
<1> QED BY <1>1, <1>2

-----------------------------------------------------------------------------
(* Operations that overlap make no change that nobody asked for.           *)

\* What the operations since no operation went on may make of the registers.
Results(b, o) == {b} \cup UNION {Calls(op, b) : op \in o}

\* What a process is still to write leads to what some of X is; z it has
\* loaded.
AsLoaded(z, r, X) == Bitwise(X, r, z) /\ (r = "mask" => z \subseteq Bits)

AllowedNow(s, z, X) ==
  /\ IsSeq(s)
  /\ \A i \in DOMAIN s :
       /\ s[i].do = "put" => /\ s[i].reg \in Masks \cup Singles \cup Commands
                             /\ GoodPut(s[i], X) \/ Passing(s, i)
       /\ s[i].do = "load" => s[i].reg \in Masks
       /\ s[i].do = "store" => /\ GoodStore(s[i], X)
                               /\ \/ i - 1 \in DOMAIN s /\ s[i - 1] = Load(s[i].reg)
                                  \/ i = 1 /\ AsLoaded(z, s[i].reg, X)

\* What the registers hold is asked for, or will be replaced.
Awaits(s, r) == \E j \in DOMAIN s : Puts(s[j], r)

Holding(X, rg, td) ==
  /\ IsFile(rg)
  /\ \A r \in Masks : Bitwise(X, r, rg[r])
  /\ \A r \in Singles :
       \/ Wholly(X, r, rg[r])
       \/ r \in Twice /\ rg[r] = 1 /\ \E p \in Processes : Awaits(td[p], r)

Mixed(X, rg, td, z) ==
  Holding(X, rg, td) /\ \A p \in Processes : AllowedNow(td[p], z[p], X)

\* At the beginning of an operation nothing is loaded yet.
LEMMA AllowedFirst ==
  ASSUME NEW X, NEW s, NEW z
  PROVE  /\ Allowed(s, X) => AllowedNow(s, z, X)
         /\ AllowedNow(<<>>, z, X)
<1>1. Allowed(s, X) => AllowedNow(s, z, X)
  BY DEF Allowed, AllowedNow
<1>2. IsSeq(<<>>) /\ DOMAIN <<>> = {}
  BY Tuples
<1> QED BY <1>1, <1>2 DEF AllowedNow

\* More may be asked for.
LEMMA MixedMore ==
  ASSUME NEW X, NEW Y, X \subseteq Y
  PROVE  /\ \A s, z : AllowedNow(s, z, X) => AllowedNow(s, z, Y)
         /\ \A rg, td : Holding(X, rg, td) => Holding(Y, rg, td)
<1>1. /\ \A s : GoodPut(s, X) => GoodPut(s, Y)
      /\ \A s : GoodStore(s, X) => GoodStore(s, Y)
  BY AllowedMore
<1>2. \A r, v : (Bitwise(X, r, v) => Bitwise(Y, r, v)) /\ (Wholly(X, r, v) => Wholly(Y, r, v))
  BY DEF Bitwise, Wholly
<1>3. \A s, z : AllowedNow(s, z, X) => AllowedNow(s, z, Y)
  BY <1>1, <1>2 DEF AllowedNow, AsLoaded
<1>4. \A rg, td : Holding(X, rg, td) => Holding(Y, rg, td)
  BY <1>2 DEF Holding
<1> QED BY <1>3, <1>4

\* Taking a step: what it loads is asked for.
LEMMA AllowedTail ==
  ASSUME NEW X, NEW s, NEW z, AllowedNow(s, z, X), s # <<>>, NEW y,
         Head(s).do = "load" => AsLoaded(y, Head(s).reg, X)
  PROVE  AllowedNow(Tail(s), y, X)
<1> DEFINE t == Tail(s)
<1>1. /\ IsSeq(t)
      /\ \A i \in DOMAIN t : i + 1 \in DOMAIN s /\ t[i] = s[i + 1]
      /\ 1 \in DOMAIN s /\ Head(s) = s[1]
      /\ \A i \in DOMAIN s : i # 1 => i - 1 \in DOMAIN t
  BY TailOf DEF AllowedNow
<1>2. DOMAIN s = 1 .. Len(s) /\ DOMAIN t = 1 .. Len(t) /\ Len(s) \in Nat /\ Len(t) \in Nat
  BY <1>1, Positions DEF AllowedNow
<1> HIDE DEF t
<1>3. ASSUME NEW i \in DOMAIN t
      PROVE  /\ t[i].do = "put" => /\ t[i].reg \in Masks \cup Singles \cup Commands
                                   /\ GoodPut(t[i], X) \/ Passing(t, i)
             /\ t[i].do = "load" => t[i].reg \in Masks
             /\ t[i].do = "store" => /\ GoodStore(t[i], X)
                                     /\ \/ i - 1 \in DOMAIN t /\ t[i - 1] = Load(t[i].reg)
                                        \/ i = 1 /\ AsLoaded(y, t[i].reg, X)
  <2>1. /\ i \in Nat /\ i + 1 \in DOMAIN s /\ t[i] = s[i + 1] /\ i + 1 # 1 /\ (i + 1) - 1 = i
    BY <1>1, <1>2
  <2>2. Passing(s, i + 1) => Passing(t, i)
    <3> SUFFICES ASSUME Passing(s, i + 1) PROVE Passing(t, i)
      OBVIOUS
    <3>1. PICK j \in DOMAIN s : j > i + 1 /\ Puts(s[j], s[i + 1].reg)
      BY DEF Passing
    <3>2. j # 1 /\ j - 1 > i /\ (j - 1) + 1 = j
      BY <1>2, <2>1, <3>1
    <3>3. j - 1 \in DOMAIN t /\ t[j - 1] = s[j]
      BY <1>1, <3>2
    <3>4. \E l \in DOMAIN t : l > i /\ Puts(t[l], t[i].reg)
      BY <2>1, <3>1, <3>2, <3>3
    <3> QED BY <2>1, <3>4 DEF Passing
  <2>3. /\ t[i].do = "put" => /\ t[i].reg \in Masks \cup Singles \cup Commands
                              /\ GoodPut(t[i], X) \/ Passing(s, i + 1)
        /\ t[i].do = "load" => t[i].reg \in Masks
        /\ t[i].do = "store" => /\ GoodStore(t[i], X)
                                /\ i \in DOMAIN s /\ s[i] = Load(t[i].reg)
    BY <2>1 DEF AllowedNow
  <2>4. ASSUME i \in DOMAIN s, s[i] = Load(t[i].reg)
        PROVE  \/ i - 1 \in DOMAIN t /\ t[i - 1] = Load(t[i].reg)
               \/ i = 1 /\ AsLoaded(y, t[i].reg, X)
    <3>1. CASE i = 1
      <4>1. Head(s).do = "load" /\ Head(s).reg = t[i].reg
        BY <1>1, <2>4, <3>1 DEF Load
      <4> QED BY <3>1, <4>1
    <3>2. CASE i # 1
      <4>1. i - 1 \in DOMAIN t /\ (i - 1) + 1 = i
        BY <1>1, <2>1, <2>4, <3>2
      <4>2. t[i - 1] = s[i]
        BY <1>1, <4>1
      <4> QED BY <2>4, <4>1, <4>2
    <3> QED BY <3>1, <3>2
  <2> QED BY <2>2, <2>3, <2>4
<1> QED BY <1>1, <1>3 DEF AllowedNow, t

\* What a put writes.
LEMMA WrittenIs ==
  ASSUME NEW rg, IsFile(rg), NEW reg \in Masks \cup Singles \cup Commands, NEW v
  PROVE  LET w == Written(rg, reg, v)
         IN /\ w = [r \in Registers |-> w[r]]
            /\ \A r \in Masks \cup Singles : w[r] = IF r = reg THEN v ELSE rg[r]
            /\ Soft(w) = Written(Soft(rg), reg, v)
<1> DEFINE w == Written(rg, reg, v)
           a == Soft(rg)
<1>1. /\ Masks \cup Singles = Ours \ {"dacs"} /\ Ours \subseteq Registers
      /\ {"event-count", "running", "live"} \cap Ours = {}
      /\ {"event-count", "running", "live"} \cup {"dacs"} \subseteq Registers
      /\ {"dac-write", "dac-select", "dac-input", "dacs"} \subseteq Ours
      /\ Commands = {"vata-cmd", "sync-cmd"} /\ Commands \cap Ours = {}
  BY OursAre DEF Masks, Singles, Commands, Registers
<1>2. rg = [r \in Registers |-> rg[r]] /\ a = [r \in Ours |-> rg[r]]
  BY DEF IsFile, Soft
<1>3. CASE reg = "dac-write" /\ v = 1 /\ rg["dac-write"] = 0
  <2>1. w = [rg EXCEPT !["dac-write"] = 1, !["dacs"][rg["dac-select"]] = rg["dac-input"]]
    BY <1>3 DEF Written
  <2>2. Written(a, reg, v) = [a EXCEPT !["dac-write"] = 1, !["dacs"][a["dac-select"]] = a["dac-input"]]
    <3>1. a["dac-write"] = 0
      BY <1>1, <1>2, <1>3
    <3> HIDE DEF a
    <3> QED BY <1>3, <3>1 DEF Written
  <2>3. /\ a["dac-select"] = rg["dac-select"] /\ a["dac-input"] = rg["dac-input"]
        /\ a["dacs"] = rg["dacs"]
    BY <1>1, <1>2
  <2>4. \A r \in Registers : w[r] = IF r = "dac-write" THEN 1
                                    ELSE IF r = "dacs" THEN [rg["dacs"] EXCEPT ![rg["dac-select"]] = rg["dac-input"]]
                                    ELSE rg[r]
    BY <1>1, <1>2, <2>1
  <2>5. w = [r \in Registers |-> w[r]]
    BY <1>2, <2>1
  <2>6. Written(a, reg, v) = [r \in Ours |-> w[r]]
    <3> HIDE DEF w, a
    <3> QED BY <1>1, <1>2, <2>2, <2>3, <2>4
  <2> HIDE DEF w, a
  <2> QED BY <1>1, <1>3, <2>4, <2>5, <2>6 DEF w, a, Soft
<1>4. CASE reg \in Commands
  <2>1. \/ w = [rg EXCEPT !["event-count"] = 0] /\ Written(a, reg, v) = [a EXCEPT !["event-count"] = 0]
        \/ /\ w = [rg EXCEPT !["running"] = 0, !["live"] = 0]
           /\ Written(a, reg, v) = [a EXCEPT !["running"] = 0, !["live"] = 0]
        \/ w = rg /\ Written(a, reg, v) = a
    <3> HIDE DEF a
    <3> QED BY <1>1, <1>4 DEF Written
  <2>2. Written(a, reg, v) = a
    <3> HIDE DEF w
    <3> QED BY <1>1, <1>2, <2>1
  <2>3. w = [r \in Registers |-> w[r]] /\ \A r \in Ours : w[r] = rg[r]
    BY <1>1, <1>2, <2>1
  <2>4. Soft(w) = a
    BY <2>3 DEF Soft
  <2> HIDE DEF w, a
  <2> QED BY <1>1, <1>4, <2>2, <2>3, <2>4 DEF w, a
<1>5. CASE reg \notin Commands /\ ~(reg = "dac-write" /\ v = 1 /\ rg["dac-write"] = 0)
  <2>1. a["dac-write"] = rg["dac-write"]
    BY <1>1, <1>2
  <2>2. w = [rg EXCEPT ![reg] = v] /\ Written(a, reg, v) = [a EXCEPT ![reg] = v]
    <3> HIDE DEF a
    <3> QED BY <1>1, <1>5, <2>1 DEF Written
  <2>3. reg \in Ours
    BY <1>1, <1>5
  <2>4. w = [r \in Registers |-> w[r]] /\ \A r \in Registers : w[r] = IF r = reg THEN v ELSE rg[r]
    BY <1>1, <1>2, <2>2, <2>3
  <2>5. Written(a, reg, v) = [r \in Ours |-> w[r]]
    <3> HIDE DEF w
    <3> QED BY <1>1, <1>2, <2>2, <2>3, <2>4
  <2> HIDE DEF w, a
  <2> QED BY <1>1, <2>4, <2>5 DEF w, a, Soft
<1> QED BY <1>1, <1>3, <1>4, <1>5

\* A process takes its next step, an access or an answer.
Goes(p) == Access(p) \/ (Take(p) /\ NextIs(p, {"say"}))

\* The step a process takes, as one of its own state.
LEMMA AccessDoes ==
  ASSUME IsFile(regs), todo = [p \in Processes |-> todo[p]], acc = [p \in Processes |-> acc[p]],
         NEW p \in Processes, Goes(p),
         LET s == Head(todo[p])
         IN /\ s.do = "put" => s.reg \in Masks \cup Singles \cup Commands
            /\ s.do \in {"load", "store"} => s.reg \in Masks
  PROVE  /\ regs' = [r \in Registers |-> regs'[r]]
         /\ acc' = [q \in Processes |-> acc'[q]] /\ \A q \in Processes : q # p => acc'[q] = acc[q]
         /\ State(Soft(regs'), acc'[p]) = Does(Head(todo[p]), State(Soft(regs), acc[p]))
<1> DEFINE s == Head(todo[p])
           a == State(Soft(regs), acc[p])
<1>1. a.reg = Soft(regs) /\ a.acc = acc[p] /\ regs = [r \in Registers |-> regs[r]]
  BY DEF State, IsFile
<1>2. Masks \subseteq Ours /\ Ours \subseteq Registers
  BY OursAre DEF Masks, Registers
<1>3. /\ s.do = "put" => s.reg \in Masks \cup Singles \cup Commands
      /\ s.do \in {"load", "store"} => s.reg \in Masks
  OBVIOUS
<1>4. \/ s.do = "put" /\ regs' = Written(regs, s.reg, s.val) /\ acc' = acc
      \/ s.do = "load" /\ acc' = [acc EXCEPT ![p] = regs[s.reg]] /\ regs' = regs
      \/ /\ s.do = "store" /\ acc' = [acc EXCEPT ![p] = {}]
         /\ regs' = [regs EXCEPT ![s.reg] = (acc[p] \cup s.on) \ s.off]
      \/ s.do \in {"fetch", "say"} /\ UNCHANGED <<regs, acc>>
  BY DEF Goes, NextIs, Access, Take
<1> HIDE DEF s, a
<1>5. CASE s.do = "put" /\ regs' = Written(regs, s.reg, s.val) /\ acc' = acc
  <2>1. /\ regs' = [r \in Registers |-> regs'[r]] /\ Soft(regs') = Written(Soft(regs), s.reg, s.val)
    BY <1>3, <1>5, WrittenIs
  <2>2. Does(s, a) = State(Written(a.reg, s.reg, s.val), a.acc)
    BY <1>5 DEF Does
  <2> QED BY <1>1, <1>5, <2>1, <2>2 DEF s, a
<1>6. CASE s.do = "load" /\ acc' = [acc EXCEPT ![p] = regs[s.reg]] /\ regs' = regs
  <2>1. Soft(regs)[s.reg] = regs[s.reg] /\ Soft(regs') = Soft(regs)
    BY <1>2, <1>3, <1>6 DEF Soft
  <2>2. Does(s, a) = State(a.reg, a.reg[s.reg])
    BY <1>6 DEF Does
  <2>3. acc' = [q \in Processes |-> acc'[q]] /\ (\A q \in Processes : q # p => acc'[q] = acc[q])
        /\ acc'[p] = regs[s.reg]
    BY <1>6
  <2> QED BY <1>1, <1>6, <2>1, <2>2, <2>3 DEF s, a
<1>7. CASE /\ s.do = "store" /\ acc' = [acc EXCEPT ![p] = {}]
           /\ regs' = [regs EXCEPT ![s.reg] = (acc[p] \cup s.on) \ s.off]
  <2> DEFINE x == (acc[p] \cup s.on) \ s.off
  <2>1. s.reg \in Ours
    BY <1>2, <1>3, <1>7
  <2>2. regs' = [regs EXCEPT ![s.reg] = x]
    BY <1>7
  <2>3. Does(s, a) = State([a.reg EXCEPT ![s.reg] = x], {})
    BY <1>1, <1>7 DEF Does
  <2> HIDE DEF x
  <2>4. regs' = [r \in Registers |-> regs'[r]] /\ Soft(regs') = [Soft(regs) EXCEPT ![s.reg] = x]
    BY <1>1, <1>2, <2>1, <2>2 DEF Soft
  <2>5. acc' = [q \in Processes |-> acc'[q]] /\ (\A q \in Processes : q # p => acc'[q] = acc[q])
        /\ acc'[p] = {}
    BY <1>7
  <2> QED BY <1>1, <2>3, <2>4, <2>5 DEF s, a
<1>8. CASE s.do \in {"fetch", "say"} /\ UNCHANGED <<regs, acc>>
  <2>1. Does(s, a) = a
    BY <1>8 DEF Does
  <2> QED BY <1>1, <1>8, <2>1 DEF s, a
<1> QED BY <1>4, <1>5, <1>6, <1>7, <1>8

\* Its steps are such as are allowed.
LEMMA NextAllowed ==
  ASSUME NEW X, NEW s, NEW z, AllowedNow(s, z, X), s # <<>>
  PROVE  LET x == Head(s)
         IN /\ x.do = "put" => /\ x.reg \in Masks \cup Singles \cup Commands
                               /\ \/ GoodPut(x, X)
                                  \/ x.reg \in Twice /\ x.val = 1 /\ Awaits(Tail(s), x.reg)
            /\ x.do = "load" => x.reg \in Masks
            /\ x.do = "store" => GoodStore(x, X) /\ AsLoaded(z, x.reg, X)
            /\ \A r : Awaits(s, r) => Puts(x, r) \/ Awaits(Tail(s), r)
<1> DEFINE x == Head(s)
           t == Tail(s)
<1>1. /\ IsSeq(t) /\ 1 \in DOMAIN s /\ x = s[1]
      /\ \A i \in DOMAIN t : t[i] = s[i + 1]
      /\ \A i \in DOMAIN s : i # 1 => i - 1 \in DOMAIN t
  BY TailOf DEF AllowedNow
<1>2. DOMAIN s = 1 .. Len(s) /\ Len(s) \in Nat
  BY Positions DEF AllowedNow
<1>3. ASSUME NEW j \in DOMAIN s, j # 1 PROVE j - 1 \in DOMAIN t /\ t[j - 1] = s[j]
  <2>1. j - 1 \in DOMAIN t /\ (j - 1) + 1 = j
    BY <1>1, <1>2, <1>3
  <2> HIDE DEF t
  <2> QED BY <1>1, <2>1
<1>4. 1 - 1 \notin DOMAIN s
  BY <1>2
<1> HIDE DEF x, t
<1>5. x.do = "put" => /\ x.reg \in Masks \cup Singles \cup Commands
                      /\ GoodPut(x, X) \/ Passing(s, 1)
  BY <1>1 DEF AllowedNow
<1>6. Passing(s, 1) => x.reg \in Twice /\ x.val = 1 /\ Awaits(t, x.reg)
  <2> SUFFICES ASSUME Passing(s, 1) PROVE x.reg \in Twice /\ x.val = 1 /\ Awaits(t, x.reg)
    OBVIOUS
  <2>1. PICK j \in DOMAIN s : j > 1 /\ Puts(s[j], s[1].reg)
    BY DEF Passing
  <2>2. j # 1
    BY <1>2, <2>1
  <2> QED BY <1>1, <1>3, <2>1, <2>2 DEF Passing, Awaits
<1>7. x.do = "load" => x.reg \in Masks
  BY <1>1 DEF AllowedNow
<1>8. x.do = "store" => GoodStore(x, X) /\ AsLoaded(z, x.reg, X)
  BY <1>1, <1>4 DEF AllowedNow
<1>9. \A r : Awaits(s, r) => Puts(x, r) \/ Awaits(t, r)
  BY <1>1, <1>3 DEF Awaits
<1> QED BY <1>5, <1>6, <1>7, <1>8, <1>9 DEF x, t

\* A process takes a step.
LEMMA MixedTakes ==
  ASSUME DialogueType, acc = [p \in Processes |-> acc[p]], NEW X, Mixed(X, regs, todo, acc),
         NEW p \in Processes, Goes(p)
  PROVE  Mixed(X, regs', todo', acc') /\ acc' = [q \in Processes |-> acc'[q]]
<1> DEFINE s == Head(todo[p])
           t == Tail(todo[p])
<1>0. todo[p] # <<>> /\ (Access(p) \/ Take(p))
  BY DEF Goes, NextIs, Access
<1>1. /\ s.do = "put" => /\ s.reg \in Masks \cup Singles \cup Commands
                         /\ \/ GoodPut(s, X)
                            \/ s.reg \in Twice /\ s.val = 1 /\ Awaits(t, s.reg)
      /\ s.do = "load" => s.reg \in Masks
      /\ s.do = "store" => GoodStore(s, X) /\ AsLoaded(acc[p], s.reg, X)
      /\ \A r : Awaits(todo[p], r) => Puts(s, r) \/ Awaits(t, r)
  BY <1>0, NextAllowed DEF Mixed
<1>2. s.do = "store" => s.reg \in Masks
  BY <1>1 DEF GoodStore
<1>3. IsFile(regs) /\ Masks \subseteq Ours /\ Ours \subseteq Registers /\ Commands \cap Ours = {}
      /\ Singles \subseteq Ours /\ "mask" \in Masks /\ Twice \cap Masks = {} /\ Singles \cap Masks = {}
  BY OursAre DEF Masks, Registers, Commands, Mixed, Holding, Singles, Twice
<1>4. /\ todo'[p] = t /\ \A q \in Processes : q # p => todo'[q] = todo[q]
  BY <1>0, TodoAfter DEF DialogueType
<1>5. /\ regs' = [r \in Registers |-> regs'[r]]
      /\ acc' = [q \in Processes |-> acc'[q]] /\ \A q \in Processes : q # p => acc'[q] = acc[q]
  BY <1>1, <1>2, <1>3, AccessDoes DEF DialogueType
<1>6. \/ s.do = "put" /\ regs' = Written(regs, s.reg, s.val) /\ acc' = acc
      \/ s.do = "load" /\ acc' = [acc EXCEPT ![p] = regs[s.reg]] /\ regs' = regs
      \/ /\ s.do = "store" /\ acc' = [acc EXCEPT ![p] = {}]
         /\ regs' = [regs EXCEPT ![s.reg] = (acc[p] \cup s.on) \ s.off]
      \/ s.do \in {"fetch", "say"} /\ UNCHANGED <<regs, acc>>
  BY DEF Goes, NextIs, Access, Take
<1>7. ASSUME NEW q \in Processes PROVE AllowedNow(todo'[q], acc'[q], X)
  <2>1. AllowedNow(todo[q], acc[q], X)
    BY DEF Mixed
  <2>2. CASE q = p
    <3>1. s.do = "load" => AsLoaded(acc'[p], s.reg, X)
      <4> SUFFICES ASSUME s.do = "load" PROVE AsLoaded(acc'[p], s.reg, X)
        OBVIOUS
      <4>1. acc'[p] = regs[s.reg] /\ s.reg \in Masks
        <5> HIDE DEF s
        <5> QED BY <1>1, <1>6
      <4>2. Bitwise(X, s.reg, regs[s.reg]) /\ regs["mask"] \subseteq Bits
        BY <4>1 DEF Mixed, Holding, IsFile
      <4> HIDE DEF s
      <4> QED BY <4>1, <4>2 DEF AsLoaded
    <3> QED BY <1>0, <1>4, <2>1, <2>2, <3>1, AllowedTail
  <2>3. CASE q # p
    BY <1>4, <1>5, <2>1, <2>3
  <2> QED BY <2>2, <2>3
<1>8. \A r : Awaits(t, r) => \E q \in Processes : Awaits(todo'[q], r)
  BY <1>4
<1>9. \A r : (\E q \in Processes : Awaits(todo[q], r)) =>
               Puts(s, r) \/ \E q \in Processes : Awaits(todo'[q], r)
  BY <1>1, <1>4, <1>8
<1> DEFINE OK(r) == \/ Wholly(X, r, regs'[r])
                    \/ r \in Twice /\ regs'[r] = 1 /\ \E q \in Processes : Awaits(todo'[q], r)
<1>10. \A r \in Singles : regs'[r] = regs[r] /\ ~Puts(s, r) => OK(r)
  BY <1>9 DEF Mixed, Holding
<1>11. \A r \in Masks : Bitwise(X, r, regs[r])
  BY DEF Mixed, Holding
<1> HIDE DEF s, t, OK
<1>12. CASE s.do = "put" /\ regs' = Written(regs, s.reg, s.val) /\ acc' = acc
  <2>1. \A r \in Masks \cup Singles : regs'[r] = IF r = s.reg THEN s.val ELSE regs[r]
    BY <1>1, <1>3, <1>12, WrittenIs
  <2>2. ASSUME NEW r \in Singles PROVE OK(r)
    <3>1. CASE r = s.reg /\ GoodPut(s, X)
      BY <2>1, <3>1 DEF OK, GoodPut
    <3>2. CASE r = s.reg /\ s.reg \in Twice /\ s.val = 1 /\ Awaits(t, s.reg)
      BY <1>8, <2>1, <3>2 DEF OK
    <3>3. CASE r # s.reg
      BY <1>10, <2>1, <3>3 DEF Puts
    <3> QED BY <1>1, <1>12, <3>1, <3>2, <3>3
  <2>3. ASSUME NEW r \in Masks PROVE Bitwise(X, r, regs'[r]) /\ (r = "mask" => regs'[r] \subseteq Bits)
    <3>1. CASE r = s.reg
      <4>1. GoodPut(s, X)
        BY <1>1, <1>3, <1>12, <3>1
      <4> QED BY <2>1, <3>1, <4>1 DEF GoodPut
    <3>2. CASE r # s.reg
      BY <1>3, <1>11, <2>1, <3>2 DEF IsFile
    <3> QED BY <3>1, <3>2
  <2> QED BY <1>3, <1>5, <1>7, <2>2, <2>3 DEF Mixed, Holding, IsFile, OK
<1>13. CASE /\ s.do = "store" /\ acc' = [acc EXCEPT ![p] = {}]
            /\ regs' = [regs EXCEPT ![s.reg] = (acc[p] \cup s.on) \ s.off]
  <2> DEFINE x == (acc[p] \cup s.on) \ s.off
  <2>1. \A r \in Masks \cup Singles : regs'[r] = IF r = s.reg THEN x ELSE regs[r]
    BY <1>2, <1>3, <1>13 DEF IsFile
  <2>2. ASSUME NEW r \in Singles PROVE OK(r)
    <3>1. r # s.reg
      BY <1>2, <1>3, <1>13
    <3> HIDE DEF x
    <3> QED BY <1>10, <1>13, <2>1, <3>1 DEF Puts
  <2>3. /\ s.on \subseteq Bits
        /\ \A n \in s.on : \E y \in X : n \in y[s.reg]
        /\ \A n \in s.off : \E y \in X : n \notin y[s.reg]
        /\ \A n \in Bits : \E y \in X : n \in acc[p] <=> n \in y[s.reg]
        /\ s.reg = "mask" => acc[p] \subseteq Bits
    BY <1>1, <1>13 DEF GoodStore, AsLoaded, Bitwise
  <2>4. Bitwise(X, s.reg, x) /\ (s.reg = "mask" => x \subseteq Bits)
    BY <2>3 DEF Bitwise
  <2> HIDE DEF x
  <2>5. ASSUME NEW r \in Masks PROVE Bitwise(X, r, regs'[r]) /\ (r = "mask" => regs'[r] \subseteq Bits)
    <3>1. CASE r = s.reg
      BY <2>1, <2>4, <3>1
    <3>2. CASE r # s.reg
      BY <1>3, <1>11, <2>1, <3>2 DEF IsFile
    <3> QED BY <3>1, <3>2
  <2> QED BY <1>3, <1>5, <1>7, <2>2, <2>5 DEF Mixed, Holding, IsFile, OK
<1>14. CASE s.do # "put" /\ regs' = regs
  <2>1. \A r \in Singles : OK(r)
    BY <1>10, <1>14 DEF Puts
  <2> QED BY <1>3, <1>5, <1>7, <1>11, <1>14, <2>1 DEF Mixed, Holding, OK
<1> QED BY <1>5, <1>6, <1>12, <1>13, <1>14

-----------------------------------------------------------------------------
(* What an operation sends to the converters.                              *)

\* The registers a converter and its input are chosen with, and the write
\* that may send it.
Sending == {"dac-select", "dac-input"}
Starts(x) == Puts(x, "dac-write") /\ x.val = 1

\* Steps s choose what the operations o ask for, and choose before they send.
Chooses(s, o) ==
  \A i \in DOMAIN s, r \in Sending : Puts(s[i], r) => s[i].val \in Wanted(o, r)
Orderly(s) ==
  \A i \in DOMAIN s, r \in Sending :
    Starts(s[i]) => \E j \in DOMAIN s : j < i /\ Puts(s[j], r)
Sends(s, o) == IsSeq(s) /\ Chooses(s, o) /\ Orderly(s)

\* Of some numbers up to n one is the largest.
LEMMA LargestUpTo ==
  ASSUME NEW n \in Nat, NEW T \in SUBSET (1 .. n), T # {}
  PROVE  \E x \in T : \A y \in T : y <= x
<1> DEFINE U == {n - y : y \in T}
<1>1. U \in SUBSET Nat /\ U # {}
  <2>1. PICK t \in T : TRUE
    OBVIOUS
  <2>2. n - t \in U
    BY <2>1
  <2>3. \A y \in T : n - y \in Nat
    OBVIOUS
  <2> QED BY <2>2, <2>3
<1> HIDE DEF U
<1>2. PICK u \in U : \A v \in U : u <= v
  BY <1>1, LeastNumber
<1>3. PICK x \in T : u = n - x
  BY DEF U
<1>4. \A y \in T : n - y \in U
  BY DEF U
<1> QED BY <1>2, <1>3, <1>4

\* Steps that leave a register as it is, whatever it holds, do not put it:
\* the last that did would put the same into registers that differ.
LEMMA LeavesUntouched ==
  ASSUME NEW s, NEW r \in Singles,
         \A f : IsFile(f) => \E x : Allowed(s, {x}) /\ x[r] = f[r]
  PROVE  \A i \in DOMAIN s : ~Puts(s[i], r)
<1> DEFINE T == {i \in DOMAIN s : Puts(s[i], r)}
           f(v) == [PowerUp EXCEPT ![r] = v]
<1> SUFFICES ASSUME T # {} PROVE FALSE
  OBVIOUS
<1>1. r \in Registers /\ r # "mask" /\ "mask" \in Registers
  BY OursAre DEF Singles, Masks, Registers
<1>2. \A v : IsFile(f(v)) /\ f(v)[r] = v
  <2>1. PowerUp["mask"] = {}
    BY <1>1, Zenon DEF PowerUp
  <2>2. PowerUp = [x \in Registers |-> PowerUp[x]]
    BY Zenon DEF PowerUp
  <2> QED BY <1>1, <2>1, <2>2 DEF IsFile
<1>3. \A v : \E x : Allowed(s, {x}) /\ x[r] = v
  <2> HIDE DEF f
  <2>1. ASSUME NEW v PROVE \E x : Allowed(s, {x}) /\ x[r] = v
    <3>1. IsFile(f(v)) /\ f(v)[r] = v
      BY <1>2
    <3>2. PICK x : Allowed(s, {x}) /\ x[r] = f(v)[r]
      BY <3>1
    <3> QED BY <3>1, <3>2
  <2> QED BY <2>1
<1> HIDE DEF f
<1>4. IsSeq(s)
  BY <1>3 DEF Allowed
<1>5. DOMAIN s = 1 .. Len(s) /\ Len(s) \in Nat
  BY <1>4, Positions
<1>6. PICK m \in T : \A j \in T : j <= m
  <2>1. T \in SUBSET (1 .. Len(s))
    BY <1>5
  <2> HIDE DEF T
  <2> QED BY <1>5, <2>1, LargestUpTo
<1>7. m \in DOMAIN s /\ s[m].do = "put" /\ s[m].reg = r
  BY DEF Puts
<1>8. ~Passing(s, m)
  <2> SUFFICES ASSUME Passing(s, m) PROVE FALSE
    OBVIOUS
  <2>1. PICK j \in DOMAIN s : j > m /\ Puts(s[j], s[m].reg)
    BY DEF Passing
  <2>2. j \in T /\ m \in 1 .. Len(s) /\ j \in 1 .. Len(s)
    BY <1>5, <1>7, <2>1
  <2> QED BY <1>6, <2>1, <2>2
<1> HIDE DEF T
<1>9. \A v : s[m].val = v
  <2>1. ASSUME NEW v PROVE s[m].val = v
    <3>1. PICK x : Allowed(s, {x}) /\ x[r] = v
      BY <1>3
    <3>2. GoodPut(s[m], {x})
      BY <1>7, <1>8, <3>1 DEF Allowed
    <3> QED BY <1>7, <3>1, <3>2 DEF GoodPut, Wholly
  <2> QED BY <2>1
<1>10. s[m].val = 0 /\ s[m].val = 1
  BY <1>9
<1> QED BY <1>10

\* Steps that put none of the three registers.
LEMMA UntouchedSends ==
  ASSUME NEW s, NEW o,
         \A f : IsFile(f) =>
           \E x : Allowed(s, {x}) /\ \A r \in Sending \cup {"dac-write"} : x[r] = f[r]
  PROVE  Sends(s, o)
<1>1. \A r \in Sending \cup {"dac-write"} : r \in Singles
  BY OursAre DEF Sending, Singles, Masks
<1>2. ASSUME NEW r \in Sending \cup {"dac-write"} PROVE \A i \in DOMAIN s : ~Puts(s[i], r)
  <2>1. r \in Singles
    BY <1>1
  <2>2. ASSUME NEW f, IsFile(f) PROVE \E x : Allowed(s, {x}) /\ x[r] = f[r]
    BY <2>2
  <2> QED BY <2>1, <2>2, LeavesUntouched
<1>3. IsSeq(s)
  <2>1. \E f : IsFile(f)
    <3>1. "mask" \in Registers
      BY DEF Registers
    <3>2. PowerUp["mask"] = {}
      BY <3>1, Zenon DEF PowerUp
    <3>3. PowerUp = [x \in Registers |-> PowerUp[x]]
      BY Zenon DEF PowerUp
    <3> QED BY <3>2, <3>3 DEF IsFile
  <2> QED BY <2>1 DEF Allowed
<1> QED BY <1>2, <1>3 DEF Sends, Chooses, Orderly, Starts

\* set_counts chooses both before it sends.
LEMMA CountsSend ==
  ASSUME NEW d, NEW x, NEW o, d \in Wanted(o, "dac-select"), x \in Wanted(o, "dac-input"), NEW a
  PROVE  Sends(set_counts(d, x), o) /\ Sends(set_counts(d, x) \o <<Say(a)>>, o)
<1> DEFINE s == set_counts(d, x)
           t == s \o <<Say(a)>>
           Begins(u) ==
             /\ u[1] = Put("dac-select", d) /\ u[2] = Put("dac-input", x)
             /\ \A i \in DOMAIN u : i > 2 => ~Puts(u[i], "dac-select") /\ ~Puts(u[i], "dac-input")
<1>1. s = <<Put("dac-select", d), Put("dac-input", x),
            Put("dac-write", 0), Put("dac-write", 1), Put("dac-write", 0)>>
  BY DEF set_counts
<1>2. /\ \A v, r : r \in Sending => ~Puts(Put("dac-write", v), r)
      /\ \A r : ~Puts(Say(a), r)
  BY DEF Puts, Put, Say, Sending
<1>3. /\ DOMAIN s = 1 .. 5 /\ Len(s) = 5 /\ IsSeq(s)
      /\ s[1] = Put("dac-select", d) /\ s[2] = Put("dac-input", x)
      /\ s[3] = Put("dac-write", 0) /\ s[4] = Put("dac-write", 1) /\ s[5] = Put("dac-write", 0)
  BY <1>1 DEF IsSeq
<1> HIDE DEF s
<1>4. /\ DOMAIN t = 1 .. 6 /\ IsSeq(t)
      /\ t[1] = s[1] /\ t[2] = s[2] /\ t[3] = s[3] /\ t[4] = s[4] /\ t[5] = s[5] /\ t[6] = Say(a)
  <2> DEFINE e == <<Say(a)>>
  <2>1. IsSeq(e) /\ Len(e) = 1 /\ e[1] = Say(a)
    BY Tuples
  <2> HIDE DEF e
  <2>2. /\ IsSeq(s \o e) /\ Len(s \o e) = 6
        /\ \A i \in 1 .. 5 : (s \o e)[i] = s[i]
        /\ (s \o e)[6] = e[1]
    <3>1. /\ IsSeq(s \o e)
          /\ Len(s \o e) = Len(s) + Len(e)
          /\ \A i \in 1 .. Len(s) : (s \o e)[i] = s[i]
          /\ \A i \in Len(s) + 1 .. Len(s) + Len(e) : (s \o e)[i] = e[i - Len(s)]
      BY <1>3, <2>1, Joined
    <3>2. 6 \in Len(s) + 1 .. Len(s) + Len(e) /\ 6 - Len(s) = 1 /\ Len(s) + Len(e) = 6
      BY <1>3, <2>1
    <3> QED BY <1>3, <3>1, <3>2
  <2>4. t = s \o e
    BY DEF e
  <2> HIDE DEF t
  <2>3. DOMAIN t = 1 .. 6
    BY <2>2, <2>4, Positions
  <2> QED BY <2>1, <2>2, <2>3, <2>4
<1> HIDE DEF t
<1>5. Begins(s) /\ Begins(t)
  <2>1. ASSUME NEW i \in 1 .. 6, i > 2 PROVE i \in {3, 4, 5, 6}
    BY <2>1
  <2>2. "dac-select" \in Sending /\ "dac-input" \in Sending
    BY DEF Sending
  <2> QED BY <1>2, <1>3, <1>4, <2>1, <2>2
<1>6. ASSUME NEW u, Begins(u), IsSeq(u), {1, 2} \subseteq DOMAIN u, DOMAIN u \subseteq 1 .. 6
      PROVE  Sends(u, o)
  <2>1. /\ Puts(u[1], "dac-select") /\ ~Puts(u[1], "dac-input") /\ u[1].val = d
        /\ Puts(u[2], "dac-input") /\ ~Puts(u[2], "dac-select") /\ u[2].val = x
        /\ ~Starts(u[1]) /\ ~Starts(u[2])
    BY <1>6 DEF Puts, Put, Starts
  <2>2. \A i \in DOMAIN u : i = 1 \/ i = 2 \/ (i > 2 /\ 1 < i /\ 2 < i)
    BY <1>6
  <2>3. Chooses(u, o)
    BY <1>6, <2>1, <2>2 DEF Chooses, Sending
  <2>4. Orderly(u)
    BY <1>6, <2>1, <2>2 DEF Orderly, Sending
  <2> QED BY <1>6, <2>3, <2>4 DEF Sends
<1>7. Sends(s, o) /\ Sends(t, o)
  <2> HIDE DEF Begins
  <2> QED BY <1>3, <1>4, <1>5, <1>6
<1> QED BY <1>7 DEF s, t

\* A value for every register.
Full(r) == r = [x \in Registers |-> r[x]]

\* None but set-counts touches the three registers.
LEMMA OthersLeave ==
  ASSUME NEW r, Full(r), NEW cmd, NEW arg, NEW n \in Sending \cup {"dac-write"}
  PROVE  /\ AfterVata(cmd, arg, r)[n] = r[n]
         /\ AfterSync(cmd, arg, r)[n] = r[n]
         /\ cmd # "set-counts" => AfterDac(cmd, arg, r)[n] = r[n]
<1>1. /\ n \in Registers
      /\ n \notin {"mask", "hold", "ack-timeout", "disable-hits", "global-enable", "dac-delay"}
  BY DEF Sending, Registers
<1>2. \A g, v, y : Full(y) /\ g # n => [y EXCEPT ![g] = v][n] = y[n]
  BY <1>1 DEF Full
<1>3. AfterVata(cmd, arg, r)[n] = r[n]
  <2> DEFINE on == [r EXCEPT !["mask"] = r["mask"] \cup TriggerBits(cmd, arg)]
             off == [r EXCEPT !["mask"] = r["mask"] \ TriggerBits(cmd, arg)]
  <2>1. /\ cmd \in Enabling => AfterVata(cmd, arg, r) = on
        /\ cmd = "set-hold" /\ arg \in Nat => AfterVata(cmd, arg, r) = [r EXCEPT !["hold"] = arg]
        /\ cmd = "set-ack-timeout" => AfterVata(cmd, arg, r) = [r EXCEPT !["ack-timeout"] = arg]
        /\ cmd \notin Enabling \cup {"set-ack-timeout"} /\ ~(cmd = "set-hold" /\ arg \in Nat) =>
             AfterVata(cmd, arg, r) = off
    BY DEF AfterVata, Enabling
  <2>2. on[n] = r[n] /\ off[n] = r[n]
    BY <1>1, <1>2
  <2> HIDE DEF on, off
  <2> QED BY <1>1, <1>2, <2>1, <2>2 DEF Full
<1>4. AfterSync(cmd, arg, r)[n] = r[n]
  <2>1. \/ \E v : AfterSync(cmd, arg, r) = [r EXCEPT !["disable-hits"] = v]
        \/ \E v : AfterSync(cmd, arg, r) = [r EXCEPT !["global-enable"] = v]
        \/ AfterSync(cmd, arg, r) = r
    BY DEF AfterSync
  <2> QED BY <1>1, <1>2, <2>1 DEF Full
<1>5. cmd # "set-counts" => AfterDac(cmd, arg, r)[n] = r[n]
  <2>1. cmd # "set-counts" => \/ AfterDac(cmd, arg, r) = [r EXCEPT !["dac-delay"] = arg]
                              \/ AfterDac(cmd, arg, r) = r
    BY DEF AfterDac
  <2> QED BY <1>1, <1>2, <2>1 DEF Full
<1> QED BY <1>3, <1>4, <1>5

\* Nor does the pulser touch them.
LEMMA PulserLeaves ==
  ASSUME NEW r, Full(r), NEW cmd, NEW arg, NEW f, NEW n \in Sending \cup {"dac-write"}
  PROVE  /\ AfterCal(cmd, arg, f, r)[n] = r[n]
         /\ Holds(f, r)[n] = r[n] /\ Full(Holds(f, r))
<1>1. /\ n \in Registers
      /\ n \notin {"cal-enable", "pulse-width", "trigger-delay", "repeat-delay", "n-pulses",
                   "cal-init"}
  BY DEF Sending, Registers
<1>2. \A g, v, y : Full(y) /\ g # n => [y EXCEPT ![g] = v][n] = y[n]
  BY <1>1 DEF Full
<1>3. Holds(f, r)[n] = r[n] /\ Full(Holds(f, r))
  BY <1>1 DEF Holds, Full
<1>4. AfterCal(cmd, arg, f, r)[n] = r[n]
  <2> DEFINE y == Holds(f, r)
  <2>1. \/ AfterCal(cmd, arg, f, r) = [y EXCEPT !["n-pulses"] = 0, !["cal-init"] = 1]
        \/ AfterCal(cmd, arg, f, r) = [y EXCEPT !["n-pulses"] = arg, !["cal-init"] = 0]
        \/ AfterCal(cmd, arg, f, r) = [r EXCEPT !["cal-init"] = 0]
        \/ AfterCal(cmd, arg, f, r) = y
        \/ AfterCal(cmd, arg, f, r) = r
    <3>1. CASE cmd = "start-inf"
      BY <3>1 DEF AfterCal, Settings, Flags
    <3>2. CASE cmd = "stop-inf"
      BY <3>2 DEF AfterCal, Settings, Flags
    <3>3. CASE cmd = "n-pulses"
      BY <3>3 DEF AfterCal, Settings, Flags
    <3>4. CASE cmd \notin {"start-inf", "stop-inf", "n-pulses"}
      <4> HIDE DEF y
      <4>1. AfterCal(cmd, arg, f, r) = Holds(f, r) \/ AfterCal(cmd, arg, f, r) = r
        BY <3>4 DEF AfterCal
      <4> QED BY <4>1 DEF y
    <3> QED BY <3>1, <3>2, <3>3, <3>4
  <2>2. y[n] = r[n] /\ Full(y)
    BY <1>3
  <2> HIDE DEF y
  <2>3. \A u, v : [y EXCEPT !["n-pulses"] = u, !["cal-init"] = v][n] = y[n]
    BY <1>1, <2>2 DEF Full
  <2> QED BY <1>1, <1>2, <2>1, <2>2, <2>3 DEF Full
<1> QED BY <1>3, <1>4

\* The steps of a request.
LEMMA RequestSends ==
  ASSUME NEW q, IsRequest(q), NEW f
  PROVE  Sends(Steps(q, f), {[by |-> "server", ask |-> q, f |-> f]})
<1> DEFINE op == [by |-> "server", ask |-> q, f |-> f]
           D == Dacs \X (0 .. MaxInput)
<1>1. op.by = "server" /\ op.ask = q
  OBVIOUS
<1> HIDE DEF op
<1>2. CASE q.group = "dac" /\ q.cmd # Absent /\ q.cmd = "set-counts" /\ q.arg \in D
  <2>1. CountsOf(op) = {q.arg} \cap D
    <3>1. op # Interruption
      BY <1>1 DEF Interruption
    <3> QED BY <1>1, <1>2, <3>1 DEF CountsOf
  <2>2. q.arg \in UNION {CountsOf(o) : o \in {op}}
    BY <1>2, <2>1
  <2>3. q.arg[1] \in Wanted({op}, "dac-select") /\ q.arg[2] \in Wanted({op}, "dac-input")
    BY <2>2 DEF Wanted
  <2>4. Steps(q, f) = set_counts(q.arg[1], q.arg[2]) \o <<Say("ok")>>
    BY <1>2 DEF Steps, DacSteps, OkAfter
  <2> QED BY <2>3, <2>4, CountsSend DEF op
<1>3. CASE ~(q.group = "dac" /\ q.cmd # Absent /\ q.cmd = "set-counts" /\ q.arg \in D)
  <2>1. ASSUME NEW r, IsFile(r)
        PROVE  \E x : Allowed(Steps(q, f), {x}) /\ \A n \in Sending \cup {"dac-write"} : x[n] = r[n]
    <3> DEFINE x == AfterRequest(q, f, r)
    <3>1. Allowed(Steps(q, f), {x})
      <4>1. Fulfils(Steps(q, f), r, x)
        BY <2>1, RequestFulfils
      <4> QED BY <4>1 DEF Fulfils, Performs
    <3>2. Full(r)
      BY <2>1 DEF IsFile, Full
    <3>3. q.group = "dac" /\ q.cmd # Absent /\ q.cmd = "set-counts" => AfterDac(q.cmd, q.arg, r) = r
      BY <1>3 DEF AfterDac
    <3>4. \/ x = AfterVata(q.cmd, q.arg, r) \/ x = AfterSync(q.cmd, q.arg, r)
          \/ x = AfterCal(q.cmd, q.arg, f, r) \/ x = r
          \/ q.cmd # "set-counts" /\ x = AfterDac(q.cmd, q.arg, r)
      BY <3>3, Zenon DEF AfterRequest
    <3> HIDE DEF x
    <3>5. ASSUME NEW n \in Sending \cup {"dac-write"} PROVE x[n] = r[n]
      <4>1. \A cmd, arg : /\ AfterVata(cmd, arg, r)[n] = r[n]
                          /\ AfterSync(cmd, arg, r)[n] = r[n]
                          /\ AfterCal(cmd, arg, f, r)[n] = r[n]
                          /\ cmd # "set-counts" => AfterDac(cmd, arg, r)[n] = r[n]
        BY <3>2, OthersLeave, PulserLeaves
      <4> QED BY <3>4, <4>1
    <3> QED BY <3>1, <3>5
  <2> HIDE DEF op
  <2>2. Sends(Steps(q, f), {op})
    BY <2>1, UntouchedSends
  <2> QED BY <2>2 DEF op
<1> QED BY <1>2, <1>3

\* One call after another.
LEMMA SendsJoined ==
  ASSUME NEW o, NEW s, Sends(s, o), NEW t, Sends(t, o)
  PROVE  Sends(s \o t, o)
<1> DEFINE u == s \o t
           n == Len(s)
<1>1. IsSeq(s) /\ IsSeq(t)
  BY DEF Sends
<1>2. /\ n \in Nat /\ Len(t) \in Nat /\ DOMAIN s = 1 .. n /\ DOMAIN t = 1 .. Len(t)
      /\ IsSeq(u) /\ DOMAIN u = 1 .. n + Len(t)
      /\ \A i \in 1 .. n : u[i] = s[i]
      /\ \A i \in n + 1 .. n + Len(t) : u[i] = t[i - n]
  BY <1>1, Joined, Positions
<1> HIDE DEF u, n
<1>3. ASSUME NEW i \in DOMAIN u
      PROVE  (i \in DOMAIN s /\ u[i] = s[i]) \/ (i - n \in DOMAIN t /\ u[i] = t[i - n])
  BY <1>2
<1>4. Chooses(u, o)
  BY <1>3 DEF Sends, Chooses
<1>5. ASSUME NEW i \in DOMAIN u, NEW r \in Sending, Starts(u[i])
      PROVE  \E j \in DOMAIN u : j < i /\ Puts(u[j], r)
  <2>1. CASE i \in DOMAIN s /\ u[i] = s[i]
    <3>1. PICK j \in DOMAIN s : j < i /\ Puts(s[j], r)
      BY <1>5, <2>1 DEF Sends, Orderly
    <3>2. j \in DOMAIN u /\ u[j] = s[j]
      BY <1>2
    <3> QED BY <3>1, <3>2
  <2>2. CASE i - n \in DOMAIN t /\ u[i] = t[i - n]
    <3>1. PICK j \in DOMAIN t : j < i - n /\ Puts(t[j], r)
      BY <1>5, <2>2 DEF Sends, Orderly
    <3>2. j + n \in DOMAIN u /\ u[j + n] = t[j] /\ j + n < i
      <4>1. j + n \in n + 1 .. n + Len(t) /\ (j + n) - n = j /\ j + n < i
        BY <1>2, <3>1
      <4> QED BY <1>2, <4>1
    <3> QED BY <3>1, <3>2
  <2> QED BY <1>3, <2>1, <2>2
<1>6. Orderly(u)
  BY <1>5 DEF Orderly
<1> QED BY <1>2, <1>4, <1>6 DEF Sends, u

LEMMA SendsFlattened ==
  ASSUME NEW o, NEW ss, IsSeq(ss), \A i \in DOMAIN ss : Sends(ss[i], o)
  PROVE  Sends(FlattenSeq(ss), o)
<1> DEFINE S == UNION {{ss[i][j] : j \in DOMAIN ss[i]} : i \in DOMAIN ss}
           K == {s \in Seq(S) : Sends(s, o)}
<1>1. ASSUME NEW i \in DOMAIN ss PROVE ss[i] \in K
  <2> DEFINE R == {ss[i][j] : j \in DOMAIN ss[i]}
  <2>1. ss[i] \in Seq(R)
    BY OverItself DEF Sends
  <2>2. R \subseteq S
    OBVIOUS
  <2>3. ss[i] \in Seq(S)
    <3> HIDE DEF R, S
    <3> QED BY <2>1, <2>2, SeqMonotonic
  <2> QED BY <2>3
<1>2. <<>> \in K /\ \A u, v \in K : u \o v \in K
  <2> HIDE DEF S
  <2>1. <<>> \in Seq(S) /\ \A u, v \in Seq(S) : u \o v \in Seq(S)
    BY EmptySeq, ConcatProperties
  <2>2. Sends(<<>>, o)
    <3>1. IsSeq(<<>>) /\ DOMAIN <<>> = {}
      BY Tuples
    <3> QED BY <3>1 DEF Sends, Chooses, Orderly
  <2> QED BY <2>1, <2>2, SendsJoined
<1>3. ss \in Seq(K)
  <2> DEFINE R == {ss[i] : i \in DOMAIN ss}
  <2>1. ss \in Seq(R)
    BY OverItself
  <2>2. R \subseteq K
    <3> HIDE DEF K
    <3> QED BY <1>1
  <2> HIDE DEF R, K
  <2> QED BY <2>1, <2>2, SeqMonotonic
<1>4. FlattenSeq(ss) \in K
  <2> HIDE DEF K
  <2> QED BY <1>2, <1>3, FlattenedWithin
<1> QED BY <1>4

\* The steps of a run: of calctrl, and of one of the others option by option.
LEMMA CalRunLeaves ==
  ASSUME NEW opts, NEW r, Full(r), NEW n \in Sending \cup {"dac-write"}
  PROVE  AfterCalRun(opts, r)[n] = r[n]
<1>1. CASE ~CalAccepted(opts)
  BY <1>1 DEF AfterCalRun
<1>2. CASE CalAccepted(opts)
  <2> DEFINE f == GivenBy(opts)
             d == DoneSet(opts, r)
             m == LastOf(opts, "n-pulses")
  <2>1. \/ AfterCalRun(opts, r) = AfterCal("start-inf", Absent, f, r)
        \/ AfterCalRun(opts, r) = AfterCal("stop-inf", Absent, f, d)
        \/ AfterCalRun(opts, r) = AfterCal("n-pulses", m, f, r)
        \/ AfterCalRun(opts, r) = d
    BY <1>2, AfterCalRunIs, Zenon
  <2>2. d[n] = r[n] /\ Full(d)
    <3>1. d = Holds(f, r) \/ d = r
      BY DEF DoneSet
    <3> HIDE DEF f, d
    <3> QED BY <3>1, PulserLeaves
  <2> HIDE DEF f, d, m
  <2>3. \A c, a : AfterCal(c, a, f, d)[n] = d[n] /\ AfterCal(c, a, f, r)[n] = r[n]
    BY <2>2, PulserLeaves
  <2> QED BY <2>1, <2>2, <2>3
<1> QED BY <1>1, <1>2

LEMMA OptionSends ==
  ASSUME NEW tool \in {"vatactrl", "syncctrl", "dacctrl"}, NEW o, OptionUsable(tool, o), NEW more,
         tool = "dacctrl" /\ o.name = "set-counts" =>
           o.arg[1] \in Wanted(more, "dac-select") /\ o.arg[2] \in Wanted(more, "dac-input")
  PROVE  Sends(OptionCall(tool, o), more)
<1>1. CASE tool = "dacctrl" /\ o.name = "set-counts"
  <2>1. OptionCall(tool, o) = set_counts(o.arg[1], o.arg[2])
    BY <1>1 DEF OptionCall, DacCall
  <2> QED BY <1>1, <2>1, CountsSend
<1>2. CASE ~(tool = "dacctrl" /\ o.name = "set-counts")
  <2>1. ASSUME NEW r, IsFile(r)
        PROVE  \E x : Allowed(OptionCall(tool, o), {x}) /\ \A n \in Sending \cup {"dac-write"} : x[n] = r[n]
    <3> DEFINE x == AfterOption(tool, o, r)
    <3>1. Allowed(OptionCall(tool, o), {x})
      <4>1. Fulfils(OptionCall(tool, o), r, x)
        BY <2>1, FulfilsOption
      <4> QED BY <4>1 DEF Fulfils, Performs
    <3>2. Full(r)
      BY <2>1 DEF IsFile, Full
    <3>3. \/ x = AfterVata(o.name, o.arg, r) \/ x = AfterSync(o.name, o.arg, r)
          \/ o.name # "set-counts" /\ x = AfterDac(o.name, o.arg, r)
      BY <1>2 DEF AfterOption
    <3> HIDE DEF x
    <3>4. ASSUME NEW n \in Sending \cup {"dac-write"} PROVE x[n] = r[n]
      <4>1. \A cmd, arg : /\ AfterVata(cmd, arg, r)[n] = r[n]
                          /\ AfterSync(cmd, arg, r)[n] = r[n]
                          /\ cmd # "set-counts" => AfterDac(cmd, arg, r)[n] = r[n]
        BY <3>2, OthersLeave
      <4> QED BY <3>3, <4>1
    <3> QED BY <3>1, <3>4
  <2> QED BY <2>1, UntouchedSends
<1> QED BY <1>1, <1>2

LEMMA RunSends ==
  ASSUME NEW run, IsRun(run)
  PROVE  Sends(ToolSteps(run), {[by |-> "tool", run |-> run]})
<1> DEFINE op == [by |-> "tool", run |-> run]
<1>1. op.by = "tool" /\ op.run = run
  OBVIOUS
<1>2. CASE run.tool = "calctrl"
  <2>1. ASSUME NEW r, IsFile(r)
        PROVE  \E x : Allowed(ToolSteps(run), {x}) /\ \A n \in Sending \cup {"dac-write"} : x[n] = r[n]
    <3> DEFINE x == AfterCalRun(run.opts, r)
    <3>1. Allowed(ToolSteps(run), {x})
      <4>1. PerformsRun(run, r)
        BY <2>1, RunFulfils
      <4>2. Calls([by |-> "tool", run |-> run], r) = {AfterCalRun(run.opts, r)}
        BY <1>2, CallsOfRun
      <4> QED BY <4>1, <4>2 DEF PerformsRun, Performs
    <3>2. \A n \in Sending \cup {"dac-write"} : x[n] = r[n]
      <4>1. Full(r)
        BY <2>1 DEF IsFile, Full
      <4> QED BY <4>1, CalRunLeaves
    <3> HIDE DEF x
    <3> QED BY <3>1, <3>2
  <2> QED BY <2>1, UntouchedSends
<1>3. CASE run.tool # "calctrl"
  <2> DEFINE done == UsablePrefix(run)
             calls == [i \in DOMAIN done |-> OptionCall(run.tool, done[i])]
  <2>1. run.tool \in {"vatactrl", "syncctrl", "dacctrl"} /\ Len(run.opts) \in Nat
    BY <1>3 DEF IsRun
  <2>2. PICK n \in 0 .. Len(run.opts) :
          /\ Done(run) = 1 .. n
          /\ DOMAIN done = 1 .. n
          /\ \A i \in 1 .. n : done[i] = run.opts[i] /\ OptionUsable(run.tool, run.opts[i])
    BY <1>3, DoneAre
  <2>3. ToolSteps(run) = FlattenSeq(calls)
    BY <1>3 DEF ToolSteps, OneByOne
  <2> HIDE DEF done
  <2>4. ASSUME NEW i \in 1 .. n PROVE Sends(OptionCall(run.tool, done[i]), {op})
    <3> DEFINE o == run.opts[i]
    <3>1. ASSUME run.tool = "dacctrl", o.name = "set-counts"
          PROVE  o.arg[1] \in Wanted({op}, "dac-select") /\ o.arg[2] \in Wanted({op}, "dac-input")
      <4>1. op # Interruption
        <5>1. Interruption.by = "end"
          BY DEF Interruption
        <5> HIDE DEF op
        <5> QED BY <1>1, <5>1
      <4> HIDE DEF op
      <4>2. CountsOf(op) = {run.opts[k].arg : k \in {j \in Done(run) : run.opts[j].name = "set-counts"}}
        BY <1>1, <3>1, <4>1 DEF CountsOf
      <4>3. i \in Done(run)
        BY <2>2
      <4>4. o.arg \in CountsOf(op)
        BY <3>1, <4>2, <4>3
      <4>5. o.arg \in UNION {CountsOf(x) : x \in {op}}
        BY <4>4
      <4> QED BY <4>5 DEF Wanted
    <3>2. done[i] = o /\ OptionUsable(run.tool, o)
      BY <2>2
    <3> HIDE DEF o, op
    <3> QED BY <2>1, <3>1, <3>2, OptionSends
  <2>5. IsSeq(calls) /\ DOMAIN calls = 1 .. n
    <3>1. n \in Nat
      BY <2>1
    <3> QED BY <2>2, <3>1 DEF IsSeq
  <2>6. \A i \in DOMAIN calls : Sends(calls[i], {op})
    BY <2>2, <2>4
  <2> HIDE DEF calls, op
  <2> QED BY <2>3, <2>5, <2>6, SendsFlattened DEF op
<1> QED BY <1>2, <1>3

-----------------------------------------------------------------------------
(* The operations begun and the steps of the system.                       *)

\* An operation, of process p, that asks for what its steps do.
Asked(p, op, steps) ==
  /\ op.by = p
  /\ Sends(steps, {op})
  /\ \A r : IsFile(r) => Performs(steps, Calls(op, r), Soft(r), Soft(After(op, r)))

LEMMA RequestAsked ==
  ASSUME NEW q, IsRequest(q), NEW f
  PROVE  Asked("server", [by |-> "server", ask |-> q, f |-> f], Steps(q, f))
<1> DEFINE op == [by |-> "server", ask |-> q, f |-> f]
<1>1. op.by = "server" /\ op.ask = q /\ op.f = f
  OBVIOUS
<1> HIDE DEF op
<1>2. \A r : Calls(op, r) = {AfterRequest(q, f, r)} /\ After(op, r) = AfterRequest(q, f, r)
  <2>1. op # Interruption
    BY <1>1 DEF Interruption
  <2> QED BY <1>1, <2>1 DEF Calls, After
<1>3. \A r : IsFile(r) => Performs(Steps(q, f), {AfterRequest(q, f, r)}, Soft(r), Soft(AfterRequest(q, f, r)))
  BY RequestFulfils DEF Fulfils
<1>4. Sends(Steps(q, f), {op})
  BY RequestSends DEF op
<1> QED BY <1>1, <1>2, <1>3, <1>4 DEF Asked, op

LEMMA RunAsked ==
  ASSUME NEW run, IsRun(run)
  PROVE  Asked("tool", [by |-> "tool", run |-> run], ToolSteps(run))
<1> DEFINE op == [by |-> "tool", run |-> run]
<1>1. op.by = "tool" /\ op.run = run
  OBVIOUS
<1>2. \A r : IsFile(r) => Performs(ToolSteps(run), Calls(op, r), Soft(r), Soft(AfterRun(run, r)))
  BY RunFulfils DEF PerformsRun
<1> HIDE DEF op
<1>3. \A r : After(op, r) = AfterRun(run, r)
  BY <1>1 DEF After
<1>4. Sends(ToolSteps(run), {op})
  BY RunSends DEF op
<1> QED BY <1>1, <1>2, <1>3, <1>4 DEF Asked, op

\* What the steps of the system are, of the registers and the operations.
LEMMA StepIs ==
  ASSUME DialogueInv, [Next]_vars
  PROVE  \/ UNCHANGED <<regs, todo, acc, base, ops>>
         \/ \E p \in Processes : Goes(p)
         \/ Cut("server") /\ server' = "down"
         \/ \E p \in Processes : \E op, steps :
              Begin(p, op, steps) /\ todo[p] = <<>> /\ Asked(p, op, steps)
         \/ \E most, events : Tick(most, events)
<1> DEFINE Still == UNCHANGED <<regs, todo, acc, base, ops>>
<1>1. DialogueType /\ "server" \in Processes /\ "tool" \in Processes
  BY DEF DialogueInv, Processes
<1>2. CASE ServerAccess \/ ToolAccess
  BY <1>1, <1>2 DEF ServerAccess, ToolAccess, Goes
<1>3. CASE AnswerRequest
  BY <1>1, <1>3 DEF AnswerRequest, Goes
<1>4. CASE AnswerAgain \/ ReadNull \/ EmitterFault
  BY <1>4 DEF AnswerAgain, ReadNull, EmitterFault, Die
<1>5. CASE \/ HandleEmit \/ HandleSetConfig \/ PollTimeout \/ HandleHalt \/ Join
           \/ \E c \in session.clients : PollConfig(c)
  <2>1. Still
    BY <1>5 DEF HandleEmit, HandleSetConfig, PollTimeout, HandleHalt, Join, PollConfig, regVars
  <2> QED BY <2>1
<1>6. CASE \/ Restart \/ EmitterLoop
           \/ \E c \in session.clients : GiveUp(c) \/ \E q \in session.requests \cup {Data} : Send(c, q)
  <2>1. Still
    BY <1>6 DEF Restart, Start, EmitterLoop, GiveUp, Send, regVars
  <2> QED BY <2>1
<1>7. ASSUME NEW c \in session.clients, Receive(c)
      PROVE  \/ Still
             \/ \E p \in Processes : \E op, steps :
                  Begin(p, op, steps) /\ todo[p] = <<>> /\ Asked(p, op, steps)
  <2> DEFINE q == pending[c]
             f == IF q.group = "cal" THEN SettingsAfter(q, calctrl) ELSE calctrl
             op == [by |-> "server", ask |-> q, f |-> f]
             steps == Steps(q, f)
  <2>1. /\ q # None /\ server = "recv"
        /\ \/ q \in Own /\ Still
           \/ q \notin Own /\ Begin("server", op, steps)
    BY <1>7 DEF Receive, regVars
  <2>2. q \in Own \/ IsRequest(q)
    <3>1. session \in Sessions /\ q \in Messages
      BY <1>1, <1>7, <2>1 DEF DialogueType, Clients
    <3> QED BY <3>1, MessagesKnown
  <2>3. todo["server"] = <<>>
    BY <2>1 DEF DialogueInv, RequestInv
  <2> HIDE DEF q, f
  <2>4. IsRequest(q) => Asked("server", op, steps)
    BY RequestAsked
  <2> HIDE DEF op, steps
  <2> QED BY <1>1, <2>1, <2>2, <2>3, <2>4
<1>8. ASSUME NEW run \in session.runs, Tool(run)
      PROVE  \E p \in Processes : \E op, steps :
               Begin(p, op, steps) /\ todo[p] = <<>> /\ Asked(p, op, steps)
  <2>1. Begin("tool", [by |-> "tool", run |-> run], ToolSteps(run)) /\ todo["tool"] = <<>>
    BY <1>8 DEF Tool, RunTool
  <2>2. IsRun(run)
    BY <1>1, ServerAssumption DEF ServerAssumption, DialogueType
  <2> QED BY <1>1, <2>1, <2>2, RunAsked
<1>9. CASE Clock
  BY <1>9 DEF Clock
<1>10. CASE UNCHANGED vars
  BY <1>10 DEF vars, regVars
<1> QED BY <1>2, <1>3, <1>4, <1>5, <1>6, <1>7, <1>8, <1>9, <1>10 DEF Next, Server

\* The operations are those going on and some that ended; what they asked for
\* bounds what the registers hold and what is still to be written.
OpsInv ==
  /\ acc = [p \in Processes |-> acc[p]]
  /\ IsFile(base)
  /\ Mixed(Results(base, ops), regs, todo, acc)
  /\ \A p \in Processes : todo[p] # <<>> => \E op \in ops : op.by = p
  /\ Quiet => ops = {} /\ Soft(base) = Soft(regs)

\* The registers are asked for when they are those to begin with.
LEMMA HoldingBase ==
  ASSUME NEW b, NEW rg, IsFile(rg), Soft(b) = Soft(rg), NEW X, b \in X, NEW td
  PROVE  Holding(X, rg, td)
<1>1. Masks \subseteq Ours /\ Singles \subseteq Ours
  BY OursAre DEF Masks, Singles
<1>2. \A r \in Ours : rg[r] = b[r]
  BY DEF Soft
<1> QED BY <1>1, <1>2 DEF Holding, Bitwise, Wholly

\* The histories when nothing goes on.
LEMMA QuietHistories ==
  ASSUME NEW more, Histories(more), Quiet', IsFile(regs')
  PROVE  ops' = {} /\ IsFile(base') /\ Soft(base') = Soft(regs')
<1> DEFINE b == [r \in Registers |-> IF r \in Hardware THEN 0 ELSE regs'[r]]
<1>1. DOMAIN regs' = Registers
  BY DEF IsFile
<1>2. ops' = {} /\ base' = b
  BY <1>1 DEF Histories
<1>3. Ours \subseteq Registers /\ Ours \cap Hardware = {} /\ "mask" \in Ours
  BY OursAre DEF Registers, Hardware
<1>4. b = [r \in Registers |-> b[r]] /\ \A r \in Ours : b[r] = regs'[r]
  BY <1>3
<1> HIDE DEF b
<1>5. IsFile(b) /\ Soft(b) = Soft(regs')
  BY <1>3, <1>4 DEF IsFile, Soft
<1> QED BY <1>2, <1>5

\* When nothing goes on, whatever happened before.
LEMMA OpsQuiet ==
  ASSUME NEW more, Histories(more), Quiet', IsFile(regs'), acc' = [p \in Processes |-> acc'[p]]
  PROVE  OpsInv'
<1>1. ops' = {} /\ IsFile(base') /\ Soft(base') = Soft(regs')
  BY QuietHistories
<1>2. \A p \in Processes : todo'[p] = <<>>
  BY DEF Quiet
<1>3. Holding(Results(base', ops'), regs', todo')
  BY <1>1, HoldingBase DEF Results
<1>4. Mixed(Results(base', ops'), regs', todo', acc')
  BY <1>2, <1>3, AllowedFirst DEF Mixed
<1> QED BY <1>1, <1>2, <1>4 DEF OpsInv

LEMMA OpsInit == Init => OpsInv
<1> SUFFICES ASSUME Init PROVE OpsInv
  OBVIOUS
<1>1. /\ regs = PowerUp /\ base = PowerUp /\ ops = {}
      /\ acc = [p \in Processes |-> acc[p]] /\ \A p \in Processes : todo[p] = <<>>
  BY DEF Init, RegInit
<1>2. IsFile(PowerUp)
  <2>1. PowerUp["mask"] = {}
    <3>1. "mask" \in Registers
      BY DEF Registers
    <3> QED BY <3>1, Zenon DEF PowerUp
  <2>2. PowerUp = [r \in Registers |-> PowerUp[r]]
    BY Zenon DEF PowerUp
  <2> QED BY <2>1, <2>2 DEF IsFile
<1>3. Holding(Results(base, ops), regs, todo)
  BY <1>1, <1>2, HoldingBase DEF Results
<1>4. Mixed(Results(base, ops), regs, todo, acc)
  BY <1>1, <1>3, AllowedFirst DEF Mixed
<1> QED BY <1>1, <1>2, <1>4 DEF OpsInv

\* A process goes on.
LEMMA OpsGoes ==
  ASSUME DialogueType, OpsInv, NEW p \in Processes, Goes(p)
  PROVE  /\ Mixed(Results(base, ops), regs', todo', acc')
         /\ OpsInv'
         /\ Histories({}) /\ IsFile(regs')
<1>1. Histories({}) /\ todo[p] # <<>> /\ (Access(p) \/ Take(p))
  BY DEF Goes, NextIs, Access, Take
<1>2. Mixed(Results(base, ops), regs', todo', acc') /\ acc' = [q \in Processes |-> acc'[q]]
  BY MixedTakes DEF OpsInv
<1>3. IsFile(regs')
  BY <1>2 DEF Mixed, Holding
<1>4. CASE Quiet'
  BY <1>1, <1>2, <1>3, <1>4, OpsQuiet
<1>5. CASE ~Quiet'
  <2>1. ops' = ops /\ base' = base
    BY <1>1, <1>5 DEF Histories
  <2>2. \A q \in Processes : todo'[q] # <<>> => todo[q] # <<>>
    <3>1. \A q \in Processes : q # p => todo'[q] = todo[q]
      BY <1>1, TodoAfter DEF DialogueType
    <3> QED BY <1>1, <3>1
  <2>3. \A q \in Processes : todo'[q] # <<>> => \E op \in ops' : op.by = q
    BY <2>1, <2>2 DEF OpsInv
  <2>4. Mixed(Results(base', ops'), regs', todo', acc') /\ IsFile(base')
    BY <1>2, <2>1 DEF OpsInv
  <2>5. OpsInv'
    BY <1>2, <1>5, <2>3, <2>4 DEF OpsInv
  <2> QED BY <1>1, <1>2, <1>3, <2>5
<1> QED BY <1>1, <1>2, <1>3, <1>4, <1>5

\* The server ends, and what it was in the middle of.
LEMMA OpsCut ==
  ASSUME DialogueType, OpsInv, Cut("server")
  PROVE  OpsInv'
<1> DEFINE more == IF todo["server"] = <<>> THEN {} ELSE {Interruption}
           X == Results(base, ops)
           Y == Results(base, ops \cup more)
<1>1. /\ UNCHANGED <<regs, acc>> /\ Histories(more) /\ "server" \in Processes
      /\ todo'["server"] = <<>> /\ \A q \in Processes : q # "server" => todo'[q] = todo[q]
  BY TodoAfter DEF Cut, DialogueType, Processes
<1>2. IsFile(regs') /\ acc' = [q \in Processes |-> acc'[q]]
  BY <1>1 DEF OpsInv, Mixed, Holding
<1>3. CASE Quiet'
  BY <1>1, <1>2, <1>3, OpsQuiet
<1>4. CASE ~Quiet'
  <2>1. ops' = ops \cup more /\ base' = base
    BY <1>1, <1>4 DEF Histories
  <2>2. X \subseteq Y
    BY DEF Results
  <2>3. todo["server"] # <<>> =>
          \E y \in Y : y = [base EXCEPT !["cal-init"] = 1, !["dac-write"] = 1]
    <3>1. Calls(Interruption, base) = {[base EXCEPT !["cal-init"] = 1, !["dac-write"] = 1]}
      <4>1. Interruption.by # "server"
        BY DEF Interruption
      <4> QED BY <4>1 DEF Calls
    <3>2. todo["server"] # <<>> => Interruption \in ops \cup more
      OBVIOUS
    <3> HIDE DEF more
    <3> QED BY <3>1, <3>2 DEF Results
  <2>4. todo["server"] # <<>> => \A r \in Twice : Wholly(Y, r, 1)
    <3>1. Twice \subseteq Registers
      BY DEF Twice, Registers
    <3>2. base = [r \in Registers |-> base[r]]
      BY DEF OpsInv, IsFile
    <3> HIDE DEF Y
    <3> QED BY <2>3, <3>1, <3>2 DEF Wholly, Twice
  <2>5. Mixed(Y, regs, todo, acc)
    <3> HIDE DEF X, Y
    <3> QED BY <2>2, MixedMore DEF OpsInv, Mixed, X
  <2> HIDE DEF more, X, Y
  <2>6. DOMAIN <<>> = {}
    OBVIOUS
  <2>7. ASSUME NEW r \in Twice, regs[r] = 1, NEW p \in Processes, Awaits(todo[p], r)
        PROVE  Wholly(Y, r, regs[r]) \/ \E q \in Processes : Awaits(todo'[q], r)
    <3>1. CASE p = "server"
      <4>1. todo["server"] # <<>>
        BY <2>6, <2>7, <3>1 DEF Awaits
      <4> QED BY <2>4, <2>7, <4>1
    <3>2. CASE p # "server"
      BY <1>1, <2>7, <3>2
    <3> QED BY <3>1, <3>2
  <2>8. Holding(Y, regs', todo')
    BY <1>1, <2>5, <2>7 DEF Mixed, Holding
  <2>9. Mixed(Y, regs', todo', acc')
    <3>1. ASSUME NEW p \in Processes PROVE AllowedNow(todo'[p], acc'[p], Y)
      <4>1. CASE p = "server"
        BY <1>1, <4>1, AllowedFirst
      <4>2. CASE p # "server"
        BY <1>1, <2>5, <4>2 DEF Mixed
      <4> QED BY <4>1, <4>2
    <3> QED BY <2>8, <3>1 DEF Mixed
  <2>10. \A p \in Processes : todo'[p] # <<>> => \E op \in ops' : op.by = p
    BY <1>1, <2>1 DEF OpsInv
  <2> QED BY <1>2, <1>4, <2>1, <2>9, <2>10 DEF OpsInv, Y
<1> QED BY <1>3, <1>4

\* An operation begins.
LEMMA OpsBegin ==
  ASSUME DialogueType, OpsInv, NEW p \in Processes, NEW op, NEW steps,
         Begin(p, op, steps), todo[p] = <<>>, Asked(p, op, steps)
  PROVE  OpsInv'
<1> DEFINE X == Results(base, ops)
           Y == Results(base, ops \cup {op})
<1>1. /\ UNCHANGED <<regs, acc>> /\ Histories({op})
      /\ todo'[p] = steps /\ \A q \in Processes : q # p => todo'[q] = todo[q]
  BY TodoAfter DEF Begin, DialogueType
<1>2. IsFile(regs') /\ acc' = [q \in Processes |-> acc'[q]]
  BY <1>1 DEF OpsInv, Mixed, Holding
<1>3. CASE Quiet'
  BY <1>1, <1>2, <1>3, OpsQuiet
<1>4. CASE ~Quiet'
  <2>1. ops' = ops \cup {op} /\ base' = base
    BY <1>1, <1>4 DEF Histories
  <2>2. X \subseteq Y /\ Calls(op, base) \subseteq Y
    BY DEF Results
  <2> HIDE DEF X, Y
  <2>3. Mixed(Y, regs, todo, acc)
    BY <2>2, MixedMore DEF OpsInv, Mixed, X
  <2>4. Allowed(steps, Y)
    <3>1. Allowed(steps, Calls(op, base))
      BY DEF Asked, OpsInv, Performs
    <3> QED BY <2>2, <3>1, AllowedMore
  <2>5. DOMAIN <<>> = {}
    OBVIOUS
  <2>6. \A r, q : q \in Processes /\ Awaits(todo[q], r) => Awaits(todo'[q], r)
    BY <1>1, <2>5 DEF Awaits
  <2>7. Holding(Y, regs', todo')
    BY <1>1, <2>3, <2>6 DEF Mixed, Holding
  <2>8. Mixed(Y, regs', todo', acc')
    <3>1. ASSUME NEW q \in Processes PROVE AllowedNow(todo'[q], acc'[q], Y)
      <4>1. CASE q = p
        BY <1>1, <2>4, <4>1, AllowedFirst
      <4>2. CASE q # p
        BY <1>1, <2>3, <4>2 DEF Mixed
      <4> QED BY <4>1, <4>2
    <3> QED BY <2>7, <3>1 DEF Mixed
  <2>9. \A q \in Processes : todo'[q] # <<>> => \E o \in ops' : o.by = q
    BY <1>1, <2>1 DEF OpsInv, Asked
  <2> QED BY <1>2, <1>4, <2>1, <2>8, <2>9 DEF OpsInv, Y
<1> QED BY <1>3, <1>4

\* The counters of the hardware run.
LEMMA TickLeaves ==
  ASSUME IsFile(regs), NEW most, NEW events, Tick(most, events)
  PROVE  /\ UNCHANGED <<todo, acc>> /\ Histories({})
         /\ IsFile(regs') /\ \A r \in Ours : regs'[r] = regs[r]
<1>1. UNCHANGED <<todo, acc>> /\ Histories({})
  BY DEF Tick
<1>2. \/ regs' = [regs EXCEPT !["running"] = regs["running"] + 1, !["live"] = regs["live"] + 1]
      \/ regs' = [regs EXCEPT !["running"] = regs["running"] + 1]
      \/ regs' = [regs EXCEPT !["running"] = regs["running"] + 1, !["event-count"] = regs["event-count"] + 1]
  <2>1. {"running", "live", "event-count"} \subseteq DOMAIN regs
    BY DEF IsFile, Registers
  <2> QED BY <2>1 DEF Tick
<1>3. /\ Ours \subseteq Registers /\ {"event-count", "running", "live"} \cap Ours = {} /\ "mask" \in Ours
      /\ regs = [r \in Registers |-> regs[r]]
  BY OursAre DEF Registers, IsFile
<1>4. regs' = [r \in Registers |-> regs'[r]] /\ \A r \in Ours : regs'[r] = regs[r]
  BY <1>2, <1>3
<1> QED BY <1>1, <1>3, <1>4 DEF IsFile

LEMMA OpsTick ==
  ASSUME OpsInv, NEW most, NEW events, Tick(most, events)
  PROVE  OpsInv'
<1> DEFINE X == Results(base, ops)
<1>1. /\ UNCHANGED <<todo, acc>> /\ Histories({})
      /\ IsFile(regs') /\ \A r \in Ours : regs'[r] = regs[r]
  BY TickLeaves DEF OpsInv, Mixed, Holding
<1>2. CASE Quiet'
  <2>1. acc' = [p \in Processes |-> acc'[p]]
    BY <1>1 DEF OpsInv
  <2> QED BY <1>1, <1>2, <2>1, OpsQuiet
<1>3. CASE ~Quiet'
  <2>1. ops' = ops /\ base' = base
    BY <1>1, <1>3 DEF Histories
  <2> HIDE DEF X
  <2>2. Holding(X, regs', todo')
    <3>1. Masks \subseteq Ours /\ Singles \subseteq Ours
      BY OursAre DEF Masks, Singles
    <3>2. Holding(X, regs, todo)
      BY DEF OpsInv, Mixed, X
    <3> QED BY <1>1, <3>1, <3>2 DEF Holding
  <2>3. Mixed(X, regs', todo', acc')
    BY <1>1, <2>2 DEF OpsInv, Mixed, X
  <2>4. X = Results(base', ops')
    BY <2>1 DEF X
  <2>5. \A p \in Processes : todo'[p] # <<>> => \E op \in ops' : op.by = p
    BY <1>1, <2>1 DEF OpsInv
  <2> QED BY <1>1, <1>3, <2>1, <2>3, <2>4, <2>5 DEF OpsInv
<1> QED BY <1>2, <1>3

LEMMA OpsStep == DialogueInv /\ OpsInv /\ [Next]_vars => OpsInv'
<1> SUFFICES ASSUME DialogueInv, OpsInv, [Next]_vars PROVE OpsInv'
  OBVIOUS
<1>1. DialogueType
  BY DEF DialogueInv
<1>2. CASE UNCHANGED <<regs, todo, acc, base, ops>>
  BY <1>2 DEF OpsInv, Quiet
<1>3. ASSUME NEW p \in Processes, Goes(p) PROVE OpsInv'
  BY <1>1, <1>3, OpsGoes
<1>4. CASE Cut("server")
  BY <1>1, <1>4, OpsCut
<1>5. ASSUME NEW p \in Processes, NEW op, NEW steps,
             Begin(p, op, steps) /\ todo[p] = <<>> /\ Asked(p, op, steps)
      PROVE  OpsInv'
  BY <1>1, <1>5, OpsBegin
<1>6. ASSUME NEW most, NEW events, Tick(most, events) PROVE OpsInv'
  BY <1>6, OpsTick
<1> QED BY <1>2, <1>3, <1>4, <1>5, <1>6, StepIs

\* The operations end with a step of one of them, unless with the server.
LEMMA EndedGoes ==
  ASSUME DialogueInv, [Next]_vars, Ended
  PROVE  \E p \in Processes : Goes(p)
<1>1. DialogueType /\ ~Quiet /\ Quiet' /\ server' # "down"
  BY DEF DialogueInv, Ended
<1>2. todo' # todo
  BY <1>1 DEF Quiet
<1>3. ASSUME NEW p \in Processes, NEW op, NEW steps, Begin(p, op, steps), todo[p] = <<>>
      PROVE  FALSE
  <2>1. \A q \in Processes : q # p => todo'[q] = todo[q]
    BY <1>1, <1>3, TodoAfter DEF DialogueType
  <2> QED BY <1>1, <1>3, <2>1 DEF Quiet
<1>4. \A most, events : ~Tick(most, events)
  BY <1>2 DEF Tick
<1> QED BY <1>1, <1>2, <1>3, <1>4, StepIs

LEMMA RegistersAreAskedStep ==
  ASSUME DialogueInv, OpsInv, [Next]_vars
  PROVE  RegistersAreAsked
<1> SUFFICES ASSUME Ended
    PROVE  LET results == {base} \cup UNION {Calls(op, base) : op \in ops}
               masks == {"mask", "disable-hits"}
           IN /\ \A r \in masks, b \in Bits : \E x \in results : b \in regs'[r] <=> b \in x[r]
              /\ \A r \in Ours \ (masks \cup {"dacs"}) : \E x \in results : regs'[r] = x[r]
  BY DEF RegistersAreAsked
<1> DEFINE X == Results(base, ops)
<1>1. DialogueType /\ \A p \in Processes : todo'[p] = <<>>
  BY DEF DialogueInv, Ended, Quiet
<1>2. Holding(X, regs', todo')
  BY <1>1, EndedGoes, OpsGoes DEF Mixed
<1> HIDE DEF X
<1>3. DOMAIN <<>> = {}
  OBVIOUS
<1>4. \A r, p : p \in Processes => ~Awaits(todo'[p], r)
  BY <1>1, <1>3 DEF Awaits
<1>5. /\ \A r \in Masks : Bitwise(X, r, regs'[r])
      /\ \A r \in Singles : Wholly(X, r, regs'[r])
  BY <1>2, <1>4 DEF Holding
<1>6. /\ \A r \in Masks, b \in Bits : \E x \in X : b \in regs'[r] <=> b \in x[r]
      /\ \A r \in Singles : \E x \in X : regs'[r] = x[r]
  BY <1>5 DEF Bitwise, Wholly
<1> QED BY <1>6 DEF X, Results, Masks, Singles

-----------------------------------------------------------------------------
(* The converters are sent what operations going on ask for.               *)

\* Before a write that may send comes the choice of the converter and of the
\* input, unless they hold what is asked for already.
Ready(s, rg, o) ==
  \A i \in DOMAIN s, r \in Sending :
    Starts(s[i]) => (\E j \in DOMAIN s : j < i /\ Puts(s[j], r)) \/ rg[r] \in Wanted(o, r)

CountsInv ==
  /\ DOMAIN regs["dacs"] = Dacs
  /\ \A p \in Processes : Chooses(todo[p], ops) /\ Ready(todo[p], regs, ops)

\* More may be asked for, and nothing is left to do.
LEMMA WantedMore ==
  ASSUME NEW o, NEW more, o \subseteq more
  PROVE  /\ \A r : Wanted(o, r) \subseteq Wanted(more, r)
         /\ \A s : Chooses(s, o) => Chooses(s, more)
         /\ \A s, rg : Ready(s, rg, o) => Ready(s, rg, more)
<1>1. UNION {CountsOf(op) : op \in o} \subseteq UNION {CountsOf(op) : op \in more}
  OBVIOUS
<1>2. \A r : Wanted(o, r) \subseteq Wanted(more, r)
  BY <1>1 DEF Wanted
<1> QED BY <1>2 DEF Chooses, Ready

LEMMA NothingChosen == \A rg, o : Chooses(<<>>, o) /\ Ready(<<>>, rg, o)
<1>1. DOMAIN <<>> = {}
  OBVIOUS
<1> QED BY <1>1 DEF Chooses, Ready

\* When nothing is left to do, whatever happened before.
LEMMA CountsQuiet ==
  ASSUME Quiet', DOMAIN regs'["dacs"] = Dacs
  PROVE  CountsInv'
BY NothingChosen DEF CountsInv, Quiet

LEMMA CountsInit == Init => CountsInv
<1> SUFFICES ASSUME Init PROVE CountsInv
  OBVIOUS
<1>1. regs = PowerUp /\ \A p \in Processes : todo[p] = <<>>
  BY DEF Init, RegInit
<1>2. PowerUp["dacs"] = [d \in Dacs |-> 0]
  <2>1. "dacs" \in Registers
    BY DEF Registers
  <2> QED BY <2>1, Zenon DEF PowerUp
<1> QED BY <1>1, <1>2, NothingChosen DEF CountsInv

\* A step a process takes: the registers change as it says, and only a write
\* that sends, with the converter and the input chosen, changes a converter.
LEMMA CountsTake ==
  ASSUME OpsInv, NEW p \in Processes, Goes(p)
  PROVE  LET x == Head(todo[p])
         IN /\ \A r \in Sending : regs'[r] = IF Puts(x, r) THEN x.val ELSE regs[r]
            /\ \/ regs'["dacs"] = regs["dacs"]
               \/ /\ Starts(x)
                  /\ regs'["dacs"] = [regs["dacs"] EXCEPT ![regs["dac-select"]] = regs["dac-input"]]
<1> DEFINE x == Head(todo[p])
<1>1. IsFile(regs) /\ AllowedNow(todo[p], acc[p], Results(base, ops)) /\ todo[p] # <<>>
  BY DEF OpsInv, Mixed, Holding, Goes, NextIs, Access
<1>2. /\ x.do = "put" => x.reg \in Masks \cup Singles \cup Commands
      /\ x.do = "store" => x.reg \in Masks
  BY <1>1, NextAllowed DEF GoodStore
<1>3. \/ x.do = "put" /\ regs' = Written(regs, x.reg, x.val)
      \/ x.do = "store" /\ \E v : regs' = [regs EXCEPT ![x.reg] = v]
      \/ x.do \notin {"put", "store"} /\ regs' = regs
  BY DEF Goes, NextIs, Access, Take
<1> HIDE DEF x
<1>4. /\ Sending \subseteq Singles /\ Singles \subseteq Registers /\ "dacs" \in Registers
      /\ "dacs" \notin Masks \cup Singles \cup Commands /\ Masks \cap Sending = {}
      /\ Commands \cap Sending = {} /\ "dac-write" \notin Sending
      /\ {"event-count", "running", "live"} \cap (Sending \cup {"dacs"}) = {}
      /\ "dac-write" \in Registers /\ "dacs" \notin Sending
  BY OursAre DEF Sending, Singles, Masks, Commands, Registers
<1>5. regs = [r \in Registers |-> regs[r]]
  BY <1>1 DEF IsFile
<1>6. CASE x.do = "put" /\ regs' = Written(regs, x.reg, x.val)
  <2>1. \A r \in Sending : regs'[r] = IF Puts(x, r) THEN x.val ELSE regs[r]
    BY <1>1, <1>2, <1>4, <1>6, WrittenIs DEF Puts
  <2>2. CASE x.reg = "dac-write" /\ x.val = 1 /\ regs["dac-write"] = 0
    <3>1. regs' = [regs EXCEPT !["dac-write"] = 1, !["dacs"][regs["dac-select"]] = regs["dac-input"]]
      BY <1>6, <2>2 DEF Written
    <3>2. regs'["dacs"] = [regs["dacs"] EXCEPT ![regs["dac-select"]] = regs["dac-input"]]
      BY <1>4, <1>5, <3>1
    <3> QED BY <1>6, <2>1, <2>2, <3>2 DEF Starts, Puts, x
  <2>3. CASE ~(x.reg = "dac-write" /\ x.val = 1 /\ regs["dac-write"] = 0)
    <3>1. \/ regs' = [regs EXCEPT !["event-count"] = 0]
          \/ regs' = [regs EXCEPT !["running"] = 0, !["live"] = 0]
          \/ regs' = regs
          \/ regs' = [regs EXCEPT ![x.reg] = x.val]
      BY <1>6, <2>3 DEF Written
    <3>2. x.reg # "dacs"
      BY <1>2, <1>4, <1>6
    <3>3. regs'["dacs"] = regs["dacs"]
      BY <1>4, <1>5, <3>1, <3>2
    <3> QED BY <2>1, <3>3 DEF x
  <2> QED BY <2>2, <2>3
<1>7. CASE x.do = "store" /\ \E v : regs' = [regs EXCEPT ![x.reg] = v]
  <2>1. \A r \in Sending \cup {"dacs"} : regs'[r] = regs[r]
    BY <1>2, <1>4, <1>5, <1>7
  <2> QED BY <1>7, <2>1 DEF Puts, x
<1>8. CASE x.do \notin {"put", "store"} /\ regs' = regs
  BY <1>8 DEF Puts, x
<1> QED BY <1>3, <1>6, <1>7, <1>8

\* A converter changes only as it is asked to.
LEMMA CountsChange ==
  ASSUME OpsInv, CountsInv, NEW p \in Processes, Goes(p)
  PROVE  /\ DOMAIN regs'["dacs"] = Dacs
         /\ \A d \in Dacs : regs'["dacs"][d] # regs["dacs"][d] =>
              d \in Wanted(ops, "dac-select") /\ regs'["dacs"][d] \in Wanted(ops, "dac-input")
<1> DEFINE x == Head(todo[p])
           f == regs["dacs"]
<1>1. \/ regs'["dacs"] = f
      \/ Starts(x) /\ regs'["dacs"] = [f EXCEPT ![regs["dac-select"]] = regs["dac-input"]]
  BY CountsTake
<1>2. 1 \in DOMAIN todo[p] /\ x = todo[p][1] /\ DOMAIN todo[p] = 1 .. Len(todo[p])
      /\ Len(todo[p]) \in Nat
  <2>1. IsSeq(todo[p]) /\ todo[p] # <<>>
    BY DEF OpsInv, Mixed, AllowedNow, Goes, NextIs, Access
  <2> QED BY <2>1, TailOf, Positions
<1>3. Ready(todo[p], regs, ops) /\ DOMAIN f = Dacs
  BY DEF CountsInv
<1> HIDE DEF x, f
<1>4. ~\E j \in DOMAIN todo[p] : j < 1
  BY <1>2
<1>5. Starts(x) => \A r \in Sending : regs[r] \in Wanted(ops, r)
  BY <1>2, <1>3, <1>4 DEF Ready
<1>6. DOMAIN regs'["dacs"] = Dacs
  BY <1>1, <1>3
<1>7. ASSUME NEW d \in Dacs, regs'["dacs"][d] # f[d]
      PROVE  d \in Wanted(ops, "dac-select") /\ regs'["dacs"][d] \in Wanted(ops, "dac-input")
  <2>1. Starts(x) /\ d = regs["dac-select"] /\ regs'["dacs"][d] = regs["dac-input"]
    BY <1>1, <1>3, <1>7
  <2> QED BY <1>5, <2>1 DEF Sending
<1> QED BY <1>6, <1>7 DEF f

\* A process goes on: what it puts is asked for.
LEMMA CountsGoes ==
  ASSUME DialogueType, OpsInv, CountsInv, NEW p \in Processes, Goes(p)
  PROVE  CountsInv'
<1> DEFINE s == todo[p]
           t == Tail(todo[p])
<1>1. Histories({}) /\ s # <<>> /\ (Access(p) \/ Take(p)) /\ IsSeq(s)
  BY DEF Goes, NextIs, Access, Take, OpsInv, Mixed, AllowedNow
<1>2. todo'[p] = t /\ \A q \in Processes : q # p => todo'[q] = todo[q]
  BY <1>1, TodoAfter DEF DialogueType
<1>3. \A r \in Sending : regs'[r] = IF Puts(Head(s), r) THEN Head(s).val ELSE regs[r]
  BY CountsTake
<1>4. DOMAIN regs'["dacs"] = Dacs
  BY CountsChange
<1>5. CASE Quiet'
  BY <1>4, <1>5, CountsQuiet
<1>6. CASE ~Quiet'
  <2>1. ops' = ops
    BY <1>1, <1>6 DEF Histories
  <2>2. /\ Chooses(s, ops) /\ Ready(s, regs, ops)
        /\ \A q \in Processes : Chooses(todo[q], ops) /\ Ready(todo[q], regs, ops)
    BY DEF CountsInv
  <2>3. /\ 1 \in DOMAIN s /\ Head(s) = s[1] /\ DOMAIN s = 1 .. Len(s) /\ Len(s) \in Nat
        /\ \A i \in DOMAIN t : i + 1 \in DOMAIN s /\ t[i] = s[i + 1]
        /\ \A i \in DOMAIN s : i # 1 => i - 1 \in DOMAIN t
        /\ DOMAIN t = 1 .. Len(t) /\ Len(t) \in Nat
    BY <1>1, TailOf, Positions
  <2> HIDE DEF s, t
  <2>4. \A r \in Sending : regs'[r] = regs[r] \/ regs'[r] \in Wanted(ops, r)
    BY <1>3, <2>2, <2>3 DEF Chooses
  <2>5. \A q \in Processes : Ready(todo[q], regs', ops)
    BY <2>2, <2>4 DEF Ready
  <2>6. Chooses(t, ops)
    BY <2>2, <2>3 DEF Chooses
  <2>7. ASSUME NEW i \in DOMAIN t, NEW r \in Sending, Starts(t[i])
        PROVE  (\E j \in DOMAIN t : j < i /\ Puts(t[j], r)) \/ regs'[r] \in Wanted(ops, r)
    <3>1. (\E j \in DOMAIN s : j < i + 1 /\ Puts(s[j], r)) \/ regs[r] \in Wanted(ops, r)
      BY <2>2, <2>3, <2>7 DEF Ready
    <3>2. CASE regs[r] \in Wanted(ops, r)
      BY <2>4, <3>2
    <3>3. ASSUME NEW j \in DOMAIN s, j < i + 1, Puts(s[j], r)
          PROVE  (\E k \in DOMAIN t : k < i /\ Puts(t[k], r)) \/ regs'[r] \in Wanted(ops, r)
      <4>1. CASE j = 1
        BY <1>3, <2>2, <2>3, <3>3, <4>1 DEF Chooses
      <4>2. CASE j # 1
        <5>1. j - 1 \in DOMAIN t /\ j - 1 < i /\ (j - 1) + 1 = j
          BY <2>3, <3>3, <4>2
        <5>2. t[j - 1] = s[j]
          BY <2>3, <5>1
        <5> QED BY <3>3, <5>1, <5>2
      <4> QED BY <4>1, <4>2
    <3> QED BY <3>1, <3>2, <3>3
  <2>8. Ready(t, regs', ops)
    BY <2>7 DEF Ready
  <2>9. \A q \in Processes : Chooses(todo'[q], ops) /\ Ready(todo'[q], regs', ops)
    BY <1>2, <2>2, <2>5, <2>6, <2>8
  <2> QED BY <1>4, <2>1, <2>9 DEF CountsInv
<1> QED BY <1>5, <1>6

\* The other steps of the system.
LEMMA CountsStep == DialogueInv /\ OpsInv /\ CountsInv /\ [Next]_vars => CountsInv'
<1> SUFFICES ASSUME DialogueInv, OpsInv, CountsInv, [Next]_vars PROVE CountsInv'
  OBVIOUS
<1>1. DialogueType /\ DOMAIN regs["dacs"] = Dacs
  BY DEF DialogueInv, CountsInv
<1>2. CASE UNCHANGED <<regs, todo, acc, base, ops>>
  BY <1>2 DEF CountsInv
<1>3. ASSUME NEW p \in Processes, Goes(p) PROVE CountsInv'
  BY <1>1, <1>3, CountsGoes
<1>4. CASE Cut("server")
  <2>1. /\ regs' = regs /\ todo'["server"] = <<>>
        /\ \A q \in Processes : q # "server" => todo'[q] = todo[q]
        /\ \E more : Histories(more)
    BY <1>1, <1>4, TodoAfter DEF Cut, DialogueType, Processes
  <2>2. CASE Quiet'
    BY <1>1, <2>1, <2>2, CountsQuiet
  <2>3. CASE ~Quiet'
    <3>1. ops \subseteq ops'
      BY <2>1, <2>3 DEF Histories
    <3>2. \A q \in Processes : Chooses(todo'[q], ops) /\ Ready(todo'[q], regs', ops)
      BY <2>1, NothingChosen DEF CountsInv
    <3>3. \A q \in Processes : Chooses(todo'[q], ops') /\ Ready(todo'[q], regs', ops')
      BY <3>1, <3>2, WantedMore
    <3> QED BY <1>1, <2>1, <3>3 DEF CountsInv
  <2> QED BY <2>2, <2>3
<1>5. ASSUME NEW p \in Processes, NEW op, NEW steps,
             Begin(p, op, steps) /\ todo[p] = <<>> /\ Asked(p, op, steps)
      PROVE  CountsInv'
  <2>1. /\ regs' = regs /\ Histories({op})
        /\ todo'[p] = steps /\ \A q \in Processes : q # p => todo'[q] = todo[q]
    BY <1>1, <1>5, TodoAfter DEF Begin, DialogueType
  <2>2. CASE Quiet'
    BY <1>1, <2>1, <2>2, CountsQuiet
  <2>3. CASE ~Quiet'
    <3>1. ops' = ops \cup {op}
      BY <2>1, <2>3 DEF Histories
    <3>2. ops \subseteq ops' /\ {op} \subseteq ops'
      BY <3>1
    <3>3. \A q \in Processes : Chooses(todo[q], ops') /\ Ready(todo[q], regs', ops')
      BY <2>1, <3>2, WantedMore DEF CountsInv
    <3>4. Chooses(steps, {op}) /\ Ready(steps, regs', {op})
      BY <1>5 DEF Asked, Sends, Orderly, Ready
    <3>5. Chooses(steps, ops') /\ Ready(steps, regs', ops')
      BY <3>2, <3>4, WantedMore
    <3>6. \A q \in Processes : Chooses(todo'[q], ops') /\ Ready(todo'[q], regs', ops')
      BY <2>1, <3>3, <3>5
    <3> QED BY <1>1, <2>1, <3>6 DEF CountsInv
  <2> QED BY <2>2, <2>3
<1>6. ASSUME NEW most, NEW events, Tick(most, events) PROVE CountsInv'
  <2>1. todo' = todo /\ Histories({}) /\ \A r \in Ours : regs'[r] = regs[r]
    BY <1>6, TickLeaves DEF OpsInv, Mixed, Holding
  <2>2. "dacs" \in Ours /\ Sending \subseteq Ours
    BY OursAre DEF Sending
  <2>3. CASE Quiet'
    BY <1>1, <2>1, <2>2, <2>3, CountsQuiet
  <2>4. CASE ~Quiet'
    <3>1. ops' = ops
      BY <2>1, <2>4 DEF Histories
    <3> QED BY <2>1, <2>2, <3>1 DEF CountsInv, Ready
  <2> QED BY <2>3, <2>4
<1> QED BY <1>2, <1>3, <1>4, <1>5, <1>6, StepIs

LEMMA CountsAreAskedStep ==
  ASSUME DialogueInv, OpsInv, CountsInv, [Next]_vars, NEW d \in Dacs,
         regs'["dacs"][d] # regs["dacs"][d]
  PROVE  d \in Wanted(ops, "dac-select") /\ regs'["dacs"][d] \in Wanted(ops, "dac-input")
<1>1. regs'["dacs"] # regs["dacs"]
  OBVIOUS
<1>2. CASE \E p \in Processes : Goes(p)
  BY <1>2, CountsChange
<1>3. CASE Cut("server") \/ UNCHANGED <<regs, todo, acc, base, ops>>
  BY <1>1, <1>3 DEF Cut
<1>4. ASSUME NEW p, NEW op, NEW steps, Begin(p, op, steps) PROVE FALSE
  BY <1>1, <1>4 DEF Begin
<1>5. ASSUME NEW most, NEW events, Tick(most, events) PROVE FALSE
  <2>1. \A r \in Ours : regs'[r] = regs[r]
    BY <1>5, TickLeaves DEF OpsInv, Mixed, Holding
  <2>2. "dacs" \in Ours
    BY OursAre
  <2> QED BY <1>1, <2>1, <2>2
<1> QED BY <1>2, <1>3, <1>4, <1>5, StepIs

\* Operations that overlap, of the server and of a tool, may lose a change of
\* one another, the read and the write of a mask being apart, but when they
\* have ended each bit of a mask and each register written as a whole is as
\* it was before them all or as one of their calls would leave it
\* (VataCtrl, SyncCtrl, CalCtrl, DacCtrl).  Between the choice of a converter,
\* the write of its input and the pulse that sends it, another process may
\* choose and write in DacCtrl::set_counts: a converter may get the counts
\* meant for another, but it is always one that an operation going on is to
\* set, and they are always counts that one of those going on gave.
THEOREM OnlyWhatWasAsked == Spec => NobodyElses
<1>1. DialogueInv /\ OpsInv /\ [Next]_vars => RegistersAreAsked
  BY RegistersAreAskedStep
<1>2. DialogueInv /\ OpsInv /\ CountsInv /\ [Next]_vars => CountsAreAsked
  BY CountsAreAskedStep DEF CountsAreAsked
<1> QED BY DialogueInit, DialogueStep, OpsInit, OpsStep, CountsInit, CountsStep, <1>1, <1>2, PTL
        DEF Spec, NobodyElses

-----------------------------------------------------------------------------
(* An operation that nothing came between keeps the contract.              *)

\* What is still to do of the only operation leads to what it promises.
AloneInv ==
  \A op \in ops, p \in Processes :
    ops = {op} /\ todo[p] # <<>> =>
      \E y : Leads(todo[p], State(Soft(regs), acc[p]), State(Soft(After(op, base)), y))

LEMMA AloneTakes ==
  ASSUME DialogueType, OpsInv, AloneInv, NEW p \in Processes, Goes(p), NEW op \in ops, ops = {op}
  PROVE  /\ \E y : Leads(todo'[p], State(Soft(regs'), acc'[p]), State(Soft(After(op, base)), y))
         /\ \A q \in Processes : q # p => todo'[q] = <<>>
<1> DEFINE s == todo[p]
           b(y) == State(Soft(After(op, base)), y)
<1>1. s # <<>> /\ (Access(p) \/ Take(p))
  BY DEF Goes, NextIs, Access
<1>2. todo'[p] = Tail(s) /\ \A q \in Processes : q # p => todo'[q] = todo[q]
  BY <1>1, TodoAfter DEF DialogueType
<1>3. AllowedNow(s, acc[p], Results(base, ops)) /\ IsSeq(s)
  BY DEF OpsInv, Mixed, AllowedNow
<1>4. PICK y : Leads(s, State(Soft(regs), acc[p]), b(y))
  BY <1>1 DEF AloneInv
<1> HIDE DEF s, b
<1>5. LET x == Head(s)
      IN /\ x.do = "put" => x.reg \in Masks \cup Singles \cup Commands
         /\ x.do \in {"load", "store"} => x.reg \in Masks
  BY <1>1, <1>3, NextAllowed DEF GoodStore
<1>6. State(Soft(regs'), acc'[p]) = Does(Head(s), State(Soft(regs), acc[p]))
  BY <1>5, AccessDoes DEF OpsInv, Mixed, Holding, DialogueType, s
<1>7. Leads(Tail(s), State(Soft(regs'), acc'[p]), b(y))
  BY <1>1, <1>3, <1>4, <1>6, LeadsTail
<1>8. \A q \in Processes : q # p => todo[q] = <<>>
  BY <1>1 DEF OpsInv, s
<1> QED BY <1>2, <1>7, <1>8 DEF b

LEMMA AloneInit == Init => AloneInv
BY DEF Init, RegInit, AloneInv

LEMMA AloneStep == DialogueInv /\ OpsInv /\ AloneInv /\ [Next]_vars => AloneInv'
<1> SUFFICES ASSUME DialogueInv, OpsInv, AloneInv, [Next]_vars,
                    NEW op \in ops', NEW p \in Processes, ops' = {op}, todo'[p] # <<>>
             PROVE  \E y : Leads(todo'[p], State(Soft(regs'), acc'[p]),
                                 State(Soft(After(op, base')), y))
  BY DEF AloneInv
<1>1. DialogueType /\ ~Quiet' /\ "server" \in Processes
  BY DEF DialogueInv, Quiet, Processes
<1>2. CASE UNCHANGED <<regs, todo, acc, base, ops>>
  BY <1>2 DEF AloneInv
<1>3. ASSUME NEW q \in Processes, Goes(q)
      PROVE  \E y : Leads(todo'[p], State(Soft(regs'), acc'[p]),
                          State(Soft(After(op, base')), y))
  <2>1. ops' = ops /\ base' = base
    <3>1. Histories({})
      BY <1>3 DEF Goes, Access, Take
    <3> QED BY <1>1, <3>1 DEF Histories
  <2>2. /\ \E y : Leads(todo'[q], State(Soft(regs'), acc'[q]), State(Soft(After(op, base)), y))
        /\ \A r \in Processes : r # q => todo'[r] = <<>>
    BY <1>1, <1>3, <2>1, AloneTakes
  <2> QED BY <2>1, <2>2
<1>4. ASSUME Cut("server")
      PROVE  \E y : Leads(todo'[p], State(Soft(regs'), acc'[p]),
                          State(Soft(After(op, base')), y))
  <2> DEFINE more == IF todo["server"] = <<>> THEN {} ELSE {Interruption}
  <2>1. /\ UNCHANGED <<regs, acc>> /\ Histories(more)
        /\ todo'["server"] = <<>> /\ \A q \in Processes : q # "server" => todo'[q] = todo[q]
    BY <1>1, <1>4, TodoAfter DEF Cut, DialogueType
  <2>2. ops' = ops \cup more /\ base' = base
    BY <1>1, <2>1 DEF Histories
  <2>3. todo["server"] = <<>>
    <3> SUFFICES ASSUME todo["server"] # <<>> PROVE FALSE
      OBVIOUS
    <3>1. PICK o \in ops : o.by = "server"
      BY <1>1 DEF OpsInv
    <3>2. o = Interruption
      BY <2>2, <3>1
    <3> QED BY <3>1, <3>2 DEF Interruption
  <2>4. ops' = ops /\ todo'[p] = todo[p]
    BY <2>1, <2>2, <2>3
  <2> QED BY <2>1, <2>2, <2>4 DEF AloneInv
<1>5. ASSUME NEW q \in Processes, NEW o, NEW steps,
             Begin(q, o, steps) /\ todo[q] = <<>> /\ Asked(q, o, steps)
      PROVE  \E y : Leads(todo'[p], State(Soft(regs'), acc'[p]),
                          State(Soft(After(op, base')), y))
  <2>1. /\ UNCHANGED <<regs, acc>> /\ Histories({o})
        /\ todo'[q] = steps /\ \A r \in Processes : r # q => todo'[r] = todo[r]
    BY <1>1, <1>5, TodoAfter DEF Begin, DialogueType
  <2>2. ops' = ops \cup {o} /\ base' = base
    BY <1>1, <2>1 DEF Histories
  <2>3. op = o /\ ops \subseteq {o} /\ o.by = q
    BY <1>5, <2>2 DEF Asked
  <2>4. \A r \in Processes : todo[r] = <<>>
    BY <1>5, <2>3 DEF OpsInv
  <2>5. p = q
    BY <2>1, <2>4
  <2>6. Soft(base) = Soft(regs) /\ IsFile(base)
    BY <2>4 DEF OpsInv, Quiet
  <2>7. Makes(steps, Soft(base), Soft(After(o, base)))
    BY <1>5, <2>6 DEF Asked, Performs
  <2> QED BY <2>1, <2>2, <2>3, <2>5, <2>6, <2>7 DEF Makes
<1>6. ASSUME NEW most, NEW events, Tick(most, events)
      PROVE  \E y : Leads(todo'[p], State(Soft(regs'), acc'[p]),
                          State(Soft(After(op, base')), y))
  <2>1. /\ UNCHANGED <<todo, acc>> /\ Histories({})
        /\ \A r \in Ours : regs'[r] = regs[r]
    BY <1>6, TickLeaves DEF OpsInv, Mixed, Holding
  <2>2. ops' = ops /\ base' = base
    BY <1>1, <2>1 DEF Histories
  <2>3. Soft(regs') = Soft(regs)
    BY <2>1 DEF Soft
  <2> QED BY <2>1, <2>2, <2>3 DEF AloneInv
<1> QED BY <1>2, <1>3, <1>4, <1>5, <1>6, StepIs

LEMMA AloneAsAskedStep ==
  ASSUME DialogueInv, OpsInv, AloneInv, [Next]_vars, Ended, NEW op \in ops, ops = {op}
  PROVE  \A r \in Ours : regs'[r] = After(op, base)[r]
<1>1. DialogueType /\ \A p \in Processes : todo'[p] = <<>>
  BY DEF DialogueInv, Ended, Quiet
<1>2. PICK p \in Processes : Goes(p)
  BY EndedGoes
<1>3. PICK y : Leads(<<>>, State(Soft(regs'), acc'[p]), State(Soft(After(op, base)), y))
  BY <1>1, <1>2, AloneTakes
<1>4. State(Soft(regs'), acc'[p]) = State(Soft(After(op, base)), y)
  BY <1>3, LeadsNowhere
<1>5. Soft(regs') = Soft(After(op, base))
  BY <1>4 DEF State
<1> QED BY <1>5 DEF Soft

\* A request or a run of a tool that nothing came between leaves the registers
\* as the contract says, whatever they were, however many accesses it is made
\* of and whether it was answered first or last (LayerServer::process_req and
\* the tools' parse_args, with the library's calls).
THEOREM AloneKeepsContract == Spec => AloneAsAsked
<1>1. DialogueInv /\ OpsInv /\ AloneInv /\ [Next]_vars =>
        (Ended => \A op \in ops : ops = {op} => \A r \in Ours : regs'[r] = After(op, base)[r])
  BY AloneAsAskedStep
<1> QED BY DialogueInit, DialogueStep, OpsInit, OpsStep, AloneInit, AloneStep, <1>1,
           PTL DEF Spec, AloneAsAsked

=============================================================================
