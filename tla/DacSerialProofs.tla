-------------------------- MODULE DacSerialProofs --------------------------
(***************************************************************************)
(* What DacSerial promises for words of any length, of which all DACs hear *)
(* any part, for any delays and whenever the library calls.                *)
(***************************************************************************)
EXTENDS DacSerial, TLAPS

-----------------------------------------------------------------------------
(* The inductive invariant.                                                *)

Registers == [input : Word, delay : Nat, select : Dacs \cup {"none"}, write : BOOLEAN]
Lines == {"input", "write 0", "write 1", "write 0 again", "sleep"}
Calls == [line : {"none"}, slept : {0}, clean : BOOLEAN] \cup
         [line : Lines, slept : Nat, dac : Dacs, word : Word, clean : BOOLEAN]

TypeOK ==
  /\ step \in 0 .. Last
  /\ count \in Nat
  /\ reg \in Registers
  /\ call \in Calls
  /\ dac \in [Dacs -> [bits : Seq({0, 1}), held : Word]]
  /\ sure \in [DOMAIN sure -> Word] /\ DOMAIN sure \subseteq Dacs

\* How many bits have been clocked out in a state of the transfer.
Clocked(s) == IF s \in BitSteps THEN (s - FirstBit + 1) \div 2 ELSE 0

\* No DAC has seen more bits than were clocked out.
BitsInv == \A d \in Dacs : Len(dac[d].bits) <= Clocked(step)

\* The write bit is set between the library's last two lines.
WriteInv == reg.write <=> call.line = "write 0 again"

\* The DACs of which something is known are not selected, unless nothing is
\* going on.
SureInv ==
  \A d \in DOMAIN sure :
    /\ dac[d].held = sure[d]
    /\ d = reg.select => step = Idle /\ call.line = "none"

\* A call that began on an idle interface has it for itself: the registers are
\* as it wrote them, the transfer begins with its last lines, the DAC sees just
\* the bits of the call's word, and holds it once the last bit is out.
CleanInv ==
  call.clean =>
    /\ step # Idle => call.line \in {"write 0 again", "sleep"}
    /\ call.line # "none" => reg.select = call.dac /\ call.dac \notin DOMAIN sure
    /\ call.line \notin {"none", "input"} => reg.input = call.word
    /\ call.line # "none" =>
         /\ Len(dac[call.dac].bits) = Clocked(step)
         /\ \A k \in 1 .. Clocked(step) : dac[call.dac].bits[k] = call.word[k]
    /\ \/ step > FirstBit + 2 * Bits - 2 /\ call.line # "none"
       \/ step = Idle /\ call.line = "sleep"
       => dac[call.dac].held = call.word

\* A call that found the interface busy leaves nothing known.
DirtyInv == ~call.clean /\ call.line # "none" => sure = [e \in {} |-> 0]

\* A DAC that has seen every bit of the transfer so far has each from what the
\* input register held in it.
HeardInv ==
  /\ reg.input \in heard
  /\ \A d \in Dacs : Len(dac[d].bits) = Clocked(step) =>
       \A k \in 1 .. Clocked(step) : \E w \in heard : dac[d].bits[k] = w[k]

DacInv == TypeOK /\ BitsInv /\ WriteInv /\ SureInv /\ CleanInv /\ DirtyInv /\ HeardInv

-----------------------------------------------------------------------------
(* The states of a transfer.                                               *)

\* The clock is high in the first half of each bit.
High(s) == s \in BitSteps /\ (s - FirstBit) % 2 = 0

LEMMA Numbers ==
  /\ Bits \in Nat \ {0} /\ Common \in 0 .. Bits - 1
  /\ Last \in Nat /\ Last = 2 * Bits + 8 /\ FirstBit = 7 /\ Idle = 0
  /\ BitSteps = 7 .. 2 * Bits + 6
BY DacAssumption DEF DacAssumption, Last, FirstBit, Idle, BitSteps

\* From the first half of a bit to its second one bit is clocked out, which is
\* not so from any other state.
LEMMA ClockedStep ==
  ASSUME NEW s \in 0 .. Last
  PROVE  /\ Clocked(s) \in 0 .. Bits
         /\ High(s) => /\ s + 1 \in BitSteps /\ Clocked(s + 1) = Clocked(s) + 1
                       /\ Clocked(s) = BitNo(s) /\ BitNo(s) \in 0 .. Bits - 1
                       /\ BitNo(s + 1) = BitNo(s)
         /\ ~High(s) => Clocked(s + 1) = Clocked(s) \/ s + 1 \notin BitSteps
         /\ s \notin BitSteps => Clocked(s) = 0
         /\ s \in BitSteps => Clocked(s) = Bits <=> s > FirstBit + 2 * Bits - 2
BY Numbers DEF Clocked, High, BitNo

\* The machine stays, starts, goes on or returns to IDLE.
LEMMA StepStep ==
  ASSUME TypeOK, Next
  PROVE  /\ count' \in Nat
         /\ \/ step' = step
            \/ step = Idle /\ reg.write /\ step' = 1
            \/ step \in 1 .. Last - 1 /\ step' = step + 1
            \/ step = Last /\ step' = Idle
<1>1. step \in 0 .. Last /\ count \in Nat /\ Last \in Nat /\ Last > 1 /\ Idle = 0
  BY Numbers DEF TypeOK
<1>2. Advance
  BY DEF Next
<1>3. CASE step = Idle
  BY <1>1, <1>2, <1>3 DEF Advance
<1>4. CASE step # Idle
  <2>1. (step + 1) % (Last + 1) = IF step = Last THEN 0 ELSE step + 1
    <3>1. \A m \in Nat : \A a \in 0 .. m : (a + 1) % (m + 1) = IF a = m THEN 0 ELSE a + 1
      OBVIOUS
    <3> QED BY <3>1, <1>1
  <2> QED BY <1>1, <1>2, <1>4, <2>1 DEF Advance
<1> QED BY <1>3, <1>4

\* A DAC sees a bit with the falling clock of it, while its sync is low.
Sees(d) == /\ High(step) /\ step' = step + 1
           /\ SyncLow(d, step, reg) /\ SyncLow(d, step', reg')
           /\ Len(dac[d].bits) < Bits

LEMMA ChipStep ==
  ASSUME TypeOK, Next, NEW d \in Dacs
  PROVE  /\ ~SyncLow(d, step', reg') => dac'[d] = [bits |-> <<>>, held |-> dac[d].held]
         /\ SyncLow(d, step', reg') /\ ~Sees(d) => dac'[d] = dac[d]
         /\ Sees(d) => LET word == Append(dac[d].bits, reg.input[BitNo(step) + 1])
                       IN  dac'[d] = [bits |-> word,
                                      held |-> IF Len(word) = Bits THEN word ELSE dac[d].held]
<1> DEFINE now == [s |-> step, r |-> reg]
           then == [s |-> step', r |-> reg']
<1>1. dac'[d] = Chip(d, now, then)
  BY DEF Next, Chips
<1>2. dac[d] = [bits |-> dac[d].bits, held |-> dac[d].held]
  BY DEF TypeOK
<1>3. now.s = step /\ now.r = reg /\ then.s = step' /\ then.r = reg'
  OBVIOUS
<1> HIDE DEF now, then
<1>4. Sees(d) <=> /\ SyncLow(d, then.s, then.r)
                  /\ Sclk(now.s) /\ ~Sclk(then.s) /\ SyncLow(d, now.s, now.r)
                  /\ Len(dac[d].bits) < Bits
  <2>1. step \in 0 .. Last
    BY DEF TypeOK
  <2>2. SyncLow(d, step, reg) => step \in 1 .. 4 \/ step \in BitSteps
    BY DEF SyncLow, SclkOnly
  <2>3. SyncLow(d, step, reg) => (Sclk(step) <=> High(step))
    BY <2>1, <2>2, Numbers DEF Sclk, High, SyncSet
  <2>4. High(step) /\ step' = step + 1 => ~Sclk(step')
    BY <2>1, Numbers DEF Sclk, High, SyncSet
  <2>5. High(step) /\ ~Sclk(step') => step' = step + 1
    <3>1. High(step) => step \in BitSteps /\ Sclk(step)
      BY DEF High, Sclk
    <3>2. High(step) => step # Idle /\ step # Last
      BY <3>1, Numbers
    <3> QED BY <3>1, <3>2, StepStep
  <2> QED BY <1>3, <2>3, <2>4, <2>5 DEF Sees
<1>5. Sees(d) => Mosi(now.s, now.r) = reg.input[BitNo(step) + 1]
  BY <1>3 DEF Sees, High, Mosi
<1>6. CASE ~SyncLow(d, then.s, then.r)
  <2>1. dac'[d] = [dac[d] EXCEPT !.bits = <<>>]
    BY <1>1, <1>6 DEF Chip
  <2> QED BY <2>1, <1>2, <1>3, <1>4, <1>6
<1>7. CASE SyncLow(d, then.s, then.r) /\ ~Sees(d)
  BY <1>1, <1>3, <1>4, <1>7 DEF Chip
<1>8. CASE Sees(d)
  BY <1>1, <1>3, <1>4, <1>5, <1>8 DEF Chip
<1> QED BY <1>3, <1>6, <1>7, <1>8

\* A DAC's word changes with the last bit alone, and only if it is selected.
LEMMA HeldStep ==
  ASSUME TypeOK, BitsInv, Next, NEW d \in Dacs, dac'[d].held # dac[d].held
  PROVE  /\ Sees(d) /\ d = reg.select /\ step # Idle
         /\ Clocked(step) = Bits - 1 /\ Len(dac[d].bits) = Bits - 1
         /\ dac'[d].held = Append(dac[d].bits, reg.input[Bits])
<1>1. Sees(d)
  <2>1. [bits |-> <<>>, held |-> dac[d].held].held = dac[d].held
    OBVIOUS
  <2> QED BY <2>1, ChipStep
<1> DEFINE word == Append(dac[d].bits, reg.input[BitNo(step) + 1])
<1>2. dac'[d].held = word /\ Len(word) = Bits
  <2>1. dac'[d] = [bits |-> word, held |-> IF Len(word) = Bits THEN word ELSE dac[d].held]
    BY <1>1, ChipStep
  <2> HIDE DEF word
  <2> QED BY <2>1
<1>3. dac[d].bits \in Seq({0, 1}) /\ Len(dac[d].bits) <= Clocked(step) /\ step \in 0 .. Last
  BY DEF TypeOK, BitsInv
<1>4. Len(word) = Len(dac[d].bits) + 1 /\ Len(dac[d].bits) \in Nat
  BY <1>3
<1>5. Clocked(step) = BitNo(step) /\ BitNo(step) \in 0 .. Bits - 1 /\ step \in BitSteps
  BY <1>1, <1>3, ClockedStep DEF Sees, High
<1> HIDE DEF word
<1>6. Len(dac[d].bits) = Bits - 1 /\ BitNo(step) = Bits - 1
  BY <1>2, <1>3, <1>4, <1>5, Numbers
<1>7. d = reg.select
  <2>1. step \notin SclkOnly
    BY <1>5, Numbers DEF SclkOnly
  <2> QED BY <1>1, <1>6, <2>1, Numbers DEF Sees, SyncLow
<1>8. BitNo(step) + 1 = Bits /\ step # Idle
  BY <1>5, <1>6, Numbers
<1> QED BY <1>1, <1>2, <1>5, <1>6, <1>7, <1>8 DEF word

-----------------------------------------------------------------------------
(* Type correctness.                                                       *)

LEMMA TypeInit == Init => TypeOK
<1> SUFFICES ASSUME Init PROVE TypeOK
  OBVIOUS
<1>1. Zero \in Word /\ <<>> \in Seq({0, 1})
  BY DEF Zero, Word
<1>2. reg \in Registers
  BY <1>1, DacAssumption DEF Init, Registers, DacAssumption
<1>3. call \in Calls
  BY DEF Init, NoCall, Calls
<1>4. dac \in [Dacs -> [bits : Seq({0, 1}), held : Word]]
  BY <1>1 DEF Init
<1>5. sure \in [DOMAIN sure -> Word] /\ DOMAIN sure \subseteq Dacs
  BY <1>1 DEF Init
<1>6. step \in 0 .. Last /\ count \in Nat
  BY Numbers DEF Init
<1> QED BY <1>2, <1>3, <1>4, <1>5, <1>6 DEF TypeOK

\* What a step of the library does to the registers, to its own progress and
\* to what is known.
LEMMA LibraryType ==
  ASSUME TypeOK, Next
  PROVE  /\ reg' \in Registers /\ call' \in Calls
         /\ sure' \in [DOMAIN sure' -> Word] /\ DOMAIN sure' \subseteq Dacs
<1> USE DEF TypeOK
<1>1. CASE \E d \in Dacs, w \in Words : Begin(d, w)
  <2>1. PICK d \in Dacs, w \in Words : Begin(d, w)
    BY <1>1
  <2>2. reg' \in Registers
    BY <2>1 DEF Begin, Registers
  <2>3. call' \in Calls
    BY <2>1, DacAssumption DEF Begin, Calls, Lines, DacAssumption, Running
  <2>4. sure' \in [DOMAIN sure' -> Word] /\ DOMAIN sure' \subseteq Dacs
    <3>1. CASE Running
      BY <2>1, <3>1 DEF Begin
    <3>2. CASE ~Running
      BY <2>1, <3>2 DEF Begin
    <3> QED BY <3>1, <3>2
  <2> QED BY <2>2, <2>3, <2>4
<1>2. ASSUME NEW from \in Lines, NEW to \in Lines, NEW r, Line(from, to, r),
             r \in {[reg EXCEPT !.input = call.word], [reg EXCEPT !.write = FALSE],
                    [reg EXCEPT !.write = TRUE]}
      PROVE  reg' \in Registers /\ call' \in Calls /\ sure' = sure
  <2>1. call \in [line : Lines, slept : Nat, dac : Dacs, word : Word, clean : BOOLEAN]
    BY <1>2 DEF Line, Calls, Lines
  <2>2. call' \in Calls
    BY <1>2, <2>1 DEF Line, Calls
  <2>3. reg' \in Registers
    BY <1>2, <2>1 DEF Line, Registers
  <2> QED BY <1>2, <2>2, <2>3 DEF Line
<1>3. CASE Sleeping
  <2>1. call \in [line : Lines, slept : Nat, dac : Dacs, word : Word, clean : BOOLEAN]
    BY <1>3 DEF Sleeping, Calls
  <2>2. CASE call.slept < Sleep
    BY <1>3, <2>1, <2>2 DEF Sleeping, Calls
  <2>3. CASE ~(call.slept < Sleep)
    <3>1. call' \in Calls
      <4>1. call' = NoCall(~Running)
        BY <1>3, <2>3 DEF Sleeping
      <4>2. \A b \in BOOLEAN : NoCall(b) \in Calls
        BY DEF NoCall, Calls
      <4>3. (~Running) \in BOOLEAN
        BY DEF Running
      <4> QED BY <4>1, <4>2, <4>3
    <3>2. sure' \in [DOMAIN sure' -> Word] /\ DOMAIN sure' \subseteq Dacs
      BY <1>3, <2>1, <2>3 DEF Sleeping
    <3> QED BY <1>3, <3>1, <3>2 DEF Sleeping
  <2> QED BY <2>2, <2>3
<1>4. CASE \E v \in Delays : SetDelay(v)
  BY <1>4, DacAssumption DEF SetDelay, Registers, DacAssumption
<1>5. CASE NoWrite
  BY <1>5 DEF NoWrite
<1>6. CASE \/ Line("input", "write 0", [reg EXCEPT !.input = call.word])
           \/ Line("write 0", "write 1", [reg EXCEPT !.write = FALSE])
           \/ Line("write 1", "write 0 again", [reg EXCEPT !.write = TRUE])
           \/ Line("write 0 again", "sleep", [reg EXCEPT !.write = FALSE])
  BY <1>2, <1>6 DEF Lines
<1> QED BY <1>1, <1>3, <1>4, <1>5, <1>6 DEF Next, SetCounts

LEMMA TypeStep ==
  ASSUME TypeOK, [Next]_vars
  PROVE  TypeOK'
<1>1. CASE UNCHANGED vars
  BY <1>1 DEF vars, TypeOK
<1>2. CASE Next
  <2>1. step' \in 0 .. Last /\ count' \in Nat
    <3>1. step \in 0 .. Last /\ Last \in Nat /\ Last > 1 /\ Idle = 0
      BY Numbers DEF TypeOK
    <3>2. /\ count' \in Nat
          /\ \/ step' = step
             \/ step = Idle /\ step' = 1
             \/ step \in 1 .. Last - 1 /\ step' = step + 1
             \/ step = Last /\ step' = Idle
      BY <1>2, StepStep
    <3> HIDE DEF Last, Idle
    <3>3. step' \in 0 .. Last
      BY <3>1, <3>2
    <3> QED BY <3>2, <3>3
  <2>2. dac' \in [Dacs -> [bits : Seq({0, 1}), held : Word]]
    <3>1. DOMAIN dac' = Dacs /\ dac' = [d \in Dacs |-> dac'[d]]
      BY <1>2 DEF Next, Chips
    <3>2. ASSUME NEW d \in Dacs
          PROVE  dac'[d] \in [bits : Seq({0, 1}), held : Word]
      <4>1. /\ dac[d] \in [bits : Seq({0, 1}), held : Word]
            /\ [bits |-> <<>>, held |-> dac[d].held] \in [bits : Seq({0, 1}), held : Word]
        <5>1. <<>> \in Seq({0, 1})
          OBVIOUS
        <5> QED BY <5>1 DEF TypeOK
      <4>2. CASE Sees(d)
        <5> DEFINE word == Append(dac[d].bits, reg.input[BitNo(step) + 1])
        <5>1. BitNo(step) + 1 \in 1 .. Bits
          BY <4>2, ClockedStep, Numbers DEF Sees, TypeOK
        <5>2. reg.input[BitNo(step) + 1] \in {0, 1}
          BY <5>1 DEF TypeOK, Registers, Word
        <5>3. word \in Seq({0, 1})
          BY <4>1, <5>2
        <5>4. Len(word) = Bits => word \in Word
          <6> HIDE DEF word
          <6> QED BY <5>3 DEF Word
        <5> HIDE DEF word
        <5>5. dac'[d] = [bits |-> word, held |-> IF Len(word) = Bits THEN word ELSE dac[d].held]
          BY <1>2, <4>2, ChipStep DEF word
        <5> QED BY <4>1, <5>3, <5>4, <5>5
      <4>3. CASE ~Sees(d)
        <5>1. dac'[d] = dac[d] \/ dac'[d] = [bits |-> <<>>, held |-> dac[d].held]
          BY <1>2, <4>3, ChipStep
        <5> QED BY <4>1, <5>1
      <4> QED BY <4>2, <4>3
    <3> QED BY <3>1, <3>2
  <2> QED BY <1>2, <2>1, <2>2, LibraryType DEF TypeOK
<1> QED BY <1>1, <1>2

\* The registers, the machine, the call in progress and the DACs keep their
\* types, for words of any length and any delays.
THEOREM TypeCorrect == Spec => []TypeOK
<1>1. TypeOK /\ [Next]_vars => TypeOK'
  BY TypeStep
<1> QED BY TypeInit, <1>1, PTL DEF Spec

-----------------------------------------------------------------------------
(* The invariant.                                                          *)

LEMMA BitsStep ==
  ASSUME TypeOK, BitsInv, Next
  PROVE  BitsInv'
<1> SUFFICES ASSUME NEW d \in Dacs PROVE Len(dac'[d].bits) <= Clocked(step')
  BY DEF BitsInv
<1>1. step \in 0 .. Last /\ step' \in 0 .. Last /\ Clocked(step') \in Nat /\ Clocked(step) \in Nat
  BY TypeStep, ClockedStep, Numbers DEF TypeOK
<1>2. dac[d].bits \in Seq({0, 1}) /\ Len(dac[d].bits) <= Clocked(step)
  BY DEF TypeOK, BitsInv
<1>3. CASE ~SyncLow(d, step', reg')
  <2>1. dac'[d].bits = <<>>
    <3>1. dac'[d] = [bits |-> <<>>, held |-> dac[d].held]
      BY <1>3, ChipStep
    <3> QED BY <3>1
  <2> QED BY <1>1, <2>1
<1>4. CASE SyncLow(d, step', reg') /\ ~Sees(d)
  <2>1. dac'[d] = dac[d]
    BY <1>4, ChipStep
  <2>2. Clocked(step) <= Clocked(step')
    <3>1. step' \in SclkOnly \/ step' \in BitSteps
      BY <1>4 DEF SyncLow
    <3>2. CASE step' \in BitSteps
      <4>1. step' = step \/ step' = step + 1
        BY <3>2, StepStep, Numbers, <1>1
      <4> QED BY <1>1, <3>2, <4>1, ClockedStep
    <3>3. CASE step' \in SclkOnly
      <4>1. step \notin BitSteps
        BY <3>3, StepStep, Numbers, <1>1 DEF SclkOnly
      <4> QED BY <1>1, <4>1, ClockedStep
    <3> QED BY <3>1, <3>2, <3>3
  <2> QED BY <1>1, <1>2, <2>1, <2>2
<1>5. CASE Sees(d)
  <2> DEFINE word == Append(dac[d].bits, reg.input[BitNo(step) + 1])
  <2>1. dac'[d].bits = word
    <3>1. dac'[d] = [bits |-> word, held |-> IF Len(word) = Bits THEN word ELSE dac[d].held]
      BY <1>5, ChipStep
    <3> HIDE DEF word
    <3> QED BY <3>1
  <2>2. Len(word) = Len(dac[d].bits) + 1 /\ Len(dac[d].bits) \in Nat
    BY <1>2
  <2>3. Clocked(step') = Clocked(step) + 1
    BY <1>1, <1>5, ClockedStep DEF Sees
  <2> HIDE DEF word
  <2> QED BY <1>1, <1>2, <2>1, <2>2, <2>3
<1> QED BY <1>3, <1>4, <1>5

LEMMA WriteStep ==
  ASSUME TypeOK, WriteInv, Next
  PROVE  WriteInv'
<1>1. CASE \E d \in Dacs, w \in Words : Begin(d, w)
  BY <1>1 DEF Begin, WriteInv, TypeOK, Registers
<1>2. CASE Sleeping
  <2>1. reg' = reg /\ call.line = "sleep"
    BY <1>2 DEF Sleeping
  <2>2. call'.line \in {"sleep", "none"}
    <3>1. CASE call.slept < Sleep
      BY <1>2, <3>1 DEF Sleeping, TypeOK, Calls
    <3>2. CASE ~(call.slept < Sleep)
      BY <1>2, <3>2 DEF Sleeping, NoCall
    <3> QED BY <3>1, <3>2
  <2> QED BY <2>1, <2>2 DEF WriteInv
<1>3. CASE \E v \in Delays : SetDelay(v)
  BY <1>3 DEF SetDelay, WriteInv, TypeOK, Registers
<1>4. CASE NoWrite
  BY <1>4 DEF NoWrite, WriteInv
<1>5. CASE \/ Line("input", "write 0", [reg EXCEPT !.input = call.word])
           \/ Line("write 0", "write 1", [reg EXCEPT !.write = FALSE])
           \/ Line("write 1", "write 0 again", [reg EXCEPT !.write = TRUE])
           \/ Line("write 0 again", "sleep", [reg EXCEPT !.write = FALSE])
  <2>1. call \in [line : Lines, slept : Nat, dac : Dacs, word : Word, clean : BOOLEAN]
    BY <1>5 DEF Line, TypeOK, Calls
  <2> QED BY <1>5, <2>1 DEF Line, WriteInv, TypeOK, Registers
<1> QED BY <1>1, <1>2, <1>3, <1>4, <1>5 DEF Next, SetCounts

LEMMA SureStep ==
  ASSUME DacInv, Next
  PROVE  SureInv'
<1> USE DEF DacInv
<1>1. ASSUME NEW d \in DOMAIN sure
      PROVE  /\ d \in Dacs /\ dac'[d].held = sure[d]
  <2>1. d \in Dacs /\ dac[d].held = sure[d] /\ (d = reg.select => step = Idle)
    BY DEF TypeOK, SureInv
  <2> QED BY <2>1, HeldStep
<1>2. step = Idle /\ call.line = "none" => step' = Idle
  BY StepStep, Numbers DEF WriteInv
<1>3. CASE \E d \in Dacs, w \in Words : Begin(d, w)
  <2>1. PICK d \in Dacs, w \in Words : Begin(d, w)
    BY <1>3
  <2>2. reg'.select = d
    BY <2>1 DEF Begin, TypeOK, Registers
  <2>3. \A e \in DOMAIN sure' : e \in DOMAIN sure /\ e # d /\ sure'[e] = sure[e]
    <3>1. CASE Running
      BY <2>1, <3>1 DEF Begin
    <3>2. CASE ~Running
      BY <2>1, <3>2 DEF Begin
    <3> QED BY <3>1, <3>2
  <2> QED BY <1>1, <2>2, <2>3 DEF SureInv
<1>4. ASSUME sure' = sure, reg'.select = reg.select,
             call'.line = call.line \/ call.line # "none"
      PROVE  SureInv'
  BY <1>1, <1>2, <1>4 DEF SureInv
<1>5. CASE Sleeping
  <2>1. CASE call.slept < Sleep
    <3>1. sure' = sure /\ reg' = reg /\ call.line # "none"
      BY <1>5, <2>1 DEF Sleeping
    <3> QED BY <1>4, <3>1
  <2>2. CASE ~(call.slept < Sleep) /\ ~(call.clean /\ ~Running)
    <3>1. sure' = sure /\ reg' = reg /\ call.line # "none"
      BY <1>5, <2>2 DEF Sleeping
    <3> QED BY <1>4, <3>1
  <2>3. CASE ~(call.slept < Sleep) /\ call.clean /\ ~Running
    <3>1. /\ reg' = reg /\ call.line = "sleep" /\ call'.line = "none"
          /\ step = Idle /\ step' = Idle
          /\ sure' = [d \in DOMAIN sure \cup {call.dac} |->
                        IF d = call.dac THEN call.word ELSE sure[d]]
      <4>1. reg' = reg /\ call.line = "sleep" /\ call' = NoCall(~Running)
            /\ sure' = [d \in DOMAIN sure \cup {call.dac} |->
                          IF d = call.dac THEN call.word ELSE sure[d]]
        BY <1>5, <2>3 DEF Sleeping
      <4>2. step = Idle /\ ~reg.write
        BY <2>3, <4>1 DEF Running, WriteInv
      <4> QED BY <4>1, <4>2, StepStep, Numbers DEF NoCall
    <3>2. dac[call.dac].held = call.word /\ call.dac \in Dacs
      BY <2>3, <3>1, Numbers DEF CleanInv, TypeOK, Calls
    <3>3. dac'[call.dac].held = call.word
      BY <3>1, <3>2, HeldStep
    <3> QED BY <1>1, <3>1, <3>3 DEF SureInv
  <2> QED BY <2>1, <2>2, <2>3
<1>6. CASE \E v \in Delays : SetDelay(v)
  BY <1>4, <1>6 DEF SetDelay, TypeOK, Registers
<1>7. CASE NoWrite
  BY <1>4, <1>7 DEF NoWrite
<1>8. CASE \/ Line("input", "write 0", [reg EXCEPT !.input = call.word])
           \/ Line("write 0", "write 1", [reg EXCEPT !.write = FALSE])
           \/ Line("write 1", "write 0 again", [reg EXCEPT !.write = TRUE])
           \/ Line("write 0 again", "sleep", [reg EXCEPT !.write = FALSE])
  BY <1>4, <1>8 DEF Line, TypeOK, Registers
<1> QED BY <1>3, <1>5, <1>6, <1>7, <1>8 DEF Next, SetCounts

\* A clean call goes on, or waits.
GoesOn ==
  /\ call.clean /\ call.line # "none" /\ call'.line # "none"
  /\ call'.dac = call.dac /\ call'.word = call.word
  /\ reg'.select = reg.select /\ sure' = sure
  /\ call.line \in {"write 0 again", "sleep"} => call'.line \in {"write 0 again", "sleep"}
  /\ call'.line = "sleep" => call.line \in {"write 0 again", "sleep"}
  /\ call'.line # "input" => reg'.input = call.word

LEMMA CallGoesOn ==
  ASSUME DacInv, Next, GoesOn
  PROVE  CleanInv'
<1>0. TypeOK /\ TypeOK' /\ BitsInv /\ BitsInv' /\ WriteInv /\ CleanInv
  BY TypeStep, BitsStep DEF DacInv
<1> DEFINE d == call.dac
           w == Append(dac[d].bits, reg.input[BitNo(step) + 1])
<1>1. /\ step \in 0 .. Last /\ step' \in 0 .. Last /\ Last \in Nat /\ Idle = 0
      /\ Clocked(step) \in Nat /\ Clocked(step') \in Nat /\ Bits \in Nat \ {0}
  <2>1. step \in 0 .. Last /\ step' \in 0 .. Last
    BY <1>0 DEF TypeOK
  <2> QED BY <2>1, ClockedStep, Numbers
<1>2. /\ d \in Dacs /\ call.word \in Word /\ d = reg.select /\ d \notin DOMAIN sure
      /\ dac[d].bits \in Seq({0, 1}) /\ Len(dac[d].bits) = Clocked(step)
      /\ \A k \in 1 .. Clocked(step) : dac[d].bits[k] = call.word[k]
      /\ step # Idle => call.line \in {"write 0 again", "sleep"} /\ reg.input = call.word
  BY <1>0 DEF GoesOn, TypeOK, Calls, CleanInv
<1>8. /\ d \notin DOMAIN sure' /\ reg'.select = d
      /\ call'.dac = d /\ call'.word = call.word /\ (call'.line # "input" => reg'.input = call.word)
  BY <1>2 DEF GoesOn
<1>3. Len(dac'[d].bits) <= Clocked(step') /\ dac'[d].bits \in Seq({0, 1})
  BY <1>0, <1>2 DEF BitsInv, TypeOK
<1>4. ASSUME High(step), step' = step + 1
      PROVE  /\ dac'[d] = [bits |-> w, held |-> IF Len(w) = Bits THEN w ELSE dac[d].held]
             /\ w \in Seq({0, 1}) /\ Len(w) = Clocked(step) + 1
             /\ \A k \in 1 .. Clocked(step) + 1 : w[k] = call.word[k]
             /\ Clocked(step') = Clocked(step) + 1
  <2>1. /\ step \in BitSteps /\ step' \in BitSteps /\ step # Idle
        /\ Clocked(step) = BitNo(step) /\ BitNo(step) \in 0 .. Bits - 1
        /\ Clocked(step') = Clocked(step) + 1
    BY <1>1, <1>4, ClockedStep, Numbers DEF High
  <2>2. Sees(d)
    <3>1. Len(dac[d].bits) < Bits
      <4>1. Len(dac[d].bits) = Clocked(step)
        BY <1>2
      <4> HIDE DEF d
      <4> QED BY <1>1, <2>1, <4>1
    <3>2. SyncLow(d, step, reg) /\ SyncLow(d, step', reg')
      <4>1. d = reg.select /\ d = reg'.select
        BY <1>2, <1>8
      <4> HIDE DEF d
      <4> QED BY <2>1, <4>1 DEF SyncLow
    <3> QED BY <1>4, <3>1, <3>2 DEF Sees
  <2>3. reg.input[BitNo(step) + 1] = call.word[Clocked(step) + 1]
        /\ reg.input[BitNo(step) + 1] \in {0, 1}
    <3>1. BitNo(step) + 1 \in 1 .. Bits
      BY <2>1, <1>1
    <3> QED BY <1>2, <2>1, <3>1 DEF Word
  <2>4. /\ w \in Seq({0, 1}) /\ Len(w) = Clocked(step) + 1
        /\ \A k \in 1 .. Clocked(step) : w[k] = dac[d].bits[k]
        /\ w[Clocked(step) + 1] = reg.input[BitNo(step) + 1]
    <3> DEFINE b == reg.input[BitNo(step) + 1]
               s == dac[d].bits
    <3>1. s \in Seq({0, 1}) /\ b \in {0, 1} /\ Len(s) = Clocked(step)
      BY <1>2, <2>3
    <3> HIDE DEF b, s
    <3>2. /\ Append(s, b) \in Seq({0, 1}) /\ Len(Append(s, b)) = Len(s) + 1
          /\ \A k \in 1 .. Len(s) : Append(s, b)[k] = s[k]
          /\ Append(s, b)[Len(s) + 1] = b
      BY <3>1
    <3> QED BY <3>1, <3>2 DEF b, s
  <2>5. dac'[d] = [bits |-> w, held |-> IF Len(w) = Bits THEN w ELSE dac[d].held]
    BY <1>2, <2>2, ChipStep, <1>0
  <2> HIDE DEF w
  <2>6. \A k \in 1 .. Clocked(step) + 1 : w[k] = call.word[k]
    <3>1. \A k \in 1 .. Clocked(step) + 1 : k \in 1 .. Clocked(step) \/ k = Clocked(step) + 1
      BY <1>1
    <3>2. \A k \in 1 .. Clocked(step) : w[k] = call.word[k]
      BY <1>2, <2>4
    <3> QED BY <2>3, <2>4, <3>1, <3>2
  <2> QED BY <2>1, <2>4, <2>5, <2>6
<1>5. /\ Len(dac'[d].bits) = Clocked(step')
      /\ \A k \in 1 .. Clocked(step') : dac'[d].bits[k] = call.word[k]
  <2>1. CASE step' \notin BitSteps
    <3>1. Clocked(step') = 0
      BY <2>1, <1>1, ClockedStep
    <3> QED BY <1>3, <3>1
  <2>2. CASE High(step) /\ step' = step + 1
    <3> HIDE DEF w
    <3>1. dac'[d].bits = w
      BY <1>4, <2>2
    <3> QED BY <1>4, <2>2, <3>1
  <2>3. CASE step' \in BitSteps /\ ~(High(step) /\ step' = step + 1)
    <3>1. step' = step \/ step' = step + 1
      BY <2>3, StepStep, <1>0, Numbers, <1>1
    <3>2. Clocked(step') = Clocked(step)
      BY <1>1, <2>3, <3>1, ClockedStep
    <3>3. SyncLow(d, step', reg') /\ ~Sees(d)
      BY <1>2, <1>8, <2>3 DEF Sees, SyncLow
    <3>4. dac'[d] = dac[d]
      BY <1>2, <3>3, ChipStep, <1>0
    <3> QED BY <1>2, <3>2, <3>4
  <2> QED BY <2>1, <2>2, <2>3
<1>6. ASSUME \/ step' > FirstBit + 2 * Bits - 2
             \/ step' = Idle /\ call'.line = "sleep"
      PROVE  dac'[d].held = call.word
  <2>1. CASE High(step) /\ step' = step + 1 /\ Clocked(step') = Bits
    <3> HIDE DEF w
    <3>1. w \in Word /\ Len(w) = Bits /\ \A k \in 1 .. Bits : w[k] = call.word[k]
      <4>1. /\ w \in Seq({0, 1}) /\ Len(w) = Clocked(step) + 1
            /\ \A k \in 1 .. Clocked(step) + 1 : w[k] = call.word[k]
            /\ Clocked(step) + 1 = Bits
        BY <1>4, <2>1
      <4> QED BY <4>1 DEF Word
    <3>2. w = call.word
      <4>1. \A f, g \in Word : (\A k \in 1 .. Bits : f[k] = g[k]) => f = g
        <5> TAKE f, g \in Word
        <5>1. f = [k \in 1 .. Bits |-> f[k]] /\ g = [k \in 1 .. Bits |-> g[k]]
          BY DEF Word
        <5> QED BY <5>1
      <4> QED BY <3>1, <1>2, <4>1
    <3>3. dac'[d] = [bits |-> w, held |-> IF Len(w) = Bits THEN w ELSE dac[d].held]
      BY <1>4, <2>1
    <3> QED BY <3>1, <3>2, <3>3
  <2>2. CASE ~(High(step) /\ step' = step + 1 /\ Clocked(step') = Bits)
    <3>1. dac'[d].held = dac[d].held
      <4> SUFFICES ASSUME dac'[d].held # dac[d].held PROVE FALSE
        OBVIOUS
      <4>1. Sees(d) /\ Clocked(step) = Bits - 1
        BY <1>2, HeldStep, <1>0
      <4>2. High(step) /\ step' = step + 1 /\ Clocked(step') = Clocked(step) + 1
        BY <4>1, <1>4 DEF Sees
      <4> QED BY <2>2, <4>1, <4>2, <1>1
    <3>2. \/ step > FirstBit + 2 * Bits - 2
          \/ step = Idle /\ call.line = "sleep"
      <4>1. CASE step' = Idle /\ call'.line = "sleep"
        <5>1. step = Last \/ step = Idle
          BY <4>1, <1>1, StepStep, <1>0
        <5>2. step = Last => step > FirstBit + 2 * Bits - 2
          BY Numbers
        <5>3. step = Idle => call.line = "sleep"
          <6>1. step = Idle => ~reg.write
            BY <4>1, <1>1, <1>2, Numbers DEF Next, Advance
          <6> QED BY <1>0, <4>1, <6>1 DEF WriteInv, GoesOn
        <5> QED BY <5>1, <5>2, <5>3
      <4>2. CASE step' > FirstBit + 2 * Bits - 2
        <5>1. step' = step \/ step' = step + 1
          BY <4>2, <1>1, StepStep, <1>0, Numbers
        <5>2. step' = step + 1 /\ ~(step > FirstBit + 2 * Bits - 2) =>
                High(step) /\ Clocked(step') = Bits
          BY <4>2, <1>1, Numbers DEF High, Clocked
        <5> QED BY <4>2, <5>1, <5>2, <2>2
      <4> QED BY <1>6, <4>1, <4>2
    <3> QED BY <1>0, <3>1, <3>2 DEF CleanInv, GoesOn
  <2> QED BY <2>1, <2>2
<1>7. step' # Idle => call'.line \in {"write 0 again", "sleep"}
  <2>1. CASE step = Idle
    <3>1. step' # Idle => reg.write
      BY <2>1, StepStep, <1>0, Numbers
    <3> QED BY <1>0, <3>1 DEF WriteInv, GoesOn
  <2>2. CASE step # Idle
    BY <2>2, <1>2 DEF GoesOn
  <2> QED BY <2>1, <2>2
<1> HIDE DEF d, w
<1> QED BY <1>5, <1>6, <1>7, <1>8 DEF CleanInv, d

LEMMA CleanStep ==
  ASSUME DacInv, Next
  PROVE  CleanInv'
<1>1. TypeOK /\ TypeOK' /\ BitsInv' /\ WriteInv /\ CleanInv
  BY TypeStep, BitsStep DEF DacInv
<1>2. ASSUME call.line = "none", step = Idle
      PROVE  step' = Idle
  BY <1>1, <1>2, StepStep, Numbers DEF WriteInv
<1>3. CASE \E d \in Dacs, w \in Words : Begin(d, w)
  <2>1. PICK d \in Dacs, w \in Words : Begin(d, w)
    BY <1>3
  <2>2. SUFFICES ASSUME call'.clean PROVE CleanInv'
    BY DEF CleanInv
  <2>3. /\ step = Idle /\ call.line = "none" /\ reg'.select = d
        /\ call'.line = "input" /\ call'.dac = d
        /\ sure' = [e \in DOMAIN sure \ {d} |-> sure[e]]
    BY <1>1, <2>1, <2>2 DEF Begin, Running, TypeOK, Registers
  <2>4. step' = Idle /\ Clocked(step') = 0
    BY <1>2, <2>3, Numbers DEF Clocked
  <2>5. Len(dac'[d].bits) = 0
    BY <1>1, <2>4 DEF BitsInv, TypeOK
  <2>6. ~(step' > FirstBit + 2 * Bits - 2)
    BY <2>4, Numbers
  <2>7. \A k \in 1 .. 0 : FALSE
    OBVIOUS
  <2> QED BY <2>3, <2>4, <2>5, <2>6, <2>7 DEF CleanInv
<1>4. ASSUME call'.line = "none", call'.clean => step = Idle /\ ~reg.write
      PROVE  CleanInv'
  <2>1. call'.clean => step' = Idle
    BY <1>1, <1>4, StepStep, Numbers
  <2> QED BY <1>4, <2>1 DEF CleanInv
<1>5. CASE Sleeping
  <2>1. CASE call.slept < Sleep
    <3>1. /\ call.line = "sleep" /\ reg' = reg /\ sure' = sure
          /\ call' = [call EXCEPT !.slept = @ + 1]
      BY <1>5, <2>1 DEF Sleeping
    <3>2. call \in [line : Lines, slept : Nat, dac : Dacs, word : Word, clean : BOOLEAN]
      BY <1>1, <3>1 DEF TypeOK, Calls
    <3>3. call'.line = "sleep" /\ call'.dac = call.dac /\ call'.word = call.word
          /\ call'.clean = call.clean
      BY <3>1, <3>2
    <3>4. call.clean => GoesOn
      BY <1>1, <3>1, <3>3 DEF GoesOn, CleanInv
    <3> QED BY <3>3, <3>4, CallGoesOn DEF CleanInv
  <2>2. CASE ~(call.slept < Sleep)
    <3>1. call.line = "sleep" /\ call' = NoCall(~Running)
      BY <1>5, <2>2 DEF Sleeping
    <3>2. call'.line = "none" /\ (call'.clean => step = Idle) /\ ~reg.write
      BY <1>1, <3>1 DEF NoCall, Running, WriteInv
    <3> QED BY <1>4, <3>2
  <2> QED BY <2>1, <2>2
<1>6. ASSUME call' = call, reg'.select = reg.select, reg'.input = reg.input, sure' = sure
      PROVE  CleanInv'
  <2>1. CASE call.line = "none"
    <3>1. call'.clean => step = Idle /\ ~reg.write
      BY <1>1, <1>6, <2>1 DEF CleanInv, WriteInv
    <3> QED BY <1>4, <1>6, <2>1, <3>1
  <2>2. CASE call.line # "none"
    <3>1. call.clean => GoesOn
      BY <1>1, <1>6, <2>2 DEF GoesOn, CleanInv
    <3> QED BY <1>6, <3>1, CallGoesOn DEF CleanInv
  <2> QED BY <2>1, <2>2
<1>7. CASE \E v \in Delays : SetDelay(v)
  BY <1>1, <1>6, <1>7 DEF SetDelay, TypeOK, Registers
<1>8. CASE NoWrite
  BY <1>6, <1>8 DEF NoWrite
<1>9. ASSUME NEW from \in {"input", "write 0", "write 1", "write 0 again"},
             NEW to \in {"write 0", "write 1", "write 0 again", "sleep"},
             NEW r, Line(from, to, r), r.select = reg.select,
             from \in {"write 0 again", "sleep"} => to = "sleep",
             to = "sleep" => from = "write 0 again",
             r.input = call.word \/ (from # "input" /\ r.input = reg.input)
      PROVE  CleanInv'
  <2>1. call \in [line : Lines, slept : Nat, dac : Dacs, word : Word, clean : BOOLEAN]
    BY <1>1, <1>9 DEF Line, TypeOK, Calls
  <2>2. /\ call.line = from /\ call'.line = to /\ call'.dac = call.dac /\ call'.word = call.word
        /\ call'.clean = call.clean /\ reg' = r /\ sure' = sure
    BY <1>9, <2>1 DEF Line
  <2>3. call.clean => GoesOn
    BY <1>1, <1>9, <2>2 DEF GoesOn, CleanInv
  <2> QED BY <2>2, <2>3, CallGoesOn DEF CleanInv
<1>10. CASE \/ Line("input", "write 0", [reg EXCEPT !.input = call.word])
            \/ Line("write 0", "write 1", [reg EXCEPT !.write = FALSE])
            \/ Line("write 1", "write 0 again", [reg EXCEPT !.write = TRUE])
            \/ Line("write 0 again", "sleep", [reg EXCEPT !.write = FALSE])
  <2>1. /\ [reg EXCEPT !.input = call.word].select = reg.select
        /\ [reg EXCEPT !.input = call.word].input = call.word
        /\ \A b \in BOOLEAN : /\ [reg EXCEPT !.write = b].select = reg.select
                              /\ [reg EXCEPT !.write = b].input = reg.input
    BY <1>1 DEF TypeOK, Registers
  <2>2. CASE Line("input", "write 0", [reg EXCEPT !.input = call.word])
    BY <1>9, <2>1, <2>2
  <2>3. CASE Line("write 0", "write 1", [reg EXCEPT !.write = FALSE])
    BY <1>9, <2>1, <2>3
  <2>4. CASE Line("write 1", "write 0 again", [reg EXCEPT !.write = TRUE])
    BY <1>9, <2>1, <2>4
  <2>5. CASE Line("write 0 again", "sleep", [reg EXCEPT !.write = FALSE])
    BY <1>9, <2>1, <2>5
  <2> QED BY <1>10, <2>2, <2>3, <2>4, <2>5
<1> QED BY <1>3, <1>5, <1>7, <1>8, <1>10 DEF Next, SetCounts

LEMMA DirtyStep ==
  ASSUME DacInv, Next
  PROVE  DirtyInv'
<1>1. TypeOK /\ DirtyInv
  BY DEF DacInv
<1>2. CASE \E d \in Dacs, w \in Words : Begin(d, w)
  <2>1. PICK d \in Dacs, w \in Words : Begin(d, w)
    BY <1>2
  <2>2. CASE Running
    BY <2>1, <2>2 DEF Begin, DirtyInv
  <2>3. CASE ~Running
    <3>1. call'.clean
      BY <2>1, <2>3 DEF Begin
    <3> QED BY <3>1 DEF DirtyInv
  <2> QED BY <2>2, <2>3
<1>3. CASE Sleeping
  <2>1. CASE call.slept < Sleep
    <3>1. /\ call.line = "sleep" /\ sure' = sure
          /\ call' = [call EXCEPT !.slept = @ + 1]
      BY <1>3, <2>1 DEF Sleeping
    <3>2. call'.clean = call.clean
      BY <1>1, <3>1 DEF TypeOK, Calls
    <3> QED BY <1>1, <3>1, <3>2 DEF DirtyInv
  <2>2. CASE ~(call.slept < Sleep)
    BY <1>3, <2>2 DEF Sleeping, NoCall, DirtyInv
  <2> QED BY <2>1, <2>2
<1>4. CASE \E v \in Delays : SetDelay(v)
  BY <1>1, <1>4 DEF SetDelay, DirtyInv
<1>5. CASE NoWrite
  BY <1>1, <1>5 DEF NoWrite, DirtyInv
<1>6. CASE \/ Line("input", "write 0", [reg EXCEPT !.input = call.word])
           \/ Line("write 0", "write 1", [reg EXCEPT !.write = FALSE])
           \/ Line("write 1", "write 0 again", [reg EXCEPT !.write = TRUE])
           \/ Line("write 0 again", "sleep", [reg EXCEPT !.write = FALSE])
  <2>1. call.line # "none" /\ sure' = sure
    BY <1>6 DEF Line
  <2>2. call \in [line : Lines, slept : Nat, dac : Dacs, word : Word, clean : BOOLEAN]
    BY <1>1, <2>1 DEF TypeOK, Calls
  <2>3. call'.clean = call.clean
    BY <1>6, <2>2 DEF Line
  <2> QED BY <1>1, <2>1, <2>3 DEF DirtyInv
<1> QED BY <1>2, <1>3, <1>4, <1>5, <1>6 DEF Next, SetCounts

LEMMA HeardStep ==
  ASSUME TypeOK, BitsInv, HeardInv, Next
  PROVE  HeardInv'
<1>1. heard' = (IF step' = Idle THEN {} ELSE heard) \cup {reg'.input}
  BY DEF Next, Hear
<1>2. SUFFICES ASSUME NEW d \in Dacs, Len(dac'[d].bits) = Clocked(step'),
                      NEW k \in 1 .. Clocked(step')
               PROVE  \E w \in heard' : dac'[d].bits[k] = w[k]
  BY <1>1 DEF HeardInv
<1>3. step \in 0 .. Last /\ step' \in 0 .. Last /\ Clocked(step') \in Nat /\ Clocked(step) \in Nat
  BY TypeStep, ClockedStep, Numbers DEF TypeOK
<1>4. dac[d].bits \in Seq({0, 1}) /\ Len(dac[d].bits) \in Nat /\ Len(dac[d].bits) <= Clocked(step)
  BY DEF TypeOK, BitsInv
<1>5. step' \in BitSteps /\ step' # Idle
  BY <1>2, <1>3, ClockedStep, Numbers
<1>6. heard \subseteq heard' /\ reg.input \in heard
  BY <1>1, <1>5 DEF HeardInv
<1>7. CASE ~SyncLow(d, step', reg')
  <2>1. dac'[d].bits = <<>>
    <3>1. dac'[d] = [bits |-> <<>>, held |-> dac[d].held]
      BY <1>7, ChipStep
    <3> QED BY <3>1
  <2> QED BY <1>2, <1>3, <2>1
<1>8. CASE SyncLow(d, step', reg') /\ ~Sees(d)
  <2>1. dac'[d] = dac[d]
    BY <1>8, ChipStep
  <2>2. Clocked(step) <= Clocked(step')
    <3>1. step' = step \/ step' = step + 1
      BY <1>3, <1>5, StepStep, Numbers
    <3> QED BY <1>3, <1>5, <3>1, ClockedStep
  <2>3. Clocked(step) = Clocked(step') /\ Len(dac[d].bits) = Clocked(step)
    BY <1>2, <1>3, <1>4, <2>1, <2>2
  <2> QED BY <1>2, <1>6, <2>1, <2>3 DEF HeardInv
<1>9. CASE Sees(d)
  <2> DEFINE b == reg.input[BitNo(step) + 1]
             s == dac[d].bits
  <2>1. dac'[d].bits = Append(s, b)
    <3>1. dac'[d] = [bits |-> Append(s, b),
                     held |-> IF Len(Append(s, b)) = Bits THEN Append(s, b) ELSE dac[d].held]
      BY <1>9, ChipStep
    <3> HIDE DEF s, b
    <3> QED BY <3>1
  <2>2. Clocked(step') = Clocked(step) + 1 /\ Clocked(step) = BitNo(step)
    BY <1>3, <1>9, ClockedStep DEF Sees
  <2>3. b \in {0, 1}
    <3>1. BitNo(step) + 1 \in 1 .. Bits
      BY <1>9, ClockedStep, Numbers DEF Sees, TypeOK
    <3> QED BY <3>1 DEF TypeOK, Registers, Word
  <2>4. /\ s \in Seq({0, 1}) /\ \A j \in 1 .. Len(s) : Append(s, b)[j] = s[j]
        /\ Append(s, b)[Len(s) + 1] = b /\ Len(Append(s, b)) = Len(s) + 1
    <3>1. s \in Seq({0, 1})
      BY <1>4
    <3> HIDE DEF s, b
    <3> QED BY <2>3, <3>1
  <2>5. Len(s) = Clocked(step) /\ b = reg.input[Clocked(step) + 1]
    <3>1. Len(s) + 1 = Clocked(step) + 1
      BY <1>2, <2>1, <2>2, <2>4
    <3> QED BY <1>3, <1>4, <2>2, <3>1
  <2> HIDE DEF s, b
  <2>6. CASE k = Clocked(step) + 1
    BY <1>6, <2>1, <2>4, <2>5, <2>6
  <2>7. CASE k \in 1 .. Clocked(step)
    <3>1. \E w \in heard : s[k] = w[k]
      BY <2>5, <2>7 DEF HeardInv, s
    <3> QED BY <1>6, <2>1, <2>4, <2>5, <2>7, <3>1
  <2> QED BY <1>3, <2>2, <2>6, <2>7
<1> QED BY <1>7, <1>8, <1>9

THEOREM DacInvHolds == Spec => []DacInv
<1>1. Init => DacInv
  <2> SUFFICES ASSUME Init PROVE DacInv
    OBVIOUS
  <2>1. /\ step = Idle /\ Clocked(step) = 0 /\ step \in 0 .. Last
        /\ ~(step > FirstBit + 2 * Bits - 2)
    BY Numbers DEF Init, Clocked
  <2>2. call.line = "none" /\ call.clean /\ ~reg.write
    BY DEF Init, NoCall
  <2>3. /\ \A d \in Dacs : dac[d].bits = <<>> /\ dac[d].held = Zero
        /\ DOMAIN sure = Dacs /\ \A d \in Dacs : sure[d] = Zero
    BY DEF Init
  <2>4. BitsInv
    <3>1. Len(<<>>) <= 0
      OBVIOUS
    <3> QED BY <2>1, <2>3, <3>1 DEF BitsInv
  <2>5. WriteInv /\ SureInv /\ DirtyInv
    BY <2>1, <2>2, <2>3 DEF WriteInv, SureInv, DirtyInv
  <2>6. CleanInv
    BY <2>1, <2>2 DEF CleanInv
  <2>7. HeardInv
    BY <2>1 DEF Init, HeardInv
  <2> QED BY <2>4, <2>5, <2>6, <2>7, TypeInit DEF DacInv
<1>2. DacInv /\ [Next]_vars => DacInv'
  <2> SUFFICES ASSUME DacInv, [Next]_vars PROVE DacInv'
    OBVIOUS
  <2>1. CASE Next
    BY <2>1, TypeStep, BitsStep, WriteStep, SureStep, CleanStep, DirtyStep, HeardStep DEF DacInv
  <2>2. CASE UNCHANGED vars
    <3>1. (TypeOK /\ BitsInv /\ WriteInv /\ SureInv /\ CleanInv /\ DirtyInv)'
      BY <2>2 DEF vars, DacInv, TypeOK, BitsInv, WriteInv, SureInv, CleanInv, DirtyInv
    <3>2. HeardInv'
      BY <2>2 DEF vars, DacInv, HeardInv
    <3> QED BY <3>1, <3>2 DEF DacInv
  <2> QED BY <2>1, <2>2
<1> QED BY <1>1, <1>2, PTL DEF Spec

-----------------------------------------------------------------------------
(* The properties.                                                         *)

\* When set_counts has returned with the transfer over, the DAC holds the
\* counts it was given, and keeps them while other DACs are set, for words of
\* any length and any part of them heard by all (dac_ctrl.cpp:117).
THEOREM DacsHoldTheirCounts == Spec => []CountsSet
<1>1. DacInv => CountsSet
  BY DEF DacInv, SureInv, CountsSet
<1> QED BY <1>1, DacInvHolds, PTL

\* A DAC takes a new word only from the call that chose it, and that word is
\* the one asked for; if calls were made while a transfer was still running it is
\* the DAC chosen last, and each bit is one of the counts given in that transfer
\* (dac121s101_fsm.vhd:462, :472).
THEOREM DacsTakeWhatIsAsked == Spec => OnlyAsked
<1>0. ASSUME DacInv, DacInv', Next, NEW d \in Dacs, dac'[d].held # dac[d].held
      PROVE  /\ d = reg.select
             /\ \A k \in 1 .. Bits : \E w \in heard : dac'[d].held[k] = w[k]
  <2> DEFINE s == dac[d].bits
             b == reg.input[Bits]
  <2>1. /\ d = reg.select /\ Clocked(step) = Bits - 1 /\ Len(s) = Bits - 1
        /\ dac'[d].held = Append(s, b)
    BY <1>0, HeldStep DEF DacInv
  <2>2. s \in Seq({0, 1}) /\ b \in {0, 1} /\ reg.input \in heard
    <3>1. reg.input \in Word
      BY <1>0 DEF DacInv, TypeOK, Registers
    <3>2. b \in {0, 1}
      BY <3>1, Numbers DEF Word
    <3>3. s \in Seq({0, 1}) /\ reg.input \in heard
      BY <1>0 DEF DacInv, TypeOK, HeardInv
    <3> QED BY <3>2, <3>3
  <2>3. \A k \in 1 .. Bits - 1 : \E w \in heard : s[k] = w[k]
    BY <1>0, <2>1 DEF DacInv, HeardInv
  <2>4. b = reg.input[Bits]
    OBVIOUS
  <2> HIDE DEF s, b
  <2>5. /\ \A k \in 1 .. Bits - 1 : Append(s, b)[k] = s[k]
        /\ Append(s, b)[Bits] = b
    BY <2>1, <2>2, Numbers
  <2>6. \A k \in 1 .. Bits : k \in 1 .. Bits - 1 \/ k = Bits
    BY Numbers
  <2> QED BY <2>1, <2>2, <2>3, <2>4, <2>5, <2>6
<1>1. ASSUME DacInv, DacInv', Next, NEW d \in Dacs, dac'[d].held # dac[d].held, call.clean
      PROVE  call.line # "none" /\ d = call.dac /\ dac'[d].held = call.word
  <2>1. /\ d = reg.select /\ step # Idle
        /\ Clocked(step) = Bits - 1
        /\ dac'[d].held = Append(dac[d].bits, reg.input[Bits])
        /\ dac'[d].held \in Word
    BY <1>1, HeldStep DEF DacInv, TypeOK
  <2>2. /\ call.line \in {"write 0 again", "sleep"} /\ d = call.dac /\ reg.input = call.word
        /\ dac[d].bits \in Seq({0, 1}) /\ Len(dac[d].bits) = Bits - 1
        /\ \A k \in 1 .. Bits - 1 : dac[d].bits[k] = call.word[k]
        /\ call.word \in Word
    BY <1>1, <2>1 DEF DacInv, CleanInv, TypeOK, Calls
  <2>3. dac'[d].held = call.word
    <3> DEFINE s == dac[d].bits
               w == call.word
    <3>1. s \in Seq({0, 1}) /\ Len(s) = Bits - 1 /\ w \in [1 .. Bits -> {0, 1}]
          /\ Bits \in Nat \ {0} /\ \A k \in 1 .. Bits - 1 : s[k] = w[k]
      BY <2>2, Numbers DEF Word
    <3>2. dac'[d].held = Append(s, w[Bits])
      BY <2>1, <2>2
    <3>3. dac'[d].held \in [1 .. Bits -> {0, 1}]
      BY <2>1 DEF Word
    <3> HIDE DEF s, w
    <3>4. Append(s, w[Bits]) = w
      <4>1. \A k \in 1 .. Bits - 1 : Append(s, w[Bits])[k] = s[k]
        BY <3>1
      <4>2. Append(s, w[Bits])[Bits] = w[Bits]
        BY <3>1
      <4>3. \A k \in 1 .. Bits : k \in 1 .. Bits - 1 \/ k = Bits
        BY <3>1
      <4>4. \A k \in 1 .. Bits : Append(s, w[Bits])[k] = w[k]
        BY <3>1, <4>1, <4>2, <4>3
      <4>5. Append(s, w[Bits]) = [k \in 1 .. Bits |-> Append(s, w[Bits])[k]]
            /\ w = [k \in 1 .. Bits |-> w[k]]
        BY <3>1, <3>2, <3>3
      <4> QED BY <4>4, <4>5
    <3> QED BY <3>2, <3>4 DEF w
  <2> QED BY <2>2, <2>3
<1>2. DacInv /\ DacInv' /\ [Next]_vars =>
        [\A d \in Dacs : dac'[d].held # dac[d].held =>
           /\ d = reg.select
           /\ \A k \in 1 .. Bits : \E w \in heard : dac'[d].held[k] = w[k]
           /\ call.clean =>
                call.line # "none" /\ d = call.dac /\ dac'[d].held = call.word]_vars
  BY <1>0, <1>1
<1> QED BY <1>2, DacInvHolds, PTL DEF Spec, OnlyAsked

=============================================================================
