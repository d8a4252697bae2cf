------------------------- MODULE VataConfigProofs -------------------------
(***************************************************************************)
(* What VataConfig promises for every size of the chip's register and of   *)
(* the words it is written and read by, for every configuration, and       *)
(* however often another program forces the state machine to idle.         *)
(***************************************************************************)
EXTENDS VataConfig, TLAPS

-----------------------------------------------------------------------------
(* Who is where.                                                           *)

Reading == {"get_latch", "get_clock"}

\* The server sleeps after a pulse only, and a shift runs only while it does:
\* nothing is written or read back under way.  If the pulse was taken, the
\* sleep ends with the shift, or the shift was cut.
ControlInv ==
  /\ asleep => pc \in {"get", "read"}
  /\ pc = "get" /\ asleep => op = "set_check_config"
  /\ pc \in {"write", "set"} => op = "set_check_config"
  /\ fsm = "set" => pc = "get" /\ asleep
  /\ fsm \in Reading => pc = "read" /\ asleep
  /\ pc = "get" /\ asleep /\ ~lost => fsm = "set" \/ cut
  /\ pc = "read" /\ asleep /\ ~lost => fsm \in Reading \/ cut
  /\ pc \in {"set", "get"} => i = 0
  /\ pc = "read" /\ asleep => i = 0

-----------------------------------------------------------------------------
(* The bits on their way.  With regIndx = r, CfgBits - 1 - r bits of this  *)
(* shift are over.                                                         *)

\* The bits shifted out so far are the lowest of the chip's register, those
\* of the server's registers above regIndx.
PartlySet == \A n \in Bits : n + regIndx < CfgBits - 1 => chip[n] = ps[n + regIndx + 1]

\* The chip's register is rotated by the clocks made so far, and what was read
\* of it, the highest bits first, is the low end of reg_from_vata.
Rotated ==
  \A n \in Bits :
    /\ n + regIndx < CfgBits - 1 => chip[n] = held[n + regIndx + 1]
    /\ n + regIndx >= CfgBits - 1 => chip[n] = held[n + regIndx - (CfgBits - 1)]
    /\ n + regIndx <= CfgBits - 1 => reg[n] = held[n + regIndx]

\* The chip holds what it was last given whenever no shift is under way, and
\* during a shift a part of it at a known place.
ShiftInv ==
  /\ fsm \notin {"set", "get_clock"} /\ ~cut => chip = held
  /\ fsm = "get_latch" => regIndx = CfgBits - 1
  /\ fsm = "set" => PartlySet
  /\ fsm = "get_clock" /\ ~cut => Rotated

-----------------------------------------------------------------------------
(* The words on their way.                                                 *)

\* Bit b is in one of the words before the one at the loop index.
Passed(b) == b \div WordBits < i

\* As far as the words are written, the registers hold the configuration, and
\* so does the chip once it was shifted out; as far as the words are read
\* back, the library has what the chip holds.
WordInv ==
  /\ pc = "write" => \A b \in RegBits : Passed(b) => ps[b] = cfgIn[b]
  /\ op = "set_check_config" /\ pc \in {"set", "get", "read", "compare"} => ps = cfgIn
  /\ (/\ op = "set_check_config" /\ ~lost /\ ~cut
      /\ pc \in {"read", "compare"} \/ (pc = "get" /\ ~asleep))
       => held = Low(cfgIn)
  /\ pc = "read" /\ ~asleep /\ ~lost /\ ~cut =>
       /\ pl = held
       /\ \A b \in RegBits : Passed(b) => cfgOut[b] = ReadBack(b)
  /\ pc = "compare" /\ ~lost /\ ~cut =>
       /\ pl = held
       /\ \A b \in RegBits : cfgOut[b] = ReadBack(b)

\* The three together, with what SetTakes says, are inductive.
ConfigInv == TypeOK /\ ControlInv /\ ShiftInv /\ WordInv /\ SetTakes

-----------------------------------------------------------------------------
(* Bits and words.                                                         *)

\* Every bit of the registers is in one of the words.
LEMMA WordOf ==
  ASSUME NEW b \in RegBits
  PROVE  b \div WordBits \in 0 .. NWords - 1
<1>1. /\ WordBits \in Nat /\ WordBits > 0 /\ NWords \in Nat /\ b \in Nat
      /\ NWords * WordBits \in Nat /\ b < NWords * WordBits
  BY ConfigAssumption DEF ConfigAssumption, RegBits
<1> DEFINE q == b \div WordBits
<1>2. /\ q \in Nat /\ b % WordBits \in Nat
      /\ b = WordBits * q + (b % WordBits)
  BY <1>1
<1>3. ASSUME q >= NWords PROVE FALSE
  <2>1. WordBits * q >= WordBits * NWords
    BY <1>1, <1>2, <1>3
  <2> QED
    BY <1>1, <1>2, <2>1
<1> QED
  BY <1>1, <1>2, <1>3

\* The bits passed once the loop index is one further.
LEMMA PassedNext ==
  ASSUME TypeOK, NEW b \in RegBits
  PROVE  /\ b \div WordBits < i + 1 <=> Passed(b) \/ b \div WordBits = i
         /\ i = NWords - 1 => Passed(b) \/ b \div WordBits = i
         /\ ~(b \div WordBits < 0)
         /\ i = 0 => ~Passed(b)
<1>1. b \div WordBits \in 0 .. NWords - 1 /\ NWords \in Nat /\ i \in Nat
  BY WordOf, ConfigAssumption DEF ConfigAssumption, TypeOK
<1> DEFINE q == b \div WordBits
<1> HIDE DEF q
<1> QED
  BY <1>1 DEF Passed, q

\* The sizes as the numbers they are.
LEMMA Sizes == /\ CfgBits \in Nat /\ CfgBits > 0
               /\ NWords \in Nat /\ NWords > 0
               /\ CfgBits - 1 \in Bits /\ 0 \in Bits
               /\ Bits \subseteq RegBits
               /\ Configs \subseteq [RegBits -> {0, 1}]
<1>1. NWords * WordBits \in Nat
  BY ConfigAssumption DEF ConfigAssumption
<1> QED
  BY <1>1, ConfigAssumption DEF ConfigAssumption, Bits, RegBits

\* A register with all its bits 0.
LEMMA Zeroed ==
  ASSUME NEW S
  PROVE  /\ Zero(S) \in [S -> {0, 1}]
         /\ \A n \in S : Zero(S)[n] = 0
BY DEF Zero

\* A register shifted by one bit is a register.
LEMMA Shifted ==
  ASSUME NEW r \in [Bits -> {0, 1}], NEW b \in {0, 1}
  PROVE  /\ ShiftIn(r, b) \in [Bits -> {0, 1}]
         /\ \A n \in Bits : ShiftIn(r, b)[n] = IF n = 0 THEN b ELSE r[n - 1]
<1>1. \A n \in Bits : n # 0 => n - 1 \in Bits
  BY Sizes DEF Bits
<1>2. \A n \in Bits : (IF n = 0 THEN b ELSE r[n - 1]) \in {0, 1}
  BY <1>1
<1> QED
  BY <1>2 DEF ShiftIn

\* The lowest bits of the server's registers are a value of the chip's.
LEMMA LowBits ==
  ASSUME NEW c \in [RegBits -> {0, 1}]
  PROVE  /\ Low(c) \in [Bits -> {0, 1}]
         /\ \A n \in Bits : Low(c)[n] = c[n]
BY Sizes DEF Low

\* What is read back is a bit.
LEMMA BitRead ==
  ASSUME pl \in [Bits -> {0, 1}], NEW b
  PROVE  ReadBack(b) \in {0, 1}
BY DEF ReadBack

-----------------------------------------------------------------------------
(* Type correctness.                                                       *)

\* A step of the library keeps the types.
LEMMA SoftwareType ==
  ASSUME TypeOK, Software
  PROVE  TypeOK'
<1> USE DEF TypeOK, softVars, fsmVars
<1>0. Zero(RegBits) \in [RegBits -> {0, 1}] /\ 0 \in 0 .. NWords - 1
  BY Zeroed, Sizes
<1>1. ASSUME NEW o \in {"set_check_config", "get_config"}, NEW c \in Configs, Begin(o, c)
      PROVE  TypeOK'
  BY <1>0, <1>1 DEF Begin
<1>2. CASE WriteWord
  <2>1. ps' \in [RegBits -> {0, 1}]
    BY <1>2, Sizes DEF WriteWord
  <2>2. i' \in 0 .. NWords - 1
    BY <1>0, <1>2, Sizes DEF WriteWord
  <2> QED
    BY <1>2, <2>1, <2>2 DEF WriteWord
<1>3. CASE PulseSet
  BY <1>3, Sizes DEF PulseSet, Take
<1>4. CASE PulseGet
  BY <1>4, Sizes DEF PulseGet, Take
<1>5. CASE ReadWord
  <2>1. cfgOut' \in [RegBits -> {0, 1}]
    BY <1>5, BitRead DEF ReadWord
  <2>2. i' \in 0 .. NWords - 1
    BY <1>0, <1>5, Sizes DEF ReadWord
  <2> QED
    BY <1>5, <2>1, <2>2 DEF ReadWord
<1>6. CASE Compare
  BY <1>6 DEF Compare
<1> QED
  BY <1>1, <1>2, <1>3, <1>4, <1>5, <1>6 DEF Software

\* A step of the state machine keeps the types.
LEMMA FsmType ==
  ASSUME TypeOK, Fsm \/ EventBegins \/ ForceIdle
  PROVE  TypeOK'
<1> USE DEF TypeOK, softVars, Rest
<1>1. CASE ShiftOut
  <2>1. ps[regIndx] \in {0, 1}
    BY Sizes
  <2>2. chip' \in [Bits -> {0, 1}]
    BY <1>1, <2>1, Shifted DEF ShiftOut
  <2>3. regIndx > 0 => regIndx - 1 \in Bits
    BY Sizes DEF Bits
  <2> QED
    BY <1>1, <2>2, <2>3 DEF ShiftOut
<1>2. CASE ReadFirst
  <2>1. Zero(Bits) \in [Bits -> {0, 1}] /\ chip[CfgBits - 1] \in {0, 1}
    BY Zeroed, Sizes
  <2>2. reg' \in [Bits -> {0, 1}]
    BY <1>2, <2>1 DEF ReadFirst, Top
  <2> QED
    BY <1>2, <2>2 DEF ReadFirst
<1>3. CASE ClockBack
  <2>1. reg[0] \in {0, 1}
    BY Sizes
  <2>2. chip' \in [Bits -> {0, 1}]
    BY <1>3, <2>1, Shifted DEF ClockBack
  <2>3. chip'[CfgBits - 1] \in {0, 1}
    BY <2>2, Sizes
  <2>4. ShiftIn(reg, Top(chip')) \in [Bits -> {0, 1}]
    BY <2>3, Shifted DEF Top
  <2>5. regIndx > 0 => regIndx - 1 \in Bits
    BY Sizes DEF Bits
  <2> QED
    BY <1>3, <2>2, <2>4, <2>5 DEF ClockBack
<1>4. CASE EventEnds
  BY <1>4 DEF EventEnds
<1>5. CASE EventBegins
  BY <1>5 DEF EventBegins
<1>6. CASE ForceIdle
  BY <1>6 DEF ForceIdle
<1> QED
  BY <1>1, <1>2, <1>3, <1>4, <1>5, <1>6 DEF Fsm

\* The type invariant of both sides.
THEOREM TypeCorrect == Spec => []TypeOK
<1>1. Init => TypeOK
  <2>1. /\ Zero(RegBits) \in [RegBits -> {0, 1}]
        /\ Zero(Bits) \in [Bits -> {0, 1}]
    BY Zeroed
  <2>2. 0 \in 0 .. NWords - 1 /\ 0 \in Bits
    BY Sizes
  <2> SUFFICES ASSUME Init PROVE TypeOK
    OBVIOUS
  <2>3. /\ pl \in [Bits -> {0, 1}] /\ reg \in [Bits -> {0, 1}]
        /\ chip \in [Bits -> {0, 1}] /\ held \in [Bits -> {0, 1}]
    BY <2>1 DEF Init
  <2> QED
    BY <2>1, <2>2, <2>3 DEF Init, TypeOK
<1>2. TypeOK /\ [Next]_vars => TypeOK'
  <2>1. TypeOK /\ UNCHANGED vars => TypeOK'
    BY DEF TypeOK, vars, softVars, fsmVars
  <2> QED
    BY <2>1, SoftwareType, FsmType DEF Next
<1> QED
  BY <1>1, <1>2, PTL DEF Spec

-----------------------------------------------------------------------------
(* The steps preserve ControlInv.                                          *)

LEMMA ControlStep ==
  ASSUME TypeOK, ControlInv, Next
  PROVE  ControlInv'
<1> USE DEF ControlInv, Reading, softVars, fsmVars, Rest
<1>1. ASSUME NEW o \in {"set_check_config", "get_config"}, NEW c \in Configs, Begin(o, c)
      PROVE  ControlInv'
  BY <1>1 DEF Begin
<1>2. CASE WriteWord
  BY <1>2 DEF WriteWord
<1>3. CASE PulseSet
  BY <1>3 DEF PulseSet, Take
<1>4. CASE PulseGet
  BY <1>4 DEF PulseGet, Take
<1>5. CASE ReadWord
  BY <1>5 DEF ReadWord
<1>6. CASE Compare
  BY <1>6 DEF Compare
<1>7. CASE ShiftOut
  BY <1>7 DEF ShiftOut
<1>8. CASE ReadFirst
  BY <1>8 DEF ReadFirst
<1>9. CASE ClockBack
  BY <1>9 DEF ClockBack
<1>10. CASE EventEnds
  BY <1>10 DEF EventEnds
<1>11. CASE EventBegins
  BY <1>11 DEF EventBegins
<1>12. CASE ForceIdle
  BY <1>12 DEF ForceIdle
<1> QED
  BY <1>1, <1>2, <1>3, <1>4, <1>5, <1>6, <1>7, <1>8, <1>9, <1>10, <1>11, <1>12
     DEF Next, Software, Fsm, TypeOK

-----------------------------------------------------------------------------
(* The steps preserve ShiftInv.                                            *)

\* Two registers with the same bits are the same.
LEMMA SameBits ==
  ASSUME NEW S, NEW f \in [S -> {0, 1}], NEW g \in [S -> {0, 1}],
         \A n \in S : f[n] = g[n]
  PROVE  f = g
OBVIOUS

\* A bit shifted out to the chip joins those before it; after the last one the
\* chip holds the lowest bits of the server's registers.
LEMMA SetBit ==
  ASSUME TypeOK, PartlySet, ShiftOut
  PROVE  IF regIndx > 0 THEN PartlySet' ELSE chip' = Low(ps)
<1>1. /\ regIndx \in Nat /\ regIndx <= CfgBits - 1
      /\ CfgBits \in Nat /\ CfgBits > 0 /\ regIndx \in RegBits
  BY Sizes DEF TypeOK, Bits
<1>2. ps[regIndx] \in {0, 1}
  BY <1>1 DEF TypeOK
<1>3. /\ chip' \in [Bits -> {0, 1}] /\ ps' = ps
      /\ \A n \in Bits : chip'[n] = IF n = 0 THEN ps[regIndx] ELSE chip[n - 1]
  BY <1>2, Shifted DEF ShiftOut, TypeOK
<1>4. ASSUME NEW n \in Bits, n + regIndx < CfgBits
      PROVE  chip'[n] = ps[n + regIndx]
  <2>1. n \in Nat
    BY DEF Bits
  <2>2. CASE n = 0
    <3>1. n + regIndx = regIndx
      BY <1>1, <2>2
    <3> QED
      BY <1>3, <2>2, <3>1
  <2>3. CASE n # 0
    <3>1. /\ n - 1 \in Bits /\ (n - 1) + regIndx < CfgBits - 1
          /\ (n - 1) + regIndx + 1 = n + regIndx
      BY <1>1, <1>4, <2>1, <2>3 DEF Bits
    <3>2. chip[n - 1] = ps[(n - 1) + regIndx + 1]
      BY <3>1 DEF PartlySet
    <3> QED
      BY <1>3, <2>3, <3>1, <3>2
  <2> QED
    BY <2>2, <2>3
<1>5. CASE regIndx > 0
  <2>1. regIndx' = regIndx - 1
    BY <1>5 DEF ShiftOut
  <2>2. ASSUME NEW n \in Bits, n + regIndx' < CfgBits - 1
        PROVE  chip'[n] = ps'[n + regIndx' + 1]
    <3>1. n + regIndx < CfgBits /\ n + regIndx' + 1 = n + regIndx
      BY <1>1, <1>5, <2>1, <2>2 DEF Bits
    <3> QED
      BY <1>3, <1>4, <3>1
  <2> QED
    BY <1>5, <2>2 DEF PartlySet
<1>6. CASE ~(regIndx > 0)
  <2>1. \A n \in Bits : n + regIndx < CfgBits /\ n + regIndx = n
    BY <1>1, <1>6 DEF Bits
  <2>2. \A n \in Bits : chip'[n] = Low(ps)[n]
    BY <1>4, <2>1, LowBits DEF TypeOK
  <2>3. Low(ps) \in [Bits -> {0, 1}]
    BY LowBits DEF TypeOK
  <2>4. chip' = Low(ps)
    BY <1>3, <2>2, <2>3, SameBits
  <2> QED
    BY <1>6, <2>4
<1> QED
  BY <1>5, <1>6

\* The first bit read is the highest of the chip's register.
LEMMA ReadBit ==
  ASSUME TypeOK, chip = held, regIndx = CfgBits - 1, ReadFirst
  PROVE  Rotated'
<1>1. CfgBits \in Nat /\ CfgBits > 0 /\ CfgBits - 1 \in Bits /\ 0 \in Bits
  BY Sizes
<1>2. /\ chip' = chip /\ held' = held /\ regIndx' = regIndx
      /\ reg'[0] = held[CfgBits - 1]
  <2>1. Zero(Bits) \in [Bits -> {0, 1}]
    BY Zeroed
  <2> QED
    BY <1>1, <2>1 DEF ReadFirst, Top
<1> SUFFICES ASSUME NEW n \in Bits
             PROVE  /\ ~(n + regIndx < CfgBits - 1)
                    /\ n + regIndx >= CfgBits - 1
                         => chip[n] = held[n + regIndx - (CfgBits - 1)]
                    /\ n + regIndx <= CfgBits - 1 => reg'[n] = held[n + regIndx]
  BY <1>2 DEF Rotated
<1>3. n \in Nat
  BY DEF Bits
<1>4. ~(n + regIndx < CfgBits - 1) /\ n + regIndx - (CfgBits - 1) = n
  BY <1>1, <1>3
<1>5. n + regIndx <= CfgBits - 1 => n = 0 /\ n + regIndx = CfgBits - 1
  BY <1>1, <1>3
<1> QED
  BY <1>2, <1>4, <1>5

\* Every clock turns the chip's register by one bit; with the last one it is
\* back where it was, and all its bits were read.
LEMMA TurnBit ==
  ASSUME TypeOK, Rotated, ClockBack
  PROVE  IF regIndx > 0 THEN Rotated' ELSE chip' = held /\ pl' = held
<1>1. /\ regIndx \in Nat /\ regIndx <= CfgBits - 1
      /\ CfgBits \in Nat /\ CfgBits > 0 /\ CfgBits - 1 \in Bits /\ 0 \in Bits
  BY Sizes DEF TypeOK, Bits
<1>2. reg[0] \in {0, 1} /\ 0 + regIndx = regIndx
  BY <1>1 DEF TypeOK
<1>3. reg[0] = held[regIndx]
  BY <1>1, <1>2 DEF Rotated
<1>4. /\ chip' \in [Bits -> {0, 1}] /\ held' = held
      /\ \A n \in Bits : chip'[n] = IF n = 0 THEN held[regIndx] ELSE chip[n - 1]
  BY <1>2, <1>3, Shifted DEF ClockBack, TypeOK
<1>5. ASSUME NEW n \in Bits
      PROVE  /\ n + regIndx < CfgBits => chip'[n] = held[n + regIndx]
             /\ n + regIndx >= CfgBits => chip'[n] = held[n + regIndx - CfgBits]
  <2>1. n \in Nat
    BY DEF Bits
  <2>2. CASE n = 0
    <3>1. n + regIndx = regIndx /\ ~(n + regIndx >= CfgBits)
      BY <1>1, <2>2
    <3> QED
      BY <1>4, <2>2, <3>1
  <2>3. CASE n # 0
    <3>1. /\ n - 1 \in Bits /\ (n - 1) + regIndx + 1 = n + regIndx
          /\ (n - 1) + regIndx - (CfgBits - 1) = n + regIndx - CfgBits
          /\ n + regIndx < CfgBits <=> (n - 1) + regIndx < CfgBits - 1
          /\ n + regIndx >= CfgBits <=> (n - 1) + regIndx >= CfgBits - 1
      BY <1>1, <2>1, <2>3 DEF Bits
    <3>2. /\ (n - 1) + regIndx < CfgBits - 1
               => chip[n - 1] = held[(n - 1) + regIndx + 1]
          /\ (n - 1) + regIndx >= CfgBits - 1
               => chip[n - 1] = held[(n - 1) + regIndx - (CfgBits - 1)]
      BY <3>1 DEF Rotated
    <3> QED
      BY <1>4, <2>3, <3>1, <3>2
  <2> QED
    BY <2>2, <2>3
<1>6. CASE regIndx > 0
  <2>1. regIndx' = regIndx - 1 /\ regIndx' \in Nat
    BY <1>1, <1>6 DEF ClockBack
  <2>2. chip'[CfgBits - 1] = held[regIndx']
    <3>1. /\ (CfgBits - 1) + regIndx >= CfgBits
          /\ (CfgBits - 1) + regIndx - CfgBits = regIndx'
      BY <1>1, <1>6, <2>1
    <3> QED
      BY <1>1, <1>5, <3>1
  <2>3. \A n \in Bits : reg'[n] = IF n = 0 THEN held[regIndx'] ELSE reg[n - 1]
    <3>1. chip'[CfgBits - 1] \in {0, 1}
      BY <1>1, <1>4
    <3>2. reg' = ShiftIn(reg, chip'[CfgBits - 1])
      BY <1>6 DEF ClockBack, Top
    <3> QED
      BY <2>2, <3>1, <3>2, Shifted DEF TypeOK
  <2>4. ASSUME NEW n \in Bits
        PROVE  /\ n + regIndx' < CfgBits - 1 => chip'[n] = held[n + regIndx' + 1]
               /\ n + regIndx' >= CfgBits - 1
                    => chip'[n] = held[n + regIndx' - (CfgBits - 1)]
    <3>1. /\ n + regIndx' + 1 = n + regIndx
          /\ n + regIndx' - (CfgBits - 1) = n + regIndx - CfgBits
          /\ n + regIndx' < CfgBits - 1 <=> n + regIndx < CfgBits
          /\ n + regIndx' >= CfgBits - 1 <=> n + regIndx >= CfgBits
      BY <1>1, <2>1 DEF Bits
    <3> QED
      BY <1>5, <3>1
  <2>5. ASSUME NEW n \in Bits, n + regIndx' <= CfgBits - 1
        PROVE  reg'[n] = held[n + regIndx']
    <3>1. n \in Nat
      BY DEF Bits
    <3>2. CASE n = 0
      <4>1. n + regIndx' = regIndx'
        BY <2>1, <3>2
      <4> QED
        BY <2>3, <3>2, <4>1
    <3>3. CASE n # 0
      <4>1. /\ n - 1 \in Bits /\ (n - 1) + regIndx = n + regIndx'
            /\ (n - 1) + regIndx <= CfgBits - 1
        BY <1>1, <2>1, <2>5, <3>1, <3>3 DEF Bits
      <4>2. reg[n - 1] = held[(n - 1) + regIndx]
        BY <4>1 DEF Rotated
      <4> QED
        BY <2>3, <3>3, <4>1, <4>2
    <3> QED
      BY <3>2, <3>3
  <2> QED
    BY <1>4, <1>6, <2>4, <2>5 DEF Rotated
<1>7. CASE ~(regIndx > 0)
  <2>1. \A n \in Bits : /\ n + regIndx < CfgBits /\ n + regIndx = n
                        /\ n + regIndx <= CfgBits - 1
    BY <1>1, <1>7 DEF Bits
  <2>2. \A n \in Bits : chip'[n] = held[n]
    BY <1>5, <2>1
  <2>3. \A n \in Bits : reg[n] = held[n]
    BY <2>1 DEF Rotated
  <2>4. chip' = held
    BY <1>4, <2>2, SameBits DEF TypeOK
  <2>5. reg = held
    BY <2>3, SameBits DEF TypeOK
  <2> QED
    BY <1>7, <2>4, <2>5 DEF ClockBack
<1> QED
  BY <1>6, <1>7

\* Every step keeps the bits where ShiftInv says.
LEMMA ShiftStep ==
  ASSUME TypeOK, ControlInv, ShiftInv, Next
  PROVE  ShiftInv'
<1>1. CASE ~(Software \/ Fsm)
  <2>1. CASE EventBegins
    BY <2>1 DEF EventBegins, ShiftInv
  <2>2. CASE ForceIdle
    BY <2>2 DEF ForceIdle, ShiftInv
  <2> QED
    BY <1>1, <2>1, <2>2 DEF Next
<1>2. ASSUME UNCHANGED <<fsmVars, held, cut>>, ps' = ps \/ fsm # "set"
      PROVE  ShiftInv'
  BY <1>2 DEF ShiftInv, PartlySet, Rotated, fsmVars
<1>3. CASE Software
  <2>1. ASSUME NEW o \in {"set_check_config", "get_config"}, NEW c \in Configs, Begin(o, c)
        PROVE  ShiftInv'
    BY <1>2, <2>1 DEF Begin
  <2>2. CASE WriteWord
    BY <1>2, <2>2 DEF WriteWord, ControlInv
  <2>3. CASE PulseSet
    <3>1. CASE fsm = "idle"
      <4>1. \A n \in Bits : ~(n + (CfgBits - 1) < CfgBits - 1)
        BY Sizes DEF Bits
      <4>2. /\ fsm' = "set" /\ regIndx' = CfgBits - 1 /\ chip' = chip
            /\ ps' = ps
        BY <2>3, <3>1 DEF PulseSet, Take
      <4> QED
        BY <4>1, <4>2 DEF ShiftInv, PartlySet
    <3>2. CASE fsm # "idle"
      BY <1>2, <2>3, <3>2 DEF PulseSet, Take, fsmVars
    <3> QED
      BY <3>1, <3>2
  <2>4. CASE PulseGet
    <3>1. CASE fsm = "idle"
      BY <2>4, <3>1 DEF PulseGet, Take, ShiftInv
    <3>2. CASE fsm # "idle"
      BY <1>2, <2>4, <3>2 DEF PulseGet, Take, fsmVars
    <3> QED
      BY <3>1, <3>2
  <2>5. CASE ReadWord
    BY <1>2, <2>5 DEF ReadWord
  <2>6. CASE Compare
    BY <1>2, <2>6 DEF Compare
  <2> QED
    BY <1>3, <2>1, <2>2, <2>3, <2>4, <2>5, <2>6 DEF Software, TypeOK
<1>4. CASE ShiftOut
  <2>1. IF regIndx > 0 THEN PartlySet' ELSE chip' = Low(ps)
    BY <1>4, SetBit DEF ShiftInv, ShiftOut
  <2> QED
    BY <1>4, <2>1 DEF ShiftOut, ShiftInv, Rest
<1>5. CASE ReadFirst
  <2>1. ~cut' => Rotated'
    BY <1>5, ReadBit DEF ReadFirst, ShiftInv
  <2> QED
    BY <1>5, <2>1 DEF ReadFirst, ShiftInv
<1>6. CASE ClockBack
  <2>1. ~cut => IF regIndx > 0 THEN Rotated' ELSE chip' = held /\ pl' = held
    BY <1>6, TurnBit DEF ShiftInv, ClockBack
  <2> QED
    BY <1>6, <2>1 DEF ClockBack, ShiftInv, Rest
<1>7. CASE EventEnds
  BY <1>7 DEF EventEnds, ShiftInv, Rest
<1> QED
  BY <1>1, <1>3, <1>4, <1>5, <1>6, <1>7 DEF Fsm

-----------------------------------------------------------------------------
(* The steps preserve WordInv and SetTakes.                                *)

\* A word written is in the registers with those before it; after the last one
\* they hold the configuration.
LEMMA WordWritten ==
  ASSUME TypeOK, ControlInv, WordInv, WriteWord
  PROVE  WordInv'
<1>1. /\ cfgIn \in [RegBits -> {0, 1}] /\ cfgIn' = cfgIn /\ op' = op
      /\ ps' \in [RegBits -> {0, 1}] /\ i \in 0 .. NWords - 1
  BY Sizes, SoftwareType DEF TypeOK, WriteWord, Software
<1>2. ASSUME NEW b \in RegBits, Passed(b) \/ b \div WordBits = i
      PROVE  ps'[b] = cfgIn[b]
  BY <1>2 DEF WriteWord, WordInv
<1>3. CASE i < NWords - 1
  <2>1. pc' = "write" /\ i' = i + 1
    BY <1>3 DEF WriteWord
  <2>2. ASSUME NEW b \in RegBits, Passed(b)' PROVE ps'[b] = cfgIn'[b]
    <3>1. b \div WordBits < i + 1
      BY <2>1, <2>2 DEF Passed
    <3> QED
      BY <1>1, <1>2, <3>1, PassedNext
  <2> QED
    BY <2>1, <2>2 DEF WordInv
<1>4. CASE ~(i < NWords - 1)
  <2>1. pc' = "set" /\ i = NWords - 1
    BY <1>1, <1>4, Sizes DEF WriteWord
  <2>2. \A b \in RegBits : ps'[b] = cfgIn[b]
    BY <1>2, <2>1, PassedNext
  <2>3. ps' = cfgIn
    BY <1>1, <2>2, SameBits
  <2> QED
    BY <1>1, <2>1, <2>3 DEF WordInv
<1> QED
  BY <1>3, <1>4

\* A word read back is in the library's copy with those before it.
LEMMA WordRead ==
  ASSUME TypeOK, ControlInv, WordInv, ReadWord
  PROVE  WordInv'
<1>1. /\ UNCHANGED <<op, cfgIn, asleep, ps, pl, held, lost, cut>>
      /\ pc = "read" /\ ~asleep /\ i \in 0 .. NWords - 1
  BY DEF ReadWord, fsmVars, TypeOK
<1>2. ASSUME NEW b \in RegBits, ~lost, ~cut, Passed(b) \/ b \div WordBits = i
      PROVE  cfgOut'[b] = ReadBack(b)'
  <2>1. ReadBack(b)' = ReadBack(b)
    BY <1>1 DEF ReadBack
  <2> QED
    BY <1>1, <1>2, <2>1 DEF ReadWord, WordInv
<1>3. ~lost /\ ~cut => pl' = held'
  BY <1>1 DEF WordInv
<1>4. /\ op = "set_check_config" => ps = cfgIn
      /\ op = "set_check_config" /\ ~lost /\ ~cut => held = Low(cfgIn)
  BY <1>1 DEF WordInv
<1>5. Low(cfgIn)' = Low(cfgIn)
  BY <1>1 DEF Low
<1>6. CASE i < NWords - 1
  <2>1. pc' = "read" /\ i' = i + 1
    BY <1>1, <1>6 DEF ReadWord
  <2>2. ASSUME NEW b \in RegBits, ~lost', ~cut', Passed(b)'
        PROVE  cfgOut'[b] = ReadBack(b)'
    <3>1. b \div WordBits < i + 1
      BY <2>1, <2>2 DEF Passed
    <3> QED
      BY <1>1, <1>2, <2>2, <3>1, PassedNext
  <2> QED
    BY <1>1, <1>3, <1>4, <1>5, <2>1, <2>2 DEF WordInv
<1>7. CASE ~(i < NWords - 1)
  <2>1. pc' = "compare" /\ i = NWords - 1
    BY <1>1, <1>7, Sizes DEF ReadWord
  <2>2. ASSUME NEW b \in RegBits, ~lost', ~cut'
        PROVE  cfgOut'[b] = ReadBack(b)'
    BY <1>1, <1>2, <2>1, <2>2, PassedNext
  <2> QED
    BY <1>1, <1>3, <1>4, <1>5, <2>1, <2>2 DEF WordInv
<1> QED
  BY <1>6, <1>7

\* The steps of the library that move no word.
LEMMA WordKept ==
  ASSUME TypeOK, ControlInv, WordInv,
         \/ PulseSet \/ PulseGet \/ Compare
         \/ \E c \in Configs : Begin("set_check_config", c)
         \/ Begin("get_config", cfgIn)
  PROVE  WordInv'
<1>1. CASE PulseSet
  <2>1. /\ pc' = "get" /\ asleep' /\ op' = op /\ ps' = ps /\ cfgIn' = cfgIn
        /\ pc = "set"
    BY <1>1 DEF PulseSet
  <2> QED
    BY <2>1 DEF WordInv
<1>2. CASE PulseGet
  <2>1. /\ pc' = "read" /\ asleep' /\ op' = op /\ ps' = ps /\ cfgIn' = cfgIn
        /\ pc = "get" /\ ~asleep /\ held' = held /\ cut' = cut
        /\ ~lost' => ~lost
    BY <1>2 DEF PulseGet, Take
  <2>2. Low(cfgIn)' = Low(cfgIn)
    BY <2>1 DEF Low
  <2> QED
    BY <2>1, <2>2 DEF WordInv
<1>3. CASE Compare
  <2>1. pc' = "idle"
    BY <1>3 DEF Compare
  <2> QED
    BY <2>1 DEF WordInv
<1>4. ASSUME NEW c \in Configs, Begin("set_check_config", c)
      PROVE  WordInv'
  <2>1. pc' = "write" /\ i' = 0
    BY <1>4 DEF Begin
  <2>2. \A b \in RegBits : ~Passed(b)'
    <3> SUFFICES ASSUME NEW b \in RegBits PROVE ~(b \div WordBits < 0)
      BY <2>1 DEF Passed
    <3> QED
      BY PassedNext
  <2> QED
    BY <2>1, <2>2 DEF WordInv
<1>5. CASE Begin("get_config", cfgIn)
  <2>1. pc' = "get" /\ op' = "get_config"
    BY <1>5 DEF Begin
  <2> QED
    BY <2>1 DEF WordInv
<1> QED
  BY <1>1, <1>2, <1>3, <1>4, <1>5

\* The steps of the state machine: what a shift leaves behind is what the
\* library goes on with.
LEMMA WordShifted ==
  ASSUME TypeOK, ControlInv, ShiftInv, WordInv, Fsm \/ EventBegins \/ ForceIdle
  PROVE  WordInv'
<1>1. UNCHANGED <<pc, op, i, cfgIn, cfgOut, ps, lost>> /\ Low(cfgIn)' = Low(cfgIn)
  BY DEF Fsm, ShiftOut, ReadFirst, ClockBack, EventEnds, EventBegins, ForceIdle,
         softVars, Low
<1>2. CASE UNCHANGED <<asleep, pl, held>> /\ (~cut' => ~cut)
  <2>1. \A b \in RegBits : Passed(b)' = Passed(b) /\ ReadBack(b)' = ReadBack(b)
    BY <1>1, <1>2 DEF Passed, ReadBack
  <2> QED
    BY <1>1, <1>2, <2>1 DEF WordInv
<1>3. CASE ShiftOut /\ ~(regIndx > 0)
  <2>1. pc = "get" /\ asleep /\ op = "set_check_config"
    BY <1>3 DEF ShiftOut, ControlInv
  <2>2. held' = Low(ps)
    BY <1>3, SetBit DEF ShiftOut, ShiftInv
  <2>3. ps = cfgIn
    BY <2>1 DEF WordInv
  <2> QED
    BY <1>1, <2>1, <2>2, <2>3 DEF WordInv
<1>4. CASE ClockBack /\ ~(regIndx > 0)
  <2>1. pc = "read" /\ asleep /\ i = 0 /\ held' = held /\ cut' = cut
    BY <1>4 DEF ClockBack, ControlInv, Reading
  <2>2. ~cut => pl' = held
    BY <1>4, TurnBit DEF ClockBack, ShiftInv
  <2>3. \A b \in RegBits : ~Passed(b)'
    <3> SUFFICES ASSUME NEW b \in RegBits PROVE ~Passed(b)
      BY <1>1 DEF Passed
    <3> QED
      BY <2>1, PassedNext
  <2> QED
    BY <1>1, <2>1, <2>2, <2>3 DEF WordInv
<1>5. CASE EventEnds
  <2>1. /\ UNCHANGED <<pl, held, cut>> /\ fsm \notin Reading \cup {"set"}
    BY <1>5 DEF EventEnds, Reading
  <2>2. asleep /\ ~lost => cut
    BY <2>1 DEF ControlInv
  <2>3. CASE asleep
    BY <1>1, <2>1, <2>2, <2>3 DEF WordInv, ControlInv
  <2>4. CASE ~asleep
    <3>1. asleep' = asleep
      BY <1>5, <2>4 DEF EventEnds, Rest, TypeOK
    <3> QED
      BY <1>2, <2>1, <3>1
  <2> QED
    BY <2>3, <2>4
<1>6. \/ ShiftOut /\ ~(regIndx > 0)
      \/ ClockBack /\ ~(regIndx > 0)
      \/ EventEnds
      \/ UNCHANGED <<asleep, pl, held>> /\ (~cut' => ~cut)
  BY DEF Fsm, ShiftOut, ReadFirst, ClockBack, EventBegins, ForceIdle
<1> QED
  BY <1>2, <1>3, <1>4, <1>5, <1>6

\* Every step preserves WordInv.
LEMMA WordStep ==
  ASSUME TypeOK, ControlInv, ShiftInv, WordInv, Next
  PROVE  WordInv'
BY WordWritten, WordRead, WordKept, WordShifted DEF Next, Software

\* What the library compares is what the chip holds.
LEMMA Compared ==
  ASSUME TypeOK, ControlInv, ShiftInv, WordInv, pc = "compare", ~lost, ~cut
  PROVE  /\ chip = held
         /\ \A b \in RegBits : cfgOut[b] = IF b \in Bits THEN chip[b] ELSE 0
<1>1. chip = held
  BY DEF ControlInv, ShiftInv, Reading
<1> QED
  BY <1>1 DEF WordInv, ReadBack

\* Every step preserves SetTakes.
LEMMA SetTakesStep ==
  ASSUME TypeOK, ControlInv, ShiftInv, WordInv, SetTakes, Next
  PROVE  SetTakes'
<1> SUFFICES ASSUME pc' = "idle", verdict' # "none", ~lost', ~cut'
             PROVE  /\ chip' = Low(cfgIn')
                    /\ verdict' = "ok" <=> \A b \in RegBits \ Bits : cfgIn'[b] = 0
  BY DEF SetTakes, Low
<1>1. CASE Compare
  <2>1. /\ pc = "compare" /\ op = "set_check_config" /\ ~lost /\ ~cut
        /\ UNCHANGED <<cfgIn, chip>>
        /\ verdict' = IF cfgIn = cfgOut THEN "ok" ELSE "bad"
    BY <1>1 DEF Compare, fsmVars
  <2>2. chip = Low(cfgIn)
    BY <2>1, Compared DEF WordInv
  <2>3. /\ cfgIn \in [RegBits -> {0, 1}] /\ cfgOut \in [RegBits -> {0, 1}]
    BY Sizes DEF TypeOK
  <2>4. \A b \in Bits : cfgOut[b] = cfgIn[b]
    BY <2>1, <2>2, <2>3, Compared, LowBits, Sizes
  <2>5. \A b \in RegBits \ Bits : cfgOut[b] = 0
    BY <2>1, Compared
  <2>6. cfgIn = cfgOut <=> \A b \in RegBits \ Bits : cfgIn[b] = 0
    <3>1. ASSUME \A b \in RegBits \ Bits : cfgIn[b] = 0 PROVE cfgIn = cfgOut
      <4>1. \A b \in RegBits : cfgIn[b] = cfgOut[b]
        BY <2>4, <2>5, <3>1
      <4> QED
        BY <2>3, <4>1, SameBits
    <3> QED
      BY <2>5, <3>1
  <2> QED
    BY <2>1, <2>2, <2>6
<1>2. CASE Software /\ ~Compare
  BY <1>2 DEF Software, Begin, WriteWord, PulseSet, PulseGet, ReadWord
<1>3. CASE Fsm \/ EventBegins \/ ForceIdle
  <2>1. UNCHANGED <<pc, cfgIn, verdict, lost>>
    BY <1>3 DEF Fsm, ShiftOut, ReadFirst, ClockBack, EventEnds, EventBegins,
                ForceIdle, softVars
  <2>2. ~ShiftOut /\ ~ClockBack
    BY <2>1 DEF ShiftOut, ClockBack, ControlInv, Reading
  <2>3. chip' = chip
    BY <1>3, <2>2 DEF Fsm, ReadFirst, EventEnds, EventBegins, ForceIdle
  <2>4. ~cut
    <3>1. CASE ForceIdle
      BY <3>1, Zenon DEF ForceIdle
    <3>2. CASE ~ForceIdle
      BY <1>3, <2>2, <3>2 DEF Fsm, ReadFirst, EventEnds, EventBegins
    <3> QED
      BY <3>1, <3>2
  <2> QED
    BY <2>1, <2>3, <2>4 DEF SetTakes
<1> QED
  BY <1>1, <1>2, <1>3 DEF Next

-----------------------------------------------------------------------------
(* The theorems.                                                           *)

\* ConfigInv holds in every reachable state.
THEOREM ConfigInvHolds == Spec => []ConfigInv
<1>1. Init => ControlInv /\ ShiftInv /\ WordInv /\ SetTakes
  BY DEF Init, ControlInv, ShiftInv, WordInv, SetTakes, Reading
<1>2. TypeOK /\ TypeOK' /\ ControlInv /\ ShiftInv /\ WordInv /\ SetTakes /\ [Next]_vars
        => (ControlInv /\ ShiftInv /\ WordInv /\ SetTakes)'
  <2>1. CASE Next
    BY <2>1, ControlStep, ShiftStep, WordStep, SetTakesStep
  <2>2. CASE UNCHANGED vars
    BY <2>2 DEF vars, softVars, fsmVars, ControlInv, Reading, ShiftInv, PartlySet,
                Rotated, WordInv, Passed, ReadBack, Low, SetTakes
  <2> QED
    BY <2>1, <2>2
<1> QED
  BY <1>1, <1>2, TypeCorrect, PTL DEF Spec, ConfigInv

\* Reading a chip's configuration leaves it in the chip, for a register of any
\* length (GC_SET_MODE_M2 to GC_LATCH_MODE_M3).
THEOREM ReadbackIsHarmless == Spec => []ReadbackKeeps
<1>1. ConfigInv => ReadbackKeeps
  BY DEF ConfigInv, ShiftInv, ReadbackKeeps
<1> QED
  BY <1>1, ConfigInvHolds, PTL

\* What get_config returns is what the chip holds, however its register is cut
\* into words.
THEOREM ReadbackIsTrue == Spec => []ReadbackTrue
<1>1. ConfigInv => ReadbackTrue
  <2> SUFFICES ASSUME ConfigInv, pc = "compare", ~lost, ~cut
               PROVE  cfgOut = [b \in RegBits |-> IF b \in Bits THEN chip[b] ELSE 0]
    BY DEF ReadbackTrue
  <2>1. \A b \in RegBits : cfgOut[b] = IF b \in Bits THEN chip[b] ELSE 0
    BY Compared DEF ConfigInv
  <2>2. cfgOut \in [RegBits -> {0, 1}]
    BY DEF ConfigInv, TypeOK
  <2> QED
    BY <2>1, <2>2
<1> QED
  BY <1>1, ConfigInvHolds, PTL

\* set_check_config leaves its configuration in the chip, and fails only over
\* bits the chip does not have, if its pulses are taken and not cut.
THEOREM SetIsTaken == Spec => []SetTakes
<1>1. ConfigInv => SetTakes
  BY DEF ConfigInv
<1> QED
  BY <1>1, ConfigInvHolds, PTL

=============================================================================
