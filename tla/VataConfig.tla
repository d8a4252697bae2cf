----------------------------- MODULE VataConfig -----------------------------
(***************************************************************************)
(* The configuration register of a chip, seen from the server: the library *)
(* (vata_ctrl.cpp) writes the AXI registers word by word, sends a pulse to *)
(* the state machine, sleeps, and reads words back; the state machine      *)
(* (vata_460p3_iface_fsm.vhd, from SC_SET_MODE_M1 to GC_LATCH_MODE_M3)     *)
(* shifts the bits out to the chip or through it.  The two sides run at    *)
(* their own pace, events keep the state machine busy in between, and a    *)
(* pulse that finds it busy is lost.                                       *)
(*                                                                         *)
(* VataFsm has the states one by one; here one step is one bit.            *)
(***************************************************************************)
EXTENDS Naturals

CONSTANTS
  CfgBits,   \* bits of the chip's register (520)
  WordBits,  \* bits of an AXI register (32)
  NWords,    \* N_CFG_REG, registers written and read back (17)
  Configs,   \* configurations the server may be asked to set
  Intruder   \* whether another program (vatactrl) may force the state machine
             \* to idle meanwhile

Bits == 0 .. CfgBits - 1
RegBits == 0 .. NWords * WordBits - 1

ASSUME ConfigAssumption ==
  /\ CfgBits \in Nat \ {0}
  /\ WordBits \in Nat \ {0}
  /\ NWords \in Nat \ {0}
  /\ CfgBits <= NWords * WordBits
  /\ Configs \subseteq [RegBits -> {0, 1}]
  /\ Intruder \in BOOLEAN

VARIABLES
  pc,       \* where the server's thread is: idle, write, set, get, read, compare
  op,       \* set_check_config or get_config
  i,        \* loop index over the words
  asleep,   \* in usleep, and what the state machine did when it began still runs
  cfgIn,    \* config_in
  cfgOut,   \* config_out
  verdict,  \* what set_check_config returned last: none, ok (true) or bad
  ps,       \* cfg_reg_from_ps, the registers the server writes
  pl,       \* cfg_reg_from_pl, the registers it reads back
  fsm,      \* idle, set, get_latch, get_clock, event, abort
  regIndx,  \* reg_indx
  reg,      \* reg_from_vata
  chip,     \* the chip's register (external)
  held,     \* history: the chip's register after the last shift-out was over
  lost,     \* history: a pulse of the operation found the state machine busy
  cut       \* history: a shift was cut and none has been made since

softVars == <<pc, op, i, cfgIn, cfgOut, verdict>>
fsmVars == <<fsm, regIndx, reg, pl, chip>>
vars == <<softVars, asleep, ps, fsmVars, held, lost, cut>>

Zero(S) == [b \in S |-> 0]
Low(c) == [b \in Bits |-> c[b]]

\* Shift towards the most significant bit, which leaves the register.
ShiftIn(r, b) == [n \in Bits |-> IF n = 0 THEN b ELSE r[n - 1]]
Top(r) == r[CfgBits - 1]

\* What the server reads at the words of the read-back registers; the bits
\* past the last one read as 0.
ReadBack(n) == IF n \in Bits THEN pl[n] ELSE 0

Init ==
  /\ pc = "idle" /\ op = "get_config" /\ i = 0
  /\ cfgIn \in Configs /\ cfgOut = Zero(RegBits) /\ verdict = "none"
  /\ asleep = FALSE
  /\ ps = Zero(RegBits) /\ pl = Zero(Bits)
  /\ fsm = "idle" /\ regIndx = 0 /\ reg = Zero(Bits)
  /\ chip = Zero(Bits) /\ held = chip
  /\ lost = FALSE /\ cut = FALSE

-----------------------------------------------------------------------------
(* The library, on the server's thread.                                    *)

Begin(o, c) ==
  /\ pc = "idle"
  /\ op' = o /\ cfgIn' = c /\ i' = 0 /\ cfgOut' = Zero(RegBits)
  /\ verdict' = "none" /\ lost' = FALSE
  /\ pc' = IF o = "set_check_config" THEN "write" ELSE "get"
  /\ UNCHANGED <<asleep, ps, fsmVars, held, cut>>

WriteWord ==
  /\ pc = "write"
  /\ ps' = [b \in RegBits |-> IF b \div WordBits = i THEN cfgIn[b] ELSE ps[b]]
  /\ IF i < NWords - 1 THEN i' = i + 1 /\ UNCHANGED pc
                       ELSE i' = 0 /\ pc' = "set"
  /\ UNCHANGED <<op, cfgIn, cfgOut, verdict, asleep, fsmVars, held, lost, cut>>

\* Mutant: the bit counter starts one short.
TakeShort(cmd) ==
  IF fsm = "idle"
  THEN /\ fsm' = (IF cmd = "set_config" THEN "set" ELSE "get_latch")
       /\ regIndx' = IF CfgBits > 1 THEN CfgBits - 2 ELSE 0
       /\ UNCHANGED lost
  ELSE lost' = TRUE /\ UNCHANGED <<fsm, regIndx>>

\* A pulse starts an operation if the state machine is idle, else it is lost.
Take(cmd) ==
  IF fsm = "idle"
  THEN /\ fsm' = (IF cmd = "set_config" THEN "set" ELSE "get_latch")
       /\ regIndx' = CfgBits - 1
       /\ UNCHANGED lost
  ELSE lost' = TRUE /\ UNCHANGED <<fsm, regIndx>>

\* AXI0_CTRL_SET_CONF, then sleep for 0.1 s.
PulseSet ==
  /\ pc = "set"
  /\ Take("set_config")
  /\ asleep' = TRUE
  /\ pc' = "get"
  /\ UNCHANGED <<op, i, cfgIn, cfgOut, verdict, ps, reg, pl, chip, held, cut>>

\* Mutant: no sleep between the two pulses.
PulseGetHasty ==
  /\ pc = "get"
  /\ Take("get_config")
  /\ asleep' = FALSE
  /\ pc' = "read"
  /\ UNCHANGED <<op, i, cfgIn, cfgOut, verdict, ps, reg, pl, chip, held, cut>>

\* AXI0_CTRL_GET_CONF, then sleep for 0.1 s.
PulseGet ==
  /\ pc = "get" /\ ~asleep
  /\ Take("get_config")
  /\ asleep' = TRUE
  /\ pc' = "read"
  /\ UNCHANGED <<op, i, cfgIn, cfgOut, verdict, ps, reg, pl, chip, held, cut>>

ReadWord ==
  /\ pc = "read" /\ ~asleep
  /\ cfgOut' = [b \in RegBits |-> IF b \div WordBits = i THEN ReadBack(b) ELSE cfgOut[b]]
  /\ IF i < NWords - 1 THEN i' = i + 1 /\ UNCHANGED pc
     ELSE i' = 0 /\ pc' = "compare"
  /\ UNCHANGED <<op, cfgIn, verdict, asleep, ps, fsmVars, held, lost, cut>>

Compare ==
  /\ pc = "compare"
  /\ verdict' = IF op = "set_check_config" THEN IF cfgIn = cfgOut THEN "ok" ELSE "bad"
                ELSE "none"
  /\ pc' = "idle"
  /\ UNCHANGED <<op, i, cfgIn, cfgOut, asleep, ps, fsmVars, held, lost, cut>>

Software ==
  \/ \E c \in Configs : Begin("set_check_config", c)
  \/ Begin("get_config", cfgIn)
  \/ WriteWord \/ PulseSet \/ PulseGet \/ ReadWord \/ Compare

-----------------------------------------------------------------------------
(* The state machine and the chip.                                         *)

\* What was running when a sleep began is over long before the sleep is: 520
\* bits take 10.4 ms, an event less.
Rest == fsm' = "idle" /\ asleep' = FALSE

\* SC_SET_DATA_I3 to SC_LOWER_CLOCK: one bit to the chip, most significant
\* bit first; the bit is taken from the registers as they are now.
ShiftOut ==
  /\ fsm = "set"
  /\ chip' = ShiftIn(chip, ps[regIndx])
  /\ IF regIndx > 0
     THEN regIndx' = regIndx - 1 /\ UNCHANGED <<fsm, asleep, held, cut>>
     ELSE Rest /\ held' = chip' /\ cut' = FALSE /\ UNCHANGED regIndx
  /\ UNCHANGED <<softVars, ps, reg, pl, lost>>

\* GC_LOWER_LATCH_M2: the first bit is there without a clock.
ReadFirst ==
  /\ fsm = "get_latch"
  /\ reg' = [Zero(Bits) EXCEPT ![0] = Top(chip)]
  /\ fsm' = "get_clock"
  /\ UNCHANGED <<softVars, asleep, ps, regIndx, pl, chip, held, lost, cut>>

\* Mutant: what is clocked back into the chip is the bit read after it.
ClockBackLate ==
  /\ fsm = "get_clock"
  /\ chip' = ShiftIn(chip, Top(ShiftIn(chip, reg[0])))
  /\ IF regIndx > 0
     THEN /\ reg' = ShiftIn(reg, Top(chip'))
          /\ regIndx' = regIndx - 1
          /\ UNCHANGED <<fsm, asleep, pl>>
     ELSE /\ pl' = reg
          /\ Rest
          /\ UNCHANGED <<reg, regIndx>>
  /\ UNCHANGED <<softVars, ps, held, lost, cut>>

\* GC_SET_DATA_I3 to GC_LOWER_CLOCK: the bit read last goes back into the
\* chip, which puts out the next one; GC_XFER_DATA after the last clock.
ClockBack ==
  /\ fsm = "get_clock"
  /\ chip' = ShiftIn(chip, reg[0])
  /\ IF regIndx > 0
     THEN /\ reg' = ShiftIn(reg, Top(chip'))
          /\ regIndx' = regIndx - 1
          /\ UNCHANGED <<fsm, asleep, pl>>
     ELSE /\ pl' = reg
          /\ Rest
          /\ UNCHANGED <<reg, regIndx>>
  /\ UNCHANGED <<softVars, ps, held, lost, cut>>

\* A trigger is accepted, the event is over.
EventBegins ==
  /\ fsm = "idle"
  /\ fsm' = "event"
  /\ UNCHANGED <<softVars, asleep, ps, regIndx, reg, pl, chip, held, lost, cut>>

EventEnds ==
  /\ fsm \in {"event", "abort"}
  /\ Rest
  /\ UNCHANGED <<softVars, ps, regIndx, reg, pl, chip, held, lost, cut>>

\* force_fsm_idle from another program.
ForceIdle ==
  /\ Intruder
  /\ fsm \notin {"idle", "abort"}
  /\ fsm' = "abort"
  /\ cut' = (cut \/ fsm \in {"set", "get_latch", "get_clock"})
  /\ UNCHANGED <<softVars, asleep, ps, regIndx, reg, pl, chip, held, lost>>

Fsm == ShiftOut \/ ReadFirst \/ ClockBack \/ EventEnds

Next == Software \/ Fsm \/ EventBegins \/ ForceIdle

Spec == Init /\ [][Next]_vars

\* Both sides go on.
FairSpec == Spec /\ WF_vars(Software) /\ WF_vars(Fsm)

-----------------------------------------------------------------------------
(* Properties.                                                             *)

\* Type invariant of both sides.
TypeOK ==
  /\ pc \in {"idle", "write", "set", "get", "read", "compare"}
  /\ op \in {"set_check_config", "get_config"}
  /\ i \in 0 .. NWords - 1
  /\ asleep \in BOOLEAN
  /\ cfgIn \in Configs
  /\ cfgOut \in [RegBits -> {0, 1}]
  /\ verdict \in {"none", "ok", "bad"}
  /\ ps \in [RegBits -> {0, 1}]
  /\ pl \in [Bits -> {0, 1}]
  /\ fsm \in {"idle", "set", "get_latch", "get_clock", "event", "abort"}
  /\ regIndx \in Bits
  /\ reg \in [Bits -> {0, 1}]
  /\ chip \in [Bits -> {0, 1}]
  /\ held \in [Bits -> {0, 1}]
  /\ lost \in BOOLEAN
  /\ cut \in BOOLEAN

\* Reading the configuration shifts it out of the chip and back in; it leaves
\* there what was there, unless it is interrupted.
ReadbackKeeps == fsm \in {"idle", "event"} /\ ~cut => chip = held

\* What the library has read back, word by word, is what the chip holds, if
\* the pulse was not lost and nothing was interrupted.
ReadbackTrue ==
  pc = "compare" /\ ~lost /\ ~cut =>
    cfgOut = [b \in RegBits |-> IF b \in Bits THEN chip[b] ELSE 0]

\* A set_check_config whose pulses found the state machine idle leaves its
\* configuration in the chip, and reports failure only over the bits of the
\* last word that the chip does not have.
SetTakes ==
  pc = "idle" /\ verdict # "none" /\ ~lost /\ ~cut =>
    /\ chip = Low(cfgIn)
    /\ verdict = "ok" <=> \A b \in RegBits \ Bits : cfgIn[b] = 0

\* "verify it was correctly set. Returns `true` if set/get were the same.
\* `false` otherwise" (vata_ctrl.cpp:126-128): when it has returned true the
\* chip holds the configuration.
CheckedIsHeld == pc = "idle" /\ verdict = "ok" => chip = Low(cfgIn)
=============================================================================
