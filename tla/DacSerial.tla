----------------------------- MODULE DacSerial -----------------------------
(***************************************************************************)
(* The serial interface of the four DACs, one step per 100 MHz clock:      *)
(* DacCtrl::set_counts and set_delay writing four registers, the state     *)
(* machine of dac121s101_fsm.vhd that drives one clock, one data and one   *)
(* sync line per DAC from them, and the DAC121S101 chips, which are        *)
(* external: a chip shifts in a bit at a falling clock while its sync is   *)
(* low, takes the word over with the last bit, and starts again whenever   *)
(* its sync falls.                                                         *)
(*                                                                         *)
(* The machine reads the registers while it runs; nothing tells software   *)
(* that it is still running.  set_counts sleeps instead.                   *)
(***************************************************************************)
EXTENDS Integers, Sequences

CONSTANTS
  Dacs,    \* a_cal, a_vth, b_cal, b_vth
  Bits,    \* bits of a word (16); a word is these bits, the highest first
  Common,  \* how many of them all DACs listen to: DB15 .. DB6 (10)
  Words,   \* counts that software sets
  Delays,  \* values of the delay register that software sets
  Sleep    \* clocks of set_count_delay_us, 10 ms (10^6)

Word == [1 .. Bits -> {0, 1}]

ASSUME DacAssumption ==
  /\ Bits \in Nat /\ Common \in 0 .. Bits - 1 /\ Sleep \in Nat
  /\ Words \subseteq Word /\ Delays \subseteq Nat

VARIABLES
  step,   \* the state machine: 0 is IDLE, see below
  count,  \* counter_stay_value
  reg,    \* slv_reg0 .. 3: input, delay, select, write
  call,   \* the call of set_counts in progress: line, DAC, counts, clocks slept
  dac,    \* DAC -> the bits seen since its sync fell, the word it holds
  sure,   \* history: DAC -> the counts of the last call that was not disturbed
  heard   \* history: what the input register has held in this transfer
vars == <<step, count, reg, call, dac, sure, heard>>

\* The states in their order: IDLE, SCLK_ONLY_a .. d, SYNC_set, SYNC_clk,
\* DB15_set, DB15_clk .. DB0_set, DB0_clk, SYNC_END_set, SYNC_END_clk.
Idle == 0
SclkOnly == 1 .. 4
SyncSet == 5
FirstBit == 7
BitSteps == FirstBit .. FirstBit + 2 * Bits - 1
Last == FirstBit + 2 * Bits + 1
BitNo(s) == (s - FirstBit) \div 2   \* 0 is the highest bit

------------------------------------------------------------------------------
\* The lines, from the state and the registers of the moment.

Sclk(s) == \/ s = SyncSet \/ s > Last - 2
           \/ s \in BitSteps /\ (s - FirstBit) % 2 = 0
Mosi(s, r) == IF s \in BitSteps THEN r.input[BitNo(s) + 1] ELSE 0

\* Mutant of SyncLow: every DAC listens to the whole word.
SyncLowAll(d, s, r) == s \in SclkOnly \cup BitSteps

\* out_sync is low for all DACs at first, and for the selected one to the end.
SyncLow(d, s, r) ==
  \/ s \in SclkOnly
  \/ s \in BitSteps /\ (BitNo(s) < Common \/ d = r.select)

------------------------------------------------------------------------------
\* The state machine stays delay + 1 clocks in every state.

\* Mutant of Advance: the last bit is not clocked out.
AdvanceShort ==
  IF step = Idle
  THEN step' = (IF reg.write THEN 1 ELSE Idle) /\ count' = 0
  ELSE IF count >= reg.delay
  THEN step' = (IF step = Last - 4 THEN Last - 1 ELSE (step + 1) % (Last + 1))
       /\ count' = 0
  ELSE count' = count + 1 /\ UNCHANGED step

\* From IDLE the machine starts as long as the write bit is set.
Advance ==
  IF step = Idle
  THEN step' = (IF reg.write THEN 1 ELSE Idle) /\ count' = 0
  ELSE IF count >= reg.delay
  THEN step' = (step + 1) % (Last + 1) /\ count' = 0
  ELSE count' = count + 1 /\ UNCHANGED step

------------------------------------------------------------------------------
\* The chips (external).

Chip(d, now, then) ==
  IF ~SyncLow(d, then.s, then.r) THEN [dac[d] EXCEPT !.bits = <<>>]
  ELSE IF Sclk(now.s) /\ ~Sclk(then.s) /\ SyncLow(d, now.s, now.r) /\ Len(dac[d].bits) < Bits
  THEN LET word == Append(dac[d].bits, Mosi(now.s, now.r))
       IN  [bits |-> word, held |-> IF Len(word) = Bits THEN word ELSE dac[d].held]
  ELSE dac[d]

Chips ==
  dac' = [d \in Dacs |-> Chip(d, [s |-> step, r |-> reg], [s |-> step', r |-> reg'])]

------------------------------------------------------------------------------
\* The library.  Between two of its lines any number of clocks pass.

Zero == [k \in 1 .. Bits |-> 0]
NoCall(clean) == [line |-> "none", slept |-> 0, clean |-> clean]
Running == step # Idle

\* A call that finds a transfer running may disturb it, and is disturbed.
Begin(d, w) ==
  /\ call.line = "none"
  /\ reg' = [reg EXCEPT !.select = d]
  /\ call' = [line |-> "input", slept |-> 0, dac |-> d, word |-> w, clean |-> ~Running]
  /\ sure' = IF Running THEN [e \in {} |-> 0]
             ELSE [e \in DOMAIN sure \ {d} |-> sure[e]]

Line(from, to, r) ==
  /\ call.line = from /\ call' = [call EXCEPT !.line = to]
  /\ reg' = r /\ UNCHANGED sure

SetCounts ==
  \/ \E d \in Dacs, w \in Words : Begin(d, w)
  \/ Line("input", "write 0", [reg EXCEPT !.input = call.word])
  \/ Line("write 0", "write 1", [reg EXCEPT !.write = FALSE])
  \/ Line("write 1", "write 0 again", [reg EXCEPT !.write = TRUE])
  \/ Line("write 0 again", "sleep", [reg EXCEPT !.write = FALSE])

\* set_counts returns after the sleep, whatever the machine does.
Sleeping ==
  /\ call.line = "sleep" /\ UNCHANGED reg
  /\ IF call.slept < Sleep
     THEN call' = [call EXCEPT !.slept = @ + 1] /\ UNCHANGED sure
     ELSE /\ call' = NoCall(~Running)
          /\ sure' = IF call.clean /\ ~Running
                     THEN [d \in DOMAIN sure \cup {call.dac} |->
                             IF d = call.dac THEN call.word ELSE sure[d]]
                     ELSE sure

SetDelay(v) ==
  /\ call.line = "none" /\ reg' = [reg EXCEPT !.delay = v]
  /\ UNCHANGED <<call, sure>>

NoWrite == call.line # "sleep" /\ UNCHANGED <<reg, call, sure>>

------------------------------------------------------------------------------

Init ==
  /\ step = Idle /\ count = 0
  /\ reg \in [input : {Zero}, delay : Delays, select : {"none"}, write : {FALSE}]
  /\ call = NoCall(TRUE)
  /\ dac = [d \in Dacs |-> [bits |-> <<>>, held |-> Zero]]
  /\ sure = [d \in Dacs |-> Zero]
  /\ heard = {Zero}

Hear == heard' = (IF step' = Idle THEN {} ELSE heard) \cup {reg'.input}

Next ==
  /\ SetCounts \/ Sleeping \/ (\E v \in Delays : SetDelay(v)) \/ NoWrite
  /\ Advance
  /\ Chips
  /\ Hear

Spec == Init /\ [][Next]_vars

------------------------------------------------------------------------------
\* When set_counts has returned with the transfer over, the DAC holds the counts
\* it was given, and keeps them while other DACs are set (dac_ctrl.cpp:117).
\* Nothing is said after a call that came while a transfer was still running:
\* delays above Sleep / Last - 1 make set_counts return that early.
CountsSet == \A d \in DOMAIN sure : dac[d].held = sure[d]

\* A DAC takes a new word only from the call that chose it, and that word is the
\* one asked for.  If that call or the one before came to its end while the
\* transfer was still running, so that a call changed select and input under
\* it (dac121s101_fsm.vhd:462, :472), it is still the DAC chosen last that
\* takes a word, and each bit of it is that bit of counts given since the
\* transfer began: no word is put together from two transfers, nor out of step.
OnlyAsked ==
  [][\A d \in Dacs : dac'[d].held # dac[d].held =>
       /\ d = reg.select
       /\ \A k \in 1 .. Bits : \E w \in heard : dac'[d].held[k] = w[k]
       /\ call.clean =>
            call.line # "none" /\ d = call.dac /\ dac'[d].held = call.word]_vars
==============================================================================
