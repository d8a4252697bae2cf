------------------------------ MODULE VataFsm ------------------------------
(***************************************************************************)
(* The acquisition state machine of one VATA460.3 front-end chip           *)
(* (vata_460p3_iface_fsm.vhd) with the trigger-acknowledge timer           *)
(* (trigger_ack_timeout_fsm.vhd) and the AXI-stream port that feeds the    *)
(* data FIFO.  The logic is synchronous: one step of Next is one rising    *)
(* edge of clk_100MHz, at which every register takes its next value from   *)
(* the values before the edge and from the inputs of that cycle.           *)
(*                                                                         *)
(* The bits shifted in and out of the chip are abstracted here to how many *)
(* were read and shifted; VataConfig adds the bits of the configuration    *)
(* registers.                                                              *)
(***************************************************************************)
EXTENDS Naturals, Sequences

CONSTANTS
  CfgBits,    \* bits of the chip's configuration register (520)
  DataBits,   \* bits of a full event readout (379)
  ChipLate,   \* bits past DataBits the chip may send before o5 (external; 0
              \* for a chip that keeps to its format)
  Words,      \* 32-bit words of a data packet, RO_WFIFO_00 .. 18 (19)
  Dwell,      \* timed state |-> value of state_counter at which it is left
  CntMod,     \* state_counter counts modulo this (2^16)
  EventMod,   \* the event counter counts modulo this (2^32)
  AckTimeout, \* the trigger_ack_timeout register; 0 disables the timer
  Sources,    \* trigger lines: tm_hit, tm_ack, force and the local hits
  TriggerEna, \* the lines enabled in the trigger mask register
  Commands,   \* commands the control register may carry in this instance
  CutWords    \* bound: idle is not forced while more words than this are left
              \* open on the stream by packets cut before

\* Timed states, by phase.  GC_CLOCK_LAST stands for the second threshold
\* (10 us) of GC_CLOCK_DATA, the one that applies to the last bit.
ScTimed == {"SC_SET_MODE_M1", "SC_LATCH_MODE_M1", "SC_LOWER_LATCH_M1",
            "SC_SET_DATA_I3", "SC_CLOCK_DATA", "SC_LOWER_CLOCK",
            "SC_SET_MODE_M3", "SC_LATCH_MODE_M3"}
GcTimed == {"GC_SET_MODE_M2", "GC_LATCH_MODE_M2", "GC_LOWER_LATCH_M2",
            "GC_SET_DATA_I3", "GC_CLOCK_DATA", "GC_READ_O5",
            "GC_LOWER_CLOCK", "GC_SET_MODE_M3", "GC_LATCH_MODE_M3"}
AcqTimed == {"ACQ_DELAY", "ACQ_HOLD", "ACQ_LOWER_I1", "CONV_RAISE_I3",
             "CONV_LOWER_I4", "CONV_CLK_HI", "CONV_CLK_LO",
             "CONV_SET_MODE_M5", "RO_LATCH_MODE_M5", "RO_CLK_HI",
             "RO_READ_O6", "RO_CLK_LO"}
ReturnTimed == {"RO_SET_MODE_M3", "RO_LATCH_MODE_M3"}
AbortTimed == {"ABORT_SET_MODE_M3", "ABORT_LATCH_MODE_M3"}

Timed == ScTimed \cup GcTimed \cup AcqTimed \cup ReturnTimed \cup AbortTimed

\* Mutant: abort_daq is obeyed only once the conversion has begun.
AcquiringLate == (AcqTimed \ {"ACQ_DELAY", "ACQ_HOLD", "ACQ_LOWER_I1"})
                   \cup {"CONV_LATCH_M4", "RO_SHIFT_DATA"}

\* The states that obey abort_daq: from the trigger to the last bit read.
Acquiring == AcqTimed \cup {"ACQ_SET_MODE_M4", "CONV_LATCH_M4", "RO_SHIFT_DATA"}

\* The states that obey force_fsm_idle: all but IDLE and the way back itself.
Interruptible == ScTimed \cup GcTimed \cup Acquiring \cup ReturnTimed
                   \cup {"GC_SHIFT_CFG_REG", "GC_XFER_DATA", "RO_WFIFO"}

\* RO_WFIFO with the variable word stands for RO_WFIFO_00 .. RO_WFIFO_18.
\* The code also declares ABORT_WFIFO, to close a packet given up half way,
\* but no transition leads to it.
States == {"IDLE"} \cup Interruptible \cup AbortTimed

AckStates == {"IDLE", "INC_COUNTER", "ACQ_OK", "ACQ_ABORT0", "ACQ_ABORT1"}

CommandNames == {"set_config", "get_config", "force_fsm_idle", "rst_ev_count"}

ASSUME SizeAssumption ==
  /\ CfgBits \in Nat \ {0}
  /\ DataBits \in Nat \ {0}
  /\ ChipLate \in Nat
  /\ Words \in Nat \ {0}
  /\ CutWords \in Nat
  /\ CntMod \in Nat \ {0}
  /\ EventMod \in Nat \ {0}
  /\ AckTimeout \in Nat

ASSUME DwellAssumption ==
  Dwell \in [Timed \cup {"GC_CLOCK_LAST"} -> 0 .. CntMod - 1]

ASSUME InputAssumption ==
  /\ TriggerEna \subseteq Sources
  /\ Commands \subseteq CommandNames

VARIABLES
  state,    \* current_state
  cnt,      \* state_counter
  regIndx,  \* reg_indx
  word,     \* which RO_WFIFO_nn state it is
  shifts,   \* right shifts of reg_from_vata in the current readout
  ackState, \* state of the acknowledge timer
  ackCnt,   \* its counter
  evCount,  \* uevent_counter
  pktEv,    \* pkt_event_counter, latched when the trigger was accepted
  cur,      \* words put on the stream since the last TLAST
  frame,    \* the packet TLAST has just closed, <<>> in all other cycles
  chipMode, \* the mode the chip latched (external: the chip)
  sent,     \* history: packets closed by TLAST, modulo EventMod
  disturbed,\* history: the event counter was reset, or a packet was cut
  acked,    \* history: this event's acknowledge came in time
  timerOf,  \* history: the timer counts for this "event" or for an "other" trigger
  modeAge   \* history: cycles the mode pins have been stable, at most CntMod

fsmVars == <<state, cnt, regIndx, word, shifts>>
ackVars == <<ackState, ackCnt>>
vars == <<fsmVars, ackVars, evCount, pktEv, cur, frame, chipMode, sent,
          disturbed, acked, timerOf, modeAge>>

\* The inputs of one cycle: a command trigger pulse (one register value is
\* written at a time), the trigger lines, the chip's o5.
Inputs == [cmd : Commands \cup {"none"}, trig : SUBSET Sources, o5 : BOOLEAN]

Ack(in) == "tm_ack" \in in.trig
TriggerAcq(in) == in.trig \cap TriggerEna # {}
AbortDaq == ackState \in {"ACQ_ABORT0", "ACQ_ABORT1"}

-----------------------------------------------------------------------------
(* The pins to the chip, as functions of the state.                        *)

Mode(s) ==
  IF s \in ScTimed \ {"SC_SET_MODE_M3", "SC_LATCH_MODE_M3"} THEN "M1"
  ELSE IF s \in (GcTimed \cup {"GC_SHIFT_CFG_REG", "GC_XFER_DATA"})
                \ {"GC_SET_MODE_M3", "GC_LATCH_MODE_M3"} THEN "M2"
  ELSE IF s \in {"ACQ_SET_MODE_M4", "CONV_LATCH_M4", "CONV_RAISE_I3",
                 "CONV_LOWER_I4", "CONV_CLK_HI", "CONV_CLK_LO"} THEN "M4"
  ELSE IF s \in {"CONV_SET_MODE_M5", "RO_LATCH_MODE_M5", "RO_CLK_HI",
                 "RO_READ_O6", "RO_CLK_LO", "RO_SHIFT_DATA", "RO_WFIFO"} THEN "M5"
  ELSE "M3"

Latch(s) == s \in {"SC_LATCH_MODE_M1", "SC_LATCH_MODE_M3", "GC_LATCH_MODE_M2",
                   "GC_LATCH_MODE_M3", "CONV_LATCH_M4", "CONV_RAISE_I3",
                   "RO_LATCH_MODE_M5", "RO_LATCH_MODE_M3",
                   "ABORT_LATCH_MODE_M3"}

-----------------------------------------------------------------------------
(* Moves of the state register.  Goto clears state_counter, Drift leaves   *)
(* it counting, as the code does on the edges that set no clear.           *)

CntStep == (cnt + 1) % CntMod
Goto(s) == state' = s /\ cnt' = 0
Drift(s) == state' = s /\ cnt' = CntStep

Threshold == IF state = "GC_CLOCK_DATA" /\ regIndx = 0
             THEN Dwell["GC_CLOCK_LAST"] ELSE Dwell[state]
\* Mutant: > for >=, as in doc/data-acq-fsm.gv.
DoneLate == state \in Timed => cnt > Threshold

Done == state \in Timed => cnt >= Threshold

Forced(in) == in.cmd = "force_fsm_idle" /\ state \in Interruptible
\* Mutant: abort_daq is obeyed while the packet is being written, too.
AbortingPacket(in) == ~Forced(in) /\ AbortDaq /\ state \in Interruptible

Aborting(in) == ~Forced(in) /\ AbortDaq /\ state \in Acquiring
Runs(in) == ~Forced(in) /\ ~Aborting(in) /\ Done

Straight(from, to) == /\ state = from
                      /\ Goto(to)
                      /\ UNCHANGED <<regIndx, word, shifts>>

Init ==
  /\ state = "IDLE" /\ cnt = 0 /\ regIndx = 0 /\ word = 0 /\ shifts = 0
  /\ ackState = "IDLE" /\ ackCnt = 0
  /\ evCount = 0 /\ pktEv = 0
  /\ cur = <<>> /\ frame = <<>>
  /\ chipMode = "unset"
  /\ sent = 0 /\ disturbed = FALSE
  /\ acked = FALSE /\ timerOf = "other" /\ modeAge = 0

\* Mutant: set_config does not clear state_counter either.
IdleDrift(in) ==
  /\ state = "IDLE"
  /\ UNCHANGED <<regIndx, word, shifts>>
  /\ IF TriggerAcq(in) THEN Goto("ACQ_DELAY")
     ELSE IF in.cmd = "set_config" THEN Drift("SC_SET_MODE_M1")
     ELSE IF in.cmd = "get_config" THEN Drift("GC_SET_MODE_M2")
     ELSE Drift("IDLE")

\* In IDLE a trigger comes before the commands, which are lost if not taken;
\* get_config does not clear state_counter.
Idle(in) ==
  /\ state = "IDLE"
  /\ UNCHANGED <<regIndx, word, shifts>>
  /\ IF TriggerAcq(in) THEN Goto("ACQ_DELAY")
     ELSE IF in.cmd = "set_config" THEN Goto("SC_SET_MODE_M1")
     ELSE IF in.cmd = "get_config" THEN Drift("GC_SET_MODE_M2")
     ELSE Drift("IDLE")

\* A timed state whose threshold is not reached.
Linger(in) ==
  /\ ~Forced(in) /\ ~Aborting(in) /\ ~Done
  /\ Drift(state)
  /\ UNCHANGED <<regIndx, word, shifts>>

\* Shift cfg_reg_from_ps out to the chip, bit 519 first.
SetConfig(in) ==
  /\ Runs(in)
  /\ \/ /\ state = "SC_SET_MODE_M1"
        /\ Goto("SC_LATCH_MODE_M1")
        /\ regIndx' = CfgBits - 1
        /\ UNCHANGED <<word, shifts>>
     \/ Straight("SC_LATCH_MODE_M1", "SC_LOWER_LATCH_M1")
     \/ Straight("SC_LOWER_LATCH_M1", "SC_SET_DATA_I3")
     \/ Straight("SC_SET_DATA_I3", "SC_CLOCK_DATA")
     \/ Straight("SC_CLOCK_DATA", "SC_LOWER_CLOCK")
     \/ /\ state = "SC_LOWER_CLOCK"
        /\ IF regIndx = 0
           THEN Goto("SC_SET_MODE_M3") /\ UNCHANGED regIndx
           ELSE Goto("SC_SET_DATA_I3") /\ regIndx' = regIndx - 1
        /\ UNCHANGED <<word, shifts>>
     \/ Straight("SC_SET_MODE_M3", "SC_LATCH_MODE_M3")
     \/ /\ state = "SC_LATCH_MODE_M3"
        /\ Drift("IDLE")
        /\ UNCHANGED <<regIndx, word, shifts>>

\* Shift the chip's register into reg_from_vata and back into the chip.
GetConfig(in) ==
  /\ Runs(in)
  /\ \/ /\ state = "GC_SET_MODE_M2"
        /\ Goto("GC_LATCH_MODE_M2")
        /\ regIndx' = CfgBits - 1
        /\ UNCHANGED <<word, shifts>>
     \/ Straight("GC_LATCH_MODE_M2", "GC_LOWER_LATCH_M2")
     \/ Straight("GC_LOWER_LATCH_M2", "GC_SET_DATA_I3")
     \/ Straight("GC_SET_DATA_I3", "GC_CLOCK_DATA")
     \/ /\ state = "GC_CLOCK_DATA"
        /\ Goto(IF regIndx > 0 THEN "GC_SHIFT_CFG_REG" ELSE "GC_LOWER_CLOCK")
        /\ UNCHANGED <<regIndx, word, shifts>>
     \/ Straight("GC_SHIFT_CFG_REG", "GC_READ_O5")
     \/ Straight("GC_READ_O5", "GC_LOWER_CLOCK")
     \/ /\ state = "GC_LOWER_CLOCK"
        /\ IF regIndx = 0
           THEN Goto("GC_XFER_DATA") /\ UNCHANGED regIndx
           ELSE Goto("GC_SET_DATA_I3") /\ regIndx' = regIndx - 1
        /\ UNCHANGED <<word, shifts>>
     \/ /\ state = "GC_XFER_DATA"
        /\ Drift("GC_SET_MODE_M3")
        /\ UNCHANGED <<regIndx, word, shifts>>
     \/ Straight("GC_SET_MODE_M3", "GC_LATCH_MODE_M3")
     \/ /\ state = "GC_LATCH_MODE_M3"
        /\ Drift("IDLE")
        /\ UNCHANGED <<regIndx, word, shifts>>

\* Hold the analogue values, convert them; o5 tells that conversion is over.
Acquire(in) ==
  /\ Runs(in)
  /\ \/ Straight("ACQ_DELAY", "ACQ_HOLD")
     \/ Straight("ACQ_HOLD", "ACQ_LOWER_I1")
     \/ Straight("ACQ_LOWER_I1", "ACQ_SET_MODE_M4")
     \/ Straight("ACQ_SET_MODE_M4", "CONV_LATCH_M4")
     \/ Straight("CONV_LATCH_M4", "CONV_RAISE_I3")
     \/ Straight("CONV_RAISE_I3", "CONV_LOWER_I4")
     \/ Straight("CONV_LOWER_I4", "CONV_CLK_HI")
     \/ /\ in.o5
        /\ Straight("CONV_CLK_HI", "CONV_SET_MODE_M5")
     \/ /\ ~in.o5
        /\ Straight("CONV_CLK_HI", "CONV_CLK_LO")
     \/ Straight("CONV_CLK_LO", "CONV_CLK_HI")
     \/ Straight("CONV_SET_MODE_M5", "RO_LATCH_MODE_M5")

\* Read one bit per clock until o5 marks the last one.
ReadOut(in) ==
  /\ Runs(in)
  /\ UNCHANGED word
  /\ \/ /\ state = "RO_LATCH_MODE_M5"
        /\ Goto("RO_CLK_HI")
        /\ regIndx' = 0
        /\ shifts' = 0
     \/ /\ state = "RO_CLK_HI"
        /\ Goto("RO_READ_O6")
        /\ UNCHANGED <<regIndx, shifts>>
     \/ /\ state = "RO_READ_O6"
        /\ Goto("RO_CLK_LO")
        /\ regIndx' = regIndx + 1
        /\ UNCHANGED shifts
     \/ /\ state = "RO_CLK_LO" /\ ~in.o5
        /\ Goto("RO_CLK_HI")
        /\ shifts' = shifts + 1
        /\ UNCHANGED regIndx
     \/ /\ state = "RO_CLK_LO" /\ in.o5 /\ regIndx = DataBits
        /\ Goto("RO_WFIFO")
        /\ UNCHANGED <<regIndx, shifts>>
     \/ /\ state = "RO_CLK_LO" /\ in.o5 /\ regIndx # DataBits
        /\ Goto("RO_SHIFT_DATA")
        /\ regIndx' = regIndx + 1
        /\ shifts' = shifts + 1

\* Mutant: one shift too many.
PadDataLong(in) ==
  /\ state = "RO_SHIFT_DATA"
  /\ Runs(in)
  /\ regIndx' = regIndx + 1
  /\ UNCHANGED word
  /\ IF regIndx > DataBits
     THEN Drift("RO_WFIFO") /\ UNCHANGED shifts
     ELSE Drift("RO_SHIFT_DATA") /\ shifts' = shifts + 1

\* Shift the bits of a short readout down to bit 0 of reg_from_vata.
PadData(in) ==
  /\ state = "RO_SHIFT_DATA"
  /\ Runs(in)
  /\ regIndx' = regIndx + 1
  /\ UNCHANGED word
  /\ IF regIndx >= DataBits
     THEN Drift("RO_WFIFO") /\ UNCHANGED shifts
     ELSE Drift("RO_SHIFT_DATA") /\ shifts' = shifts + 1

\* Put one word of the packet on the stream per cycle.
WriteFifo(in) ==
  /\ state = "RO_WFIFO"
  /\ Runs(in)
  /\ IF word = Words - 1
     THEN Goto("RO_SET_MODE_M3") /\ word' = 0 /\ shifts' = 0
     ELSE Drift("RO_WFIFO") /\ word' = word + 1 /\ UNCHANGED shifts
  /\ UNCHANGED regIndx

\* Bring the chip back to acquisition mode.
Return(in) ==
  /\ Runs(in)
  /\ \/ Straight("RO_SET_MODE_M3", "RO_LATCH_MODE_M3")
     \/ Straight("RO_LATCH_MODE_M3", "IDLE")
     \/ Straight("ABORT_SET_MODE_M3", "ABORT_LATCH_MODE_M3")
     \/ /\ state = "ABORT_LATCH_MODE_M3"
        /\ Drift("IDLE")
        /\ UNCHANGED <<regIndx, word, shifts>>

\* force_fsm_idle gives up whatever runs; so does abort_daq before the
\* packet is being written.
ForceIdle(in) ==
  /\ Forced(in)
  /\ Goto("ABORT_SET_MODE_M3")
  /\ word' = 0 /\ shifts' = 0
  /\ UNCHANGED regIndx

\* Mutant: abort without the way back through mode M3.
AbortToIdle(in) ==
  /\ Aborting(in)
  /\ Goto("IDLE")
  /\ shifts' = 0
  /\ UNCHANGED <<regIndx, word>>

Abort(in) ==
  /\ Aborting(in)
  /\ Goto("RO_SET_MODE_M3")
  /\ shifts' = 0
  /\ UNCHANGED <<regIndx, word>>

MainFsm(in) ==
  \/ Idle(in) \/ Linger(in) \/ SetConfig(in) \/ GetConfig(in) \/ Acquire(in)
  \/ ReadOut(in) \/ PadData(in) \/ WriteFifo(in) \/ Return(in) \/ ForceIdle(in) \/ Abort(in)

-----------------------------------------------------------------------------
(* The registers beside the state register.                                *)

\* Mutant: the acknowledge does not stop the timer.
AckTimerDeaf(in) ==
  \/ /\ ackState = "IDLE"
     /\ IF TriggerAcq(in) /\ AckTimeout > 0
        THEN ackState' = "INC_COUNTER" /\ ackCnt' = 0
        ELSE UNCHANGED ackVars
  \/ /\ ackState = "INC_COUNTER"
     /\ IF ackCnt >= AckTimeout
        THEN ackState' = "ACQ_ABORT0" /\ ackCnt' = 0
        ELSE UNCHANGED ackState /\ ackCnt' = ackCnt + 1
  \/ /\ ackState \in {"ACQ_ABORT0", "ACQ_ABORT1"}
     /\ ackState' = IF ackState = "ACQ_ABORT0" THEN "ACQ_ABORT1" ELSE "IDLE"
     /\ UNCHANGED ackCnt

\* The acknowledge timer: any trigger starts it when it rests, whatever the
\* acquisition does; the timeout is looked at before the acknowledge.  (The
\* counter is cleared on the way in; here it is 0 outside INC_COUNTER.)
AckTimer(in) ==
  \/ /\ ackState = "IDLE"
     /\ IF TriggerAcq(in) /\ AckTimeout > 0
        THEN ackState' = "INC_COUNTER" /\ ackCnt' = 0
        ELSE UNCHANGED ackVars
  \/ /\ ackState = "INC_COUNTER"
     /\ \/ /\ ackCnt >= AckTimeout
           /\ ackState' = "ACQ_ABORT0" /\ ackCnt' = 0
        \/ /\ ackCnt < AckTimeout /\ Ack(in)
           /\ ackState' = "ACQ_OK" /\ ackCnt' = 0
        \/ /\ ackCnt < AckTimeout /\ ~Ack(in)
           /\ ackCnt' = ackCnt + 1
           /\ UNCHANGED ackState
  \/ /\ ackState = "ACQ_ABORT0"
     /\ ackState' = "ACQ_ABORT1"
     /\ UNCHANGED ackCnt
  \/ /\ ackState \in {"ACQ_ABORT1", "ACQ_OK"}
     /\ ackState' = "IDLE"
     /\ UNCHANGED ackCnt

\* Mutant: counts accepted triggers instead of packets.
EventCounterAtTrigger(in) ==
  evCount' = IF in.cmd = "rst_ev_count" THEN 0
             ELSE IF state = "ACQ_SET_MODE_M4"
             THEN (evCount + 1) % EventMod ELSE evCount

\* The event counter: reset by command, else one more in RO_WFIFO_18 unless
\* the state machine is forced to idle in that cycle.
EventCounter(in) ==
  evCount' = IF in.cmd = "rst_ev_count" THEN 0
             ELSE IF state = "RO_WFIFO" /\ word = Words - 1 /\ ~Forced(in)
             THEN (evCount + 1) % EventMod ELSE evCount

\* Mutant: the header follows the counter instead of being latched.
PacketHeaderLive(in) ==
  pktEv' = IF in.cmd = "rst_ev_count" THEN 0 ELSE evCount

\* The packet header takes the event counter when the trigger is accepted.
PacketHeader(in) ==
  pktEv' = IF state = "IDLE" /\ TriggerAcq(in)
           THEN IF in.cmd = "rst_ev_count" THEN 0 ELSE evCount
           ELSE pktEv

\* data_tvalid holds in every RO_WFIFO state, and data_tlast in the last one;
\* data_tready is not looked at.
Stream ==
  LET w == [idx |-> word, ev |-> pktEv]
  IN IF state = "RO_WFIFO"
     THEN IF word = Words - 1
          THEN frame' = Append(cur, w) /\ cur' = <<>>
          ELSE cur' = Append(cur, w) /\ frame' = <<>>
     ELSE UNCHANGED cur /\ frame' = <<>>

\* The chip takes its mode from the pins while the latch is high.
ChipLatch == chipMode' = IF Latch(state) THEN Mode(state) ELSE chipMode

\* The chip (external) raises o5 at most ChipLate bits late; o5 matters only
\* in the two states that sample it.
Environment(in) ==
  /\ in.o5 => state \in {"CONV_CLK_HI", "RO_CLK_LO"}
  /\ (state = "RO_CLK_LO" /\ regIndx >= DataBits + ChipLate) => in.o5
  /\ in.cmd = "force_fsm_idle" => Len(cur) <= CutWords

LastWord == state = "RO_WFIFO" /\ word = Words - 1

History(in) ==
  /\ disturbed' = (disturbed \/ in.cmd = "rst_ev_count"
                              \/ (state = "RO_WFIFO" /\ Forced(in)))
  /\ sent' = IF disturbed' THEN 0
             ELSE IF LastWord THEN (sent + 1) % EventMod ELSE sent
  /\ acked' = IF state = "IDLE" THEN FALSE
              ELSE acked \/ (ackState = "INC_COUNTER" /\ ackCnt < AckTimeout
                             /\ Ack(in) /\ timerOf = "event")
  /\ timerOf' = IF TriggerAcq(in) /\ state = "IDLE"
                THEN IF ackState = "IDLE" THEN "event" ELSE "other"
                ELSE IF state = "IDLE" \/ (TriggerAcq(in) /\ ackState = "IDLE")
                THEN "other" ELSE timerOf
  /\ modeAge' = IF Mode(state') # Mode(state) THEN 0
                ELSE IF modeAge < CntMod THEN modeAge + 1 ELSE modeAge

Clock(in) ==
  /\ Environment(in)
  /\ MainFsm(in)
  /\ AckTimer(in)
  /\ EventCounter(in)
  /\ PacketHeader(in)
  /\ Stream
  /\ ChipLatch
  /\ History(in)

Next == \E in \in Inputs : Clock(in)

Spec == Init /\ [][Next]_vars

\* The clock keeps running, and a chip asked to convert ends the conversion.
ConversionEnds == \E in \in Inputs :
  /\ state = "CONV_CLK_HI" /\ Done /\ in.o5
  /\ Clock(in)

FairSpec == Spec /\ WF_vars(Next) /\ SF_vars(ConversionEnds)

-----------------------------------------------------------------------------
(* Properties.                                                             *)

Word == [idx : 0 .. Words - 1, ev : 0 .. EventMod - 1]

\* Type invariant of every register, the stream and the history variables.
TypeOK ==
  /\ state \in States
  /\ cnt \in 0 .. CntMod - 1
  /\ regIndx \in Nat
  /\ word \in 0 .. Words - 1
  /\ shifts \in Nat
  /\ ackState \in AckStates
  /\ ackCnt \in 0 .. AckTimeout
  /\ evCount \in 0 .. EventMod - 1
  /\ pktEv \in 0 .. EventMod - 1
  /\ cur \in Seq(Word)
  /\ frame \in Seq(Word)
  /\ chipMode \in {"unset", "M1", "M2", "M3", "M4", "M5"}
  /\ sent \in 0 .. EventMod - 1
  /\ disturbed \in BOOLEAN
  /\ acked \in BOOLEAN
  /\ timerOf \in {"event", "other"}
  /\ modeAge \in 0 .. CntMod

\* However many bits the chip sends before o5, when the packet is written the
\* first bit read has been shifted to bit 0 of reg_from_vata: the readout
\* loop and the padding loop together shift by 378 (chips with ChipLate = 0).
Aligned == (ChipLate = 0 /\ state = "RO_WFIFO") => shifts = DataBits - 1

\* A packet as software expects it: the words 0 .. Words-1 of one event.
IsPacket(f) == /\ Len(f) = Words
               /\ \A i \in 1 .. Words : f[i].idx = i - 1 /\ f[i].ev = f[1].ev

\* Unless a force_fsm_idle command interrupted one, what TLAST closes is exactly
\* one event's packet: aborted acquisitions and triggers that come while busy
\* never leave words on the stream.
PacketsWhole == (~disturbed /\ frame # <<>>) => IsPacket(frame)

\* Even when force_fsm_idle cuts packets, a closed one ends with a complete
\* packet of a single event: the words of the cut ones are in front of it.
PacketsEndWhole ==
  frame # <<>> =>
    /\ Len(frame) >= Words
    /\ IsPacket(SubSeq(frame, Len(frame) - Words + 1, Len(frame)))

\* Every packet carries the number of packets completed before it, so a reader
\* of the stream sees no gap and no repeat although acquisitions are aborted
\* and triggers lost.  (Not once the counter was reset, nor once a packet was
\* cut: idle forced on its very last word closes it but does not count it.)
PacketsNumbered == (~disturbed /\ state = "RO_WFIFO") => pktEv = sent

\* The states in which the FSM relies on the chip being in the mode it shows.
UsesMode == {"SC_LOWER_LATCH_M1", "SC_SET_DATA_I3", "SC_CLOCK_DATA",
             "SC_LOWER_CLOCK", "GC_LOWER_LATCH_M2", "GC_SET_DATA_I3",
             "GC_CLOCK_DATA", "GC_SHIFT_CFG_REG", "GC_READ_O5",
             "GC_LOWER_CLOCK", "GC_XFER_DATA", "CONV_RAISE_I3",
             "CONV_LOWER_I4", "CONV_CLK_HI", "CONV_CLK_LO", "RO_CLK_HI",
             "RO_READ_O6", "RO_CLK_LO", "RO_SHIFT_DATA", "RO_WFIFO"}

\* The chip is in the mode each phase needs, and back in acquisition mode
\* whenever a trigger can be taken, whichever way the last operation ended
\* (a chip never configured since power-on has no mode yet).
ChipInMode ==
  /\ state \in UsesMode => chipMode = Mode(state)
  /\ state \in {"IDLE", "ACQ_DELAY", "ACQ_HOLD", "ACQ_LOWER_I1"}
       => chipMode \in {"M3", "unset"}

LatchRises == Latch(state') /\ ~Latch(state)

\* The mode pins are stable for the whole set-up time of the timed SET_MODE
\* state before the latch rises, but in two states entered while state_counter
\* runs on: GC_SET_MODE_M3, which lasts one cycle less, and GC_SET_MODE_M2,
\* which IDLE enters with whatever the counter holds, and may last one cycle.
LatchSetup ==
  [][(LatchRises /\ state \in Timed \ {"GC_SET_MODE_M2"})
       => modeAge + (IF state = "GC_SET_MODE_M3" THEN 1 ELSE 0)
            >= Dwell[state]]_vars

\* The timer started by an event's own trigger never aborts it once the
\* acknowledge has come in time, ...
AckedNotAborted ==
  [][(state \in Acquiring /\ state' = "RO_SET_MODE_M3" /\ timerOf = "event")
       => ~acked]_vars

\* ... and the packet of an event is begun only if it was acknowledged, or its
\* time is not over yet (timer enabled, and started by that event's trigger).
UnackedNotSent ==
  [][(/\ state # "RO_WFIFO" /\ state' = "RO_WFIFO"
      /\ AckTimeout > 0 /\ timerOf = "event")
       => acked' \/ ackState \in {"INC_COUNTER", "ACQ_OK"}]_vars

\* An operation once begun ends, and the FSM is ready for the next trigger.
ReturnsToIdle == (state # "IDLE") ~> (state = "IDLE")
=============================================================================
