--------------------------- MODULE VataCoreProofs --------------------------
(***************************************************************************)
(* What the two halves of the VATA core promise: the state machine, for    *)
(* every size of packet and register, every dwell time, every set of       *)
(* trigger lines and every timeout (VataFsm), and the register file that   *)
(* software drives it through (AxiSlave).                                  *)
(***************************************************************************)
EXTENDS VataFsm, AxiSlave, TLAPS

-----------------------------------------------------------------------------
(* Type correctness.                                                       *)

FsmTypeOK == /\ state \in States
             /\ cnt \in 0 .. CntMod - 1
             /\ regIndx \in Nat
             /\ word \in 0 .. Words - 1
             /\ shifts \in Nat

\* state_counter stays in its range whether it is cleared or counts on.
LEMMA CntStepType ==
  ASSUME cnt \in 0 .. CntMod - 1
  PROVE  CntStep \in 0 .. CntMod - 1
BY SizeAssumption DEF CntStep, SizeAssumption

\* Every edge of the state machine leads to one of its states and keeps the
\* counters it uses in range.
LEMMA MainFsmType ==
  ASSUME FsmTypeOK, NEW in \in Inputs, MainFsm(in)
  PROVE  FsmTypeOK'
<1> USE DEF FsmTypeOK, Goto, Drift
<1>0. CntStep \in 0 .. CntMod - 1 /\ 0 \in 0 .. CntMod - 1
  BY CntStepType, SizeAssumption DEF SizeAssumption
<1>1. CASE Idle(in)
  BY <1>0, <1>1 DEF Idle, States, Interruptible, ScTimed, GcTimed, Acquiring, AcqTimed
<1>2. CASE Linger(in)
  BY <1>0, <1>2 DEF Linger
<1>3. CASE SetConfig(in)
  BY <1>0, <1>3, SizeAssumption DEF SizeAssumption, SetConfig, Straight, States, Interruptible, ScTimed
<1>4. CASE GetConfig(in)
  BY <1>0, <1>4, SizeAssumption DEF SizeAssumption, GetConfig, Straight, States, Interruptible, GcTimed
<1>5. CASE Acquire(in)
  BY <1>0, <1>5 DEF Acquire, Straight, States, Interruptible, Acquiring, AcqTimed
<1>6. CASE ReadOut(in)
  BY <1>0, <1>6 DEF ReadOut, States, Interruptible, Acquiring, AcqTimed
<1>7. CASE PadData(in)
  BY <1>0, <1>7 DEF PadData, States, Interruptible, Acquiring
<1>8. CASE WriteFifo(in)
  BY <1>0, <1>8, SizeAssumption DEF SizeAssumption, WriteFifo, States, Interruptible, ReturnTimed
<1>9. CASE Return(in)
  BY <1>0, <1>9 DEF Return, Straight, States, Interruptible, ReturnTimed, AbortTimed
<1>10. CASE ForceIdle(in)
  BY <1>0, <1>10, SizeAssumption DEF ForceIdle, States, AbortTimed, SizeAssumption
<1>11. CASE Abort(in)
  BY <1>0, <1>11 DEF Abort, States, Interruptible, ReturnTimed
<1> QED
  BY <1>1, <1>2, <1>3, <1>4, <1>5, <1>6, <1>7, <1>8, <1>9, <1>10, <1>11 DEF MainFsm

\* The word offered on the stream in RO_WFIFO is well typed.
LEMMA StreamType ==
  ASSUME cur \in Seq(Word), frame \in Seq(Word), word \in 0 .. Words - 1,
         pktEv \in 0 .. EventMod - 1, Stream
  PROVE  cur' \in Seq(Word) /\ frame' \in Seq(Word)
<1> DEFINE w == [idx |-> word, ev |-> pktEv]
<1>1. w \in Word
  BY DEF Word
<1>2. Append(cur, w) \in Seq(Word) /\ <<>> \in Seq(Word)
  BY <1>1
<1> QED
  BY <1>2 DEF Stream

\* The type invariant of the acquisition state machine and its registers.
THEOREM TypeCorrect == Spec => []TypeOK
<1>1. Init => TypeOK
  <2>1. <<>> \in Seq(Word)
    OBVIOUS
  <2>2. Init => disturbed \in BOOLEAN /\ acked \in BOOLEAN
    BY DEF Init
  <2>3. Init => FsmTypeOK /\ ackState \in AckStates
    BY SizeAssumption DEF SizeAssumption, Init, FsmTypeOK, States, AckStates
  <2> QED
    BY <2>1, <2>2, <2>3, SizeAssumption DEF SizeAssumption, Init, TypeOK, FsmTypeOK
<1>2. TypeOK /\ [Next]_vars => TypeOK'
  <2> SUFFICES ASSUME TypeOK, [Next]_vars PROVE TypeOK'
    OBVIOUS
  <2>1. CASE UNCHANGED vars
    BY <2>1 DEF TypeOK, vars, fsmVars, ackVars
  <2>2. ASSUME NEW in \in Inputs, Clock(in) PROVE TypeOK'
    <3> USE <2>2
    <3>1. FsmTypeOK'
      BY MainFsmType DEF Clock, TypeOK, FsmTypeOK
    <3>2. ackState' \in AckStates /\ ackCnt' \in 0 .. AckTimeout
      BY SizeAssumption DEF SizeAssumption, Clock, TypeOK, AckTimer, AckStates, ackVars
    <3>3. evCount' \in 0 .. EventMod - 1 /\ pktEv' \in 0 .. EventMod - 1
      BY SizeAssumption DEF SizeAssumption, Clock, TypeOK, EventCounter, PacketHeader
    <3>4. cur' \in Seq(Word) /\ frame' \in Seq(Word)
      BY StreamType DEF Clock, TypeOK
    <3>5. chipMode' \in {"unset", "M1", "M2", "M3", "M4", "M5"}
      BY DEF Clock, TypeOK, ChipLatch, Mode
    <3>6. sent' \in 0 .. EventMod - 1
      BY SizeAssumption DEF SizeAssumption, Clock, TypeOK, History
    <3>7. disturbed' \in BOOLEAN /\ acked' \in BOOLEAN
      BY SizeAssumption DEF SizeAssumption, Clock, TypeOK, History
    <3>8. timerOf' \in {"event", "other"} /\ modeAge' \in 0 .. CntMod
      BY SizeAssumption DEF SizeAssumption, Clock, TypeOK, History
    <3> QED
      BY <3>1, <3>2, <3>3, <3>4, <3>5, <3>6, <3>7, <3>8 DEF TypeOK, FsmTypeOK
  <2> QED
    BY <2>1, <2>2 DEF Next
<1> QED
  BY <1>1, <1>2, PTL DEF Spec
-----------------------------------------------------------------------------
(* The chip's mode.  ChipInMode is inductive as it stands: each phase       *)
(* latches its mode in the state before the first that uses it.            *)

\* Every edge leaves the chip in the mode the next state relies on.
LEMMA ChipInModeStep ==
  ASSUME ChipInMode, state \in States, NEW in, MainFsm(in), ChipLatch
  PROVE  ChipInMode'
<1> USE DEF ChipInMode, ChipLatch, UsesMode, Mode, Latch, Goto, Drift, Straight,
           ScTimed, GcTimed
<1>1. CASE Idle(in)
  BY <1>1 DEF Idle
<1>2. CASE Linger(in)
  BY <1>2 DEF Linger
<1>3. CASE SetConfig(in)
  BY <1>3 DEF SetConfig
<1>4. CASE GetConfig(in)
  BY <1>4 DEF GetConfig
<1>5. CASE Acquire(in)
  BY <1>5 DEF Acquire
<1>6. CASE ReadOut(in)
  BY <1>6 DEF ReadOut
<1>7. CASE PadData(in)
  BY <1>7 DEF PadData
<1>8. CASE WriteFifo(in)
  BY <1>8 DEF WriteFifo
<1>9. CASE Return(in)
  BY <1>9 DEF Return
<1>10. CASE ForceIdle(in)
  BY <1>10 DEF ForceIdle
<1>11. CASE Abort(in)
  BY <1>11 DEF Abort
<1> QED
  BY <1>1, <1>2, <1>3, <1>4, <1>5, <1>6, <1>7, <1>8, <1>9, <1>10, <1>11 DEF MainFsm

\* The chip is in the mode each state needs, whichever way the operation
\* before it ended.
THEOREM ChipAlwaysInMode == Spec => []ChipInMode
<1>1. Init => ChipInMode
  BY DEF Init, ChipInMode, UsesMode
<1>2. TypeOK /\ ChipInMode /\ [Next]_vars => ChipInMode'
  <2> SUFFICES ASSUME TypeOK, ChipInMode, [Next]_vars PROVE ChipInMode'
    OBVIOUS
  <2>1. CASE UNCHANGED vars
    BY <2>1 DEF ChipInMode, vars, fsmVars
  <2>2. ASSUME NEW in \in Inputs, Clock(in) PROVE ChipInMode'
    BY <2>2, ChipInModeStep DEF Clock, TypeOK
  <2> QED
    BY <2>1, <2>2 DEF Next
<1> QED
  BY <1>1, <1>2, TypeCorrect, PTL DEF Spec

-----------------------------------------------------------------------------
(* The acknowledge timer.                                                  *)

\* While the timer counts for the event in progress: an acknowledge in time
\* has stopped it, and as long as none came and the timer is enabled it is
\* running or about to abort.
AckInv ==
  timerOf = "event" =>
    /\ acked => ackState \in {"IDLE", "ACQ_OK"}
    /\ (~acked /\ AckTimeout > 0 /\ state \in Acquiring)
         => ackState \in {"INC_COUNTER", "ACQ_ABORT0"}

\* An acquisition goes on to an acquiring state unless it is aborted, and
\* begins only in IDLE.
LEMMA AcquiringEdges ==
  ASSUME state \in States, NEW in, MainFsm(in)
  PROVE  /\ state' \in Acquiring /\ state \notin Acquiring
              => state = "IDLE" /\ TriggerAcq(in)
         /\ state \in Acquiring /\ state' \in Acquiring => ~AbortDaq
         /\ state \in Acquiring /\ state' = "RO_SET_MODE_M3" => AbortDaq
         /\ state \in Acquiring /\ state' = "RO_WFIFO" => ~AbortDaq
         /\ state # "RO_WFIFO" /\ state' = "RO_WFIFO" => state \in Acquiring
         /\ state = "IDLE" /\ TriggerAcq(in) => state' = "ACQ_DELAY"
<1> USE DEF Goto, Drift, Straight, Acquiring, AcqTimed
<1>1. CASE Idle(in)
  BY <1>1 DEF Idle
<1>2. CASE Linger(in)
  <2>1. state \in Timed /\ state' = state /\ ~Aborting(in) /\ ~Forced(in)
    BY <1>2 DEF Linger, Done
  <2>2. state \notin {"IDLE", "RO_WFIFO"}
    BY <2>1 DEF Timed, ScTimed, GcTimed, ReturnTimed, AbortTimed
  <2> QED
    BY <2>1, <2>2 DEF Aborting
<1>3. CASE SetConfig(in)
  BY <1>3 DEF SetConfig
<1>4. CASE GetConfig(in)
  BY <1>4 DEF GetConfig
<1>5. CASE Acquire(in)
  BY <1>5 DEF Acquire, Runs, Aborting
<1>6. CASE ReadOut(in)
  BY <1>6 DEF ReadOut, Runs, Aborting
<1>7. CASE PadData(in)
  BY <1>7 DEF PadData, Runs, Aborting
<1>8. CASE WriteFifo(in)
  BY <1>8 DEF WriteFifo
<1>9. CASE Return(in)
  BY <1>9 DEF Return
<1>10. CASE ForceIdle(in)
  BY <1>10 DEF ForceIdle, Forced, Interruptible, ScTimed, GcTimed, ReturnTimed
<1>11. CASE Abort(in)
  BY <1>11 DEF Abort, Aborting
<1> QED
  BY <1>1, <1>2, <1>3, <1>4, <1>5, <1>6, <1>7, <1>8, <1>9, <1>10, <1>11 DEF MainFsm
\* AckInv holds in every state the acquisition reaches.
THEOREM AckInvHolds == Spec => []AckInv
<1>1. Init => AckInv
  BY DEF Init, AckInv
<1>2. TypeOK /\ AckInv /\ [Next]_vars => AckInv'
  <2> SUFFICES ASSUME TypeOK, AckInv, [Next]_vars PROVE AckInv'
    OBVIOUS
  <2>1. CASE UNCHANGED vars
    BY <2>1 DEF AckInv, vars, fsmVars, ackVars
  <2>2. ASSUME NEW in \in Inputs, Clock(in), timerOf' = "event"
        PROVE  /\ acked' => ackState' \in {"IDLE", "ACQ_OK"}
               /\ (~acked' /\ AckTimeout > 0 /\ state' \in Acquiring)
                    => ackState' \in {"INC_COUNTER", "ACQ_ABORT0"}
    <3> USE <2>2 DEF Clock
    <3>1. state \in States /\ ackState \in AckStates /\ AckTimeout \in Nat
            /\ ackCnt \in Nat
      BY SizeAssumption DEF SizeAssumption, TypeOK
    <3>2. \/ state = "IDLE" /\ TriggerAcq(in) /\ ackState = "IDLE"
          \/ state # "IDLE" /\ timerOf = "event"
               /\ ~(TriggerAcq(in) /\ ackState = "IDLE")
      BY DEF History
    <3>3. CASE state = "IDLE" /\ TriggerAcq(in) /\ ackState = "IDLE"
      BY <3>1, <3>3 DEF History, AckTimer, ackVars
    <3>4. CASE state # "IDLE" /\ timerOf = "event"
                 /\ ~(TriggerAcq(in) /\ ackState = "IDLE")
      <4>1. acked' => ackState' \in {"IDLE", "ACQ_OK"}
        <5>1. CASE ackState \in {"IDLE", "ACQ_OK"}
          BY <3>4, <5>1 DEF AckTimer, ackVars
        <5>2. ASSUME acked', ~acked PROVE ackState' = "ACQ_OK"
          <6>1. ackState = "INC_COUNTER" /\ ackCnt < AckTimeout /\ Ack(in)
            BY <3>4, <5>2 DEF History
          <6> QED
            BY <3>1, <6>1 DEF AckTimer
        <5> QED
          BY <3>4, <5>1, <5>2 DEF AckInv
      <4>2. ASSUME ~acked', AckTimeout > 0, state' \in Acquiring
            PROVE  ackState' \in {"INC_COUNTER", "ACQ_ABORT0"}
        <5>1. state \in Acquiring /\ ~AbortDaq
          BY <3>1, <3>4, <4>2, AcquiringEdges
        <5>2. ~acked
          BY <3>4, <4>2 DEF History
        <5>3. ackState = "INC_COUNTER"
          BY <3>4, <4>2, <5>1, <5>2 DEF AckInv, AbortDaq
        <5>4. ~(ackCnt < AckTimeout /\ Ack(in))
          BY <3>4, <4>2, <5>3 DEF History
        <5> QED
          BY <3>1, <5>3, <5>4 DEF AckTimer
      <4> QED
        BY <4>1, <4>2
    <3> QED
      BY <3>2, <3>3, <3>4
  <2> QED
    BY <2>1, <2>2 DEF Next, AckInv
<1> QED
  BY <1>1, <1>2, TypeCorrect, PTL DEF Spec

\* The timer an event's own trigger started never aborts that event once its
\* acknowledge has come in time.
THEOREM AckedEventKept == Spec => AckedNotAborted
<1> DEFINE A == (state \in Acquiring /\ state' = "RO_SET_MODE_M3"
                   /\ timerOf = "event") => ~acked
<1>1. TypeOK /\ AckInv /\ [Next]_vars => [A]_vars
  <2> SUFFICES ASSUME TypeOK, AckInv, NEW in \in Inputs, Clock(in),
                      state \in Acquiring, state' = "RO_SET_MODE_M3",
                      timerOf = "event"
               PROVE  ~acked
    BY DEF Next
  <2>1. AbortDaq
    BY AcquiringEdges DEF Clock, TypeOK
  <2> QED
    BY <2>1 DEF AckInv, AbortDaq
<1> QED
  BY <1>1, TypeCorrect, AckInvHolds, PTL DEF Spec, AckedNotAborted

\* With the timer enabled, the packet of an event whose trigger started it is
\* begun only if the acknowledge came, or is still awaited.
THEOREM PacketNeedsAck == Spec => UnackedNotSent
<1> DEFINE A == (/\ state # "RO_WFIFO" /\ state' = "RO_WFIFO"
                 /\ AckTimeout > 0 /\ timerOf = "event")
                   => acked' \/ ackState \in {"INC_COUNTER", "ACQ_OK"}
<1>1. TypeOK /\ AckInv /\ [Next]_vars => [A]_vars
  <2> SUFFICES ASSUME TypeOK, AckInv, NEW in \in Inputs, Clock(in),
                      state # "RO_WFIFO", state' = "RO_WFIFO",
                      AckTimeout > 0, timerOf = "event", ~acked'
               PROVE  ackState = "INC_COUNTER"
    BY DEF Next
  <2>1. state \in Acquiring /\ ~AbortDaq
    BY AcquiringEdges DEF Clock, TypeOK
  <2>2. ~acked
    BY <2>1 DEF Clock, History, Acquiring, AcqTimed
  <2> QED
    BY <2>1, <2>2 DEF AckInv, AbortDaq
<1> QED
  BY <1>1, TypeCorrect, AckInvHolds, PTL DEF Spec, UnackedNotSent
-----------------------------------------------------------------------------
(* The packets on the stream.                                              *)

\* The words still open on the stream end with the words of the packet being
\* written, and are nothing else as long as no packet was cut.
PacketInv ==
  /\ state # "RO_WFIFO" => word = 0
  /\ word <= Len(cur)
  /\ \A i \in 1 .. word : cur[Len(cur) - word + i] = [idx |-> i - 1, ev |-> pktEv]
  /\ ~disturbed => Len(cur) = word
  /\ PacketsWhole

\* While a packet is written the state machine goes word by word, and leaves
\* with word = 0; elsewhere it stays 0.
LEMMA WfifoEdges ==
  ASSUME state \in States, state # "RO_WFIFO" => word = 0, NEW in, MainFsm(in)
  PROVE  \/ state # "RO_WFIFO" /\ word' = 0
         \/ state = "RO_WFIFO" /\ Forced(in) /\ state' # "RO_WFIFO" /\ word' = 0
         \/ state = "RO_WFIFO" /\ word = Words - 1 /\ ~Forced(in)
              /\ state' = "RO_SET_MODE_M3" /\ word' = 0
         \/ state = "RO_WFIFO" /\ word # Words - 1 /\ ~Forced(in)
              /\ state' = "RO_WFIFO" /\ word' = word + 1
<1> USE DEF Goto, Drift, Straight
<1>1. CASE Idle(in)
  BY <1>1 DEF Idle
<1>2. CASE Linger(in)
  BY <1>2 DEF Linger, Done, Timed, ScTimed, GcTimed, AcqTimed, ReturnTimed, AbortTimed
<1>3. CASE SetConfig(in)
  BY <1>3 DEF SetConfig
<1>4. CASE GetConfig(in)
  BY <1>4 DEF GetConfig
<1>5. CASE Acquire(in)
  BY <1>5 DEF Acquire
<1>6. CASE ReadOut(in)
  BY <1>6 DEF ReadOut
<1>7. CASE PadData(in)
  BY <1>7 DEF PadData
<1>8. CASE WriteFifo(in)
  BY <1>8 DEF WriteFifo, Runs
<1>9. CASE Return(in)
  BY <1>9 DEF Return
<1>10. CASE ForceIdle(in)
  BY <1>10 DEF ForceIdle
<1>11. CASE Abort(in)
  BY <1>11 DEF Abort, Aborting, Acquiring, AcqTimed
<1> QED
  BY <1>1, <1>2, <1>3, <1>4, <1>5, <1>6, <1>7, <1>8, <1>9, <1>10, <1>11 DEF MainFsm

\* Every cycle preserves PacketInv.
LEMMA PacketInvStep ==
  ASSUME TypeOK, PacketInv, NEW in \in Inputs, Clock(in)
  PROVE  PacketInv'
<1> DEFINE w == [idx |-> word, ev |-> pktEv]
<1> USE DEF Clock
<1>1. /\ word \in Nat /\ Words \in Nat /\ word <= Words - 1 /\ Words > 0
      /\ cur \in Seq(Word) /\ Len(cur) \in Nat /\ w \in Word
      /\ disturbed \in BOOLEAN /\ disturbed' \in BOOLEAN
  BY SizeAssumption DEF SizeAssumption, TypeOK, Word, History
<1>2. ~disturbed' => ~disturbed /\ ~(state = "RO_WFIFO" /\ Forced(in))
  BY DEF History
<1>3. CASE state # "RO_WFIFO"
  <2>1. word = 0 /\ word' = 0 /\ cur' = cur /\ frame' = <<>>
    BY <1>3, WfifoEdges DEF PacketInv, Stream, TypeOK
  <2> QED
    BY <1>1, <1>2, <2>1 DEF PacketInv, PacketsWhole
<1>4. CASE state = "RO_WFIFO"
  <2>1. pktEv' = pktEv
    BY <1>4 DEF PacketHeader
  <2>2. /\ Len(Append(cur, w)) = Len(cur) + 1
        /\ Append(cur, w)[Len(cur) + 1] = w
        /\ \A i \in 1 .. Len(cur) : Append(cur, w)[i] = cur[i]
    BY <1>1
  <2>3. CASE word # Words - 1
    <3>1. cur' = Append(cur, w) /\ frame' = <<>>
      BY <1>4, <2>3 DEF Stream
    <3>2. CASE Forced(in)
      <4>1. word' = 0 /\ disturbed'
        BY <1>4, <3>2, WfifoEdges DEF PacketInv, TypeOK, History
      <4> QED
        BY <1>1, <2>2, <3>1, <4>1 DEF PacketInv, PacketsWhole
    <3>3. CASE ~Forced(in)
      <4>1. word' = word + 1 /\ state' = "RO_WFIFO"
        BY <1>4, <2>3, <3>3, WfifoEdges DEF PacketInv, TypeOK
      <4>2. Len(cur') = Len(cur) + 1 /\ word' <= Len(cur')
        BY <1>1, <2>2, <3>1, <4>1 DEF PacketInv
      <4>3. ASSUME NEW i \in 1 .. word'
            PROVE  cur'[Len(cur') - word' + i] = [idx |-> i - 1, ev |-> pktEv']
        <5>1. Len(cur') - word' + i = Len(cur) - word + i
          BY <1>1, <4>1, <4>2
        <5>2. CASE i = word + 1
          BY <1>1, <2>1, <2>2, <3>1, <5>1, <5>2
        <5>3. CASE i \in 1 .. word
          BY <1>1, <2>1, <2>2, <3>1, <5>1, <5>3 DEF PacketInv
        <5> QED
          BY <1>1, <4>1, <5>2, <5>3
      <4> QED
        BY <1>1, <1>2, <3>1, <4>1, <4>2, <4>3 DEF PacketInv, PacketsWhole
    <3> QED
      BY <3>2, <3>3
  <2>4. CASE word = Words - 1
    <3>1. cur' = <<>> /\ frame' = Append(cur, w) /\ word' = 0 /\ state' # "RO_WFIFO"
      BY <1>4, <2>4, WfifoEdges DEF Stream, PacketInv, TypeOK
    <3>2. ASSUME ~disturbed' PROVE IsPacket(frame')
      <4>1. Len(cur) = word
        BY <1>2, <3>2 DEF PacketInv
      <4>2. Len(frame') = Words
        BY <1>1, <2>2, <2>4, <3>1, <4>1
      <4>3. \A i \in 1 .. Words : frame'[i] = [idx |-> i - 1, ev |-> pktEv]
        <5> TAKE i \in 1 .. Words
        <5>1. CASE i = Words
          BY <1>1, <2>2, <2>4, <3>1, <4>1, <5>1
        <5>2. CASE i \in 1 .. word
          <6>1. cur[i] = [idx |-> i - 1, ev |-> pktEv]
            <7>1. Len(cur) - word + i = i
              BY <1>1, <4>1, <5>2
            <7>2. cur[Len(cur) - word + i] = [idx |-> i - 1, ev |-> pktEv]
              BY <5>2 DEF PacketInv
            <7> QED
              BY <7>1, <7>2
          <6> QED
            BY <1>1, <2>2, <3>1, <4>1, <5>2, <6>1
        <5> QED
          BY <1>1, <2>4, <5>1, <5>2
      <4> QED
        BY <1>1, <4>2, <4>3 DEF IsPacket
    <3> QED
      BY <1>1, <3>1, <3>2 DEF PacketInv, PacketsWhole
  <2> QED
    BY <2>3, <2>4
<1> QED
  BY <1>3, <1>4

\* PacketInv holds in every reachable state.
THEOREM PacketInvHolds == Spec => []PacketInv
<1>1. Init => PacketInv
  BY DEF Init, PacketInv, PacketsWhole
<1>2. TypeOK /\ PacketInv /\ [Next]_vars => PacketInv'
  <2> SUFFICES ASSUME TypeOK, PacketInv, [Next]_vars PROVE PacketInv'
    OBVIOUS
  <2>1. CASE UNCHANGED vars
    BY <2>1 DEF PacketInv, PacketsWhole, IsPacket, vars, fsmVars
  <2>2. ASSUME NEW in \in Inputs, Clock(in) PROVE PacketInv'
    BY <2>2, PacketInvStep
  <2> QED
    BY <2>1, <2>2 DEF Next
<1> QED
  BY <1>1, <1>2, TypeCorrect, PTL DEF Spec

\* Unless idle was forced on a packet, TLAST closes exactly one event's packet.
THEOREM PacketsAreWhole == Spec => []PacketsWhole
<1>1. PacketInv => PacketsWhole
  BY DEF PacketInv
<1> QED
  BY <1>1, PacketInvHolds, PTL
\* Idle may be forced on any packet: the last Words words of what TLAST closes
\* are still those of one packet, whatever was cut in front of them.
LEMMA EndsWholeStep ==
  ASSUME TypeOK, PacketInv, NEW in, Clock(in)
  PROVE  PacketsEndWhole'
<1> DEFINE w == [idx |-> word, ev |-> pktEv]
           m == Len(cur) - word
           last == SubSeq(frame', Len(frame') - Words + 1, Len(frame'))
<1>1. /\ word \in Nat /\ Words \in Nat \ {0} /\ word <= Len(cur)
      /\ cur \in Seq(Word) /\ Len(cur) \in Nat /\ w \in Word
  BY SizeAssumption DEF SizeAssumption, TypeOK, PacketInv, Word
<1>2. SUFFICES ASSUME frame' # <<>>
               PROVE  Len(frame') >= Words /\ IsPacket(last)
  BY Zenon DEF PacketsEndWhole
<1>3. word = Words - 1 /\ frame' = Append(cur, w)
  BY <1>2 DEF Clock, Stream
<1>4. /\ Len(frame') = Len(cur) + 1
      /\ frame'[Len(cur) + 1] = w
      /\ \A i \in 1 .. Len(cur) : frame'[i] = cur[i]
      /\ frame' \in Seq(Word)
  BY <1>1, <1>3
<1>5. Len(frame') >= Words /\ Len(frame') - Words = m /\ m \in Nat
  BY <1>1, <1>3, <1>4
<1>6. Len(last) = Words /\ \A i \in 1 .. Words : last[i] = frame'[m + i]
  BY <1>1, <1>4, <1>5
<1>7. \A i \in 1 .. Words : frame'[m + i] = [idx |-> i - 1, ev |-> pktEv]
  <2> SUFFICES ASSUME NEW i \in 1 .. Words
               PROVE  frame'[m + i] = [idx |-> i - 1, ev |-> pktEv]
    OBVIOUS
  <2>1. CASE i = Words
    <3>1. m + i = Len(cur) + 1 /\ i - 1 = word
      BY <1>1, <1>3, <2>1
    <3> QED
      BY <1>4, <3>1
  <2>2. CASE i \in 1 .. word
    <3>1. m + i \in 1 .. Len(cur)
      BY <1>1, <2>2
    <3>2. cur[m + i] = [idx |-> i - 1, ev |-> pktEv]
      BY <2>2 DEF PacketInv
    <3> QED
      BY <1>4, <3>1, <3>2
  <2>3. i = Words \/ i \in 1 .. word
    BY <1>1, <1>3
  <2> QED
    BY <2>1, <2>2, <2>3
<1>8. \A i \in 1 .. Words : last[i] = [idx |-> i - 1, ev |-> pktEv]
  BY <1>6, <1>7
<1>9. 1 \in 1 .. Words
  BY <1>1
<1> HIDE DEF last
<1> QED
  BY <1>5, <1>6, <1>8, <1>9 DEF IsPacket

\* Even after packets were cut, a closed one ends with a complete packet.
THEOREM ClosedPacketsComplete == Spec => []PacketsEndWhole
<1>1. Init => PacketsEndWhole
  BY DEF Init, PacketsEndWhole
<1>2. TypeOK /\ PacketInv /\ PacketsEndWhole /\ [Next]_vars => PacketsEndWhole'
  <2> SUFFICES ASSUME TypeOK, PacketInv, PacketsEndWhole, [Next]_vars
               PROVE  PacketsEndWhole'
    OBVIOUS
  <2>1. CASE UNCHANGED vars
    <3>1. frame' = frame
      BY <2>1 DEF vars
    <3> QED
      BY <3>1, Zenon DEF PacketsEndWhole, IsPacket
  <2>2. ASSUME NEW in \in Inputs, Clock(in) PROVE PacketsEndWhole'
    BY <2>2, EndsWholeStep
  <2> QED
    BY <2>1, <2>2 DEF Next
<1> QED
  BY <1>1, <1>2, TypeCorrect, PacketInvHolds, PTL DEF Spec

\* The header of the event in progress and the count of packets sent both
\* agree with the event counter.
NumberInv ==
  ~disturbed => /\ sent = evCount
                /\ state \in Acquiring \cup {"RO_WFIFO"} => pktEv = evCount

\* Every packet carries the number of packets completed before it.
THEOREM PacketsAreNumbered == Spec => []PacketsNumbered
<1>1. Init => NumberInv
  BY DEF Init, NumberInv, Acquiring, AcqTimed
<1>2. TypeOK /\ PacketInv /\ NumberInv /\ [Next]_vars => NumberInv'
  <2> SUFFICES ASSUME TypeOK, PacketInv, NumberInv, [Next]_vars PROVE NumberInv'
    OBVIOUS
  <2>1. CASE UNCHANGED vars
    BY <2>1 DEF NumberInv, vars, fsmVars
  <2>2. ASSUME NEW in \in Inputs, Clock(in), ~disturbed'
        PROVE  /\ sent' = evCount'
               /\ state' \in Acquiring \cup {"RO_WFIFO"} => pktEv' = evCount'
    <3> USE <2>2 DEF Clock
    <3>1. ~disturbed /\ in.cmd # "rst_ev_count" /\ ~(state = "RO_WFIFO" /\ Forced(in))
      BY DEF History
    <3>2. sent = evCount
            /\ (state \in Acquiring \cup {"RO_WFIFO"} => pktEv = evCount)
      BY <3>1 DEF NumberInv
    <3>3. CASE LastWord
      <4>1. state' = "RO_SET_MODE_M3"
        BY <3>1, <3>3, WfifoEdges DEF LastWord, PacketInv, TypeOK
      <4>2. sent' = (sent + 1) % EventMod /\ evCount' = (evCount + 1) % EventMod
        BY <3>1, <3>3 DEF LastWord, History, EventCounter
      <4> QED
        BY <3>2, <4>1, <4>2 DEF Acquiring, AcqTimed
    <3>4. CASE ~LastWord
      <4>1. sent' = sent /\ evCount' = evCount
        BY <3>1, <3>4 DEF LastWord, History, EventCounter
      <4>2. state' \in Acquiring \cup {"RO_WFIFO"} =>
              \/ state = "IDLE" /\ TriggerAcq(in)
              \/ state \in Acquiring \cup {"RO_WFIFO"}
        BY AcquiringEdges DEF TypeOK
      <4>3. state = "IDLE" /\ TriggerAcq(in) => pktEv' = evCount
        BY <3>1 DEF PacketHeader
      <4>4. state \in Acquiring \cup {"RO_WFIFO"} => pktEv' = pktEv
        BY DEF PacketHeader, Acquiring, AcqTimed
      <4> QED
        BY <3>2, <4>1, <4>2, <4>3, <4>4
    <3> QED
      BY <3>3, <3>4
  <2> QED
    BY <2>1, <2>2 DEF Next, NumberInv
<1>3. NumberInv => PacketsNumbered
  BY DEF NumberInv, PacketsNumbered
<1> QED
  BY <1>1, <1>2, <1>3, TypeCorrect, PacketInvHolds, PTL DEF Spec

-----------------------------------------------------------------------------
(* Set-up time of the mode pins.                                           *)

\* In the timed states that wait for the mode pins to settle, the pins have
\* been stable for as long as state_counter has counted, one cycle less in
\* GC_SET_MODE_M3: it is entered from GC_XFER_DATA, which lasts one cycle, and
\* does not clear the counter.
AgeInv ==
  /\ state \in {"SC_SET_MODE_M1", "SC_SET_MODE_M3", "CONV_SET_MODE_M5",
                "RO_SET_MODE_M3", "ABORT_SET_MODE_M3"} => modeAge >= cnt
  /\ state = "GC_SET_MODE_M3" => modeAge + 1 >= cnt
  /\ state = "GC_XFER_DATA" => cnt = 0

\* Every edge preserves AgeInv.
LEMMA AgeStep ==
  ASSUME TypeOK, AgeInv, NEW in, MainFsm(in), History(in)
  PROVE  AgeInv'
<1>0. /\ cnt \in Nat /\ cnt < CntMod /\ CntMod \in Nat /\ modeAge \in Nat
      /\ CntStep \in Nat /\ CntStep <= cnt + 1 /\ CntStep < CntMod
  BY SizeAssumption DEF SizeAssumption, TypeOK, CntStep
<1>1. /\ modeAge' \in Nat
      /\ Mode(state') = Mode(state) => modeAge' = modeAge + 1 \/ modeAge' >= CntMod
  BY <1>0 DEF History
<1> USE DEF AgeInv, Goto, Drift, Straight
<1>2. CASE Idle(in)
  BY <1>0, <1>1, <1>2 DEF Idle
<1>3. CASE Linger(in)
  <2>1. state' = state /\ cnt' = CntStep /\ Mode(state') = Mode(state)
    BY <1>3 DEF Linger
  <2>2. state # "GC_XFER_DATA"
    BY <1>3 DEF Linger, Done, Timed, ScTimed, GcTimed, AcqTimed, ReturnTimed, AbortTimed
  <2>3. modeAge' = modeAge + 1 \/ modeAge' >= CntMod
    BY <1>1, <2>1
  <2>4. /\ modeAge >= cnt => modeAge' >= cnt'
        /\ modeAge + 1 >= cnt => modeAge' + 1 >= cnt'
    <3>0. cnt' \in Nat /\ cnt' < CntMod /\ CntMod \in Nat /\ modeAge' \in Nat
      BY <1>0, <1>1, <2>1
    <3>1. modeAge' >= CntMod => modeAge' >= cnt' /\ modeAge' + 1 >= cnt'
      <4>1. \A a, c, m \in Nat : c < m /\ a >= m => a >= c /\ a + 1 >= c
        OBVIOUS
      <4> QED
        BY <3>0, <4>1
    <3>2. modeAge' = modeAge + 1 =>
            /\ modeAge >= cnt => modeAge' >= cnt'
            /\ modeAge + 1 >= cnt => modeAge' + 1 >= cnt'
      BY <1>0, <2>1
    <3> QED
      BY <2>3, <3>1, <3>2
  <2> QED
    BY <2>1, <2>2, <2>4
<1>4. CASE SetConfig(in)
  BY <1>0, <1>1, <1>4 DEF SetConfig
<1>5. CASE GetConfig(in)
  BY <1>0, <1>1, <1>5 DEF GetConfig
<1>6. CASE Acquire(in)
  BY <1>0, <1>1, <1>6 DEF Acquire
<1>7. CASE ReadOut(in)
  BY <1>0, <1>1, <1>7 DEF ReadOut
<1>8. CASE PadData(in)
  BY <1>0, <1>1, <1>8 DEF PadData
<1>9. CASE WriteFifo(in)
  BY <1>0, <1>1, <1>9 DEF WriteFifo
<1>10. CASE Return(in)
  BY <1>0, <1>1, <1>10 DEF Return
<1>11. CASE ForceIdle(in)
  BY <1>0, <1>1, <1>11 DEF ForceIdle
<1>12. CASE Abort(in)
  BY <1>0, <1>1, <1>12 DEF Abort
<1> QED
  BY <1>2, <1>3, <1>4, <1>5, <1>6, <1>7, <1>8, <1>9, <1>10, <1>11, <1>12
     DEF MainFsm

\* AgeInv holds in every reachable state.
THEOREM AgeInvHolds == Spec => []AgeInv
<1>1. Init => AgeInv
  BY DEF Init, AgeInv
<1>2. TypeOK /\ AgeInv /\ [Next]_vars => AgeInv'
  <2> SUFFICES ASSUME TypeOK, AgeInv, [Next]_vars PROVE AgeInv'
    OBVIOUS
  <2>1. CASE UNCHANGED vars
    BY <2>1 DEF AgeInv, vars, fsmVars
  <2>2. ASSUME NEW in \in Inputs, Clock(in) PROVE AgeInv'
    BY <2>2, AgeStep DEF Clock
  <2> QED
    BY <2>1, <2>2 DEF Next
<1> QED
  BY <1>1, <1>2, TypeCorrect, PTL DEF Spec

\* The latch rises out of a timed state only where the pins were set up before.
LEMMA RiseEdges ==
  ASSUME NEW in, MainFsm(in), LatchRises, state \in Timed
  PROVE  /\ Done
         /\ state \in {"SC_SET_MODE_M1", "SC_SET_MODE_M3", "GC_SET_MODE_M2",
                       "GC_SET_MODE_M3", "CONV_SET_MODE_M5",
                       "RO_SET_MODE_M3", "ABORT_SET_MODE_M3"}
<1> USE DEF LatchRises, Latch, Goto, Drift, Straight
<1>1. CASE Idle(in)
  BY <1>1 DEF Idle
<1>2. CASE Linger(in)
  BY <1>2 DEF Linger
<1>3. CASE SetConfig(in)
  BY <1>3 DEF SetConfig, Runs
<1>4. CASE GetConfig(in)
  BY <1>4 DEF GetConfig, Runs
<1>5. CASE Acquire(in)
  BY <1>5 DEF Acquire, Runs, Timed, ScTimed, GcTimed, AcqTimed, ReturnTimed, AbortTimed
<1>6. CASE ReadOut(in)
  BY <1>6 DEF ReadOut
<1>7. CASE PadData(in)
  BY <1>7 DEF PadData
<1>8. CASE WriteFifo(in)
  BY <1>8 DEF WriteFifo
<1>9. CASE Return(in)
  BY <1>9 DEF Return, Runs
<1>10. CASE ForceIdle(in)
  BY <1>10 DEF ForceIdle
<1>11. CASE Abort(in)
  BY <1>11 DEF Abort
<1> QED
  BY <1>1, <1>2, <1>3, <1>4, <1>5, <1>6, <1>7, <1>8, <1>9, <1>10, <1>11 DEF MainFsm

\* For every choice of dwell times, the mode pins are stable for the set-up
\* time of the state the latch rises in.
THEOREM ModeIsSetUp == Spec => LatchSetup
<1> DEFINE A == (LatchRises /\ state \in Timed \ {"GC_SET_MODE_M2"})
                  => modeAge + (IF state = "GC_SET_MODE_M3" THEN 1 ELSE 0)
                       >= Dwell[state]
<1>1. TypeOK /\ AgeInv /\ [Next]_vars => [A]_vars
  <2> SUFFICES ASSUME TypeOK, AgeInv, NEW in \in Inputs, Clock(in), LatchRises,
                      state \in Timed \ {"GC_SET_MODE_M2"}
               PROVE  modeAge + (IF state = "GC_SET_MODE_M3" THEN 1 ELSE 0)
                        >= Dwell[state]
    BY DEF Next
  <2>1. MainFsm(in)
    BY DEF Clock
  <2>2. /\ Done
        /\ state \in {"SC_SET_MODE_M1", "SC_SET_MODE_M3", "GC_SET_MODE_M3",
                      "CONV_SET_MODE_M5", "RO_SET_MODE_M3", "ABORT_SET_MODE_M3"}
    BY <2>1, RiseEdges
  <2>3. cnt >= Dwell[state]
    BY <2>2 DEF Done, Threshold
  <2>4. Dwell[state] \in Nat
    BY SizeAssumption, DwellAssumption DEF SizeAssumption, DwellAssumption
  <2> QED
    BY <2>2, <2>3, <2>4 DEF AgeInv, TypeOK
<1> QED
  BY <1>1, TypeCorrect, AgeInvHolds, PTL DEF Spec, LatchSetup

-----------------------------------------------------------------------------
(* Alignment of the bits read.                                             *)

\* As long as the chip ends its readout in time, the number of shifts follows
\* the number of bits read, and the padding loop makes up the difference.
AlignInv ==
  ChipLate = 0 =>
    /\ state \in {"RO_CLK_HI", "RO_READ_O6"} => regIndx = shifts /\ shifts < DataBits
    /\ state \in {"RO_CLK_LO", "RO_SHIFT_DATA"}
         => regIndx = shifts + 1 /\ regIndx <= DataBits
    /\ state = "RO_WFIFO" => shifts = DataBits - 1

\* Every edge of the state machine preserves AlignInv.
LEMMA AlignStep ==
  ASSUME TypeOK, AlignInv, NEW in, MainFsm(in), Environment(in), ChipLate = 0
  PROVE  AlignInv'
<1> USE SizeAssumption DEF SizeAssumption, AlignInv, Goto, Drift, Straight
<1>0. regIndx \in Nat /\ shifts \in Nat
  BY DEF TypeOK
<1>1. CASE Idle(in)
  BY <1>1 DEF Idle
<1>2. CASE Linger(in)
  BY <1>2 DEF Linger
<1>3. CASE SetConfig(in)
  BY <1>3 DEF SetConfig
<1>4. CASE GetConfig(in)
  BY <1>4 DEF GetConfig
<1>5. CASE Acquire(in)
  BY <1>5 DEF Acquire
<1>6. CASE ReadOut(in)
  BY <1>0, <1>6 DEF ReadOut, Environment
<1>7. CASE PadData(in)
  BY <1>0, <1>7 DEF PadData
<1>8. CASE WriteFifo(in)
  BY <1>8 DEF WriteFifo
<1>9. CASE Return(in)
  BY <1>9 DEF Return
<1>10. CASE ForceIdle(in)
  BY <1>10 DEF ForceIdle
<1>11. CASE Abort(in)
  BY <1>11 DEF Abort
<1> QED
  BY <1>1, <1>2, <1>3, <1>4, <1>5, <1>6, <1>7, <1>8, <1>9, <1>10, <1>11 DEF MainFsm

\* Whenever a packet is written, the first bit read is bit 0 of the data.
THEOREM ReadoutAligned == Spec => []Aligned
<1>1. Init => AlignInv
  BY DEF Init, AlignInv
<1>2. TypeOK /\ AlignInv /\ [Next]_vars => AlignInv'
  <2> SUFFICES ASSUME TypeOK, AlignInv, [Next]_vars, ChipLate = 0 PROVE AlignInv'
    BY DEF AlignInv
  <2>1. CASE UNCHANGED vars
    BY <2>1 DEF AlignInv, vars, fsmVars
  <2>2. ASSUME NEW in \in Inputs, Clock(in) PROVE AlignInv'
    BY <2>2, AlignStep DEF Clock
  <2> QED
    BY <2>1, <2>2 DEF Next
<1>3. AlignInv => Aligned
  BY DEF AlignInv, Aligned
<1> QED
  BY <1>1, <1>2, <1>3, TypeCorrect, PTL DEF Spec

-----------------------------------------------------------------------------
(* The register file, for every set of registers, every word width, every  *)
(* number of triggers, and a master that takes as long as it likes between  *)
(* any two of its moves: the inductive invariant.                           *)

WrFields == [awready : BOOLEAN, wready : BOOLEAN, aw_en : BOOLEAN,
             awaddr : Addrs, bvalid : BOOLEAN]
RdFields == [arready : BOOLEAN, araddr : Addrs, rvalid : BOOLEAN, rdata : Data]
BusFields == [aw : Addrs \cup {None}, w : Data \cup {None}, ar : Addrs \cup {None},
              bready : BOOLEAN, rready : BOOLEAN]
ToldFields == [owed : 0 .. 1, last : [Addrs -> Data], asked : Data \cup {None},
               read : SUBSET Data]

\* The type of the register file and of the bus.
AxiType ==
  /\ wr \in WrFields /\ rd \in RdFields /\ bus \in BusFields /\ told \in ToldFields
  /\ reg \in [Addrs -> Data] /\ hw \in [Hardware -> Data]
  /\ trigger \in [last : BOOLEAN, raised : Data \cup {None}]

\* Address and data are taken in the same clock, with both on the bus, the
\* address as it was latched, and only when no answer is outstanding; the
\* clock after it takes nothing.
WriteInv ==
  /\ wr.awready <=> wr.wready
  /\ wr.awready => /\ Offered /\ bus.aw = wr.awaddr
                   /\ ~wr.bvalid /\ ~wr.aw_en /\ ~trigger.last
  /\ wr.aw_en => ~wr.bvalid

\* An address is taken as it was latched, while it is on the bus and the
\* register was seen; the answer before it is gone by then.
ReadInv ==
  /\ rd.rvalid => rd.rdata \in told.read
  /\ rd.arready => bus.ar # None /\ rd.araddr = bus.ar /\ told.read # {}
  /\ bus.ar # None => ~rd.rvalid

-----------------------------------------------------------------------------
(* One clock.                                                              *)

\* A word or address stays on the bus until it is taken.
LEMMA Kept ==
  ASSUME NEW valid, NEW ready, NEW set, NEW next, next \in Keep(valid, ready, set)
  PROVE  /\ valid # None /\ ~ready => next = valid
         /\ next = valid \/ next = None \/ next \in set
BY DEF Keep

LEMMA WriteStep ==
  ASSUME AxiType, WriteInv, AxiNext
  PROVE  WriteInv'
<1> USE DEF WrFields, BusFields
<1>1. /\ wr'.awready = Accept
      /\ wr'.wready = (Offered /\ ~wr.wready /\ wr.aw_en)
      /\ wr'.aw_en = IF Accept THEN FALSE ELSE Answered \/ wr.aw_en
      /\ wr'.awaddr = IF Accept THEN bus.aw ELSE wr.awaddr
      /\ wr'.bvalid = IF Wren /\ ~wr.bvalid THEN TRUE ELSE wr.bvalid /\ ~bus.bready
  BY DEF AxiNext, WriteHandshake
<1>2. bus'.aw \in Keep(bus.aw, wr.awready, Addrs) /\ bus'.w \in Keep(bus.w, wr.wready, Data)
  BY DEF AxiNext, MasterMoves
<1>3. trigger'.last = wr.wready
  BY DEF AxiNext, Triggers
<1>4. CASE Accept
  <2>1. ~wr.awready /\ ~wr.wready /\ wr.aw_en /\ ~wr.bvalid /\ Offered
    BY <1>4 DEF Accept, WriteInv
  <2>2. bus'.aw = bus.aw /\ bus'.w = bus.w
    BY <1>2, <2>1, Kept DEF Offered
  <2> QED
    BY <1>1, <1>3, <1>4, <2>1, <2>2 DEF WriteInv, Offered, Wren
<1>5. CASE ~Accept
  <2>1. ~wr'.awready /\ ~wr'.wready
    BY <1>1, <1>5 DEF Accept, WriteInv
  <2>2. wr'.aw_en => ~wr'.bvalid
    BY <1>1, <1>5 DEF WriteInv, Answered, Wren
  <2> QED
    BY <2>1, <2>2 DEF WriteInv
<1> QED
  BY <1>4, <1>5

LEMMA ReadStep ==
  ASSUME AxiType, ReadInv, AxiNext
  PROVE  ReadInv'
<1> USE DEF RdFields, BusFields
<1>1. /\ rd'.arready = (bus.ar # None /\ ~rd.arready)
      /\ rd'.araddr = IF bus.ar # None /\ ~rd.arready THEN bus.ar ELSE rd.araddr
      /\ rd'.rvalid = IF Rden THEN TRUE ELSE rd.rvalid /\ ~bus.rready
  BY DEF AxiNext, ReadHandshake
<1>2. bus'.ar \in Keep(bus.ar, rd.arready, IF Reading THEN {} ELSE Addrs)
  BY DEF AxiNext, MasterMoves
<1>3. told'.read = IF rd.rvalid /\ bus.rready THEN {}
                   ELSE IF bus.ar # None THEN told.read \cup {Shows(bus.ar)}
                   ELSE told.read
  BY DEF AxiNext, MasterNotes
<1>4. ASSUME rd'.arready
      PROVE  bus'.ar # None /\ rd'.araddr = bus'.ar /\ told'.read # {}
  <2>1. bus.ar # None /\ ~rd.arready /\ ~rd.rvalid
    BY <1>1, <1>4 DEF ReadInv
  <2>2. bus'.ar = bus.ar
    BY <1>2, <2>1, Kept
  <2> QED
    BY <1>1, <1>3, <2>1, <2>2
<1>5. ASSUME bus'.ar # None
      PROVE  ~rd'.rvalid
  <2>1. CASE bus.ar # None /\ ~rd.arready
    BY <1>1, <2>1 DEF ReadInv, Rden
  <2>2. CASE rd.arready
    <3>1. Reading
      BY <2>2 DEF ReadInv, Reading
    <3> QED
      BY <1>2, <1>5, <2>2, <3>1 DEF Keep
  <2>3. CASE bus.ar = None
    <3>1. ~Reading
      BY <1>2, <1>5, <2>3 DEF Keep
    <3> QED
      BY <1>1, <2>3, <3>1 DEF Rden, Reading, ReadInv
  <2> QED
    BY <2>1, <2>2, <2>3
<1>6. ASSUME rd'.rvalid
      PROVE  rd'.rdata \in told'.read
  <2>1. CASE Rden
    <3>1. rd'.rdata = ReadMux(rd.araddr)
      BY <2>1 DEF AxiNext, ReadHandshake
    <3>2. rd.araddr = bus.ar /\ bus.ar # None /\ ~rd.rvalid
      BY <2>1 DEF Rden, ReadInv
    <3>3. Shows(bus.ar) \in told'.read
      BY <1>3, <3>2
    <3> QED
      BY <3>1, <3>2, <3>3 DEF ReadMux, Shows
  <2>2. CASE ~Rden
    <3>1. rd'.rdata = rd.rdata /\ rd.rvalid /\ ~bus.rready
      BY <1>1, <1>6, <2>2 DEF AxiNext, ReadHandshake
    <3> QED
      BY <1>3, <3>1 DEF ReadInv
  <2> QED
    BY <2>1, <2>2
<1> QED
  BY <1>4, <1>5, <1>6 DEF ReadInv

\* One answer is owed for a write that was taken, until it is given.
LEMMA OwedStep ==
  ASSUME AxiType, WriteInv, EachWriteAnswered, AxiNext
  PROVE  EachWriteAnswered'
<1> USE DEF WrFields, BusFields, ToldFields
<1>1. /\ wr'.bvalid = IF Wren /\ ~wr.bvalid THEN TRUE ELSE wr.bvalid /\ ~bus.bready
      /\ told'.owed = told.owed + (IF bus.aw # None /\ wr.awready THEN 1 ELSE 0)
                                - (IF Answered THEN 1 ELSE 0)
  BY DEF AxiNext, WriteHandshake, MasterNotes
<1>2. CASE wr.awready
  <2>1. Wren /\ ~wr.bvalid /\ ~Answered /\ bus.aw # None
    BY <1>2 DEF WriteInv, Wren, Offered, Answered
  <2>2. told.owed = 0
    BY <2>1 DEF EachWriteAnswered
  <2>3. told'.owed = 1
    BY <1>1, <1>2, <2>1, <2>2
  <2>4. wr'.bvalid
    BY <1>1, <2>1
  <2> QED
    BY <2>3, <2>4 DEF EachWriteAnswered
<1>3. CASE ~wr.awready
  <2>1. ~Wren
    BY <1>3 DEF Wren
  <2>2. wr'.bvalid <=> wr.bvalid /\ ~bus.bready
    BY <1>1, <2>1
  <2>3. told'.owed = told.owed - (IF Answered THEN 1 ELSE 0)
    BY <1>1, <1>3 DEF AxiType
  <2>4. CASE Answered
    <3>1. told.owed = 1
      BY <2>4 DEF EachWriteAnswered, Answered
    <3> QED
      BY <2>2, <2>3, <2>4, <3>1 DEF EachWriteAnswered, Answered
  <2>5. CASE ~Answered
    <3>1. (wr'.bvalid <=> wr.bvalid) /\ told'.owed = told.owed
      BY <2>2, <2>3, <2>5 DEF Answered, EachWriteAnswered
    <3> QED
      BY <3>1 DEF EachWriteAnswered
  <2> QED
    BY <2>4, <2>5
<1> QED
  BY <1>2, <1>3

\* The word taken is written to the register whose address is on the bus, and
\* a trigger number raises its trigger, once.
LEMMA EffectStep ==
  ASSUME AxiType, WriteInv, WritesTakeEffect, AxiNext
  PROVE  WritesTakeEffect'
<1> USE DEF WrFields, BusFields
<1>1. CASE wr.awready
  <2>1. Wren /\ wr.wready /\ bus.aw = wr.awaddr /\ ~trigger.last /\ bus.aw # None /\ bus.w # None
    BY <1>1 DEF WriteInv, Wren, Offered
  <2>2. reg' = [reg EXCEPT ![bus.aw] = bus.w] /\ told'.last = [told.last EXCEPT ![bus.aw] = bus.w]
    BY <1>1, <2>1 DEF AxiNext, WriteReg, MasterNotes
  <2>3. trigger'.raised = told'.asked
    BY <1>1, <2>1 DEF AxiNext, Triggers, MasterNotes
  <2> QED
    BY <2>2, <2>3 DEF WritesTakeEffect
<1>2. CASE ~wr.awready
  <2>1. ~Wren /\ ~wr.wready
    BY <1>2 DEF WriteInv, Wren
  <2>2. reg' = reg /\ told'.last = told.last
    BY <1>2, <2>1 DEF AxiNext, WriteReg, MasterNotes
  <2>3. trigger'.raised = None /\ told'.asked = None
    BY <1>2, <2>1 DEF AxiNext, Triggers, MasterNotes
  <2> QED
    BY <2>2, <2>3 DEF WritesTakeEffect
<1> QED
  BY <1>1, <1>2

AxiInv == AxiType /\ WriteInv /\ ReadInv /\ EachWriteAnswered /\ WritesTakeEffect

LEMMA AxiTypeStep ==
  ASSUME AxiInv, AxiNext
  PROVE  AxiType'
<1> USE DEF AxiInv, AxiType
<1>1. bus' \in BusFields
  <2>1. bus'.aw \in Addrs \cup {None} /\ bus'.w \in Data \cup {None}
        /\ bus'.ar \in Addrs \cup {None}
    BY DEF AxiNext, MasterMoves, Keep, BusFields
  <2>2. bus' = [aw |-> bus'.aw, w |-> bus'.w, ar |-> bus'.ar,
                bready |-> bus'.bready, rready |-> bus'.rready]
        /\ bus'.bready \in BOOLEAN /\ bus'.rready \in BOOLEAN
    BY DEF AxiNext, MasterMoves
  <2> QED
    BY <2>1, <2>2 DEF BusFields
<1>2. wr' \in WrFields
  <2>1. (IF Accept THEN bus.aw ELSE wr.awaddr) \in Addrs
    BY DEF Accept, Offered, BusFields, WrFields
  <2> QED
    BY <2>1 DEF AxiNext, WriteHandshake, WrFields, Accept, Offered, Answered
<1>3. hw' \in [Hardware -> Data]
  BY DEF AxiNext, HardwareMoves
<1>4. reg' \in [Addrs -> Data]
  BY DEF AxiNext, WriteReg, Wren, Offered, BusFields
<1>5. \A a \in Addrs : Shows(a) \in Data
  BY DEF Shows
<1>6. rd' \in RdFields
  <2>1. (IF bus.ar # None /\ ~rd.arready THEN bus.ar ELSE rd.araddr) \in Addrs
    BY DEF BusFields, RdFields
  <2>2. (IF Rden THEN ReadMux(rd.araddr) ELSE rd.rdata) \in Data
    BY DEF RdFields, ReadMux
  <2> QED
    BY <2>1, <2>2 DEF AxiNext, ReadHandshake, RdFields, Rden
<1>7. told' \in ToldFields
  <2>1. told'.owed \in 0 .. 1
    BY OwedStep DEF EachWriteAnswered
  <2>2. told'.last \in [Addrs -> Data]
    BY DEF AxiNext, MasterNotes, ToldFields, BusFields
  <2>3. told'.asked \in Data \cup {None}
    BY DEF AxiNext, MasterNotes, BusFields
  <2>4. told'.read \in SUBSET Data
    BY <1>5 DEF AxiNext, MasterNotes, ToldFields, BusFields
  <2>5. told' = [owed |-> told'.owed, last |-> told'.last, asked |-> told'.asked,
                 read |-> told'.read]
    BY DEF AxiNext, MasterNotes
  <2> QED
    BY <2>1, <2>2, <2>3, <2>4, <2>5 DEF ToldFields
<1>8. trigger' \in [last : BOOLEAN, raised : Data \cup {None}]
  BY DEF AxiNext, Triggers, WrFields, BusFields
<1> QED
  BY <1>1, <1>2, <1>3, <1>4, <1>6, <1>7, <1>8

LEMMA AxiInvHolds == AxiSpec => []AxiInv
<1>1. AxiInit => AxiInv
  <2> SUFFICES ASSUME AxiInit PROVE AxiInv
    OBVIOUS
  <2> USE AxiAssumption DEF AxiAssumption, AxiInit
  <2>1. bus \in BusFields /\ wr \in WrFields /\ rd \in RdFields
    BY DEF BusFields, WrFields, RdFields, Addrs
  <2>2. told \in ToldFields /\ reg \in [Addrs -> Data]
    BY DEF ToldFields
  <2>3. AxiType
    BY <2>1, <2>2 DEF AxiType
  <2> QED
    BY <2>3 DEF AxiInv, WriteInv, ReadInv, EachWriteAnswered, WritesTakeEffect
<1>2. AxiInv /\ [AxiNext]_axiVars => AxiInv'
  <2>1. ASSUME AxiInv, AxiNext PROVE AxiInv'
    BY <2>1, AxiTypeStep, WriteStep, ReadStep, OwedStep, EffectStep DEF AxiInv
  <2>2. ASSUME AxiInv, UNCHANGED axiVars PROVE AxiInv'
    BY <2>2 DEF axiVars, AxiInv, AxiType, WriteInv, ReadInv, EachWriteAnswered,
                WritesTakeEffect, Offered
  <2> QED
    BY <2>1, <2>2
<1> QED
  BY <1>1, <1>2, PTL DEF AxiSpec

-----------------------------------------------------------------------------
(* The properties.                                                         *)

\* The types of the register file, of the bus and of what the master notes; the
\* answers owed are never more than one.
THEOREM AxiTypeCorrect == AxiSpec => []AxiType
BY AxiInvHolds, PTL DEF AxiInv

\* Every write that is taken gets one answer of its own.
THEOREM WritesAnswered == AxiSpec => []EachWriteAnswered
BY AxiInvHolds, PTL DEF AxiInv

\* Every write changes its own register and no other, and a control write
\* raises its trigger for one clock.
THEOREM WritesAreDone == AxiSpec => []WritesTakeEffect
BY AxiInvHolds, PTL DEF AxiInv

\* The data of a read is a value the register had between request and answer.
THEOREM ReadsAreCurrent == AxiSpec => []ReadIsCurrent
<1>1. AxiInv => ReadIsCurrent
  BY DEF AxiInv, ReadInv, ReadIsCurrent
<1> QED
  BY <1>1, AxiInvHolds, PTL

=============================================================================
