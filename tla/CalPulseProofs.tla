-------------------------- MODULE CalPulseProofs --------------------------
(***************************************************************************)
(* What CalPulse promises for every width of the registers, for every      *)
(* settings and number of pulses, and whenever the library writes them.    *)
(***************************************************************************)
EXTENDS CalPulse, Integers, TLAPS

-----------------------------------------------------------------------------
(* A run of which no register was changed since it began.                  *)

\* The counters follow the clocks spent in the state: one of them up to the
\* width or the wait it is compared with, the other up to the delay, where it
\* stops for as long as the trigger is high.
ClockInv ==
  steady /\ state # "IDLE" =>
    /\ counter = age
    /\ state \in Hold => age <= LessOne(regs.width)
    /\ state \in Wait => age <= LessOne(regs.wait)
    /\ state \in Hold =>
         delayCnt = IF regs.trig /\ regs.delay > 0 /\ age > regs.delay
                    THEN regs.delay ELSE age

\* The count of the pulses is that of the pulses given, less the one under way.
PulseInv ==
  steady /\ state \in Counted =>
    /\ asked = regs.n /\ regs.n > 0
    /\ state = "CAL_PULSE_HOLD" => fired = pulseCount + 1 /\ fired <= regs.n
    /\ state = "CAL_PULSE_WAIT" => fired = pulseCount /\ fired < regs.n

-----------------------------------------------------------------------------
(* Arithmetic modulo Mod.                                                  *)

Num == 0 .. Mod - 1

\* The remainder of a number less than twice the modulus.
LEMMA OnceRound ==
  ASSUME NEW a \in Nat, NEW m \in Nat \ {0}, a < 2 * m
  PROVE  a % m = IF a < m THEN a ELSE a - m
<1> DEFINE q == a \div m
           r == a % m
<1>1. q \in Int /\ r \in 0 .. m - 1 /\ a = m * q + r
  OBVIOUS
<1> HIDE DEF q, r
<1>2. q > -1
  <2> SUFFICES ASSUME q <= -1 PROVE FALSE
    BY <1>1
  <2>1. m * q <= m * (-1)
    BY <1>1
  <2> QED
    BY <1>1, <2>1
<1>3. q < 2
  <2> SUFFICES ASSUME q >= 2 PROVE FALSE
    BY <1>1
  <2>1. m * q >= m * 2
    BY <1>1
  <2> QED
    BY <1>1, <2>1
<1>4. CASE q = 0
  BY <1>1, <1>4 DEF r
<1>5. CASE q = 1
  BY <1>1, <1>5 DEF r
<1> QED
  BY <1>1, <1>2, <1>3, <1>4, <1>5

\* One less than a register, which wraps at 0.
LEMMA OneLess ==
  ASSUME NEW x \in Num
  PROVE  LessOne(x) = IF x = 0 THEN Mod - 1 ELSE x - 1
<1>1. /\ Mod \in Nat \ {0} /\ x + Mod - 1 \in Nat /\ x + Mod - 1 < 2 * Mod
      /\ x + Mod - 1 < Mod <=> x = 0
      /\ (x + Mod - 1) - Mod = x - 1 /\ 0 + Mod - 1 = Mod - 1
  BY CalAssumption DEF CalAssumption, Num
<1> QED
  BY <1>1, OnceRound DEF LessOne

\* A counter that counts on.
LEMMA OneMore ==
  ASSUME NEW x \in Num
  PROVE  /\ (x + 1) % Mod \in Num
         /\ x < Mod - 1 => (x + 1) % Mod = x + 1
<1>1. /\ Mod \in Nat \ {0} /\ x + 1 \in Nat /\ x + 1 < 2 * Mod /\ x + 1 <= Mod
      /\ x \in Nat
  BY CalAssumption DEF CalAssumption, Num
<1>2. (x + 1) % Mod = IF x + 1 < Mod THEN x + 1 ELSE x + 1 - Mod
  <2>1. \A a \in Nat : a < 2 * Mod => a % Mod = IF a < Mod THEN a ELSE a - Mod
    BY <1>1, OnceRound
  <2> QED
    BY <1>1, <2>1
<1> QED
  BY <1>1, <1>2 DEF Num

-----------------------------------------------------------------------------
(* Type correctness.                                                       *)

\* The library writes values its registers have room for.
LEMMA OperationWrites ==
  ASSUME NEW o \in Operations
  PROVE  o \in Seq(RegisterWrites)
<1>0. /\ Settings \subseteq Fields /\ Counts \subseteq Num /\ 0 \in Num
      /\ Mod \in Nat \ {0}
  BY CalAssumption DEF CalAssumption, Num
<1>1. /\ \A v \in {0, 1} : [run |-> v] \in RegisterWrites
      /\ \A v \in Num : [n |-> v] \in RegisterWrites
      /\ \A v \in Num : [width |-> v] \in RegisterWrites
      /\ \A v \in Num : [delay |-> v] \in RegisterWrites
      /\ \A v \in Num : [wait |-> v] \in RegisterWrites
  BY DEF RegisterWrites, Num
<1>2. ASSUME NEW s \in Settings
      PROVE  WriteSettings(s) \in Seq(RegisterWrites)
  <2>1. /\ s.cal \in BOOLEAN /\ s.trig \in BOOLEAN
        /\ s.width \in Num /\ s.delay \in Num /\ s.wait \in Num
    BY <1>0 DEF Fields, Num
  <2>2. [cal |-> s.cal, trig |-> s.trig] \in RegisterWrites
    BY <2>1 DEF RegisterWrites
  <2> QED
    BY <1>1, <2>1, <2>2 DEF WriteSettings
<1>3. ASSUME NEW v \in Num
      PROVE  /\ <<[n |-> v], [run |-> 1], [run |-> 0]>> \in Seq(RegisterWrites)
             /\ <<[n |-> v], [run |-> 1]>> \in Seq(RegisterWrites)
  BY <1>1
<1>4. CASE \E s \in Settings : o = WriteSettings(s)
  BY <1>2, <1>4
<1>5. CASE \E s \in Settings : o = StartInf(s)
  BY <1>0, <1>2, <1>3, <1>5 DEF StartInf
<1>6. CASE \E s \in Settings, n \in Counts : o = NPulses(s, n)
  BY <1>0, <1>2, <1>3, <1>6 DEF NPulses
<1>7. CASE o = StopInf
  BY <1>1, <1>7 DEF StopInf
<1> QED
  BY <1>4, <1>5, <1>6, <1>7 DEF Operations

\* Writing a register leaves the others as they are.
LEMMA RegisterWritten ==
  ASSUME regs \in Registers, NEW w \in RegisterWrites
  PROVE  [r \in DOMAIN regs |-> IF r \in DOMAIN w THEN w[r] ELSE regs[r]]
           \in Registers
<1> DEFINE new == [r \in DOMAIN regs |-> IF r \in DOMAIN w THEN w[r] ELSE regs[r]]
           names == {"cal", "trig", "width", "delay", "wait", "n", "run"}
<1>1. /\ DOMAIN regs = names
      /\ regs.cal \in BOOLEAN /\ regs.trig \in BOOLEAN /\ regs.width \in Num
      /\ regs.delay \in Num /\ regs.wait \in Num /\ regs.n \in Num
      /\ regs.run \in {0, 1}
  BY DEF Registers, Num
<1>2. \/ w \in [cal : BOOLEAN, trig : BOOLEAN]
      \/ w \in [width : Num] \/ w \in [delay : Num] \/ w \in [wait : Num]
      \/ w \in [n : Num] \/ w \in [run : {0, 1}]
  BY DEF RegisterWrites, Num
<1>3. \A r \in names : new[r] = IF r \in DOMAIN w THEN w[r] ELSE regs[r]
  BY <1>1
<1>4. DOMAIN new = names
  BY <1>1
<1>5. new = [cal |-> new.cal, trig |-> new.trig, width |-> new.width,
             delay |-> new.delay, wait |-> new.wait, n |-> new.n, run |-> new.run]
  BY <1>1
<1> HIDE DEF new
<1>6. /\ new.cal \in BOOLEAN /\ new.trig \in BOOLEAN /\ new.width \in Num
      /\ new.delay \in Num /\ new.wait \in Num /\ new.n \in Num
      /\ new.run \in {0, 1}
  BY <1>1, <1>2, <1>3
<1>7. new \in Registers
  BY <1>5, <1>6 DEF Registers, Num
<1> QED
  BY <1>7 DEF new

\* A clock of the library keeps the types.
LEMMA LibraryType ==
  ASSUME regs \in Registers, writes \in Seq(RegisterWrites), Library
  PROVE  regs' \in Registers /\ writes' \in Seq(RegisterWrites)
<1>1. CASE writes = <<>> /\ writes' \in Operations /\ UNCHANGED regs
  BY <1>1, OperationWrites
<1>2. CASE writes # <<>> /\ writes' = Tail(writes)
             /\ regs' = [r \in DOMAIN regs |->
                           IF r \in DOMAIN Head(writes) THEN Head(writes)[r] ELSE regs[r]]
  <2>1. Head(writes) \in RegisterWrites /\ Tail(writes) \in Seq(RegisterWrites)
    BY <1>2
  <2> QED
    BY <1>2, <2>1, RegisterWritten
<1> QED
  BY <1>1, <1>2 DEF Library

\* What the state machine may do in a clock.
Fsm == Idle \/ CalHold \/ CalWait \/ InfHold \/ InfWait

\* A clock of the state machine keeps the types.
LEMMA FsmType ==
  ASSUME TypeOK, Fsm
  PROVE  /\ state' \in {"IDLE"} \cup Hold \cup Wait
         /\ counter' \in Num /\ delayCnt' \in Num /\ pulseCount' \in Num
<1>1. /\ counter \in Num /\ delayCnt \in Num /\ pulseCount \in Num /\ 0 \in Num
      /\ state \in {"IDLE"} \cup Hold \cup Wait
  BY CalAssumption DEF CalAssumption, TypeOK, Num
<1>2. /\ (counter + 1) % Mod \in Num /\ (delayCnt + 1) % Mod \in Num
      /\ (pulseCount + 1) % Mod \in Num
  BY <1>1, OneMore
<1>3. \A s, clear : Goto(s, clear) => state' = s /\ counter' \in Num /\ delayCnt' \in Num
  BY <1>1, <1>2 DEF Goto
<1> QED
  BY <1>1, <1>2, <1>3 DEF Fsm, Idle, CalHold, CalWait, InfHold, InfWait, Hold, Wait

\* The type invariant of the registers, the state machine and its counters.
THEOREM TypeCorrect == Spec => []TypeOK
<1>1. Init => TypeOK
  <2>1. <<>> \in Seq(RegisterWrites) /\ 0 \in 0 .. Mod - 1 /\ 0 \in 0 .. Mod
    BY CalAssumption DEF CalAssumption
  <2> SUFFICES ASSUME Init PROVE TypeOK
    OBVIOUS
  <2>2. regs \in Registers
    BY <2>1 DEF Init, Registers
  <2>3. steady \in BOOLEAN /\ start \in BOOLEAN
    BY DEF Init
  <2> QED
    BY <2>1, <2>2, <2>3 DEF Init, TypeOK
<1>2. TypeOK /\ [Next]_vars => TypeOK'
  <2> SUFFICES ASSUME TypeOK, [Next]_vars PROVE TypeOK'
    OBVIOUS
  <2>1. CASE UNCHANGED vars
    BY <2>1 DEF vars, cntVars, history, TypeOK
  <2>2. CASE Next
    <3>1. regs' \in Registers /\ writes' \in Seq(RegisterWrites)
      BY <2>2, LibraryType DEF Next, TypeOK
    <3>2. /\ state' \in {"IDLE"} \cup Hold \cup Wait
          /\ counter' \in Num /\ delayCnt' \in Num /\ pulseCount' \in Num
      BY <2>2, FsmType DEF Next, Fsm
    <3>3. /\ regs.run \in {0, 1} /\ regs.n \in 0 .. Mod - 1 /\ Mod \in Nat \ {0}
      BY CalAssumption DEF CalAssumption, TypeOK, Registers
    <3>4. lastRun' \in {0, 1} /\ start' \in BOOLEAN
      BY <2>2, <3>3 DEF Next, Initiate
    <3>5. age' \in 0 .. Mod /\ fired' \in 0 .. Mod /\ asked' \in 0 .. Mod - 1
      BY <2>2, <3>3 DEF Next, Observe, TypeOK
    <3>6. steady' \in BOOLEAN
      BY <2>2 DEF Next, Observe
    <3> QED
      BY <3>1, <3>2, <3>4, <3>5, <3>6 DEF TypeOK, Num
  <2> QED
    BY <2>1, <2>2
<1> QED
  BY <1>1, <1>2, PTL DEF Spec

-----------------------------------------------------------------------------
(* The clocks of a run.                                                    *)

\* What the registers hold, but for run, while nothing is written.
LEMMA Steadied ==
  ASSUME TypeOK, Observe, steady'
  PROVE  /\ steady \/ (state = "IDLE" /\ state' # "IDLE")
         /\ regs'.width = regs.width /\ regs'.wait = regs.wait
         /\ regs'.delay = regs.delay /\ regs'.trig = regs.trig /\ regs'.n = regs.n
<1>1. DOMAIN regs = {"cal", "trig", "width", "delay", "wait", "n", "run"}
  BY DEF TypeOK, Registers
<1>2. \A r \in DOMAIN regs \ {"run"} : regs'[r] = regs[r]
  BY DEF Observe
<1>3. steady \/ (state = "IDLE" /\ state' # "IDLE")
  BY DEF Observe
<1> QED
  BY <1>1, <1>2, <1>3

\* Whenever the state machine goes on to a pulse or a pause, the counters
\* begin again.
LEMMA Entered ==
  ASSUME Fsm, Observe, state' # state, state' # "IDLE"
  PROVE  counter' = 0 /\ delayCnt' = 0 /\ age' = 0
BY DEF Fsm, Idle, CalHold, CalWait, InfHold, InfWait, Goto, Observe

\* As long as a pulse or a pause lasts, they count on.
LEMMA Stayed ==
  ASSUME TypeOK, Fsm, Observe, state' = state, state # "IDLE"
  PROVE  /\ counter' = (counter + 1) % Mod
         /\ state \in Hold =>
              /\ counter < LessOne(regs.width)
              /\ delayCnt' = IF TriggerOut THEN delayCnt ELSE (delayCnt + 1) % Mod
         /\ state \in Wait => counter < LessOne(regs.wait)
         /\ pulseCount' = pulseCount
         /\ age' = IF age < Mod THEN age + 1 ELSE age
<1>1. regs.width \in Num /\ regs.wait \in Num /\ counter \in Num
  BY DEF TypeOK, Registers, Num
<1>2. LessOne(regs.width) \in Num /\ LessOne(regs.wait) \in Num
  BY <1>1, OneLess, CalAssumption DEF CalAssumption, Num
<1>3. \/ CalHold /\ ~HoldOver
      \/ CalWait /\ ~WaitOver
      \/ InfHold /\ ~HoldOver
      \/ InfWait /\ ~WaitOver
  BY DEF Fsm, Idle, CalHold, CalWait, InfHold, InfWait, Goto
<1>4. /\ ~HoldOver => counter < LessOne(regs.width)
      /\ ~WaitOver => counter < LessOne(regs.wait)
  BY <1>1, <1>2 DEF HoldOver, WaitOver, Num
<1>5. age' = IF age < Mod THEN age + 1 ELSE age
  BY DEF Observe
<1>6. CASE CalHold /\ ~HoldOver
  BY <1>4, <1>5, <1>6 DEF CalHold, Goto, Hold, Wait
<1>7. CASE CalWait /\ ~WaitOver
  BY <1>4, <1>5, <1>7 DEF CalWait, Goto, Hold, Wait
<1>8. CASE InfHold /\ ~HoldOver
  BY <1>4, <1>5, <1>8 DEF InfHold, Goto, Hold, Wait
<1>9. CASE InfWait /\ ~WaitOver
  BY <1>4, <1>5, <1>9 DEF InfWait, Goto, Hold, Wait
<1> QED
  BY <1>3, <1>6, <1>7, <1>8, <1>9

\* Every clock preserves ClockInv.
LEMMA ClockStep ==
  ASSUME TypeOK, ClockInv, Next
  PROVE  ClockInv'
<1> SUFFICES ASSUME steady', state' # "IDLE"
             PROVE  /\ counter' = age'
                    /\ state' \in Hold => age' <= LessOne(regs.width)
                    /\ state' \in Wait => age' <= LessOne(regs.wait)
                    /\ state' \in Hold =>
                         delayCnt' = IF regs.trig /\ regs.delay > 0 /\ age' > regs.delay
                                     THEN regs.delay ELSE age'
  BY Steadied DEF ClockInv, Next, LessOne
<1>1. /\ Fsm /\ Observe
      /\ regs.width \in Num /\ regs.wait \in Num /\ regs.delay \in Num
      /\ regs.trig \in BOOLEAN
      /\ counter \in Num /\ delayCnt \in Num
      /\ Mod \in Nat \ {0} /\ Num \subseteq Nat
  BY CalAssumption DEF CalAssumption, TypeOK, Registers, Num, Next, Fsm
<1>2. /\ LessOne(regs.width) \in Num /\ LessOne(regs.wait) \in Num
      /\ regs.delay > 0 => LessOne(regs.delay) = regs.delay - 1
      /\ regs.delay = 0 => LessOne(regs.delay) = Mod - 1
  BY <1>1, OneLess DEF Num
<1>3. CASE state' # state
  <2>1. counter' = 0 /\ delayCnt' = 0 /\ age' = 0
    BY <1>1, <1>3, Entered
  <2> QED
    BY <1>1, <1>2, <2>1 DEF Num
<1>4. CASE state' = state
  <2>1. steady /\ state # "IDLE"
    BY <1>1, <1>4, Steadied
  <2>2. /\ counter' = (counter + 1) % Mod
        /\ state \in Hold =>
             /\ counter < LessOne(regs.width)
             /\ delayCnt' = IF TriggerOut THEN delayCnt ELSE (delayCnt + 1) % Mod
        /\ state \in Wait => counter < LessOne(regs.wait)
        /\ age' = IF age < Mod THEN age + 1 ELSE age
    BY <1>1, <1>4, Stayed
  <2>3. counter = age /\ state \in Hold \cup Wait
    BY <2>1 DEF ClockInv, TypeOK
  <2>4. counter < Mod - 1
    BY <1>1, <1>2, <2>2, <2>3 DEF Num
  <2>5. counter' = counter + 1 /\ age' = age + 1
    BY <1>1, <2>2, <2>3, <2>4, OneMore DEF Num
  <2>6. ASSUME state \in Hold
        PROVE  delayCnt' = IF regs.trig /\ regs.delay > 0 /\ age' > regs.delay
                           THEN regs.delay ELSE age'
    <3>1. delayCnt = IF regs.trig /\ regs.delay > 0 /\ age > regs.delay
                     THEN regs.delay ELSE age
      BY <2>1, <2>6 DEF ClockInv
    <3>2. delayCnt <= age
      BY <1>1, <2>3, <3>1 DEF Num
    <3>3. (delayCnt + 1) % Mod = delayCnt + 1
      BY <1>1, <2>3, <2>4, <3>2, OneMore DEF Num
    <3>4. TriggerOut <=> regs.trig /\ delayCnt > LessOne(regs.delay)
      BY <2>6 DEF TriggerOut
    <3>5. CASE regs.trig /\ regs.delay > 0
      <4>1. TriggerOut <=> age >= regs.delay
        BY <1>1, <1>2, <2>3, <3>1, <3>4, <3>5 DEF Num
      <4> QED
        BY <1>1, <2>2, <2>3, <2>5, <2>6, <3>1, <3>3, <3>5, <4>1 DEF Num
    <3>6. CASE ~(regs.trig /\ regs.delay > 0)
      <4>1. ~TriggerOut
        BY <1>1, <1>2, <2>3, <2>4, <3>2, <3>4, <3>6 DEF Num
      <4> QED
        BY <2>2, <2>5, <2>6, <3>1, <3>3, <3>6, <4>1
    <3> QED
      BY <3>5, <3>6
  <2> QED
    BY <1>1, <1>2, <1>4, <2>2, <2>3, <2>5, <2>6 DEF Num
<1> QED
  BY <1>3, <1>4

\* Every clock preserves PulseInv.
LEMMA PulseStep ==
  ASSUME TypeOK, PulseInv, Next
  PROVE  PulseInv'
<1> SUFFICES ASSUME steady', state' \in Counted
             PROVE  /\ asked' = regs.n /\ regs.n > 0
                    /\ state' = "CAL_PULSE_HOLD"
                         => fired' = pulseCount' + 1 /\ fired' <= regs.n
                    /\ state' = "CAL_PULSE_WAIT"
                         => fired' = pulseCount' /\ fired' < regs.n
  BY Steadied DEF PulseInv, Next
<1>1. /\ Fsm /\ Observe
      /\ regs.n \in Num /\ pulseCount \in Num /\ fired \in Nat
      /\ regs.n \in Nat /\ pulseCount \in Nat
      /\ Mod \in Nat \ {0} /\ Num \subseteq Nat
  BY CalAssumption DEF CalAssumption, TypeOK, Registers, Num, Next, Fsm
<1>2. CASE Idle
  <2>1. /\ state = "IDLE" /\ state' = "CAL_PULSE_HOLD" /\ regs.n # 0 /\ pulseCount' = 0
    BY <1>2 DEF Idle, Goto, Counted
  <2>2. fired' = 1 /\ asked' = regs.n
    BY <1>1, <2>1 DEF Observe
  <2> QED
    BY <1>1, <2>1, <2>2
<1>3. CASE CalHold \/ CalWait
  <2>1. state \in Counted /\ steady /\ asked' = asked
    BY <1>1, <1>3, Steadied DEF CalHold, CalWait, Counted, Observe
  <2>2. /\ asked = regs.n /\ regs.n > 0
        /\ state = "CAL_PULSE_HOLD" => fired = pulseCount + 1 /\ fired <= regs.n
        /\ state = "CAL_PULSE_WAIT" => fired = pulseCount /\ fired < regs.n
    BY <2>1 DEF PulseInv
  <2>3. CASE CalHold
    <3>1. state = "CAL_PULSE_HOLD" /\ fired' = fired
      BY <1>1, <2>3 DEF CalHold, Observe
    <3>2. CASE state' = state
      <4>1. pulseCount' = pulseCount
        BY <2>3, <3>2 DEF CalHold, Goto
      <4> QED
        BY <2>1, <2>2, <3>1, <3>2, <4>1
    <3>3. CASE state' # state
      <4>1. /\ state' = "CAL_PULSE_WAIT" /\ ~LastPulse
            /\ pulseCount' = (pulseCount + 1) % Mod
        BY <2>3, <3>3 DEF CalHold, Goto, Counted
      <4>2. pulseCount < regs.n - 1
        BY <1>1, <2>2, <4>1, OneLess DEF LastPulse, Num
      <4>3. pulseCount' = pulseCount + 1
        BY <1>1, <4>1, <4>2, OneMore DEF Num
      <4> QED
        BY <1>1, <2>1, <2>2, <3>1, <4>1, <4>2, <4>3
    <3> QED
      BY <3>2, <3>3
  <2>4. CASE CalWait
    <3>1. state = "CAL_PULSE_WAIT" /\ pulseCount' = pulseCount
      BY <2>4 DEF CalWait
    <3>2. CASE state' = state
      <4>1. fired' = fired
        BY <1>1, <3>1, <3>2 DEF Observe
      <4> QED
        BY <2>1, <2>2, <3>1, <3>2, <4>1
    <3>3. CASE state' # state
      <4>1. state' = "CAL_PULSE_HOLD"
        BY <2>4, <3>3 DEF CalWait, Goto
      <4>2. fired < Mod
        BY <1>1, <2>2, <3>1 DEF Num
      <4>3. fired' = fired + 1
        BY <1>1, <3>1, <4>1, <4>2 DEF Observe
      <4> QED
        BY <1>1, <2>1, <2>2, <3>1, <4>1, <4>3
    <3> QED
      BY <3>2, <3>3
  <2> QED
    BY <1>3, <2>3, <2>4
<1>4. CASE InfHold \/ InfWait
  BY <1>4 DEF InfHold, InfWait, Goto, Counted
<1> QED
  BY <1>1, <1>2, <1>3, <1>4 DEF Fsm

-----------------------------------------------------------------------------
(* The theorems.                                                           *)

\* ClockInv and PulseInv hold in every reachable state.
THEOREM RunInvHolds == Spec => [](ClockInv /\ PulseInv)
<1>1. Init => ClockInv /\ PulseInv
  BY DEF Init, ClockInv, PulseInv, Counted
<1>2. TypeOK /\ ClockInv /\ PulseInv /\ [Next]_vars => ClockInv' /\ PulseInv'
  <2>1. CASE Next
    BY <2>1, ClockStep, PulseStep
  <2>2. CASE UNCHANGED vars
    BY <2>2 DEF vars, cntVars, history, ClockInv, PulseInv, LessOne
  <2> QED
    BY <2>1, <2>2
<1> QED
  BY <1>1, <1>2, TypeCorrect, PTL DEF Spec

\* The VATA trigger rises trigger_delay clocks after the calibration pulse and
\* stays high to its end, for every delay of at least 1.
THEOREM TriggersOnTime == Spec => []TriggerOnTime
<1>1. TypeOK /\ ClockInv => TriggerOnTime
  <2> SUFFICES ASSUME TypeOK, ClockInv, steady, state \in Hold, regs.delay > 0
               PROVE  TriggerOut <=> regs.trig /\ age >= regs.delay
    BY DEF TriggerOnTime
  <2>1. regs.delay \in Num /\ regs.trig \in BOOLEAN /\ age \in Nat /\ regs.delay \in Nat
    BY CalAssumption DEF CalAssumption, TypeOK, Registers, Num
  <2>2. LessOne(regs.delay) = regs.delay - 1
    BY <2>1, OneLess
  <2>3. delayCnt = IF regs.trig /\ regs.delay > 0 /\ age > regs.delay
                   THEN regs.delay ELSE age
    BY DEF ClockInv, Hold
  <2>4. CASE regs.trig
    BY <2>1, <2>2, <2>3, <2>4 DEF TriggerOut
  <2>5. CASE ~regs.trig
    BY <2>5 DEF TriggerOut
  <2> QED
    BY <2>4, <2>5
<1> QED
  BY <1>1, TypeCorrect, RunInvHolds, PTL

\* A run gives as many pulses as asked for, as long and as far apart as set.
THEOREM RunsAsAsked == Spec => RunAsAsked
<1> DEFINE A == steady /\ state' # state =>
       /\ state \in Counted /\ state' = "IDLE" => fired = asked
       /\ state \in Hold /\ regs.width > 0 => age + 1 = regs.width
       /\ state \in Wait /\ state' # "IDLE" /\ regs.wait > 0 => age + 1 = regs.wait
<1>1. TypeOK /\ ClockInv /\ PulseInv /\ [Next]_vars => [A]_vars
  <2> SUFFICES ASSUME TypeOK, ClockInv, PulseInv, Next, steady, state' # state
               PROVE  /\ state \in Counted /\ state' = "IDLE" => fired = asked
                      /\ state \in Hold /\ regs.width > 0 => age + 1 = regs.width
                      /\ state \in Wait /\ state' # "IDLE" /\ regs.wait > 0
                           => age + 1 = regs.wait
    OBVIOUS
  <2>1. /\ Fsm /\ regs.width \in Num /\ regs.wait \in Num /\ regs.n \in Num
        /\ counter \in Num /\ pulseCount \in Num /\ fired \in Nat
        /\ regs.width \in Nat /\ regs.wait \in Nat /\ regs.n \in Nat
        /\ counter \in Nat /\ pulseCount \in Nat /\ age \in Nat
    BY CalAssumption DEF CalAssumption, TypeOK, Registers, Num, Next, Fsm
  <2>2. ASSUME state \in Counted, state' = "IDLE" PROVE fired = asked
    <3>1. state = "CAL_PULSE_HOLD" /\ LastPulse
      BY <2>1, <2>2 DEF Fsm, Idle, CalHold, CalWait, InfHold, InfWait, Goto, Counted
    <3>2. asked = regs.n /\ regs.n > 0 /\ fired = pulseCount + 1 /\ fired <= regs.n
      BY <2>2, <3>1 DEF PulseInv
    <3>3. pulseCount >= regs.n - 1
      BY <2>1, <3>1, <3>2, OneLess DEF LastPulse, Num
    <3> QED
      BY <2>1, <3>2, <3>3
  <2>3. ASSUME state \in Hold, regs.width > 0 PROVE age + 1 = regs.width
    <3>1. HoldOver
      BY <2>1, <2>3 DEF Fsm, Idle, CalHold, CalWait, InfHold, InfWait, Goto, Hold
    <3>2. LessOne(regs.width) = regs.width - 1
      BY <2>1, <2>3, OneLess
    <3>3. counter = age /\ age <= LessOne(regs.width)
      BY <2>3 DEF ClockInv, Hold
    <3> QED
      BY <2>1, <3>1, <3>2, <3>3 DEF HoldOver
  <2>4. ASSUME state \in Wait, state' # "IDLE", regs.wait > 0 PROVE age + 1 = regs.wait
    <3>1. WaitOver
      BY <2>1, <2>4 DEF Fsm, Idle, CalHold, CalWait, InfHold, InfWait, Goto, Wait
    <3>2. LessOne(regs.wait) = regs.wait - 1
      BY <2>1, <2>4, OneLess
    <3>3. counter = age /\ age <= LessOne(regs.wait)
      BY <2>4 DEF ClockInv, Wait
    <3> QED
      BY <2>1, <3>1, <3>2, <3>3 DEF WaitOver
  <2> QED
    BY <2>2, <2>3, <2>4
<1> QED
  BY <1>1, TypeCorrect, RunInvHolds, PTL DEF Spec, RunAsAsked

=============================================================================
