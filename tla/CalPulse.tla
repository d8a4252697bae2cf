------------------------------ MODULE CalPulse ------------------------------
(***************************************************************************)
(* The calibration pulser (pulse_trigger_fsm.vhd): it holds the            *)
(* calibration output high for a number of clocks, raises the VATA trigger *)
(* some clocks later, waits, and repeats, a number of times or as long as  *)
(* it is told to run.  The server's library (cal_ctrl.cpp) controls it     *)
(* with register writes that come while it runs.                           *)
(*                                                                         *)
(* One step is one rising edge of the clock, at which at most one register *)
(* is written.                                                             *)
(***************************************************************************)
EXTENDS Naturals, Sequences

CONSTANTS
  Mod,       \* registers and counters count modulo this (2^32)
  Settings,  \* the settings the server's CalCtrl may hold
  Counts     \* numbers of pulses CalCtrl::n_pulses may be given: its callers
             \* refuse 0, it does not

Fields == [cal : BOOLEAN, trig : BOOLEAN, width : 0 .. Mod - 1,
           delay : 0 .. Mod - 1, wait : 0 .. Mod - 1]

ASSUME CalAssumption ==
  /\ Mod \in Nat \ {0}
  /\ Settings \subseteq Fields
  /\ Counts \subseteq 0 .. Mod - 1

VARIABLES
  regs,       \* the registers: those of Settings, n (n_pulses) and run (init)
  writes,     \* register writes the library has still to make
  lastRun,    \* last_run_pulses
  start,      \* start_cal_pulses
  state,      \* current_state
  counter,    \* counter
  delayCnt,   \* vata_trig_delay_counter
  pulseCount, \* pulse_count
  age,        \* history: clocks spent in this state
  fired,      \* history: pulses of this run, as far as Mod
  asked,      \* history: n_pulses when the run began
  steady      \* history: no register but run has changed since then

cntVars == <<counter, delayCnt, pulseCount>>
history == <<age, fired, asked, steady>>
vars == <<regs, writes, lastRun, start, state, cntVars, history>>

Counted == {"CAL_PULSE_HOLD", "CAL_PULSE_WAIT"}
Hold == {"CAL_PULSE_HOLD", "INF_CAL_PULSE_HOLD"}
Wait == {"CAL_PULSE_WAIT", "INF_CAL_PULSE_WAIT"}

Init ==
  /\ regs = [cal |-> FALSE, trig |-> FALSE, width |-> 0, delay |-> 0,
             wait |-> 0, n |-> 0, run |-> 0]
  /\ writes = <<>>
  /\ lastRun = 0 /\ start = FALSE
  /\ state = "IDLE"
  /\ counter = 0 /\ delayCnt = 0 /\ pulseCount = 0
  /\ age = 0 /\ fired = 0 /\ asked = 0 /\ steady = TRUE

-----------------------------------------------------------------------------
(* The library: every operation is a row of register writes.               *)

WriteSettings(s) ==
  <<[cal |-> s.cal, trig |-> s.trig], [width |-> s.width],
    [delay |-> s.delay], [wait |-> s.wait]>>

NPulses(s, n) == WriteSettings(s) \o <<[n |-> n], [run |-> 1], [run |-> 0]>>
StartInf(s) == WriteSettings(s) \o <<[n |-> 0], [run |-> 1]>>
StopInf == <<[run |-> 0]>>

Operations ==
  {WriteSettings(s) : s \in Settings} \cup {StartInf(s) : s \in Settings}
    \cup {NPulses(s, n) : s \in Settings, n \in Counts} \cup {StopInf}

\* At a clock edge the library begins an operation, writes a register, or is
\* still busy elsewhere.
Library ==
  \/ /\ writes = <<>>
     /\ writes' \in Operations
     /\ UNCHANGED regs
  \/ /\ writes # <<>>
     /\ writes' = Tail(writes)
     /\ regs' = [r \in DOMAIN regs |->
                   IF r \in DOMAIN Head(writes) THEN Head(writes)[r] ELSE regs[r]]
  \/ UNCHANGED <<writes, regs>>

-----------------------------------------------------------------------------
(* The state machine.                                                      *)

\* Unsigned subtraction of 1.
LessOne(x) == (x + Mod - 1) % Mod

HoldOver == counter >= LessOne(regs.width)
WaitOver == counter >= LessOne(regs.wait)

CalOut == state \in Hold /\ regs.cal
TriggerOut == state \in Hold /\ regs.trig /\ delayCnt > LessOne(regs.delay)

\* Mutant: > for >= in the count of the pulses.
LastPulseLate == pulseCount > LessOne(regs.n)

LastPulse == pulseCount >= LessOne(regs.n)

\* Mutant: the delay is cleared by vata_trig_counter_clr, which nothing drives.
GotoKeep(s, clear) ==
  /\ state' = s
  /\ counter' = IF clear THEN 0
                ELSE IF state \in Hold \cup Wait THEN (counter + 1) % Mod ELSE counter
  /\ delayCnt' = IF state \in Hold /\ ~TriggerOut THEN (delayCnt + 1) % Mod ELSE delayCnt

\* The next state; clear is counter_clr, which clears both counters.
Goto(s, clear) ==
  /\ state' = s
  /\ counter' = IF clear THEN 0
                ELSE IF state \in Hold \cup Wait THEN (counter + 1) % Mod ELSE counter
  /\ delayCnt' = IF clear THEN 0
                 ELSE IF state \in Hold /\ ~TriggerOut THEN (delayCnt + 1) % Mod
                 ELSE delayCnt

Idle ==
  /\ state = "IDLE"
  /\ IF ~start THEN Goto("IDLE", FALSE) /\ UNCHANGED pulseCount
     ELSE IF regs.n = 0 THEN Goto("INF_CAL_PULSE_HOLD", TRUE) /\ UNCHANGED pulseCount
     ELSE Goto("CAL_PULSE_HOLD", TRUE) /\ pulseCount' = 0

CalHold ==
  /\ state = "CAL_PULSE_HOLD"
  /\ IF ~HoldOver THEN Goto(state, FALSE) /\ UNCHANGED pulseCount
     ELSE IF LastPulse THEN Goto("IDLE", FALSE) /\ UNCHANGED pulseCount
     ELSE Goto("CAL_PULSE_WAIT", TRUE) /\ pulseCount' = (pulseCount + 1) % Mod

CalWait ==
  /\ state = "CAL_PULSE_WAIT"
  /\ IF ~WaitOver THEN Goto(state, FALSE) ELSE Goto("CAL_PULSE_HOLD", TRUE)
  /\ UNCHANGED pulseCount

InfHold ==
  /\ state = "INF_CAL_PULSE_HOLD"
  /\ IF ~HoldOver THEN Goto(state, FALSE) ELSE Goto("INF_CAL_PULSE_WAIT", TRUE)
  /\ UNCHANGED pulseCount

\* Mutant: run is looked at only when the wait is over, and not then.
InfWaitDeaf ==
  /\ state = "INF_CAL_PULSE_WAIT"
  /\ IF ~WaitOver THEN Goto(state, FALSE) ELSE Goto("INF_CAL_PULSE_HOLD", TRUE)
  /\ UNCHANGED pulseCount

\* run is looked at between pulses only.
InfWait ==
  /\ state = "INF_CAL_PULSE_WAIT"
  /\ IF regs.run = 0 THEN Goto("IDLE", FALSE)
     ELSE IF ~WaitOver THEN Goto(state, FALSE)
     ELSE Goto("INF_CAL_PULSE_HOLD", TRUE)
  /\ UNCHANGED pulseCount

\* A rising edge of run_pulses is seen one clock later by the state machine.
Initiate ==
  /\ start' = (lastRun = 0 /\ regs.run = 1)
  /\ lastRun' = regs.run

Observe ==
  /\ age' = IF state' = state THEN (IF age < Mod THEN age + 1 ELSE age) ELSE 0
  /\ fired' = IF state = "IDLE" /\ state' = "CAL_PULSE_HOLD" THEN 1
              ELSE IF state = "CAL_PULSE_WAIT" /\ state' = "CAL_PULSE_HOLD" /\ fired < Mod
              THEN fired + 1 ELSE fired
  /\ asked' = IF state = "IDLE" /\ state' # "IDLE" THEN regs.n ELSE asked
  /\ steady' = ((steady \/ (state = "IDLE" /\ state' # "IDLE"))
                  /\ \A r \in DOMAIN regs \ {"run"} : regs'[r] = regs[r])

Next ==
  /\ Library
  /\ Idle \/ CalHold \/ CalWait \/ InfHold \/ InfWait
  /\ Initiate
  /\ Observe

Spec == Init /\ [][Next]_vars

\* The clock runs.
FairSpec == Spec /\ WF_vars(Next)

-----------------------------------------------------------------------------
(* Properties.                                                             *)

Registers == [cal : BOOLEAN, trig : BOOLEAN, width : 0 .. Mod - 1,
              delay : 0 .. Mod - 1, wait : 0 .. Mod - 1, n : 0 .. Mod - 1,
              run : {0, 1}]
RegisterWrites ==
  [cal : BOOLEAN, trig : BOOLEAN] \cup [width : 0 .. Mod - 1]
    \cup [delay : 0 .. Mod - 1] \cup [wait : 0 .. Mod - 1]
    \cup [n : 0 .. Mod - 1] \cup [run : {0, 1}]

\* Type invariant of the registers, the state machine and its counters.
TypeOK ==
  /\ regs \in Registers
  /\ writes \in Seq(RegisterWrites)
  /\ lastRun \in {0, 1} /\ start \in BOOLEAN
  /\ state \in {"IDLE"} \cup Hold \cup Wait
  /\ counter \in 0 .. Mod - 1 /\ delayCnt \in 0 .. Mod - 1 /\ pulseCount \in 0 .. Mod - 1
  /\ age \in 0 .. Mod /\ fired \in 0 .. Mod /\ asked \in 0 .. Mod - 1
  /\ steady \in BOOLEAN

\* A run of which no register was changed gives as many pulses as asked for,
\* each of cal_pulse_width clocks, pulse_wait clocks apart, whatever the
\* counters were left at by the run before and however late init is reset.
RunAsAsked ==
  [][steady /\ state' # state =>
       /\ state \in Counted /\ state' = "IDLE" => fired = asked
       /\ state \in Hold /\ regs.width > 0 => age + 1 = regs.width
       /\ state \in Wait /\ state' # "IDLE" /\ regs.wait > 0 => age + 1 = regs.wait]_vars

\* With a delay of at least 1 the VATA trigger is high from trigger_delay
\* clocks after the calibration pulse rises to the end of the pulse.
TriggerOnTime ==
  steady /\ state \in Hold /\ regs.delay > 0 =>
    (TriggerOut <=> regs.trig /\ age >= regs.delay)

\* Told to stop, the pulser stops, unless it is given something new to do, also
\* when n_pulses was rewritten in the middle of a run, or an endless run was
\* started in it and its edge lost: that run goes on until its count comes round.
StopEnds == (regs.run = 0 /\ writes = <<>>) ~> (state = "IDLE" \/ writes # <<>>)

\* "vata_trigger_out will go high `trigger_delay` clock cycles after
\* cal_pluse_trigger_out goes high" (pulse_trigger_fsm.vhd:18), for every delay.
TriggerAfterDelay ==
  steady /\ state \in Hold /\ regs.trig /\ age >= regs.delay => TriggerOut
=============================================================================
