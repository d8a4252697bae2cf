--------------------------- MODULE ServerRequests ---------------------------
(***************************************************************************)
(* What the request server does for a request (silayer_server.cpp): the    *)
(* library's accesses and the answers, in the order the handlers make      *)
(* them.  A request is a record of its group (the first word), command and *)
(* argument: a number, All, Junk, Absent, or what the command needs.       *)
(* Group "unknown" stands for all that is refused before a handler is      *)
(* called: unknown words, a bad VATA number, no command after it.          *)
(***************************************************************************)
EXTENDS LibraryCalls

Say(a) == [do |-> "say", answer |-> a]

\* A missing token is compared with strncmp, which reads through NULL: the
\* process is killed.
Crash == [do |-> "crash"]

\* Mutant: all requests answer first.
OkBefore(valid, call) == IF valid THEN <<Say("ok")>> \o call ELSE <<Say("error")>>

\* The answer follows the call, or tells that nothing was done.
OkAfter(valid, call) == IF valid THEN call \o <<Say("ok")>> ELSE <<Say("error")>>
ValueOf(call) == call \o <<Say("value")>>

\* trigger-enable-bit and trigger-disable-bit.
TriggerEnableBit(x) ==
  CASE x = All -> OkAfter(TRUE, trigger_enable_all)
    [] x = Absent -> <<Crash>>
    [] OTHER -> OkAfter(x \in MaskBits, trigger_enable(x))
TriggerDisableBit(x) ==
  CASE x = All -> OkAfter(TRUE, trigger_disable_all)
    [] x = Absent -> <<Crash>>
    [] OTHER -> OkAfter(x \in MaskBits, trigger_disable(x))

\* trigger-enable-asic: if there is no number, the handler and its caller
\* both answer.
TriggerEnableAsic(x) ==
  CASE x = All -> OkAfter(TRUE, trigger_enable_all_local_asics)
    [] x = Absent -> <<Crash>>
    [] x = Junk -> <<Say("error"), Say("error")>>
    [] OTHER -> OkAfter(x \in Asics, trigger_enable(x))

\* trigger-disable-asic: both answer also if the number is too large.
TriggerDisableAsic(x) ==
  CASE x = All -> OkAfter(TRUE, trigger_disable_all_local_asics)
    [] x = Absent -> <<Crash>>
    [] x \in Asics -> OkAfter(TRUE, trigger_disable(x))
    [] OTHER -> <<Say("error"), Say("error")>>

\* The six requests for the sources that are no VATA: all but the first
\* answer before the register is written.
TriggerSource(cmd) ==
  CASE cmd = "trigger-enable-tm-hit" -> OkAfter(TRUE, trigger_enable(TmHit))
    [] cmd = "trigger-disable-tm-hit" -> <<Say("ok")>> \o trigger_disable(TmHit)
    [] cmd = "trigger-enable-tm-ack" -> <<Say("ok")>> \o trigger_enable(TmAck)
    [] cmd = "trigger-disable-tm-ack" -> <<Say("ok")>> \o trigger_disable(TmAck)
    [] cmd = "trigger-enable-forced" -> <<Say("ok")>> \o trigger_enable(Forced)
    [] cmd = "trigger-disable-forced" -> <<Say("ok")>> \o trigger_disable(Forced)

Sources == {"trigger-enable-tm-hit", "trigger-disable-tm-hit", "trigger-enable-tm-ack",
            "trigger-disable-tm-ack", "trigger-enable-forced", "trigger-disable-forced"}

\* _process_vata_msg.  Whether a configuration could be read, set and checked
\* is the argument of set-config and get-config: VataConfig has what happens
\* there, FifoPath what clear-fifo does.
VataSteps(q) ==
  CASE q.cmd \in Sources -> TriggerSource(q.cmd)
    [] q.cmd = "trigger-enable-bit" -> TriggerEnableBit(q.arg)
    [] q.cmd = "trigger-disable-bit" -> TriggerDisableBit(q.arg)
    [] q.cmd = "trigger-enable-asic" -> TriggerEnableAsic(q.arg)
    [] q.cmd = "trigger-disable-asic" -> TriggerDisableAsic(q.arg)
    [] q.cmd = "get-trigger-ena-mask" -> ValueOf(get_trigger_ena_mask)
    [] q.cmd = "set-hold" -> OkAfter(q.arg \in Nat, set_hold_delay(q.arg))
    [] q.cmd = "get-hold" -> ValueOf(get_hold_delay)
    [] q.cmd = "get-counters" -> ValueOf(get_counters)
    [] q.cmd = "reset-counters" -> OkAfter(TRUE, reset_counters)
    [] q.cmd = "get-event-count" -> ValueOf(get_event_count)
    [] q.cmd = "reset-event-count" -> OkAfter(TRUE, reset_event_count)
    [] q.cmd = "fsm-idle" -> OkAfter(TRUE, force_fsm_to_idle)
    [] q.cmd \in {"set-config", "get-config"} -> OkAfter(q.arg = "done", <<>>)
    [] q.cmd = "clear-fifo" -> OkAfter(TRUE, <<>>)
    [] q.cmd \in {"get-n-fifo", "get-config-binary"} -> ValueOf(<<>>)

-----------------------------------------------------------------------------
(* Calibration, DAC and sync requests.                                     *)

\* A flag must be 0 or 1, the other settings a number.
Admissible(s, x) == IF s \in Flags THEN x \in {0, 1} ELSE x \in Nat

\* Mutant: a setting is stored before it is looked at.
SettingsAfterLoose(q, f) ==
  IF q.cmd \in Settings /\ q.arg \in Nat THEN [f EXCEPT ![q.cmd] = q.arg] ELSE f

\* The settings of the server's CalCtrl after a request.
SettingsAfter(q, f) ==
  IF q.cmd \in Settings /\ Admissible(q.cmd, q.arg) THEN [f EXCEPT ![q.cmd] = q.arg] ELSE f

\* _process_cal_msg, with the settings as the request leaves them.
CalSteps(q, f) ==
  CASE q.cmd \in Settings -> OkAfter(Admissible(q.cmd, q.arg), write_settings(f))
    [] q.cmd = "start-inf" -> OkAfter(TRUE, start_inf_pulses(f))
    [] q.cmd = "stop-inf" -> OkAfter(TRUE, stop_inf_pulses)
    [] q.cmd = "n-pulses" -> OkAfter(q.arg \in Nat \ {0}, n_pulses(f, q.arg))

\* _process_dac_msg.  The DAC and its counts are one argument; a word that is
\* no number counts as 0.
DacSteps(q) ==
  CASE q.cmd = "set-delay" -> OkAfter(q.arg \in 0 .. MaxDelay, set_delay(q.arg))
    [] q.cmd = "get-delay" -> ValueOf(get_delay)
    [] q.cmd = "set-counts" ->
         OkAfter(q.arg \in Dacs \X (0 .. MaxInput), set_counts(q.arg[1], q.arg[2]))
    [] q.cmd = "get-input" -> ValueOf(get_input)

\* _process_sync_msg.
SyncSteps(q) ==
  CASE q.cmd = "counter-reset" -> OkAfter(TRUE, counter_reset)
    [] q.cmd = "get-counter" -> ValueOf(get_counter)
    [] q.cmd = "force-trigger" -> OkAfter(TRUE, force_trigger)
    [] q.cmd = "get-global-hit-ena" -> ValueOf(is_global_hit_enabled)
    [] q.cmd = "global-hit-enable" -> OkAfter(TRUE, global_hit_enable)
    [] q.cmd = "global-hit-disable" -> OkAfter(TRUE, global_hit_disable)
    [] q.cmd = "asic-hit-enable" -> OkAfter(q.arg \in Asics, asic_hit_enable(q.arg))
    [] q.cmd = "asic-hit-disable" -> OkAfter(q.arg \in Asics, asic_hit_disable(q.arg))
    [] q.cmd = "get-asic-hit-disable-mask" -> ValueOf(get_asic_hit_disable_mask)

\* The requests there are: the commands that the handler of the group knows,
\* or none.  All others count as unknown.
VataCommands ==
  Sources \cup {"trigger-enable-bit", "trigger-disable-bit", "trigger-enable-asic",
    "trigger-disable-asic", "get-trigger-ena-mask", "set-hold", "get-hold", "get-counters",
    "reset-counters", "get-event-count", "reset-event-count", "fsm-idle", "set-config",
    "get-config", "clear-fifo", "get-n-fifo", "get-config-binary"}
CalCommands == Settings \cup {"start-inf", "stop-inf", "n-pulses"}
DacCommands == {"set-delay", "get-delay", "set-counts", "get-input"}
SyncCommands == {"counter-reset", "get-counter", "force-trigger", "get-global-hit-ena",
                 "global-hit-enable", "global-hit-disable", "asic-hit-enable",
                 "asic-hit-disable", "get-asic-hit-disable-mask"}

IsRequest(q) ==
  /\ q.group = "vata" => q.cmd \in VataCommands \cup {Absent}
  /\ q.group = "cal" => q.cmd \in CalCommands \cup {Absent}
  /\ q.group = "dac" => q.cmd \in DacCommands \cup {Absent}
  /\ q.group = "sync" => q.cmd \in SyncCommands \cup {Absent}

\* process_req: to the handler of the request's first word.  A group without
\* a command kills the process; what no handler knows is answered by an error.
Steps(q, f) ==
  CASE q.group = "vata" /\ q.cmd # Absent -> VataSteps(q)
    [] q.group = "cal" /\ q.cmd # Absent -> CalSteps(q, f)
    [] q.group = "dac" /\ q.cmd # Absent -> DacSteps(q)
    [] q.group = "sync" /\ q.cmd # Absent -> SyncSteps(q)
    [] q.group = "emit" /\ q.cmd = "status" -> ValueOf(<<>>)
    [] q.group = "get-n-vata" -> ValueOf(<<>>)
    [] q.group = "unknown" -> <<Say("error")>>
    [] OTHER -> <<Crash>>
=============================================================================
