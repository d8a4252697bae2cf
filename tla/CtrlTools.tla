------------------------------ MODULE CtrlTools -----------------------------
(***************************************************************************)
(* The command-line tools (silayer-ctrl): a run of vatactrl, syncctrl,     *)
(* calctrl or dacctrl makes the library's accesses for its options, in     *)
(* their order, and ends at the first option it cannot use.  An option is  *)
(* a record of its name, without the dashes, and argument; atoi reads a    *)
(* word that is no number as 0, and an option without its argument is one  *)
(* that cannot be used.                                                    *)
(***************************************************************************)
EXTENDS LibraryCalls

\* vatactrl's parse_args: an option that cannot be used ends the run.  Those
\* about the configuration and the FIFO are left to VataConfig and FifoPath.
VataOptions == [
  bits |-> {"trigger-enable-bit", "trigger-disable-bit"},
  asics |-> {"trigger-enable-asic", "trigger-disable-asic"},
  values |-> {"set-hold", "set-ack-timeout"},
  plain |-> {"get-hold", "get-counters", "reset-counters", "trigger-enable-tm-hit",
             "trigger-disable-tm-hit", "trigger-enable-tm-ack", "trigger-disable-tm-ack",
             "trigger-enable-forced", "trigger-disable-forced", "get-trigger-ena-mask",
             "get-ack-timeout", "get-event-count", "reset-event-count",
             "force-fsm-idle"}]

\* Numbers are natural: a negative one is refused like one that is too large, but
\* for trigger-disable-bit, which trigger_disable takes (see there).
VataUsable(o) ==
  \/ o.name \in VataOptions.plain
  \/ o.name \in VataOptions.values /\ o.arg \in Nat
  \/ o.name \in VataOptions.bits /\ (o.arg = All \/ o.arg \in MaskBits)
  \/ o.name \in VataOptions.asics /\ (o.arg = All \/ o.arg \in Asics)

VataCall(o) ==
  CASE o.name = "set-hold" -> set_hold_delay(o.arg)
    [] o.name = "get-hold" -> get_hold_delay
    [] o.name = "get-counters" -> get_counters
    [] o.name = "reset-counters" -> reset_counters
    [] o.name = "trigger-enable-bit" /\ o.arg = All -> trigger_enable_all
    [] o.name = "trigger-disable-bit" /\ o.arg = All -> trigger_disable_all
    [] o.name = "trigger-enable-asic" /\ o.arg = All -> trigger_enable_all_local_asics
    [] o.name = "trigger-disable-asic" /\ o.arg = All -> trigger_disable_all_local_asics
    [] o.name \in {"trigger-enable-bit", "trigger-enable-asic"} /\ o.arg # All ->
         trigger_enable(o.arg)
    [] o.name \in {"trigger-disable-bit", "trigger-disable-asic"} /\ o.arg # All ->
         trigger_disable(o.arg)
    [] o.name = "trigger-enable-tm-hit" -> trigger_enable(TmHit)
    [] o.name = "trigger-disable-tm-hit" -> trigger_disable(TmHit)
    [] o.name = "trigger-enable-tm-ack" -> trigger_enable(TmAck)
    [] o.name = "trigger-disable-tm-ack" -> trigger_disable(TmAck)
    [] o.name = "trigger-enable-forced" -> trigger_enable(Forced)
    [] o.name = "trigger-disable-forced" -> trigger_disable(Forced)
    [] o.name = "get-trigger-ena-mask" -> get_trigger_ena_mask
    [] o.name = "set-ack-timeout" -> set_trigger_ack_timeout(o.arg)
    [] o.name = "get-ack-timeout" -> get_trigger_ack_timeout
    [] o.name = "get-event-count" -> get_event_count
    [] o.name = "reset-event-count" -> reset_event_count
    [] o.name = "force-fsm-idle" -> force_fsm_to_idle

\* syncctrl's parse_args.
SyncUsable(o) ==
  \/ o.name \in {"counter-reset", "get-counter", "force-trigger", "get-global-hit-enable",
                 "global-hit-enable", "global-hit-disable", "asic-hit-disable-mask"}
  \/ o.name \in {"asic-hit-disable", "asic-hit-enable"} /\ o.arg \in Asics

SyncCall(o) ==
  CASE o.name = "counter-reset" -> counter_reset
    [] o.name = "get-counter" -> get_counter
    [] o.name = "force-trigger" -> force_trigger
    [] o.name = "get-global-hit-enable" -> is_global_hit_enabled
    [] o.name = "global-hit-enable" -> global_hit_enable
    [] o.name = "global-hit-disable" -> global_hit_disable
    [] o.name = "asic-hit-disable" -> asic_hit_disable(o.arg)
    [] o.name = "asic-hit-enable" -> asic_hit_enable(o.arg)
    [] o.name = "asic-hit-disable-mask" -> get_asic_hit_disable_mask

\* dacctrl's parse_args; the argument of --set-counts is the DAC and counts.
DacUsable(o) ==
  \/ o.name \in {"get-delay", "get-input"}
  \/ o.name = "set-delay" /\ o.arg \in 0 .. MaxDelay
  \/ o.name = "set-counts" /\ o.arg \in Dacs \X (0 .. MaxInput)

DacCall(o) ==
  CASE o.name = "set-delay" -> set_delay(o.arg)
    [] o.name = "get-delay" -> get_delay
    [] o.name = "set-counts" -> set_counts(o.arg[1], o.arg[2])
    [] o.name = "get-input" -> get_input

-----------------------------------------------------------------------------
(* calctrl has a CalCtrl of its own, with the defaults; it first reads all *)
(* its options, and then writes all settings if one was given.             *)

Fire == {"start", "stop", "n-pulses"}

\* The setting an option changes, and its value.
CalSetting(o) ==
  CASE o.name = "cal-pulse-disable" -> <<"pulse-ena", 0>>
    [] o.name = "vata-trigger-enable" -> <<"trigger-ena", 1>>
    [] o.name = "fast-or-disable" -> <<"fast-or-disable", 1>>
    [] o.name = "pulse-width" -> <<"pulse-width", o.arg>>
    [] o.name = "trigger-delay" -> <<"trigger-delay", o.arg>>
    [] o.name = "repeat-delay" -> <<"repeat-delay", o.arg>>

CalUsable(o) ==
  \/ o.name \in {"cal-pulse-disable", "vata-trigger-enable", "fast-or-disable",
                 "start", "stop"}
  \/ o.name \in {"pulse-width", "trigger-delay", "repeat-delay", "n-pulses"} /\ o.arg \in Nat

\* The options are used only if all can be and at most one of them fires.
CalAccepted(opts) ==
  /\ \A i \in DOMAIN opts : CalUsable(opts[i])
  /\ \A i, j \in DOMAIN opts : opts[i].name \in Fire /\ opts[j].name \in Fire => i = j

\* The settings the other options make of the defaults, one after another.
CalSettings(opts) ==
  LET after[i \in 0 .. Len(opts)] ==
        IF i = 0 THEN Defaults
        ELSE IF opts[i].name \in Fire THEN after[i - 1]
        ELSE [after[i - 1] EXCEPT ![CalSetting(opts[i])[1]] = CalSetting(opts[i])[2]]
  IN after[Len(opts)]

CalFire(o, f) ==
  CASE o.name = "start" -> start_inf_pulses(f)
    [] o.name = "stop" -> stop_inf_pulses
    [] o.name = "n-pulses" -> IF o.arg > 0 THEN n_pulses(f, o.arg) ELSE <<>>

CalRun(opts) ==
  LET f == CalSettings(opts)
      fires == {i \in DOMAIN opts : opts[i].name \in Fire}
  IN IF CalAccepted(opts)
     THEN (IF fires = DOMAIN opts THEN <<>> ELSE write_settings(f))
          \o (IF fires = {} THEN <<>> ELSE CalFire(opts[CHOOSE i \in fires : TRUE], f))
     ELSE <<>>

-----------------------------------------------------------------------------
(* A run of a tool.                                                        *)

OptionUsable(tool, o) ==
  CASE tool = "vatactrl" -> VataUsable(o)
    [] tool = "syncctrl" -> SyncUsable(o)
    [] tool = "dacctrl" -> DacUsable(o)

OptionCall(tool, o) ==
  CASE tool = "vatactrl" -> VataCall(o)
    [] tool = "syncctrl" -> SyncCall(o)
    [] tool = "dacctrl" -> DacCall(o)

\* A run: of one of the four tools, with a sequence of options.
IsRun(run) ==
  /\ run.tool \in {"vatactrl", "syncctrl", "calctrl", "dacctrl"}
  /\ Len(run.opts) \in Nat /\ DOMAIN run.opts = 1 .. Len(run.opts)

\* The options before the first that cannot be used.
UsablePrefix(run) ==
  LET bad == SelectInSeq(run.opts, LAMBDA o : ~OptionUsable(run.tool, o))
  IN IF bad = 0 THEN run.opts ELSE SubSeq(run.opts, 1, bad - 1)

OneByOne(run) ==
  LET done == UsablePrefix(run) IN FlattenSeq([i \in DOMAIN done |-> OptionCall(run.tool, done[i])])

\* The accesses of a run: a record of the tool and its options.
ToolSteps(run) == IF run.tool = "calctrl" THEN CalRun(run.opts) ELSE OneByOne(run)
=============================================================================
