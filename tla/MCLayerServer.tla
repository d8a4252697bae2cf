--------------------------- MODULE MCLayerServer ----------------------------
(***************************************************************************)
(* A small layer: two VATAs, five bits that can be enabled one by one and  *)
(* one that only "all" enables, counters of two halves of one bit.         *)
(*                                                                         *)
(* Each session repeats its requests and runs for ever, in any order.      *)
(***************************************************************************)
EXTENDS LayerServer

CONSTANTS c1, c2

Q(g, c, x) == [group |-> g, cmd |-> c, arg |-> x]
O(n, x) == [name |-> n, arg |-> x]
Run(t, opts) == [tool |-> t, opts |-> opts]
Session(requests, runs) ==
  [clients |-> {c1}, requests |-> requests, runs |-> runs, serial |-> FALSE, clock |-> 0,
   events |-> 0, overlap |-> 2]

\* Two clients, one of which may come between the other's set-config-binary
\* and its configuration data.
Dialogue ==
  [Session({EmitStart, EmitStop, Halt, SetConfigBinary, Q("vata", "get-hold", Absent),
            Q("vata", "trigger-disable-asic", 2)}, {})
     EXCEPT !.clients = {c1, c2}]

\* All other requests that write no register, and those that are refused.
Queries ==
  Session({Q("emit", "status", Absent), Q("emit", Absent, Absent), Q("get-n-vata", Absent, Absent),
           Q("unknown", Absent, Absent), Q("vata", "set-config", "done"),
           Q("vata", "get-config", Junk), Q("vata", "get-config-binary", Absent),
           Q("vata", "get-n-fifo", Absent), Q("vata", "clear-fifo", Absent),
           Q("vata", "reset-counters", Absent), Q("vata", "fsm-idle", Absent),
           Q("vata", "trigger-enable-asic", Junk), Q("vata", "trigger-enable-bit", Absent)},
          {Run("vatactrl", <<O("get-hold", Absent), O("reset-counters", Absent),
                             O("force-fsm-idle", Absent), O("get-ack-timeout", Absent)>>)})

\* The trigger mask by bits.
Masks ==
  [Session({Q("vata", "trigger-enable-bit", 1), Q("vata", "trigger-disable-bit", 3),
            Q("vata", "trigger-disable-bit", All), Q("vata", "trigger-disable-bit", 5),
            Q("vata", "get-trigger-ena-mask", Absent)},
           {Run("vatactrl", <<O("trigger-enable-bit", 3), O("trigger-disable-bit", 1)>>),
            Run("vatactrl", <<O("trigger-enable-bit", All), O("get-trigger-ena-mask", Absent),
                              O("trigger-disable-bit", 5), O("trigger-disable-bit", 0)>>)})
     EXCEPT !.overlap = 3]

\* By chips, for which all is one change after another.
Chips ==
  Session({Q("vata", "trigger-enable-asic", All), Q("vata", "trigger-disable-asic", All),
           Q("vata", "trigger-enable-asic", 1), Q("vata", "trigger-disable-asic", 0),
           Q("vata", "trigger-enable-asic", 2)},
          {Run("vatactrl", <<O("trigger-disable-asic", 1), O("trigger-enable-asic", All)>>),
           Run("vatactrl", <<O("trigger-disable-asic", All), O("trigger-enable-asic", 0)>>)})

\* By sources, one command after another.
TheSources ==
  [Session({Q("vata", s, Absent) : s \in Sources},
           {Run("vatactrl", <<O("trigger-enable-tm-hit", Absent), O("trigger-disable-tm-ack", Absent),
                              O("trigger-enable-forced", Absent)>>),
            Run("vatactrl", <<O("trigger-disable-tm-hit", Absent), O("trigger-enable-tm-ack", Absent),
                              O("trigger-disable-forced", Absent)>>)})
     EXCEPT !.serial = TRUE]

\* Single values, one command after another.
Values ==
  [Session({Q("vata", "set-hold", 1), Q("vata", "set-hold", Junk),
            Q("sync", "asic-hit-disable", 0), Q("sync", "asic-hit-enable", 0),
            Q("sync", "asic-hit-enable", 2)},
           {Run("vatactrl", <<O("set-hold", 2), O("set-ack-timeout", 1)>>),
            Run("vatactrl", <<O("set-ack-timeout", 0), O("set-hold", Absent), O("set-hold", 0)>>),
            Run("syncctrl", <<O("asic-hit-disable", 1), O("asic-hit-disable", 2)>>)})
     EXCEPT !.serial = TRUE]

\* The calibration settings, with calctrl.
Settle ==
  [Session({Q("cal", "pulse-ena", 0), Q("cal", "trigger-ena", 2), Q("cal", "pulse-width", 2),
            Q("cal", Absent, Absent)},
           {Run("calctrl", <<O("vata-trigger-enable", Absent), O("pulse-width", 0)>>),
            Run("calctrl", <<O("stop", Absent), O("start", Absent)>>)})
     EXCEPT !.overlap = 3]

\* Two of the delays, one command after another.
Delays ==
  [Session({Q("cal", "trigger-delay", 0), Q("cal", "trigger-delay", Junk),
            Q("cal", "repeat-delay", 0)},
           {Run("calctrl", <<O("trigger-delay", 2), O("fast-or-disable", Absent),
                             O("repeat-delay", 1)>>)})
     EXCEPT !.serial = TRUE]

\* The calibration pulses.
Pulses ==
  Session({Q("cal", "n-pulses", 2), Q("cal", "n-pulses", 0), Q("cal", "start-inf", Absent),
           Q("cal", "stop-inf", Absent), Q("cal", "fast-or-disable", 1)},
          {Run("calctrl", <<O("n-pulses", 1)>>), Run("calctrl", <<O("start", Absent)>>),
           Run("calctrl", <<O("repeat-delay", 0), O("stop", Absent)>>),
           Run("calctrl", <<O("cal-pulse-disable", Absent), O("n-pulses", 0)>>)})

\* The converters.
Converters ==
  Session({Q("dac", "set-counts", <<"A cal", 1>>), Q("dac", "set-counts", <<"B vth", 2>>),
           Q("dac", "set-delay", 1), Q("dac", "get-delay", Absent), Q("dac", "get-input", Absent)},
          {Run("dacctrl", <<O("set-delay", 0), O("get-delay", Absent),
                            O("set-counts", <<"B vth", 1>>), O("get-input", Absent)>>),
           Run("dacctrl", <<O("set-delay", 2), O("set-counts", <<"A cal", 0>>)>>)})

\* Pulses and counts, while the emitter may end the process.
Shortened ==
  Session({EmitStart, Q("cal", "n-pulses", 2), Q("dac", "set-counts", <<"A cal", 1>>)},
          {Run("calctrl", <<O("pulse-width", 2)>>), Run("dacctrl", <<O("set-delay", 1)>>)})

\* The hit enables.
Hits ==
  Session({Q("sync", "asic-hit-disable", 0), Q("sync", "asic-hit-enable", 1),
           Q("sync", "global-hit-enable", Absent), Q("sync", "global-hit-disable", Absent),
           Q("sync", "get-global-hit-ena", Absent),
           Q("sync", "get-asic-hit-disable-mask", Absent), Q("sync", "force-trigger", Absent)},
          {Run("syncctrl", <<O("asic-hit-disable", 1), O("global-hit-enable", Absent),
                             O("get-global-hit-enable", Absent), O("force-trigger", Absent)>>),
           Run("syncctrl", <<O("asic-hit-enable", 0), O("global-hit-disable", Absent),
                             O("asic-hit-disable-mask", Absent)>>)})

\* The counters, while the clock runs.
Counters ==
  [Session({Q("vata", "get-counters", Absent)}, {Run("syncctrl", <<O("counter-reset", Absent)>>)})
     EXCEPT !.clock = 2]
SyncCounter ==
  [Session({Q("sync", "get-counter", Absent), Q("sync", "counter-reset", Absent),
            Q("vata", "get-event-count", Absent), Q("vata", "reset-event-count", Absent)},
           {Run("vatactrl", <<O("get-event-count", Absent), O("reset-event-count", Absent)>>)})
     EXCEPT !.clock = 3, !.events = 1]
ToolCounters ==
  [Session({Q("sync", "counter-reset", Absent)},
           {Run("vatactrl", <<O("get-counters", Absent)>>),
            Run("syncctrl", <<O("get-counter", Absent), O("get-counter", Absent)>>)})
     EXCEPT !.clock = 2]

MCSessions == {Dialogue, Queries, Masks, Chips, TheSources, Values, Settle, Delays,
               Pulses, Converters, Shortened, Hits, Counters, SyncCounter, ToolCounters}
=============================================================================
