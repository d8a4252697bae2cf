---------------------------- MODULE LayerContract ---------------------------
(***************************************************************************)
(* What the requests and the tools promise: the registers after a call as  *)
(* a function of the registers before it, as if nothing could come in      *)
(* between.  It names what each command is for and not how it is done.     *)
(***************************************************************************)
EXTENDS RegisterAccess

\* The bits of the trigger mask a command is about; none if it is refused.
TriggerBits(cmd, arg) ==
  CASE cmd \in {"trigger-enable-bit", "trigger-disable-bit"} ->
         IF arg = All THEN Bits ELSE {arg} \cap MaskBits
    [] cmd \in {"trigger-enable-asic", "trigger-disable-asic"} ->
         IF arg = All THEN Asics ELSE {arg} \cap Asics
    [] cmd \in {"trigger-enable-tm-hit", "trigger-disable-tm-hit"} -> {TmHit}
    [] cmd \in {"trigger-enable-tm-ack", "trigger-disable-tm-ack"} -> {TmAck}
    [] cmd \in {"trigger-enable-forced", "trigger-disable-forced"} -> {Forced}
    [] OTHER -> {}

Enabling == {"trigger-enable-bit", "trigger-enable-asic", "trigger-enable-tm-hit",
             "trigger-enable-tm-ack", "trigger-enable-forced"}

AfterVata(cmd, arg, r) ==
  CASE cmd \in Enabling -> [r EXCEPT !["mask"] = @ \cup TriggerBits(cmd, arg)]
    [] cmd = "set-hold" /\ arg \in Nat -> [r EXCEPT !["hold"] = arg]
    [] cmd = "set-ack-timeout" -> [r EXCEPT !["ack-timeout"] = arg]
    [] OTHER -> [r EXCEPT !["mask"] = @ \ TriggerBits(cmd, arg)]

AfterSync(cmd, arg, r) ==
  CASE cmd = "asic-hit-disable" -> [r EXCEPT !["disable-hits"] = @ \cup ({arg} \cap Asics)]
    [] cmd = "asic-hit-enable" -> [r EXCEPT !["disable-hits"] = @ \ ({arg} \cap Asics)]
    [] cmd = "global-hit-enable" -> [r EXCEPT !["global-enable"] = 1]
    [] cmd = "global-hit-disable" -> [r EXCEPT !["global-enable"] = 0]
    [] OTHER -> r

\* set-counts sends the input to one converter and no other.
AfterDac(cmd, arg, r) ==
  CASE cmd = "set-delay" /\ arg \in 0 .. MaxDelay -> [r EXCEPT !["dac-delay"] = arg]
    [] cmd = "set-counts" /\ arg \in Dacs \X (0 .. MaxInput) ->
         [r EXCEPT !["dacs"][arg[1]] = arg[2], !["dac-select"] = arg[1], !["dac-input"] = arg[2],
                   !["dac-write"] = 0]
    [] OTHER -> r

\* The registers hold settings f.
Holds(f, r) ==
  [r EXCEPT !["cal-enable"] = [s \in Flags |-> f[s]], !["pulse-width"] = f["pulse-width"],
            !["trigger-delay"] = f["trigger-delay"], !["repeat-delay"] = f["repeat-delay"]]

\* A setting that was refused leaves the registers as they are.
AfterCal(cmd, arg, f, r) ==
  CASE cmd = "start-inf" -> [Holds(f, r) EXCEPT !["n-pulses"] = 0, !["cal-init"] = 1]
    [] cmd = "stop-inf" -> [r EXCEPT !["cal-init"] = 0]
    [] cmd = "n-pulses" /\ arg \in Nat \ {0} ->
         [Holds(f, r) EXCEPT !["n-pulses"] = arg, !["cal-init"] = 0]
    [] cmd \in Flags /\ arg \in {0, 1} -> Holds(f, r)
    [] cmd \in Settings \ Flags /\ arg \in Nat -> Holds(f, r)
    [] OTHER -> r

AfterRequest(q, f, r) ==
  CASE q.group = "vata" /\ q.cmd # Absent -> AfterVata(q.cmd, q.arg, r)
    [] q.group = "sync" /\ q.cmd # Absent -> AfterSync(q.cmd, q.arg, r)
    [] q.group = "dac" /\ q.cmd # Absent -> AfterDac(q.cmd, q.arg, r)
    [] q.group = "cal" /\ q.cmd # Absent -> AfterCal(q.cmd, q.arg, f, r)
    [] OTHER -> r

\* A run of calctrl: the settings given, the others by default.
AfterCalRun(opts, r) ==
  LET has(n) == \E i \in DOMAIN opts : opts[i].name = n
      arg(n) == opts[CHOOSE i \in DOMAIN opts :
                       opts[i].name = n /\ \A j \in DOMAIN opts : opts[j].name = n => j <= i].arg
      num(n) == IF has(n) THEN arg(n) ELSE Defaults[n]
      given == [s \in Settings |->
                  CASE s = "pulse-ena" -> IF has("cal-pulse-disable") THEN 0 ELSE 1
                    [] s = "trigger-ena" -> IF has("vata-trigger-enable") THEN 1 ELSE 0
                    [] s = "fast-or-disable" -> IF has("fast-or-disable") THEN 1 ELSE 0
                    [] OTHER -> num(s)]
      set == \E i \in DOMAIN opts : opts[i].name \notin Fire
      done == IF set THEN Holds(given, r) ELSE r
  IN IF ~CalAccepted(opts) THEN r
     ELSE CASE has("start") -> AfterCal("start-inf", Absent, given, r)
            [] has("stop") -> AfterCal("stop-inf", Absent, given, done)
            [] has("n-pulses") /\ arg("n-pulses") > 0 ->
                 AfterCal("n-pulses", arg("n-pulses"), given, r)
            [] OTHER -> done

\* A run of another tool: its options one after the other.
AfterOption(tool, o, r) ==
  CASE tool = "vatactrl" -> AfterVata(o.name, o.arg, r)
    [] tool = "syncctrl" -> AfterSync(o.name, o.arg, r)
    [] tool = "dacctrl" -> AfterDac(o.name, o.arg, r)

Usable(tool, o) ==
  CASE tool = "vatactrl" -> VataUsable(o)
    [] tool = "syncctrl" -> SyncUsable(o)
    [] tool = "dacctrl" -> DacUsable(o)

\* The options that are done: up to the first that cannot be used.
Done(run) ==
  {i \in DOMAIN run.opts : \A j \in 1 .. i : Usable(run.tool, run.opts[j])}

AfterRun(run, r) ==
  LET after[i \in 0 .. Len(run.opts)] ==
        IF i = 0 THEN r
        ELSE IF i \in Done(run) THEN AfterOption(run.tool, run.opts[i], after[i - 1])
        ELSE after[i - 1]
  IN IF run.tool = "calctrl" THEN AfterCalRun(run.opts, r) ELSE after[Len(run.opts)]

After(op, r) == IF op.by = "server" THEN AfterRequest(op.ask, op.f, r) ELSE AfterRun(op.run, r)

\* The registers after the single calls of an operation, each from r.  An
\* interruption may leave the two that a call sets and resets as they are
\* between.
Calls(op, r) ==
  CASE op.by = "server" -> {AfterRequest(op.ask, op.f, r)}
    [] op = Interruption -> {[r EXCEPT !["cal-init"] = 1, !["dac-write"] = 1]}
    [] OTHER ->
         IF op.run.tool = "calctrl" THEN {AfterCalRun(op.run.opts, r)}
         ELSE {AfterOption(op.run.tool, op.run.opts[i], r) : i \in Done(op.run)}

\* The converters an operation asks to be set, each with its counts.
CountsOf(op) ==
  CASE op.by = "server" ->
         IF op.ask.group = "dac" /\ op.ask.cmd = "set-counts"
         THEN {op.ask.arg} \cap (Dacs \X (0 .. MaxInput)) ELSE {}
    [] op = Interruption -> {}
    [] OTHER ->
         IF op.run.tool = "dacctrl"
         THEN {op.run.opts[i].arg : i \in {j \in Done(op.run) : op.run.opts[j].name = "set-counts"}}
         ELSE {}

\* What the operations o ask for in the register of the converter and in that
\* of its input.
Wanted(o, r) ==
  {IF r = "dac-select" THEN a[1] ELSE a[2] : a \in UNION {CountsOf(op) : op \in o}}
=============================================================================
