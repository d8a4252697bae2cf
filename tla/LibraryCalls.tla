---------------------------- MODULE LibraryCalls ----------------------------
(***************************************************************************)
(* The control library (libsictrl): what each call of VataCtrl, SyncCtrl,  *)
(* CalCtrl and DacCtrl does to the registers, as the sequence of single    *)
(* accesses it makes.  A call is not atomic: the request server and the    *)
(* command-line tools make theirs on the same registers, without a lock,   *)
(* and a step of one may come between any two of the other.                *)
(*                                                                         *)
(* There is one VATA: each has a register file of its own, and a request   *)
(* or a tool addresses one.  A mask is the set of its one bits.  Mapping   *)
(* /dev/mem on first use is left out.                                      *)
(***************************************************************************)
EXTENDS Naturals, Sequences, SequencesExt

CONSTANTS
  NVata,     \* N_VATA, 12 on the flight layer: bits 0 .. NVata-1 of the mask
  TmHit,     \* TRIGGER_ENA_BIT_TM_HIT, 12
  TmAck,     \* TRIGGER_ENA_BIT_TM_ACK, 13
  Forced,    \* TRIGGER_ENA_BIT_FORCE_TRIGGER, 14
  MaskLen,   \* TRIGGER_ENA_MASK_LEN, 15
  Width,     \* bits of a register, 32
  Half,      \* 2^32: a 64-bit counter is read as two registers
  MaxInput,  \* dac_values::max_input, 4095
  MaxDelay,  \* dac_values::max_delay, 65535
  PulseWidth, RepeatDelay, \* cal_defaults
  All,       \* the argument "all"
  Junk,      \* an argument that is no number
  Absent     \* no argument

ASSUME LibraryAssumption ==
  /\ {NVata, TmHit, TmAck, Forced, MaskLen, Width, Half} \subseteq Nat \ {0}
  /\ NVata <= TmHit /\ TmHit < TmAck /\ TmAck < Forced
  /\ Forced < MaskLen /\ MaskLen <= Width
  /\ {MaxInput, MaxDelay, PulseWidth, RepeatDelay} \subseteq Nat
  /\ {All, Junk, Absent} \cap Nat = {}
  /\ All # Junk /\ All # Absent /\ Junk # Absent

Asics == 0 .. NVata - 1
Bits == 0 .. Width - 1
MaskBits == 0 .. MaskLen - 1

\* The four DACs, by silayer side and choice.
Dacs == {"A cal", "A vth", "B cal", "B vth"}

\* CalCtrl's settings, named as the requests that change them.
Flags == {"pulse-ena", "trigger-ena", "fast-or-disable"}
Settings == Flags \cup {"pulse-width", "trigger-delay", "repeat-delay"}

\* What the constructor of CalCtrl gives them; it writes no register.
Defaults ==
  [s \in Settings |->
     CASE s = "pulse-ena" -> 1
       [] s = "pulse-width" -> PulseWidth
       [] s = "repeat-delay" -> RepeatDelay
       [] OTHER -> 0]

-----------------------------------------------------------------------------
(* Accesses.                                                               *)

Put(r, x) == [do |-> "put", reg |-> r, val |-> x]
Load(r) == [do |-> "load", reg |-> r]
Store(r, on, off) == [do |-> "store", reg |-> r, on |-> on, off |-> off]
Fetch(r) == [do |-> "fetch", reg |-> r, part |-> "all"]
FetchPart(r, h) == [do |-> "fetch", reg |-> r, part |-> h]

\* reg |= on, reg &= ~off: a read and a write.
Change(r, on, off) == <<Load(r), Store(r, on, off)>>

\* Mutant: the complement is missing, reg &= bit.
ClearOthers(r, b) == <<Load(r), Store(r, {}, Bits \ {b})>>

-----------------------------------------------------------------------------
(* VataCtrl.                                                               *)

set_hold_delay(x) == <<Put("hold", x)>>
get_hold_delay == <<Fetch("hold")>>

set_trigger_ack_timeout(x) == <<Put("ack-timeout", x)>>
get_trigger_ack_timeout == <<Fetch("ack-timeout")>>

trigger_enable(b) == Change("mask", {b}, {})

\* Mutant: see ClearOthers.
trigger_disable_others(b) == ClearOthers("mask", b)

\* It lacks trigger_enable's test for negative bits (vata_ctrl.cpp:198), which
\* vatactrl can pass it: a shift by a negative number, undefined, and success.
\* Bits are natural numbers here.
trigger_disable(b) == Change("mask", {}, {b})

\* All bits, of which only the first MaskLen can be disabled one by one.
trigger_enable_all == <<Put("mask", Bits)>>
trigger_disable_all == <<Put("mask", {})>>

\* Mutant: the loop ends one asic early.
trigger_enable_first_asics == FlattenSeq([i \in 1 .. NVata - 1 |-> trigger_enable(i - 1)])

\* trigger_ena_local_asics is the identity: one change of the mask for each.
trigger_enable_all_local_asics == FlattenSeq([i \in 1 .. NVata |-> trigger_enable(i - 1)])
trigger_disable_all_local_asics == FlattenSeq([i \in 1 .. NVata |-> trigger_disable(i - 1)])

get_trigger_ena_mask == <<Fetch("mask")>>

\* Mutant: the live counter is looked for one register early.
get_counters_early ==
  <<FetchPart("running", "low"), FetchPart("live", "high"),
    FetchPart("live", "low"), FetchPart("running", "high")>>

\* memcpy of the two counters, each a low and a high register.
get_counters ==
  <<FetchPart("running", "low"), FetchPart("running", "high"),
    FetchPart("live", "low"), FetchPart("live", "high")>>

get_event_count == <<Fetch("event-count")>>
reset_event_count == <<Put("vata-cmd", "rst-ev-count")>>
force_fsm_to_idle == <<Put("vata-cmd", "force-fsm-idle")>>

\* reset_counters only warns.
reset_counters == <<>>

-----------------------------------------------------------------------------
(* SyncCtrl.                                                               *)

counter_reset == <<Put("sync-cmd", "counter-rst")>>
force_trigger == <<Put("sync-cmd", "force-trigger")>>
get_counter == <<FetchPart("running", "low"), FetchPart("running", "high")>>

asic_hit_disable(a) == Change("disable-hits", {a}, {})
asic_hit_enable(a) == Change("disable-hits", {}, {a})
get_asic_hit_disable_mask == <<Fetch("disable-hits")>>

global_hit_enable == <<Put("global-enable", 1)>>
global_hit_disable == <<Put("global-enable", 0)>>
is_global_hit_enabled == <<Fetch("global-enable")>>

-----------------------------------------------------------------------------
(* CalCtrl, whose settings f are fields of the object.                     *)

write_settings(f) ==
  <<Put("cal-enable", [s \in Flags |-> f[s]]), Put("pulse-width", f["pulse-width"]),
    Put("trigger-delay", f["trigger-delay"]), Put("repeat-delay", f["repeat-delay"])>>

n_pulses(f, n) ==
  write_settings(f) \o <<Put("n-pulses", n), Put("cal-init", 1), Put("cal-init", 0)>>

start_inf_pulses(f) == write_settings(f) \o <<Put("n-pulses", 0), Put("cal-init", 1)>>
stop_inf_pulses == <<Put("cal-init", 0)>>

-----------------------------------------------------------------------------
(* DacCtrl.                                                                *)

set_delay(x) == <<Put("dac-delay", x)>>
get_delay == <<Fetch("dac-delay")>>

\* Mutant: the pulse comes before the input it is to send.
set_counts_early(d, x) ==
  <<Put("dac-select", d), Put("dac-write", 0), Put("dac-write", 1),
    Put("dac-input", x), Put("dac-write", 0)>>

set_counts(d, x) ==
  <<Put("dac-select", d), Put("dac-input", x),
    Put("dac-write", 0), Put("dac-write", 1), Put("dac-write", 0)>>

get_input == <<Fetch("dac-input")>>

-----------------------------------------------------------------------------
(* The registers.                                                          *)

\* At power-up.  dac-select holds one of the four bits once set_counts has
\* been called; dacs is what the converters hold.
Registers ==
  {"mask", "hold", "ack-timeout", "event-count", "live", "running", "disable-hits",
   "global-enable", "cal-enable", "pulse-width", "trigger-delay", "repeat-delay", "n-pulses",
   "cal-init", "dac-delay", "dac-select", "dac-input", "dac-write", "dacs"}

PowerUp ==
  [r \in Registers |->
     CASE r \in {"mask", "disable-hits"} -> {}
       [] r = "cal-enable" -> [s \in Flags |-> 0]
       [] r = "dac-select" -> "A cal"
       [] r = "dacs" -> [d \in Dacs |-> 0]
       [] OTHER -> 0]

\* Registers the hardware changes.
Hardware == {"running", "live", "event-count"}

\* The register file after x was written to r: a rising edge of dac-write
\* sends the input to the selected converter, a command does its work.
Written(regs, r, x) ==
  CASE r = "dac-write" /\ x = 1 /\ regs["dac-write"] = 0 ->
         [regs EXCEPT !["dac-write"] = 1, !["dacs"][regs["dac-select"]] = regs["dac-input"]]
    [] r = "vata-cmd" -> IF x = "rst-ev-count" THEN [regs EXCEPT !["event-count"] = 0] ELSE regs
    [] r = "sync-cmd" ->
         IF x = "counter-rst" THEN [regs EXCEPT !["running"] = 0, !["live"] = 0] ELSE regs
    [] OTHER -> [regs EXCEPT ![r] = x]
=============================================================================
