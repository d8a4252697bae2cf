------------------------------ MODULE EventId ------------------------------
(***************************************************************************)
(* The distribution of event identifiers, one step per 100 MHz clock.      *)
(*                                                                         *)
(* Every chip interface is busy outside its IDLE state.  The busy signals  *)
(* are or-ed into FEE_busy, and its falling edge gives a FEE_ready pulse   *)
(* (sync_vata_distn).  The rising edge of FEE_busy makes event_id_gen send *)
(* its identifier bit by bit to the chips, whose event_id_s2p shift it in. *)
(* A chip reads its shift register into the first word of the packet and   *)
(* clears it with the second.                                              *)
(*                                                                         *)
(* Chips start events and other operations at any clock when idle, which   *)
(* covers every trigger source: hits, forced triggers, acknowledges.       *)
(***************************************************************************)
EXTENDS Integers, FiniteSets

CONSTANTS
  Chips,        \* the VATAs (12 on the dbe boards)
  IdBits,       \* width of an identifier (32)
  Ratio,        \* EVENT_ID_CLK_RATIO, clocks per half period of the latch (10)
  ReadyCycles,  \* N_CYCLES of FEE_ready (5)
  MinBusy,      \* shortest stay outside IDLE: an abort's mode change (20)
  MinAcq,       \* fewest clocks from the trigger to RO_WFIFO_00
  MinTail,      \* fewest clocks from RO_WFIFO_01 to IDLE (37)
  NewIds        \* identifiers software may set

\* A chip comes to its header word only after the transmission, which takes 640
\* clocks from the start of FEE_busy, or from a FEE_ready that is still high then.
\* A full readout of 379 bits of 66 clocks each lasts far longer.  The interface
\* does not wait for the identifier, though, and o5 may end a readout at any bit
\* (iface_fsm:701-711): after one or two bits, and a conversion that ends at once,
\* a chip is at its header some 560 clocks after its trigger.  Such readouts are
\* excluded here.
ASSUME SendAssumption ==
  /\ IdBits \in Nat /\ Ratio \in Nat /\ ReadyCycles \in Nat
  /\ MinBusy \in Nat /\ MinAcq \in Nat /\ MinTail \in Nat
  /\ IdBits > 0 /\ Ratio > 1 /\ ReadyCycles > 0
  /\ MinTail > 3 /\ MinBusy > 3
  /\ MinAcq >= 2 * (Ratio * IdBits) + ReadyCycles + 3
  /\ NewIds \subseteq [1 .. IdBits -> {0, 1}]

VARIABLES
  chip,      \* chip -> what its interface does, and for how long
  disabled,  \* disable_hits of sync_vata_distn
  ready,     \* stay_high_n_cycles behind FEE_ready
  goFsm,     \* gen_event_id_go: state, last_FEE_busy, event_id_go
  p2s,       \* event_id_p2s: state, clk_count, id_bit_count, data
  event_id,  \* the identifier to send next
  s2p,       \* chip -> event_id_s2p: data and its three resynchronised flags
  seen       \* history: the identifiers of this busy period's packets
vars == <<chip, disabled, ready, goFsm, p2s, event_id, s2p, seen>>

\* Identifiers as their bits, the highest first; one shifted by a bit to the
\* left; the number after one, where a bit changes when all below it are set.
Ids == [1 .. IdBits -> {0, 1}]
Zero == [k \in 1 .. IdBits |-> 0]
ShiftIn(id, bit) == [k \in 1 .. IdBits |-> IF k < IdBits THEN id[k + 1] ELSE bit]
Following(id) ==
  [k \in 1 .. IdBits |-> IF \A l \in k + 1 .. IdBits : id[l] = 1 THEN 1 - id[k] ELSE id[k]]

At(st) == [st |-> st, age |-> 0]
Cap(n, top) == IF n < top THEN n + 1 ELSE top

\* One bit more in a three-bit resynchroniser, oldest last.
Push(flags, bit) == <<bit, flags[1], flags[2]>>
Edge(flags) == flags[2] /\ ~flags[3]
Quiet == <<FALSE, FALSE, FALSE>>

------------------------------------------------------------------------------
\* sync_vata_distn

\* FEE_busy: some chip whose hits are not disabled is outside IDLE.
FEEBusy == \E c \in Chips \ disabled : chip[c].st # "idle"
FEEReady == ready.high

\* Mutant of Ready: the pulse starts only if FEE_busy fell after the last one.
ReadyDeaf ==
  ready' = [last |-> ~FEEBusy,
            edge |-> ~ready.last /\ ~FEEBusy,
            high |-> IF ready.high THEN ready.count < ReadyCycles - 1
                                   ELSE ready.edge /\ ~ready.last,
            count |-> IF ready.high THEN Cap(ready.count, ReadyCycles) ELSE 0]

\* FEE_ready stays high for ReadyCycles after FEE_busy fell; an edge that comes
\* while it is high is not looked at.
Ready ==
  ready' = [last |-> ~FEEBusy,
            edge |-> ~ready.last /\ ~FEEBusy,
            high |-> IF ready.high THEN ready.count < ReadyCycles - 1
                                   ELSE ready.edge,
            count |-> IF ready.high THEN Cap(ready.count, ReadyCycles) ELSE 0]

------------------------------------------------------------------------------
\* event_id_gen

\* gen_event_id_go: a rising FEE_busy gives one clock of event_id_go, and the
\* next one is looked for only after FEE_ready.
GenGo ==
  goFsm' = IF goFsm.wait
           THEN [wait |-> ~FEEReady, last |-> FALSE, go |-> FALSE]
           ELSE LET rise == ~goFsm.last /\ FEEBusy
                IN  [wait |-> rise, last |-> FEEBusy, go |-> rise]

StartIdOut == p2s.st = "IDLE" /\ goFsm.go
HalfOver == p2s.clk >= Ratio - 1
BitOver == p2s.st = "LATCH_LO" /\ HalfOver

\* Mutant: one bit more is sent.
IncEventIdLate == BitOver /\ p2s.bit >= IdBits

\* The last bit has been sent, and the identifier is used up.
IncEventId == BitOver /\ p2s.bit >= IdBits - 1

\* event_id_p2s: the latch is high, then low, for Ratio clocks per bit.
P2S ==
  p2s' =
    IF p2s.st = "IDLE"
    THEN IF StartIdOut
         THEN [st |-> "LATCH_HI", clk |-> 0, bit |-> 0, data |-> event_id]
         ELSE p2s
    ELSE IF ~HalfOver THEN [p2s EXCEPT !.clk = @ + 1]
    ELSE IF p2s.st = "LATCH_HI" THEN [p2s EXCEPT !.st = "LATCH_LO", !.clk = 0]
    ELSE IF IncEventId THEN [p2s EXCEPT !.st = "IDLE", !.clk = 0]
    ELSE [p2s EXCEPT !.st = "LATCH_HI", !.clk = 0, !.bit = @ + 1,
                     !.data = ShiftIn(@, 0)]

EventIdLatch == p2s.st = "LATCH_HI"
EventIdData == IF p2s.st = "IDLE" THEN 0 ELSE p2s.data[1]

\* Mutant of EventIdReg: the number is never used up.
EventIdRegSame(update, new) == event_id' = IF update THEN new ELSE event_id

\* The identifier register: written by software (update_event_id), else one
\* more when the last bit has been sent.
EventIdReg(update, new) ==
  event_id' = IF update THEN new
              ELSE IF IncEventId THEN Following(event_id)
              ELSE event_id

------------------------------------------------------------------------------
\* The chip interface: event_id_s2p and what the state machine does to it

EventIdClr(c) == chip[c].st = "wfifo01"

\* The clear is resynchronised, then resets the data and the latch's flags.
Shift(c) ==
  IF s2p[c].clear \/ Edge(s2p[c].clr) THEN [s2p[c] EXCEPT !.data = Zero, !.latch = Quiet]
  ELSE [s2p[c] EXCEPT
          !.latch = Push(@, EventIdLatch),
          !.data = IF Edge(s2p[c].latch)
                   THEN ShiftIn(@, EventIdData) ELSE @]

S2P ==
  s2p' = [c \in Chips |-> [Shift(c) EXCEPT
                             !.clear = Edge(s2p[c].clr),
                             !.clr = Push(@, EventIdClr(c))]]

\* From IDLE a chip starts an acquisition or another operation.  Both last at
\* least so long; an acquisition can be given up at any time, which takes the
\* mode changes of the abort path.
Moves(c) ==
  LET now == chip[c]
      older(top) == [now EXCEPT !.age = Cap(@, top)]
  IN  CASE now.st = "idle" -> {now, At("acq"), At("op")}
        [] now.st = "acq" ->
             {older(MinAcq), At("op")}
               \cup IF now.age = MinAcq THEN {At("wfifo00")} ELSE {}
        [] now.st = "wfifo00" -> {At("wfifo01"), At("op")}
        [] now.st = "wfifo01" -> {At("tail"), At("op")}
        [] now.st = "tail" ->
             {older(MinTail), At("op")} \cup IF now.age = MinTail THEN {At("idle")} ELSE {}
        [] now.st = "op" ->
             {older(MinBusy)} \cup IF now.age = MinBusy THEN {At("idle")} ELSE {}

ChipSteps == chip' \in {f \in [Chips -> UNION {Moves(c) : c \in Chips}] :
                          \A c \in Chips : f[c] \in Moves(c)}

------------------------------------------------------------------------------
\* History: the identifiers that went into packets.  A busy period starts when
\* FEE_busy rises.  Only chips that FEE_busy listens to count, and an identifier
\* is forgotten when the counter has come round to it again.

Writers == {c \in Chips \ disabled : chip[c].st = "wfifo00"}
Fresh == {c \in Writers : c \notin seen.wrote}

Nothing == [busy |-> FALSE, now |-> {}, before |-> {}, wrote |-> {}, cut |-> {},
            repeats |-> {}, renumbered |-> FALSE, shaken |-> FALSE]

\* FEE_busy rises as it does when nobody touches disable_hits: all chips it
\* listens to were idle, and no identifier is being sent or held back.
Settled ==
  /\ p2s.st = "IDLE" /\ ~goFsm.wait
  /\ \A c \in Chips \ disabled :
       chip[c] \in {At("idle"), At("acq"), At("op")} /\ s2p[c].clr = Quiet

\* Enabling or disabling a chip makes FEE_busy rise or fall in the middle of
\* an event: nothing is recorded until a period begins settled.
Shaken ==
  \/ disabled' # disabled
  \/ seen.shaken /\ (FEEBusy /\ ~seen.busy => ~Settled)

Note(update) ==
  LET first == {s2p[c].data : c \in Fresh}
      again == {s2p[c].data : c \in (Writers \ Fresh) \ seen.cut}
      past(ids) == IF update \/ seen.renumbered THEN {} ELSE ids
  IN  seen' =
        IF Shaken THEN [Nothing EXCEPT !.busy = FEEBusy, !.shaken = TRUE]
        ELSE IF FEEBusy /\ ~seen.busy /\ (seen.now # {} \/ seen.shaken)
        THEN [Nothing EXCEPT !.busy = TRUE, !.before = past(seen.now), !.renumbered = update]
        ELSE [seen EXCEPT
                !.busy = FEEBusy,
                !.now = @ \cup first,
                !.repeats = @ \cup again,
                !.wrote = @ \cup Writers,
                !.cut = @ \cup {c \in Writers : chip'[c].st = "op"},
                !.before = IF update THEN {}
                           ELSE IF IncEventId
                           THEN @ \ {Following(event_id)} ELSE @,
                !.renumbered = @ \/ update]

------------------------------------------------------------------------------

Init ==
  /\ chip = [c \in Chips |-> At("idle")]
  /\ disabled = {}
  /\ ready = [last |-> FALSE, edge |-> FALSE, high |-> FALSE, count |-> 0]
  /\ goFsm = [wait |-> FALSE, last |-> FALSE, go |-> FALSE]
  /\ p2s = [st |-> "IDLE", clk |-> 0, bit |-> 0, data |-> Zero]
  /\ event_id = Zero
  /\ s2p = [c \in Chips |-> [data |-> Zero, latch |-> Quiet,
                             clr |-> Quiet, clear |-> FALSE]]
  /\ seen = Nothing

\* What software may write in a clock: the identifier register, or one chip's
\* bit of disable_hits; and (bound) one change before the next event: none
\* while an earlier one of disable_hits still matters or the identifier written
\* was not yet asked for.
Writes ==
  [off : {disabled}, update : {FALSE}, new : {Zero}] \cup
  IF seen.shaken \/ seen.renumbered THEN {}
  ELSE [off : {disabled}, update : {TRUE}, new : NewIds] \cup
       [off : {disabled \cup {c} : c \in Chips} \cup {disabled \ {c} : c \in Chips},
        update : {FALSE}, new : {Zero}]

\* One clock.
Next ==
  /\ Ready /\ GenGo /\ P2S /\ S2P /\ ChipSteps
  /\ \E w \in Writes :
       /\ disabled' = w.off
       /\ EventIdReg(w.update, w.new)
       /\ Note(w.update)

Spec == Init /\ [][Next]_vars

------------------------------------------------------------------------------
\* Every register, flag and history variable keeps its type.
Flags == BOOLEAN \X BOOLEAN \X BOOLEAN
History == [busy : BOOLEAN, now : SUBSET Ids, before : SUBSET Ids,
            wrote : SUBSET Chips, cut : SUBSET Chips, repeats : SUBSET Ids,
            renumbered : BOOLEAN, shaken : BOOLEAN]
TypeOK ==
  /\ chip \in [Chips -> [st : {"idle", "acq", "wfifo00", "wfifo01", "tail", "op"},
                        age : Nat]]
  /\ disabled \subseteq Chips
  /\ ready \in [last : BOOLEAN, edge : BOOLEAN, high : BOOLEAN, count : 0 .. ReadyCycles]
  /\ goFsm \in [wait : BOOLEAN, last : BOOLEAN, go : BOOLEAN]
  /\ p2s \in [st : {"IDLE", "LATCH_HI", "LATCH_LO"}, clk : 0 .. Ratio - 1,
              bit : 0 .. IdBits - 1, data : Ids]
  /\ event_id \in Ids
  /\ s2p \in [Chips -> [data : Ids, latch : Flags, clr : Flags, clear : BOOLEAN]]
  /\ seen \in History

\* The first packets that the chips write in one busy period carry one and the
\* same identifier, complete: that is how the ground joins them to one event
\* (vata_460p3_iface_fsm.vhd:1003, event_id_s2p.vhd:43).  Chips that are enabled
\* or disabled in the middle of an event spoil that for as long as it lasts,
\* and from the next period that begins settled it holds again
\* (sync_vata_distn_v1_0.vhd:292).
IdsAgree == Cardinality(seen.now) <= 1

\* The packets of two successive busy periods carry different identifiers,
\* although a period that begins while an identifier is still being sent asks
\* for none, unless software rewrote the identifier (event_id_p2s.vhd:79).  A
\* chip that writes a second packet in a busy period that others keep alive
\* marks it with zero and not again with the one it already used
\* (vata_460p3_iface_fsm.vhd:1011).
IdsDiffer == seen.now \cap seen.before = {} /\ seen.repeats \subseteq {Zero}

\* When FEE_busy is low and its FEE_ready pulse is over, gen_event_id_go waits
\* for the next rise: the pulse can never be missed, not even when chips are
\* enabled or disabled while it is high (gen_event_id_go.vhd:40,
\* stay_high_n_cycles.vhd:63).
GoArmed == ~FEEBusy /\ ready.last /\ ~ready.edge /\ ~ready.high => ~goFsm.wait
==============================================================================
