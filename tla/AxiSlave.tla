------------------------------ MODULE AxiSlave ------------------------------
(***************************************************************************)
(* The AXI4-Lite register file of the VATA core, one step per clock, and   *)
(* control_register_triggers, which turns a write of n to register 0 into  *)
(* one clock of trigger n.  The registers, counters and triggers are how   *)
(* vata_ctrl.cpp and the state machine of VataFsm reach each other.        *)
(*                                                                         *)
(* The bus master is external.  It keeps valid and payload until they are  *)
(* taken, presents address and data in any order, takes answers when it    *)
(* likes, and may offer the next write while an answer is outstanding.     *)
(*                                                                         *)
(* Its Init, Next and Spec have names of their own, so that VataCoreProofs *)
(* can extend it beside VataFsm.                                           *)
(***************************************************************************)
EXTENDS Integers

CONSTANTS
  Control,   \* register 0
  Plain,     \* registers that read back what was written
  Hardware,  \* registers whose reads give counters or the chip's configuration
  Data,      \* 32-bit words
  NTriggers, \* how many of them are trigger numbers (N_CTRL_TRIGGERS, 6)
  None

Addrs == {Control} \cup Plain \cup Hardware
ASSUME AxiAssumption ==
  /\ Data \subseteq Nat /\ 0 \in Data
  /\ NTriggers \in Nat
  /\ None \notin Addrs \cup Data

VARIABLES
  bus,       \* what the master drives: aw, w, ar (None: not valid), bready, rready
  wr,        \* the slave's write side: awready, wready, aw_en, awaddr, bvalid
  rd,        \* the slave's read side: arready, araddr, rvalid, rdata
  reg,       \* slv_reg0 .. slv_reg63
  hw,        \* register -> what the hardware shows there
  trigger,   \* control_register_triggers: the trigger raised, last_axi_wready
  told       \* history: the master's view, see below
axiVars == <<bus, wr, rd, reg, hw, trigger, told>>

------------------------------------------------------------------------------
\* Writes

Offered == bus.aw # None /\ bus.w # None
\* slv_reg_wren
Wren == wr.wready /\ wr.awready /\ Offered
Answered == bus.bready /\ wr.bvalid

\* Mutant of Accept: aw_en is never taken back, as in the DAC's register file.
AcceptAgain == Offered /\ ~wr.awready

\* Address and data are taken together, and only after the answer to the write
\* before was taken: aw_en.
Accept == Offered /\ ~wr.awready /\ wr.aw_en

WriteHandshake ==
  wr' = [awready |-> Accept,
         wready |-> Offered /\ ~wr.wready /\ wr.aw_en,
         aw_en |-> IF Accept THEN FALSE ELSE Answered \/ wr.aw_en,
         awaddr |-> IF Accept THEN bus.aw ELSE wr.awaddr,
         bvalid |-> IF Wren /\ ~wr.bvalid THEN TRUE
                    ELSE wr.bvalid /\ ~bus.bready]

WriteReg == reg' = IF Wren THEN [reg EXCEPT ![wr.awaddr] = bus.w] ELSE reg

\* Mutant of Triggers: the trigger is what register 0 holds.
TriggersLevel ==
  trigger' = [last |-> wr.wready,
              raised |-> IF reg[Control] < NTriggers THEN reg[Control] ELSE None]

\* The trigger of a control write lasts one clock.  It looks at the bus itself.
Triggers ==
  trigger' =
    [last |-> wr.wready,
     raised |-> IF /\ wr.wready /\ ~trigger.last
                   /\ bus.aw = Control /\ bus.w < NTriggers
                THEN bus.w ELSE None]

------------------------------------------------------------------------------
\* Reads

Rden == rd.arready /\ bus.ar # None /\ ~rd.rvalid

\* Mutant of ReadMux: what software wrote is shown instead of the hardware.
ReadMuxPlain(a) == reg[a]

ReadMux(a) == IF a \in Hardware THEN hw[a] ELSE reg[a]

ReadHandshake ==
  rd' = [arready |-> bus.ar # None /\ ~rd.arready,
         araddr |-> IF bus.ar # None /\ ~rd.arready THEN bus.ar ELSE rd.araddr,
         rvalid |-> IF Rden THEN TRUE ELSE rd.rvalid /\ ~bus.rready,
         rdata |-> IF Rden THEN ReadMux(rd.araddr) ELSE rd.rdata]

\* The counters and the configuration read from the chip change by themselves.
HardwareMoves == hw' \in [Hardware -> Data]

------------------------------------------------------------------------------
\* The master (external)

Keep(valid, ready, set) == IF valid = None \/ ready THEN set \cup {None} ELSE {valid}

\* A read is outstanding from its address to its data.
Reading == told.read # {}
MasterMoves ==
  bus' \in [aw : Keep(bus.aw, wr.awready, Addrs), w : Keep(bus.w, wr.wready, Data),
            ar : Keep(bus.ar, rd.arready, IF Reading THEN {} ELSE Addrs),
            bready : BOOLEAN, rready : BOOLEAN]

\* What the master knows: the writes taken and not yet answered, the last word
\* taken for every register, the trigger it has just asked for, and the values
\* the register it reads has had since it asked.
Shows(a) == IF a \in Hardware THEN hw[a] ELSE reg[a]
MasterNotes ==
  LET taken == bus.aw # None /\ wr.awready
      written == bus.w # None /\ wr.wready
      closed == rd.rvalid /\ bus.rready
  IN  told' = [owed |-> told.owed + (IF taken THEN 1 ELSE 0)
                                  - (IF Answered THEN 1 ELSE 0),
               last |-> IF taken /\ written
                        THEN [told.last EXCEPT ![bus.aw] = bus.w] ELSE told.last,
               asked |-> IF taken /\ bus.aw = Control /\ bus.w < NTriggers
                         THEN bus.w ELSE None,
               read |-> IF closed THEN {}
                        ELSE IF bus.ar # None THEN told.read \cup {Shows(bus.ar)}
                        ELSE told.read]

------------------------------------------------------------------------------

AxiInit ==
  /\ bus = [aw |-> None, w |-> None, ar |-> None, bready |-> FALSE, rready |-> FALSE]
  /\ wr = [awready |-> FALSE, wready |-> FALSE, aw_en |-> TRUE,
           awaddr |-> Control, bvalid |-> FALSE]
  /\ rd = [arready |-> FALSE, araddr |-> Control, rvalid |-> FALSE, rdata |-> 0]
  /\ reg = [a \in Addrs |-> 0]
  /\ hw \in [Hardware -> Data]
  /\ trigger = [last |-> FALSE, raised |-> None]
  /\ told = [owed |-> 0, last |-> [a \in Addrs |-> 0], asked |-> None,
             read |-> {}]

AxiNext == /\ WriteHandshake /\ WriteReg /\ Triggers
           /\ ReadHandshake /\ HardwareMoves
           /\ MasterMoves /\ MasterNotes
AxiSpec == AxiInit /\ [][AxiNext]_axiVars

------------------------------------------------------------------------------
\* Every write that was taken gets an answer of its own, however late the master
\* takes the answers and however early it offers the next write
\* (vata_460p3_axi_interface_v3_0_S00_AXI.vhd:221, :952).
EachWriteAnswered == told.owed = IF wr.bvalid THEN 1 ELSE 0

\* A write changes the register it was sent to, with its own data, and a control
\* write raises its trigger for the clock after it and no other: the register
\* file uses a latched address and the triggers the bus's
\* (vata_460p3_axi_interface_v3_0_S00_AXI.vhd:353, control_register_triggers.vhd:39).
WritesTakeEffect == reg = told.last /\ trigger.raised = told.asked

\* The data of a read is a value that the register had between the request and
\* the answer (vata_460p3_axi_interface_v3_0_S00_AXI.vhd:1019).
ReadIsCurrent == rd.rvalid => rd.rdata \in told.read
==============================================================================
