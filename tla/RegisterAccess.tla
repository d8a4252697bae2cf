--------------------------- MODULE RegisterAccess ---------------------------
(***************************************************************************)
(* The registers of the layer and the two processes that use them through  *)
(* the library: the request server and a command-line tool, started by an  *)
(* operator or a script beside it.  Each makes the accesses of its current *)
(* operation one by one; nothing keeps them apart.                         *)
(***************************************************************************)
EXTENDS ServerRequests, CtrlTools

VARIABLES
  regs,  \* the registers, of one VATA and of the sync, cal and DAC cores
  todo,  \* what each process has still to do for its operation
  acc,   \* the value each loaded
  got,   \* history: the half of a counter each fetched last, and that before
  base,  \* history: the registers when last no operation was going on,
         \* without those the hardware changes
  ops    \* history: the operations begun since then, none when none goes on

regVars == <<regs, todo, acc, got, base, ops>>

Processes == {"server", "tool"}

\* The half of counter r that was fetched, and the counters then.
FetchedHalf(r, part, x, now) ==
  [of |-> r, part |-> part, val |-> x, running |-> now["running"], live |-> now["live"]]

NoHalves ==
  LET none == FetchedHalf("none", "none", 0, [running |-> 0, live |-> 0])
  IN [before |-> none, last |-> none]

RegInit ==
  /\ regs = PowerUp /\ base = PowerUp
  /\ todo = [p \in Processes |-> <<>>]
  /\ acc = [p \in Processes |-> {}]
  /\ got = [p \in Processes |-> NoHalves]
  /\ ops = {}

Quiet == \A p \in Processes : todo[p] = <<>>

\* The histories after a step: they start anew when nothing goes on.
Histories(more) ==
  /\ ops' = IF Quiet' THEN {} ELSE ops \cup more
  /\ base' = IF Quiet' THEN [r \in DOMAIN regs' |-> IF r \in Hardware THEN 0 ELSE regs'[r]]
             ELSE base

\* Process p begins operation op.
Begin(p, op, steps) ==
  /\ todo' = [todo EXCEPT ![p] = steps]
  /\ got' = [got EXCEPT ![p] = NoHalves]
  /\ UNCHANGED <<regs, acc>>
  /\ Histories({op})

\* The next step of p is one of these.
NextIs(p, kinds) == todo[p] # <<>> /\ Head(todo[p]).do \in kinds

\* p takes its next step, which is no access.
Take(p) ==
  /\ todo' = [todo EXCEPT ![p] = Tail(@)]
  /\ UNCHANGED <<regs, acc, got>>
  /\ Histories({})

\* A process that ended in the middle of an operation, where it stands among
\* the operations.
Interruption == [by |-> "end"]

\* p ends, in the middle of its operation if it is at one.
Cut(p) ==
  /\ todo' = [todo EXCEPT ![p] = <<>>]
  /\ UNCHANGED <<regs, acc, got>>
  /\ Histories(IF todo[p] = <<>> THEN {} ELSE {Interruption})

\* One access to a register.
Access(p) ==
  /\ NextIs(p, {"put", "load", "store", "fetch"})
  /\ LET s == Head(todo[p])
         part(x) == CASE s.part = "low" -> x % Half
                      [] s.part = "high" -> x \div Half
                      [] OTHER -> x
     IN \/ /\ s.do = "put"
           /\ regs' = Written(regs, s.reg, s.val)
           /\ UNCHANGED <<acc, got>>
        \/ /\ s.do = "load"
           /\ acc' = [acc EXCEPT ![p] = regs[s.reg]]
           /\ UNCHANGED <<regs, got>>
        \/ /\ s.do = "store"
           /\ regs' = [regs EXCEPT ![s.reg] = (acc[p] \cup s.on) \ s.off]
           /\ acc' = [acc EXCEPT ![p] = {}]
           /\ UNCHANGED got
        \/ /\ s.do = "fetch"
           /\ got' = IF s.part = "all" THEN got
                     ELSE [got EXCEPT ![p] =
                             [before |-> @.last,
                              last |-> FetchedHalf(s.reg, s.part, part(regs[s.reg]), regs)]]
           /\ UNCHANGED <<regs, acc>>
  /\ todo' = [todo EXCEPT ![p] = Tail(@)]
  /\ Histories({})

\* A tool is run; its run is a record of the tool and its options.
RunTool(run) ==
  /\ todo["tool"] = <<>>
  /\ Begin("tool", [by |-> "tool", run |-> run], ToolSteps(run))

\* The clock counter of the sync core runs, and with it the live time counter
\* of a VATA that rests in IDLE; one that does not may end an event.
\* Both counts are bounded, by most and events.
Tick(most, events) ==
  /\ regs["running"] < most
  /\ \/ regs' = [regs EXCEPT !["running"] = @ + 1, !["live"] = @ + 1]
     \/ regs' = [regs EXCEPT !["running"] = @ + 1]
     \/ /\ regs["event-count"] < events
        /\ regs' = [regs EXCEPT !["running"] = @ + 1, !["event-count"] = @ + 1]
  /\ UNCHANGED <<todo, acc, got>>
  /\ Histories({})
=============================================================================
