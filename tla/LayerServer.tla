---------------------------- MODULE LayerServer -----------------------------
(***************************************************************************)
(* The request server (silayer_server.cpp): clients send requests to one   *)
(* reply socket, which takes a request from any of them and must answer it *)
(* exactly once before it takes the next; most requests are accesses to    *)
(* the registers (ServerRequests, RegisterAccess), which command-line      *)
(* tools make beside it; emit requests are passed on to the emitter        *)
(* thread, of which only the message loop is kept here (DataEmitter has    *)
(* the rest); when the process ends, the supervisor starts it again.       *)
(***************************************************************************)
EXTENDS LayerContract

CONSTANTS
  Sessions, \* what the outside does, one of: a record of the clients, the
            \* requests and tool runs they make, whether they make them one
            \* after another, how far the clock runs, and (bound) how many
            \* operations overlap before they wait
  MaxQueue, \* bound: emit requests are not sent while this many messages are
            \* queued for the emitter
  None      \* no request

\* Requests that are more than accesses to registers, and the configuration
\* data itself, sent when told to go on.
EmitStart == [group |-> "emit", cmd |-> "start", arg |-> Absent]
EmitStop == [group |-> "emit", cmd |-> "stop", arg |-> Absent]
Halt == [group |-> "halt", cmd |-> Absent, arg |-> Absent]
SetConfigBinary == [group |-> "vata", cmd |-> "set-config-binary", arg |-> Absent]
Data == [group |-> "unknown", cmd |-> "data", arg |-> Absent]

Own == {EmitStart, EmitStop, Halt, SetConfigBinary}

Clients == UNION {s.clients : s \in Sessions}

\* The sessions are of requests and runs there are; no request, and no command
\* in a request, is not one.
ASSUME ServerAssumption ==
  /\ None # Data /\ Absent \notin Settings
  /\ \A s \in Sessions : \A q \in s.requests : q # None /\ (q \in Own \/ IsRequest(q))
  /\ \A s \in Sessions : \A run \in s.runs : IsRun(run)

VARIABLES
  server,    \* recv, handle, poll (for the configuration data), join (the
             \* emitter thread), down
  peer,      \* the client whose request was received last
  req,       \* that request
  answers,   \* history: answers sent since it was received
  calctrl,   \* LayerServer::calctrl, its settings
  flag,      \* data_emitter_running
  inproc,    \* messages queued for the emitter
  emitter,   \* its thread: "loop" or "halted"
  emRunning, \* DataEmitter::running
  pending,   \* request of each client on its way to the server
  client,    \* idle, waiting, ready (to send configuration data), lost
  inStep,    \* history: the calibration registers were last written by this
             \* server, all of them
  session    \* the session

emitVars == <<flag, inproc, emitter, emRunning>>
clientVars == <<pending, client>>
calVars == <<calctrl, inStep>>
vars == <<server, peer, req, answers, calVars, emitVars, clientVars, session, regVars>>

\* A fresh process: sockets bound, CalCtrl constructed, emitter thread
\* started and not running.
Start ==
  /\ server' = "recv" /\ req' = None /\ answers' = 0
  /\ calctrl' = Defaults /\ inStep' = FALSE
  /\ flag' = FALSE /\ inproc' = <<>> /\ emitter' = "loop" /\ emRunning' = FALSE
  /\ UNCHANGED <<peer, session, regVars>>

Init ==
  /\ session \in Sessions
  /\ server = "recv" /\ req = None /\ answers = 0
  /\ peer = CHOOSE c \in session.clients : TRUE
  /\ calctrl = Defaults /\ inStep = FALSE
  /\ flag = FALSE /\ inproc = <<>> /\ emitter = "loop" /\ emRunning = FALSE
  /\ pending = [c \in Clients |-> None]
  /\ client = [c \in Clients |-> "idle"]
  /\ RegInit

-----------------------------------------------------------------------------
(* The server thread.                                                      *)

\* Requests and runs that write all the settings.
WritesSettings(q) ==
  q.group = "cal" /\ (q.cmd \in {"start-inf", "n-pulses"} \/ q.cmd \in Settings)
\* A run of calctrl may.
Meddles(op) == op.by = "tool" /\ op.run.tool = "calctrl"

\* An answer goes to the client whose request was received last.
Answer(next) ==
  /\ client' = [client EXCEPT ![peer] = next]
  /\ answers' = answers + 1
  /\ UNCHANGED pending

\* The server is done with the request.
Finished == server' = "recv" /\ req' = None

\* The process ends, and its emitter thread with it.
Die == server' = "down" /\ req' = None /\ emitter' = "halted" /\ Cut("server")

\* process_req receives a request; requests of several clients are queued
\* fairly.  The fields of calctrl are set before anything is written.
Receive(c) ==
  /\ server = "recv" /\ pending[c] # None
  /\ LET q == pending[c]
         f == IF q.group = "cal" THEN SettingsAfter(q, calctrl) ELSE calctrl
         steps == Steps(q, f)
     IN /\ peer' = c /\ req' = q
        /\ calctrl' = f
        /\ IF q \in Own
           THEN UNCHANGED <<inStep, regVars>>
           ELSE /\ Begin("server", [by |-> "server", ask |-> q, f |-> f], steps)
                /\ inStep' = IF WritesSettings(q) /\ Len(steps) > 1
                             THEN todo["tool"] = <<>> \/ ~\E op \in ops : Meddles(op)
                             ELSE inStep
  /\ pending' = [pending EXCEPT ![c] = None]
  /\ answers' = 0
  /\ server' = "handle"
  /\ UNCHANGED <<emitVars, client, session>>

\* The server's next access for a request.
ServerAccess ==
  /\ server = "handle" /\ Access("server")
  /\ IF Len(todo["server"]) = 1 THEN Finished ELSE UNCHANGED <<server, req>>
  /\ UNCHANGED <<peer, answers, calVars, emitVars, clientVars, session>>

\* The answer to a request.
AnswerRequest ==
  /\ server = "handle" /\ NextIs("server", {"say"}) /\ answers = 0
  /\ Answer("idle")
  /\ Take("server")
  /\ IF Len(todo["server"]) = 1 THEN Finished ELSE UNCHANGED <<server, req>>
  /\ UNCHANGED <<peer, calVars, emitVars, session>>

\* The second send on a reply socket that owes no answer throws, nothing
\* catches, and the process ends with both of its threads.
AnswerAgain ==
  /\ server = "handle" /\ NextIs("server", {"say"}) /\ answers # 0
  /\ answers' = answers + 1
  /\ Die
  /\ UNCHANGED <<peer, calVars, flag, inproc, emRunning, clientVars, session>>

\* strncmp reads through a null pointer.
ReadNull ==
  /\ server = "handle" /\ NextIs("server", {"crash"})
  /\ Die
  /\ UNCHANGED <<peer, answers, calVars, flag, inproc, emRunning, clientVars, session>>

\* Mutant: start does not look at data_emitter_running, stop does not reset it.
HandleEmitSticky ==
  /\ server = "handle" /\ req \in {EmitStart, EmitStop}
  /\ inproc' = Append(inproc, req.cmd)
  /\ flag' = TRUE
  /\ Answer("idle") /\ Finished
  /\ UNCHANGED <<peer, emitter, emRunning, calVars, session, regVars>>

\* emit start, emit stop: an error answer if there is nothing to do.
HandleEmit ==
  /\ server = "handle" /\ req \in {EmitStart, EmitStop}
  /\ IF flag = (req = EmitStart)
     THEN UNCHANGED <<flag, inproc>> /\ Answer("idle")
     ELSE flag' = ~flag /\ inproc' = Append(inproc, req.cmd) /\ Answer("idle")
  /\ Finished
  /\ UNCHANGED <<peer, emitter, emRunning, calVars, session, regVars>>

\* set-config-binary: tell the client to go on, then wait for the data.
HandleSetConfig ==
  /\ server = "handle" /\ req = SetConfigBinary
  /\ Answer("ready")
  /\ server' = "poll"
  /\ UNCHANGED <<peer, req, emitVars, calVars, session, regVars>>

\* Mutant: a message that is no configuration is dropped without an answer.
PollConfigDrop(c) ==
  /\ server = "poll" /\ pending[c] # None
  /\ pending' = [pending EXCEPT ![c] = None]
  /\ peer' = c /\ answers' = 1
  /\ client' = IF pending[c] = Data THEN [client EXCEPT ![c] = "idle"] ELSE client
  /\ Finished
  /\ UNCHANGED <<emitVars, calVars, session, regVars>>

\* The data has come, or another message: whatever is received next, from
\* whichever client, is taken for it; its size alone is checked.
PollConfig(c) ==
  /\ server = "poll" /\ pending[c] # None
  /\ pending' = [pending EXCEPT ![c] = None]
  /\ client' = [client EXCEPT ![c] = "idle"]
  /\ peer' = c /\ answers' = 1
  /\ Finished
  /\ UNCHANGED <<emitVars, calVars, session, regVars>>

\* No message within a second: no further answer.
PollTimeout ==
  /\ server = "poll"
  /\ Finished
  /\ UNCHANGED <<peer, answers, emitVars, clientVars, calVars, session, regVars>>

\* halt: stop the emitter thread and wait for its end; there is no answer.
HandleHalt ==
  /\ server = "handle" /\ req = Halt
  /\ inproc' = Append(inproc, "halt")
  /\ server' = "join"
  /\ UNCHANGED <<peer, req, answers, flag, emitter, emRunning, clientVars, calVars, session, regVars>>

Join ==
  /\ server = "join" /\ emitter = "halted"
  /\ flag' = FALSE
  /\ server' = "down" /\ req' = None
  /\ UNCHANGED <<peer, answers, inproc, emitter, emRunning, clientVars, calVars, session, regVars>>

Server ==
  \/ ServerAccess \/ AnswerRequest \/ AnswerAgain \/ ReadNull
  \/ HandleEmit \/ HandleSetConfig \/ PollTimeout \/ HandleHalt \/ Join
  \/ \E c \in session.clients : Receive(c) \/ PollConfig(c)

-----------------------------------------------------------------------------
(* The emitter thread, the supervisor, the clients and the tools.          *)

\* Mutant: a halt message is understood only when running.
EmitterLoopDeaf ==
  /\ emitter = "loop" /\ inproc # <<>>
  /\ inproc' = Tail(inproc)
  /\ emitter' = IF Head(inproc) = "halt" /\ emRunning THEN "halted" ELSE "loop"
  /\ emRunning' = IF Head(inproc) = "halt" THEN emRunning ELSE Head(inproc) = "start"
  /\ UNCHANGED <<server, peer, req, answers, flag, clientVars, calVars, session, regVars>>

\* DataEmitter::operator() takes the next message.
EmitterLoop ==
  /\ emitter = "loop" /\ inproc # <<>>
  /\ inproc' = Tail(inproc)
  /\ emitter' = IF Head(inproc) = "halt" THEN "halted" ELSE "loop"
  /\ emRunning' = IF Head(inproc) = "halt" THEN emRunning ELSE Head(inproc) = "start"
  /\ UNCHANGED <<server, peer, req, answers, flag, clientVars, calVars, session, regVars>>

\* The wild access of DataEmitter's Expire ends the whole process.
EmitterFault ==
  /\ emitter = "loop" /\ emRunning /\ server # "down"
  /\ Die
  /\ UNCHANGED <<peer, answers, flag, inproc, emRunning, clientVars, calVars, session>>

\* The supervisor starts the server again (autorestart).  The requests on
\* their way are gone with the connection, the registers stay.
Restart ==
  /\ server = "down"
  /\ Start
  /\ pending' = [c \in Clients |-> None]
  /\ client' = [c \in Clients |-> IF client[c] = "waiting" THEN "lost" ELSE client[c]]

\* A client (external) sends its next request, or the configuration data it
\* was told to send, however late; one that lost its request starts anew.
Send(c, q) ==
  /\ \/ client[c] = "idle" /\ q \in session.requests
     \/ client[c] = "ready" /\ q = Data
  /\ q \in {EmitStart, EmitStop} => Len(inproc) < MaxQueue
  /\ session.serial => todo["tool"] = <<>>
  /\ Cardinality(ops) < session.overlap
  /\ pending' = [pending EXCEPT ![c] = q]
  /\ client' = [client EXCEPT ![c] = "waiting"]
  /\ UNCHANGED <<server, peer, req, answers, emitVars, calVars, session, regVars>>

GiveUp(c) ==
  /\ client[c] = "lost"
  /\ client' = [client EXCEPT ![c] = "idle"]
  /\ UNCHANGED <<server, peer, req, answers, emitVars, pending, calVars, session, regVars>>

\* An operator or a script (external) runs a tool.
Tool(run) ==
  /\ session.serial => \A c \in Clients : client[c] = "idle"
  /\ Cardinality(ops) < session.overlap
  /\ RunTool(run)
  /\ inStep' = (inStep /\ run.tool # "calctrl")
  /\ UNCHANGED <<server, peer, req, answers, calctrl, emitVars, clientVars, session>>

ToolAccess ==
  /\ Access("tool")
  /\ UNCHANGED <<server, peer, req, answers, calVars, emitVars, clientVars, session>>

Clock ==
  /\ Tick(session.clock, session.events)
  /\ UNCHANGED <<server, peer, req, answers, calVars, emitVars, clientVars, session>>

Next ==
  \/ Server \/ EmitterLoop \/ EmitterFault \/ Restart \/ ToolAccess \/ Clock
  \/ \E run \in session.runs : Tool(run)
  \/ \E c \in session.clients :
       GiveUp(c) \/ \E q \in session.requests \cup {Data} : Send(c, q)

Spec == Init /\ [][Next]_vars

\* Both threads are scheduled, the supervisor restarts, and the reply socket
\* queues its clients fairly.
FairSpec ==
  /\ Spec
  /\ WF_vars(Server) /\ WF_vars(EmitterLoop) /\ WF_vars(Restart)
  /\ \A c \in Clients : SF_vars(c \in session.clients /\ (Receive(c) \/ PollConfig(c)))

-----------------------------------------------------------------------------
(* Properties.                                                             *)

\* What the emitter will be once it has taken the messages queued for it.
Queued == IF inproc = <<>> \/ inproc[Len(inproc)] = "halt" THEN emRunning
          ELSE inproc[Len(inproc)] = "start"

\* What "emit status" reports is what the emitter is about to do, whichever
\* way the two threads interleave.
FlagAgrees == (server \notin {"join", "down"}) => flag = Queued

\* A client waits exactly as long as the server still owes it an answer: none
\* is answered twice, out of turn, or by a message meant for another, and
\* none forgotten while the server is up.
EachAnsweredOnce ==
  server # "down" =>
    \A c \in Clients :
      client[c] = "waiting" <=>
        pending[c] # None \/ (peer = c /\ server \in {"handle", "join"} /\ answers = 0)

\* "The above vata commands send a response. No need to send one here."
\* (silayer_server.cpp:1104): a request is answered at most once.
NoSecondAnswer == answers <= 1

\* Every request is answered, unless the server goes down with it.
Answered == \A c \in Clients : client[c] = "waiting" ~> client[c] # "waiting"

\* A halt request ends the process although the emitter may be blocked
\* waiting for a message.
HaltEnds == server = "join" ~> server = "down"

\* What emit start has accepted takes effect, unless it is revoked.
StartTakesEffect == (flag /\ server # "down") ~> (emRunning \/ ~flag)

\* The registers that only software writes.
Ours == DOMAIN PowerUp \ Hardware

\* The last of the operations that were going on ends.
Ended == ~Quiet /\ Quiet' /\ server' # "down"

\* A request or a run of a tool that nothing else came between leaves the
\* registers as the contract says, however many accesses it is made of and
\* whenever it was answered.
AloneAsAsked ==
  [][Ended => \A op \in ops : ops = {op} =>
       \A r \in Ours : regs'[r] = After(op, base)[r]]_vars

\* Operations that do overlap may lose a change of one another, but make none
\* that nobody asked for: each bit of a mask and each other register is as it
\* was before them or as one of their calls would leave it.
RegistersAreAsked ==
  Ended =>
    LET results == {base} \cup UNION {Calls(op, base) : op \in ops}
        masks == {"mask", "disable-hits"}
    IN /\ \A r \in masks, b \in Bits : \E x \in results : b \in regs'[r] <=> b \in x[r]
       /\ \A r \in Ours \ (masks \cup {"dacs"}) : \E x \in results : regs'[r] = x[r]

\* Two set-counts may mix: the counts of one go to the converter of the other.
\* But no converter changes that no operation going on is to set, and none takes
\* counts that none of them gave, neither a step too early nor from before.
CountsAreAsked ==
  \A d \in Dacs : regs'["dacs"][d] # regs["dacs"][d] =>
    d \in Wanted(ops, "dac-select") /\ regs'["dacs"][d] \in Wanted(ops, "dac-input")

\* What no operation asked for is never done, neither to the registers by all
\* those that overlap nor to a converter by any step of them.
NobodyElses == [][RegistersAreAsked /\ CountsAreAsked]_vars

\* As long as the server is the last that wrote the calibration registers,
\* they hold the settings it believes in, whatever was refused since.
SettingsInStep == (inStep /\ server = "recv") => regs = Holds(calctrl, regs)

\* The requests that are answered before their register is written.
AnsweredFirst == Sources \ {"trigger-enable-tm-hit"}

\* Whoever waits for each answer before the next command, to the server or to
\* a tool, has them done one after another, but for those.
AnsweredIsDone ==
  (/\ session.serial /\ todo["tool"] # <<>>
   /\ \E i \in DOMAIN todo["server"] : todo["server"][i].do # "say") => req.cmd \in AnsweredFirst

\* "Of course impossible to read at exactly the same time, but should give a
\* good enough snap-shot." (vata_ctrl.cpp:161): a counter read in two halves
\* is never less than it was at the first, nor by a low half too large at the
\* second, and exact if none carried between them, unless it was reset.
Close(low, high, c) ==
  low[c] <= high[c] =>
    LET shown == low.val + Half * high.val
    IN /\ low[c] <= shown /\ shown < high[c] + Half
       /\ low[c] \div Half = high[c] \div Half => shown = low[c]

CountersClose ==
  \A p \in Processes :
    LET low == got[p].before
        high == got[p].last
    IN high.part = "high" => Close(low, high, high.of)
=============================================================================
