---------------------------- MODULE DataEmitter -----------------------------
(***************************************************************************)
(* The emitter thread of silayer-server (data_emitter.cpp,                 *)
(* data_packet.cpp): it polls the data FIFOs of all chips, merges the      *)
(* packets of one event in a map keyed by event identifier, sends an event *)
(* when every chip's packet is there, and, when the map grows too large,   *)
(* the incomplete ones that are over a second old.  The server controls it *)
(* with start, stop and halt messages on an in-process socket.             *)
(***************************************************************************)
EXTENDS Naturals, Sequences, FiniteSets

CONSTANTS
  NVata,      \* N_VATA (12)
  EventIds,   \* values of the first word of a packet, compared as long int
  MaxMap,     \* MAX_PACKET_MAP_SIZE (5)
  MaxFrames,  \* bound: packets a chip delivers
  MaxMsgs     \* bound: messages of the server

ASSUME EmitterAssumption ==
  /\ NVata \in Nat \ {0}
  /\ EventIds \subseteq Nat
  /\ MaxMap \in Nat
  /\ MaxFrames \in Nat
  /\ MaxMsgs \in Nat

Vatas == 1 .. NVata
Frame == [vata : Vatas, id : EventIds, n : 1 .. MaxFrames]

\* asic_data and need_data of a DataPacket: the frame of each chip that has
\* delivered one.
Packet == UNION {[C -> Frame] : C \in (SUBSET Vatas) \ {{}}}

VARIABLES
  pc,       \* where the thread is: recv, check, read, expire, store, send;
            \* halted once operator() returned, crashed after a wild access
  running,  \* DataEmitter::running
  inproc,   \* messages queued on the in-process socket
  chip,     \* loop index of check_fifos and read_fifos
  buf,      \* data_buffer: the packet read last
  scan,     \* keys send_then_erase_old_packets still has to remove
  packets,  \* the map: event identifier |-> Packet
  old,      \* keys whose packet_time is more than the timeout ago
  fifo,     \* data FIFO of each chip, whole packets only
  sent,     \* history: what was published
  replaced, \* history: frames overwritten in the map
  arrived,  \* history: packets each chip delivered
  msgs      \* history: messages sent by the server

threadVars == <<pc, running, chip, buf, scan>>
mapVars == <<packets, old>>
history == <<sent, replaced>>
vars == <<threadVars, mapVars, history, inproc, fifo, arrived, msgs>>

Keys == DOMAIN packets

\* Mutant: looks at the last chip only.
IsDoneLast(p) == NVata \in DOMAIN p

IsDone(p) == DOMAIN p = Vatas
FramesOf(p) == {p[v] : v \in DOMAIN p}
Without(f, k) == [x \in DOMAIN f \ {k} |-> f[x]]

Init ==
  /\ pc = "recv" /\ running = FALSE /\ chip = 1 /\ buf = <<>> /\ scan = {}
  /\ packets = <<>> /\ old = {}
  /\ fifo = [v \in Vatas |-> <<>>]
  /\ inproc = <<>>
  /\ sent = {} /\ replaced = {}
  /\ arrived = [v \in Vatas |-> 0] /\ msgs = 0

\* Top of the loop: a message is awaited when not running, otherwise only
\* looked for.
Recv ==
  /\ pc = "recv"
  /\ running \/ inproc # <<>>
  /\ LET msg == IF inproc = <<>> THEN "empty" ELSE Head(inproc)
     IN /\ inproc' = IF inproc = <<>> THEN <<>> ELSE Tail(inproc)
        /\ running' = CASE msg = "start" -> TRUE
                        [] msg = "stop" -> FALSE
                        [] OTHER -> running
        /\ pc' = IF msg = "halt" THEN "halted"
                 ELSE IF running' THEN "check" ELSE "recv"
  /\ chip' = 1
  /\ UNCHANGED <<buf, scan, mapVars, history, fifo, arrived, msgs>>

\* Mutant: only the first FIFO makes the thread read.
CheckFirst ==
  /\ pc = "check"
  /\ pc' = IF fifo[chip] # <<>> THEN "read" ELSE "recv"
  /\ chip' = 1
  /\ UNCHANGED <<running, buf, scan, mapVars, history, inproc, fifo, arrived, msgs>>

\* check_fifos: the first FIFO with data makes the thread read them all.
Check ==
  /\ pc = "check"
  /\ IF fifo[chip] # <<>>
     THEN pc' = "read" /\ chip' = 1
     ELSE IF chip < NVata
     THEN chip' = chip + 1 /\ UNCHANGED pc
     ELSE pc' = "recv" /\ chip' = 1
  /\ UNCHANGED <<running, buf, scan, mapVars, history, inproc, fifo, arrived, msgs>>

\* read_fifos goes on to the next chip, or is done.
NextChip == IF chip < NVata THEN pc' = "read" /\ chip' = chip + 1
                            ELSE pc' = "recv" /\ chip' = 1

TooMany == Cardinality(Keys) > MaxMap

\* read_fifo: nothing to read, or the packet goes into the buffer, after which
\* a new event may make the thread look for old packets first.
ReadFifo ==
  /\ pc = "read"
  /\ IF fifo[chip] = <<>>
     THEN NextChip /\ UNCHANGED <<buf, scan, fifo>>
     ELSE LET f == Head(fifo[chip])
              clean == f.id \notin Keys /\ TooMany
          IN /\ buf' = f
             /\ fifo' = [fifo EXCEPT ![chip] = Tail(@)]
             /\ scan' = IF clean THEN old ELSE {}
             /\ pc' = IF clean /\ old # {} THEN "expire" ELSE "store"
             /\ UNCHANGED chip
  /\ UNCHANGED <<running, mapVars, sent, replaced, inproc, arrived, msgs>>

\* send_then_erase_old_packets: send and erase the next old packet, in key
\* order.  The code then advances the iterator of the element just erased,
\* which is undefined.  The freed node may still hold its links into the tree,
\* from which the erase has moved its successor away: the walk finds the next
\* element or passes over some, for good if none is left; or its access is wild.
Expire ==
  /\ pc = "expire"
  /\ \E k \in scan, rest \in SUBSET scan :
       /\ k \notin rest /\ \A j \in scan : k <= j
       /\ sent' = sent \cup {packets[k]}
       /\ packets' = Without(packets, k)
       /\ old' = old \ {k}
       /\ scan' = rest
       /\ pc' \in {IF rest = {} THEN "store" ELSE "expire", "crashed"}
  /\ UNCHANGED <<running, chip, buf, replaced, inproc, fifo, arrived, msgs>>

\* Mutant: a chip's packet always starts a new event in the map.
StoreFresh ==
  /\ pc = "store"
  /\ packets' = [k \in Keys \cup {buf.id} |->
                   IF k = buf.id THEN [v \in {buf.vata} |-> buf] ELSE packets[k]]
  /\ NextChip
  /\ UNCHANGED <<running, buf, scan, old, replaced, sent, inproc, fifo, arrived, msgs>>

\* Insert the event if it is new, and set_vata_data of the chip (whose check
\* of the identifier cannot fail: packets are found by identifier).
Store ==
  /\ pc = "store"
  /\ LET before == IF buf.id \in Keys THEN packets[buf.id] ELSE <<>>
         after == [v \in DOMAIN before \cup {buf.vata} |->
                     IF v = buf.vata THEN buf ELSE before[v]]
     IN /\ packets' = [k \in Keys \cup {buf.id} |->
                         IF k = buf.id THEN after ELSE packets[k]]
        /\ replaced' = replaced \cup {before[v] : v \in DOMAIN before \cap {buf.vata}}
        /\ IF IsDone(after) THEN pc' = "send" /\ UNCHANGED chip ELSE NextChip
  /\ UNCHANGED <<running, buf, scan, old, sent, inproc, fifo, arrived, msgs>>

\* Mutant: the packet is sent but stays in the map.
SendKeep ==
  /\ pc = "send"
  /\ sent' = sent \cup {packets[buf.id]}
  /\ NextChip
  /\ UNCHANGED <<running, buf, scan, mapVars, replaced, inproc, fifo, arrived, msgs>>

\* A complete event is sent and leaves the map.
Send ==
  /\ pc = "send"
  /\ sent' = sent \cup {packets[buf.id]}
  /\ packets' = Without(packets, buf.id)
  /\ old' = old \ {buf.id}
  /\ NextChip
  /\ UNCHANGED <<running, buf, scan, replaced, inproc, fifo, arrived, msgs>>

Thread == Recv \/ Check \/ ReadFifo \/ Expire \/ Store \/ Send

\* A second passes for a packet.  The clock the code reads may be set back, in
\* which case the unsigned age of any packet is huge, so no order is assumed.
Age(k) ==
  /\ k \in Keys \ old
  /\ pc \notin {"halted", "crashed"}
  /\ old' = old \cup {k}
  /\ UNCHANGED <<threadVars, packets, history, inproc, fifo, arrived, msgs>>

\* A chip's packet is complete in its FIFO.
Arrive(v, id) ==
  /\ arrived[v] < MaxFrames
  /\ arrived' = [arrived EXCEPT ![v] = @ + 1]
  /\ fifo' = [fifo EXCEPT ![v] = Append(@, [vata |-> v, id |-> id, n |-> arrived'[v]])]
  /\ UNCHANGED <<threadVars, mapVars, history, inproc, msgs>>

\* The server sends a message; halt is its last one.
Message(m) ==
  /\ msgs < MaxMsgs
  /\ msgs' = IF m = "halt" THEN MaxMsgs ELSE msgs + 1
  /\ inproc' = Append(inproc, m)
  /\ UNCHANGED <<threadVars, mapVars, history, fifo, arrived>>

Next ==
  \/ Thread
  \/ \E k \in EventIds : Age(k)
  \/ \E v \in Vatas, id \in EventIds : Arrive(v, id)
  \/ \E m \in {"start", "stop", "halt"} : Message(m)

Spec == Init /\ [][Next]_vars

\* The thread is scheduled; a blocking recv wakes up when a message is there.
FairSpec == Spec /\ WF_vars(Thread)

-----------------------------------------------------------------------------
(* Properties.                                                             *)

PCs == {"recv", "check", "read", "expire", "store", "send", "halted", "crashed"}

\* Type invariant of the thread, its map and the queues.
TypeOK ==
  /\ pc \in PCs
  /\ running \in BOOLEAN
  /\ chip \in Vatas
  /\ buf \in Frame \cup {<<>>}
  /\ pc \in {"expire", "store", "send"} => buf \in Frame /\ buf.vata = chip
  /\ Keys \subseteq EventIds /\ \A k \in Keys : packets[k] \in Packet
  /\ old \subseteq Keys
  /\ scan \subseteq Keys
  /\ fifo \in [Vatas -> Seq(Frame)]
  /\ inproc \in Seq({"start", "stop", "halt"})

\* An event all chips have delivered never stays behind in the map: whenever
\* the thread looks at the FIFOs again, what is left is incomplete, also after
\* an expiry in the middle of storing a packet.
CompleteGoesOut ==
  pc \in {"recv", "check", "read"} => \A k \in Keys : DOMAIN packets[k] # Vatas

\* The emitter implements EventBuilder: nothing is lost, mixed or sent twice,
\* however an expiry goes on after the element it erased.
EB == INSTANCE EventBuilder WITH
        waiting <- UNION {FramesOf(packets[k]) : k \in Keys},
        published <- {FramesOf(p) : p \in sent}
BuildsEvents == EB!EBSpec

\* What has arrived in a FIFO is read as long as the emitter runs.
FifoDrained ==
  \A v \in Vatas : fifo[v] # <<>> ~> (fifo[v] = <<>> \/ ~running \/ pc \in {"halted", "crashed"})
=============================================================================
