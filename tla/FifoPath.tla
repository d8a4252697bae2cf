------------------------------ MODULE FifoPath ------------------------------
(***************************************************************************)
(* The way of a data packet from the acquisition state machine to the      *)
(* server: the state machine puts one word per clock on a stream and does  *)
(* not look whether it is taken (data_tready, vata_460p3_iface_fsm.vhd);   *)
(* a receive FIFO keeps the words and the lengths of the packets (external *)
(* core); the emitter thread reads packets of a fixed length.  Two others  *)
(* read whatever is there, through the same registers and without a lock   *)
(* (vata_ctrl.cpp): clear-fifo on the server thread, and vatactrl with     *)
(* --read-fifo or --single-read-fifo in a process of its own.              *)
(***************************************************************************)
EXTENDS Naturals, Sequences, FiniteSets

CONSTANTS
  Words,      \* N_ASIC_PACKET, words of a packet (19)
  Depth,      \* words the FIFO holds (C_RX_FIFO_DEPTH, 1024)
  MaxEvents   \* bound: events recorded

ASSUME FifoAssumption ==
  /\ Words \in Nat \ {0}
  /\ Depth \in Nat
  /\ MaxEvents \in Nat

Events == 1 .. MaxEvents
Word == Events \X (1 .. Words)
Whole(e) == [k \in 1 .. Words |-> <<e, k>>]

VARIABLES
  ev,        \* events begun
  next,      \* the word of event ev to be written next; 0 between packets
  data,      \* words in the FIFO
  lens,      \* lengths of the complete packets whose length was not read yet
  open,      \* words taken since the last TLAST that was taken
  epc,       \* the emitter thread: look (at RDFO), length, words
  ebuf,      \* data_buffer
  rpc,       \* each other reader: idle, check, look, length, words
  left,      \* words it still has to read of the current packet
  single,    \* the tool reads one packet only
  harm,      \* history: what has disturbed the FIFO: full, cut, race, crash
  handed,    \* history: packets handed over by read_fifo_full_packet
  stale,     \* history: one was handed over that had not been read
  discarded  \* history: events of the words the others took

streamVars == <<ev, next>>
fifoVars == <<data, lens, open>>
emitterVars == <<epc, ebuf>>
readerVars == <<rpc, left, single>>
history == <<harm, handed, stale, discarded>>
vars == <<streamVars, fifoVars, emitterVars, readerVars, history>>

\* clear-fifo and vatactrl.
Readers == {"clear", "tool"}

Init ==
  /\ ev = 0 /\ next = 0
  /\ data = <<>> /\ lens = <<>> /\ open = 0
  /\ epc = "look" /\ ebuf = <<>>
  /\ rpc = [r \in Readers |-> "idle"] /\ left = [r \in Readers |-> 0] /\ single = FALSE
  /\ harm = {} /\ handed = {} /\ stale = FALSE /\ discarded = {}

\* Registers of the receive FIFO (external): occupancy of complete packets,
\* length of the next packet.  Reading a length takes it off its queue.
Rdfo == Len(data) - open
Rlr == IF lens = <<>> THEN 0 ELSE Head(lens)
DropLength == IF lens = <<>> THEN <<>> ELSE Tail(lens)

LastWord == next = Words

-----------------------------------------------------------------------------
(* The state machine and the FIFO's stream side.                           *)

EventBegins ==
  /\ next = 0 /\ ev < MaxEvents
  /\ ev' = ev + 1 /\ next' = 1
  /\ UNCHANGED <<fifoVars, emitterVars, readerVars, history>>

\* One word in one clock cycle; a full FIFO does not take it.
WriteWord ==
  /\ next > 0
  /\ next' = IF next = Words THEN 0 ELSE next + 1
  /\ IF Len(data) < Depth
     THEN /\ data' = Append(data, <<ev, next>>)
          /\ open' = IF LastWord THEN 0 ELSE open + 1
          /\ lens' = IF LastWord THEN Append(lens, open + 1) ELSE lens
          /\ UNCHANGED harm
     ELSE /\ harm' = harm \cup {"full"}
          /\ UNCHANGED fifoVars
  /\ UNCHANGED <<ev, emitterVars, readerVars, handed, stale, discarded>>

\* force_fsm_idle while the packet is being written.
Cut ==
  /\ next > 0
  /\ next' = 0
  /\ harm' = harm \cup {"cut"}
  /\ UNCHANGED <<ev, fifoVars, emitterVars, readerVars, handed, stale, discarded>>

-----------------------------------------------------------------------------
(* The emitter.                                                            *)

\* Two readers in the middle of reading.
Raced ==
  LET active == {r \in Readers : rpc'[r] # "idle"} \cup IF epc' = "look" THEN {} ELSE {"emitter"}
  IN harm' = IF Cardinality(active) > 1 THEN harm \cup {"race"} ELSE harm

EmitterLooks ==
  /\ epc = "look" /\ Rdfo > 0
  /\ epc' = "length" /\ UNCHANGED rpc
  /\ Raced
  /\ UNCHANGED <<streamVars, fifoVars, ebuf, left, single, handed, stale, discarded>>

\* Mutant: a packet that is not of the full length is read all the same.
EmitterLengthAny ==
  /\ epc = "length"
  /\ lens' = DropLength
  /\ epc' = "words"
  /\ ebuf' = <<>>
  /\ UNCHANGED <<streamVars, data, open, readerVars, history>>

\* A shorter packet is left where it is, and its length returned.  Of no
\* packet at all, because another reader was faster, that is 0, which stands
\* for success: what the buffer still holds is handed over.
EmitterLength ==
  /\ epc = "length"
  /\ lens' = DropLength
  /\ \/ /\ Rlr >= Words
        /\ epc' = "words" /\ ebuf' = <<>>
        /\ UNCHANGED <<handed, stale>>
     \/ /\ Rlr < Words
        /\ epc' = "look"
        /\ stale' = (stale \/ Rlr = 0)
        /\ handed' = IF Rlr = 0 THEN handed \cup {ebuf} ELSE handed
        /\ UNCHANGED ebuf
  /\ UNCHANGED <<streamVars, data, open, readerVars, harm, discarded>>

\* Mutant: one word less.
EmitterWordShort ==
  /\ epc = "words" /\ data # <<>>
  /\ data' = Tail(data)
  /\ ebuf' = Append(ebuf, Head(data))
  /\ epc' = IF Len(ebuf') >= Words - 1 THEN "look" ELSE "words"
  /\ handed' = IF epc' = "look" THEN handed \cup {ebuf'} ELSE handed
  /\ UNCHANGED <<streamVars, lens, open, readerVars, harm, stale, discarded>>

\* N_ASIC_PACKET words are read, however long the packet is.
EmitterWord ==
  /\ epc = "words" /\ data # <<>>
  /\ data' = Tail(data)
  /\ ebuf' = Append(ebuf, Head(data))
  /\ epc' = IF Len(ebuf') = Words THEN "look" ELSE "words"
  /\ handed' = IF epc' = "look" THEN handed \cup {ebuf'} ELSE handed
  /\ UNCHANGED <<streamVars, lens, open, readerVars, harm, stale, discarded>>

-----------------------------------------------------------------------------
(* The other readers: loops over read_fifo.                                *)

Goto(r, l) == rpc' = [rpc EXCEPT ![r] = l]

\* Where a reader goes on when read_fifo returns.
Again(r) == IF r = "tool" /\ single THEN "idle" ELSE "check"

Begins(r) ==
  /\ rpc[r] = "idle"
  /\ Goto(r, "check") /\ UNCHANGED epc
  /\ single' \in IF r = "tool" THEN BOOLEAN ELSE {single}
  /\ Raced
  /\ UNCHANGED <<streamVars, fifoVars, ebuf, left, handed, stale, discarded>>

\* The loop goes on as long as get_n_fifo is not 0.  When it ends with
\* nothing left, nothing half written, and no other reader on its way,
\* whatever happened before does not matter any more.
Checks(r) ==
  /\ rpc[r] = "check"
  /\ Goto(r, IF Rdfo > 0 THEN "look" ELSE "idle")
  /\ IF /\ data = <<>> /\ lens = <<>> /\ next = 0
        /\ epc = "look" /\ \A o \in Readers : rpc'[o] = "idle"
     THEN harm' = {} /\ handed' = {} /\ stale' = FALSE /\ discarded' = 1 .. ev
     ELSE UNCHANGED history
  /\ UNCHANGED <<streamVars, fifoVars, emitterVars, left, single>>

Looks(r) ==
  /\ rpc[r] = "look"
  /\ Goto(r, IF Rdfo > 0 THEN "length" ELSE Again(r))
  /\ UNCHANGED <<streamVars, fifoVars, emitterVars, left, single, history>>

ReadsLength(r) ==
  /\ rpc[r] = "length"
  /\ lens' = DropLength
  /\ left' = [left EXCEPT ![r] = Rlr]
  /\ Goto(r, IF Rlr = 0 THEN Again(r) ELSE "words")
  /\ UNCHANGED <<streamVars, data, open, emitterVars, single, history>>

\* Mutant: takes a word less than the length.
ReadsWordShort(r) ==
  /\ rpc[r] = "words" /\ data # <<>>
  /\ data' = Tail(data)
  /\ discarded' = discarded \cup {Head(data)[1]}
  /\ left' = [left EXCEPT ![r] = IF @ > 2 THEN @ - 1 ELSE 0]
  /\ Goto(r, IF left'[r] = 0 THEN Again(r) ELSE "words")
  /\ UNCHANGED <<streamVars, lens, open, emitterVars, single, harm, handed, stale>>

ReadsWord(r) ==
  /\ rpc[r] = "words" /\ data # <<>>
  /\ data' = Tail(data)
  /\ discarded' = discarded \cup {Head(data)[1]}
  /\ left' = [left EXCEPT ![r] = @ - 1]
  /\ Goto(r, IF left[r] = 1 THEN Again(r) ELSE "words")
  /\ UNCHANGED <<streamVars, lens, open, emitterVars, single, harm, handed, stale>>

\* The server's process ends and is started again, both its threads anew; the
\* FIFO knows nothing of it.
Restart ==
  /\ harm' = IF "words" \in {epc, rpc["clear"]} THEN harm \cup {"crash"} ELSE harm
  /\ epc' = "look" /\ ebuf' = <<>>
  /\ Goto("clear", "idle") /\ left' = [left EXCEPT !["clear"] = 0]
  /\ UNCHANGED <<streamVars, fifoVars, single, handed, stale, discarded>>

\* The tool is interrupted.
Interrupt ==
  /\ rpc["tool"] # "idle"
  /\ harm' = IF rpc["tool"] = "words" THEN harm \cup {"crash"} ELSE harm
  /\ Goto("tool", "idle") /\ left' = [left EXCEPT !["tool"] = 0]
  /\ UNCHANGED <<streamVars, fifoVars, emitterVars, single, handed, stale, discarded>>

Reader(r) == Begins(r) \/ Checks(r) \/ Looks(r) \/ ReadsLength(r) \/ ReadsWord(r)

Next ==
  \/ EventBegins \/ WriteWord \/ Cut
  \/ EmitterLooks \/ EmitterLength \/ EmitterWord
  \/ \E r \in Readers : Reader(r)
  \/ Restart \/ Interrupt

Spec == Init /\ [][Next]_vars

-----------------------------------------------------------------------------
(* Properties.                                                             *)

\* Type invariant of the stream, the FIFO and its readers.
TypeOK ==
  /\ ev \in 0 .. MaxEvents
  /\ next \in 0 .. Words
  /\ data \in Seq(Word) /\ Len(data) <= Depth
  /\ lens \in Seq(1 .. Depth)
  /\ open \in 0 .. Depth
  /\ epc \in {"look", "length", "words"}
  /\ ebuf \in Seq(Word) /\ Len(ebuf) <= Words
  /\ rpc \in [Readers -> {"idle", "check", "look", "length", "words"}]
  /\ left \in [Readers -> 0 .. Depth]
  /\ single \in BOOLEAN /\ stale \in BOOLEAN
  /\ harm \subseteq {"full", "cut", "race", "crash"}
  /\ \A p \in handed : p \in Seq(Word)
  /\ discarded \subseteq Events

\* The sum of a sequence of lengths.
Total(s) == LET sum[k \in 0 .. Len(s)] == IF k = 0 THEN 0 ELSE sum[k - 1] + s[k]
            IN sum[Len(s)]

\* No reader ever takes a word from an empty FIFO or from the packet still
\* being written: what each still has to read, and all lengths announced, is
\* covered by complete words.  It holds whatever has happened before, also
\* when all read at once.
NoUnderflow ==
  LET due(r) == IF rpc[r] = "words" THEN left[r] ELSE 0
  IN (IF epc = "words" THEN Words - Len(ebuf) ELSE 0)
       + due("clear") + due("tool") + Total(lens) <= Rdfo

\* Between reads the FIFO holds whole packets in a row, followed by the one
\* being written; even readers that read at the same time leave it so.
Aligned ==
  harm \subseteq {"race"} /\ "words" \notin {epc, rpc["clear"], rpc["tool"]} =>
    \A k \in 1 .. Len(data) :
      /\ data[k][2] = ((k - 1) % Words) + 1
      /\ data[k][1] = data[k + 1 - data[k][2]][1]

Handed == {p[1][1] : p \in handed}
Stored == {data[k][1] : k \in 1 .. Len(data)}
            \cup (IF epc = "words" THEN {ebuf[k][1] : k \in 1 .. Len(ebuf)} ELSE {})

\* As long as nothing has disturbed the FIFO since it was cleared last, the
\* emitter gets whole packets and none it has not read, every event is handed
\* over, taken by another reader or still in the FIFO, and none that was
\* handed over comes again.
EachEventOnce ==
  harm = {} =>
    /\ ~stale
    /\ \A p \in handed : \E e \in Events : p = Whole(e)
    /\ \A e \in 1 .. ev : e \in Handed \cup discarded \cup Stored \/ (e = ev /\ next = 1)
    /\ Handed \cap (discarded \cup Stored) = {}
=============================================================================
