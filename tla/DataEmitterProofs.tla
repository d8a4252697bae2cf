-------------------------- MODULE DataEmitterProofs --------------------------
(***************************************************************************)
(* What DataEmitter promises for every number of chips, every set of       *)
(* event identifiers, every size of the map and however many packets and   *)
(* messages come: the map's and the packets' types, which events are sent, *)
(* and that the thread implements EventBuilder.                            *)
(***************************************************************************)
EXTENDS DataEmitter, SequenceTheorems, TLAPS

-----------------------------------------------------------------------------
(* The inductive invariant.                                                *)

ThreadType ==
  /\ pc \in PCs
  /\ running \in BOOLEAN
  /\ chip \in Vatas
  /\ inproc \in Seq({"start", "stop", "halt"})

\* Frames are where they belong: under their event, at their chip.
MapType ==
  /\ Keys \subseteq EventIds
  /\ \A k \in Keys :
       /\ DOMAIN packets[k] \in (SUBSET Vatas) \ {{}}
       /\ \A v \in DOMAIN packets[k] :
            packets[k][v] \in Frame /\ packets[k][v].vata = v /\ packets[k][v].id = k
       /\ packets[k] = [v \in DOMAIN packets[k] |-> packets[k][v]]
  /\ old \subseteq Keys
  /\ scan \subseteq Keys

\* How many packets of a chip the thread has read.
Taken(v) == arrived[v] - Len(fifo[v])

\* A chip's FIFO holds its latest packets, in the order of their numbers.
QueueInv ==
  /\ arrived \in [Vatas -> 0 .. MaxFrames]
  /\ fifo \in [Vatas -> Seq(Frame)]
  /\ \A v \in Vatas :
       /\ Taken(v) >= 0
       /\ \A i \in 1 .. Len(fifo[v]) : fifo[v][i].vata = v /\ fifo[v][i].n = Taken(v) + i

\* The packet in hand is the last that was read from its chip; old packets are
\* looked for before it is stored.
BufInv ==
  /\ pc \notin {"expire", "crashed"} => scan = {}
  /\ buf \in Frame \cup {<<>>}
  /\ pc \in {"expire", "store", "send"} => buf \in Frame /\ buf.vata = chip
  /\ pc \in {"expire", "store"} => buf.n = Taken(chip)

Waiting == UNION {FramesOf(packets[k]) : k \in Keys}
Published == {FramesOf(p) : p \in sent}
Handled == Waiting \cup replaced \cup UNION Published

\* What was put into the map was read before; the packet in hand was not put
\* there before.
HandledInv ==
  \A f \in Handled :
    /\ f \in Frame
    /\ f.n <= Taken(f.vata)
    /\ pc \in {"expire", "store"} /\ f.vata = chip => f.n < Taken(chip)

\* Only the event that is about to be sent is complete.
SendInv ==
  /\ pc = "send" => buf.id \in Keys /\ DOMAIN packets[buf.id] = Vatas
  /\ \A k \in Keys : DOMAIN packets[k] = Vatas => pc = "send" /\ k = buf.id

EmitterInv == ThreadType /\ MapType /\ QueueInv /\ BufInv

-----------------------------------------------------------------------------
(* Type correctness.                                                       *)

LEMMA EmptyMap == DOMAIN <<>> = {}
OBVIOUS

LEMMA InitInv == Init => EmitterInv
<1> SUFFICES ASSUME Init PROVE EmitterInv
  OBVIOUS
<1> USE EmitterAssumption DEF EmitterAssumption, Init, Vatas
<1>1. ThreadType
  <2>1. <<>> \in Seq({"start", "stop", "halt"})
    OBVIOUS
  <2>2. running \in BOOLEAN
    OBVIOUS
  <2>3. chip \in Vatas
    OBVIOUS
  <2> QED
    BY <2>1, <2>2, <2>3 DEF ThreadType, PCs
<1>2. MapType
  BY EmptyMap DEF MapType, Keys
<1>3. QueueInv
  <2>1. \A v \in Vatas : fifo[v] = <<>> /\ arrived[v] = 0
    OBVIOUS
  <2>2. <<>> \in Seq(Frame) /\ Len(<<>>) = 0
    OBVIOUS
  <2> QED
    BY <2>1, <2>2 DEF QueueInv, Taken
<1>4. BufInv
  BY DEF BufInv
<1> QED
  BY <1>1, <1>2, <1>3, <1>4 DEF EmitterInv

\* Reading a chip's FIFO takes its first packet, which is the next by number.
LEMMA TakeFromFifo ==
  ASSUME QueueInv, NEW v \in Vatas, fifo[v] # <<>>, arrived' = arrived,
         fifo' = [fifo EXCEPT ![v] = Tail(@)]
  PROVE  /\ QueueInv'
         /\ Head(fifo[v]) \in Frame
         /\ Head(fifo[v]).vata = v
         /\ Head(fifo[v]).n = Taken(v) + 1
         /\ Taken(v)' = Taken(v) + 1
         /\ \A w \in Vatas \ {v} : Taken(w)' = Taken(w)
<1> DEFINE q == fifo[v]
<1>1. q \in Seq(Frame) /\ Len(q) \in Nat \ {0} /\ q[1] = Head(q)
  BY EmptySeq DEF QueueInv
<1>2. Head(q) \in Frame /\ Head(q).vata = v /\ Head(q).n = Taken(v) + 1
  BY <1>1 DEF QueueInv
<1>3. /\ Tail(q) \in Seq(Frame) /\ Len(Tail(q)) = Len(q) - 1
      /\ \A i \in 1 .. Len(Tail(q)) : Tail(q)[i] = q[i + 1]
  BY <1>1, HeadTailProperties
<1>4. fifo'[v] = Tail(q) /\ \A w \in Vatas \ {v} : fifo'[w] = fifo[w]
  BY DEF QueueInv
<1>5. arrived[v] \in Nat
  BY EmitterAssumption DEF EmitterAssumption, QueueInv
<1>6. Taken(v)' = Taken(v) + 1 /\ \A w \in Vatas \ {v} : Taken(w)' = Taken(w)
  <2>1. Taken(v) = arrived[v] - Len(q) /\ Taken(v)' = arrived[v] - Len(Tail(q))
    BY <1>4, Zenon DEF Taken
  <2>2. \A w \in Vatas \ {v} : Taken(w)' = Taken(w)
    BY <1>4, Zenon DEF Taken
  <2> HIDE DEF q
  <2> QED
    BY <1>1, <1>3, <1>5, <2>1, <2>2
<1>7. fifo' \in [Vatas -> Seq(Frame)] /\ arrived' \in [Vatas -> 0 .. MaxFrames]
  BY <1>3 DEF QueueInv
<1>8. Taken(v)' >= 0
  BY <1>1, <1>5, <1>6 DEF QueueInv, Taken
<1>9. ASSUME NEW i \in 1 .. Len(fifo'[v])
      PROVE  fifo'[v][i].vata = v /\ fifo'[v][i].n = Taken(v)' + i
  <2>1. i + 1 \in 1 .. Len(q) /\ fifo'[v][i] = q[i + 1]
    <3> HIDE DEF q
    <3>1. i \in 1 .. Len(Tail(q))
      BY <1>4
    <3>2. i + 1 \in 1 .. Len(q)
      BY <1>1, <1>3, <3>1
    <3>3. Tail(q)[i] = q[i + 1]
      BY <1>3, <3>1, Zenon
    <3> QED
      BY <1>4, <3>2, <3>3
  <2>2. q[i + 1].vata = v /\ q[i + 1].n = Taken(v) + (i + 1)
    BY <2>1 DEF QueueInv
  <2>3. Taken(v) \in Int
    BY <1>1, <1>5 DEF Taken
  <2> QED
    BY <1>6, <2>1, <2>2, <2>3
<1>10. \A w \in Vatas \ {v} :
         /\ Taken(w)' >= 0
         /\ \A i \in 1 .. Len(fifo'[w]) : fifo'[w][i].vata = w /\ fifo'[w][i].n = Taken(w)' + i
  BY <1>4, <1>6 DEF QueueInv
<1>11. QueueInv'
  <2> SUFFICES ASSUME NEW w \in Vatas
               PROVE  /\ Taken(w)' >= 0
                      /\ \A i \in 1 .. Len(fifo'[w]) :
                           fifo'[w][i].vata = w /\ fifo'[w][i].n = Taken(w)' + i
    BY <1>7 DEF QueueInv
  <2> QED
    BY <1>8, <1>9, <1>10
<1> QED
  BY <1>2, <1>6, <1>11

\* A packet that arrives is the next by number behind those in the FIFO.
LEMMA ArriveAtFifo ==
  ASSUME QueueInv, NEW v \in Vatas, NEW id \in EventIds, Arrive(v, id)
  PROVE  QueueInv' /\ \A w \in Vatas : Taken(w)' = Taken(w)
<1> DEFINE q == fifo[v]
          f == [vata |-> v, id |-> id, n |-> arrived[v] + 1]
<1>1. q \in Seq(Frame) /\ Len(q) \in Nat /\ arrived[v] \in Nat
  BY EmitterAssumption DEF EmitterAssumption, QueueInv
<1>2. arrived'[v] = arrived[v] + 1 /\ \A w \in Vatas \ {v} : arrived'[w] = arrived[w]
  BY DEF Arrive, QueueInv
<1>3. fifo'[v] = Append(q, f) /\ \A w \in Vatas \ {v} : fifo'[w] = fifo[w]
  BY <1>2 DEF Arrive, QueueInv
<1>4. f \in Frame
  BY <1>1, EmitterAssumption DEF EmitterAssumption, Arrive, Frame
<1>5. /\ Append(q, f) \in Seq(Frame) /\ Len(Append(q, f)) = Len(q) + 1
      /\ \A i \in 1 .. Len(q) : Append(q, f)[i] = q[i]
      /\ Append(q, f)[Len(q) + 1] = f
  BY <1>1, <1>4, AppendProperties
<1>6. \A w \in Vatas : Taken(w)' = Taken(w)
  <2>1. /\ Taken(v) = arrived[v] - Len(q)
        /\ Taken(v)' = (arrived[v] + 1) - Len(Append(q, f))
    BY <1>2, <1>3, Zenon DEF Taken
  <2>2. \A w \in Vatas \ {v} : Taken(w)' = Taken(w)
    BY <1>2, <1>3, Zenon DEF Taken
  <2> HIDE DEF q, f
  <2> QED
    BY <1>1, <1>5, <2>1, <2>2
<1>7. fifo' \in [Vatas -> Seq(Frame)] /\ arrived' \in [Vatas -> 0 .. MaxFrames]
  <2>1. arrived[v] + 1 \in 0 .. MaxFrames
    BY <1>1, EmitterAssumption DEF EmitterAssumption, Arrive
  <2>2. fifo' = [fifo EXCEPT ![v] = Append(q, f)]
    BY <1>2 DEF Arrive, QueueInv
  <2> QED
    BY <1>5, <2>1, <2>2 DEF Arrive, QueueInv
<1>8. ASSUME NEW w \in Vatas, NEW i \in 1 .. Len(fifo'[w])
      PROVE  fifo'[w][i].vata = w /\ fifo'[w][i].n = Taken(w) + i
  <2>1. CASE w # v
    BY <1>3, <2>1 DEF QueueInv
  <2>2. CASE w = v /\ i = Len(q) + 1
    <3>1. Taken(v) + (Len(q) + 1) = arrived[v] + 1
      BY <1>1 DEF Taken
    <3> QED
      BY <1>3, <1>5, <2>2, <3>1
  <2>3. CASE w = v /\ i \in 1 .. Len(q)
    <3>1. fifo'[v][i] = q[i]
      <4> HIDE DEF q, f
      <4> QED
        BY <1>3, <1>5, <2>3
    <3> QED
      BY <2>3, <3>1 DEF QueueInv
  <2> QED
    BY <1>1, <1>3, <1>5, <2>1, <2>2, <2>3
<1> QED
  BY <1>6, <1>7, <1>8 DEF QueueInv

LEMMA QueueKept ==
  ASSUME QueueInv, UNCHANGED <<fifo, arrived>>
  PROVE  QueueInv' /\ \A v \in Vatas : Taken(v)' = Taken(v)
BY DEF QueueInv, Taken

LEMMA MapKept ==
  ASSUME MapType, UNCHANGED <<packets, old, scan>>
  PROVE  MapType'
BY DEF MapType, Keys

\* An event that leaves the map leaves the others as they are.
LEMMA MapLoses ==
  ASSUME MapType, NEW k \in Keys, packets' = Without(packets, k), old' = old \ {k},
         scan' \subseteq Keys \ {k}
  PROVE  /\ MapType'
         /\ Keys' = Keys \ {k}
         /\ \A j \in Keys \ {k} : packets'[j] = packets[j]
<1>1. Keys' = Keys \ {k} /\ \A j \in Keys \ {k} : packets'[j] = packets[j]
  BY DEF Keys, Without
<1> QED
  BY <1>1 DEF MapType

\* The thread's steps keep the invariant.
LEMMA RecvInv ==
  ASSUME EmitterInv, Recv
  PROVE  EmitterInv'
<1> USE DEF EmitterInv
<1>1. inproc' \in Seq({"start", "stop", "halt"})
  BY DEF Recv, ThreadType
<1>2. running' \in BOOLEAN
  BY Zenon DEF Recv, ThreadType, history
<1>3. pc' \in {"halted", "check", "recv"} /\ chip' \in Vatas
  BY EmitterAssumption DEF EmitterAssumption, Recv, Vatas
<1>4. ThreadType' /\ BufInv'
  BY <1>1, <1>2, <1>3 DEF ThreadType, BufInv, Recv, PCs
<1> QED
  BY <1>4, QueueKept, MapKept DEF Recv, mapVars

LEMMA CheckInv ==
  ASSUME EmitterInv, Check
  PROVE  EmitterInv'
<1> USE DEF EmitterInv
<1>1. pc' \in {"read", "check", "recv"} /\ chip' \in Vatas
  BY EmitterAssumption DEF EmitterAssumption, ThreadType, Check, Vatas
<1>2. UNCHANGED <<running, inproc, buf, scan>> /\ pc = "check"
  BY DEF Check, history
<1>3. ThreadType' /\ BufInv'
  BY <1>1, <1>2 DEF ThreadType, BufInv, PCs
<1> QED
  BY <1>3, QueueKept, MapKept DEF Check, mapVars

LEMMA NextChipType ==
  ASSUME chip \in Vatas, NextChip
  PROVE  chip' \in Vatas /\ pc' \in {"read", "recv"}
BY EmitterAssumption DEF EmitterAssumption, Vatas, NextChip

LEMMA ReadFifoInv ==
  ASSUME EmitterInv, ReadFifo
  PROVE  EmitterInv'
<1> USE DEF EmitterInv
<1>1. chip \in Vatas
  BY DEF ThreadType
<1>2. UNCHANGED <<running, inproc, packets, old, arrived>> /\ pc = "read"
  BY DEF ReadFifo, mapVars
<1>3. CASE fifo[chip] = <<>>
  <2>1. NextChip /\ UNCHANGED <<buf, scan, fifo>>
    BY <1>3 DEF ReadFifo
  <2>2. ThreadType' /\ BufInv'
    BY <1>1, <1>2, <2>1, NextChipType DEF ThreadType, BufInv, PCs
  <2> QED
    BY <1>2, <2>1, <2>2, QueueKept, MapKept
<1>4. CASE fifo[chip] # <<>>
  <2>1. /\ buf' = Head(fifo[chip])
        /\ fifo' = [fifo EXCEPT ![chip] = Tail(@)]
        /\ scan' \in {old, {}}
        /\ pc' \in {"expire", "store"}
        /\ pc' = "store" => scan' = {}
        /\ chip' = chip
    BY <1>4 DEF ReadFifo
  <2>3. QueueInv' /\ buf' \in Frame /\ buf'.vata = chip /\ buf'.n = Taken(chip)'
    BY <1>1, <1>2, <1>4, <2>1, TakeFromFifo
  <2>4. ThreadType'
    BY <1>2, <2>1 DEF ThreadType, PCs
  <2>5. BufInv'
    BY <2>1, <2>3 DEF BufInv, Taken
  <2>6. MapType'
    BY <1>2, <2>1 DEF MapType, Keys
  <2> QED
    BY <2>3, <2>4, <2>5, <2>6
<1> QED
  BY <1>3, <1>4

LEMMA ExpireInv ==
  ASSUME EmitterInv, Expire
  PROVE  EmitterInv'
<1> USE DEF EmitterInv
<1>1. PICK k \in scan : /\ packets' = Without(packets, k)
                        /\ old' = old \ {k}
                        /\ scan' \subseteq scan \ {k}
                        /\ pc' \in {"store", "expire", "crashed"}
                        /\ pc' = "store" => scan' = {}
  <2>1. PICK k \in scan, rest \in SUBSET scan :
           /\ k \notin rest /\ packets' = Without(packets, k) /\ old' = old \ {k}
           /\ scan' = rest
           /\ pc' \in {IF rest = {} THEN "store" ELSE "expire", "crashed"}
    BY DEF Expire
  <2> QED
    BY <2>1
<1>2. k \in Keys /\ scan \subseteq Keys
  BY DEF MapType
<1>3. MapType'
  BY <1>1, <1>2, MapLoses
<1>4. UNCHANGED <<running, chip, inproc, buf, fifo, arrived>> /\ pc = "expire"
  BY DEF Expire
<1>5. ThreadType' /\ QueueInv'
  BY <1>1, <1>4, QueueKept DEF ThreadType, PCs
<1>6. BufInv'
  BY <1>1, <1>4 DEF BufInv, Taken
<1> QED
  BY <1>3, <1>5, <1>6

\* What was waiting of the event in hand, and what is after it was stored.
Before == IF buf.id \in Keys THEN packets[buf.id] ELSE <<>>
After == [v \in DOMAIN Before \cup {buf.vata} |-> IF v = buf.vata THEN buf ELSE Before[v]]

LEMMA StoreEffect ==
  ASSUME EmitterInv, Store
  PROVE  /\ Keys' = Keys \cup {buf.id}
         /\ packets'[buf.id] = After
         /\ \A k \in Keys \ {buf.id} : packets'[k] = packets[k]
         /\ replaced' = replaced \cup {Before[v] : v \in DOMAIN Before \cap {buf.vata}}
         /\ IF DOMAIN After = Vatas THEN pc' = "send" /\ chip' = chip ELSE NextChip
         /\ buf \in Frame /\ buf.vata = chip /\ buf.n = Taken(chip) /\ pc = "store"
         /\ UNCHANGED <<running, buf, scan, old, sent, inproc, fifo, arrived>>
<1>1. packets' = [k \in Keys \cup {buf.id} |-> IF k = buf.id THEN After ELSE packets[k]]
  BY Zenon DEF Store, Before, After
<1>2. Keys' = Keys \cup {buf.id}
  BY <1>1 DEF Keys
<1>3. packets'[buf.id] = After /\ \A k \in Keys \ {buf.id} : packets'[k] = packets[k]
  BY <1>1, Zenon
<1>4. buf \in Frame /\ buf.vata = chip /\ buf.n = Taken(chip) /\ pc = "store"
  BY DEF Store, EmitterInv, BufInv
<1>5. /\ replaced' = replaced \cup {Before[v] : v \in DOMAIN Before \cap {buf.vata}}
      /\ IF DOMAIN After = Vatas THEN pc' = "send" /\ chip' = chip ELSE NextChip
  BY Zenon DEF Store, Before, After, IsDone
<1>6. UNCHANGED <<running, buf, scan, old, sent, inproc, fifo, arrived>>
  BY DEF Store
<1> QED
  BY <1>2, <1>3, <1>4, <1>5, <1>6

\* The event holds the frame in hand, and what it held of the other chips.
LEMMA AfterIs ==
  ASSUME EmitterInv, buf \in Frame
  PROVE  /\ DOMAIN After = DOMAIN Before \cup {buf.vata}
         /\ After[buf.vata] = buf
         /\ \A v \in DOMAIN Before \ {buf.vata} : After[v] = Before[v]
         /\ After = [v \in DOMAIN After |-> After[v]]
         /\ DOMAIN Before \subseteq Vatas
         /\ buf.vata \in Vatas /\ buf.id \in EventIds
         /\ \A v \in DOMAIN Before :
              Before[v] \in Frame /\ Before[v].vata = v /\ Before[v].id = buf.id
<1>1. DOMAIN After = DOMAIN Before \cup {buf.vata}
  BY Zenon DEF After
<1>2. After[buf.vata] = buf /\ \A v \in DOMAIN Before \ {buf.vata} : After[v] = Before[v]
  BY Zenon DEF After
<1>3. After = [v \in DOMAIN After |-> After[v]]
  BY Zenon DEF After
<1>4. buf.vata \in Vatas /\ buf.id \in EventIds
  BY DEF Frame
<1>5. CASE buf.id \in Keys
  <2>1. Before = packets[buf.id]
    BY <1>5 DEF Before
  <2>2. DOMAIN packets[buf.id] \subseteq Vatas
    BY <1>5 DEF EmitterInv, MapType
  <2>3. \A v \in DOMAIN packets[buf.id] :
          /\ packets[buf.id][v] \in Frame /\ packets[buf.id][v].vata = v
          /\ packets[buf.id][v].id = buf.id
    BY <1>5 DEF EmitterInv, MapType
  <2> QED
    BY <1>1, <1>2, <1>3, <1>4, <2>1, <2>2, <2>3
<1>6. CASE buf.id \notin Keys
  <2>1. DOMAIN Before = {}
    BY <1>6, EmptyMap DEF Before
  <2> QED
    BY <1>1, <1>2, <1>3, <1>4, <2>1
<1> QED
  BY <1>5, <1>6

LEMMA StoreInv ==
  ASSUME EmitterInv, Store
  PROVE  EmitterInv'
<1> USE StoreEffect
<1>1. chip' \in Vatas /\ pc' \in {"send", "read", "recv"}
  BY NextChipType DEF EmitterInv, ThreadType
<1>2. ThreadType'
  BY <1>1 DEF EmitterInv, ThreadType, PCs
<1>3. QueueInv'
  BY QueueKept DEF EmitterInv
<1>4. BufInv'
  BY NextChipType DEF EmitterInv, BufInv, ThreadType
<1>5. MapType'
  <2>1. DOMAIN After \in (SUBSET Vatas) \ {{}}
    BY AfterIs
  <2>2. \A v \in DOMAIN After : After[v] \in Frame /\ After[v].vata = v /\ After[v].id = buf.id
    BY AfterIs
  <2>3. Keys' \subseteq EventIds /\ old' \subseteq Keys' /\ scan' \subseteq Keys'
    BY AfterIs DEF EmitterInv, MapType
  <2>4. ASSUME NEW k \in Keys'
        PROVE  /\ DOMAIN packets'[k] \in (SUBSET Vatas) \ {{}}
               /\ \A v \in DOMAIN packets'[k] :
                    packets'[k][v] \in Frame /\ packets'[k][v].vata = v /\ packets'[k][v].id = k
               /\ packets'[k] = [v \in DOMAIN packets'[k] |-> packets'[k][v]]
    <3>1. CASE k = buf.id
      BY <2>1, <2>2, <3>1, AfterIs
    <3>2. CASE k \in Keys \ {buf.id}
      BY <3>2 DEF EmitterInv, MapType
    <3> QED
      BY <3>1, <3>2
  <2> QED
    BY <2>3, <2>4, Zenon DEF MapType
<1> QED
  BY <1>2, <1>3, <1>4, <1>5 DEF EmitterInv

LEMMA SendStepInv ==
  ASSUME EmitterInv, SendInv, Send
  PROVE  EmitterInv'
<1> USE DEF EmitterInv
<1>1. pc = "send" /\ buf.id \in Keys /\ scan = {}
  BY DEF Send, SendInv, BufInv
<1>2. /\ packets' = Without(packets, buf.id) /\ old' = old \ {buf.id} /\ NextChip
      /\ UNCHANGED <<running, buf, scan, inproc, fifo, arrived>>
  BY DEF Send
<1>3. MapType'
  BY <1>1, <1>2, MapLoses
<1>4. ThreadType'
  BY <1>2, NextChipType DEF ThreadType, PCs
<1>5. BufInv'
  BY <1>1, <1>2, NextChipType DEF BufInv, ThreadType
<1> QED
  BY <1>2, <1>3, <1>4, <1>5, QueueKept

\* So do the clock, the chips and the server.
LEMMA AgeInv ==
  ASSUME EmitterInv, NEW k \in EventIds, Age(k)
  PROVE  EmitterInv'
<1> USE DEF EmitterInv
<1>1. UNCHANGED <<pc, running, chip, buf, scan, packets, inproc, fifo, arrived>>
  BY DEF Age, threadVars, history
<1>2. MapType'
  BY <1>1 DEF MapType, Keys, Age
<1>3. ThreadType' /\ BufInv'
  BY <1>1 DEF ThreadType, BufInv, Taken
<1> QED
  BY <1>1, <1>2, <1>3, QueueKept

LEMMA ArriveInv ==
  ASSUME EmitterInv, NEW v \in Vatas, NEW id \in EventIds, Arrive(v, id)
  PROVE  EmitterInv'
<1> USE DEF EmitterInv
<1>1. UNCHANGED <<pc, running, chip, buf, scan, packets, old, inproc>>
  BY DEF Arrive, threadVars, mapVars, history
<1>2. QueueInv' /\ \A w \in Vatas : Taken(w)' = Taken(w)
  BY ArriveAtFifo
<1>3. ThreadType' /\ BufInv'
  BY <1>1, <1>2 DEF ThreadType, BufInv
<1> QED
  BY <1>1, <1>2, <1>3, MapKept

LEMMA MessageInv ==
  ASSUME EmitterInv, NEW m \in {"start", "stop", "halt"}, Message(m)
  PROVE  EmitterInv'
<1> USE DEF EmitterInv
<1>1. UNCHANGED <<pc, running, chip, buf, scan, packets, old, fifo, arrived>>
  BY DEF Message, threadVars, mapVars, history
<1>2. inproc' \in Seq({"start", "stop", "halt"})
  BY AppendProperties DEF Message, ThreadType
<1>3. ThreadType' /\ BufInv'
  BY <1>1, <1>2 DEF ThreadType, BufInv, Taken
<1> QED
  BY <1>1, <1>3, QueueKept, MapKept

-----------------------------------------------------------------------------
(* Complete events.                                                        *)

\* A thread that does not send finds only incomplete events.
LEMMA SendInvStep ==
  ASSUME EmitterInv, SendInv, [Next]_vars
  PROVE  SendInv'
<1> USE DEF SendInv
<1>1. CASE Recv
  BY <1>1 DEF Recv, mapVars, Keys
<1>2. CASE Check
  BY <1>2 DEF Check, mapVars, Keys
<1>3. CASE ReadFifo
  BY <1>3, NextChipType DEF ReadFifo, mapVars, Keys, EmitterInv, ThreadType
<1>4. CASE Expire
  <2>1. PICK k \in scan : packets' = Without(packets, k) /\ pc' # "send"
    BY <1>4 DEF Expire
  <2>2. pc = "expire"
    BY <1>4 DEF Expire
  <2> QED
    BY <2>1, <2>2 DEF Keys, Without
<1>5. CASE Store
  <2>1. CASE DOMAIN After = Vatas
    BY <1>5, <2>1, StoreEffect
  <2>2. CASE DOMAIN After # Vatas
    BY <1>5, <2>2, StoreEffect, NextChipType DEF EmitterInv, ThreadType
  <2> QED
    BY <2>1, <2>2
<1>6. CASE Send
  <2>1. pc = "send" /\ packets' = Without(packets, buf.id) /\ pc' # "send"
    BY <1>6, NextChipType DEF Send, EmitterInv, ThreadType
  <2> QED
    BY <2>1 DEF Keys, Without
<1>7. ASSUME NEW k \in EventIds, Age(k) PROVE SendInv'
  BY <1>7 DEF Age, threadVars, Keys
<1>8. ASSUME NEW v \in Vatas, NEW id \in EventIds, Arrive(v, id) PROVE SendInv'
  BY <1>8 DEF Arrive, threadVars, mapVars, Keys
<1>9. ASSUME NEW m \in {"start", "stop", "halt"}, Message(m) PROVE SendInv'
  BY <1>9 DEF Message, threadVars, mapVars, Keys
<1>10. CASE UNCHANGED vars
  BY <1>10 DEF vars, threadVars, mapVars, Keys
<1> QED
  BY <1>1, <1>2, <1>3, <1>4, <1>5, <1>6, <1>7, <1>8, <1>9, <1>10 DEF Next, Thread

\* Both are invariants of the emitter, each with the other's help.
LEMMA Invariance == Spec => [](EmitterInv /\ SendInv)
<1>1. Init => EmitterInv /\ SendInv
  BY InitInv, EmptyMap DEF Init, SendInv, Keys
<1>2. EmitterInv /\ SendInv /\ [Next]_vars => (EmitterInv /\ SendInv)'
  <2> SUFFICES ASSUME EmitterInv, SendInv, [Next]_vars PROVE EmitterInv'
    BY SendInvStep
  <2>1. CASE Thread
    BY <2>1, RecvInv, CheckInv, ReadFifoInv, ExpireInv, StoreInv, SendStepInv DEF Thread
  <2>2. ASSUME NEW k \in EventIds, Age(k) PROVE EmitterInv'
    BY <2>2, AgeInv
  <2>3. ASSUME NEW v \in Vatas, NEW id \in EventIds, Arrive(v, id) PROVE EmitterInv'
    BY <2>3, ArriveInv
  <2>4. ASSUME NEW m \in {"start", "stop", "halt"}, Message(m) PROVE EmitterInv'
    BY <2>4, MessageInv
  <2>5. CASE UNCHANGED vars
    <3>1. UNCHANGED <<pc, running, chip, buf, scan, packets, old, inproc, fifo, arrived>>
      BY <2>5 DEF vars, threadVars, mapVars, history
    <3>2. ThreadType' /\ BufInv'
      BY <3>1 DEF EmitterInv, ThreadType, BufInv, Taken
    <3> QED
      BY <3>1, <3>2, QueueKept, MapKept DEF EmitterInv
  <2> QED
    BY <2>1, <2>2, <2>3, <2>4, <2>5 DEF Next
<1> QED
  BY <1>1, <1>2, PTL DEF Spec

\* The type invariant of the emitter: its map holds packets of its chips, its
\* queues frames and messages.
THEOREM TypeCorrect == Spec => []TypeOK
<1>1. EmitterInv => TypeOK
  <2> SUFFICES ASSUME EmitterInv PROVE TypeOK
    OBVIOUS
  <2>1. ASSUME NEW k \in Keys PROVE packets[k] \in Packet
    <3> DEFINE C == DOMAIN packets[k]
    <3>1. C \in (SUBSET Vatas) \ {{}} /\ packets[k] \in [C -> Frame]
      BY DEF EmitterInv, MapType
    <3> QED
      BY <3>1 DEF Packet
  <2>2. ThreadType /\ Keys \subseteq EventIds /\ old \subseteq Keys /\ scan \subseteq Keys
    BY DEF EmitterInv, MapType
  <2>3. fifo \in [Vatas -> Seq(Frame)] /\ buf \in Frame \cup {<<>>}
        /\ (pc \in {"expire", "store", "send"} => buf \in Frame /\ buf.vata = chip)
    BY DEF EmitterInv, QueueInv, BufInv
  <2> QED
    BY <2>1, <2>2, <2>3 DEF TypeOK, ThreadType
<1> QED
  BY <1>1, Invariance, PTL

\* An event all chips have delivered never stays behind in the map, however
\* many chips there are and in whatever order their packets come.
THEOREM CompleteEventsGoOut == Spec => []CompleteGoesOut
<1>1. SendInv => CompleteGoesOut
  BY DEF SendInv, CompleteGoesOut
<1> QED
  BY <1>1, Invariance, PTL

-----------------------------------------------------------------------------
(* The emitter implements EventBuilder.                                    *)

\* A frame is waiting under its own event, at its own chip.
LEMMA WaitingIs ==
  ASSUME EmitterInv
  PROVE  /\ Waiting \subseteq Frame
         /\ \A f \in Waiting :
              f.id \in Keys /\ f.vata \in DOMAIN packets[f.id] /\ packets[f.id][f.vata] = f
         /\ \A k \in Keys : FramesOf(packets[k]) = {f \in Waiting : f.id = k}
<1>1. ASSUME NEW f \in Waiting
      PROVE  /\ f \in Frame /\ f.id \in Keys
             /\ f.vata \in DOMAIN packets[f.id] /\ packets[f.id][f.vata] = f
  <2>1. PICK k \in Keys : f \in FramesOf(packets[k])
    BY DEF Waiting
  <2>2. PICK v \in DOMAIN packets[k] : f = packets[k][v]
    BY <2>1 DEF FramesOf
  <2>3. f \in Frame /\ f.vata = v /\ f.id = k
    BY <2>2 DEF EmitterInv, MapType
  <2> QED
    BY <2>2, <2>3
<1>2. ASSUME NEW k \in Keys PROVE FramesOf(packets[k]) = {f \in Waiting : f.id = k}
  <2>1. FramesOf(packets[k]) \subseteq Waiting
    BY DEF Waiting
  <2>2. \A f \in FramesOf(packets[k]) : f.id = k
    <3>1. \A v \in DOMAIN packets[k] : packets[k][v].id = k
      BY DEF EmitterInv, MapType
    <3> QED
      BY <3>1 DEF FramesOf
  <2>3. \A f \in Waiting : f.id = k => f \in FramesOf(packets[k])
    BY <1>1 DEF FramesOf
  <2> QED
    BY <2>1, <2>2, <2>3
<1> QED
  BY <1>1, <1>2

\* An event that is sent is what was waiting with its identifier.
LEMMA PublishEffect ==
  ASSUME EmitterInv, NEW k \in Keys, packets' = Without(packets, k),
         sent' = sent \cup {packets[k]}
  PROVE  LET event == {f \in Waiting : f.id = k}
         IN  /\ event # {}
             /\ Waiting' = Waiting \ event
             /\ Published' = Published \cup {event}
<1> DEFINE event == {f \in Waiting : f.id = k}
<1>1. FramesOf(packets[k]) = event
  BY WaitingIs
<1>2. event # {}
  <2>1. PICK v \in DOMAIN packets[k] : TRUE
    BY DEF EmitterInv, MapType
  <2>2. packets[k][v] \in FramesOf(packets[k])
    BY DEF FramesOf
  <2> QED
    BY <1>1, <2>2
<1>3. Keys' = Keys \ {k} /\ \A j \in Keys \ {k} : packets'[j] = packets[j]
  BY DEF Keys, Without
<1>4. Waiting' = UNION {FramesOf(packets[j]) : j \in Keys \ {k}}
  BY <1>3 DEF Waiting, FramesOf
<1>5. Waiting' = Waiting \ event
  <2>1. ASSUME NEW f \in Waiting, f.id # k PROVE f \in Waiting'
    <3>1. f.id \in Keys \ {k} /\ f \in FramesOf(packets[f.id])
      BY <2>1, WaitingIs DEF FramesOf
    <3> QED
      BY <1>4, <3>1
  <2>2. ASSUME NEW f \in Waiting' PROVE f \in Waiting /\ f.id # k
    <3>1. PICK j \in Keys \ {k} : f \in FramesOf(packets[j])
      BY <1>4
    <3>2. f \in {g \in Waiting : g.id = j}
      BY <3>1, WaitingIs
    <3> QED
      BY <3>2
  <2> QED
    BY <2>1, <2>2
<1>6. Published' = Published \cup {event}
  BY <1>1 DEF Published, FramesOf
<1> QED
  BY <1>2, <1>5, <1>6

\* A frame that is stored waits, instead of its chip's earlier one.
LEMMA GatherEffect ==
  ASSUME EmitterInv, Store
  PROVE  LET rivals == {g \in Waiting : g.vata = buf.vata /\ g.id = buf.id}
         IN  /\ Waiting' = (Waiting \ rivals) \cup {buf}
             /\ replaced' = replaced \cup rivals
             /\ Published' = Published
<1> DEFINE rivals == {g \in Waiting : g.vata = buf.vata /\ g.id = buf.id}
<1>1. /\ Keys' = Keys \cup {buf.id}
      /\ packets'[buf.id] = After
      /\ \A k \in Keys \ {buf.id} : packets'[k] = packets[k]
      /\ buf \in Frame
      /\ sent' = sent
  BY StoreEffect
<1>2. /\ DOMAIN After = DOMAIN Before \cup {buf.vata}
      /\ After[buf.vata] = buf
      /\ \A v \in DOMAIN Before \ {buf.vata} : After[v] = Before[v]
  BY <1>1, AfterIs
<1>3. \A v \in DOMAIN Before : Before[v] \in Waiting /\ Before[v].vata = v /\ Before[v].id = buf.id
  <2>1. CASE buf.id \in Keys
    BY <1>1, <2>1, AfterIs DEF Before, Waiting, FramesOf
  <2>2. CASE buf.id \notin Keys
    BY <2>2, EmptyMap DEF Before
  <2> QED
    BY <2>1, <2>2
<1>4. \A f \in Waiting : f.id = buf.id => f.vata \in DOMAIN Before /\ Before[f.vata] = f
  BY WaitingIs DEF Before
<1>5. rivals = {Before[v] : v \in DOMAIN Before \cap {buf.vata}}
  BY <1>3, <1>4
<1>6. ASSUME NEW f \in Waiting' PROVE f \in (Waiting \ rivals) \cup {buf}
  <2>1. PICK k \in Keys' : f \in FramesOf(packets'[k])
    BY DEF Waiting, FramesOf
  <2>2. CASE k = buf.id
    <3>1. PICK v \in DOMAIN After : f = After[v]
      BY <1>1, <2>1, <2>2 DEF FramesOf
    <3> QED
      BY <1>2, <1>3, <3>1
  <2>3. CASE k # buf.id
    <3>1. f \in {g \in Waiting : g.id = k}
      BY <1>1, <2>1, <2>3, WaitingIs
    <3> QED
      BY <2>3, <3>1
  <2> QED
    BY <2>2, <2>3
<1>7. ASSUME NEW f \in (Waiting \ rivals) \cup {buf} PROVE f \in Waiting'
  <2>1. CASE f = buf
    <3>1. buf \in FramesOf(packets'[buf.id])
      BY <1>1, <1>2 DEF FramesOf
    <3> QED
      BY <1>1, <2>1, <3>1 DEF Waiting, FramesOf
  <2>2. CASE f \in Waiting \ rivals /\ f.id = buf.id
    <3>1. f.vata \in DOMAIN Before \ {buf.vata} /\ Before[f.vata] = f
      BY <1>4, <2>2
    <3>2. f \in FramesOf(packets'[buf.id])
      BY <1>1, <1>2, <3>1 DEF FramesOf
    <3> QED
      BY <1>1, <3>2 DEF Waiting, FramesOf
  <2>3. CASE f \in Waiting \ rivals /\ f.id # buf.id
    <3>1. f.id \in Keys \ {buf.id} /\ f \in FramesOf(packets[f.id])
      BY <2>3, WaitingIs
    <3>2. f \in FramesOf(packets'[f.id])
      BY <1>1, <3>1
    <3> QED
      BY <1>1, <3>1, <3>2 DEF Waiting, FramesOf
  <2> QED
    BY <2>1, <2>2, <2>3
<1>8. replaced' = replaced \cup rivals
  BY <1>5, StoreEffect
<1>9. Published' = Published
  BY <1>1 DEF Published
<1> QED
  BY <1>6, <1>7, <1>8, <1>9

\* Steps that move no frame in or out of the map.
LEMMA NothingMoves ==
  ASSUME UNCHANGED <<packets, sent, replaced>>
  PROVE  UNCHANGED <<Waiting, Published, replaced, Handled>>
BY DEF Waiting, Published, Handled, Keys, FramesOf

\* What the thread has handled keeps numbers it has taken.
LEMMA HandledStep ==
  ASSUME EmitterInv, SendInv, HandledInv, [Next]_vars
  PROVE  HandledInv'
<1>0. \A f \in Frame : f.vata \in Vatas
  BY DEF Frame
<1>1. ASSUME Handled' \subseteq Handled, \A v \in Vatas : Taken(v)' = Taken(v),
             pc' \in {"expire", "store"} => pc \in {"expire", "store"} /\ chip' = chip
      PROVE  HandledInv'
  BY <1>0, <1>1 DEF HandledInv, EmitterInv, ThreadType
<1>2. CASE Recv \/ Check
  <2>1. UNCHANGED <<packets, sent, replaced, fifo, arrived>>
    BY <1>2 DEF Recv, Check, mapVars, history
  <2>2. pc' \notin {"expire", "store"}
    BY <1>2 DEF Recv, Check
  <2> QED
    BY <1>1, <2>1, <2>2, NothingMoves, QueueKept DEF EmitterInv
<1>3. CASE ReadFifo /\ fifo[chip] = <<>>
  <2>1. UNCHANGED <<packets, sent, replaced, fifo, arrived>>
    BY <1>3 DEF ReadFifo, mapVars
  <2>2. pc' \notin {"expire", "store"}
    BY <1>3, NextChipType DEF ReadFifo, EmitterInv, ThreadType
  <2> QED
    BY <1>1, <2>1, <2>2, NothingMoves, QueueKept DEF EmitterInv
<1>4. CASE ReadFifo /\ fifo[chip] # <<>>
  <2>1. UNCHANGED <<packets, sent, replaced, arrived, chip>>
    BY <1>4 DEF ReadFifo, mapVars
  <2>2. fifo' = [fifo EXCEPT ![chip] = Tail(@)] /\ chip \in Vatas
    BY <1>4 DEF ReadFifo, EmitterInv, ThreadType
  <2>3. /\ Taken(chip)' = Taken(chip) + 1
        /\ \A w \in Vatas \ {chip} : Taken(w)' = Taken(w)
    BY <1>4, <2>1, <2>2, TakeFromFifo DEF EmitterInv
  <2>4. pc = "read" /\ Taken(chip) \in Int
    BY <1>4, <2>2, EmitterAssumption
       DEF EmitterAssumption, ReadFifo, EmitterInv, QueueInv, Taken
  <2>5. ASSUME NEW f \in Handled
        PROVE  /\ f \in Frame
               /\ f.n <= Taken(f.vata)'
               /\ f.vata = chip => f.n < Taken(chip)'
    <3>1. f \in Frame /\ f.n <= Taken(f.vata)
      BY DEF HandledInv
    <3>2. f.n \in Int /\ f.vata \in Vatas
      BY <3>1, EmitterAssumption DEF EmitterAssumption, Frame
    <3>3. CASE f.vata = chip
      <4>1. f.n <= Taken(chip) /\ f.n < Taken(chip)'
        BY <2>3, <2>4, <3>1, <3>2, <3>3
      <4>2. Taken(f.vata)' = Taken(chip)'
        BY <2>1, <3>3 DEF Taken
      <4>3. f.n <= Taken(chip)'
        BY <2>3, <2>4, <3>2, <4>1
      <4> QED
        BY <3>1, <4>1, <4>2, <4>3
    <3>4. CASE f.vata # chip
      BY <2>3, <3>1, <3>2, <3>4
    <3> QED
      BY <3>1, <3>3, <3>4
  <2>6. Handled' = Handled
    BY <2>1, NothingMoves
  <2> QED
    BY <2>1, <2>5, <2>6 DEF HandledInv
<1>5. CASE Expire
  <2>1. PICK k \in scan : /\ packets' = Without(packets, k)
                          /\ sent' = sent \cup {packets[k]}
    BY <1>5 DEF Expire
  <2>2. k \in Keys
    BY DEF EmitterInv, MapType
  <2>3. UNCHANGED <<replaced, chip, fifo, arrived>> /\ pc = "expire"
    BY <1>5 DEF Expire
  <2>4. Handled' \subseteq Handled
    BY <2>1, <2>2, <2>3, PublishEffect DEF Handled
  <2> QED
    BY <1>1, <2>3, <2>4, QueueKept DEF EmitterInv
<1>6. CASE Store
  <2>1. Handled' \subseteq Handled \cup {buf}
    BY <1>6, GatherEffect DEF Handled
  <2>2. /\ buf \in Frame /\ buf.vata = chip /\ buf.n = Taken(chip)
        /\ UNCHANGED <<fifo, arrived>> /\ pc' \notin {"expire", "store"}
    BY <1>6, StoreEffect, NextChipType DEF EmitterInv, ThreadType
  <2>3. chip \in Vatas /\ \A v \in Vatas : Taken(v)' = Taken(v)
    BY <2>2, QueueKept DEF EmitterInv, ThreadType
  <2>4. buf.n <= Taken(buf.vata)
    BY <2>2, EmitterAssumption DEF EmitterAssumption, Frame
  <2> QED
    BY <1>0, <2>1, <2>2, <2>3, <2>4 DEF HandledInv
<1>7. CASE Send
  <2>1. /\ packets' = Without(packets, buf.id)
        /\ sent' = sent \cup {packets[buf.id]}
        /\ buf.id \in Keys
        /\ UNCHANGED <<replaced, fifo, arrived>>
        /\ pc' \notin {"expire", "store"}
    BY <1>7, NextChipType DEF Send, SendInv, EmitterInv, ThreadType
  <2>2. Handled' \subseteq Handled
    BY <2>1, PublishEffect DEF Handled
  <2> QED
    BY <1>1, <2>1, <2>2, QueueKept DEF EmitterInv
<1>8. ASSUME NEW k \in EventIds, Age(k) PROVE HandledInv'
  <2>1. UNCHANGED <<packets, sent, replaced, fifo, arrived, pc, chip>>
    BY <1>8 DEF Age, threadVars, history
  <2> QED
    BY <1>1, <2>1, NothingMoves, QueueKept DEF EmitterInv
<1>9. ASSUME NEW v \in Vatas, NEW id \in EventIds, Arrive(v, id) PROVE HandledInv'
  <2>1. UNCHANGED <<packets, sent, replaced, pc, chip>>
    BY <1>9 DEF Arrive, threadVars, mapVars, history
  <2>2. \A w \in Vatas : Taken(w)' = Taken(w)
    BY <1>9, ArriveAtFifo DEF EmitterInv
  <2> QED
    BY <1>1, <2>1, <2>2, NothingMoves
<1>10. ASSUME NEW m \in {"start", "stop", "halt"}, Message(m) PROVE HandledInv'
  <2>1. UNCHANGED <<packets, sent, replaced, fifo, arrived, pc, chip>>
    BY <1>10 DEF Message, threadVars, mapVars, history
  <2> QED
    BY <1>1, <2>1, NothingMoves, QueueKept DEF EmitterInv
<1>11. CASE UNCHANGED vars
  <2>1. UNCHANGED <<packets, sent, replaced, fifo, arrived, pc, chip>>
    BY <1>11 DEF vars, threadVars, mapVars, history
  <2> QED
    BY <1>1, <2>1, NothingMoves, QueueKept DEF EmitterInv
<1> QED
  BY <1>2, <1>3, <1>4, <1>5, <1>6, <1>7, <1>8, <1>9, <1>10, <1>11 DEF Next, Thread

\* Nothing is handled at the start.
LEMMA NothingHandled ==
  ASSUME Init
  PROVE  Waiting = {} /\ Published = {} /\ replaced = {}
BY EmptyMap DEF Init, Waiting, Published, Keys

LEMMA HandledInit == Init => HandledInv
BY NothingHandled DEF HandledInv, Handled

\* Storing a packet gathers its frame, which was never handled before; sending
\* an event, complete or old, publishes what waits of it; all other steps
\* change nothing EventBuilder sees.
LEMMA EmitterStep ==
  ASSUME EmitterInv, SendInv, HandledInv, [Next]_vars
  PROVE  [EB!EBNext]_EB!ebVars
<1> USE DEF EB!Rivals
<1>1. ASSUME UNCHANGED <<packets, sent, replaced>> PROVE UNCHANGED EB!ebVars
  <2>1. UNCHANGED <<Waiting, Published, replaced>>
    BY <1>1, NothingMoves
  <2> QED
    BY <2>1, Zenon DEF EB!ebVars, Waiting, Published
<1>2. ASSUME NEW k \in Keys, packets' = Without(packets, k),
             sent' = sent \cup {packets[k]}, replaced' = replaced
      PROVE  EB!EBNext
  <2>1. k \in EventIds
    BY DEF EmitterInv, MapType
  <2>2. EB!Publish(k)
    BY <1>2, PublishEffect, Zenon DEF EB!Publish, Waiting, Published
  <2> QED
    BY <2>1, <2>2 DEF EB!EBNext
<1>3. CASE Recv \/ Check \/ ReadFifo
  BY <1>1, <1>3 DEF Recv, Check, ReadFifo, mapVars, history
<1>4. CASE Expire
  <2>1. PICK k \in scan : packets' = Without(packets, k) /\ sent' = sent \cup {packets[k]}
    BY <1>4 DEF Expire
  <2>2. k \in Keys /\ replaced' = replaced
    BY <1>4 DEF Expire, EmitterInv, MapType
  <2> QED
    BY <1>2, <2>1, <2>2
<1>5. CASE Store
  <2>1. buf \in Frame /\ buf \notin Handled
    <3>1. buf \in Frame /\ buf.vata = chip /\ buf.n = Taken(chip) /\ pc = "store"
      BY <1>5, StoreEffect
    <3>2. ~(buf.n < Taken(chip))
      BY <3>1, EmitterAssumption DEF EmitterAssumption, Frame
    <3> QED
      BY <3>1, <3>2 DEF HandledInv
  <2>2. buf \notin Waiting \cup replaced \cup UNION Published
    BY <2>1 DEF Handled
  <2>3. EB!Gather(buf)
    BY <1>5, <2>2, GatherEffect, Zenon DEF EB!Gather, Waiting, Published
  <2>4. buf \in EB!Frame
    BY <2>1, Zenon DEF Frame, EB!Frame, Vatas, EB!Vatas
  <2> QED
    BY <2>3, <2>4 DEF EB!EBNext
<1>6. CASE Send
  BY <1>2, <1>6 DEF Send, SendInv
<1>7. ASSUME NEW k \in EventIds, Age(k) PROVE UNCHANGED EB!ebVars
  BY <1>1, <1>7 DEF Age, history
<1>8. ASSUME NEW v \in Vatas, NEW id \in EventIds, Arrive(v, id) PROVE UNCHANGED EB!ebVars
  BY <1>1, <1>8 DEF Arrive, mapVars, history
<1>9. ASSUME NEW m \in {"start", "stop", "halt"}, Message(m) PROVE UNCHANGED EB!ebVars
  BY <1>1, <1>9 DEF Message, mapVars, history
<1>10. CASE UNCHANGED vars
  BY <1>1, <1>10 DEF vars, mapVars, history
<1> QED
  BY <1>3, <1>4, <1>5, <1>6, <1>7, <1>8, <1>9, <1>10 DEF Next, Thread

\* The emitter implements EventBuilder: no frame is lost, mixed with those of
\* another event, or sent twice, whatever the thread was doing when it came.
THEOREM EmitterBuildsEvents == Spec => BuildsEvents
<1>1. Init => EB!EBInit
  <2> SUFFICES ASSUME Init PROVE EB!EBInit
    OBVIOUS
  <2> QED
    BY NothingHandled, Zenon DEF EB!EBInit, Waiting, Published
<1> QED
  BY <1>1, HandledInit, HandledStep, EmitterStep, Invariance, PTL
     DEF Spec, BuildsEvents, EB!EBSpec

-----------------------------------------------------------------------------
(* What EventBuilder promises holds of the emitter.                        *)

\* The same steps, in terms of what is waiting and what was published.
LEMMA Observed ==
  ASSUME [EB!EBNext]_EB!ebVars
  PROVE  \/ UNCHANGED <<Waiting, Published, replaced>>
         \/ \E f \in Frame :
              LET rivals == {g \in Waiting : g.vata = f.vata /\ g.id = f.id}
              IN  /\ f \notin Waiting \cup replaced \cup UNION Published
                  /\ Waiting' = (Waiting \ rivals) \cup {f}
                  /\ replaced' = replaced \cup rivals
                  /\ Published' = Published
         \/ \E k \in EventIds :
              LET event == {f \in Waiting : f.id = k}
              IN  /\ event # {}
                  /\ Published' = Published \cup {event}
                  /\ Waiting' = Waiting \ event
                  /\ replaced' = replaced
<1> USE DEF EB!Rivals, Waiting, Published
<1>1. EB!Frame = Frame
  BY Zenon DEF Frame, EB!Frame, Vatas, EB!Vatas
<1>2. CASE UNCHANGED EB!ebVars
  BY <1>2, Zenon DEF EB!ebVars
<1>3. ASSUME NEW f \in EB!Frame, EB!Gather(f)
      PROVE  LET rivals == {g \in Waiting : g.vata = f.vata /\ g.id = f.id}
             IN  /\ f \notin Waiting \cup replaced \cup UNION Published
                 /\ Waiting' = (Waiting \ rivals) \cup {f}
                 /\ replaced' = replaced \cup rivals
                 /\ Published' = Published
  BY <1>3, Zenon DEF EB!Gather
<1>4. ASSUME NEW k \in EventIds, EB!Publish(k)
      PROVE  LET event == {f \in Waiting : f.id = k}
             IN  /\ event # {}
                 /\ Published' = Published \cup {event}
                 /\ Waiting' = Waiting \ event
                 /\ replaced' = replaced
  BY <1>4, Zenon DEF EB!Publish
<1> HIDE DEF EB!Rivals, Waiting, Published
<1> QED
  BY <1>1, <1>2, <1>3, <1>4, Zenon DEF EB!EBNext

\* A frame waits, was replaced, or was sent, and each chip has one waiting for
\* an event at most.
OnceInv ==
  /\ Waiting \subseteq Frame
  /\ \A f, g \in Waiting : f.id = g.id /\ f.vata = g.vata => f = g
  /\ Waiting \cap replaced = {}
  /\ \A p \in Published :
       /\ p # {} /\ p \subseteq Frame
       /\ \A f, g \in p : f.id = g.id /\ (f.vata = g.vata => f = g)
       /\ p \cap (Waiting \cup replaced) = {}
  /\ \A p, q \in Published : p # q => p \cap q = {}

LEMMA OnceStep ==
  ASSUME OnceInv, [EB!EBNext]_EB!ebVars
  PROVE  OnceInv'
<1> USE DEF OnceInv
<1>1. CASE UNCHANGED <<Waiting, Published, replaced>>
  BY <1>1
<1>2. ASSUME NEW f \in Frame, NEW rivals,
             rivals = {g \in Waiting : g.vata = f.vata /\ g.id = f.id},
             f \notin Waiting \cup replaced \cup UNION Published,
             Waiting' = (Waiting \ rivals) \cup {f},
             replaced' = replaced \cup rivals, Published' = Published
      PROVE  OnceInv'
  <2>1. Waiting' \cup replaced' = Waiting \cup replaced \cup {f}
    BY <1>2
  <2>2. Waiting' \cap replaced' = {} /\ Waiting' \subseteq Frame
    BY <1>2
  <2>3. \A p \in Published' : p \cap (Waiting' \cup replaced') = {}
    BY <1>2, <2>1
  <2>4. \A g, h \in Waiting' : g.id = h.id /\ g.vata = h.vata => g = h
    BY <1>2
  <2> QED
    BY <1>2, <2>2, <2>3, <2>4
<1>3. ASSUME NEW k \in EventIds, NEW event, event = {f \in Waiting : f.id = k},
             event # {}, Published' = Published \cup {event},
             Waiting' = Waiting \ event, replaced' = replaced
      PROVE  OnceInv'
  <2>1. /\ event \subseteq Frame
        /\ \A f, g \in event : f.id = g.id /\ (f.vata = g.vata => f = g)
        /\ event \cap (Waiting' \cup replaced') = {}
    BY <1>3
  <2>2. \A p \in Published : p \cap event = {}
    BY <1>3
  <2>3. Waiting' \subseteq Waiting
    BY <1>3
  <2>4. \A f, g \in Waiting' : f.id = g.id /\ f.vata = g.vata => f = g
    BY <2>3
  <2>5. ASSUME NEW p \in Published'
        PROVE  /\ p # {} /\ p \subseteq Frame
               /\ \A f, g \in p : f.id = g.id /\ (f.vata = g.vata => f = g)
               /\ p \cap (Waiting' \cup replaced') = {}
    <3>1. CASE p \in Published
      BY <1>3, <2>3, <3>1
    <3>2. CASE p = event
      BY <1>3, <2>1, <3>2
    <3> QED
      BY <1>3, <3>1, <3>2
  <2>6. \A p, q \in Published' : p # q => p \cap q = {}
    BY <1>3, <2>2
  <2>7. Waiting' \subseteq Frame /\ Waiting' \cap replaced' = {}
    BY <1>3, <2>3
  <2> QED
    BY <2>4, <2>5, <2>6, <2>7, Zenon
<1> HIDE DEF OnceInv
<1> QED
  BY <1>1, <1>2, <1>3, Observed, Zenon

\* Every packet sent holds frames of one event, at most one of each chip, and
\* no frame is sent twice, nor sent after a later one has replaced it.
THEOREM FramesPublishedOnce == Spec => []EB!PublishedOnce
<1>1. Init => OnceInv
  BY NothingHandled DEF OnceInv
<1>2. OnceInv => EB!PublishedOnce
  <2>1. EB!Frame = Frame
    BY Zenon DEF Frame, EB!Frame, Vatas, EB!Vatas
  <2> QED
    BY <2>1, Zenon DEF OnceInv, EB!PublishedOnce, Waiting, Published
<1> QED
  BY <1>1, <1>2, OnceStep, HandledInit, HandledStep, EmitterStep, Invariance, PTL DEF Spec

=============================================================================
