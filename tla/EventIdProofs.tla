---------------------------- MODULE EventIdProofs ----------------------------
(***************************************************************************)
(* The identifiers of one event agree and those of successive events       *)
(* differ, for any number of chips, any width of the identifiers and any   *)
(* length of its bits, and chips enabled and disabled at any time.         *)
(*                                                                         *)
(* The argument is one about time: from the moment FEE_busy rises, Bound   *)
(* says for how many clocks an identifier may still be on the line, and no *)
(* chip comes to its header before that (TimeInv).  Until then all chips   *)
(* that FEE_busy listens to have their flags in step (FlagInv) and the     *)
(* same bits (PartInv); from then on they have the same identifier, which  *)
(* is new (AgreeInv, NewInv).                                              *)
(***************************************************************************)
EXTENDS EventId, FiniteSetTheorems, TLAPS

-----------------------------------------------------------------------------
(* Numbers and identifiers.                                                *)

Length == 2 * (Ratio * IdBits)

LEMMA Numbers ==
  /\ IdBits \in Nat /\ IdBits >= 1
  /\ Ratio \in Nat /\ Ratio >= 2
  /\ ReadyCycles \in Nat /\ ReadyCycles >= 1
  /\ MinTail \in Nat /\ MinTail >= 4 /\ MinBusy \in Nat /\ MinBusy >= 4
  /\ MinAcq \in Nat /\ MinAcq >= Length + ReadyCycles + 3
  /\ Length \in Nat
  /\ NewIds \subseteq Ids
<1>1. \A r, n \in Nat : r * n \in Nat
  OBVIOUS
<1>2. Ratio * IdBits \in Nat
  BY <1>1, SendAssumption DEF SendAssumption
<1> QED BY <1>2, SendAssumption DEF SendAssumption, Length, Ids

\* What n bits of 2 * r clocks take.
LEMMA Products ==
  ASSUME NEW r \in Nat, NEW n \in Nat
  PROVE  /\ r * n \in Nat
         /\ n >= 1 => r * n = r * (n - 1) + r /\ r * n >= r
         /\ \A b \in 0 .. n : r * (n - b) \in Nat /\ r * (n - b) <= r * n
<1>1. \A a, b \in Nat : a * b \in Nat
  OBVIOUS
<1>2. ASSUME n >= 1 PROVE r * n = r * (n - 1) + r /\ r * n >= r
  <2>1. n - 1 \in Nat
    BY <1>2
  <2>2. r * (n - 1) \in Nat
    BY <1>1, <2>1
  <2>3. r * n = r * (n - 1) + r
    BY <2>1
  <2> QED BY <2>2, <2>3
<1>3. ASSUME NEW b \in 0 .. n PROVE r * (n - b) \in Nat /\ r * (n - b) <= r * n
  <2>1. n - b \in Nat /\ b \in Nat
    OBVIOUS
  <2>2. r * (n - b) \in Nat /\ r * b \in Nat
    BY <1>1, <2>1
  <2>3. r * n = r * (n - b) + r * b
    BY <2>1
  <2> QED BY <2>2, <2>3
<1> QED BY <1>1, <1>2, <1>3

LEMMA IdTypes ==
  /\ Zero \in Ids
  /\ \A id \in Ids, bit \in {0, 1} : ShiftIn(id, bit) \in Ids
  /\ \A id \in Ids : Following(id) \in Ids
<1>1. IdBits \in Nat
  BY Numbers
<1>2. Zero \in Ids
  BY DEF Zero, Ids
<1>3. ASSUME NEW id \in Ids, NEW bit \in {0, 1} PROVE ShiftIn(id, bit) \in Ids
  <2>1. \A k \in 1 .. IdBits : k < IdBits => k + 1 \in 1 .. IdBits
    BY <1>1
  <2> QED BY <2>1 DEF ShiftIn, Ids
<1>4. ASSUME NEW id \in Ids PROVE Following(id) \in Ids
  <2>1. \A k \in 1 .. IdBits : id[k] \in {0, 1} /\ 1 - id[k] \in {0, 1}
    BY DEF Ids
  <2> QED BY <2>1 DEF Following, Ids
<1> QED BY <1>2, <1>3, <1>4

\* The lowest bit always changes.
LEMMA FollowingDiffers ==
  ASSUME NEW id \in Ids
  PROVE  Following(id) # id
<1>1. IdBits \in Nat /\ IdBits >= 1
  BY Numbers
<1>2. IdBits \in 1 .. IdBits /\ IdBits + 1 .. IdBits = {}
  BY <1>1
<1>3. Following(id)[IdBits] = 1 - id[IdBits]
  BY <1>2 DEF Following
<1>4. id[IdBits] \in {0, 1}
  BY <1>2 DEF Ids
<1> QED BY <1>3, <1>4

LEMMA FlagTypes ==
  ASSUME NEW f \in Flags, NEW b \in BOOLEAN
  PROVE  /\ Push(f, b) \in Flags
         /\ Push(f, b)[1] = b /\ Push(f, b)[2] = f[1] /\ Push(f, b)[3] = f[2]
         /\ f[1] \in BOOLEAN /\ f[2] \in BOOLEAN /\ f[3] \in BOOLEAN
BY DEF Flags, Push

LEMMA QuietFlags ==
  /\ Quiet \in Flags
  /\ (~Quiet[1]) /\ (~Quiet[2]) /\ (~Quiet[3])
BY DEF Quiet, Flags

-----------------------------------------------------------------------------
(* What one clock does to each part.                                       *)

LEMMA ReadyStep ==
  ASSUME TypeOK, Next
  PROVE  /\ ready' \in [last : BOOLEAN, edge : BOOLEAN, high : BOOLEAN, count : 0 .. ReadyCycles]
         /\ ready'.last = ~FEEBusy
         /\ ready'.edge = (~ready.last /\ ~FEEBusy)
         /\ ready'.high = IF ready.high THEN ready.count < ReadyCycles - 1 ELSE ready.edge
         /\ ready'.count = IF ready.high THEN Cap(ready.count, ReadyCycles) ELSE 0
<1>1. ready' = [last |-> ~FEEBusy,
                edge |-> ~ready.last /\ ~FEEBusy,
                high |-> IF ready.high THEN ready.count < ReadyCycles - 1 ELSE ready.edge,
                count |-> IF ready.high THEN Cap(ready.count, ReadyCycles) ELSE 0]
  BY DEF Next, Ready
<1>2. ready.count \in 0 .. ReadyCycles /\ ready.edge \in BOOLEAN /\ ReadyCycles \in Nat
  BY Numbers DEF TypeOK
<1>3. (IF ready.high THEN Cap(ready.count, ReadyCycles) ELSE 0) \in 0 .. ReadyCycles
  BY <1>2 DEF Cap
<1>4. (~FEEBusy) \in BOOLEAN
  BY DEF FEEBusy
<1>5. (IF ready.high THEN ready.count < ReadyCycles - 1 ELSE ready.edge) \in BOOLEAN
  <2>1. (ready.count < ReadyCycles - 1) \in BOOLEAN
    OBVIOUS
  <2> QED BY <1>2, <2>1, Zenon
<1> HIDE DEF FEEBusy
<1>6. /\ ready'.last = ~FEEBusy
      /\ ready'.edge = (~ready.last /\ ~FEEBusy)
      /\ ready'.high = IF ready.high THEN ready.count < ReadyCycles - 1 ELSE ready.edge
      /\ ready'.count = IF ready.high THEN Cap(ready.count, ReadyCycles) ELSE 0
  BY <1>1, Zenon
<1>7. (~ready.last /\ ~FEEBusy) \in BOOLEAN
  OBVIOUS
<1>8. ready' \in [last : BOOLEAN, edge : BOOLEAN, high : BOOLEAN, count : 0 .. ReadyCycles]
  BY <1>1, <1>3, <1>4, <1>5, <1>7, Zenon
<1> QED BY <1>6, <1>8, Zenon

LEMMA GoStep ==
  ASSUME TypeOK, Next
  PROVE  /\ goFsm' \in [wait : BOOLEAN, last : BOOLEAN, go : BOOLEAN]
         /\ goFsm.wait => /\ goFsm'.wait = ~ready.high
                          /\ goFsm'.last = FALSE /\ goFsm'.go = FALSE
         /\ ~goFsm.wait => /\ goFsm'.wait = (~goFsm.last /\ FEEBusy)
                           /\ goFsm'.last = FEEBusy /\ goFsm'.go = goFsm'.wait
<1>1. GenGo /\ FEEBusy \in BOOLEAN
  BY DEF Next, FEEBusy
<1> HIDE DEF FEEBusy
<1> QED BY <1>1 DEF GenGo, FEEReady

\* Clocks since the bit on the line began, of 2 * Ratio.
Since == IF p2s.st = "LATCH_HI" THEN p2s.clk ELSE Ratio + p2s.clk
Sending == p2s.st # "IDLE"

\* What becomes of the line in a clock: it rests, an identifier begins, a bit
\* goes on, the next bit begins, or the last bit is over.
Rests == ~Sending /\ ~goFsm.go /\ ~Sending' /\ p2s' = p2s
Begins ==
  /\ ~Sending /\ goFsm.go
  /\ Sending' /\ Since' = 0 /\ p2s'.bit = 0 /\ p2s'.data = event_id
BitGoesOn ==
  /\ Sending /\ Since < 2 * Ratio - 1
  /\ Sending' /\ Since' = Since + 1 /\ p2s'.bit = p2s.bit /\ p2s'.data = p2s.data
BitChanges ==
  /\ Sending /\ Since = 2 * Ratio - 1 /\ p2s.bit < IdBits - 1
  /\ Sending' /\ Since' = 0 /\ p2s'.bit = p2s.bit + 1 /\ p2s'.data = ShiftIn(p2s.data, 0)
Ends == Sending /\ Since = 2 * Ratio - 1 /\ p2s.bit = IdBits - 1 /\ ~Sending'

LEMMA LineStep ==
  ASSUME TypeOK, Next
  PROVE  /\ Rests \/ Begins \/ BitGoesOn \/ BitChanges \/ Ends
         /\ IncEventId <=> Ends
         /\ p2s' \in [st : {"IDLE", "LATCH_HI", "LATCH_LO"}, clk : 0 .. Ratio - 1,
                      bit : 0 .. IdBits - 1, data : Ids]
         /\ Sending => Since \in 0 .. 2 * Ratio - 1
         /\ EventIdLatch <=> Sending /\ Since < Ratio
         /\ p2s.st = "LATCH_LO" <=> Sending /\ Since >= Ratio
<1>1. /\ p2s \in [st : {"IDLE", "LATCH_HI", "LATCH_LO"}, clk : 0 .. Ratio - 1,
                  bit : 0 .. IdBits - 1, data : Ids]
      /\ event_id \in Ids /\ P2S
  BY DEF TypeOK, Next
<1>2. /\ Ratio \in Nat /\ Ratio >= 2 /\ IdBits \in Nat /\ IdBits >= 1
      /\ p2s.clk \in 0 .. Ratio - 1 /\ p2s.bit \in 0 .. IdBits - 1
      /\ p2s.st \in {"IDLE", "LATCH_HI", "LATCH_LO"}
  BY <1>1, Numbers
<1>3. ShiftIn(p2s.data, 0) \in Ids
  BY <1>1, IdTypes
<1>4. /\ HalfOver <=> p2s.clk = Ratio - 1
      /\ BitOver <=> p2s.st = "LATCH_LO" /\ p2s.clk = Ratio - 1
      /\ IncEventId <=> p2s.st = "LATCH_LO" /\ p2s.clk = Ratio - 1 /\ p2s.bit = IdBits - 1
  BY <1>2 DEF HalfOver, BitOver, IncEventId
<1>5. /\ Sending => Since \in 0 .. 2 * Ratio - 1
      /\ EventIdLatch <=> Sending /\ Since < Ratio
      /\ p2s.st = "LATCH_LO" <=> Sending /\ Since >= Ratio
      /\ Sending /\ Since = 2 * Ratio - 1 <=> p2s.st = "LATCH_LO" /\ p2s.clk = Ratio - 1
  BY <1>2 DEF Sending, Since, EventIdLatch
<1>6. CASE p2s.st = "IDLE" /\ ~goFsm.go
  <2>1. p2s' = p2s
    BY <1>1, <1>6 DEF P2S, StartIdOut
  <2> QED BY <1>1, <1>4, <1>5, <1>6, <2>1 DEF Rests, Ends, Sending
<1>7. CASE p2s.st = "IDLE" /\ goFsm.go
  <2>1. p2s' = [st |-> "LATCH_HI", clk |-> 0, bit |-> 0, data |-> event_id]
    BY <1>1, <1>7 DEF P2S, StartIdOut
  <2>2. 0 \in 0 .. Ratio - 1 /\ 0 \in 0 .. IdBits - 1
    BY <1>2
  <2>3. Begins
    BY <1>7, <2>1 DEF Begins, Sending, Since
  <2> QED BY <1>1, <1>4, <1>5, <1>7, <2>1, <2>2, <2>3 DEF Ends, Sending
<1>8. CASE p2s.st # "IDLE" /\ ~HalfOver
  <2>1. p2s' = [p2s EXCEPT !.clk = p2s.clk + 1]
    BY <1>1, <1>8 DEF P2S
  <2>2. p2s.clk + 1 \in 0 .. Ratio - 1
    BY <1>2, <1>4, <1>8
  <2>3. /\ p2s'.st = p2s.st /\ p2s'.clk = p2s.clk + 1
        /\ p2s'.bit = p2s.bit /\ p2s'.data = p2s.data
    BY <1>1, <2>1
  <2>4. BitGoesOn
    BY <1>2, <1>4, <1>8, <2>3 DEF BitGoesOn, Sending, Since
  <2>5. ~IncEventId /\ ~Ends
    BY <1>4, <1>5, <1>8 DEF Ends
  <2> QED BY <1>1, <1>5, <2>1, <2>2, <2>4, <2>5
<1>9. CASE p2s.st = "LATCH_HI" /\ HalfOver
  <2>1. p2s' = [p2s EXCEPT !.st = "LATCH_LO", !.clk = 0]
    BY <1>1, <1>9 DEF P2S
  <2>2. 0 \in 0 .. Ratio - 1
    BY <1>2
  <2>3. /\ p2s'.st = "LATCH_LO" /\ p2s'.clk = 0
        /\ p2s'.bit = p2s.bit /\ p2s'.data = p2s.data
    BY <1>1, <2>1
  <2>4. BitGoesOn
    BY <1>2, <1>4, <1>9, <2>3 DEF BitGoesOn, Sending, Since
  <2>5. ~IncEventId /\ ~Ends
    BY <1>4, <1>5, <1>9 DEF Ends
  <2> QED BY <1>1, <1>5, <2>1, <2>2, <2>4, <2>5
<1>10. CASE p2s.st = "LATCH_LO" /\ HalfOver /\ IncEventId
  <2>1. p2s' = [p2s EXCEPT !.st = "IDLE", !.clk = 0]
    BY <1>1, <1>10 DEF P2S
  <2>2. 0 \in 0 .. Ratio - 1
    BY <1>2
  <2>3. p2s'.st = "IDLE"
    BY <1>1, <2>1
  <2>4. Ends
    BY <1>2, <1>4, <1>5, <1>10, <2>3 DEF Ends, Sending
  <2> QED BY <1>1, <1>5, <1>10, <2>1, <2>2, <2>4
<1>11. CASE p2s.st = "LATCH_LO" /\ HalfOver /\ ~IncEventId
  <2>1. p2s' = [p2s EXCEPT !.st = "LATCH_HI", !.clk = 0, !.bit = p2s.bit + 1,
                           !.data = ShiftIn(p2s.data, 0)]
    BY <1>1, <1>11 DEF P2S
  <2>2. 0 \in 0 .. Ratio - 1 /\ p2s.bit + 1 \in 0 .. IdBits - 1 /\ p2s.bit < IdBits - 1
    BY <1>2, <1>4, <1>11
  <2>3. /\ p2s'.st = "LATCH_HI" /\ p2s'.clk = 0
        /\ p2s'.bit = p2s.bit + 1 /\ p2s'.data = ShiftIn(p2s.data, 0)
    BY <1>1, <2>1
  <2>4. BitChanges
    BY <1>4, <1>5, <1>11, <2>2, <2>3 DEF BitChanges, Sending, Since
  <2>5. ~Ends
    BY <1>2, <2>2 DEF Ends
  <2> QED BY <1>1, <1>3, <1>5, <1>11, <2>1, <2>2, <2>4, <2>5
<1> QED BY <1>2, <1>6, <1>7, <1>8, <1>9, <1>10, <1>11

LEMMA ReceiveStep ==
  ASSUME TypeOK, Next, NEW c \in Chips
  PROVE  /\ s2p'[c] \in [data : Ids, latch : Flags, clr : Flags, clear : BOOLEAN]
         /\ s2p'[c].clr[1] = (chip[c].st = "wfifo01")
         /\ s2p'[c].clr[2] = s2p[c].clr[1] /\ s2p'[c].clr[3] = s2p[c].clr[2]
         /\ s2p'[c].clear = Edge(s2p[c].clr)
         /\ s2p[c].clear \/ Edge(s2p[c].clr)
            => /\ s2p'[c].data = Zero
               /\ ~s2p'[c].latch[1] /\ ~s2p'[c].latch[2] /\ ~s2p'[c].latch[3]
         /\ ~s2p[c].clear /\ ~Edge(s2p[c].clr)
            => /\ s2p'[c].latch[1] = EventIdLatch
               /\ s2p'[c].latch[2] = s2p[c].latch[1] /\ s2p'[c].latch[3] = s2p[c].latch[2]
               /\ s2p'[c].data = IF Edge(s2p[c].latch) THEN ShiftIn(s2p[c].data, EventIdData)
                                 ELSE s2p[c].data
<1> DEFINE r == s2p[c]
           clears == r.clear \/ Edge(r.clr)
           data == IF clears THEN Zero
                   ELSE IF Edge(r.latch) THEN ShiftIn(r.data, EventIdData) ELSE r.data
           latch == IF clears THEN Quiet ELSE Push(r.latch, EventIdLatch)
           clr == Push(r.clr, EventIdClr(c))
<1>1. r \in [data : Ids, latch : Flags, clr : Flags, clear : BOOLEAN]
  BY DEF TypeOK
<1>2. EventIdLatch \in BOOLEAN /\ EventIdClr(c) \in BOOLEAN /\ EventIdData \in {0, 1}
  <2>1. 1 \in 1 .. IdBits /\ p2s.data \in Ids
    BY Numbers DEF TypeOK
  <2>2. p2s.data[1] \in {0, 1}
    BY <2>1 DEF Ids
  <2> QED BY <2>2 DEF EventIdLatch, EventIdClr, EventIdData
<1>3. Edge(r.clr) \in BOOLEAN /\ Edge(r.latch) \in BOOLEAN
  BY DEF Edge
<1>4. s2p'[c] = [Shift(c) EXCEPT !.clear = Edge(s2p[c].clr), !.clr = Push(@, EventIdClr(c))]
  BY DEF Next, S2P
<1>5. Shift(c) = [r EXCEPT !.data = data, !.latch = latch]
  BY <1>1 DEF Shift
<1>6. s2p'[c] = [data |-> data, latch |-> latch, clr |-> clr, clear |-> Edge(r.clr)]
  <2> HIDE DEF data, latch
  <2>1. Shift(c).clr = r.clr
    BY <1>1, <1>5
  <2> QED BY <1>1, <1>4, <1>5, <2>1
<1>7. data \in Ids
  BY <1>1, <1>2, IdTypes
<1>8. latch \in Flags /\ clr \in Flags
  BY <1>1, <1>2, FlagTypes, QuietFlags
<1>9. s2p'[c] \in [data : Ids, latch : Flags, clr : Flags, clear : BOOLEAN]
  <2> HIDE DEF data, latch, clr
  <2> QED BY <1>3, <1>6, <1>7, <1>8
<1>10. /\ s2p'[c].data = data /\ s2p'[c].latch = latch
       /\ s2p'[c].clr = clr /\ s2p'[c].clear = Edge(r.clr)
  BY <1>6
<1>11. /\ s2p'[c].clr[1] = EventIdClr(c)
       /\ s2p'[c].clr[2] = s2p[c].clr[1] /\ s2p'[c].clr[3] = s2p[c].clr[2]
  <2>1. r.clr \in Flags
    BY <1>1
  <2>2. clr[1] = EventIdClr(c) /\ clr[2] = r.clr[1] /\ clr[3] = r.clr[2]
    BY DEF Push
  <2> HIDE DEF clr
  <2> QED BY <1>10, <2>2, Zenon
<1>12. CASE clears
  BY <1>9, <1>10, <1>11, <1>12, QuietFlags DEF EventIdClr
<1>13. CASE ~clears
  <2>1. /\ latch[1] = EventIdLatch /\ latch[2] = s2p[c].latch[1]
        /\ latch[3] = s2p[c].latch[2]
    <3>1. latch = Push(r.latch, EventIdLatch)
      BY <1>13, Zenon
    <3>2. r.latch \in Flags
      BY <1>1
    <3> HIDE DEF latch
    <3> QED BY <3>1 DEF Push
  <2> QED BY <1>9, <1>10, <1>11, <1>13, <2>1 DEF EventIdClr
<1> QED BY <1>12, <1>13

\* A chip goes on, begins, or is given up.
LEMMA MoveStep ==
  ASSUME TypeOK, Next, NEW c \in Chips
  PROVE  /\ chip'[c] \in [st : {"idle", "acq", "wfifo00", "wfifo01", "tail", "op"}, age : Nat]
         /\ \/ chip'[c] = chip[c] /\ chip[c].st = "idle"
            \/ chip'[c] = At("acq") /\ chip[c].st = "idle"
            \/ chip'[c] = At("op") /\ chip[c].st # "op"
            \/ /\ chip[c].st = "acq" /\ chip'[c].st = "acq"
               /\ chip'[c].age = Cap(chip[c].age, MinAcq)
            \/ chip[c].st = "acq" /\ chip[c].age = MinAcq /\ chip'[c] = At("wfifo00")
            \/ chip[c].st = "wfifo00" /\ chip'[c] = At("wfifo01")
            \/ chip[c].st = "wfifo01" /\ chip'[c] = At("tail")
            \/ /\ chip[c].st = "tail" /\ chip'[c].st = "tail"
               /\ chip'[c].age = Cap(chip[c].age, MinTail)
            \/ chip[c].st = "tail" /\ chip[c].age = MinTail /\ chip'[c] = At("idle")
            \/ /\ chip[c].st = "op" /\ chip'[c].st = "op"
               /\ chip'[c].age = Cap(chip[c].age, MinBusy)
            \/ chip[c].st = "op" /\ chip[c].age = MinBusy /\ chip'[c] = At("idle")
<1> DEFINE now == chip[c]
<1>1. now \in [st : {"idle", "acq", "wfifo00", "wfifo01", "tail", "op"}, age : Nat]
  BY DEF TypeOK
<1>2. chip'[c] \in Moves(c)
  BY DEF Next, ChipSteps
<1>3. /\ MinAcq \in Nat /\ MinTail \in Nat /\ MinBusy \in Nat /\ now.age \in Nat
      /\ now.st \in {"idle", "acq", "wfifo00", "wfifo01", "tail", "op"}
  BY <1>1, Numbers
<1>4. ASSUME NEW top \in Nat PROVE Cap(now.age, top) \in Nat
  BY <1>3 DEF Cap
<1>5. ASSUME NEW top \in Nat, chip'[c] = [now EXCEPT !.age = Cap(@, top)]
      PROVE  /\ chip'[c].st = now.st /\ chip'[c].age = Cap(now.age, top)
             /\ chip'[c] \in [st : {"idle", "acq", "wfifo00", "wfifo01", "tail", "op"}, age : Nat]
  BY <1>1, <1>4, <1>5
<1>6. \A st \in {"idle", "acq", "wfifo00", "wfifo01", "tail", "op"} :
        At(st) \in [st : {"idle", "acq", "wfifo00", "wfifo01", "tail", "op"}, age : Nat]
  BY DEF At
<1>7. CASE now.st = "idle"
  BY <1>1, <1>2, <1>6, <1>7 DEF Moves
<1>8. CASE now.st = "acq"
  <2>1. \/ chip'[c] = [now EXCEPT !.age = Cap(@, MinAcq)]
        \/ chip'[c] = At("op")
        \/ now.age = MinAcq /\ chip'[c] = At("wfifo00")
    BY <1>2, <1>8 DEF Moves
  <2> QED BY <1>3, <1>5, <1>6, <1>8, <2>1
<1>9. CASE now.st = "wfifo00"
  BY <1>2, <1>6, <1>9 DEF Moves
<1>10. CASE now.st = "wfifo01"
  BY <1>2, <1>6, <1>10 DEF Moves
<1>11. CASE now.st = "tail"
  <2>1. \/ chip'[c] = [now EXCEPT !.age = Cap(@, MinTail)]
        \/ chip'[c] = At("op")
        \/ now.age = MinTail /\ chip'[c] = At("idle")
    BY <1>2, <1>11 DEF Moves
  <2> QED BY <1>3, <1>5, <1>6, <1>11, <2>1
<1>12. CASE now.st = "op"
  <2>1. \/ chip'[c] = [now EXCEPT !.age = Cap(@, MinBusy)]
        \/ now.age = MinBusy /\ chip'[c] = At("idle")
    BY <1>2, <1>12 DEF Moves
  <2> QED BY <1>3, <1>5, <1>6, <1>12, <2>1
<1> QED BY <1>3, <1>7, <1>8, <1>9, <1>10, <1>11, <1>12

\* What the history becomes: nothing is known, a new busy period begins, or the
\* packets of this clock are added.
Forgets == Shaken /\ seen' = [Nothing EXCEPT !.busy = FEEBusy, !.shaken = TRUE]
Restarts(update) ==
  /\ ~Shaken /\ FEEBusy /\ ~seen.busy /\ (seen.now # {} \/ seen.shaken)
  /\ seen'.now = {} /\ seen'.wrote = {} /\ seen'.cut = {} /\ seen'.repeats = {}
  /\ seen'.before = IF update \/ seen.renumbered THEN {} ELSE seen.now
  /\ seen'.renumbered = update /\ ~seen'.shaken
Continues(update) ==
  /\ ~Shaken /\ ~seen.shaken /\ ~seen'.shaken
  /\ FEEBusy /\ ~seen.busy => seen.now = {}
  /\ seen'.now = seen.now \cup {s2p[c].data : c \in Fresh}
  /\ seen'.repeats = seen.repeats \cup {s2p[c].data : c \in (Writers \ Fresh) \ seen.cut}
  /\ seen'.wrote = seen.wrote \cup Writers
  /\ seen'.cut = seen.cut \cup {c \in Writers : chip'[c].st = "op"}
  /\ seen'.before = IF update THEN {}
                    ELSE IF IncEventId THEN seen.before \ {Following(event_id)} ELSE seen.before
  /\ seen'.renumbered = (seen.renumbered \/ update)

LEMMA SeenStep ==
  ASSUME TypeOK, Next
  PROVE  \E update \in BOOLEAN, new \in Ids :
           /\ event_id' = IF update THEN new
                          ELSE IF IncEventId THEN Following(event_id) ELSE event_id
           /\ event_id' \in Ids /\ disabled' \subseteq Chips
           /\ seen' \in History /\ seen'.busy = FEEBusy
           /\ Forgets \/ Restarts(update) \/ Continues(update)
<1>1. PICK w \in Writes :
        disabled' = w.off /\ EventIdReg(w.update, w.new) /\ Note(w.update)
  BY DEF Next
<1>2. /\ seen \in History /\ disabled \subseteq Chips /\ event_id \in Ids
      /\ \A c \in Chips : s2p[c].data \in Ids
  BY DEF TypeOK
<1>3. w.off \subseteq Chips /\ w.update \in BOOLEAN /\ w.new \in Ids
  <2>1. \/ w \in [off : {disabled}, update : {FALSE}, new : {Zero}]
        \/ w \in [off : {disabled}, update : {TRUE}, new : NewIds]
        \/ w \in [off : {disabled \cup {c} : c \in Chips} \cup {disabled \ {c} : c \in Chips},
                  update : {FALSE}, new : {Zero}]
    BY <1>1 DEF Writes
  <2>2. Zero \in Ids /\ NewIds \subseteq Ids
    BY Numbers, IdTypes
  <2> QED BY <1>2, <2>1, <2>2
<1> DEFINE update == w.update
<1>4. /\ event_id' = IF update THEN w.new
                     ELSE IF IncEventId THEN Following(event_id) ELSE event_id
      /\ event_id' \in Ids /\ disabled' \subseteq Chips
  BY <1>1, <1>2, <1>3, IdTypes DEF EventIdReg
<1> HIDE DEF update
<1>5. Note(update) /\ update \in BOOLEAN
  BY <1>1, <1>3 DEF update
<1>6. FEEBusy \in BOOLEAN /\ Writers \subseteq Chips /\ Fresh \subseteq Writers
  BY DEF FEEBusy, Writers, Fresh
<1>7. /\ seen' \in History /\ seen'.busy = FEEBusy
      /\ Forgets \/ Restarts(update) \/ Continues(update)
  <2>1. CASE Shaken
    <3>1. seen' = [Nothing EXCEPT !.busy = FEEBusy, !.shaken = TRUE]
      BY <1>5, <2>1 DEF Note
    <3>2. seen' = [busy |-> FEEBusy, now |-> {}, before |-> {}, wrote |-> {}, cut |-> {},
                   repeats |-> {}, renumbered |-> FALSE, shaken |-> TRUE]
      BY <3>1 DEF Nothing
    <3>3. seen' \in History /\ seen'.busy = FEEBusy
      <4> HIDE DEF FEEBusy
      <4> QED BY <1>6, <3>2 DEF History
    <3> QED BY <2>1, <3>1, <3>3, Zenon DEF Forgets
  <2>2. CASE ~Shaken /\ FEEBusy /\ ~seen.busy /\ (seen.now # {} \/ seen.shaken)
    <3> DEFINE before == IF update \/ seen.renumbered THEN {} ELSE seen.now
    <3>1. seen' = [Nothing EXCEPT !.busy = TRUE, !.before = before, !.renumbered = update]
      BY <1>5, <2>2 DEF Note
    <3>2. before \in SUBSET Ids
      BY <1>2 DEF History
    <3> HIDE DEF before
    <3>3. seen' = [busy |-> TRUE, now |-> {}, before |-> before, wrote |-> {}, cut |-> {},
                   repeats |-> {}, renumbered |-> update, shaken |-> FALSE]
      BY <3>1 DEF Nothing
    <3>4. seen' \in History
      BY <1>5, <3>2, <3>3 DEF History
    <3>5. Restarts(update)
      BY <2>2, <3>3 DEF Restarts, before
    <3>6. seen'.busy = FEEBusy
      BY <2>2, <3>3
    <3> QED BY <3>4, <3>5, <3>6
  <2>3. CASE ~Shaken /\ ~(FEEBusy /\ ~seen.busy /\ (seen.now # {} \/ seen.shaken))
    <3> DEFINE first == {s2p[c].data : c \in Fresh}
               again == {s2p[c].data : c \in (Writers \ Fresh) \ seen.cut}
               cut == {c \in Writers : chip'[c].st = "op"}
               before == IF update THEN {}
                         ELSE IF IncEventId THEN seen.before \ {Following(event_id)}
                         ELSE seen.before
    <3>1. seen' = [seen EXCEPT !.busy = FEEBusy,
                     !.now = seen.now \cup first, !.repeats = seen.repeats \cup again,
                     !.wrote = seen.wrote \cup Writers, !.cut = seen.cut \cup cut,
                     !.before = before, !.renumbered = (seen.renumbered \/ update)]
      BY <1>5, <2>3, Zenon DEF Note
    <3>2. /\ first \subseteq Ids /\ again \subseteq Ids /\ cut \subseteq Chips
          /\ before \in SUBSET Ids
      BY <1>2, <1>6 DEF History
    <3>3. ~seen.shaken
      BY <2>3 DEF Shaken
    <3> HIDE DEF first, again, cut, before
    <3>4. /\ seen'.busy = FEEBusy /\ seen'.now = seen.now \cup first
          /\ seen'.repeats = seen.repeats \cup again /\ seen'.wrote = seen.wrote \cup Writers
          /\ seen'.cut = seen.cut \cup cut /\ seen'.before = before
          /\ seen'.renumbered = (seen.renumbered \/ update) /\ seen'.shaken = seen.shaken
      BY <1>2, <3>1 DEF History
    <3>5. (seen.renumbered \/ update) \in BOOLEAN
      OBVIOUS
    <3>6. seen' \in History
      BY <1>2, <1>5, <1>6, <3>1, <3>2, <3>5 DEF History
    <3>7. Continues(update)
      BY <2>3, <3>3, <3>4, Zenon DEF Continues, first, again, cut, before
    <3> QED BY <3>4, <3>6, <3>7
  <2> HIDE DEF update
  <2> QED BY <2>1, <2>2, <2>3, Zenon
<1> QED BY <1>3, <1>4, <1>5, <1>7

LEMMA TypeInit == Init => TypeOK
<1> SUFFICES ASSUME Init PROVE TypeOK
  OBVIOUS
<1>1. Zero \in Ids /\ Quiet \in Flags
  BY IdTypes, QuietFlags
<1>2. 0 \in 0 .. Ratio - 1 /\ 0 \in 0 .. IdBits - 1 /\ 0 \in 0 .. ReadyCycles
  BY Numbers
<1>3. chip \in [Chips -> [st : {"idle", "acq", "wfifo00", "wfifo01", "tail", "op"}, age : Nat]]
  BY DEF Init, At
<1>4. seen \in History
  BY DEF Init, Nothing, History
<1>5. s2p \in [Chips -> [data : Ids, latch : Flags, clr : Flags, clear : BOOLEAN]]
  BY <1>1 DEF Init
<1>6. /\ ready \in [last : BOOLEAN, edge : BOOLEAN, high : BOOLEAN, count : 0 .. ReadyCycles]
      /\ p2s \in [st : {"IDLE", "LATCH_HI", "LATCH_LO"}, clk : 0 .. Ratio - 1,
                  bit : 0 .. IdBits - 1, data : Ids]
  BY <1>1, <1>2 DEF Init
<1> QED BY <1>1, <1>3, <1>4, <1>5, <1>6 DEF Init, TypeOK

LEMMA TypeStep ==
  ASSUME TypeOK, Next
  PROVE  TypeOK'
<1>1. chip' \in [Chips -> [st : {"idle", "acq", "wfifo00", "wfifo01", "tail", "op"}, age : Nat]]
  <2>1. chip' = [c \in Chips |-> chip'[c]]
    BY DEF Next, ChipSteps
  <2>2. \A c \in Chips :
          chip'[c] \in [st : {"idle", "acq", "wfifo00", "wfifo01", "tail", "op"}, age : Nat]
    BY MoveStep
  <2> QED BY <2>1, <2>2
<1>2. s2p' \in [Chips -> [data : Ids, latch : Flags, clr : Flags, clear : BOOLEAN]]
  <2>1. s2p' = [c \in Chips |-> s2p'[c]]
    BY DEF Next, S2P
  <2>2. \A c \in Chips : s2p'[c] \in [data : Ids, latch : Flags, clr : Flags, clear : BOOLEAN]
    BY ReceiveStep
  <2> QED BY <2>1, <2>2
<1> QED BY <1>1, <1>2, ReadyStep, GoStep, LineStep, SeenStep DEF TypeOK

\* All registers keep their types, for any number of chips and any widths.
THEOREM TypeCorrect == Spec => []TypeOK
<1>1. TypeOK /\ UNCHANGED vars => TypeOK'
  BY DEF TypeOK, vars
<1>2. TypeOK /\ [Next]_vars => TypeOK'
  BY <1>1, TypeStep
<1> QED BY <1>2, TypeInit, PTL DEF Spec

-----------------------------------------------------------------------------
(* What holds whoever is enabled.                                          *)

\* gen_event_id_go waits while FEE_busy is low only if FEE_ready is still to
\* come, and so the next rise is either looked at or met by FEE_ready.
GoInv ==
  /\ ~goFsm.wait => ~goFsm.last
  /\ goFsm.go => goFsm.wait
  /\ ready.high => ready.count < ReadyCycles
  /\ ~FEEBusy /\ goFsm.wait => ~ready.last \/ ready.edge \/ ready.high
  /\ FEEBusy /\ ~seen.busy => ~goFsm.wait \/ ready.edge \/ ready.high

LEMMA GoInvStep ==
  ASSUME TypeOK, GoInv, Next
  PROVE  GoInv'
<1> DEFINE busy == FEEBusy
           busyNext == FEEBusy'
<1>1. busy \in BOOLEAN /\ busyNext \in BOOLEAN
  BY DEF FEEBusy
<1>2. /\ ~goFsm.wait => ~goFsm.last
      /\ goFsm.go => goFsm.wait
      /\ ready.high => ready.count < ReadyCycles
      /\ ~busy /\ goFsm.wait => ~ready.last \/ ready.edge \/ ready.high
      /\ busy /\ ~seen.busy => ~goFsm.wait \/ ready.edge \/ ready.high
  BY DEF GoInv
<1>3. /\ ready'.last = ~busy
      /\ ready'.edge = (~ready.last /\ ~busy)
      /\ ready'.high = IF ready.high THEN ready.count < ReadyCycles - 1 ELSE ready.edge
      /\ ready'.count = IF ready.high THEN Cap(ready.count, ReadyCycles) ELSE 0
  BY ReadyStep
<1>4. /\ goFsm.wait => /\ goFsm'.wait = ~ready.high
                       /\ goFsm'.last = FALSE /\ goFsm'.go = FALSE
      /\ ~goFsm.wait => /\ goFsm'.wait = (~goFsm.last /\ busy)
                        /\ goFsm'.last = busy /\ goFsm'.go = goFsm'.wait
  BY GoStep
<1>5. seen'.busy = busy
  BY SeenStep
<1>6. /\ ready.last \in BOOLEAN /\ ready.edge \in BOOLEAN /\ ready.high \in BOOLEAN
      /\ goFsm.wait \in BOOLEAN /\ goFsm.last \in BOOLEAN /\ goFsm.go \in BOOLEAN
      /\ ready.count \in Nat /\ ReadyCycles \in Nat /\ ReadyCycles >= 1
  BY Numbers DEF TypeOK
<1> HIDE DEF busy, busyNext
<1>7. ready'.high => ready'.count < ReadyCycles
  <2>1. CASE ~ready.high
    BY <1>3, <1>6, <2>1
  <2>2. CASE ready.high
    <3>1. ready'.high <=> ready.count < ReadyCycles - 1
      BY <1>3, <2>2, Zenon
    <3>2. ready'.count = Cap(ready.count, ReadyCycles)
      BY <1>3, <2>2
    <3> QED BY <1>6, <3>1, <3>2 DEF Cap
  <2> QED BY <2>1, <2>2
<1>8. ~goFsm'.wait => ~goFsm'.last
  BY <1>1, <1>2, <1>4, <1>6
<1>9. goFsm'.go => goFsm'.wait
  BY <1>4, <1>6
<1>10. goFsm'.wait /\ ~busy => goFsm.wait /\ ~ready.high
  BY <1>4, <1>6
<1>11. ~busyNext /\ goFsm'.wait => ~ready'.last \/ ready'.edge \/ ready'.high
  BY <1>1, <1>2, <1>3, <1>6, <1>10
<1>12. busyNext /\ ~seen'.busy => ~goFsm'.wait \/ ready'.edge \/ ready'.high
  BY <1>1, <1>2, <1>3, <1>5, <1>6, <1>10
<1> QED BY <1>7, <1>8, <1>9, <1>11, <1>12 DEF GoInv, busyNext

\* The clear of a chip's identifier goes through three flags while the chip
\* ends its packet or is given up, and is over before it may be idle.
ClearInv ==
  \A c \in Chips :
    /\ ~(s2p[c].clr[1] /\ s2p[c].clr[2]) /\ ~(s2p[c].clr[2] /\ s2p[c].clr[3])
    /\ s2p[c].clear = s2p[c].clr[3]
    /\ s2p[c].clr[1] \/ s2p[c].clr[2] \/ s2p[c].clr[3] => chip[c].st \in {"tail", "op"}
    /\ s2p[c].clr[1] => chip[c].age < 1
    /\ s2p[c].clr[2] => chip[c].age < 2
    /\ s2p[c].clr[3] => chip[c].age < 3

\* The chip's flags of the latch fall while it is low.
RestInv ==
  \A c \in Chips :
    /\ ~Sending => (~s2p[c].latch[1]) /\ (~s2p[c].latch[2])
    /\ Sending /\ Since >= Ratio + 1 => ~s2p[c].latch[1]
    /\ Sending /\ Since >= Ratio + 2 => ~s2p[c].latch[2]

LEMMA ClearStep ==
  ASSUME TypeOK, ClearInv, Next
  PROVE  ClearInv'
<1> SUFFICES ASSUME NEW c \in Chips
    PROVE  /\ ~(s2p'[c].clr[1] /\ s2p'[c].clr[2]) /\ ~(s2p'[c].clr[2] /\ s2p'[c].clr[3])
           /\ s2p'[c].clear = s2p'[c].clr[3]
           /\ s2p'[c].clr[1] \/ s2p'[c].clr[2] \/ s2p'[c].clr[3] => chip'[c].st \in {"tail", "op"}
           /\ s2p'[c].clr[1] => chip'[c].age < 1
           /\ s2p'[c].clr[2] => chip'[c].age < 2
           /\ s2p'[c].clr[3] => chip'[c].age < 3
  BY DEF ClearInv
<1> DEFINE f == s2p[c].clr
           g == s2p'[c].clr
           now == chip[c]
           next == chip'[c]
<1>1. /\ g[1] = (now.st = "wfifo01") /\ g[2] = f[1] /\ g[3] = f[2]
      /\ s2p'[c].clear = (f[2] /\ ~f[3])
  BY ReceiveStep DEF Edge
<1>2. f[1] \in BOOLEAN /\ f[2] \in BOOLEAN /\ f[3] \in BOOLEAN
  BY DEF TypeOK, Flags
<1>3. /\ ~(f[1] /\ f[2]) /\ ~(f[2] /\ f[3])
      /\ f[1] \/ f[2] \/ f[3] => now.st \in {"tail", "op"}
      /\ f[1] => now.age < 1
      /\ f[2] => now.age < 2
      /\ f[3] => now.age < 3
  BY DEF ClearInv
<1>4. MinTail >= 4 /\ MinBusy >= 4 /\ now.age \in Nat
  BY Numbers DEF TypeOK
<1>5. \/ next = now /\ now.st = "idle"
      \/ next = At("acq") /\ now.st = "idle"
      \/ next = At("op")
      \/ now.st = "acq" /\ next.st = "acq"
      \/ now.st = "acq" /\ next = At("wfifo00")
      \/ now.st = "wfifo00" /\ next = At("wfifo01")
      \/ now.st = "wfifo01" /\ next = At("tail")
      \/ now.st \in {"tail", "op"} /\ next.st \in {"tail", "op"} /\ next.age <= now.age + 1
      \/ now.st \in {"tail", "op"} /\ now.age >= 4
  BY <1>4, MoveStep DEF Cap
<1>6. \A st : At(st).st = st /\ At(st).age = 0
  BY DEF At
<1> HIDE DEF f, g, now, next
<1>7. CASE now.st = "wfifo01"
  <2>1. ~f[1] /\ ~f[2] /\ ~f[3]
    BY <1>3, <1>7
  <2>2. next.st \in {"tail", "op"} /\ next.age = 0
    BY <1>5, <1>6, <1>7
  <2> QED BY <1>1, <1>2, <2>1, <2>2, <1>7 DEF g, next
<1>8. CASE now.st \in {"tail", "op"}
  <2>1. ~g[1]
    BY <1>1, <1>8
  <2>2. f[1] \/ f[2] => next.st \in {"tail", "op"} /\ next.age <= now.age + 1
    <3>1. f[1] \/ f[2] => now.age < 2
      BY <1>3, <1>4
    <3> QED BY <1>4, <1>5, <1>6, <1>8, <3>1
  <2>3. /\ g[2] => next.st \in {"tail", "op"} /\ next.age < 2
        /\ g[3] => next.st \in {"tail", "op"} /\ next.age < 3
    <3>1. next.age \in Nat
      BY MoveStep DEF next
    <3>2. (f[1] => next.age < 2) /\ (f[2] => next.age < 3)
      BY <1>2, <1>3, <1>4, <2>2, <3>1
    <3> QED BY <1>1, <2>2, <3>2
  <2>4. ~(g[2] /\ g[3]) /\ s2p'[c].clear = g[3]
    BY <1>1, <1>2, <1>3
  <2> QED BY <2>1, <2>3, <2>4 DEF g, next
<1>9. CASE now.st \notin {"wfifo01", "tail", "op"}
  <2>1. ~f[1] /\ ~f[2] /\ ~f[3]
    BY <1>3, <1>9
  <2> QED BY <1>1, <1>2, <1>9, <2>1 DEF g, next
<1> QED BY <1>7, <1>8, <1>9

LEMMA RestStep ==
  ASSUME TypeOK, RestInv, Next
  PROVE  RestInv'
<1> SUFFICES ASSUME NEW c \in Chips
    PROVE  /\ ~Sending' => (~s2p'[c].latch[1]) /\ (~s2p'[c].latch[2])
           /\ Sending' /\ Since' >= Ratio + 1 => ~s2p'[c].latch[1]
           /\ Sending' /\ Since' >= Ratio + 2 => ~s2p'[c].latch[2]
  BY DEF RestInv
<1>1. /\ ~Sending => (~s2p[c].latch[1]) /\ (~s2p[c].latch[2])
      /\ Sending /\ Since >= Ratio + 1 => ~s2p[c].latch[1]
      /\ Sending /\ Since >= Ratio + 2 => ~s2p[c].latch[2]
  BY DEF RestInv
<1>2. /\ Rests \/ Begins \/ BitGoesOn \/ BitChanges \/ Ends
      /\ Sending => Since \in 0 .. 2 * Ratio - 1
      /\ EventIdLatch <=> Sending /\ Since < Ratio
      /\ Ratio \in Nat /\ Ratio >= 2
  BY LineStep, Numbers
<1>3. \/ (~s2p'[c].latch[1]) /\ (~s2p'[c].latch[2])
      \/ s2p'[c].latch[1] = EventIdLatch /\ s2p'[c].latch[2] = s2p[c].latch[1]
  BY ReceiveStep
<1>4. CASE s2p'[c].latch[1] = EventIdLatch /\ s2p'[c].latch[2] = s2p[c].latch[1]
  <2>1. CASE ~Sending
    BY <1>1, <1>2, <1>4, <2>1 DEF Rests, Begins, BitGoesOn, BitChanges, Ends
  <2>2. CASE Sending /\ Since < 2 * Ratio - 1
    <3>1. Sending' /\ Since' = Since + 1
      BY <1>2, <2>2 DEF Rests, Begins, BitGoesOn, BitChanges, Ends
    <3> QED BY <1>1, <1>2, <1>4, <2>2, <3>1
  <2>3. CASE Sending /\ Since = 2 * Ratio - 1
    <3>1. ~Sending' \/ Since' = 0
      BY <1>2, <2>3 DEF Rests, Begins, BitGoesOn, BitChanges, Ends
    <3>2. ~EventIdLatch /\ ~s2p[c].latch[1]
      BY <1>1, <1>2, <2>3
    <3> QED BY <1>2, <1>4, <3>1, <3>2
  <2> QED BY <1>2, <2>1, <2>2, <2>3
<1> QED BY <1>3, <1>4

-----------------------------------------------------------------------------
(* How long an identifier may still be on the line.                        *)

\* Clocks until the last bit of the identifier is over.
ToSend == 2 * (Ratio * (IdBits - p2s.bit)) - Since

LEMMA ToSendStep ==
  ASSUME TypeOK, Next
  PROVE  /\ Sending => ToSend \in 1 .. Length
         /\ Begins => ToSend' = Length
         /\ BitGoesOn \/ BitChanges => ToSend' = ToSend - 1
         /\ Ends => ToSend = 1
         /\ Sending' => ToSend' \in 1 .. Length
<1>1. /\ IdBits \in Nat /\ IdBits >= 1 /\ Ratio \in Nat /\ Ratio >= 2
      /\ p2s.bit \in 0 .. IdBits - 1
  BY Numbers DEF TypeOK
<1>2. /\ Sending => Since \in 0 .. 2 * Ratio - 1
      /\ Rests \/ Begins \/ BitGoesOn \/ BitChanges \/ Ends
  BY LineStep
<1> DEFINE n == IdBits - p2s.bit
           m == Ratio * n
           k == Ratio * (n - 1)
           whole == Ratio * IdBits
<1>3. n \in Nat /\ n >= 1
  BY <1>1
<1>4. m \in Nat /\ m = k + Ratio /\ m >= Ratio /\ k \in Int
  <2> HIDE DEF n
  <2> QED BY <1>1, <1>3, Products
<1>5. whole \in Nat /\ m <= whole
  <2>1. p2s.bit \in 0 .. IdBits
    BY <1>1
  <2> QED BY <1>1, <2>1, Products
<1>6. ToSend = 2 * m - Since /\ Length = 2 * whole
  BY DEF ToSend, Length
<1>7. p2s'.bit = p2s.bit => ToSend' = 2 * m - Since'
  BY DEF ToSend
<1>8. p2s'.bit = p2s.bit + 1 => ToSend' = 2 * k - Since'
  <2>1. p2s'.bit = p2s.bit + 1 => IdBits - p2s'.bit = n - 1
    BY <1>1
  <2> QED BY <2>1 DEF ToSend
<1>9. p2s'.bit = 0 => ToSend' = 2 * whole - Since'
  <2>1. p2s'.bit = 0 => IdBits - p2s'.bit = IdBits
    BY <1>1
  <2> QED BY <2>1 DEF ToSend
<1>10. p2s.bit = IdBits - 1 => m = Ratio
  <2>1. p2s.bit = IdBits - 1 => n = 1
    BY <1>1
  <2> QED BY <1>1, <2>1
<1> HIDE DEF m, k, whole, n
<1>11. Sending => ToSend \in 1 .. Length
  BY <1>1, <1>2, <1>4, <1>5, <1>6
<1>12. Begins => ToSend' = Length
  BY <1>5, <1>6, <1>9 DEF Begins
<1>13. BitGoesOn \/ BitChanges => ToSend' = ToSend - 1
  <2>1. BitGoesOn => ToSend' = ToSend - 1
    BY <1>1, <1>2, <1>4, <1>6, <1>7 DEF BitGoesOn
  <2>2. ASSUME BitChanges PROVE ToSend' = ToSend - 1
    <3>1. ToSend' = 2 * k - Since' /\ Since' = 0 /\ Since = 2 * Ratio - 1
      BY <1>8, <2>2 DEF BitChanges
    <3>2. k \in Int /\ m = k + Ratio /\ ToSend = 2 * m - Since
      BY <1>1, <1>4, <1>6
    <3> QED BY <1>1, <3>1, <3>2
  <2> QED BY <2>1, <2>2
<1>14. Ends => ToSend = 1
  BY <1>1, <1>6, <1>10 DEF Ends
<1>15. Length \in Nat /\ Length >= 2
  BY <1>1, <1>4, <1>5, <1>6
<1>16. BitGoesOn \/ BitChanges => ToSend # 1
  <2>1. BitGoesOn => ToSend # 1
    BY <1>1, <1>2, <1>4, <1>6 DEF BitGoesOn
  <2>2. ASSUME BitChanges PROVE ToSend # 1
    <3>1. k >= Ratio \/ p2s.bit = IdBits - 1
      <4>1. n - 1 \in Nat /\ (n - 1 >= 1 \/ p2s.bit = IdBits - 1)
        BY <1>1, <1>3 DEF n
      <4> QED BY <1>1, <4>1, Products DEF k
    <3>2. Since = 2 * Ratio - 1 /\ p2s.bit # IdBits - 1
      BY <1>1, <2>2 DEF BitChanges
    <3> QED BY <1>1, <1>4, <1>6, <3>1, <3>2
  <2> QED BY <2>1, <2>2
<1>17. Sending' => ToSend' \in 1 .. Length
  <2>1. Rests => ~Sending'
    BY DEF Rests
  <2>2. Ends => ~Sending'
    BY DEF Ends
  <2>3. BitGoesOn \/ BitChanges => Sending
    BY DEF BitGoesOn, BitChanges
  <2> QED BY <1>2, <1>11, <1>12, <1>13, <1>15, <1>16, <2>1, <2>2, <2>3
<1> QED BY <1>11, <1>12, <1>13, <1>14, <1>17

\* While FEE_busy is high: clocks after which no identifier is on the line nor
\* asked for before FEE_busy falls.  A FEE_ready that is still high may make
\* gen_event_id_go ask again.
Until(fee, asks, line, left) ==
  IF fee.edge THEN Length + ReadyCycles + 3
  ELSE IF fee.high THEN Length + ReadyCycles + 2 - fee.count
  ELSE IF ~asks.wait THEN Length + 2
  ELSE IF line.st # "IDLE" THEN left
  ELSE IF asks.go THEN Length + 1
  ELSE 0
Bound == Until(ready, goFsm, p2s, ToSend)

InRange(n, fee, asks, line) ==
  /\ n \in Nat /\ n <= MinAcq
  /\ n = 0 <=> ~fee.edge /\ ~fee.high /\ asks.wait /\ line.st = "IDLE" /\ ~asks.go
  /\ ~fee.edge /\ ~fee.high => n <= Length + 2

LEMMA UntilRange ==
  ASSUME NEW fee, NEW asks, NEW line, NEW left, NEW n,
         fee.count \in Nat, fee.high => fee.count < ReadyCycles,
         line.st # "IDLE" => left \in 1 .. Length,
         n = Until(fee, asks, line, left)
  PROVE  InRange(n, fee, asks, line)
<1> USE DEF InRange
<1>1. /\ Length \in Nat /\ ReadyCycles \in Nat /\ MinAcq \in Nat
      /\ MinAcq >= Length + ReadyCycles + 3
  BY Numbers
<1>2. CASE fee.edge
  <2>1. n = Length + ReadyCycles + 3
    BY <1>2 DEF Until
  <2>2. n \in Nat /\ n <= MinAcq /\ n # 0
    BY <1>1, <2>1
  <2> QED BY <1>2, <2>2, Zenon
<1>3. CASE ~fee.edge /\ fee.high
  <2>1. n = Length + ReadyCycles + 2 - fee.count
    BY <1>3 DEF Until
  <2>2. fee.count < ReadyCycles
    BY <1>3
  <2>3. n \in Nat /\ n <= MinAcq /\ n # 0
    BY <1>1, <2>1, <2>2
  <2> QED BY <1>3, <2>3, Zenon
<1>4. CASE ~fee.edge /\ ~fee.high /\ ~asks.wait
  <2>1. n = Length + 2
    BY <1>4 DEF Until
  <2>2. n \in Nat /\ n <= MinAcq /\ n # 0 /\ n <= Length + 2
    BY <1>1, <2>1
  <2> QED BY <1>4, <2>2, Zenon
<1>5. CASE ~fee.edge /\ ~fee.high /\ asks.wait /\ line.st # "IDLE"
  <2>1. n = left /\ left \in 1 .. Length
    BY <1>5 DEF Until
  <2>2. n \in Nat /\ n <= MinAcq /\ n # 0 /\ n <= Length + 2
    BY <1>1, <2>1
  <2> QED BY <1>5, <2>2, Zenon
<1>6. CASE ~fee.edge /\ ~fee.high /\ asks.wait /\ line.st = "IDLE" /\ asks.go
  <2>1. n = Length + 1
    BY <1>6 DEF Until
  <2>2. n \in Nat /\ n <= MinAcq /\ n # 0 /\ n <= Length + 2
    BY <1>1, <2>1
  <2> QED BY <1>6, <2>2, Zenon
<1>7. CASE ~fee.edge /\ ~fee.high /\ asks.wait /\ line.st = "IDLE" /\ ~asks.go
  <2>1. n = 0
    BY <1>7 DEF Until
  <2>2. n \in Nat /\ n <= MinAcq /\ n <= Length + 2
    BY <1>1, <2>1
  <2> QED BY <1>7, <2>1, <2>2, Zenon
<1> QED BY <1>2, <1>3, <1>4, <1>5, <1>6, <1>7, Zenon

LEMMA BoundRange ==
  ASSUME TypeOK, GoInv, Next
  PROVE  /\ Bound \in Nat /\ Bound <= MinAcq
         /\ Bound' \in Nat /\ Bound' <= MinAcq
         /\ Bound = 0 <=> ~ready.edge /\ ~ready.high /\ goFsm.wait /\ ~Sending /\ ~goFsm.go
         /\ Bound' = 0 <=> ~ready'.edge /\ ~ready'.high /\ goFsm'.wait /\ ~Sending' /\ ~goFsm'.go
         /\ ~ready'.edge /\ ~ready'.high => Bound' <= Length + 2
<1>1. /\ ready.edge \in BOOLEAN /\ ready.high \in BOOLEAN /\ ready.count \in Nat
      /\ goFsm.wait \in BOOLEAN /\ goFsm.go \in BOOLEAN /\ Sending \in BOOLEAN
  BY Numbers DEF TypeOK, Sending
<1>2. /\ ready'.edge \in BOOLEAN /\ ready'.high \in BOOLEAN /\ ready'.count \in Nat
      /\ goFsm'.wait \in BOOLEAN /\ goFsm'.go \in BOOLEAN /\ Sending' \in BOOLEAN
  BY TypeStep, Numbers DEF TypeOK, Sending
<1>3. /\ ready.high => ready.count < ReadyCycles
      /\ ready'.high => ready'.count < ReadyCycles
  BY GoInvStep DEF GoInv
<1>4. (Sending => ToSend \in 1 .. Length) /\ (Sending' => ToSend' \in 1 .. Length)
  BY ToSendStep
<1> HIDE DEF ToSend
<1>5. /\ Bound \in Nat /\ Bound <= MinAcq
      /\ Bound = 0 <=> ~ready.edge /\ ~ready.high /\ goFsm.wait /\ ~Sending /\ ~goFsm.go
  <2>1. Bound = Until(ready, goFsm, p2s, ToSend)
    BY DEF Bound
  <2> HIDE DEF Bound
  <2>2. InRange(Bound, ready, goFsm, p2s)
    BY <1>1, <1>3, <1>4, <2>1, UntilRange, Zenon DEF Sending
  <2> QED BY <2>2, Zenon DEF InRange, Sending
<1>6. /\ Bound' \in Nat /\ Bound' <= MinAcq
      /\ Bound' = 0 <=> ~ready'.edge /\ ~ready'.high /\ goFsm'.wait /\ ~Sending' /\ ~goFsm'.go
      /\ ~ready'.edge /\ ~ready'.high => Bound' <= Length + 2
  <2>1. Bound' = Until(ready', goFsm', p2s', ToSend')
    BY DEF Bound
  <2> HIDE DEF Bound
  <2>2. InRange(Bound', ready', goFsm', p2s')
    BY <1>2, <1>3, <1>4, <2>1, UntilRange, Zenon DEF Sending
  <2> QED BY <2>2, Zenon DEF InRange, Sending
<1> QED BY <1>5, <1>6

\* While FEE_busy is high the bound runs down, and comes to its end with the
\* last bit of an identifier.
LEMMA BoundStep ==
  ASSUME TypeOK, GoInv, Next, FEEBusy
  PROVE  /\ Bound # 0 => Bound' <= Bound - 1
         /\ Bound = 0 => Bound' = 0
         /\ Bound # 0 /\ Bound' = 0 => Ends
<1>1. /\ ready'.edge = FALSE
      /\ ready'.high = IF ready.high THEN ready.count < ReadyCycles - 1 ELSE ready.edge
      /\ ready'.count = IF ready.high THEN Cap(ready.count, ReadyCycles) ELSE 0
      /\ ready'.count \in Nat
  BY ReadyStep, Numbers
<1>2. /\ goFsm.wait => goFsm'.wait = ~ready.high /\ goFsm'.go = FALSE
      /\ ~goFsm.wait => goFsm'.wait = TRUE /\ goFsm'.go = TRUE
  BY GoStep DEF GoInv
<1>3. /\ Rests \/ Begins \/ BitGoesOn \/ BitChanges \/ Ends
      /\ Length \in Nat /\ ReadyCycles \in Nat /\ ReadyCycles >= 1 /\ ready.count \in Nat
      /\ ready.high => ready.count < ReadyCycles
  BY LineStep, Numbers DEF TypeOK, GoInv
<1>4. /\ Sending => ToSend \in 1 .. Length
      /\ Begins => ToSend' = Length
      /\ BitGoesOn \/ BitChanges => ToSend' = ToSend - 1
      /\ Ends => ToSend = 1
      /\ Sending' => ToSend' \in 1 .. Length
  BY ToSendStep
<1>5. /\ Bound \in Nat /\ Bound' \in Nat
      /\ Bound = 0 <=> ~ready.edge /\ ~ready.high /\ goFsm.wait /\ ~Sending /\ ~goFsm.go
      /\ Bound' = 0 <=> ~ready'.edge /\ ~ready'.high /\ goFsm'.wait /\ ~Sending' /\ ~goFsm'.go
      /\ ~ready'.edge /\ ~ready'.high => Bound' <= Length + 2
  BY BoundRange
<1>6. /\ Bound = IF ready.edge THEN Length + ReadyCycles + 3
                 ELSE IF ready.high THEN Length + ReadyCycles + 2 - ready.count
                 ELSE IF ~goFsm.wait THEN Length + 2
                 ELSE IF Sending THEN ToSend
                 ELSE IF goFsm.go THEN Length + 1
                 ELSE 0
      /\ Bound' = IF ready'.edge THEN Length + ReadyCycles + 3
                  ELSE IF ready'.high THEN Length + ReadyCycles + 2 - ready'.count
                  ELSE IF ~goFsm'.wait THEN Length + 2
                  ELSE IF Sending' THEN ToSend'
                  ELSE IF goFsm'.go THEN Length + 1
                  ELSE 0
  BY DEF Bound, Until, Sending
<1> HIDE DEF Bound, ToSend, Sending
<1>7. CASE ready.edge
  <2>1. Bound = Length + ReadyCycles + 3
    BY <1>6, <1>7
  <2>2. Bound' <= Bound - 1
    <3>1. CASE ready'.high
      <4>1. Bound' = Length + ReadyCycles + 2 - ready'.count
        BY <1>1, <1>6, <3>1
      <4> QED BY <1>1, <1>3, <2>1, <4>1
    <3>2. CASE ~ready'.high
      <4>1. Bound' <= Length + 2
        BY <1>1, <1>5, <3>2
      <4> QED BY <1>3, <1>5, <2>1, <4>1
    <3> QED BY <3>1, <3>2
  <2>3. ready'.high \/ ~goFsm'.wait \/ goFsm'.go
    BY <1>1, <1>2, <1>7
  <2>4. Bound # 0 /\ Bound' # 0
    BY <1>5, <1>7, <2>3
  <2> QED BY <2>2, <2>4
<1>8. CASE ~ready.edge /\ ready.high
  <2>1. Bound = Length + ReadyCycles + 2 - ready.count /\ ready.count < ReadyCycles
    BY <1>3, <1>6, <1>8
  <2>2. Bound' <= Bound - 1
    <3>1. CASE ready'.high
      <4>1. Bound' = Length + ReadyCycles + 2 - ready'.count
        BY <1>1, <1>6, <3>1
      <4>2. ready'.count = ready.count + 1
        BY <1>1, <1>8, <2>1 DEF Cap
      <4> QED BY <1>1, <1>3, <2>1, <4>1, <4>2
    <3>2. CASE ~ready'.high
      <4>1. Bound' <= Length + 2
        BY <1>1, <1>5, <3>2
      <4> QED BY <1>3, <1>5, <2>1, <4>1
    <3> QED BY <3>1, <3>2
  <2>3. ~goFsm'.wait \/ goFsm'.go
    BY <1>2, <1>8
  <2>4. Bound # 0 /\ Bound' # 0
    BY <1>5, <1>8, <2>3
  <2> QED BY <2>2, <2>4
<1>9. CASE ~ready.edge /\ ~ready.high
  <2>1. ~ready'.edge /\ ~ready'.high
    BY <1>1, <1>9
  <2>2. CASE ~goFsm.wait
    <3>1. Bound = Length + 2
      BY <1>6, <1>9, <2>2
    <3>2. goFsm'.wait /\ goFsm'.go
      BY <1>2, <2>2
    <3>3. Bound' = IF Sending' THEN ToSend' ELSE Length + 1
      BY <1>6, <2>1, <3>2
    <3>4. Bound' <= Length + 1
      BY <1>3, <1>4, <3>3
    <3>5. Bound' # 0
      BY <1>5, <3>2
    <3> QED BY <1>3, <1>5, <3>1, <3>4, <3>5
  <2>3. CASE goFsm.wait /\ Sending
    <3>1. Bound = ToSend
      BY <1>6, <1>9, <2>3
    <3>2. goFsm'.wait /\ ~goFsm'.go
      BY <1>2, <1>9, <2>3
    <3>3. Bound' = IF Sending' THEN ToSend' ELSE 0
      BY <1>6, <2>1, <3>2
    <3>4. CASE Ends
      <4>1. ~Sending' /\ ToSend = 1
        BY <1>4, <3>4 DEF Ends
      <4> QED BY <3>1, <3>3, <3>4, <4>1
    <3>5. CASE BitGoesOn \/ BitChanges
      <4>1. Sending' /\ ToSend' = ToSend - 1
        BY <1>4, <3>5 DEF BitGoesOn, BitChanges
      <4> QED BY <1>4, <2>3, <3>1, <3>3, <4>1
    <3> QED BY <1>3, <2>3, <3>4, <3>5 DEF Rests, Begins
  <2>4. CASE goFsm.wait /\ ~Sending /\ goFsm.go
    <3>1. Bound = Length + 1
      BY <1>6, <1>9, <2>4
    <3>2. Begins /\ goFsm'.wait
      BY <1>2, <1>3, <1>9, <2>4 DEF Rests, BitGoesOn, BitChanges, Ends
    <3>3. Sending' /\ ToSend' = Length
      BY <1>4, <3>2 DEF Begins
    <3>4. Bound' = Length /\ Bound' # 0
      BY <1>5, <1>6, <2>1, <3>2, <3>3
    <3> QED BY <1>3, <3>1, <3>4
  <2>5. CASE goFsm.wait /\ ~Sending /\ ~goFsm.go
    <3>1. Bound = 0
      BY <1>5, <1>9, <2>5
    <3>2. ~Sending' /\ goFsm'.wait /\ ~goFsm'.go
      BY <1>2, <1>3, <1>9, <2>5 DEF Rests, Begins, BitGoesOn, BitChanges, Ends
    <3> QED BY <1>5, <2>1, <3>1, <3>2
  <2> QED BY <2>2, <2>3, <2>4, <2>5
<1> QED BY <1>7, <1>8, <1>9

\* When FEE_busy has just risen, an identifier is still to come.
LEMMA BoundAtRise ==
  ASSUME TypeOK, GoInv, Next
  PROVE  /\ FEEBusy /\ ~seen.busy => Bound # 0
         /\ FEEBusy' /\ ~FEEBusy => Bound' # 0
<1>1. FEEBusy /\ ~seen.busy => ~goFsm.wait \/ ready.edge \/ ready.high
  BY DEF GoInv
<1>2. FEEBusy' /\ ~seen'.busy => ~goFsm'.wait \/ ready'.edge \/ ready'.high
  BY GoInvStep DEF GoInv
<1>3. seen'.busy = FEEBusy
  BY SeenStep
<1>4. /\ Bound = 0 => ~ready.edge /\ ~ready.high /\ goFsm.wait
      /\ Bound' = 0 => ~ready'.edge /\ ~ready'.high /\ goFsm'.wait
  BY BoundRange
<1> HIDE DEF FEEBusy, Bound
<1> QED BY <1>1, <1>2, <1>3, <1>4

-----------------------------------------------------------------------------
(* What holds of the chips that FEE_busy listens to, from a busy period that *)
(* begins settled until one of them is enabled or disabled.                *)

Enabled == Chips \ disabled
Clearing(c) == s2p[c].clr[1] \/ s2p[c].clr[2] \/ s2p[c].clr[3]

\* No chip comes to its header, and none clears its identifier, before the line
\* is at rest.
TimeInv ==
  \A c \in Enabled :
    /\ chip[c].st = "acq" => Bound + chip[c].age <= MinAcq
    /\ chip[c].st \in {"wfifo00", "wfifo01", "tail"} \/ Clearing(c) => Bound = 0

\* All chips see the latch at the same time.
FlagInv ==
  Sending => \A c \in Enabled :
    /\ s2p[c].latch[1] <=> Since >= 1 /\ Since <= Ratio
    /\ s2p[c].latch[2] <=> Since >= 2 /\ Since <= Ratio + 1
    /\ Since = 2 => ~s2p[c].latch[3]
    /\ Since >= 3 /\ Since <= Ratio + 1 => s2p[c].latch[3]

\* The bits taken so far are the same in all chips.
Taken == IF Since <= 2 THEN p2s.bit ELSE p2s.bit + 1
PartInv ==
  Sending => \A c, d \in Enabled : \A k \in IdBits - Taken + 1 .. IdBits :
    s2p[c].data[k] = s2p[d].data[k]

\* Once the line is at rest all chips that have not written have one identifier.
AgreeInv ==
  FEEBusy /\ Bound = 0 =>
    \A c, d \in Enabled \ seen.wrote : s2p[c].data = s2p[d].data

\* Packets were written only with the line at rest, and only chips that wrote
\* one clear their identifier.
WroteInv ==
  /\ seen.wrote # {} => ~Sending /\ ~goFsm.go
  /\ seen.wrote # {} <=> seen.now # {}
  /\ seen.wrote # {} /\ FEEBusy /\ seen.busy => Bound = 0
  /\ \A c \in Enabled : Clearing(c) \/ chip[c].st = "wfifo01" => c \in seen.wrote

\* What was written is what the others have.
NowInv ==
  \/ seen.now = {}
  \/ \E id \in Ids :
       /\ seen.now = {id}
       /\ FEEBusy /\ seen.busy => \A c \in Enabled \ seen.wrote : s2p[c].data = id

\* What is on the line and what was taken are the identifier, unless software
\* rewrote it.
SentInv ==
  Sending /\ ~seen.renumbered =>
    /\ \A k \in 1 .. IdBits - p2s.bit : p2s.data[k] = event_id[k + p2s.bit]
    /\ \A c \in Enabled : \A k \in 1 .. Taken : s2p[c].data[IdBits - Taken + k] = event_id[k]

\* Neither the identifier to be sent nor the one received was used before.
NewInv ==
  /\ event_id \notin seen.before
  /\ seen.renumbered => seen.before = {}
  /\ ~seen.renumbered => event_id \notin seen.now
  /\ seen.now \cap seen.before = {}
  /\ FEEBusy /\ Bound = 0 => \A c \in Enabled \ seen.wrote :
       s2p[c].data \notin seen.before /\ (~seen.renumbered => s2p[c].data # event_id)

\* A chip that wrote a packet to its end has, or is about to have, no identifier.
MarkInv ==
  /\ seen.repeats \subseteq {Zero}
  /\ \A c \in (Enabled \cap seen.wrote) \ seen.cut :
       \/ chip[c].st = "wfifo01" \/ s2p[c].clr[1] \/ s2p[c].clr[2]
       \/ s2p[c].data = Zero

Orderly ==
  /\ TimeInv /\ FlagInv /\ PartInv /\ AgreeInv /\ WroteInv
  /\ NowInv /\ SentInv /\ NewInv /\ MarkInv

\* The rest of the history is empty while nothing is known.
UnknownInv ==
  seen.shaken => /\ seen.now = {} /\ seen.before = {} /\ seen.wrote = {}
                 /\ seen.repeats = {} /\ ~seen.renumbered

Base == TypeOK /\ GoInv /\ ClearInv /\ RestInv /\ UnknownInv
EventInv == Base /\ (~seen.shaken => Orderly)

\* A busy period that begins settled begins in order.
LEMMA SettledIsOrderly ==
  ASSUME Base, Next, seen.shaken, FEEBusy, ~seen.busy, Settled
  PROVE  Orderly /\ ~Sending
<1>1. /\ seen.now = {} /\ seen.before = {} /\ seen.wrote = {}
      /\ seen.repeats = {} /\ ~seen.renumbered
  BY DEF Base, UnknownInv
<1>2. ~Sending
  BY DEF Settled, Sending
<1>3. Bound # 0 /\ Bound \in Nat /\ Bound <= MinAcq
  BY BoundAtRise, BoundRange DEF Base
<1>4. ASSUME NEW c \in Enabled
      PROVE  /\ ~Clearing(c)
             /\ chip[c].st \in {"idle", "acq", "op"} /\ (chip[c].st = "acq" => chip[c].age = 0)
  <2>1. chip[c] \in {At("idle"), At("acq"), At("op")} /\ s2p[c].clr = Quiet
    BY DEF Settled, Enabled
  <2> QED BY <2>1, QuietFlags DEF Clearing, At
<1>5. TimeInv
  <2> HIDE DEF Bound
  <2>1. MinAcq \in Nat
    BY Numbers
  <2> QED BY <1>3, <1>4, <2>1 DEF TimeInv
<1>6. WroteInv
  BY <1>1, <1>4 DEF WroteInv
<1>7. AgreeInv /\ NowInv
  BY <1>1, <1>3 DEF AgreeInv, NowInv
<1>8. NewInv
  BY <1>1, <1>3 DEF NewInv
<1>9. FlagInv /\ PartInv /\ SentInv
  BY <1>2 DEF FlagInv, PartInv, SentInv
<1>10. MarkInv
  BY <1>1 DEF MarkInv
<1> QED BY <1>2, <1>5, <1>6, <1>7, <1>8, <1>9, <1>10 DEF Orderly

\* What is known after a clock was in order before it.
LEMMA OrderlyBefore ==
  ASSUME EventInv, Next, ~seen'.shaken
  PROVE  /\ Orderly /\ disabled' = disabled /\ seen'.busy = FEEBusy
         /\ \E update \in BOOLEAN, new \in Ids :
              /\ event_id' = IF update THEN new
                             ELSE IF IncEventId THEN Following(event_id) ELSE event_id
              /\ \/ Restarts(update) /\ ~Sending /\ (seen.now # {} \/ ~seen.renumbered)
                 \/ Continues(update)
<1>1. PICK update \in BOOLEAN, new \in Ids :
           /\ event_id' = IF update THEN new
                          ELSE IF IncEventId THEN Following(event_id) ELSE event_id
           /\ seen'.busy = FEEBusy
           /\ Forgets \/ Restarts(update) \/ Continues(update)
  BY SeenStep DEF EventInv, Base
<1>2. ~Forgets
  BY DEF Forgets, Nothing
<1>3. ~Shaken
  BY <1>1, <1>2 DEF Restarts, Continues
<1>4. disabled' = disabled
  BY <1>3 DEF Shaken
<1>5. seen.shaken => FEEBusy /\ ~seen.busy /\ Settled
  BY <1>3 DEF Shaken
<1>6. Orderly /\ (seen.shaken => ~Sending /\ ~seen.renumbered)
  BY <1>5, SettledIsOrderly DEF EventInv, Base, UnknownInv
<1>7. seen.now # {} => ~Sending
  BY <1>6 DEF Orderly, WroteInv
<1>8. \/ Restarts(update) /\ ~Sending /\ (seen.now # {} \/ ~seen.renumbered)
      \/ Continues(update)
  BY <1>1, <1>2, <1>6, <1>7 DEF Restarts
<1> QED BY <1>1, <1>4, <1>6, <1>8

\* What a clock does to the identifier of a chip that FEE_busy listens to.
LEMMA Receives ==
  ASSUME Base, Orderly, Next, NEW c \in Enabled
  PROVE  /\ c \in Chips
         /\ chip[c].st # "idle" \/ Clearing(c) => FEEBusy
         /\ Bound # 0 => ~Clearing(c) /\ chip[c].st \notin {"wfifo00", "wfifo01", "tail"}
         /\ Sending => s2p'[c].data = IF Since = 2 THEN ShiftIn(s2p[c].data, p2s.data[1])
                                      ELSE s2p[c].data
         /\ ~Sending /\ ~Clearing(c) => s2p'[c].data = s2p[c].data
         /\ ~Sending => s2p'[c].data \in {s2p[c].data, Zero}
<1>1. c \in Chips /\ (chip[c].st # "idle" => FEEBusy)
  BY DEF Enabled, FEEBusy
<1>2. Clearing(c) => chip[c].st # "idle"
  BY <1>1 DEF Base, ClearInv, Clearing
<1>3. Bound # 0 => ~Clearing(c) /\ chip[c].st \notin {"wfifo00", "wfifo01", "tail"}
  BY DEF Orderly, TimeInv
<1>4. Sending => Bound # 0
  BY BoundRange DEF Base
<1>5. ~Clearing(c) => ~s2p[c].clear /\ ~Edge(s2p[c].clr)
  BY <1>1 DEF Clearing, Edge, Base, ClearInv
<1>6. /\ ~s2p[c].clear /\ ~Edge(s2p[c].clr)
         => s2p'[c].data = IF Edge(s2p[c].latch) THEN ShiftIn(s2p[c].data, EventIdData)
                           ELSE s2p[c].data
      /\ s2p[c].clear \/ Edge(s2p[c].clr) => s2p'[c].data = Zero
  BY <1>1, ReceiveStep DEF Base
<1>7. ~Sending => ~Edge(s2p[c].latch)
  BY <1>1 DEF Base, RestInv, Edge
<1>8. Sending => (Edge(s2p[c].latch) <=> Since = 2)
  <2>1. Sending => Since \in Nat /\ Ratio \in Nat /\ Ratio >= 2
    BY LineStep, Numbers DEF Base
  <2>2. Sending => /\ s2p[c].latch[2] <=> Since >= 2 /\ Since <= Ratio + 1
                   /\ Since = 2 => ~s2p[c].latch[3]
                   /\ Since >= 3 /\ Since <= Ratio + 1 => s2p[c].latch[3]
    BY DEF Orderly, FlagInv
  <2> QED BY <2>1, <2>2 DEF Edge
<1>9. Sending => EventIdData = p2s.data[1]
  BY DEF EventIdData, Sending
<1> QED BY <1>1, <1>2, <1>3, <1>4, <1>5, <1>6, <1>7, <1>8, <1>9

\* How many bits the chips took, after a clock and when the line comes to rest.
LEMMA TakenStep ==
  ASSUME TypeOK, Next
  PROVE  /\ Begins => Taken' = 0
         /\ Sending => Taken \in 0 .. IdBits
         /\ BitGoesOn \/ BitChanges => Taken' = IF Since = 2 THEN Taken + 1 ELSE Taken
         /\ Since = 2 => Taken = p2s.bit
         /\ Ends => Taken = IdBits /\ Since # 2
<1>1. /\ p2s.bit \in 0 .. IdBits - 1 /\ IdBits \in Nat /\ IdBits >= 1
      /\ Ratio \in Nat /\ Ratio >= 2
      /\ Sending => Since \in 0 .. 2 * Ratio - 1
  BY LineStep, Numbers DEF TypeOK
<1>2. Taken' = IF Since' <= 2 THEN p2s'.bit ELSE p2s'.bit + 1
  BY DEF Taken
<1>3. Begins => Taken' = 0
  BY <1>2 DEF Begins
<1>4. BitGoesOn => Taken' = IF Since = 2 THEN Taken + 1 ELSE Taken
  BY <1>1, <1>2 DEF BitGoesOn, Taken
<1>5. BitChanges => Taken' = IF Since = 2 THEN Taken + 1 ELSE Taken
  BY <1>1, <1>2 DEF BitChanges, Taken
<1> QED BY <1>1, <1>3, <1>4, <1>5 DEF Taken, Ends

LEMMA TimeStep ==
  ASSUME Base, Orderly, Next, disabled' = disabled
  PROVE  TimeInv'
<1> SUFFICES ASSUME NEW c \in Enabled
    PROVE  /\ chip'[c].st = "acq" => Bound' + chip'[c].age <= MinAcq
           /\ chip'[c].st \in {"wfifo00", "wfifo01", "tail"} \/ Clearing(c)' => Bound' = 0
  BY DEF TimeInv, Enabled
<1>1. /\ c \in Chips
      /\ chip[c].st # "idle" \/ Clearing(c) => FEEBusy
      /\ Bound # 0 => ~Clearing(c) /\ chip[c].st \notin {"wfifo00", "wfifo01", "tail"}
  BY Receives
<1>2. /\ Bound \in Nat /\ Bound' \in Nat /\ Bound' <= MinAcq /\ MinAcq \in Nat
      /\ chip[c].age \in Nat
  BY <1>1, BoundRange, Numbers DEF Base, TypeOK
<1>3. /\ FEEBusy /\ Bound # 0 => Bound' <= Bound - 1
      /\ FEEBusy /\ Bound = 0 => Bound' = 0
  BY BoundStep DEF Base
<1>4. chip[c].st = "acq" => Bound + chip[c].age <= MinAcq
  BY DEF Orderly, TimeInv
<1>5. /\ chip'[c].st = "acq" =>
           \/ chip'[c].age = 0
           \/ chip[c].st = "acq" /\ chip'[c].age = Cap(chip[c].age, MinAcq)
      /\ chip'[c].st \in {"wfifo00", "wfifo01", "tail"} =>
           \/ chip[c].st \in {"wfifo00", "wfifo01", "tail"}
           \/ chip[c].st = "acq" /\ chip[c].age = MinAcq
  BY <1>1, MoveStep DEF Base, At
<1>6. Clearing(c)' => Clearing(c) \/ chip[c].st = "wfifo01"
  BY <1>1, ReceiveStep DEF Base, Clearing
<1>7. chip'[c].st = "acq" => Bound' + chip'[c].age <= MinAcq
  <2>1. CASE chip'[c].age = 0
    <3>1. \A n, age, top \in Nat : n <= top /\ age = 0 => n + age <= top
      OBVIOUS
    <3>2. chip'[c].age \in Nat
      BY <2>1
    <3> QED BY <1>2, <2>1, <3>1, <3>2
  <2>2. CASE chip[c].st = "acq" /\ chip'[c].age = Cap(chip[c].age, MinAcq)
    <3>1. FEEBusy
      BY <1>1, <2>2
    <3>2. Bound' = 0 \/ Bound' <= Bound - 1
      BY <1>3, <3>1
    <3>3. Bound + chip[c].age <= MinAcq
      BY <1>4, <2>2
    <3>4. chip'[c].age = IF chip[c].age < MinAcq THEN chip[c].age + 1 ELSE MinAcq
      BY <2>2 DEF Cap
    <3>5. \A n, m, age, top \in Nat :
            (n = 0 \/ n <= m - 1) /\ m + age <= top
               => n + (IF age < top THEN age + 1 ELSE top) <= top
      OBVIOUS
    <3>6. Bound' + (IF chip[c].age < MinAcq THEN chip[c].age + 1 ELSE MinAcq) <= MinAcq
      BY <1>2, <3>2, <3>3, <3>5
    <3> QED BY <3>4, <3>6
  <2> QED BY <1>5, <2>1, <2>2, Zenon
<1>8. chip'[c].st \in {"wfifo00", "wfifo01", "tail"} => FEEBusy /\ Bound = 0
  <2>1. chip[c].st = "acq" /\ chip[c].age = MinAcq => Bound = 0
    BY <1>2, <1>4
  <2> QED BY <1>1, <1>5, <2>1
<1>9. Clearing(c)' => FEEBusy /\ Bound = 0
  BY <1>1, <1>6
<1> QED BY <1>3, <1>7, <1>8, <1>9

LEMMA FlagStep ==
  ASSUME Base, Orderly, Next, disabled' = disabled
  PROVE  FlagInv'
<1> SUFFICES ASSUME Sending', NEW c \in Enabled
    PROVE  /\ s2p'[c].latch[1] <=> Since' >= 1 /\ Since' <= Ratio
           /\ s2p'[c].latch[2] <=> Since' >= 2 /\ Since' <= Ratio + 1
           /\ Since' = 2 => ~s2p'[c].latch[3]
           /\ Since' >= 3 /\ Since' <= Ratio + 1 => s2p'[c].latch[3]
  BY DEF FlagInv, Enabled
<1> DEFINE f == s2p[c].latch
           g == s2p'[c].latch
<1>1. c \in Chips /\ (Bound # 0 => ~Clearing(c))
  BY Receives
<1>2. Sending => ~Clearing(c)
  BY <1>1, BoundRange DEF Base
<1>3. ~Clearing(c) => ~s2p[c].clear /\ ~Edge(s2p[c].clr)
  BY <1>1 DEF Clearing, Edge, Base, ClearInv
<1>4. \/ ~g[1] /\ ~g[2] /\ ~g[3] /\ ~Sending
      \/ g[1] = EventIdLatch /\ g[2] = f[1] /\ g[3] = f[2]
  BY <1>1, <1>2, <1>3, ReceiveStep DEF Base
<1>5. /\ Rests \/ Begins \/ BitGoesOn \/ BitChanges \/ Ends
      /\ Sending => Since \in 0 .. 2 * Ratio - 1
      /\ EventIdLatch <=> Sending /\ Since < Ratio
      /\ Ratio \in Nat /\ Ratio >= 2
  BY LineStep, Numbers DEF Base
<1>6. ~Sending => ~f[1] /\ ~f[2]
  BY <1>1 DEF Base, RestInv
<1>7. Sending => /\ f[1] <=> Since >= 1 /\ Since <= Ratio
                 /\ f[2] <=> Since >= 2 /\ Since <= Ratio + 1
  BY DEF Orderly, FlagInv
<1> HIDE DEF f, g
<1>8. CASE Begins
  <2>1. ~Sending /\ Since' = 0
    BY <1>8 DEF Begins
  <2>2. ~g[1] /\ ~g[2]
    BY <1>4, <1>5, <1>6, <2>1
  <2> QED BY <1>5, <2>1, <2>2 DEF g
<1>9. CASE BitGoesOn
  <2>1. Sending /\ Since' = Since + 1
    BY <1>9 DEF BitGoesOn
  <2>2. /\ g[1] <=> Since < Ratio
        /\ g[2] <=> Since >= 1 /\ Since <= Ratio
        /\ g[3] <=> Since >= 2 /\ Since <= Ratio + 1
    BY <1>4, <1>5, <1>7, <2>1
  <2> QED BY <1>5, <2>1, <2>2 DEF g
<1>10. CASE BitChanges
  <2>1. Sending /\ Since' = 0 /\ Since = 2 * Ratio - 1
    BY <1>10 DEF BitChanges
  <2>2. ~g[1] /\ ~g[2]
    BY <1>4, <1>5, <1>7, <2>1
  <2> QED BY <1>5, <2>1, <2>2 DEF g
<1> QED BY <1>5, <1>8, <1>9, <1>10 DEF Rests, Ends

LEMMA PartStep ==
  ASSUME Base, Orderly, Next, disabled' = disabled
  PROVE  PartInv'
<1> SUFFICES ASSUME Sending', NEW c \in Enabled, NEW d \in Enabled,
                    NEW k \in IdBits - Taken' + 1 .. IdBits
    PROVE  s2p'[c].data[k] = s2p'[d].data[k]
  BY DEF PartInv, Enabled
<1>1. Begins \/ BitGoesOn \/ BitChanges
  BY LineStep DEF Base, Rests, Ends
<1>2. /\ Begins => Taken' = 0
      /\ Sending => Taken \in 0 .. IdBits
      /\ BitGoesOn \/ BitChanges => Taken' = IF Since = 2 THEN Taken + 1 ELSE Taken
  BY TakenStep DEF Base
<1>3. IdBits \in Nat
  BY Numbers
<1>4. ~Begins
  BY <1>2, <1>3
<1>5. Sending
  BY <1>1, <1>4 DEF BitGoesOn, BitChanges
<1>6. \A e \in {c, d} : s2p'[e].data = IF Since = 2 THEN ShiftIn(s2p[e].data, p2s.data[1])
                                       ELSE s2p[e].data
  BY <1>5, Receives
<1>7. \A l \in IdBits - Taken + 1 .. IdBits : s2p[c].data[l] = s2p[d].data[l]
  BY <1>5 DEF Orderly, PartInv
<1>8. CASE Since # 2
  BY <1>1, <1>2, <1>4, <1>6, <1>7, <1>8
<1>9. CASE Since = 2
  <2>1. Taken' = Taken + 1 /\ Taken \in 0 .. IdBits /\ Taken' \in Nat
    BY <1>1, <1>2, <1>4, <1>5, <1>9
  <2>2. /\ s2p'[c].data = ShiftIn(s2p[c].data, p2s.data[1])
        /\ s2p'[d].data = ShiftIn(s2p[d].data, p2s.data[1])
    BY <1>6, <1>9
  <2>3. Taken < IdBits
    <3>1. p2s.bit \in 0 .. IdBits - 1
      BY DEF Base, TypeOK
    <3> QED BY <1>3, <1>9, <3>1, TakenStep DEF Base
  <2>4. k \in 1 .. IdBits /\ (k < IdBits => k + 1 \in IdBits - Taken + 1 .. IdBits)
    BY <1>3, <2>1, <2>3
  <2>5. k < IdBits => s2p[c].data[k + 1] = s2p[d].data[k + 1]
    BY <1>7, <2>4
  <2> QED BY <2>2, <2>4, <2>5 DEF ShiftIn
<1> QED BY <1>8, <1>9

\* Two identifiers with the same bits are one.
LEMMA SameBits ==
  ASSUME NEW id \in Ids, NEW other \in Ids, \A k \in 1 .. IdBits : id[k] = other[k]
  PROVE  id = other
<1>1. id = [k \in 1 .. IdBits |-> id[k]] /\ other = [k \in 1 .. IdBits |-> other[k]]
  BY DEF Ids
<1>2. [k \in 1 .. IdBits |-> id[k]] = [k \in 1 .. IdBits |-> other[k]]
  OBVIOUS
<1> QED BY <1>1, <1>2

\* When the line is at rest and stays so, a chip that does not write keeps what
\* it has; and FEE_busy has been high for a clock at least.
LEMMA AtRest ==
  ASSUME Base, Orderly, Next, NEW update, Continues(update)
  PROVE  /\ Bound = 0 => ~Sending /\ ~goFsm.go /\ goFsm.wait /\ ~Ends
         /\ Writers # {} => Bound = 0 /\ FEEBusy
         /\ FEEBusy /\ Bound = 0 => seen.busy
         /\ \A c \in Enabled \ seen'.wrote :
              /\ c \in Enabled \ seen.wrote
              /\ Bound = 0 => s2p'[c].data = s2p[c].data
<1>1. Bound = 0 => ~Sending /\ ~goFsm.go /\ goFsm.wait /\ ~Ends
  BY BoundRange DEF Base, Ends
<1>2. Writers # {} => Bound = 0 /\ FEEBusy
  <2>1. \A c \in Writers : c \in Enabled /\ chip[c].st = "wfifo00"
    BY DEF Writers, Enabled
  <2> QED BY <2>1, Receives
<1>3. FEEBusy /\ Bound = 0 => seen.busy
  BY BoundAtRise DEF Base
<1>4. ASSUME NEW c \in Enabled \ seen'.wrote
      PROVE  c \in Enabled \ seen.wrote /\ (Bound = 0 => s2p'[c].data = s2p[c].data)
  <2>1. c \in Enabled \ seen.wrote
    BY <1>4 DEF Continues
  <2>2. ~Clearing(c)
    BY <2>1 DEF Orderly, WroteInv
  <2> QED BY <1>1, <2>1, <2>2, Receives
<1> QED BY <1>1, <1>2, <1>3, <1>4

\* The last bit of an identifier makes it whole in all chips.
LEMMA LastBit ==
  ASSUME Base, Orderly, Next, NEW update, Continues(update), Ends
  PROVE  /\ Sending /\ Bound # 0 /\ Writers = {} /\ seen'.wrote = {} /\ seen'.now = {}
         /\ \A c \in Enabled :
              /\ s2p'[c].data = s2p[c].data
              /\ \A d \in Enabled : s2p[c].data = s2p[d].data
              /\ ~seen.renumbered => s2p[c].data = event_id
<1>1. Sending /\ Bound # 0
  BY BoundRange DEF Base, Ends
<1>2. Writers = {}
  BY <1>1, AtRest
<1>3. seen.wrote = {} /\ seen.now = {}
  BY <1>1 DEF Orderly, WroteInv
<1>4. seen'.wrote = {} /\ seen'.now = {}
  BY <1>2, <1>3 DEF Continues, Fresh
<1>5. Taken = IdBits /\ Since # 2 /\ IdBits \in Nat
  BY TakenStep, Numbers DEF Base
<1>6. ASSUME NEW c \in Enabled
      PROVE  s2p'[c].data = s2p[c].data /\ s2p[c].data \in Ids
  <2>1. s2p[c].data \in Ids
    BY DEF Base, TypeOK, Enabled
  <2> QED BY <1>1, <1>5, <2>1, Receives
<1>7. ASSUME NEW c \in Enabled, NEW d \in Enabled PROVE s2p[c].data = s2p[d].data
  <2>1. \A k \in 1 .. IdBits : s2p[c].data[k] = s2p[d].data[k]
    BY <1>1, <1>5 DEF Orderly, PartInv
  <2> QED BY <1>6, <2>1, SameBits
<1>8. ASSUME NEW c \in Enabled, ~seen.renumbered PROVE s2p[c].data = event_id
  <2>1. \A k \in 1 .. IdBits : s2p[c].data[k] = event_id[k]
    <3>1. \A k \in 1 .. IdBits : s2p[c].data[IdBits - IdBits + k] = event_id[k]
      BY <1>1, <1>5, <1>8 DEF Orderly, SentInv
    <3>2. \A k \in 1 .. IdBits : IdBits - IdBits + k = k
      BY <1>5
    <3> QED BY <3>1, <3>2
  <2>2. event_id \in Ids
    BY DEF Base, TypeOK
  <2> QED BY <1>6, <2>1, <2>2, SameBits
<1> QED BY <1>1, <1>2, <1>4, <1>6, <1>7, <1>8

LEMMA AgreeStep ==
  ASSUME Base, Orderly, Next, disabled' = disabled, NEW update,
         Restarts(update) \/ Continues(update)
  PROVE  AgreeInv'
<1> SUFFICES ASSUME FEEBusy', Bound' = 0,
                    NEW c \in Enabled \ seen'.wrote, NEW d \in Enabled \ seen'.wrote
    PROVE  s2p'[c].data = s2p'[d].data
  BY DEF AgreeInv, Enabled
<1>1. FEEBusy /\ (~seen.busy => Bound # 0)
  BY BoundAtRise DEF Base
<1>2. Bound # 0 => Ends
  BY <1>1, BoundStep DEF Base
<1>3. Continues(update)
  <2>1. ASSUME Restarts(update) PROVE FALSE
    <3>1. Ends /\ Sending
      BY <1>1, <1>2, <2>1 DEF Restarts, Ends
    <3>2. seen.shaken \/ seen.wrote # {}
      BY <2>1 DEF Restarts, Orderly, WroteInv
    <3> QED BY <2>1, <3>1, <3>2 DEF Restarts, Orderly, WroteInv, Shaken, Settled, Sending
  <2> QED BY <2>1
<1>4. CASE Bound = 0
  <2>1. c \in Enabled \ seen.wrote /\ s2p'[c].data = s2p[c].data
    BY <1>3, <1>4, AtRest
  <2>2. d \in Enabled \ seen.wrote /\ s2p'[d].data = s2p[d].data
    BY <1>3, <1>4, AtRest
  <2> QED BY <1>1, <1>4, <2>1, <2>2 DEF Orderly, AgreeInv
<1>5. CASE Bound # 0
  BY <1>2, <1>3, <1>5, LastBit
<1> QED BY <1>4, <1>5

LEMMA WroteStep ==
  ASSUME Base, Orderly, Next, disabled' = disabled, NEW update,
         Restarts(update) \/ Continues(update), seen'.busy = FEEBusy
  PROVE  WroteInv'
<1>1. ASSUME NEW c \in Enabled, Clearing(c)' \/ chip'[c].st = "wfifo01"
      PROVE  Clearing(c) \/ chip[c].st = "wfifo01" \/ c \in Writers
  <2>1. c \in Chips
    BY DEF Enabled
  <2>2. Clearing(c)' => Clearing(c) \/ chip[c].st = "wfifo01"
    BY <2>1, ReceiveStep DEF Base, Clearing
  <2>3. chip'[c].st = "wfifo01" => chip[c].st = "wfifo00"
    BY <2>1, MoveStep DEF Base, At
  <2> QED BY <1>1, <2>2, <2>3 DEF Writers, Enabled
<1>2. Enabled' = Enabled
  BY DEF Enabled
<1>3. CASE Restarts(update)
  <2>1. FEEBusy /\ Bound # 0
    BY <1>3, BoundAtRise DEF Base, Restarts
  <2>2. \A c \in Enabled : ~Clearing(c) /\ chip[c].st \notin {"wfifo00", "wfifo01"}
    BY <2>1, Receives
  <2>3. \A c \in Enabled : ~(Clearing(c)' \/ chip'[c].st = "wfifo01")
    BY <1>1, <2>2 DEF Writers
  <2>4. seen'.wrote = {} /\ seen'.now = {}
    BY <1>3 DEF Restarts
  <2> QED BY <1>2, <2>3, <2>4 DEF WroteInv
<1>4. CASE Continues(update)
  <2>1. /\ seen.wrote # {} => ~Sending /\ ~goFsm.go
        /\ seen.wrote # {} <=> seen.now # {}
        /\ seen.wrote # {} /\ FEEBusy /\ seen.busy => Bound = 0
        /\ \A c \in Enabled : Clearing(c) \/ chip[c].st = "wfifo01" => c \in seen.wrote
    BY DEF Orderly, WroteInv
  <2>2. /\ seen'.wrote = seen.wrote \cup Writers
        /\ seen'.now = seen.now \cup {s2p[c].data : c \in Fresh}
        /\ FEEBusy /\ ~seen.busy => seen.now = {}
    BY <1>4 DEF Continues
  <2>3. /\ Bound = 0 => ~Sending /\ ~goFsm.go /\ goFsm.wait
        /\ Writers # {} => Bound = 0 /\ FEEBusy
    BY <1>4, AtRest
  <2>4. seen'.wrote # {} => ~Sending /\ ~goFsm.go /\ (FEEBusy => Bound = 0)
    BY <2>1, <2>2, <2>3
  <2>5. seen'.wrote # {} => ~Sending' /\ ~goFsm'.go
    <3>1. ~Sending /\ ~goFsm.go => ~Sending'
      BY LineStep DEF Base, Rests, Begins, BitGoesOn, BitChanges, Ends
    <3>2. (FEEBusy => goFsm.wait) => ~goFsm'.go
      BY GoStep DEF Base
    <3> QED BY <2>3, <2>4, <3>1, <3>2
  <2>6. seen'.wrote # {} <=> seen'.now # {}
    <3>1. Fresh \subseteq Writers /\ Writers \subseteq Fresh \cup seen.wrote
      BY DEF Fresh
    <3> QED BY <2>1, <2>2, <3>1
  <2>7. seen'.wrote # {} /\ FEEBusy' /\ seen'.busy => Bound' = 0
    BY <2>4, BoundStep DEF Base
  <2>8. \A c \in Enabled : Clearing(c)' \/ chip'[c].st = "wfifo01" => c \in seen'.wrote
    BY <1>1, <2>1, <2>2
  <2> QED BY <1>2, <2>5, <2>6, <2>7, <2>8 DEF WroteInv
<1> QED BY <1>3, <1>4

LEMMA NowStep ==
  ASSUME Base, Orderly, Next, disabled' = disabled, NEW update,
         Restarts(update) \/ Continues(update), seen'.busy = FEEBusy
  PROVE  NowInv'
<1>1. CASE Restarts(update)
  BY <1>1 DEF Restarts, NowInv
<1>2. CASE Continues(update) /\ Fresh = {} /\ seen.now = {}
  BY <1>2 DEF Continues, NowInv
<1>3. CASE Continues(update) /\ Fresh = {} /\ seen.now # {}
  <2>1. PICK id \in Ids :
          /\ seen.now = {id}
          /\ FEEBusy /\ seen.busy => \A c \in Enabled \ seen.wrote : s2p[c].data = id
    BY <1>3 DEF Orderly, NowInv
  <2>2. FEEBusy => seen.busy /\ Bound = 0
    BY <1>3 DEF Continues, Orderly, WroteInv
  <2>3. FEEBusy => \A c \in Enabled \ seen'.wrote : s2p'[c].data = id
    BY <1>3, <2>1, <2>2, AtRest
  <2>4. seen'.now = {id} /\ Enabled' = Enabled
    BY <1>3, <2>1 DEF Continues, Enabled
  <2> QED BY <2>3, <2>4 DEF NowInv
<1>4. CASE Continues(update) /\ Fresh # {}
  <2>1. PICK f \in Fresh : TRUE
    BY <1>4
  <2>2. Fresh \subseteq Enabled \ seen.wrote /\ Fresh \subseteq Writers
    BY DEF Fresh, Writers, Enabled
  <2>3. FEEBusy /\ Bound = 0 /\ seen.busy
    BY <1>4, <2>1, <2>2, AtRest
  <2>4. \A c \in Enabled \ seen.wrote : s2p[c].data = s2p[f].data
    BY <2>1, <2>2, <2>3 DEF Orderly, AgreeInv
  <2>5. seen.now \subseteq {s2p[f].data}
    BY <2>1, <2>2, <2>3 DEF Orderly, NowInv
  <2>6. seen'.now = {s2p[f].data}
    <3>1. {s2p[c].data : c \in Fresh} = {s2p[f].data}
      BY <2>1, <2>2, <2>4
    <3> QED BY <1>4, <2>5, <3>1 DEF Continues
  <2>7. \A c \in Enabled \ seen'.wrote : s2p'[c].data = s2p[f].data
    BY <1>4, <2>3, <2>4, AtRest
  <2>8. s2p[f].data \in Ids /\ Enabled' = Enabled
    BY <2>1, <2>2 DEF Base, TypeOK, Enabled
  <2> QED BY <2>6, <2>7, <2>8 DEF NowInv
<1> QED BY <1>1, <1>2, <1>3, <1>4

\* At a restart no identifier is on the line, nor will be before its first bit.
LEMMA AtRestart ==
  ASSUME Base, Orderly, Next, NEW update, Restarts(update)
  PROVE  ~Sending /\ ~Ends /\ FEEBusy /\ Bound # 0 /\ Bound' # 0
<1>1. FEEBusy /\ Bound # 0
  BY BoundAtRise DEF Base, Restarts
<1>2. seen.shaken \/ seen.wrote # {}
  BY DEF Restarts, Orderly, WroteInv
<1>3. ~Sending
  BY <1>2 DEF Restarts, Orderly, WroteInv, Shaken, Settled, Sending
<1>4. ~Ends
  BY <1>3 DEF Ends
<1> QED BY <1>1, <1>3, <1>4, BoundStep DEF Base

LEMMA SentStep ==
  ASSUME Base, Orderly, Next, disabled' = disabled, NEW update \in BOOLEAN, NEW new,
         event_id' = IF update THEN new
                     ELSE IF IncEventId THEN Following(event_id) ELSE event_id,
         Restarts(update) \/ Continues(update)
  PROVE  SentInv'
<1> SUFFICES ASSUME Sending', ~seen'.renumbered
    PROVE  /\ \A k \in 1 .. IdBits - p2s'.bit : p2s'.data[k] = event_id'[k + p2s'.bit]
           /\ \A c \in Enabled : \A k \in 1 .. Taken' :
                s2p'[c].data[IdBits - Taken' + k] = event_id'[k]
  BY DEF SentInv, Enabled
<1>1. ~update
  BY DEF Restarts, Continues
<1>2. Begins \/ BitGoesOn \/ BitChanges
  BY LineStep DEF Base, Rests, Ends
<1>3. event_id' = event_id
  BY <1>1, LineStep DEF Base, Ends
<1>4. IdBits \in Nat /\ IdBits >= 1 /\ p2s.bit \in 0 .. IdBits - 1
  BY Numbers DEF Base, TypeOK
<1>5. CASE Begins
  <2>1. p2s'.bit = 0 /\ p2s'.data = event_id /\ Taken' = 0
    BY <1>5, TakenStep DEF Begins, Base
  <2> QED BY <1>3, <1>4, <2>1
<1>6. CASE BitGoesOn \/ BitChanges
  <2>1. Sending
    BY <1>6 DEF BitGoesOn, BitChanges
  <2>2. ~seen.renumbered
    BY <2>1, AtRestart DEF Continues
  <2>3. \A k \in 1 .. IdBits - p2s.bit : p2s.data[k] = event_id[k + p2s.bit]
    BY <2>1, <2>2 DEF Orderly, SentInv
  <2>4. \A k \in 1 .. IdBits - p2s'.bit : p2s'.data[k] = event_id'[k + p2s'.bit]
    <3>1. CASE BitGoesOn
      BY <1>3, <2>3, <3>1 DEF BitGoesOn
    <3>2. CASE BitChanges
      <4>1. p2s'.bit = p2s.bit + 1 /\ p2s'.data = ShiftIn(p2s.data, 0)
        BY <3>2 DEF BitChanges
      <4> SUFFICES ASSUME NEW k \in 1 .. IdBits - p2s'.bit
          PROVE  p2s'.data[k] = event_id[k + p2s'.bit]
        BY <1>3
      <4>2. k \in 1 .. IdBits /\ k < IdBits /\ k + 1 \in 1 .. IdBits - p2s.bit
        BY <1>4, <4>1
      <4>3. p2s.data[k + 1] = event_id[(k + 1) + p2s.bit]
        BY <2>3, <4>2
      <4>4. (k + 1) + p2s.bit = k + p2s'.bit
        BY <1>4, <4>1, <4>2
      <4>5. p2s'.data[k] = p2s.data[k + 1]
        BY <4>1, <4>2 DEF ShiftIn
      <4> QED BY <4>3, <4>4, <4>5
    <3> QED BY <1>6, <3>1, <3>2
  <2>5. ASSUME NEW c \in Enabled, NEW k \in 1 .. Taken'
        PROVE  s2p'[c].data[IdBits - Taken' + k] = event_id[k]
    <3>1. \A l \in 1 .. Taken : s2p[c].data[IdBits - Taken + l] = event_id[l]
      BY <2>1, <2>2 DEF Orderly, SentInv
    <3>2. /\ Taken \in 0 .. IdBits /\ Taken' = IF Since = 2 THEN Taken + 1 ELSE Taken
          /\ Since = 2 => Taken = p2s.bit
      BY <1>6, <2>1, TakenStep DEF Base
    <3>3. s2p'[c].data = IF Since = 2 THEN ShiftIn(s2p[c].data, p2s.data[1])
                         ELSE s2p[c].data
      BY <2>1, Receives
    <3>4. CASE Since # 2
      BY <3>1, <3>2, <3>3, <3>4
    <3>5. CASE Since = 2 /\ k = Taken'
      <4>1. k = p2s.bit + 1 /\ IdBits - Taken' + k = IdBits
        BY <1>4, <3>2, <3>5
      <4>2. s2p'[c].data[IdBits] = p2s.data[1]
        BY <1>4, <3>3, <3>5 DEF ShiftIn
      <4>3. p2s.data[1] = event_id[1 + p2s.bit] /\ 1 + p2s.bit = k
        BY <1>4, <2>3, <4>1
      <4> QED BY <4>1, <4>2, <4>3
    <3>6. CASE Since = 2 /\ k # Taken'
      <4> DEFINE l == IdBits - Taken' + k
      <4>1. Taken' = Taken + 1 /\ k \in 1 .. Taken /\ Taken = p2s.bit
        BY <1>4, <3>2, <3>6
      <4>2. l \in 1 .. IdBits /\ l < IdBits /\ l + 1 = IdBits - Taken + k
        BY <1>4, <4>1
      <4>3. s2p'[c].data[l] = s2p[c].data[l + 1]
        BY <3>3, <3>6, <4>2 DEF ShiftIn
      <4>4. s2p[c].data[IdBits - Taken + k] = event_id[k]
        BY <3>1, <4>1
      <4> QED BY <4>2, <4>3, <4>4
    <3> QED BY <3>4, <3>5, <3>6
  <2> QED BY <1>3, <2>4, <2>5
<1> QED BY <1>2, <1>5, <1>6

LEMMA NewStep ==
  ASSUME Base, Orderly, Next, disabled' = disabled, NEW update \in BOOLEAN, NEW new,
         event_id' = IF update THEN new
                     ELSE IF IncEventId THEN Following(event_id) ELSE event_id,
         Restarts(update) \/ Continues(update)
  PROVE  NewInv'
<1>1. /\ event_id \notin seen.before
      /\ seen.renumbered => seen.before = {}
      /\ ~seen.renumbered => event_id \notin seen.now
      /\ seen.now \cap seen.before = {}
      /\ FEEBusy /\ Bound = 0 => \A c \in Enabled \ seen.wrote :
           s2p[c].data \notin seen.before /\ (~seen.renumbered => s2p[c].data # event_id)
  BY DEF Orderly, NewInv
<1>2. IncEventId <=> Ends
  BY LineStep DEF Base
<1>3. FEEBusy' /\ Bound' = 0 => FEEBusy /\ (Bound # 0 => Ends)
  BY BoundAtRise, BoundStep DEF Base
<1>4. Enabled' = Enabled
  BY DEF Enabled
<1>5. event_id \in Ids /\ Following(event_id) # event_id
  BY FollowingDiffers DEF Base, TypeOK
<1>6. CASE Restarts(update)
  <2>1. ~Ends /\ Bound' # 0
    BY <1>6, AtRestart
  <2>2. /\ seen'.now = {} /\ seen'.wrote = {} /\ seen'.renumbered = update
        /\ seen'.before = IF update \/ seen.renumbered THEN {} ELSE seen.now
    BY <1>6 DEF Restarts
  <2>3. ~update => event_id' = event_id
    BY <1>2, <2>1
  <2>4. event_id' \notin seen'.before
    BY <1>1, <2>2, <2>3
  <2> QED BY <2>1, <2>2, <2>4 DEF NewInv
<1>7. CASE Continues(update)
  <2>1. /\ seen'.now = seen.now \cup {s2p[c].data : c \in Fresh}
        /\ seen'.before = IF update THEN {}
                          ELSE IF IncEventId THEN seen.before \ {Following(event_id)}
                          ELSE seen.before
        /\ seen'.renumbered = (seen.renumbered \/ update)
    BY <1>7 DEF Continues
  <2>2. seen'.before \subseteq seen.before
    BY <2>1
  <2>3. Ends => seen'.now = {}
    BY <1>7, LastBit
  <2>4. ~seen'.renumbered => ~update /\ ~seen.renumbered
    BY <2>1
  <2>5. \A c \in Fresh : /\ s2p[c].data \notin seen.before
                         /\ ~seen.renumbered => s2p[c].data # event_id
    <3>1. Fresh \subseteq Enabled \ seen.wrote /\ Fresh \subseteq Writers
      BY DEF Fresh, Writers, Enabled
    <3>2. Writers # {} => Bound = 0 /\ FEEBusy
      BY <1>7, AtRest
    <3> QED BY <1>1, <3>1, <3>2
  <2>6. event_id' \notin seen'.before
    BY <1>1, <2>1
  <2>7. seen'.renumbered => seen'.before = {}
    BY <1>1, <2>1
  <2>8. ~seen'.renumbered => event_id' \notin seen'.now
    <3>1. CASE Ends
      BY <2>3, <3>1
    <3>2. CASE ~Ends /\ ~seen'.renumbered
      <4>1. event_id' = event_id
        BY <1>2, <2>4, <3>2
      <4>2. event_id \notin seen.now /\ ~seen.renumbered
        BY <1>1, <2>4, <3>2
      <4> QED BY <2>1, <2>5, <4>1, <4>2
    <3> QED BY <3>1, <3>2
  <2>9. seen'.now \cap seen'.before = {}
    BY <1>1, <2>1, <2>2, <2>5
  <2>10. ASSUME FEEBusy', Bound' = 0, NEW c \in Enabled \ seen'.wrote
         PROVE  /\ s2p'[c].data \notin seen'.before
                /\ ~seen'.renumbered => s2p'[c].data # event_id'
    <3>1. CASE Bound = 0
      <4>1. ~Ends /\ c \in Enabled \ seen.wrote /\ s2p'[c].data = s2p[c].data
        BY <1>7, <2>10, <3>1, AtRest
      <4>2. ~seen'.renumbered => event_id' = event_id
        BY <1>2, <2>4, <4>1
      <4> QED BY <1>1, <1>3, <2>2, <2>4, <2>10, <3>1, <4>1, <4>2
    <3>2. CASE Bound # 0
      <4>1. Ends
        BY <1>3, <2>10, <3>2
      <4>2. s2p'[c].data = s2p[c].data /\ (~seen.renumbered => s2p[c].data = event_id)
        BY <1>7, <4>1, LastBit
      <4>3. seen.renumbered => seen'.before = {} /\ seen'.renumbered
        BY <1>1, <2>1, <2>2
      <4>4. ~seen'.renumbered => event_id' = Following(event_id)
        BY <1>2, <2>4, <4>1
      <4> QED BY <1>1, <1>5, <2>2, <4>2, <4>3, <4>4
    <3> QED BY <3>1, <3>2
  <2> QED BY <1>4, <2>6, <2>7, <2>8, <2>9, <2>10 DEF NewInv
<1> QED BY <1>6, <1>7

LEMMA MarkStep ==
  ASSUME Base, Orderly, Next, disabled' = disabled, NEW update,
         Restarts(update) \/ Continues(update)
  PROVE  MarkInv'
<1>1. Enabled' = Enabled
  BY DEF Enabled
<1>2. CASE Restarts(update)
  BY <1>2 DEF Restarts, MarkInv
<1>3. CASE Continues(update)
  <2>1. /\ seen'.repeats = seen.repeats \cup {s2p[c].data : c \in (Writers \ Fresh) \ seen.cut}
        /\ seen'.wrote = seen.wrote \cup Writers
        /\ seen'.cut = seen.cut \cup {c \in Writers : chip'[c].st = "op"}
    BY <1>3 DEF Continues
  <2>2. /\ seen.repeats \subseteq {Zero}
        /\ \A c \in (Enabled \cap seen.wrote) \ seen.cut :
             \/ chip[c].st = "wfifo01" \/ s2p[c].clr[1] \/ s2p[c].clr[2]
             \/ s2p[c].data = Zero
    BY DEF Orderly, MarkInv
  <2>3. ASSUME NEW c \in (Writers \ Fresh) \ seen.cut PROVE s2p[c].data = Zero
    <3>1. c \in (Enabled \cap seen.wrote) \ seen.cut /\ c \in Chips /\ chip[c].st = "wfifo00"
      BY DEF Writers, Fresh, Enabled
    <3>2. (~s2p[c].clr[1]) /\ (~s2p[c].clr[2])
      BY <3>1 DEF Base, ClearInv
    <3> QED BY <2>2, <3>1, <3>2
  <2>4. ASSUME NEW c \in (Enabled \cap seen'.wrote) \ seen'.cut
        PROVE  \/ chip'[c].st = "wfifo01" \/ s2p'[c].clr[1] \/ s2p'[c].clr[2]
               \/ s2p'[c].data = Zero
    <3>1. c \in Chips /\ c \in Enabled /\ c \notin seen.cut
      BY <2>1 DEF Enabled
    <3>2. CASE c \in Writers
      <4>1. chip[c].st = "wfifo00" /\ chip'[c].st # "op"
        BY <2>1, <3>2 DEF Writers
      <4> QED BY <3>1, <4>1, MoveStep DEF Base, At
    <3>3. CASE c \notin Writers
      <4>1. c \in (Enabled \cap seen.wrote) \ seen.cut
        BY <2>1, <3>1, <3>3
      <4>2. /\ s2p'[c].clr[1] = (chip[c].st = "wfifo01") /\ s2p'[c].clr[2] = s2p[c].clr[1]
            /\ Edge(s2p[c].clr) => s2p'[c].data = Zero
        BY <3>1, ReceiveStep DEF Base
      <4>3. CASE s2p[c].clr[2]
        <5>1. Edge(s2p[c].clr)
          BY <3>1, <4>3 DEF Base, ClearInv, Edge
        <5> QED BY <4>2, <5>1
      <4>4. CASE s2p[c].data = Zero
        <5>1. ~Sending
          BY <4>1 DEF Orderly, WroteInv
        <5> QED BY <3>1, <4>4, <5>1, Receives
      <4> QED BY <2>2, <4>1, <4>2, <4>3, <4>4
    <3> QED BY <3>2, <3>3
  <2>5. seen'.repeats \subseteq {Zero}
    BY <2>1, <2>2, <2>3
  <2> QED BY <1>1, <2>4, <2>5 DEF MarkInv
<1> QED BY <1>2, <1>3

LEMMA EventInit ==
  ASSUME Init
  PROVE  EventInv
<1>1. TypeOK
  BY TypeInit
<1>2. /\ \A c \in Chips : /\ chip[c].st = "idle" /\ s2p[c].clr = Quiet /\ ~s2p[c].clear
                          /\ s2p[c].latch = Quiet
      /\ p2s.st = "IDLE" /\ seen = Nothing /\ disabled = {}
      /\ goFsm = [wait |-> FALSE, last |-> FALSE, go |-> FALSE]
      /\ ready = [last |-> FALSE, edge |-> FALSE, high |-> FALSE, count |-> 0]
  BY DEF Init, At
<1>3. ~FEEBusy /\ ~Sending
  BY <1>2 DEF FEEBusy, Sending
<1>4. GoInv
  BY <1>2, <1>3 DEF GoInv
<1>5. ClearInv /\ RestInv
  <2>1. \A c \in Chips : /\ (~s2p[c].clr[1]) /\ (~s2p[c].clr[2]) /\ (~s2p[c].clr[3])
                         /\ s2p[c].clear = s2p[c].clr[3]
                         /\ (~s2p[c].latch[1]) /\ (~s2p[c].latch[2])
    BY <1>2 DEF Init, Quiet
  <2> QED BY <1>3, <2>1 DEF ClearInv, RestInv
<1>6. UnknownInv
  BY <1>2 DEF UnknownInv, Nothing
<1>7. \A c \in Enabled : chip[c].st = "idle" /\ ~Clearing(c)
  BY <1>2, QuietFlags DEF Enabled, Clearing
<1>8. TimeInv
  BY <1>7 DEF TimeInv
<1>9. FlagInv /\ PartInv /\ SentInv /\ AgreeInv
  BY <1>3 DEF FlagInv, PartInv, SentInv, AgreeInv
<1>10. WroteInv /\ NowInv /\ NewInv /\ MarkInv
  BY <1>2, <1>3, <1>7 DEF WroteInv, NowInv, NewInv, MarkInv, Nothing
<1> QED BY <1>1, <1>4, <1>5, <1>6, <1>8, <1>9, <1>10 DEF EventInv, Base, Orderly

LEMMA EventStep ==
  ASSUME EventInv, Next
  PROVE  EventInv'
<1>1. TypeOK' /\ GoInv' /\ ClearInv' /\ RestInv'
  BY TypeStep, GoInvStep, ClearStep, RestStep DEF EventInv, Base
<1>2. UnknownInv'
  <2>1. Forgets \/ ~seen'.shaken
    BY SeenStep DEF EventInv, Base, Restarts, Continues
  <2> QED BY <2>1 DEF Forgets, Nothing, UnknownInv
<1>3. ASSUME ~seen'.shaken PROVE Orderly'
  <2>1. Base /\ Orderly /\ disabled' = disabled /\ seen'.busy = FEEBusy
    BY <1>3, OrderlyBefore DEF EventInv
  <2>2. PICK update \in BOOLEAN, new \in Ids :
          /\ event_id' = IF update THEN new
                         ELSE IF IncEventId THEN Following(event_id) ELSE event_id
          /\ Restarts(update) \/ Continues(update)
    BY <1>3, OrderlyBefore
  <2>3. TimeInv' /\ FlagInv' /\ PartInv'
    BY <2>1, TimeStep, FlagStep, PartStep
  <2>4. AgreeInv' /\ WroteInv' /\ NowInv'
    BY <2>1, <2>2, AgreeStep, WroteStep, NowStep
  <2>5. SentInv' /\ NewInv' /\ MarkInv'
    BY <2>1, <2>2, SentStep, NewStep, MarkStep
  <2> QED BY <2>3, <2>4, <2>5 DEF Orderly
<1> QED BY <1>1, <1>2, <1>3 DEF EventInv, Base

LEMMA EventStutter ==
  ASSUME EventInv, UNCHANGED vars
  PROVE  EventInv'
<1>1. TypeOK' /\ GoInv' /\ ClearInv' /\ RestInv' /\ UnknownInv'
  BY DEF EventInv, Base, TypeOK, GoInv, ClearInv, RestInv, UnknownInv,
         FEEBusy, Sending, Since, vars
<1>2. Orderly => TimeInv' /\ AgreeInv' /\ WroteInv' /\ NowInv' /\ NewInv'
  BY DEF Orderly, TimeInv, AgreeInv, WroteInv, NowInv, NewInv, Enabled, Clearing, FEEBusy,
         Bound, ToSend, Since, Sending, vars
<1>3. Orderly => FlagInv' /\ PartInv' /\ SentInv' /\ MarkInv'
  BY DEF Orderly, FlagInv, PartInv, SentInv, MarkInv, Enabled, Sending, Since, Taken, vars
<1>4. seen' = seen
  BY DEF vars
<1> QED BY <1>1, <1>2, <1>3, <1>4 DEF EventInv, Base, Orderly

-----------------------------------------------------------------------------
\* From a busy period that begins settled until a chip is enabled or disabled,
\* no chip comes to its header while an identifier may be on the line, and all
\* that did not write a packet yet have the same new identifier from then on
\* (event_id_p2s.vhd:79, event_id_s2p.vhd:43).
THEOREM EventInvHolds == Spec => []EventInv
<1>1. Init => EventInv
  BY EventInit
<1>2. EventInv /\ [Next]_vars => EventInv'
  BY EventStep, EventStutter
<1> QED BY <1>1, <1>2, PTL DEF Spec

\* The first packets of one busy period carry one identifier, for any number of
\* chips and whatever software writes: that is how the ground joins them to one
\* event (vata_460p3_iface_fsm.vhd:1003).
THEOREM IdentifiersAgree == Spec => []IdsAgree
<1>1. EventInv => IdsAgree
  <2> SUFFICES ASSUME EventInv PROVE IdsAgree
    OBVIOUS
  <2>1. seen.now = {} \/ \E id : seen.now = {id}
    BY DEF EventInv, Base, UnknownInv, Orderly, NowInv
  <2>2. Cardinality(seen.now) = 0 \/ Cardinality(seen.now) = 1
    BY <2>1, FS_EmptySet, FS_Singleton
  <2> QED BY <2>2 DEF IdsAgree
<1> QED BY <1>1, EventInvHolds, PTL

\* Packets of two successive busy periods carry different identifiers, and a
\* chip's second packet of a period carries none, unless the packet before was
\* cut off (event_id_gen's counter, vata_460p3_iface_fsm.vhd:1011).
THEOREM IdentifiersDiffer == Spec => []IdsDiffer
<1>1. EventInv => IdsDiffer
  BY DEF EventInv, Base, UnknownInv, Orderly, NewInv, MarkInv, IdsDiffer
<1> QED BY <1>1, EventInvHolds, PTL

\* gen_event_id_go never waits for a FEE_ready that was already over, whatever
\* chips are enabled and disabled while it is high (gen_event_id_go.vhd:40).
THEOREM GoIsArmed == Spec => []GoArmed
<1>1. EventInv => GoArmed
  BY DEF EventInv, Base, GoInv, GoArmed
<1> QED BY <1>1, EventInvHolds, PTL

=============================================================================
