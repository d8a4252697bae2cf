---------------------------- MODULE EventBuilder ----------------------------
(***************************************************************************)
(* What the data emitter of silayer-server promises, without its loops:    *)
(* the frames the chips deliver are gathered by event and published, each  *)
(* frame once and together with all frames of its event that were waiting, *)
(* except that a chip's later frame of an event replaces an earlier one    *)
(* that was still waiting.                                                 *)
(***************************************************************************)
EXTENDS Naturals, FiniteSets

CONSTANTS
  NVata,      \* number of chips (N_VATA)
  EventIds,   \* event identifiers (the first word of a packet)
  MaxFrames   \* bound: frames a chip delivers

Vatas == 1 .. NVata

\* A data packet of one chip.  n numbers the packets of a chip, so that a
\* repeated event identifier does not make two of them equal.
Frame == [vata : Vatas, id : EventIds, n : 1 .. MaxFrames]

VARIABLES
  waiting,    \* frames read and not yet published
  published,  \* sets of frames sent to the subscribers
  replaced    \* frames another one replaced while waiting

ebVars == <<waiting, published, replaced>>

EBInit == waiting = {} /\ published = {} /\ replaced = {}

Rivals(f) == {g \in waiting : g.vata = f.vata /\ g.id = f.id}

Gather(f) ==
  /\ f \notin waiting \cup replaced \cup UNION published
  /\ waiting' = (waiting \ Rivals(f)) \cup {f}
  /\ replaced' = replaced \cup Rivals(f)
  /\ UNCHANGED published

Publish(id) ==
  LET event == {f \in waiting : f.id = id}
  IN /\ event # {}
     /\ published' = published \cup {event}
     /\ waiting' = waiting \ event
     /\ UNCHANGED replaced

EBNext == (\E f \in Frame : Gather(f)) \/ (\E id \in EventIds : Publish(id))

EBSpec == EBInit /\ [][EBNext]_ebVars

-----------------------------------------------------------------------------

\* Every packet sent holds the frames of one event, at most one per chip, and
\* no frame is sent twice, nor sent after it was replaced.
PublishedOnce ==
  /\ \A p \in published :
       /\ p # {} /\ p \subseteq Frame
       /\ \A f, g \in p : f.id = g.id /\ (f.vata = g.vata => f = g)
       /\ p \cap (waiting \cup replaced) = {}
  /\ \A p, q \in published : p # q => p \cap q = {}
=============================================================================
