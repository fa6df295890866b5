------------------------------- MODULE CARLoader -------------------------------
(***************************************************************************)
(* carv2.LoadCar (src/internal/carv2/car.go): the header and the sections  *)
(* of a CARv1 stream are read in order, and the blocks are put into a      *)
(* store: one by one, or in batches when the store can take them.          *)
(*                                                                         *)
(* A section is a block and what has become of it on the way.  The stream  *)
(* ends after its last section, or inside it.                              *)
(***************************************************************************)
EXTENDS Naturals, Sequences, SequencesExt

CONSTANTS BatchLimit  \* a batch is put when it has more blocks (1000), a natural number

\* What may be wrong with a section: the stream ends inside the length prefix,
\* right after it, or inside the data; the hash of the data is not that of
\* the CID; the section is longer than the limit.
Cuts == {"in prefix", "after prefix", "in data"}
Flaws == Cuts \union {"wrong hash", "too large"}

VARIABLES
  stream,   \* the CAR: is its header valid, its sections
  batched,  \* the store takes batches
  at,       \* the number of sections read
  batch,    \* the blocks read and not put yet
  stored,   \* the blocks put into the store, in order
  pc,       \* where LoadCar is
  outcome   \* how it ended

vars == <<stream, batched, at, batch, stored, pc, outcome>>

NoStream == [header |-> FALSE, sections |-> << >>]

Init == /\ stream = NoStream
        /\ batched = FALSE
        /\ at = 0
        /\ batch = << >>
        /\ stored = << >>
        /\ pc = "idle"
        /\ outcome = "none"

Loading == pc # "idle"

Return(how) == pc' = "idle" /\ outcome' = how

LoadCar(s, b) ==
  /\ ~Loading
  /\ stream' = s
  /\ batched' = b
  /\ at' = 0
  /\ batch' = << >>
  /\ stored' = << >>
  /\ pc' = "header"
  /\ outcome' = "none"

\* NewCarReader: the header is cut, of another version, or without roots.
ReadHeader ==
  /\ pc = "header"
  /\ IF stream.header THEN pc' = "sections" /\ outcome' = outcome ELSE Return("failed")
  /\ UNCHANGED <<stream, batched, at, batch, stored>>

\* A faulty end of the stream, that takes an end inside the data for one.
EndOfAnyCut == at < Len(stream.sections) => stream.sections[at + 1].flaw \in Cuts

\* Next returns io.EOF: at the end of the stream, and also right after a
\* length prefix, where ReadFull has read nothing.
EndOfStream == at < Len(stream.sections) => stream.sections[at + 1].flaw = "after prefix"

Section == stream.sections[at + 1]

\* The next section is a block.
ReadsBlock == pc = "sections" /\ ~EndOfStream /\ Section.flaw \notin Flaws

\* loadCarFast puts the batch when it is longer than the limit.
PutBatch(blocks) == IF Len(blocks) > BatchLimit
                    THEN batch' = << >> /\ stored' = stored \o blocks
                    ELSE batch' = blocks /\ stored' = stored

LoadBlock ==
  /\ ReadsBlock
  /\ at' = at + 1
  /\ IF batched THEN PutBatch(Append(batch, Section.cid))
                ELSE stored' = Append(stored, Section.cid) /\ batch' = batch
  /\ UNCHANGED <<stream, batched, pc, outcome>>

\* What the next step would put into the store.
Pending == IF EndOfStream THEN batch
           ELSE IF ~batched THEN <<Section.cid>>
           ELSE IF Len(batch) >= BatchLimit THEN Append(batch, Section.cid) ELSE << >>

\* The store fails, after it has taken some of the blocks it was given.
StoreFails ==
  /\ pc = "sections" /\ (EndOfStream \/ ReadsBlock)
  /\ Pending # << >>
  /\ \E n \in 0..(Len(Pending) - 1) : stored' = stored \o SubSeq(Pending, 1, n)
  /\ Return("store failed")
  /\ UNCHANGED <<stream, batched, at, batch>>

\* A section that is not a block: what is left of the batch is not put.
LoadFails ==
  /\ pc = "sections" /\ ~EndOfStream /\ ~ReadsBlock
  /\ Return("failed")
  /\ UNCHANGED <<stream, batched, at, batch, stored>>

FinishLoad ==
  /\ pc = "sections" /\ EndOfStream
  /\ stored' = stored \o batch
  /\ batch' = << >>
  /\ Return("loaded")
  /\ UNCHANGED <<stream, batched, at>>

Advance == ReadHeader \/ LoadBlock \/ StoreFails \/ LoadFails \/ FinishLoad

=============================================================================
