-------------------------------- MODULE Upload ---------------------------------
(***************************************************************************)
(* What happens to one open file: its format is detected and extractors    *)
(* are created for it, and it is read through the handles of a             *)
(* SingleFileFS.  Both move the one position of the file.  The goroutine   *)
(* that uses the file does one thing at a time; others register detectors  *)
(* and extractors meanwhile.                                               *)
(***************************************************************************)
EXTENDS ArchiveRegistry

CONSTANTS Files,    \* the files
          Handles, Chunk, Nobody

ASSUME UploadAssumption ==
  /\ \A f \in Files : f.len \in Nat /\ f.seekable \in BOOLEAN /\ \A o \in DOMAIN f.kinds : o \in Nat /\ o < f.len
  /\ Chunk \in Nat
  /\ Nobody \notin Handles

VARIABLES open, alone, place

S == INSTANCE SingleFileFS

handles == <<open, alone, place>>

Init == /\ \E f \in Files : \E p \in {0, Smaller(Chunk, f.len)} : InitOn(f, p)
        /\ S!Init

\* CreateExtractor moves the file, and so does a Seek back that fails: who
\* reads the file through a handle must know.
DetectionStep == /\ Step
                 /\ IF call.is = "create" \/ call'.lost \/ (result'.is # "none" /\ result'.lost)
                    THEN S!Disturb ELSE UNCHANGED <<alone, place>>
                 /\ UNCHANGED open

Detect == DetectFormat /\ UNCHANGED handles
Create == CreateExtractor /\ UNCHANGED handles

\* A use of a handle, between calls.
HandleStep(A) == call.step = "idle" /\ A /\ UNCHANGED <<file, registry, call, result>>

Open(h) == HandleStep(S!Open(h))
Read(h) == HandleStep(S!Read(h))
SeekTo(h, to) == HandleStep(S!SeekTo(h, to))
Close(h) == HandleStep(S!Close(h))

Next == \/ DetectionStep \/ Detect \/ Create
        \/ Register /\ UNCHANGED handles
        \/ \E h \in Handles : Open(h) \/ Read(h) \/ SeekTo(h, 0) \/ Close(h)

Spec == Init /\ [][Next]_<<vars, handles>> /\ WF_<<vars, handles>>(DetectionStep)

-----------------------------------------------------------------------------
\* The type of the variables of both.
UploadTypeOK ==
  /\ TypeOK
  /\ open \subseteq Handles /\ alone \in open \union {Nobody}
  /\ place \in 0..file.len

\* Between calls, a handle that no other has disturbed finds the file where it
\* left it, although DetectFormat has used the file in between
\* (singlefilefs.go:62-76, archive_registry.go:221-224).
HandlesKeepTheirPlace == call.step = "idle" => S!AloneInPlace

\* Every call returns.
CallsReturn == call.step # "idle" ~> call.step = "idle"
=============================================================================
