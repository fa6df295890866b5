---------------------------- MODULE ArchiveRegistry ----------------------------
(***************************************************************************)
(* archive.ArchiveRegistry (src/archive/archive_registry.go): DetectFormat *)
(* and CreateExtractor of one goroutine on a reader with a position, while *)
(* others register detectors and extractors.  Every Seek and Read of the   *)
(* reader may fail.  A lock is held only to copy or to change the lists.   *)
(*                                                                         *)
(* Of the contents of a file the detection sees its length and the offsets *)
(* where contents of a kind begin: file.kinds maps these offsets to kinds.  *)
(***************************************************************************)
EXTENDS Naturals, Sequences

CONSTANTS Formats,            \* the formats for which extractors are registered
          DetectBytes,        \* read for the primary detection (1024)
          MinDetectionBytes,  \* needed for it (20)
          CarHead,            \* read by detectCAR (512)
          MinCarBytes,        \* needed by it (12)
          TarHead             \* read by detectCompressedTar (10)

ASSUME BytesAssumption ==
  /\ {DetectBytes, MinDetectionBytes, CarHead, MinCarBytes, TarHead} \subseteq Nat \ {0}
  /\ MinDetectionBytes <= DetectBytes

VARIABLES
  file,         \* the file behind the reader
  pos,          \* the position of the reader
  extractors,   \* the formats that have an extractor
  detectors,    \* the detectors, in the order of their registration
  call,         \* the call that runs, its step and its local variables
  result        \* what the last call returned

registry == <<extractors, detectors>>
vars == <<file, pos, registry, call, result>>

Smaller(m, n) == IF m <= n THEN m ELSE n

\* The extractors of init.
BuiltIn == {"zip", "tar", "tar.gz", "tar.bz2", "rar", "7z"}

\* mimeToFormat: the contents that the primary detection knows by themselves.
Direct == {"zip", "tar", "rar", "7z"}

\* The formats detected from the magic numbers of compressed contents.
Compressed == [gzip |-> "tar.gz", bzip2 |-> "tar.bz2"]

DefaultDetectors == <<"detectCAR", "detectCompressedTar">>

\* No call runs.  Of a call: its step, DetectFormat's copies of the detectors
\* that it has still to try and of the extractors, the positions that
\* CreateExtractor and DetectFormat restore, the number of bytes read, and the
\* detected format; and, for the properties, the position when it was made,
\* whether a Seek back has failed, and whether detectCAR was tried in vain.
NoCall == [is |-> "none", step |-> "idle", toTry |-> << >>, supported |-> {}, outerPos |-> 0,
           currentPos |-> 0, header |-> 0, format |-> "unknown",
           before |-> 0, lost |-> FALSE, failed |-> FALSE]

InitOn(f, p) ==
  /\ file = f /\ pos = p
  /\ extractors = {} /\ detectors = << >>
  /\ call = NoCall
  /\ result = [is |-> "none"]

-----------------------------------------------------------------------------
(* Registration, at any time. *)

\* A faulty registration, of one format at a time.
RegisterOnly(f) ==
  /\ extractors' = {f}
  /\ UNCHANGED <<file, pos, detectors, call, result>>

RegisterExtractor(f) ==
  /\ extractors' = extractors \union {f}
  /\ UNCHANGED <<file, pos, detectors, call, result>>

\* RegisterDefaultDetectors: one call of RegisterDetector after the other.
RegisterDetector ==
  /\ Len(detectors) < Len(DefaultDetectors)
  /\ detectors' = Append(detectors, DefaultDetectors[Len(detectors) + 1])
  /\ UNCHANGED <<file, pos, extractors, call, result>>

-----------------------------------------------------------------------------
(* The steps of a call. *)

At(step) == /\ call.step = step
            /\ UNCHANGED <<file, registry>>

Goto(c, step) == /\ call' = [c EXCEPT !.step = step]
                 /\ UNCHANGED result

\* The call returns r with the reader at the position where it is then.
Return(c, r) == /\ call' = NoCall
                /\ result' = [is |-> r, call |-> c.is, format |-> c.format, moved |-> pos' # c.before,
                              lost |-> c.lost, failed |-> c.failed]

\* The kind of contents that bytes read at offset o begin with.
KindAt(o) == IF o \in DOMAIN file.kinds THEN file.kinds[o] ELSE "plain"

\* The number of bytes that a read of at most limit bytes gives.
Available(limit) == IF pos < file.len THEN Smaller(limit, file.len - pos) ELSE 0

\* A read that fails may have read some of the bytes.
ReadFails(limit) == \E n \in 0..Available(limit) : n < limit /\ pos' = pos + n

Failed(c) == [c EXCEPT !.failed = TRUE]
Lost(c) == [c EXCEPT !.lost = TRUE, !.failed = TRUE]

Start(c, step) ==
  /\ At("idle")
  /\ call' = [NoCall EXCEPT !.is = c, !.step = step, !.before = pos]
  /\ result' = [is |-> "none"]
  /\ UNCHANGED pos

DetectFormat == Start("detect", "snapshot")

\* The reader of CreateExtractor can always seek.
CreateExtractor == file.seekable /\ Start("create", "outer")

\* DetectFormat returns an error, to its caller or to CreateExtractor, which
\* restores the position too.
Undetected(c) == IF c.is = "detect" THEN Return(c, "undetected") ELSE Goto(c, "restore outer")

\* PrepareReaderPreservePos in CreateExtractor.
PrepareOuter ==
  /\ At("outer")
  /\ \/ pos' = 0 /\ Goto([call EXCEPT !.outerPos = pos], "snapshot")
     \/ pos' = pos /\ Return(Failed(call), "unprepared")

Snapshot ==
  /\ At("snapshot")
  /\ UNCHANGED pos
  /\ LET c == [call EXCEPT !.toTry = detectors, !.supported = extractors]
     IN  IF ~file.seekable \/ (detectors = << >> /\ extractors = {}) THEN Undetected(c)
         ELSE Goto(c, "prepare")

\* PrepareReaderPreservePos in DetectFormat.
Prepare ==
  /\ At("prepare")
  /\ \/ pos' = 0 /\ Goto([call EXCEPT !.currentPos = pos], "read")
     \/ pos' = pos /\ Undetected(Failed(call))

\* A faulty classification that forgets that the bytes may be too few.
ClassifyAnyLength(n) ==
  LET kind == KindAt(0)
  IN  IF kind \in Direct THEN kind
      ELSE IF kind \in DOMAIN Compressed THEN Compressed[kind] ELSE "file"

\* The primary detection of n bytes from the beginning.
Classify(n) ==
  LET kind == KindAt(0)
  IN  IF n < MinDetectionBytes THEN "unknown"
      ELSE IF kind \in Direct THEN kind
      ELSE IF kind \in DOMAIN Compressed THEN Compressed[kind] ELSE "file"

ReadHeader ==
  /\ At("read")
  /\ \/ LET n == Available(DetectBytes)
            format == Classify(n)
        IN  /\ pos' = pos + n
            /\ Goto([call EXCEPT !.header = n, !.format = format],
                    IF format \in {"unknown", "file"} THEN "rewind" ELSE "restore")
     \/ ReadFails(DetectBytes) /\ Goto(Failed(call), "give up")

\* The reader is at the beginning for the first of the custom detectors.
Rewind ==
  /\ At("rewind")
  /\ \/ pos' = 0 /\ Goto(call, "custom")
     \/ pos' = pos /\ Goto(Failed(call), "give up")

\* What a detector reads at most, and the format it finds in n bytes.
DetectorBytes(d) == IF d = "detectCAR" THEN CarHead ELSE TarHead

Found(d, n) ==
  LET kind == KindAt(pos)
  IN  IF d = "detectCAR" THEN IF n >= MinCarBytes /\ kind = "car" THEN "car" ELSE "unknown"
      ELSE IF kind \in DOMAIN Compressed THEN Compressed[kind] ELSE "unknown"

\* The next detector reads where the last one stopped.  If it fails it has
\* found nothing.
RunDetector ==
  /\ At("custom") /\ call.toTry # << >>
  /\ LET d == Head(call.toTry)
         n == Available(DetectorBytes(d))
         tried == [call EXCEPT !.toTry = Tail(@)]
     IN  \/ /\ pos' = pos + n
            /\ IF Found(d, n) = "unknown" THEN Goto(tried, "custom")
               ELSE Goto([tried EXCEPT !.format = Found(d, n)], "restore")
         \/ ReadFails(DetectorBytes(d)) /\ Goto(Failed(tried), "custom")

\* A faulty end of the loop, that begins it again while the format is unknown.
DetectorsTriedAgain ==
  /\ At("custom") /\ call.toTry = << >>
  /\ pos' = IF call.format = "unknown" THEN 0 ELSE pos
  /\ IF call.format = "unknown" THEN Goto([call EXCEPT !.toTry = detectors], "custom")
     ELSE Goto(call, "restore")

DetectorsTried ==
  /\ At("custom") /\ call.toTry = << >>
  /\ UNCHANGED pos
  /\ Goto(call, "restore")

\* A faulty error path that leaves the reader where it is.
GiveUpUnrestored ==
  /\ At("give up")
  /\ UNCHANGED pos
  /\ Undetected(call)

\* RestoreReaderPos after an error.
GiveUp ==
  /\ At("give up")
  /\ \/ pos' = call.currentPos /\ Undetected(call)
     \/ pos' = pos /\ Undetected(Lost(call))

\* A faulty end of the detection that leaves the reader where it is.
Unrestored ==
  /\ At("restore")
  /\ UNCHANGED pos
  /\ Goto(call, "verdict")

\* RestoreReaderPos after the detection.
Restore ==
  /\ At("restore")
  /\ \/ pos' = call.currentPos /\ Goto(call, "verdict")
     \/ pos' = pos /\ Undetected(Lost(call))

\* The format, unless there is no data or no extractor for it.  What is still
\* unknown is a regular file.
Verdict ==
  /\ At("verdict")
  /\ UNCHANGED pos
  /\ LET c == IF call.format = "unknown" /\ call.header > 0 THEN [call EXCEPT !.format = "file"] ELSE call
     IN  IF c.format = "unknown" \/ c.format \notin c.supported \union {"file", "car"} THEN Undetected(c)
         ELSE IF c.is = "detect" THEN Return(c, "format")
         ELSE Goto(c, "beginning")

\* CreateExtractor restores the position after a detection that failed.
RestoreOuter ==
  /\ At("restore outer")
  /\ \/ pos' = call.outerPos /\ Return(call, "undetected")
     \/ pos' = pos /\ Return(Lost(call), "undetected")

\* The extractor is created at the beginning.
ToBeginning ==
  /\ At("beginning")
  /\ \/ pos' = 0 /\ Goto(call, "extractor")
     \/ pos' = pos /\ Return(Lost(call), "no extractor")

\* CreateExtractorForFormat looks at the extractors again.
CreateExtractorForFormat ==
  /\ At("extractor")
  /\ UNCHANGED pos
  /\ Return(call, IF call.format \in extractors THEN "extractor" ELSE "no extractor")

-----------------------------------------------------------------------------
Step == \/ PrepareOuter \/ Snapshot \/ Prepare \/ ReadHeader \/ Rewind
        \/ RunDetector \/ DetectorsTried \/ GiveUp \/ Restore \/ Verdict
        \/ RestoreOuter \/ ToBeginning \/ CreateExtractorForFormat

Register == RegisterDetector \/ \E f \in Formats : RegisterExtractor(f)

-----------------------------------------------------------------------------
(* Correctness. *)

\* The types of the variables.
TypeOK ==
  /\ {pos, call.outerPos, call.currentPos, call.before, call.header} \subseteq 0..file.len
  /\ extractors \subseteq Formats /\ call.supported \subseteq extractors
  /\ \E n \in 0..Len(DefaultDetectors) : detectors = SubSeq(DefaultDetectors, 1, n)
  /\ call.is \in {"none", "detect", "create"}
  /\ call.format \in Direct \union {"tar.gz", "tar.bz2", "car", "file", "unknown"}
  /\ result.is \in {"none", "unprepared", "undetected", "format", "no extractor", "extractor"}

\* Wherever the reader is, and whatever fails on the way, DetectFormat and a
\* CreateExtractor that detects nothing leave it where it was, unless the Seek
\* back itself fails (archive_registry.go:151-224, 259-272).
DetectionKeepsPosition ==
  result.is \in {"unprepared", "undetected", "format"} => result.lost \/ ~result.moved

\* The formats that the contents from the beginning stand for.
FormatsOfHead ==
  IF file.len < MinDetectionBytes THEN {"file"}
  ELSE IF KindAt(0) \in Direct THEN {KindAt(0)}
  ELSE IF KindAt(0) \in DOMAIN Compressed THEN {Compressed[KindAt(0)]} ELSE {"file"}

\* The offset o, of compressed contents, is where the second detector begins:
\* where the first one stops, at CarHead, or before it if a read has failed.
StartsAt(o, failed) == KindAt(o) \in DOMAIN Compressed /\ (o = CarHead \/ (failed /\ o < CarHead))

\* The format found is that of the beginning, or a CAR, or that of compressed
\* data at offset CarHead, because no detector goes back before it reads; if a
\* read has failed on the way, compressed data at any offset before that may
\* be found as well, or short compressed data at the beginning.  A format found
\* has an extractor, unless it is a file or a CAR (archive_registry.go:168-246,
\* car.go:11-33).
DetectsByContents ==
  result.is \in {"format", "no extractor", "extractor"} =>
    /\ \/ result.format \in FormatsOfHead
       \/ result.format = "car" /\ KindAt(0) = "car" /\ file.len >= MinCarBytes
       \/ /\ FormatsOfHead = {"file"}
          /\ \E o \in DOMAIN file.kinds : StartsAt(o, result.failed) /\ result.format = Compressed[KindAt(o)]
    /\ result.format \in (extractors \intersect BuiltIn) \union {"file", "car"}
    /\ result.is = "no extractor" => result.lost \/ result.format \in {"file", "car"}
=============================================================================
