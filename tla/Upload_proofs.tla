----------------------------- MODULE Upload_proofs -----------------------------
(***************************************************************************)
(* Proofs about Upload, for every set of files, whatever their lengths and *)
(* contents, every set of handles and of formats, and every length of a    *)
(* read.                                                                   *)
(***************************************************************************)
EXTENDS Upload, SequenceTheorems, TLAPS

-----------------------------------------------------------------------------
(* The invariant. *)

AllFormats == Direct \union {"tar.gz", "tar.bz2", "car", "file", "unknown"}

Steps == {"idle", "outer", "snapshot", "prepare", "read", "rewind", "custom", "restore", "verdict",
          "give up", "restore outer", "beginning", "extractor"}

\* The lists of detectors: what is registered, and what may be left to try.
Lists   == {<< >>, <<"detectCAR">>, DefaultDetectors}
ToTries == Lists \union {<<"detectCompressedTar">>}

Positions == 0..file.len

Calls == [is : {"none", "detect", "create"}, step : Steps, toTry : ToTries, supported : SUBSET Formats,
          outerPos : Positions, currentPos : Positions, header : Positions, format : AllFormats,
          before : Positions, lost : BOOLEAN, failed : BOOLEAN]

Answers == [is : {"unprepared", "undetected", "format", "no extractor", "extractor"}, call : {"detect", "create"},
            format : AllFormats, moved : BOOLEAN, lost : BOOLEAN, failed : BOOLEAN]

Types ==
  /\ file \in Files /\ pos \in Positions
  /\ extractors \in SUBSET Formats /\ detectors \in Lists
  /\ call \in Calls /\ call.supported \subseteq extractors
  /\ result \in Answers \union {[is |-> "none"]}

\* The position that DetectFormat finds and puts back.
Home == IF call.is = "create" THEN 0 ELSE call.before

\* Where the reader is at each step, and which saved position leads back.
Places ==
  /\ call.step = "idle" => call = NoCall
  /\ call.step # "idle" => call.is # "none"
  /\ call.step \in {"outer", "restore outer", "beginning", "extractor"} => call.is = "create"
  /\ call.is = "create" => file.seekable
  /\ call.is = "create" /\ call.step # "outer" => call.outerPos = call.before
  /\ call.step = "outer" => pos = call.before
  /\ call.step \in {"snapshot", "prepare"} => pos = Home
  /\ call.step = "read" => pos = 0
  /\ call.step \in {"read", "rewind", "custom", "restore", "verdict", "give up"} => call.currentPos = Home
  /\ call.step = "verdict" => pos = Home
  /\ call.lost => call.step = "restore outer"

\* The formats that the contents may be taken for.
Plausible(format, failed) ==
  \/ format \in FormatsOfHead
  \/ format = "car" /\ KindAt(0) = "car" /\ file.len >= MinCarBytes
  \/ /\ FormatsOfHead = {"file"}
     /\ \E o \in DOMAIN file.kinds : StartsAt(o, failed) /\ format = Compressed[KindAt(o)]

\* Where the second detector may find the reader.
SecondAt(p, failed) == p = Smaller(CarHead, file.len) \/ (failed /\ p < CarHead)

\* The primary detection has found nothing but a file.
NothingAtHead == FormatsOfHead = {"file"} /\ call.format \in {"unknown", "file"}

\* What is known of the contents at each step.
Contents ==
  /\ call.step \in {"prepare", "read", "rewind"} => call.toTry \in Lists
  /\ call.step \in {"rewind", "custom"} => NothingAtHead
  /\ call.step = "custom" =>
       \/ call.toTry = << >>
       \/ call.toTry \in Lists /\ pos = 0
       \/ call.toTry = <<"detectCompressedTar">> /\ SecondAt(pos, call.failed)
  /\ call.step \in {"restore", "verdict"} => NothingAtHead \/ Plausible(call.format, call.failed)
  /\ call.step \in {"beginning", "extractor"} =>
       /\ Plausible(call.format, call.failed)
       /\ call.format \in (call.supported \intersect BuiltIn) \union {"file", "car"}

DetectionInv == Types /\ Places /\ Contents /\ DetectionKeepsPosition /\ DetectsByContents

\* A handle that has the file to itself is where the call began.
HandleInv ==
  /\ open \subseteq Handles /\ alone \in open \union {Nobody} /\ place \in Positions
  /\ alone # Nobody => place = IF call.step = "idle" THEN pos ELSE call.before

IInv == DetectionInv /\ HandleInv

-----------------------------------------------------------------------------
(* The ways in which a step ends: the call goes on, or returns. *)

\* What a step does to the call that the handles depend on.
Progress ==
  /\ UNCHANGED file /\ pos' \in Positions
  /\ \/ call'.step # "idle" /\ call'.is = call.is /\ call'.before = call.before /\ UNCHANGED result
     \/ /\ call'.step = "idle" /\ result'.is # "none" /\ result'.moved = (pos' # call.before)
        /\ call.is = "detect" => result'.is \in {"undetected", "format"}

\* A call that goes on to a step is what it was but for the step.
LEMMA GotoFields ==
  ASSUME NEW c \in Calls, NEW s \in Steps, Goto(c, s), UNCHANGED file
  PROVE  /\ call' \in Calls' /\ result' = result
         /\ call'.step = s /\ call'.is = c.is /\ call'.toTry = c.toTry /\ call'.supported = c.supported
         /\ call'.outerPos = c.outerPos /\ call'.currentPos = c.currentPos /\ call'.header = c.header
         /\ call'.format = c.format /\ call'.before = c.before /\ call'.lost = c.lost /\ call'.failed = c.failed
BY DEF Goto, Calls, Positions

LEMMA ReturnFields ==
  ASSUME NEW c \in Calls, NEW r, Return(c, r)
  PROVE  /\ call' = NoCall
         /\ result' = [is |-> r, call |-> c.is, format |-> c.format, moved |-> pos' # c.before,
                       lost |-> c.lost, failed |-> c.failed]
         /\ result'.is = r /\ result'.call = c.is /\ result'.format = c.format
         /\ result'.moved = (pos' # c.before) /\ result'.lost = c.lost /\ result'.failed = c.failed
BY DEF Return

LEMMA NoCallType ==
  ASSUME UploadAssumption, Types
  PROVE  /\ NoCall \in Calls /\ NoCall.step = "idle" /\ NoCall.is = "none" /\ NoCall.lost = FALSE
         /\ NoCall.supported = {}
<1>1. 0 \in Positions
  BY DEF UploadAssumption, Types, Positions
<1>2. /\ "idle" \in Steps /\ << >> \in ToTries /\ {} \in SUBSET Formats /\ "unknown" \in AllFormats
      /\ FALSE \in BOOLEAN /\ "none" \in {"none", "detect", "create"}
  BY DEF Steps, ToTries, Lists, AllFormats
<1>3. QED
  BY <1>1, <1>2 DEF NoCall, Calls

\* The outcomes of a call that a failure changes.
LEMMA FailedFields ==
  ASSUME NEW c \in Calls
  PROVE  /\ Failed(c) \in Calls /\ Failed(c).failed = TRUE /\ Failed(c).lost = c.lost
         /\ Failed(c).is = c.is /\ Failed(c).before = c.before /\ Failed(c).supported = c.supported
         /\ Failed(c).toTry = c.toTry /\ Failed(c).outerPos = c.outerPos
         /\ Failed(c).currentPos = c.currentPos /\ Failed(c).format = c.format
BY DEF Failed, Calls

LEMMA LostFields ==
  ASSUME NEW c \in Calls
  PROVE  /\ Lost(c) \in Calls /\ Lost(c).failed = TRUE /\ Lost(c).lost = TRUE
         /\ Lost(c).is = c.is /\ Lost(c).before = c.before /\ Lost(c).supported = c.supported
         /\ Lost(c).outerPos = c.outerPos /\ Lost(c).format = c.format
BY DEF Lost, Calls

\* A result stays what it was while the call goes on.
LEMMA GoOn ==
  ASSUME DetectionInv, UNCHANGED <<file, registry>>, pos' \in Positions,
         NEW c \in Calls, NEW s \in Steps \ {"idle"}, Goto(c, s),
         c.is = call.is, c.before = call.before, c.supported \subseteq extractors
  PROVE  /\ Types' /\ DetectionKeepsPosition' /\ DetectsByContents' /\ Progress
         /\ call'.step = s /\ call'.is = c.is /\ call'.toTry = c.toTry /\ call'.supported = c.supported
         /\ call'.outerPos = c.outerPos /\ call'.currentPos = c.currentPos
         /\ call'.format = c.format /\ call'.before = c.before /\ call'.lost = c.lost /\ call'.failed = c.failed
<1>1. /\ call' \in Calls' /\ result' = result
      /\ call'.step = s /\ call'.is = c.is /\ call'.toTry = c.toTry /\ call'.supported = c.supported
      /\ call'.outerPos = c.outerPos /\ call'.currentPos = c.currentPos
      /\ call'.format = c.format /\ call'.before = c.before /\ call'.lost = c.lost /\ call'.failed = c.failed
  BY GotoFields
<1>2. Types'
  BY <1>1 DEF DetectionInv, Types, registry, Positions
<1>3. DetectionKeepsPosition' /\ DetectsByContents'
  BY <1>1 DEF DetectionInv, DetectionKeepsPosition, DetectsByContents, FormatsOfHead, StartsAt, KindAt, registry
<1>4. Progress
  BY <1>1 DEF Progress
<1>5. QED
  BY <1>1, <1>2, <1>3, <1>4

\* A call that returns nothing else than what the two properties allow.
LEMMA Returning ==
  ASSUME UploadAssumption, DetectionInv, UNCHANGED <<file, registry>>, pos' \in Positions,
         NEW c \in Calls, NEW r \in {"unprepared", "undetected", "format", "no extractor", "extractor"},
         Return(c, r), c.is = call.is, c.before = call.before, c.is # "none",
         c.is = "detect" => r \in {"undetected", "format"},
         r \in {"unprepared", "undetected", "format"} => c.lost \/ pos' = c.before,
         r \in {"format", "no extractor", "extractor"} =>
           /\ Plausible(c.format, c.failed)
           /\ c.format \in (extractors \intersect BuiltIn) \union {"file", "car"}
           /\ r = "no extractor" => c.lost \/ c.format \in {"file", "car"}
  PROVE  DetectionInv' /\ Progress
<1>1. /\ call' = NoCall
      /\ result' = [is |-> r, call |-> c.is, format |-> c.format, moved |-> pos' # c.before,
                    lost |-> c.lost, failed |-> c.failed]
      /\ result'.is = r /\ result'.call = c.is /\ result'.format = c.format
      /\ result'.moved = (pos' # c.before) /\ result'.lost = c.lost /\ result'.failed = c.failed
  BY ReturnFields
<1>2. Types
  BY DEF DetectionInv
<1>3. /\ NoCall \in Calls /\ NoCall.step = "idle" /\ NoCall.is = "none" /\ NoCall.lost = FALSE
      /\ NoCall.supported = {}
  BY <1>2, NoCallType
<1>4. Types'
  <2>1. result' \in Answers
    <3>1. /\ c.is \in {"none", "detect", "create"} /\ c.format \in AllFormats
          /\ c.lost \in BOOLEAN /\ c.failed \in BOOLEAN
      BY DEF Calls
    <3>2. QED
      BY <1>1, <3>1 DEF Answers
  <2>2. NoCall \in Calls'
    BY <1>3 DEF Calls, Positions
  <2>3. QED
    BY <1>1, <1>2, <1>3, <2>1, <2>2 DEF Types, registry, Positions
<1>5. Places' /\ Contents'
  BY <1>1, <1>3 DEF Places, Contents
<1>6. DetectionKeepsPosition'
  BY <1>1 DEF DetectionKeepsPosition
<1>7. DetectsByContents'
  BY <1>1 DEF DetectsByContents, Plausible, FormatsOfHead, StartsAt, KindAt, registry
<1>8. Progress
  BY <1>1, <1>3 DEF Progress
<1>9. QED
  BY <1>4, <1>5, <1>6, <1>7, <1>8 DEF DetectionInv

\* A detection that found nothing has put the reader back, or returns to
\* CreateExtractor, which will.
LEMMA GivingUp ==
  ASSUME UploadAssumption, DetectionInv, UNCHANGED <<file, registry>>, pos' \in Positions,
         NEW c \in Calls, Undetected(c), c.is = call.is, c.before = call.before, c.is # "none",
         c.supported \subseteq extractors,
         c.is = "detect" => c.lost \/ pos' = c.before,
         c.is = "create" => c.outerPos = c.before
  PROVE  DetectionInv' /\ Progress
<1>1. CASE c.is = "detect"
  <2>1. Return(c, "undetected")
    BY <1>1 DEF Undetected
  <2>2. QED
    BY <1>1, <2>1, Returning
<1>2. CASE c.is # "detect"
  <2>1. Goto(c, "restore outer") /\ c.is = "create"
    BY <1>2 DEF Undetected, Calls
  <2>2. "restore outer" \in Steps \ {"idle"}
    BY DEF Steps
  <2>3. /\ Types' /\ DetectionKeepsPosition' /\ DetectsByContents' /\ Progress
        /\ call'.step = "restore outer" /\ call'.is = c.is
        /\ call'.outerPos = c.outerPos /\ call'.before = c.before
    BY <2>1, <2>2, GoOn
  <2>4. Places'
    <3>1. file.seekable
      BY <2>1 DEF DetectionInv, Places
    <3>2. QED
      BY <2>1, <2>3, <3>1 DEF Places
  <2>5. Contents'
    BY <2>3 DEF Contents
  <2>6. QED
    BY <2>3, <2>4, <2>5 DEF DetectionInv
<1>3. QED
  BY <1>1, <1>2

-----------------------------------------------------------------------------
(* The steps of a call, one by one. *)

\* What every lemma on a step starts from.
LEMMA Known ==
  ASSUME UploadAssumption, DetectionInv, NEW s \in Steps \ {"idle"}, At(s)
  PROVE  /\ UNCHANGED <<file, registry>> /\ call.step = s /\ call \in Calls /\ call.is # "none"
         /\ call.supported \subseteq extractors /\ pos \in Positions /\ 0 \in Positions
         /\ file.len \in Nat /\ Places /\ Contents
         /\ call.is \in {"detect", "create"}
<1>1. UNCHANGED <<file, registry>> /\ call.step = s /\ call \in Calls /\ Places /\ Contents
      /\ call.supported \subseteq extractors /\ pos \in Positions /\ file \in Files
  BY DEF At, DetectionInv, Types
<1>2. call.is # "none"
  BY <1>1 DEF Places
<1>3. call.is \in {"detect", "create"}
  BY <1>1, <1>2 DEF Calls
<1>4. file.len \in Nat /\ 0 \in Positions
  BY <1>1 DEF UploadAssumption, Positions
<1>5. QED
  BY <1>1, <1>2, <1>3, <1>4

LEMMA PrepareOuterStep ==
  ASSUME UploadAssumption, DetectionInv, PrepareOuter
  PROVE  DetectionInv' /\ Progress
<1>0. At("outer") /\ "outer" \in Steps \ {"idle"} /\ "snapshot" \in Steps \ {"idle"}
  BY DEF PrepareOuter, Steps
<1>1. /\ UNCHANGED <<file, registry>> /\ call.step = "outer" /\ call \in Calls
      /\ call.is # "none" /\ call.supported \subseteq extractors /\ pos \in Positions /\ 0 \in Positions
      /\ Places
  BY <1>0, Known
<1>2. call.is = "create" /\ pos = call.before /\ call.lost = FALSE /\ file.seekable
  BY <1>1 DEF Places, Calls
<1>3. CASE pos' = 0 /\ Goto([call EXCEPT !.outerPos = pos], "snapshot")
  <2> DEFINE c == [call EXCEPT !.outerPos = pos]
  <2>1. c \in Calls /\ c.is = call.is /\ c.before = call.before /\ c.supported = call.supported
        /\ c.outerPos = pos /\ c.lost = call.lost
    BY <1>1 DEF Calls
  <2>2. Goto(c, "snapshot") /\ pos' \in Positions
    BY <1>1, <1>3
  <2> HIDE DEF c
  <2>3. /\ Types' /\ DetectionKeepsPosition' /\ DetectsByContents' /\ Progress
        /\ call'.step = "snapshot" /\ call'.is = c.is /\ call'.outerPos = c.outerPos
        /\ call'.before = c.before /\ call'.lost = c.lost
    BY <1>0, <1>1, <2>1, <2>2, GoOn
  <2>4. Places'
    BY <1>1, <1>2, <1>3, <2>1, <2>3 DEF Places, Home
  <2>5. Contents'
    BY <2>3 DEF Contents
  <2>6. QED
    BY <2>3, <2>4, <2>5 DEF DetectionInv
<1>4. CASE pos' = pos /\ Return(Failed(call), "unprepared")
  BY <1>1, <1>2, <1>4, FailedFields, Returning
<1>5. QED
  BY <1>3, <1>4 DEF PrepareOuter

LEMMA SnapshotStep ==
  ASSUME UploadAssumption, DetectionInv, Snapshot
  PROVE  DetectionInv' /\ Progress
<1>0. At("snapshot") /\ "snapshot" \in Steps \ {"idle"} /\ "prepare" \in Steps \ {"idle"} /\ pos' = pos
  BY DEF Snapshot, Steps
<1>1. /\ UNCHANGED <<file, registry>> /\ call.step = "snapshot" /\ call \in Calls
      /\ call.is # "none" /\ call.is \in {"detect", "create"} /\ pos \in Positions /\ Places
  BY <1>0, Known
<1>2. /\ pos = Home /\ call.lost = FALSE /\ (call.is = "create" => file.seekable /\ call.outerPos = call.before)
  BY <1>1 DEF Places, Calls
<1> DEFINE c == [call EXCEPT !.toTry = detectors, !.supported = extractors]
<1>3. detectors \in Lists /\ detectors \in ToTries /\ extractors \in SUBSET Formats
  BY DEF DetectionInv, Types, ToTries
<1>4. c \in Calls /\ c.is = call.is /\ c.before = call.before /\ c.supported = extractors
      /\ c.toTry = detectors /\ c.outerPos = call.outerPos /\ c.lost = call.lost
  BY <1>1, <1>3 DEF Calls
<1>5. Undetected(c) \/ Goto(c, "prepare")
  BY DEF Snapshot
<1> HIDE DEF c
<1>6. CASE Undetected(c)
  <2>1. c.is = "detect" => pos' = c.before
    BY <1>0, <1>2, <1>4 DEF Home
  <2>2. QED
    BY <1>0, <1>1, <1>2, <1>4, <1>6, <2>1, GivingUp
<1>7. CASE Goto(c, "prepare")
  <2>1. /\ Types' /\ DetectionKeepsPosition' /\ DetectsByContents' /\ Progress
        /\ call'.step = "prepare" /\ call'.is = c.is /\ call'.outerPos = c.outerPos
        /\ call'.before = c.before /\ call'.lost = c.lost /\ call'.toTry = c.toTry
    BY <1>0, <1>1, <1>4, <1>7, GoOn
  <2>2. Places'
    BY <1>0, <1>1, <1>2, <1>4, <2>1 DEF Places, Home
  <2>3. Contents'
    <3>1. call'.toTry \in Lists
      BY <1>3, <1>4, <2>1
    <3>2. QED
      BY <2>1, <3>1 DEF Contents, Lists
  <2>4. QED
    BY <2>1, <2>2, <2>3 DEF DetectionInv
<1>8. QED
  BY <1>5, <1>6, <1>7

LEMMA PrepareStep ==
  ASSUME UploadAssumption, DetectionInv, Prepare
  PROVE  DetectionInv' /\ Progress
<1>0. At("prepare") /\ "prepare" \in Steps \ {"idle"} /\ "read" \in Steps \ {"idle"}
  BY DEF Prepare, Steps
<1>1. /\ UNCHANGED <<file, registry>> /\ call.step = "prepare" /\ call \in Calls
      /\ call.is # "none" /\ call.supported \subseteq extractors /\ pos \in Positions /\ 0 \in Positions
      /\ Places /\ Contents
  BY <1>0, Known
<1>2. /\ pos = Home /\ call.lost = FALSE /\ (call.is = "create" => file.seekable /\ call.outerPos = call.before)
      /\ call.toTry \in Lists
  BY <1>1 DEF Places, Contents, Calls
<1>3. CASE pos' = 0 /\ Goto([call EXCEPT !.currentPos = pos], "read")
  <2> DEFINE c == [call EXCEPT !.currentPos = pos]
  <2>1. c \in Calls /\ c.is = call.is /\ c.before = call.before /\ c.supported = call.supported
        /\ c.outerPos = call.outerPos /\ c.lost = call.lost /\ c.currentPos = pos /\ c.toTry = call.toTry
    BY <1>1 DEF Calls
  <2>2. Goto(c, "read") /\ pos' \in Positions
    BY <1>1, <1>3
  <2> HIDE DEF c
  <2>3. /\ Types' /\ DetectionKeepsPosition' /\ DetectsByContents' /\ Progress
        /\ call'.step = "read" /\ call'.is = c.is /\ call'.outerPos = c.outerPos
        /\ call'.before = c.before /\ call'.lost = c.lost /\ call'.toTry = c.toTry
        /\ call'.currentPos = c.currentPos
    BY <1>0, <1>1, <2>1, <2>2, GoOn
  <2>4. Places'
    BY <1>1, <1>2, <1>3, <2>1, <2>3 DEF Places, Home
  <2>5. Contents'
    <3>1. call'.toTry \in Lists'
      BY <1>2, <2>1, <2>3 DEF Lists
    <3>2. QED
      BY <2>3, <3>1 DEF Contents
  <2>6. QED
    BY <2>3, <2>4, <2>5 DEF DetectionInv
<1>4. CASE pos' = pos /\ Undetected(Failed(call))
  <2>1. call.is = "detect" => pos' = call.before
    BY <1>2, <1>4 DEF Home
  <2>2. QED
    BY <1>1, <1>2, <1>4, <2>1, FailedFields, GivingUp
<1>5. QED
  BY <1>3, <1>4 DEF Prepare

\* The lengths that are read are numbers.
LEMMA Bytes ==
  /\ DetectBytes \in Nat /\ MinDetectionBytes \in Nat /\ CarHead \in Nat /\ MinCarBytes \in Nat /\ TarHead \in Nat
  /\ MinDetectionBytes > 0 /\ CarHead > 0 /\ MinDetectionBytes <= DetectBytes
BY BytesAssumption

\* What a read may give, and where one that fails may stop.
LEMMA Reads ==
  ASSUME file.len \in Nat, pos \in Positions, NEW limit \in Nat
  PROVE  /\ Available(limit) \in Positions /\ pos + Available(limit) \in Positions
         /\ pos = 0 => Available(limit) = Smaller(limit, file.len)
         /\ ReadFails(limit) => pos' \in Positions /\ (pos = 0 => pos' < limit)
<1>1. /\ Available(limit) \in Positions /\ pos + Available(limit) \in Positions
      /\ pos = 0 => Available(limit) = Smaller(limit, file.len)
  BY DEF Available, Smaller, Positions
<1>2. ASSUME ReadFails(limit) PROVE pos' \in Positions /\ (pos = 0 => pos' < limit)
  <2>1. PICK n \in 0..Available(limit) : n < limit /\ pos' = pos + n
    BY <1>2 DEF ReadFails
  <2>2. QED
    BY <1>1, <2>1 DEF Positions
<1>3. QED
  BY <1>1, <1>2

\* What the primary detection says of the bytes at the beginning.
LEMMA Classified ==
  ASSUME file.len \in Nat, NEW n, n = Smaller(DetectBytes, file.len)
  PROVE  /\ Classify(n) \in AllFormats
         /\ Classify(n) \in {"unknown", "file"} => FormatsOfHead = {"file"}
         /\ Classify(n) \notin {"unknown", "file"} => Classify(n) \in FormatsOfHead
<1>1. n \in Nat /\ (n < MinDetectionBytes <=> file.len < MinDetectionBytes)
  BY Bytes DEF Smaller
<1>2. DOMAIN Compressed = {"gzip", "bzip2"} /\ Compressed["gzip"] = "tar.gz" /\ Compressed["bzip2"] = "tar.bz2"
  BY DEF Compressed
<1>3. CASE n < MinDetectionBytes
  BY <1>1, <1>3 DEF Classify, FormatsOfHead, AllFormats
<1>4. CASE ~(n < MinDetectionBytes)
  <2>1. ~(file.len < MinDetectionBytes)
    BY <1>1, <1>4
  <2>2. Classify(n) = IF KindAt(0) \in Direct THEN KindAt(0)
                      ELSE IF KindAt(0) \in DOMAIN Compressed THEN Compressed[KindAt(0)] ELSE "file"
    BY <1>4 DEF Classify
  <2>3. FormatsOfHead = {Classify(n)}
    BY <2>1, <2>2 DEF FormatsOfHead
  <2>4. Classify(n) \in AllFormats /\ Classify(n) # "unknown"
    BY <1>2, <2>2 DEF AllFormats, Direct
  <2>5. QED
    BY <2>3, <2>4
<1>5. QED
  BY <1>3, <1>4

LEMMA ReadHeaderStep ==
  ASSUME UploadAssumption, DetectionInv, ReadHeader
  PROVE  DetectionInv' /\ Progress
<1>0. At("read") /\ {"read", "restore", "rewind", "give up"} \subseteq Steps \ {"idle"}
  BY DEF ReadHeader, Steps
<1>1. /\ UNCHANGED <<file, registry>> /\ call.step = "read" /\ call \in Calls
      /\ call.is # "none" /\ call.supported \subseteq extractors /\ pos \in Positions
      /\ file.len \in Nat /\ Places /\ Contents
  BY <1>0, Known
<1>2. /\ pos = 0 /\ call.currentPos = Home /\ call.lost = FALSE /\ call.toTry \in Lists
      /\ (call.is = "create" => file.seekable /\ call.outerPos = call.before)
  BY <1>1 DEF Places, Contents, Calls
<1> DEFINE n == Available(DetectBytes)
           f == Classify(n)
           c == [call EXCEPT !.header = n, !.format = f]
           s == IF f \in {"unknown", "file"} THEN "rewind" ELSE "restore"
<1>3. n \in Positions /\ pos + n \in Positions /\ n = Smaller(DetectBytes, file.len)
  BY <1>1, <1>2, Reads, Bytes
<1>4. /\ f \in AllFormats /\ (f \in {"unknown", "file"} => FormatsOfHead = {"file"})
      /\ (f \notin {"unknown", "file"} => f \in FormatsOfHead)
  BY <1>1, <1>3, Classified
<1>5. CASE pos' = pos + n /\ Goto(c, s)
  <2>1. c \in Calls /\ c.is = call.is /\ c.before = call.before /\ c.supported = call.supported
        /\ c.outerPos = call.outerPos /\ c.lost = call.lost /\ c.currentPos = call.currentPos
        /\ c.toTry = call.toTry /\ c.format = f
    BY <1>1, <1>3, <1>4 DEF Calls
  <2>2. Goto(c, s) /\ pos' \in Positions /\ s \in Steps \ {"idle"} /\ s \in {"rewind", "restore"}
    BY <1>0, <1>3, <1>5
  <2>3. s = "rewind" <=> f \in {"unknown", "file"}
    OBVIOUS
  <2> HIDE DEF c, s, f, n
  <2>4. /\ Types' /\ DetectionKeepsPosition' /\ DetectsByContents' /\ Progress
        /\ call'.step = s /\ call'.is = c.is /\ call'.outerPos = c.outerPos
        /\ call'.before = c.before /\ call'.lost = c.lost /\ call'.toTry = c.toTry
        /\ call'.currentPos = c.currentPos /\ call'.format = c.format
    BY <1>1, <2>1, <2>2, GoOn
  <2>5. Places'
    BY <1>1, <1>2, <2>1, <2>2, <2>4 DEF Places, Home
  <2>6. FormatsOfHead' = FormatsOfHead /\ Lists' = Lists
    BY <1>1 DEF FormatsOfHead, KindAt, Lists
  <2>7. Contents'
    <3>1. CASE s = "rewind"
      <4>1. NothingAtHead' /\ call'.toTry \in Lists'
        BY <1>2, <1>4, <2>1, <2>3, <2>4, <2>6, <3>1 DEF NothingAtHead
      <4>2. QED
        BY <2>4, <3>1, <4>1 DEF Contents
    <3>2. CASE s = "restore"
      <4>1. Plausible(call.format, call.failed)'
        BY <1>4, <2>1, <2>2, <2>3, <2>4, <2>6, <3>2 DEF Plausible
      <4>2. QED
        BY <2>4, <3>2, <4>1 DEF Contents
    <3>3. QED
      BY <2>2, <3>1, <3>2
  <2>8. QED
    BY <2>4, <2>5, <2>7 DEF DetectionInv
<1>6. CASE ReadFails(DetectBytes) /\ Goto(Failed(call), "give up")
  <2>1. pos' \in Positions
    BY <1>1, <1>6, Reads, Bytes
  <2>2. /\ Types' /\ DetectionKeepsPosition' /\ DetectsByContents' /\ Progress
        /\ call'.step = "give up" /\ call'.is = call.is /\ call'.outerPos = call.outerPos
        /\ call'.before = call.before /\ call'.lost = call.lost /\ call'.currentPos = call.currentPos
    BY <1>0, <1>1, <1>6, <2>1, FailedFields, GoOn
  <2>3. Places'
    BY <1>1, <1>2, <2>2 DEF Places, Home
  <2>4. Contents'
    BY <2>2 DEF Contents
  <2>5. QED
    BY <2>2, <2>3, <2>4 DEF DetectionInv
<1>7. QED
  BY <1>5, <1>6 DEF ReadHeader

LEMMA RewindStep ==
  ASSUME UploadAssumption, DetectionInv, Rewind
  PROVE  DetectionInv' /\ Progress
<1>0. At("rewind") /\ {"rewind", "custom", "give up"} \subseteq Steps \ {"idle"}
  BY DEF Rewind, Steps
<1>1. /\ UNCHANGED <<file, registry>> /\ call.step = "rewind" /\ call \in Calls
      /\ call.is # "none" /\ call.supported \subseteq extractors /\ pos \in Positions /\ 0 \in Positions
      /\ Places /\ Contents
  BY <1>0, Known
<1>2. /\ call.currentPos = Home /\ call.lost = FALSE /\ call.toTry \in Lists /\ NothingAtHead
      /\ (call.is = "create" => file.seekable /\ call.outerPos = call.before)
  BY <1>1 DEF Places, Contents, Calls
<1>3. CASE pos' = 0 /\ Goto(call, "custom")
  <2>1. /\ Types' /\ DetectionKeepsPosition' /\ DetectsByContents' /\ Progress
        /\ call'.step = "custom" /\ call'.is = call.is /\ call'.outerPos = call.outerPos
        /\ call'.before = call.before /\ call'.lost = call.lost /\ call'.toTry = call.toTry
        /\ call'.currentPos = call.currentPos /\ call'.format = call.format
    BY <1>0, <1>1, <1>3, GoOn
  <2>2. Places'
    BY <1>1, <1>2, <2>1 DEF Places, Home
  <2>3. NothingAtHead' /\ Lists' = Lists
    BY <1>1, <1>2, <2>1 DEF NothingAtHead, FormatsOfHead, KindAt, Lists
  <2>4. Contents'
    BY <1>2, <1>3, <2>1, <2>3 DEF Contents
  <2>5. QED
    BY <2>1, <2>2, <2>4 DEF DetectionInv
<1>4. CASE pos' = pos /\ Goto(Failed(call), "give up")
  <2>1. pos' \in Positions
    BY <1>1, <1>4
  <2>2. /\ Types' /\ DetectionKeepsPosition' /\ DetectsByContents' /\ Progress
        /\ call'.step = "give up" /\ call'.is = call.is /\ call'.outerPos = call.outerPos
        /\ call'.before = call.before /\ call'.lost = call.lost /\ call'.currentPos = call.currentPos
    BY <1>0, <1>1, <1>4, <2>1, FailedFields, GoOn
  <2>3. Places'
    BY <1>1, <1>2, <2>2 DEF Places, Home
  <2>4. Contents'
    BY <2>2 DEF Contents
  <2>5. QED
    BY <2>2, <2>3, <2>4 DEF DetectionInv
<1>5. QED
  BY <1>3, <1>4 DEF Rewind

\* The formats that a detector may find, where it begins to read.
LEMMA FoundByCAR ==
  ASSUME file.len \in Nat, pos = 0, NEW n \in Nat, n <= file.len, Found("detectCAR", n) # "unknown"
  PROVE  Found("detectCAR", n) = "car" /\ KindAt(0) = "car" /\ file.len >= MinCarBytes
BY Bytes DEF Found

LEMMA FoundCompressed ==
  ASSUME UploadAssumption, file \in Files, NEW failed \in BOOLEAN, SecondAt(pos, failed), pos \in Positions,
         NEW n, Found("detectCompressedTar", n) # "unknown"
  PROVE  /\ Found("detectCompressedTar", n) \in {"tar.gz", "tar.bz2"}
         /\ pos \in DOMAIN file.kinds /\ StartsAt(pos, failed)
         /\ Found("detectCompressedTar", n) = Compressed[KindAt(pos)]
<1>1. DOMAIN Compressed = {"gzip", "bzip2"} /\ Compressed["gzip"] = "tar.gz" /\ Compressed["bzip2"] = "tar.bz2"
  BY DEF Compressed
<1>2. KindAt(pos) \in DOMAIN Compressed /\ Found("detectCompressedTar", n) = Compressed[KindAt(pos)]
  BY DEF Found
<1>3. pos \in DOMAIN file.kinds
  BY <1>1, <1>2 DEF KindAt
<1>4. pos < file.len /\ file.len \in Nat
  BY <1>3 DEF UploadAssumption
<1>5. StartsAt(pos, failed)
  BY <1>2, <1>4, Bytes DEF SecondAt, StartsAt, Smaller, Positions
<1>6. QED
  BY <1>1, <1>2, <1>3, <1>5

\* A detector that has found nothing, or has failed, leaves what is true of the
\* contents for those that remain.
LEMMA NextDetector ==
  ASSUME UploadAssumption, DetectionInv, UNCHANGED <<file, registry>>, pos' \in Positions,
         call.step = "custom", NEW c \in Calls, Goto(c, "custom"),
         c.is = call.is, c.before = call.before, c.supported = call.supported,
         c.outerPos = call.outerPos, c.currentPos = call.currentPos, c.lost = call.lost, c.format = call.format,
         \/ c.toTry = << >>
         \/ c.toTry = <<"detectCompressedTar">> /\ SecondAt(pos', c.failed)
  PROVE  DetectionInv' /\ Progress
<1>1. /\ call.supported \subseteq extractors /\ Places /\ Contents
  BY DEF DetectionInv, Types
<1>2. NothingAtHead
  BY <1>1 DEF Contents
<1>3. "custom" \in Steps \ {"idle"}
  BY DEF Steps
<1>4. /\ Types' /\ DetectionKeepsPosition' /\ DetectsByContents' /\ Progress
      /\ call'.step = "custom" /\ call'.is = c.is /\ call'.outerPos = c.outerPos
      /\ call'.before = c.before /\ call'.lost = c.lost /\ call'.toTry = c.toTry
      /\ call'.currentPos = c.currentPos /\ call'.format = c.format /\ call'.failed = c.failed
  BY <1>1, <1>3, GoOn
<1>5. Places'
  BY <1>1, <1>4 DEF Places, Home
<1>6. NothingAtHead'
  BY <1>2, <1>4 DEF NothingAtHead, FormatsOfHead, KindAt
<1>7. Contents'
  <2>1. \/ call'.toTry = << >>
        \/ call'.toTry = <<"detectCompressedTar">> /\ SecondAt(pos, call.failed)'
    BY <1>4 DEF SecondAt
  <2>2. QED
    BY <1>4, <1>6, <2>1 DEF Contents
<1>8. QED
  BY <1>4, <1>5, <1>7 DEF DetectionInv

\* So does one that has found a format, for what follows the detectors.
LEMMA DetectorFound ==
  ASSUME UploadAssumption, DetectionInv, UNCHANGED <<file, registry>>, pos' \in Positions,
         call.step = "custom", NEW c \in Calls, Goto(c, "restore"),
         c.is = call.is, c.before = call.before, c.supported = call.supported,
         c.outerPos = call.outerPos, c.currentPos = call.currentPos, c.lost = call.lost,
         Plausible(c.format, c.failed) \/ (c.format = call.format /\ NothingAtHead)
  PROVE  DetectionInv' /\ Progress
<1>1. /\ call.supported \subseteq extractors /\ Places /\ Contents
  BY DEF DetectionInv, Types
<1>3. "restore" \in Steps \ {"idle"}
  BY DEF Steps
<1>4. /\ Types' /\ DetectionKeepsPosition' /\ DetectsByContents' /\ Progress
      /\ call'.step = "restore" /\ call'.is = c.is /\ call'.outerPos = c.outerPos
      /\ call'.before = c.before /\ call'.lost = c.lost
      /\ call'.currentPos = c.currentPos /\ call'.format = c.format /\ call'.failed = c.failed
  BY <1>1, <1>3, GoOn
<1>5. Places'
  BY <1>1, <1>4 DEF Places, Home
<1>6. NothingAtHead' \/ Plausible(call.format, call.failed)'
  BY <1>4 DEF NothingAtHead, Plausible, FormatsOfHead, StartsAt, KindAt
<1>7. Contents'
  BY <1>4, <1>6 DEF Contents
<1>8. QED
  BY <1>4, <1>5, <1>7 DEF DetectionInv

LEMMA RunDetectorStep ==
  ASSUME UploadAssumption, DetectionInv, RunDetector
  PROVE  DetectionInv' /\ Progress
<1>0. At("custom") /\ call.toTry # << >> /\ "custom" \in Steps \ {"idle"}
  BY DEF RunDetector, Steps
<1>1. /\ UNCHANGED <<file, registry>> /\ call.step = "custom" /\ call \in Calls
      /\ pos \in Positions /\ file.len \in Nat /\ Contents
  BY <1>0, Known
<1> DEFINE d == Head(call.toTry)
           n == Available(DetectorBytes(d))
           tried == [call EXCEPT !.toTry = Tail(@)]
           found == [tried EXCEPT !.format = Found(d, n)]
<1>2. NothingAtHead
  BY <1>1 DEF Contents
<1>3. \/ d = "detectCAR" /\ Tail(call.toTry) \in {<< >>, <<"detectCompressedTar">>} /\ pos = 0
      \/ /\ d = "detectCompressedTar" /\ Tail(call.toTry) = << >>
         /\ SecondAt(pos, call.failed)
  <2>1. \/ pos = 0 /\ call.toTry \in {<<"detectCAR">>, <<"detectCAR", "detectCompressedTar">>}
        \/ /\ call.toTry = <<"detectCompressedTar">>
           /\ SecondAt(pos, call.failed)
    BY <1>0, <1>1 DEF Contents, Lists, DefaultDetectors
  <2>2. Head(<<"detectCAR">>) = "detectCAR" /\ Tail(<<"detectCAR">>) = << >>
    OBVIOUS
  <2>3. Head(<<"detectCompressedTar">>) = "detectCompressedTar" /\ Tail(<<"detectCompressedTar">>) = << >>
    OBVIOUS
  <2>4. /\ Head(<<"detectCAR", "detectCompressedTar">>) = "detectCAR"
        /\ Tail(<<"detectCAR", "detectCompressedTar">>) = <<"detectCompressedTar">>
    OBVIOUS
  <2>5. QED
    BY <2>1, <2>2, <2>3, <2>4
<1>4. DetectorBytes(d) \in Nat
  BY Bytes DEF DetectorBytes
<1>5. n \in Positions /\ pos + n \in Positions /\ (pos = 0 => n = Smaller(DetectorBytes(d), file.len))
  BY <1>1, <1>4, Reads
<1>6. n \in Nat /\ n <= file.len - pos
  BY <1>1, <1>5 DEF Positions
<1>7. Tail(call.toTry) \in ToTries
  BY <1>3 DEF ToTries, Lists
<1>8. /\ tried \in Calls /\ tried.is = call.is /\ tried.before = call.before
      /\ tried.supported = call.supported /\ tried.outerPos = call.outerPos /\ tried.lost = call.lost
      /\ tried.currentPos = call.currentPos /\ tried.format = call.format
      /\ tried.toTry = Tail(call.toTry) /\ tried.failed = call.failed
  BY <1>1, <1>7 DEF Calls
<1>9. \/ /\ pos' = pos + n
         /\ \/ Found(d, n) = "unknown" /\ Goto(tried, "custom")
            \/ Found(d, n) # "unknown" /\ Goto(found, "restore")
      \/ ReadFails(DetectorBytes(d)) /\ Goto(Failed(tried), "custom")
  BY DEF RunDetector
<1> HIDE DEF d, n, tried
<1>10. CASE pos' = pos + n /\ Found(d, n) = "unknown" /\ Goto(tried, "custom")
  <2>1. \/ tried.toTry = << >>
        \/ tried.toTry = <<"detectCompressedTar">> /\ SecondAt(pos', tried.failed)
    BY <1>1, <1>3, <1>5, <1>8, <1>10 DEF DetectorBytes, Positions, SecondAt
  <2>2. QED
    BY <1>1, <1>5, <1>8, <1>10, <2>1, NextDetector
<1>11. CASE pos' = pos + n /\ Found(d, n) # "unknown" /\ Goto(found, "restore")
  <2>1. \/ /\ Found(d, n) = "car" /\ KindAt(0) = "car" /\ file.len >= MinCarBytes
        \/ /\ Found(d, n) \in {"tar.gz", "tar.bz2"} /\ Found(d, n) = Compressed[KindAt(pos)]
           /\ pos \in DOMAIN file.kinds /\ StartsAt(pos, call.failed)
    <3>1. CASE d = "detectCAR" /\ pos = 0
      BY <1>1, <1>6, <1>11, <3>1, FoundByCAR
    <3>2. CASE d = "detectCompressedTar" /\ SecondAt(pos, call.failed)
      <4>1. call.failed \in BOOLEAN /\ file \in Files
        BY <1>1 DEF Calls, DetectionInv, Types
      <4>2. QED
        BY <1>1, <1>11, <3>2, <4>1, FoundCompressed
    <3>3. QED
      BY <1>3, <3>1, <3>2
  <2>2. Found(d, n) \in AllFormats
    BY <2>1 DEF AllFormats
  <2>3. /\ found \in Calls /\ found.is = call.is /\ found.before = call.before
        /\ found.supported = call.supported /\ found.outerPos = call.outerPos /\ found.lost = call.lost
        /\ found.currentPos = call.currentPos /\ found.format = Found(d, n)
        /\ found.failed = call.failed
    BY <1>8, <2>2 DEF Calls
  <2>4. Plausible(found.format, found.failed)
    BY <1>2, <2>1, <2>3 DEF Plausible, NothingAtHead
  <2>5. Goto(found, "restore") /\ pos' \in Positions
    BY <1>5, <1>11
  <2> HIDE DEF found
  <2>6. QED
    BY <1>1, <2>3, <2>4, <2>5, DetectorFound
<1>12. CASE ReadFails(DetectorBytes(d)) /\ Goto(Failed(tried), "custom")
  <2>1. /\ Failed(tried) \in Calls /\ Failed(tried).failed = TRUE /\ Failed(tried).lost = call.lost
        /\ Failed(tried).is = call.is /\ Failed(tried).before = call.before
        /\ Failed(tried).supported = call.supported /\ Failed(tried).toTry = Tail(call.toTry)
        /\ Failed(tried).outerPos = call.outerPos
        /\ Failed(tried).currentPos = call.currentPos /\ Failed(tried).format = call.format
    BY <1>8, FailedFields
  <2>2. \/ Failed(tried).toTry = << >>
        \/ /\ Failed(tried).toTry = <<"detectCompressedTar">>
           /\ SecondAt(pos', TRUE)
    BY <1>1, <1>3, <1>4, <1>12, <2>1, Reads DEF DetectorBytes, SecondAt
  <2>3. pos' \in Positions
    BY <1>1, <1>4, <1>12, Reads
  <2>4. QED
    BY <1>1, <1>12, <2>1, <2>2, <2>3, NextDetector
<1>13. QED
  BY <1>9, <1>10, <1>11, <1>12

LEMMA DetectorsTriedStep ==
  ASSUME UploadAssumption, DetectionInv, DetectorsTried
  PROVE  DetectionInv' /\ Progress
<1>0. At("custom") /\ "custom" \in Steps \ {"idle"} /\ pos' = pos /\ Goto(call, "restore")
  BY DEF DetectorsTried, Steps
<1>1. /\ UNCHANGED <<file, registry>> /\ call.step = "custom" /\ call \in Calls
      /\ pos \in Positions /\ Contents
  BY <1>0, Known
<1>2. NothingAtHead
  BY <1>1 DEF Contents
<1>3. QED
  BY <1>0, <1>1, <1>2, DetectorFound

LEMMA GiveUpStep ==
  ASSUME UploadAssumption, DetectionInv, GiveUp
  PROVE  DetectionInv' /\ Progress
<1>0. At("give up") /\ "give up" \in Steps \ {"idle"}
  BY DEF GiveUp, Steps
<1>1. /\ UNCHANGED <<file, registry>> /\ call.step = "give up" /\ call \in Calls
      /\ call.is # "none" /\ call.supported \subseteq extractors /\ pos \in Positions /\ Places
  BY <1>0, Known
<1>2. /\ call.currentPos = Home /\ call.currentPos \in Positions
      /\ (call.is = "create" => call.outerPos = call.before)
  BY <1>1 DEF Places, Calls
<1>3. CASE pos' = call.currentPos /\ Undetected(call)
  <2>1. call.is = "detect" => pos' = call.before
    BY <1>2, <1>3 DEF Home
  <2>2. QED
    BY <1>1, <1>2, <1>3, <2>1, GivingUp
<1>4. CASE pos' = pos /\ Undetected(Lost(call))
  BY <1>1, <1>2, <1>4, LostFields, GivingUp
<1>5. QED
  BY <1>3, <1>4 DEF GiveUp

LEMMA RestoreStep ==
  ASSUME UploadAssumption, DetectionInv, Restore
  PROVE  DetectionInv' /\ Progress
<1>0. At("restore") /\ {"restore", "verdict"} \subseteq Steps \ {"idle"}
  BY DEF Restore, Steps
<1>1. /\ UNCHANGED <<file, registry>> /\ call.step = "restore" /\ call \in Calls
      /\ call.is # "none" /\ call.supported \subseteq extractors /\ pos \in Positions /\ Places
      /\ Contents
  BY <1>0, Known
<1>2. /\ call.currentPos = Home /\ call.currentPos \in Positions /\ call.lost = FALSE
      /\ (call.is = "create" => file.seekable /\ call.outerPos = call.before)
      /\ NothingAtHead \/ Plausible(call.format, call.failed)
  BY <1>1 DEF Places, Calls, Contents
<1>3. CASE pos' = call.currentPos /\ Goto(call, "verdict")
  <2>1. /\ Types' /\ DetectionKeepsPosition' /\ DetectsByContents' /\ Progress
        /\ call'.step = "verdict" /\ call'.is = call.is /\ call'.outerPos = call.outerPos
        /\ call'.before = call.before /\ call'.lost = call.lost /\ call'.currentPos = call.currentPos
        /\ call'.format = call.format /\ call'.failed = call.failed
    BY <1>0, <1>1, <1>2, <1>3, GoOn
  <2>2. Places'
    BY <1>1, <1>2, <1>3, <2>1 DEF Places, Home
  <2>3. NothingAtHead' \/ Plausible(call.format, call.failed)'
    BY <1>1, <1>2, <2>1 DEF NothingAtHead, Plausible, FormatsOfHead, StartsAt, KindAt
  <2>4. Contents'
    BY <2>1, <2>3 DEF Contents
  <2>5. QED
    BY <2>1, <2>2, <2>4 DEF DetectionInv
<1>4. CASE pos' = pos /\ Undetected(Lost(call))
  BY <1>1, <1>2, <1>4, LostFields, GivingUp
<1>5. QED
  BY <1>3, <1>4 DEF Restore

LEMMA VerdictStep ==
  ASSUME UploadAssumption, DetectionInv, Verdict
  PROVE  DetectionInv' /\ Progress
<1>0. At("verdict") /\ {"verdict", "beginning"} \subseteq Steps \ {"idle"} /\ pos' = pos
  BY DEF Verdict, Steps
<1>1. /\ UNCHANGED <<file, registry>> /\ call.step = "verdict" /\ call \in Calls
      /\ call.is # "none" /\ call.supported \subseteq extractors /\ pos \in Positions /\ Places
      /\ Contents /\ call.is \in {"detect", "create"}
  BY <1>0, Known
<1>2. /\ pos = Home /\ call.lost = FALSE
      /\ (call.is = "create" => file.seekable /\ call.outerPos = call.before)
      /\ NothingAtHead \/ Plausible(call.format, call.failed)
  BY <1>1 DEF Places, Calls, Contents
<1> DEFINE c == IF call.format = "unknown" /\ call.header > 0 THEN [call EXCEPT !.format = "file"] ELSE call
<1>3. /\ c \in Calls /\ c.is = call.is /\ c.before = call.before /\ c.supported = call.supported
      /\ c.outerPos = call.outerPos /\ c.lost = call.lost /\ c.failed = call.failed
      /\ c.format = call.format \/ (c.format = "file" /\ call.format = "unknown")
  <2>1. "file" \in AllFormats
    BY DEF AllFormats
  <2>2. QED
    BY <1>1, <2>1 DEF Calls
<1>4. \/ Undetected(c)
      \/ /\ c.format # "unknown" /\ c.format \in c.supported \union {"file", "car"}
         /\ \/ c.is = "detect" /\ Return(c, "format")
            \/ c.is # "detect" /\ Goto(c, "beginning")
  BY DEF Verdict
<1> HIDE DEF c
<1>5. c.is = "detect" => pos' = c.before
  BY <1>0, <1>2, <1>3 DEF Home
<1>6. CASE Undetected(c)
  BY <1>0, <1>1, <1>2, <1>3, <1>5, <1>6, GivingUp
<1>7. ASSUME c.format # "unknown", c.format \in c.supported \union {"file", "car"}
      PROVE  /\ Plausible(c.format, c.failed)
             /\ c.format \in (c.supported \intersect BuiltIn) \union {"file", "car"}
  <2>1. NothingAtHead => c.format = "file" /\ FormatsOfHead = {"file"}
    BY <1>3, <1>7 DEF NothingAtHead
  <2>2. ~NothingAtHead => c.format = call.format \/ call.format = "unknown"
    BY <1>3
  <2>3. ~Plausible("unknown", call.failed)
    <3>1. DOMAIN Compressed = {"gzip", "bzip2"} /\ Compressed["gzip"] = "tar.gz" /\ Compressed["bzip2"] = "tar.bz2"
      BY DEF Compressed
    <3>2. "unknown" \notin FormatsOfHead
      BY <3>1 DEF FormatsOfHead, Direct
    <3>3. \A o \in DOMAIN file.kinds : StartsAt(o, call.failed) => Compressed[KindAt(o)] # "unknown"
      BY <3>1 DEF StartsAt
    <3>4. QED
      BY <3>2, <3>3 DEF Plausible
  <2>4. Plausible(c.format, c.failed)
    <3>1. CASE NothingAtHead
      BY <2>1, <3>1 DEF Plausible
    <3>2. CASE ~NothingAtHead
      BY <1>2, <1>3, <2>2, <2>3, <3>2
    <3>3. QED
      BY <3>1, <3>2
  <2>5. c.format \in AllFormats
    BY <1>3 DEF Calls
  <2>6. c.format \in BuiltIn \union {"file", "car"}
    BY <1>7, <2>5 DEF AllFormats, BuiltIn, Direct
  <2>7. QED
    BY <1>7, <2>4, <2>6
<1>8. CASE /\ c.format # "unknown" /\ c.format \in c.supported \union {"file", "car"}
           /\ c.is = "detect" /\ Return(c, "format")
  <2>1. /\ Plausible(c.format, c.failed)
        /\ c.format \in (extractors \intersect BuiltIn) \union {"file", "car"}
    BY <1>1, <1>3, <1>7, <1>8
  <2>2. pos' \in Positions
    BY <1>0, <1>1
  <2>3. QED
    BY <1>1, <1>3, <1>5, <1>8, <2>1, <2>2, Returning
<1>9. CASE /\ c.format # "unknown" /\ c.format \in c.supported \union {"file", "car"}
           /\ c.is # "detect" /\ Goto(c, "beginning")
  <2>1. pos' \in Positions /\ c.supported \subseteq extractors
    BY <1>0, <1>1, <1>3
  <2>2. /\ Types' /\ DetectionKeepsPosition' /\ DetectsByContents' /\ Progress
        /\ call'.step = "beginning" /\ call'.is = c.is /\ call'.outerPos = c.outerPos
        /\ call'.before = c.before /\ call'.lost = c.lost /\ call'.supported = c.supported
        /\ call'.format = c.format /\ call'.failed = c.failed
    BY <1>0, <1>1, <1>3, <1>9, <2>1, GoOn
  <2>3. Places'
    BY <1>1, <1>2, <1>3, <1>9, <2>2 DEF Places, Home
  <2>4. /\ Plausible(call.format, call.failed)'
        /\ call'.format \in (call'.supported \intersect BuiltIn) \union {"file", "car"}
    BY <1>1, <1>7, <1>9, <2>2 DEF Plausible, FormatsOfHead, StartsAt, KindAt
  <2>5. Contents'
    BY <2>2, <2>4 DEF Contents
  <2>6. QED
    BY <2>2, <2>3, <2>5 DEF DetectionInv
<1>10. QED
  BY <1>4, <1>6, <1>8, <1>9

LEMMA RestoreOuterStep ==
  ASSUME UploadAssumption, DetectionInv, RestoreOuter
  PROVE  DetectionInv' /\ Progress
<1>0. At("restore outer") /\ "restore outer" \in Steps \ {"idle"}
  BY DEF RestoreOuter, Steps
<1>1. /\ UNCHANGED <<file, registry>> /\ call.step = "restore outer" /\ call \in Calls
      /\ call.is # "none" /\ pos \in Positions /\ Places
  BY <1>0, Known
<1>2. /\ call.is = "create" /\ call.outerPos = call.before /\ call.outerPos \in Positions
  BY <1>1 DEF Places, Calls
<1>3. CASE pos' = call.outerPos /\ Return(call, "undetected")
  BY <1>1, <1>2, <1>3, Returning
<1>4. CASE pos' = pos /\ Return(Lost(call), "undetected")
  BY <1>1, <1>2, <1>4, LostFields, Returning
<1>5. QED
  BY <1>3, <1>4 DEF RestoreOuter

LEMMA ToBeginningStep ==
  ASSUME UploadAssumption, DetectionInv, ToBeginning
  PROVE  DetectionInv' /\ Progress
<1>0. At("beginning") /\ {"beginning", "extractor"} \subseteq Steps \ {"idle"}
  BY DEF ToBeginning, Steps
<1>1. /\ UNCHANGED <<file, registry>> /\ call.step = "beginning" /\ call \in Calls
      /\ call.is # "none" /\ call.supported \subseteq extractors /\ pos \in Positions /\ 0 \in Positions
      /\ Places /\ Contents
  BY <1>0, Known
<1>2. /\ call.is = "create" /\ file.seekable /\ call.outerPos = call.before /\ call.lost = FALSE
      /\ Plausible(call.format, call.failed)
      /\ call.format \in (call.supported \intersect BuiltIn) \union {"file", "car"}
  BY <1>1 DEF Places, Contents, Calls
<1>3. CASE pos' = 0 /\ Goto(call, "extractor")
  <2>1. /\ Types' /\ DetectionKeepsPosition' /\ DetectsByContents' /\ Progress
        /\ call'.step = "extractor" /\ call'.is = call.is /\ call'.outerPos = call.outerPos
        /\ call'.before = call.before /\ call'.lost = call.lost /\ call'.supported = call.supported
        /\ call'.format = call.format /\ call'.failed = call.failed
    BY <1>0, <1>1, <1>3, GoOn
  <2>2. Places'
    BY <1>1, <1>2, <2>1 DEF Places, Home
  <2>3. /\ Plausible(call.format, call.failed)'
        /\ call'.format \in (call'.supported \intersect BuiltIn) \union {"file", "car"}
    BY <1>1, <1>2, <2>1 DEF Plausible, FormatsOfHead, StartsAt, KindAt
  <2>4. Contents'
    BY <2>1, <2>3 DEF Contents
  <2>5. QED
    BY <2>1, <2>2, <2>4 DEF DetectionInv
<1>4. CASE pos' = pos /\ Return(Lost(call), "no extractor")
  <2>1. Plausible(call.format, TRUE)
    BY <1>2 DEF Plausible, StartsAt
  <2>2. call.format \in (extractors \intersect BuiltIn) \union {"file", "car"}
    BY <1>1, <1>2
  <2>3. QED
    BY <1>1, <1>2, <1>4, <2>1, <2>2, LostFields, Returning
<1>5. QED
  BY <1>3, <1>4 DEF ToBeginning

LEMMA CreateExtractorForFormatStep ==
  ASSUME UploadAssumption, DetectionInv, CreateExtractorForFormat
  PROVE  DetectionInv' /\ Progress
<1>0. At("extractor") /\ "extractor" \in Steps \ {"idle"} /\ pos' = pos
  BY DEF CreateExtractorForFormat, Steps
<1>1. /\ UNCHANGED <<file, registry>> /\ call.step = "extractor" /\ call \in Calls
      /\ call.is # "none" /\ call.supported \subseteq extractors /\ pos \in Positions
      /\ Places /\ Contents
  BY <1>0, Known
<1>2. /\ call.is = "create" /\ Plausible(call.format, call.failed)
      /\ call.format \in (extractors \intersect BuiltIn) \union {"file", "car"}
  BY <1>1 DEF Places, Contents
<1> DEFINE r == IF call.format \in extractors THEN "extractor" ELSE "no extractor"
<1>3. r \in {"no extractor", "extractor"} /\ (r = "no extractor" => call.format \in {"file", "car"})
  BY <1>2
<1>4. Return(call, r)
  BY DEF CreateExtractorForFormat
<1> HIDE DEF r
<1>5. QED
  BY <1>0, <1>1, <1>2, <1>3, <1>4, Returning

LEMMA AnyStep ==
  ASSUME UploadAssumption, DetectionInv, Step
  PROVE  DetectionInv' /\ Progress
BY PrepareOuterStep, SnapshotStep, PrepareStep, ReadHeaderStep, RewindStep, RunDetectorStep,
   DetectorsTriedStep, GiveUpStep, RestoreStep, VerdictStep, RestoreOuterStep, ToBeginningStep,
   CreateExtractorForFormatStep DEF Step

-----------------------------------------------------------------------------
(* The other actions. *)

\* The names of the detectors, and the lists in which they are registered.
Names == {"detectCAR", "detectCompressedTar"}

LEMMA NameLists ==
  /\ <<"detectCAR">> \in Seq(Names) /\ Len(<<"detectCAR">>) = 1 /\ <<"detectCAR">>[1] = "detectCAR"
  /\ DefaultDetectors \in Seq(Names) /\ Len(DefaultDetectors) = 2
  /\ DefaultDetectors[1] = "detectCAR" /\ DefaultDetectors[2] = "detectCompressedTar"
BY DEF Names, DefaultDetectors

LEMMA SecondRegistered == Append(<<"detectCAR">>, DefaultDetectors[2]) = DefaultDetectors
<1>1. DefaultDetectors[2] \in Names
  BY NameLists DEF Names
<1> DEFINE a == Append(<<"detectCAR">>, DefaultDetectors[2])
<1>2. a \in Seq(Names) /\ Len(a) = 2 /\ \A i \in 1..2 : a[i] = DefaultDetectors[i]
  BY <1>1, NameLists, AppendProperties
<1>3. QED
  BY <1>2, NameLists, SeqEqual

LEMMA Prefixes ==
  /\ SubSeq(DefaultDetectors, 1, 0) = << >> /\ SubSeq(DefaultDetectors, 1, 1) = <<"detectCAR">>
  /\ SubSeq(DefaultDetectors, 1, 2) = DefaultDetectors
<1>1. SubSeq(DefaultDetectors, 1, 0) = << >>
  BY SubSeqEmpty
<1>2. SubSeq(DefaultDetectors, 1, 1) = <<"detectCAR">>
  <2> DEFINE p == SubSeq(DefaultDetectors, 1, 1)
  <2>1. p \in Seq(Names) /\ Len(p) = 1 /\ \A i \in 1..1 : p[i] = <<"detectCAR">>[i]
    <3>1. \A i \in 1..1 : DefaultDetectors[i] \in Names
      BY NameLists
    <3>2. QED
      BY <3>1, NameLists, SubSeqProperties
  <2>2. QED
    BY <2>1, NameLists, SeqEqual
<1>3. SubSeq(DefaultDetectors, 1, 2) = DefaultDetectors
  BY NameLists, SubSeqFull
<1>4. QED
  BY <1>1, <1>2, <1>3

\* A call begins where the reader is.
LEMMA Begins ==
  ASSUME UploadAssumption, IInv, UNCHANGED handles,
         NEW c \in {"detect", "create"}, NEW s \in {"outer", "snapshot"}, Start(c, s),
         s = "outer" <=> c = "create", c = "create" => file.seekable
  PROVE  IInv'
<1>1. /\ call.step = "idle" /\ UNCHANGED <<file, registry, pos, alone, place, open>>
      /\ call' = [NoCall EXCEPT !.is = c, !.step = s, !.before = pos] /\ result' = [is |-> "none"]
  BY DEF Start, At, handles
<1>2. Types /\ Places /\ Contents
  BY DEF IInv, DetectionInv
<1>3. /\ NoCall \in Calls /\ NoCall.lost = FALSE /\ NoCall.supported = {}
  BY <1>2, NoCallType
<1>4. s \in Steps /\ pos \in Positions
  BY <1>2 DEF Types, Steps
<1>5. /\ call' \in Calls /\ call'.is = c /\ call'.step = s /\ call'.before = pos /\ call'.lost = FALSE
      /\ call'.supported = {}
  BY <1>1, <1>3, <1>4 DEF Calls
<1>6. Types'
  <2>1. call' \in Calls'
    BY <1>1, <1>5 DEF Calls, Positions
  <2>2. QED
    BY <1>1, <1>2, <1>5, <2>1 DEF Types, registry, Positions
<1>7. Places' /\ Contents'
  BY <1>1, <1>5 DEF Places, Contents, Home
<1>8. DetectionKeepsPosition' /\ DetectsByContents'
  BY <1>1 DEF DetectionKeepsPosition, DetectsByContents
<1>9. HandleInv'
  BY <1>1, <1>5 DEF IInv, HandleInv, Positions
<1>10. QED
  BY <1>6, <1>7, <1>8, <1>9 DEF IInv, DetectionInv

\* A registration changes no call, and the extractors only grow.
LEMMA Registered ==
  ASSUME UploadAssumption, IInv, Register, UNCHANGED handles
  PROVE  IInv'
<1>1. UNCHANGED <<file, pos, call, result, alone, place, open>>
  BY DEF Register, RegisterDetector, RegisterExtractor, handles
<1>2. extractors' \in SUBSET Formats /\ extractors \subseteq extractors' /\ detectors' \in Lists
  <2>1. extractors \in SUBSET Formats /\ detectors \in Lists
    BY DEF IInv, DetectionInv, Types
  <2>2. CASE RegisterDetector
    <3>1. extractors' = extractors /\ Len(detectors) < Len(DefaultDetectors)
          /\ detectors' = Append(detectors, DefaultDetectors[Len(detectors) + 1])
      BY <2>2 DEF RegisterDetector
    <3>2. CASE detectors = << >>
      <4>1. Len(detectors) = 0 /\ detectors' = Append(<< >>, "detectCAR")
        BY <3>1, <3>2, NameLists
      <4>2. Append(<< >>, "detectCAR") = <<"detectCAR">>
        OBVIOUS
      <4>3. QED
        BY <2>1, <3>1, <4>1, <4>2 DEF Lists
    <3>3. CASE detectors = <<"detectCAR">>
      BY <2>1, <3>1, <3>3, NameLists, SecondRegistered DEF Lists
    <3>4. QED
      BY <2>1, <3>1, <3>2, <3>3, NameLists DEF Lists
  <2>3. CASE \E f \in Formats : RegisterExtractor(f)
    BY <2>1, <2>3 DEF RegisterExtractor
  <2>4. QED
    BY <2>2, <2>3 DEF Register
<1>3. Types'
  BY <1>1, <1>2 DEF IInv, DetectionInv, Types, Calls, Positions, Lists, ToTries
<1>4. Places'
  BY <1>1 DEF IInv, DetectionInv, Places, Home
<1>5. Contents'
  <2>1. Contents
    BY DEF IInv, DetectionInv
  <2>2. NothingAtHead' = NothingAtHead /\ Lists' = Lists
    BY <1>1 DEF NothingAtHead, FormatsOfHead, KindAt, Lists
  <2>3. Plausible(call.format, call.failed)' = Plausible(call.format, call.failed)
    BY <1>1 DEF Plausible, FormatsOfHead, StartsAt, KindAt
  <2>4. QED
    BY <1>1, <2>1, <2>2, <2>3 DEF Contents, SecondAt
<1>6. DetectionKeepsPosition' /\ DetectsByContents'
  BY <1>1, <1>2 DEF IInv, DetectionInv, DetectionKeepsPosition, DetectsByContents, FormatsOfHead, StartsAt, KindAt
<1>7. HandleInv'
  BY <1>1 DEF IInv, HandleInv, Positions
<1>8. QED
  BY <1>3, <1>4, <1>5, <1>6, <1>7 DEF IInv, DetectionInv

\* A use of a handle between calls leaves what is known of the detection.
LEMMA BetweenCalls ==
  ASSUME UploadAssumption, IInv, call.step = "idle", UNCHANGED <<file, registry, call, result>>,
         pos' \in Positions
  PROVE  DetectionInv'
<1>1. Types /\ Places /\ call = NoCall
  BY DEF IInv, DetectionInv, Places
<1>2. NoCall.step = "idle" /\ NoCall.is = "none" /\ NoCall.lost = FALSE
  BY <1>1, NoCallType
<1>3. Types'
  BY <1>1 DEF Types, Calls, Positions, registry, Lists, ToTries
<1>4. Places' /\ Contents'
  BY <1>1, <1>2 DEF Places, Contents
<1>5. DetectionKeepsPosition' /\ DetectsByContents'
  BY DEF IInv, DetectionInv, DetectionKeepsPosition, DetectsByContents, FormatsOfHead, StartsAt, KindAt, registry
<1>6. QED
  BY <1>3, <1>4, <1>5 DEF DetectionInv

LEMMA ReadsOn ==
  ASSUME UploadAssumption, file \in Files, NEW p \in Positions
  PROVE  S!AfterRead(p) \in Positions
<1>1. file.len \in Nat /\ Chunk \in Nat
  BY DEF UploadAssumption
<1>2. QED
  BY <1>1 DEF S!AfterRead, S!Smaller, Positions

LEMMA HandleUsed ==
  ASSUME UploadAssumption, IInv, NEW h \in Handles, Open(h) \/ Read(h) \/ SeekTo(h, 0) \/ Close(h)
  PROVE  IInv'
<1>1. call.step = "idle" /\ UNCHANGED <<file, registry, call, result>>
  BY DEF Open, Read, SeekTo, Close, HandleStep
<1>2. /\ file \in Files /\ pos \in Positions /\ open \subseteq Handles
      /\ alone \in open \union {Nobody} /\ place \in Positions /\ (alone # Nobody => place = pos)
  BY <1>1 DEF IInv, DetectionInv, Types, HandleInv
<1>3. 0 \in Positions /\ h # Nobody
  BY <1>2 DEF UploadAssumption, Positions
<1>4. pos' \in Positions /\ HandleInv'
  <2>1. CASE Open(h)
    <3>1. \/ open' = open \union {h} /\ alone' = h /\ pos' \in {0, pos} /\ place' = pos'
          \/ UNCHANGED <<open, pos, alone, place>>
      BY <2>1 DEF Open, HandleStep, S!Open
    <3>2. CASE UNCHANGED <<open, pos, alone, place>>
      BY <1>1, <1>2, <3>2 DEF HandleInv, Positions
    <3>3. CASE open' = open \union {h} /\ alone' = h /\ pos' \in {0, pos} /\ place' = pos'
      BY <1>1, <1>2, <1>3, <3>3 DEF HandleInv, Positions
    <3>4. QED
      BY <3>1, <3>2, <3>3
  <2>2. CASE Read(h)
    <3>1. /\ h \in open /\ open' = open /\ pos' = S!AfterRead(pos)
          /\ alone' = (IF alone = h THEN h ELSE Nobody)
          /\ place' = (IF alone = h THEN S!AfterRead(place) ELSE 0)
      BY <2>2 DEF Read, HandleStep, S!Read, S!Use
    <3>2. S!AfterRead(pos) \in Positions /\ S!AfterRead(place) \in Positions
      BY <1>2, ReadsOn
    <3>3. QED
      BY <1>1, <1>2, <1>3, <3>1, <3>2 DEF HandleInv, Positions
  <2>3. CASE SeekTo(h, 0)
    <3>1. /\ h \in open /\ open' = open /\ pos' = 0
          /\ alone' = (IF alone = h THEN h ELSE Nobody) /\ place' = 0
      BY <2>3 DEF SeekTo, HandleStep, S!SeekTo, S!Use
    <3>2. QED
      BY <1>1, <1>2, <1>3, <3>1 DEF HandleInv, Positions
  <2>4. CASE Close(h)
    <3>1. /\ open' = open \ {h} /\ pos' = pos
          /\ \/ alone = h /\ alone' = Nobody /\ place' = 0
             \/ alone # h /\ alone' = alone /\ place' = place
      BY <2>4 DEF Close, HandleStep, S!Close, S!Disturb
    <3>2. QED
      BY <1>1, <1>2, <1>3, <3>1 DEF HandleInv, Positions
  <2>5. QED
    BY <2>1, <2>2, <2>3, <2>4
<1>5. DetectionInv'
  BY <1>1, <1>4, BetweenCalls
<1>6. QED
  BY <1>4, <1>5 DEF IInv

\* A step of a call leaves the handle that has the file to itself where it was,
\* or there is no such handle any more.
LEMMA DetectionStepInv ==
  ASSUME UploadAssumption, IInv, DetectionStep
  PROVE  IInv'
<1>1. DetectionInv' /\ Progress
  BY AnyStep DEF DetectionStep, IInv
<1>2. /\ file \in Files /\ open' = open /\ open \subseteq Handles
      /\ alone \in open \union {Nobody} /\ place \in Positions
  BY DEF IInv, DetectionInv, Types, HandleInv, DetectionStep
<1>3. 0 \in Positions /\ Positions' = Positions
  BY <1>1, <1>2 DEF UploadAssumption, Positions, Progress
<1>4. call.step # "idle" /\ call.is \in {"detect", "create"}
  <2>1. call.step # "idle"
    BY DEF DetectionStep, Step, PrepareOuter, Snapshot, Prepare, ReadHeader, Rewind, RunDetector,
           DetectorsTried, GiveUp, Restore, Verdict, RestoreOuter, ToBeginning, CreateExtractorForFormat, At
  <2>2. call \in Calls /\ Places
    BY DEF IInv, DetectionInv, Types
  <2>3. QED
    BY <2>1, <2>2 DEF Places, Calls
<1>5. HandleInv'
  <2>1. CASE alone' = Nobody /\ place' = 0
    BY <1>2, <1>3, <2>1 DEF HandleInv
  <2>2. CASE /\ UNCHANGED <<alone, place>> /\ call.is # "create"
             /\ ~(result'.is # "none" /\ result'.lost)
    <3>1. call.is = "detect" /\ (alone # Nobody => place = call.before)
      BY <1>4, <2>2 DEF IInv, HandleInv
    <3>2. CASE call'.step # "idle" /\ call'.before = call.before
      BY <1>2, <1>3, <2>2, <3>1, <3>2 DEF HandleInv
    <3>3. CASE /\ call'.step = "idle" /\ result'.is # "none" /\ result'.moved = (pos' # call.before)
               /\ result'.is \in {"undetected", "format"}
      <4>1. result'.lost \/ ~result'.moved
        BY <1>1, <3>3 DEF DetectionInv, DetectionKeepsPosition
      <4>2. pos' = call.before
        BY <2>2, <3>3, <4>1
      <4>3. QED
        BY <1>2, <1>3, <2>2, <3>1, <3>3, <4>2 DEF HandleInv
    <3>4. QED
      BY <1>1, <3>1, <3>2, <3>3 DEF Progress
  <2>3. QED
    BY <2>1, <2>2 DEF DetectionStep, S!Disturb
<1>6. QED
  BY <1>1, <1>5 DEF IInv

LEMMA Initially ==
  ASSUME UploadAssumption, Init
  PROVE  IInv
<1>1. PICK f \in Files : \E p \in {0, Smaller(Chunk, f.len)} : InitOn(f, p)
  BY DEF Init
<1>2. PICK p \in {0, Smaller(Chunk, f.len)} : InitOn(f, p)
  BY <1>1
<1>3. /\ file = f /\ pos = p /\ extractors = {} /\ detectors = << >> /\ call = NoCall
      /\ result = [is |-> "none"] /\ open = {} /\ alone = Nobody /\ place = 0
  BY <1>2 DEF Init, InitOn, S!Init
<1>4. p \in Positions /\ 0 \in Positions
  BY <1>2, <1>3 DEF UploadAssumption, Positions, Smaller
<1>5. "none" \in {"none", "detect", "create"} /\ "idle" \in Steps /\ << >> \in ToTries /\ << >> \in Lists
      /\ "unknown" \in AllFormats
  BY DEF Steps, ToTries, Lists, AllFormats
<1>6. /\ NoCall \in Calls /\ NoCall.step = "idle" /\ NoCall.is = "none" /\ NoCall.lost = FALSE
      /\ NoCall.supported = {}
  BY <1>4, <1>5 DEF NoCall, Calls
<1>7. Types
  BY <1>3, <1>4, <1>5, <1>6 DEF Types
<1>8. Places /\ Contents
  BY <1>3, <1>6 DEF Places, Contents
<1>9. DetectionKeepsPosition /\ DetectsByContents
  BY <1>3 DEF DetectionKeepsPosition, DetectsByContents
<1>10. HandleInv
  BY <1>3, <1>4 DEF HandleInv
<1>11. QED
  BY <1>7, <1>8, <1>9, <1>10 DEF IInv, DetectionInv

LEMMA NextInv ==
  ASSUME UploadAssumption, IInv, [Next]_<<vars, handles>>
  PROVE  IInv'
<1>1. CASE DetectionStep
  BY <1>1, DetectionStepInv
<1>2. CASE Detect
  BY <1>2, Begins DEF Detect, DetectFormat
<1>3. CASE Create
  BY <1>3, Begins DEF Create, CreateExtractor
<1>4. CASE Register /\ UNCHANGED handles
  BY <1>4, Registered
<1>5. CASE \E h \in Handles : Open(h) \/ Read(h) \/ SeekTo(h, 0) \/ Close(h)
  BY <1>5, HandleUsed
<1>6. CASE UNCHANGED <<vars, handles>>
  <2>1. UNCHANGED <<file, pos, extractors, detectors, call, result, open, alone, place>>
    BY <1>6 DEF vars, registry, handles
  <2>2. Types'
    BY <2>1 DEF IInv, DetectionInv, Types, Positions, Calls, Lists, ToTries
  <2>5. Places'
    BY <2>1 DEF IInv, DetectionInv, Places, Home
  <2>6. Contents'
    <3>1. NothingAtHead' = NothingAtHead /\ Lists' = Lists
      BY <2>1 DEF NothingAtHead, FormatsOfHead, KindAt, Lists
    <3>2. Plausible(call.format, call.failed)' = Plausible(call.format, call.failed)
      BY <2>1 DEF Plausible, FormatsOfHead, StartsAt, KindAt
    <3>3. QED
      BY <2>1, <3>1, <3>2 DEF IInv, DetectionInv, Contents, SecondAt
  <2>3. DetectionKeepsPosition' /\ DetectsByContents' /\ HandleInv'
    BY <2>1 DEF IInv, DetectionInv, DetectionKeepsPosition, DetectsByContents, FormatsOfHead, StartsAt, KindAt, HandleInv, Positions
  <2>4. QED
    BY <2>2, <2>3, <2>5, <2>6 DEF IInv, DetectionInv
<1>7. QED
  BY <1>1, <1>2, <1>3, <1>4, <1>5, <1>6 DEF Next

-----------------------------------------------------------------------------
(* The theorems. *)

\* The invariant holds: the types, where the reader is and what is known of the
\* contents at each step of DetectFormat and CreateExtractor
\* (archive_registry.go:139-276), and where the handle is that has the file to
\* itself (singlefilefs.go:62-143).
THEOREM Invariance == Spec => []IInv
<1>1. Init => IInv
  BY UploadAssumption, Initially
<1>2. IInv /\ [Next]_<<vars, handles>> => IInv'
  BY UploadAssumption, NextInv
<1>3. QED
  BY <1>1, <1>2, PTL DEF Spec

\* The variables have their types, and the detectors are registered in order
\* (archive_registry.go:28-46, singlefilefs.go:14-24).
THEOREM TypeCorrect == Spec => []UploadTypeOK
<1>1. ASSUME IInv PROVE UploadTypeOK
  <2>1. /\ Types /\ HandleInv
    BY <1>1 DEF IInv, DetectionInv
  <2>2. {pos, call.outerPos, call.currentPos, call.before, call.header} \subseteq 0..file.len
    BY <2>1 DEF Types, Calls, Positions
  <2>3. extractors \subseteq Formats /\ call.supported \subseteq extractors
        /\ call.is \in {"none", "detect", "create"}
        /\ call.format \in Direct \union {"tar.gz", "tar.bz2", "car", "file", "unknown"}
    BY <2>1 DEF Types, Calls, AllFormats
  <2>4. \E n \in 0..Len(DefaultDetectors) : detectors = SubSeq(DefaultDetectors, 1, n)
    <3>2. {0, 1, 2} \subseteq 0..Len(DefaultDetectors)
      BY DEF DefaultDetectors
    <3>3. detectors \in Lists
      BY <2>1 DEF Types
    <3>4. QED
      BY <3>2, <3>3, Prefixes DEF Lists
  <2>5. result.is \in {"none", "unprepared", "undetected", "format", "no extractor", "extractor"}
    <3>1. CASE result \in Answers
      BY <3>1 DEF Answers
    <3>2. CASE result = [is |-> "none"]
      BY <3>2
    <3>3. QED
      BY <2>1, <3>1, <3>2 DEF Types
  <2>6. open \subseteq Handles /\ alone \in open \union {Nobody} /\ place \in 0..file.len
    BY <2>1 DEF HandleInv, Positions
  <2>7. QED
    BY <2>2, <2>3, <2>4, <2>5, <2>6 DEF UploadTypeOK, TypeOK
<1>2. QED
  BY <1>1, Invariance, PTL

\* A detection leaves the reader where it was, unless the Seek back fails
\* (archive_registry.go:151-224, 259-272).
THEOREM KeepsPosition == Spec => []DetectionKeepsPosition
<1>1. IInv => DetectionKeepsPosition
  BY DEF IInv, DetectionInv
<1>2. QED
  BY <1>1, Invariance, PTL

\* The format found is that of the contents from the beginning, or a CAR, or
\* that of compressed data where the second detector may begin, at CarHead or,
\* after a read that has failed, before it; wherever the reader was when the
\* call was made.  It has an extractor unless it is a file or a CAR
\* (archive_registry.go:168-246, car.go:11-33).
THEOREM ByContents == Spec => []DetectsByContents
<1>1. IInv => DetectsByContents
  BY DEF IInv, DetectionInv
<1>2. QED
  BY <1>1, Invariance, PTL

\* A handle that no other has disturbed finds the file where it left it, though
\* formats were detected in between (singlefilefs.go:62-76,
\* archive_registry.go:221-224).
THEOREM KeepTheirPlace == Spec => []HandlesKeepTheirPlace
<1>1. IInv => HandlesKeepTheirPlace
  BY DEF IInv, HandleInv, HandlesKeepTheirPlace, S!AloneInPlace
<1>2. QED
  BY <1>1, Invariance, PTL

=============================================================================
