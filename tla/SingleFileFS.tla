----------------------------- MODULE SingleFileFS ------------------------------
(***************************************************************************)
(* fs.SingleFileFS (src/fs/singlefilefs.go): a filesystem of one open      *)
(* file.  Each Open goes back to the beginning of the file, if it can, and *)
(* returns a handle that uses the file with its one position; closing a    *)
(* handle does nothing to the file.                                        *)
(***************************************************************************)
EXTENDS Naturals

CONSTANTS Handles,  \* the handles that Open returns
          Chunk,    \* the length of a read
          Nobody    \* no handle

VARIABLES
  file, pos,     \* the file and its position
  open,          \* the handles that are open
  \* history
  alone,         \* the handle that no other has disturbed since its Open
  place          \* where that handle has left the file

Init == open = {} /\ alone = Nobody /\ place = 0

Smaller(m, n) == IF m <= n THEN m ELSE n

\* The position after a read at p.
AfterRead(p) == IF p < file.len THEN Smaller(p + Chunk, file.len) ELSE p

\* h is used, and goes from its place to another.
Use(h, to) == /\ alone' = IF alone = h THEN h ELSE Nobody
              /\ place' = IF alone = h THEN to ELSE 0

\* Nobody has the file to itself any more.
Disturb == alone' = Nobody /\ place' = 0

\* Open of "." or of the name of the file; other names do not exist.  If the
\* Seek fails there is no handle.
Open(h) ==
  \/ /\ open' = open \union {h}
     /\ pos' = IF file.seekable THEN 0 ELSE pos
     /\ alone' = h /\ place' = IF file.seekable THEN 0 ELSE pos
  \/ file.seekable /\ UNCHANGED <<open, pos, alone, place>>

Read(h) ==
  /\ h \in open
  /\ pos' = AfterRead(pos)
  /\ Use(h, AfterRead(place))
  /\ UNCHANGED open

SeekTo(h, to) ==
  /\ h \in open /\ file.seekable
  /\ pos' = to
  /\ Use(h, to)
  /\ UNCHANGED open

Close(h) ==
  /\ h \in open
  /\ open' = open \ {h}
  /\ pos' = pos
  /\ IF alone = h THEN Disturb ELSE UNCHANGED <<alone, place>>

-----------------------------------------------------------------------------
\* A handle that has had the file to itself since it was opened finds the file
\* where it left it, so that each pass of the CAR builder reads all of it
\* (singlefilefs.go:62-76).
AloneInPlace == alone # Nobody => pos = place
=============================================================================
