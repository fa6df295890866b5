------------------------------- MODULE MCUpload --------------------------------
(***************************************************************************)
(* Upload for TLC.                                                         *)
(***************************************************************************)
EXTENDS Upload, TLC

CONSTANTS h1, h2

MCHandles == {h1, h2}

NoKinds == [o \in {} |-> "plain"]
F(len, kinds, seekable) == [len |-> len, kinds |-> kinds, seekable |-> seekable]

\* Files of each kind, at the lengths where the detection changes, two with
\* compressed data further on, where the second detector may begin and where it
\* does, and one that cannot seek.
MCFiles ==
  {F(0, NoKinds, TRUE), F(2, 0 :> "car", TRUE), F(3, 0 :> "car", TRUE),
   F(3, 0 :> "gzip", TRUE), F(4, 0 :> "gzip", TRUE), F(7, 0 :> "zip", TRUE),
   F(7, 0 :> "car", TRUE), F(8, 6 :> "gzip", TRUE), F(7, 5 :> "gzip", TRUE), F(10, NoKinds, TRUE),
   F(7, 0 :> "zip", FALSE)}

MCFormats == {"zip", "tar.gz"}
=============================================================================
