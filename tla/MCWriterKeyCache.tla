-------------------------- MODULE MCWriterKeyCache --------------------------
(* Names for the keys, mutations and calls of a small instance.            *)
EXTENDS WriterKeyCache

CONSTANTS k1, k2, m1, m2, c1, c2, null
=============================================================================
