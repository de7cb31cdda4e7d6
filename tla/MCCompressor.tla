---------------------------- MODULE MCCompressor ----------------------------
(* Three day-files, two of them past the cutoff, listed by name.          *)
EXTENDS Compressor

CONSTANTS f1, f2, f3

MCFiles == {f1, f2, f3}
MCOld == {f1, f2}
MCOrder == <<f1, f2, f3>>
=============================================================================
