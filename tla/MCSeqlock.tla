----------------------------- MODULE MCSeqlock ------------------------------
(* The seqlock with named ledger words and readers.                        *)
EXTENDS Seqlock

CONSTANTS horizon, bytes, jagged, scanner, dump
=============================================================================
