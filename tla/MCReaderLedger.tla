--------------------------- MODULE MCReaderLedger ---------------------------
(* Instances of ReaderLedger.                                              *)
EXTENDS ReaderLedger

=============================================================================
