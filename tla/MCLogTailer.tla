---------------------------- MODULE MCLogTailer -----------------------------
(* TLC instance of LogTailer.                                              *)
EXTENDS LogTailer
=============================================================================
