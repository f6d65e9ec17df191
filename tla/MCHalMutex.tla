----------------------------- MODULE MCHalMutex -----------------------------
(* HalMutex on three threads, both builds, nested calls in the user build. *)
EXTENDS HalMutex

MCNesting == {"user"}
=============================================================================
