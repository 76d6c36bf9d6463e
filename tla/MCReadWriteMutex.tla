-------------------------- MODULE MCReadWriteMutex --------------------------
(* The instances of ReadWriteMutex that TLC checks: three threads, enough  *)
(* for a writer, an announced reader and a third thread that overtakes.    *)
EXTENDS ReadWriteMutex
=============================================================================
