-------------------------- MODULE MCExtensionsMap --------------------------
(***************************************************************************)
(* Three goroutines and one key are enough for a writer that waits for a   *)
(* reader while another reader is parked behind it, and for two writers    *)
(* that follow each other.                                                 *)
(***************************************************************************)
EXTENDS ExtensionsMap

CONSTANTS a, p1, p2, p3

MCID == {a}
MCProc == {p1, p2, p3}
MCVersion == {EmptyVersion}
MCSize == {0, 1}
=============================================================================
