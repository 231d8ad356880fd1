------------------------- MODULE MCServiceLifecycle -------------------------
(* Instances of ServiceLifecycle for TLC. *)
EXTENDS ServiceLifecycle

CONSTANTS o1, o2

(* One oracle is stored before the service starts. *)
OneStored == <<o1>>

=============================================================================
