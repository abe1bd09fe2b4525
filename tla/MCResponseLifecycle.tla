-------------------------- MODULE MCResponseLifecycle --------------------------
(* ResponseLifecycle for handlers of a few writes. *)
EXTENDS ResponseLifecycle
================================================================================
