---------------------------- MODULE MCResponseCache ----------------------------
(***************************************************************************)
(* ResponseCache on a small instance: a write beside two requests, or      *)
(* three requests for one list, too large for the cache, and no write.     *)
(***************************************************************************)
EXTENDS ResponseCache

CONSTANT Third          \* the request that comes only when nothing is written

Bound ==
    readStep[Third] # "idle" =>
        version = 0 /\ \A r \in Request : ask[r].user \in LargeUser \cup {"none"}
================================================================================
