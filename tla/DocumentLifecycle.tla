--------------------------- MODULE DocumentLifecycle ---------------------------
(***************************************************************************)
(* What the service promises about one stored document, whatever the       *)
(* database, the blob directory, the requests and the cleanup workers do   *)
(* to keep the promise.                                                    *)
(*                                                                         *)
(*   none ----> live ----> gone          a JSON document                   *)
(*   none ----> stored --> live ----> doomed ----> gone     a file         *)
(*                 |                                                       *)
(*                 +-----> gone          a file whose upload was given up  *)
(*                                                                         *)
(* Nothing ever moves back: identifiers and storage keys are random and    *)
(* used once.  A doomed file is invisible, and is always reclaimed.        *)
(***************************************************************************)

CONSTANTS Document,     \* documents, each with its own id and storage key
          File          \* the documents whose content is a blob

VARIABLE phase          \* phase[d]: the stage of life of document d

Phase == {"none", "stored", "live", "doomed", "gone"}

Init == phase = [d \in Document |-> "none"]

Move(d, from, to) == /\ phase[d] \in from
                     /\ phase' = [phase EXCEPT ![d] = to]

(* A file exists, but nobody can name it yet. *)
Store(d) == d \in File /\ Move(d, {"none"}, "stored")

(* The document becomes visible to those who may read it. *)
Publish(d) == Move(d, {IF d \in File THEN "stored" ELSE "none"}, "live")

(* The upload ends without a document: at once, or after its file was stored. *)
GiveUp(d) == Move(d, {"none", "stored"}, "gone")

(* The document stops being visible; a file is now owed a reclamation. *)
Delete(d) == Move(d, {"live"}, IF d \in File THEN "doomed" ELSE "gone")

Reclaim(d) == Move(d, {"doomed"}, "gone")

Next == \E d \in Document :
           Store(d) \/ Publish(d) \/ GiveUp(d) \/ Delete(d) \/ Reclaim(d)

Spec == /\ Init
        /\ [][Next]_phase
        /\ \A d \in Document : WF_phase(Reclaim(d))
================================================================================
