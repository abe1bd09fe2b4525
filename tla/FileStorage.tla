------------------------------- MODULE FileStorage -------------------------------
(***************************************************************************)
(* The directory of blobs: the steps of FileStorage.Put and Delete, and    *)
(* what a power failure makes of them.                                     *)
(*                                                                         *)
(* Put writes a temporary file, makes its content durable and publishes it *)
(* by a hard link under its key; the temporary name is removed when Put    *)
(* returns, by whatever way.  The file is synced, the directory is not: a  *)
(* link or a removal is durable only some time later.  Every call of Put   *)
(* has a fresh random key and is known by it.  The module has the actions  *)
(* only; module Server says who takes them.                                *)
(***************************************************************************)
EXTENDS Naturals

CONSTANT Upload         \* the calls of Put, and their keys

VARIABLES
    putStep,            \* putStep[u]: progress of Put
    temporary,          \* temporary[u]: its temporary name is in the directory
    content,            \* content[u]: what the file has on disk
    entry               \* entry[u]: the key's name in the directory

storage == << putStep, temporary, content, entry >>

PutStep == {"idle", "create", "copy", "sync", "link", "clean", "stored", "refused"}

StorageInit ==
    /\ putStep = [u \in Upload |-> "idle"]
    /\ temporary = [u \in Upload |-> FALSE]
    /\ content = [u \in Upload |-> "none"]
    /\ entry = [u \in Upload |-> "absent"]

(* A name that is linked or removed now may be on disk as it was before. *)
Published(u) == entry[u] \in {"linked", "durable"}

--------------------------------------------------------------------------------
(* Put. *)

PutTo(u, from, to) == putStep[u] = from /\ putStep' = [putStep EXCEPT ![u] = to]

CreateTemp(u) ==
    \/ /\ PutTo(u, "create", "copy")
       /\ temporary' = [temporary EXCEPT ![u] = TRUE]
       /\ content' = [content EXCEPT ![u] = "partial"]
       /\ UNCHANGED entry
    \/ PutTo(u, "create", "refused") /\ UNCHANGED << temporary, content, entry >>

(* The context is looked at before every read, the one that finds the end  *)
(* included.                                                               *)
Copy(u, cancelled) ==
    /\ \/ /\ ~cancelled /\ PutTo(u, "copy", "sync")
          /\ content' = [content EXCEPT ![u] = "whole"]
       \/ PutTo(u, "copy", "clean") /\ UNCHANGED content
    /\ UNCHANGED << temporary, entry >>

(* Mutation: the content is left to the operating system. *)
CloseUnsynced(u) == PutTo(u, "sync", "link") /\ UNCHANGED << temporary, content, entry >>

SyncAndClose(u) ==
    /\ \/ /\ PutTo(u, "sync", "link")
          /\ content' = [content EXCEPT ![u] = "synced"]
       \/ PutTo(u, "sync", "clean") /\ UNCHANGED content
    /\ UNCHANGED << temporary, entry >>

Link(u) ==
    /\ \/ PutTo(u, "link", "clean") /\ entry' = [entry EXCEPT ![u] = "linked"]
       \/ PutTo(u, "link", "clean") /\ UNCHANGED entry
    /\ UNCHANGED << temporary, content >>

(* Put returns.  That the temporary name could not be removed is ignored.  *)
RemoveTemp(u) ==
    /\ PutTo(u, "clean", IF Published(u) THEN "stored" ELSE "refused")
    /\ \E left \in BOOLEAN : temporary' = [temporary EXCEPT ![u] = left]
    /\ UNCHANGED << content, entry >>

PutNext(u, cancelled) == \/ CreateTemp(u) \/ Copy(u, cancelled) \/ SyncAndClose(u)
                         \/ Link(u) \/ RemoveTemp(u)

--------------------------------------------------------------------------------

(* Delete: the name is removed, or not; one that is not there is an error  *)
(* that its callers pass over.                                             *)
Delete(u) ==
    /\ entry' = [entry EXCEPT ![u] = IF @ = "durable" THEN "removed" ELSE "absent"]
    /\ UNCHANGED << putStep, temporary, content >>

(* The operating system writes the directory. *)
FlushDirectory ==
    /\ \E u \in Upload : entry[u] \in {"linked", "removed"}
    /\ entry' = [u \in Upload |-> CASE entry[u] = "linked" -> "durable"
                                    [] entry[u] = "removed" -> "absent"
                                    [] entry[u] \in {"durable", "absent"} -> entry[u]]
    /\ UNCHANGED << putStep, temporary, content >>

(* What is found after a power failure.  Temporary names do not matter. *)
EntriesAfter(u) ==
    IF entry[u] \in {"linked", "removed"} THEN {"durable", "absent"} ELSE {entry[u]}

ContentsAfter(u) == IF content[u] = "whole" THEN {"whole", "partial"} ELSE {content[u]}

LosePower ==
    /\ entry' \in {e \in [Upload -> {"durable", "absent"}] :
                     \A u \in Upload : e[u] \in EntriesAfter(u)}
    /\ content' \in {c \in [Upload -> {"none", "partial", "whole", "synced"}] :
                       \A u \in Upload : c[u] \in ContentsAfter(u)}
    /\ putStep' = [u \in Upload |-> "idle"]
    /\ UNCHANGED temporary
================================================================================
