------------------------------ MODULE ServerProofs ------------------------------
(***************************************************************************)
(* The safety properties of Server, for any number of uploads.             *)
(***************************************************************************)
EXTENDS Server, TLAPS

--------------------------------------------------------------------------------
(* The inductive invariant. *)

(* A key is published only after the content has been synced. *)
StorageInv == \A u \in Upload :
    /\ putStep[u] \in {"create", "copy", "sync", "link"} => entry[u] = "absent"
    /\ putStep[u] = "sync" => content[u] = "whole"
    /\ putStep[u] = "link" => content[u] = "synced"
    /\ entry[u] # "absent" => content[u] = "synced"

(* What a handler has reached: a blob before its row, and nothing after it. *)
HandlerInv == \A u \in Upload :
    /\ handler[u] = "idle" => entry[u] = "absent"
    /\ handler[u] = "put" /\ putStep[u] = "stored" => Published(u)
    /\ handler[u] \in {"create", "transaction"} => Published(u)
    /\ row[u] => handler[u] = "end" /\ (Published(u) \/ powerFailed)

(* What a client has got, and what run has waited for. *)
ConnectionInv == \A u \in Upload :
    /\ connection[u] = "none" => handler[u] \in {"idle", "end"}
    /\ connection[u] = "ok" => row[u] /\ handler[u] = "end"
    /\ connection[u] = "cut" => outcome = "forced" \/ main = "killed"
    /\ outcome = "drained" => connection[u] # "open"
    /\ main = "exited" => handler[u] # "transaction"

RunInv == /\ main \in {"serving", "draining"} => outcome = "none"
          /\ main = "killed" => outcome = "none"
          /\ pool = "closed" => worker = "done"

Inv == TypeOK /\ StorageInv /\ HandlerInv /\ ConnectionInv /\ RunInv

--------------------------------------------------------------------------------
(* The directory. *)

StorageTypeOK ==
    /\ putStep \in [Upload -> PutStep]
    /\ temporary \in [Upload -> BOOLEAN]
    /\ content \in [Upload -> {"none", "partial", "whole", "synced"}]
    /\ entry \in [Upload -> {"absent", "linked", "durable", "removed"}]

(* A step of Put keeps the storage in order, takes no name away, gives     *)
(* none but its own, and says so when it has.                              *)
LEMMA PutKeepsStorage ==
    ASSUME StorageTypeOK, StorageInv, NEW u \in Upload, NEW c, PutNext(u, c)
    PROVE  /\ StorageTypeOK' /\ StorageInv'
           /\ \A v \in Upload : Published(v) => Published(v)'
           /\ \A v \in Upload \ {u} : entry'[v] = entry[v] /\ putStep'[v] = putStep[v]
           /\ putStep'[u] = "stored" => Published(u)'
  <1> USE DEF StorageTypeOK, StorageInv, Published, PutTo, PutStep
  <1>1. CASE CreateTemp(u)
    BY <1>1 DEF CreateTemp
  <1>2. CASE Copy(u, c)
    BY <1>2 DEF Copy
  <1>3. CASE SyncAndClose(u)
    BY <1>3 DEF SyncAndClose
  <1>4. CASE Link(u)
    BY <1>4 DEF Link
  <1>5. CASE RemoveTemp(u)
    BY <1>5 DEF RemoveTemp
  <1> QED
    BY <1>1, <1>2, <1>3, <1>4, <1>5 DEF PutNext

(* A removal touches its own name only. *)
LEMMA DeleteKeepsStorage ==
    ASSUME StorageTypeOK, StorageInv, NEW u \in Upload, Delete(u)
    PROVE  /\ StorageTypeOK' /\ StorageInv'
           /\ UNCHANGED putStep
           /\ \A v \in Upload \ {u} : entry'[v] = entry[v]
  BY DEF StorageTypeOK, StorageInv, Delete

(* Writing the directory makes durable what the program sees. *)
LEMMA FlushKeepsStorage ==
    ASSUME StorageTypeOK, StorageInv, FlushDirectory
    PROVE  /\ StorageTypeOK' /\ StorageInv'
           /\ UNCHANGED << putStep, temporary, content >>
           /\ \A v \in Upload : /\ Published(v) => Published(v)'
                                /\ entry[v] = "absent" => entry'[v] = "absent"
  <1>1. \A v \in Upload :
           /\ entry[v] = "linked" => entry'[v] = "durable"
           /\ entry[v] = "removed" => entry'[v] = "absent"
           /\ entry[v] \in {"durable", "absent"} => entry'[v] = entry[v]
    BY DEF FlushDirectory, StorageTypeOK
  <1>2. \A v \in Upload : entry'[v] \in {"durable", "absent"}
    BY <1>1 DEF StorageTypeOK
  <1>3. entry' \in [Upload -> {"absent", "linked", "durable", "removed"}]
    BY <1>2 DEF FlushDirectory
  <1>4. UNCHANGED << putStep, temporary, content >>
    BY DEF FlushDirectory
  <1> QED
    BY <1>1, <1>3, <1>4 DEF StorageTypeOK, StorageInv, Published

(* After a power failure every name that is left has a synced content.     *)
LEMMA LosePowerKeepsStorage ==
    ASSUME StorageTypeOK, StorageInv, LosePower PROVE StorageTypeOK' /\ StorageInv'
  <1>1. /\ entry' \in [Upload -> {"absent", "linked", "durable", "removed"}]
        /\ content' \in [Upload -> {"none", "partial", "whole", "synced"}]
        /\ putStep' = [u \in Upload |-> "idle"]
        /\ UNCHANGED temporary
    BY DEF LosePower
  <1>2. ASSUME NEW u \in Upload, entry'[u] # "absent" PROVE content'[u] = "synced"
    <2>1. entry[u] # "absent"
      BY <1>2 DEF LosePower, EntriesAfter
    <2> QED
      BY <2>1 DEF LosePower, ContentsAfter, StorageInv
  <1> QED
    BY <1>1, <1>2 DEF StorageTypeOK, StorageInv, PutStep

--------------------------------------------------------------------------------
(* The invariant holds at first and every step keeps it. *)

(* Nothing is stored and nothing is asked for. *)
LEMMA InitInv == Init => Inv
  <1> SUFFICES ASSUME Init PROVE Inv
    OBVIOUS
  <1>1. TypeOK
    BY DEF Init, StorageInit, TypeOK, PutStep
  <1>2. StorageInv
    BY DEF Init, StorageInit, StorageInv
  <1>3. HandlerInv
    BY DEF Init, StorageInit, HandlerInv
  <1>4. ConnectionInv /\ RunInv
    BY DEF Init, ConnectionInv, RunInv
  <1> QED
    BY <1>1, <1>2, <1>3, <1>4 DEF Inv

(* A handler gets on: it commits only what it has stored, and takes back   *)
(* only what it has not committed.                                         *)
LEMMA HandlersKeepInv ==
    ASSUME Inv, NEW u \in Upload, Accept(u) \/ UploadNext(u) PROVE Inv'
  <1> USE DEF Inv, Handles
  <1>1. CASE Accept(u)
    BY <1>1 DEF Accept, PutTo, PutStep, TypeOK, StorageInv, HandlerInv, ConnectionInv, RunInv,
                process, working, Published, Ended
  <1>2. CASE PutStepOf(u)
    <2>1. PutNext(u, cancelled[u]) /\ handler[u] = "put" /\ handler' = handler
      BY <1>2 DEF PutStepOf, TypeOK
    <2>2. StorageTypeOK
      BY DEF TypeOK, StorageTypeOK
    <2>3. /\ StorageTypeOK' /\ StorageInv'
          /\ \A v \in Upload : Published(v) => Published(v)'
          /\ \A v \in Upload \ {u} : entry'[v] = entry[v] /\ putStep'[v] = putStep[v]
          /\ putStep'[u] = "stored" => Published(u)'
      BY <2>1, <2>2, PutKeepsStorage
    <2>4. UNCHANGED << process, working, serving, powerFailed >>
      BY <1>2, <2>1 DEF PutStepOf, serving
    <2>5. TypeOK'
      BY <2>3, <2>4 DEF TypeOK, StorageTypeOK, process, working, serving
    <2>6. HandlerInv'
      BY <2>1, <2>3, <2>4 DEF HandlerInv, serving
    <2> QED
      BY <2>3, <2>4, <2>5, <2>6 DEF ConnectionInv, RunInv, process, working, serving
  <1>3. CASE PutReturns(u)
    BY <1>3 DEF PutReturns, TypeOK, StorageInv, HandlerInv, ConnectionInv, RunInv,
                storage, process, working, Published, Ended
  <1>4. CASE BeginCreate(u)
    BY <1>4 DEF BeginCreate, TypeOK, StorageInv, HandlerInv, ConnectionInv, RunInv,
                storage, process, working, Published, Ended
  <1>5. CASE Commit(u)
    <2>1. /\ handler[u] = "transaction"
          /\ handler' \in {[handler EXCEPT ![u] = "end"], [handler EXCEPT ![u] = "undo"]}
          /\ UNCHANGED << storage, process, working, cancelled, connection, powerFailed >>
      BY <1>5 DEF Commit
    <2>2. \A v \in Upload : /\ row'[v] => row[v] \/ (v = u /\ handler'[u] = "end")
                            /\ row[v] => row'[v]
      BY <1>5 DEF Commit, TypeOK
    <2>3. row' \in [Upload -> BOOLEAN]
      BY <1>5 DEF Commit, TypeOK
    <2>4. TypeOK'
      BY <2>1, <2>3 DEF TypeOK, storage, process, working
    <2>5. StorageInv' /\ RunInv'
      BY <2>1 DEF StorageInv, RunInv, storage, process, working
    <2>6. HandlerInv'
      BY <2>1, <2>2 DEF TypeOK, HandlerInv, Published, storage
    <2>7. ConnectionInv'
      BY <2>1, <2>2 DEF TypeOK, ConnectionInv, process
    <2> QED
      BY <2>4, <2>5, <2>6, <2>7
  <1>6. CASE TakeBack(u)
    <2>1. /\ handler[u] = "undo" /\ handler' = [handler EXCEPT ![u] = "end"]
          /\ UNCHANGED << process, working, powerFailed, cancelled, connection, row >>
      BY <1>6 DEF TakeBack
    <2>2. StorageTypeOK
      BY DEF TypeOK, StorageTypeOK
    <2>3. /\ StorageTypeOK' /\ StorageInv'
          /\ UNCHANGED putStep
          /\ \A v \in Upload \ {u} : entry'[v] = entry[v]
      <3>1. CASE Delete(u)
        BY <3>1, <2>2, DeleteKeepsStorage
      <3>2. CASE UNCHANGED storage
        BY <3>2, <2>2 DEF storage, StorageTypeOK, StorageInv
      <3> QED
        BY <1>6, <3>1, <3>2 DEF TakeBack
    <2>4. TypeOK'
      BY <2>1, <2>3 DEF TypeOK, StorageTypeOK, process, working
    <2>5. HandlerInv'
      BY <2>1, <2>3 DEF HandlerInv, TypeOK, Published
    <2>6. ConnectionInv' /\ RunInv'
      BY <2>1 DEF ConnectionInv, RunInv, TypeOK, process, working
    <2> QED
      BY <2>3, <2>4, <2>5, <2>6
  <1> QED
    BY <1>1, <1>2, <1>3, <1>4, <1>5, <1>6 DEF UploadNext

(* So do the ends of contexts and the answers, the worker and the          *)
(* operating system.                                                       *)
LEMMA SurroundingsKeepInv ==
    ASSUME Inv, (\E u \in Upload : Cancel(u) \/ Answer(u)) \/ Work \/ Flush PROVE Inv'
  <1> USE DEF Inv
  <1>1. ASSUME NEW u \in Upload, Cancel(u) PROVE Inv'
    BY <1>1 DEF Cancel, TypeOK, StorageInv, HandlerInv, ConnectionInv, RunInv,
                storage, process, working, Published
  <1>2. ASSUME NEW u \in Upload, Answer(u) PROVE Inv'
    BY <1>2 DEF Answer, TypeOK, StorageInv, HandlerInv, ConnectionInv, RunInv,
                storage, process, working, Published
  <1>3. CASE Work
    <2>1. /\ UNCHANGED << storage, process, workerStopped, serving, powerFailed >>
          /\ worker' \in {"query", "remove", "pause", "done"}
          /\ worker # "done"
      BY <1>3 DEF Work, WorkTo
    <2> QED
      BY <2>1 DEF TypeOK, StorageInv, HandlerInv, ConnectionInv, RunInv, storage, process,
                  serving, Published
  <1>4. CASE Flush
    <2>1. FlushDirectory /\ UNCHANGED << process, working, serving, powerFailed >>
      BY <1>4 DEF Flush
    <2>2. StorageTypeOK
      BY DEF TypeOK, StorageTypeOK
    <2>3. /\ StorageTypeOK' /\ StorageInv'
          /\ UNCHANGED << putStep, temporary, content >>
          /\ \A v \in Upload : /\ Published(v) => Published(v)'
                               /\ entry[v] = "absent" => entry'[v] = "absent"
      BY <2>1, <2>2, FlushKeepsStorage
    <2>4. TypeOK'
      BY <2>1, <2>3 DEF TypeOK, StorageTypeOK, process, working, serving
    <2>5. HandlerInv'
      BY <2>1, <2>3 DEF HandlerInv, serving
    <2> QED
      BY <2>1, <2>3, <2>4, <2>5 DEF ConnectionInv, RunInv, process, working, serving
  <1> QED
    BY <1>1, <1>2, <1>3, <1>4

(* run waits for those it owes an answer before it says it is drained, and *)
(* for the pool's users before it ends.                                    *)
LEMMA RunKeepsInv == ASSUME Inv, ListenFails \/ Signal \/ RunNext PROVE Inv'
  <1> USE DEF Inv, MainTo, TypeOK, StorageInv, HandlerInv, ConnectionInv, RunInv, storage,
              serving, working, Published
  <1>1. CASE ListenFails
    BY <1>1 DEF ListenFails
  <1>2. CASE Signal
    BY <1>2 DEF Signal
  <1>3. CASE ShutdownReturns
    BY <1>3 DEF ShutdownReturns, Idle
  <1>4. CASE GraceEnds
    BY <1>4 DEF GraceEnds
  <1>5. CASE StopWorker
    BY <1>5 DEF StopWorker
  <1>6. CASE ClosePool
    BY <1>6 DEF ClosePool
  <1>7. CASE Exit
    BY <1>7 DEF Exit, Borrowed
  <1> QED
    BY <1>1, <1>2, <1>3, <1>4, <1>5, <1>6, <1>7 DEF RunNext

(* The end of the process leaves what is stored as it is, and the end of   *)
(* the power what is durable.                                              *)
LEMMA DeathKeepsInv == ASSUME Inv, Kill \/ PowerFails PROVE Inv'
  <1> USE DEF Inv
  <1>1. /\ main' = "killed" /\ outcome' = "none" /\ pool' = "closed"
        /\ worker' = "done" /\ workerStopped' = TRUE
        /\ handler' = [u \in Upload |-> "end"]
        /\ cancelled' = [u \in Upload |-> TRUE]
        /\ UNCHANGED << connection, row >>
    BY DEF Kill, PowerFails, Die
  <1>2. StorageTypeOK
    BY DEF TypeOK, StorageTypeOK
  <1>3. CASE Kill
    <2>1. /\ putStep' = [u \in Upload |-> "idle"]
          /\ UNCHANGED << temporary, content, entry, powerFailed >>
      BY <1>3 DEF Kill
    <2> QED
      BY <1>1, <2>1 DEF TypeOK, PutStep, StorageInv, HandlerInv, ConnectionInv, RunInv, Published
  <1>4. CASE PowerFails
    <2>1. StorageTypeOK' /\ StorageInv' /\ powerFailed' = TRUE
      BY <1>2, <1>4, LosePowerKeepsStorage DEF PowerFails
    <2> QED
      BY <1>1, <2>1 DEF TypeOK, StorageTypeOK, HandlerInv, ConnectionInv, RunInv
  <1> QED
    BY <1>3, <1>4

(* Every step keeps the invariant. *)
LEMMA NextInv == Inv /\ [Next]_vars => Inv'
  <1> SUFFICES ASSUME Inv, [Next]_vars PROVE Inv'
    OBVIOUS
  <1>1. CASE UNCHANGED vars
    BY <1>1 DEF vars, Inv, TypeOK, StorageInv, HandlerInv, ConnectionInv, RunInv, storage,
                process, working, serving, Published
  <1> QED
    BY <1>1, HandlersKeepInv, SurroundingsKeepInv, RunKeepsInv, DeathKeepsInv DEF Next

--------------------------------------------------------------------------------
(* The theorems. *)

(* The inductive invariant holds throughout every execution. *)
THEOREM Invariance == Spec => []Inv
  BY InitInv, NextInv, PTL DEF Spec

(* Every variable keeps its type. *)
THEOREM TypeCorrectness == Spec => []TypeOK
  BY Invariance, PTL DEF Inv

(* Whatever cuts Put off, and wherever, a key never names a part of a      *)
(* content.                                                                *)
THEOREM PublishedBlobsAreWhole == Spec => []PublishedBlobIsWhole
  <1>1. Inv => PublishedBlobIsWhole
    BY DEF Inv, StorageInv, Published, PublishedBlobIsWhole
  <1> QED
    BY <1>1, Invariance, PTL

(* A committed document has its blob, unless the power has failed. *)
THEOREM CommittedBlobsAreThere == Spec => []CommittedBlobIsThere
  <1>1. Inv => CommittedBlobIsThere
    BY DEF Inv, HandlerInv, CommittedBlobIsThere
  <1> QED
    BY <1>1, Invariance, PTL

(* A shutdown that has come to its end in time owes nobody an answer, and  *)
(* keeps what was promised.                                                *)
THEOREM DrainedExitsOweNothing == Spec => []DrainedExitOwesNothing
  <1>1. Inv => DrainedExitOwesNothing
    BY DEF Inv, TypeOK, ConnectionInv, DrainedExitOwesNothing
  <1> QED
    BY <1>1, Invariance, PTL

(* The pool outlives the worker and every transaction. *)
THEOREM PoolIsClosedLast == Spec => []PoolOutlivesItsUsers
  <1>1. Inv => PoolOutlivesItsUsers
    BY DEF Inv, ConnectionInv, RunInv, PoolOutlivesItsUsers
  <1> QED
    BY <1>1, Invariance, PTL
================================================================================
