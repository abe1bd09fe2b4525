------------------------------ MODULE CacheProofs ------------------------------
(***************************************************************************)
(* The two sides of the cache of responses.  First who may be answered     *)
(* what from it, ResponseCache, for any number of writes, requests and     *)
(* users; then how it keeps within its bounds, MemoryCache, for any keys,  *)
(* sizes, limits and concurrent calls.                                     *)
(***************************************************************************)
EXTENDS ResponseCache, MemoryCache, Inductions, SequenceTheorems, TLAPS

--------------------------------------------------------------------------------
(* ResponseCache: the inductive invariant. *)

(* A list of this version may be answered under a key of this epoch: it    *)
(* has every write that advanced the epoch up to there.                    *)
Fresh(e, v) == \A w \in Writer :
    writeEpoch[w] > 0 /\ writeEpoch[w] <= e => v >= writeVersion[w]

(* The epoch of a write is advanced after its commit, and never past the   *)
(* current one.                                                            *)
WriteInv == \A w \in Writer :
    /\ writeVersion[w] <= version /\ writeEpoch[w] <= epoch
    /\ writeStep[w] \in {"idle", "committed"} => writeEpoch[w] = 0
    /\ writeStep[w] \in {"advanced", "invalidated", "acknowledged"} => writeEpoch[w] > 0

EntryInv == \A e \in cache : e.epoch <= epoch /\ Fresh(e.epoch, e.version)

(* What a request has seen was acknowledged under an epoch its key covers. *)
AskInv == \A r \in Request :
    /\ ask[r].epoch <= epoch
    /\ readStep[r] # "idle" => ask[r].user \in User
    /\ \A w \in seen[r] : /\ writeStep[w] = "acknowledged"
                          /\ writeEpoch[w] <= ask[r].epoch

(* A load belongs to a request that has started, and carries a list of     *)
(* that request's key; whoever waits for it has the same key.              *)
FlightInv == \A r \in Request :
    /\ readStep[r] = "waiting" => /\ flight[r] \in Request
                                  /\ flightStep[flight[r]] # "none"
                                  /\ SameKey(r, flight[r])
    /\ flightStep[r] # "none" => readStep[r] \notin {"idle", "lookup", "join"}
    /\ flightStep[r] = "none" => ~result[r].found
    /\ flightStep[r] = "store" => result[r].found
    /\ result[r].found => /\ Fresh(ask[r].epoch, result[r].version)
                          /\ result[r].user = ask[r].user

AnswerInv == \A r \in Request :
    /\ readStep[r] = "idle" => ~answer[r].found
    /\ answer[r].found => /\ Fresh(ask[r].epoch, answer[r].version)
                          /\ answer[r].user = ask[r].user

Inv == /\ TypeOK
       /\ WriteInv /\ EntryInv /\ AskInv /\ FlightInv /\ AnswerInv

--------------------------------------------------------------------------------
(* ResponseCache: the invariant holds at first and every step keeps it. *)

(* The invariant holds of an empty cache that nobody has asked. *)
LEMMA InitInv == Init => Inv
  BY CacheAssumption
     DEF Init, Inv, TypeOK, NoAsk, NoEntry, WriteInv, EntryInv, AskInv, FlightInv,
         AnswerInv, Fresh, Entry, Answer

(* A write never takes the freshness of a list away: its own epoch is new, *)
(* and its version is not counted before it has advanced the epoch.        *)
LEMMA WritesKeepFresh ==
    ASSUME TypeOK, WriteInv, NEW w \in Writer, WriteNext(w),
           NEW e \in Nat, NEW v \in Nat, e <= epoch, Fresh(e, v)
    PROVE Fresh(e, v)'
  <1>1. CASE Commit(w)
    BY <1>1 DEF Commit, WriteTo, TypeOK, WriteInv, Fresh
  <1>2. CASE AdvanceEpoch(w)
    BY <1>2 DEF AdvanceEpoch, WriteTo, TypeOK, WriteInv, Fresh
  <1>3. CASE Invalidate(w)
    BY <1>3 DEF Invalidate, WriteTo, Fresh
  <1>4. CASE Acknowledge(w)
    BY <1>4 DEF Acknowledge, WriteTo, Fresh
  <1> QED
    BY <1>1, <1>2, <1>3, <1>4 DEF WriteNext

(* A write keeps the invariant: what is cached, loaded or answered stays   *)
(* under the epoch it was asked for.                                       *)
LEMMA WritesKeepInv ==
    ASSUME Inv, NEW w \in Writer, WriteNext(w) PROVE Inv'
  <1> USE DEF Inv
  <1>1. /\ epoch \in Nat /\ epoch' \in Nat /\ epoch <= epoch'
        /\ cache' \subseteq cache
        /\ UNCHANGED << readStep, asking, flight, loading, answer >>
    BY DEF WriteNext, Commit, AdvanceEpoch, Invalidate, Acknowledge, WriteTo, TypeOK
  <1>2. TypeOK'
    BY DEF WriteNext, Commit, AdvanceEpoch, Invalidate, Acknowledge, WriteTo,
           TypeOK, asking, loading, WriteInv
  <1>3. WriteInv'
    <2>1. CASE Commit(w)
      BY <2>1 DEF Commit, WriteTo, TypeOK, WriteInv
    <2>2. CASE AdvanceEpoch(w)
      BY <2>2 DEF AdvanceEpoch, WriteTo, TypeOK, WriteInv
    <2>3. CASE Invalidate(w)
      BY <2>3 DEF Invalidate, WriteTo, TypeOK, WriteInv
    <2>4. CASE Acknowledge(w)
      BY <2>4 DEF Acknowledge, WriteTo, TypeOK, WriteInv
    <2> QED
      BY <2>1, <2>2, <2>3, <2>4 DEF WriteNext
  <1>4. EntryInv'
    <2> SUFFICES ASSUME NEW e \in cache' PROVE e.epoch <= epoch' /\ Fresh(e.epoch, e.version)'
      BY DEF EntryInv
    <2>1. e \in cache /\ e.epoch \in Nat /\ e.version \in Nat
      BY <1>1 DEF TypeOK, Entry
    <2> QED
      BY <1>1, <2>1, WritesKeepFresh DEF EntryInv
  <1>5. AskInv'
    <2> SUFFICES ASSUME NEW r \in Request
                 PROVE /\ ask[r].epoch <= epoch'
                       /\ readStep[r] # "idle" => ask[r].user \in User
                       /\ \A x \in seen[r] : /\ writeStep'[x] = "acknowledged"
                                             /\ writeEpoch'[x] <= ask[r].epoch
      BY <1>1 DEF AskInv, asking
    <2>1. ask[r].epoch \in Nat /\ seen[r] \subseteq Writer
      BY DEF TypeOK, NoAsk
    <2>2. \A x \in seen[r] : writeStep'[x] = writeStep[x] /\ writeEpoch'[x] = writeEpoch[x]
      BY <2>1 DEF AskInv, WriteNext, Commit, AdvanceEpoch, Invalidate, Acknowledge,
                  WriteTo, TypeOK
    <2> QED
      BY <1>1, <2>1, <2>2 DEF AskInv
  <1>6. \A r \in Request : ask[r].epoch \in Nat /\ ask[r].epoch <= epoch
    BY DEF TypeOK, NoAsk, AskInv
  <1>7. FlightInv'
    <2>1. ASSUME NEW r \in Request, result[r].found
          PROVE  Fresh(ask[r].epoch, result[r].version)'
      <3>1. result[r] \in Answer
        BY <2>1 DEF TypeOK, NoEntry
      <3>2. result[r].version \in Nat
        BY <3>1 DEF Answer
      <3>3. Fresh(ask[r].epoch, result[r].version)
        BY <2>1 DEF FlightInv
      <3> QED
        BY <1>1, <1>6, <3>2, <3>3, WritesKeepFresh DEF asking, loading
    <2> QED
      BY <1>1, <2>1 DEF FlightInv, SameKey, asking, loading
  <1>8. AnswerInv'
    <2>1. ASSUME NEW r \in Request, answer[r].found
          PROVE  Fresh(ask[r].epoch, answer[r].version)'
      <3>1. answer[r] \in Answer
        BY <2>1 DEF TypeOK, NoEntry
      <3>2. answer[r].version \in Nat
        BY <3>1 DEF Answer
      <3>3. Fresh(ask[r].epoch, answer[r].version)
        BY <2>1 DEF AnswerInv
      <3> QED
        BY <1>1, <1>6, <3>2, <3>3, WritesKeepFresh DEF asking
    <2> QED
      BY <1>1, <2>1 DEF AnswerInv, asking
  <1> QED
    BY <1>2, <1>3, <1>4, <1>5, <1>7, <1>8

(* A request keeps the invariant: what it is answered comes from an entry  *)
(* of its own key or from the load of its own key.                         *)
LEMMA RequestsKeepInv ==
    ASSUME Inv, NEW r \in Request, RequestNext(r) PROVE Inv'
  <1> USE DEF Inv
  <1>1. /\ UNCHANGED << version, epoch, cache, writes >>
        /\ WriteInv' /\ EntryInv'
    BY DEF RequestNext, Start, LookUp, Join, Receive, Abandon, ReadTo, store,
           writes, WriteInv, EntryInv, Fresh
  <1>2. \A e, v : Fresh(e, v)' <=> Fresh(e, v)
    BY <1>1 DEF Fresh, writes
  <1>3. ASSUME NEW u \in User, NEW head \in BOOLEAN, Start(r, u, head) PROVE Inv'
    <2>1. TypeOK'
      BY <1>1, <1>3 DEF Start, ReadTo, TypeOK, loading, writes
    <2>2. AskInv'
      BY <1>1, <1>3 DEF Start, ReadTo, TypeOK, AskInv, writes, WriteInv
    <2>3. FlightInv'
      BY <1>2, <1>3 DEF Start, ReadTo, TypeOK, FlightInv, SameKey, loading
    <2>4. AnswerInv'
      BY <1>2, <1>3 DEF Start, ReadTo, TypeOK, AnswerInv
    <2> QED
      BY <1>1, <2>1, <2>2, <2>3, <2>4
  <1>4. ASSUME LookUp(r) PROVE Inv'
    <2>1. ASSUME NEW e \in Acceptable(r), answer' = [answer EXCEPT ![r] = Response(e)]
          PROVE  TypeOK' /\ AnswerInv'
      <3>1. /\ e \in Entry /\ e.epoch = ask[r].epoch /\ e.user = ask[r].user
            /\ Fresh(e.epoch, e.version)
        BY DEF Acceptable, TypeOK, EntryInv
      <3>2. Response(e) \in Answer
        BY <3>1 DEF Response, Entry, Answer
      <3>3. TypeOK'
        BY <1>1, <1>4, <2>1, <3>2 DEF LookUp, ReadTo, TypeOK, asking, loading, writes
      <3>4. AnswerInv'
        BY <1>2, <1>4, <2>1, <3>1 DEF LookUp, ReadTo, TypeOK, AnswerInv, Response, asking
      <3> QED
        BY <3>3, <3>4
    <2>2. ASSUME ReadTo(r, "lookup", "join"), UNCHANGED answer PROVE TypeOK' /\ AnswerInv'
      BY <1>1, <1>2, <1>4, <2>2
         DEF LookUp, ReadTo, TypeOK, AnswerInv, asking, loading, writes
    <2>3. TypeOK' /\ AnswerInv'
      BY <1>4, <2>1, <2>2 DEF LookUp
    <2>4. AskInv'
      BY <1>1, <1>4 DEF LookUp, ReadTo, TypeOK, AskInv, asking, writes
    <2>5. FlightInv'
      BY <1>2, <1>4 DEF LookUp, ReadTo, TypeOK, FlightInv, SameKey, asking, loading
    <2> QED
      BY <1>1, <2>3, <2>4, <2>5
  <1>5. ASSUME Join(r) PROVE Inv'
    <2>1. TypeOK'
      BY <1>1, <1>5 DEF Join, ReadTo, TypeOK, asking, loading, writes
    <2>2. AskInv'
      BY <1>1, <1>5 DEF Join, ReadTo, TypeOK, AskInv, asking, writes
    <2>3. AnswerInv'
      BY <1>2, <1>5 DEF Join, ReadTo, TypeOK, AnswerInv, asking
    <2>4. FlightInv'
      BY <1>2, <1>5 DEF Join, ReadTo, TypeOK, FlightInv, SameKey, InFlight, asking
    <2> QED
      BY <1>1, <2>1, <2>2, <2>3, <2>4
  <1>6. ASSUME Receive(r) PROVE Inv'
    <2>1. /\ readStep[r] = "waiting" /\ flight[r] \in Request
          /\ ask[flight[r]].user = ask[r].user /\ ask[flight[r]].epoch = ask[r].epoch
      BY <1>6 DEF Receive, ReadTo, FlightInv, SameKey
    <2>2. TypeOK'
      BY <1>1, <1>6, <2>1 DEF Receive, ReadTo, TypeOK, asking, loading, writes
    <2>3. AskInv'
      BY <1>1, <1>6 DEF Receive, ReadTo, TypeOK, AskInv, asking, writes
    <2>4. AnswerInv'
      BY <1>2, <1>6, <2>1 DEF Receive, ReadTo, TypeOK, AnswerInv, FlightInv, asking
    <2>5. FlightInv'
      BY <1>2, <1>6 DEF Receive, ReadTo, TypeOK, FlightInv, SameKey, asking, loading
    <2> QED
      BY <1>1, <2>2, <2>3, <2>4, <2>5
  <1>7. ASSUME Abandon(r) PROVE Inv'
    <2>1. TypeOK'
      BY <1>1, <1>7 DEF Abandon, ReadTo, TypeOK, asking, loading, writes
    <2>2. AskInv'
      BY <1>1, <1>7 DEF Abandon, ReadTo, TypeOK, AskInv, asking, writes
    <2>3. AnswerInv'
      BY <1>2, <1>7 DEF Abandon, ReadTo, TypeOK, AnswerInv, asking
    <2>4. FlightInv'
      BY <1>2, <1>7 DEF Abandon, ReadTo, TypeOK, FlightInv, SameKey, asking, loading
    <2> QED
      BY <1>1, <2>1, <2>2, <2>3, <2>4
  <1> QED
    BY <1>3, <1>4, <1>5, <1>6, <1>7 DEF RequestNext

(* A load keeps the invariant: it reads a list at least as new as every    *)
(* write so far and stores it under the key its leader was given.          *)
LEMMA FlightsKeepInv ==
    ASSUME Inv, NEW l \in Request, FlightNext(l) PROVE Inv'
  <1> USE DEF Inv
  <1>1. /\ UNCHANGED << version, epoch, writes, readStep, asking, flight, answer >>
        /\ WriteInv' /\ AskInv' /\ AnswerInv'
    BY DEF FlightNext, CheckAgain, Load, Store, Deliver, FlightTo, writes, asking,
           WriteInv, AskInv, AnswerInv, Fresh
  <1>2. \A e, v : Fresh(e, v)' <=> Fresh(e, v)
    BY <1>1 DEF Fresh, writes
  <1>3. ASSUME CheckAgain(l) PROVE Inv'
    <2>1. ASSUME NEW e \in Acceptable(l), FlightTo(l, "check", "deliver"),
                 result' = [result EXCEPT ![l] = Response(e)]
          PROVE  TypeOK' /\ FlightInv'
      <3>1. /\ e \in Entry /\ e.epoch = ask[l].epoch /\ e.user = ask[l].user
            /\ Fresh(e.epoch, e.version)
        BY DEF Acceptable, TypeOK, EntryInv
      <3>2. Response(e) \in Answer
        BY <3>1 DEF Response, Entry, Answer
      <3>3. TypeOK'
        BY <1>1, <1>3, <2>1, <3>2 DEF CheckAgain, FlightTo, TypeOK, asking, writes
      <3>4. FlightInv'
        BY <1>1, <1>2, <2>1, <3>1
           DEF FlightTo, TypeOK, FlightInv, SameKey, Response, asking
      <3> QED
        BY <3>3, <3>4
    <2>2. ASSUME FlightTo(l, "check", "load"), UNCHANGED result
          PROVE  TypeOK' /\ FlightInv'
      BY <1>1, <1>2, <1>3, <2>2
         DEF CheckAgain, FlightTo, TypeOK, FlightInv, SameKey, asking, writes
    <2>3. EntryInv'
      BY <1>1, <1>2, <1>3 DEF CheckAgain, EntryInv
    <2> QED
      BY <1>1, <1>3, <2>1, <2>2, <2>3 DEF CheckAgain
  <1>4. ASSUME Load(l) PROVE Inv'
    <2> DEFINE list == [user |-> ask[l].user, version |-> version,
                        omitted |-> FALSE, found |-> TRUE]
    <2>1. ASSUME FlightTo(l, "load", "store"), result' = [result EXCEPT ![l] = list]
          PROVE  TypeOK' /\ FlightInv'
      <3>1. ask[l].user \in User /\ list \in Answer
        BY <2>1 DEF FlightTo, FlightInv, AskInv, Answer, TypeOK
      <3>2. \A e : Fresh(e, version)
        BY DEF Fresh, WriteInv, TypeOK
      <3>3. TypeOK'
        BY <1>1, <1>4, <2>1, <3>1 DEF Load, FlightTo, TypeOK, asking, writes
      <3>4. FlightInv'
        BY <1>1, <1>2, <2>1, <3>2 DEF FlightTo, TypeOK, FlightInv, SameKey, asking
      <3> QED
        BY <3>3, <3>4
    <2>2. ASSUME FlightTo(l, "load", "deliver"), UNCHANGED result
          PROVE  TypeOK' /\ FlightInv'
      BY <1>1, <1>2, <1>4, <2>2
         DEF Load, FlightTo, TypeOK, FlightInv, SameKey, asking, writes
    <2>3. EntryInv'
      BY <1>1, <1>2, <1>4 DEF Load, EntryInv
    <2> QED
      BY <1>1, <1>4, <2>1, <2>2, <2>3 DEF Load
  <1>5. ASSUME Store(l) PROVE Inv'
    <2> DEFINE new == [epoch |-> ask[l].epoch, user |-> ask[l].user,
                       version |-> result[l].version,
                       omitted |-> ask[l].user \in LargeUser]
               old == {e \in cache : e.epoch # ask[l].epoch \/ e.user # ask[l].user}
    <2>1. cache' = old \cup {new} /\ flightStep[l] = "store" /\ UNCHANGED result
      BY <1>5 DEF Store, FlightTo
    <2>2. result[l].found /\ result[l] \in Answer
      BY <2>1 DEF FlightInv, TypeOK, NoEntry
    <2>3. ask[l].user \in User /\ ask[l].epoch \in Nat /\ result[l].version \in Nat
      BY <2>1, <2>2 DEF FlightInv, AskInv, TypeOK, NoAsk, Answer
    <2>4. new \in Entry
      BY <2>3 DEF Entry
    <2>5. TypeOK'
      BY <1>1, <1>5, <2>1, <2>4 DEF Store, FlightTo, TypeOK, asking, writes
    <2>6. new.epoch <= epoch /\ Fresh(new.epoch, new.version)
      BY <2>2 DEF AskInv, FlightInv
    <2>7. EntryInv'
      BY <1>1, <1>2, <2>1, <2>6 DEF EntryInv
    <2>8. FlightInv'
      BY <1>1, <1>2, <1>5, <2>2
         DEF Store, FlightTo, TypeOK, FlightInv, SameKey, asking
    <2> QED
      BY <1>1, <2>5, <2>7, <2>8
  <1>6. ASSUME Deliver(l) PROVE Inv'
    <2>1. TypeOK'
      BY <1>1, <1>6 DEF Deliver, FlightTo, TypeOK, asking, writes
    <2>2. EntryInv'
      BY <1>1, <1>2, <1>6 DEF Deliver, EntryInv
    <2>3. FlightInv'
      BY <1>1, <1>2, <1>6 DEF Deliver, FlightTo, TypeOK, FlightInv, SameKey, asking
    <2> QED
      BY <1>1, <2>1, <2>2, <2>3
  <1> QED
    BY <1>3, <1>4, <1>5, <1>6 DEF FlightNext

(* Every step keeps the invariant. *)
LEMMA NextInv == Inv /\ [Next]_vars => Inv'
  <1> SUFFICES ASSUME Inv, [Next]_vars PROVE Inv'
    OBVIOUS
  <1>1. CASE Vanish
    BY <1>1 DEF Vanish, Inv, TypeOK, writes, asking, loading, WriteInv, EntryInv,
                AskInv, FlightInv, AnswerInv, SameKey, Fresh
  <1>2. CASE UNCHANGED vars
    BY <1>2 DEF vars, Inv, TypeOK, writes, asking, loading, WriteInv, EntryInv,
                AskInv, FlightInv, AnswerInv, SameKey, Fresh
  <1> QED
    BY <1>1, <1>2, WritesKeepInv, RequestsKeepInv, FlightsKeepInv DEF Next

--------------------------------------------------------------------------------
(* ResponseCache: the theorems. *)

(* The inductive invariant holds throughout every execution. *)
THEOREM Invariance == Spec => []Inv
  BY InitInv, NextInv, PTL DEF Spec

(* Every variable keeps its type, and a key has at most one entry. *)
THEOREM TypeCorrectness == Spec => []TypeOK
  BY Invariance, PTL DEF Inv

(* However many writes, loads and requests overlap, a list asked for after *)
(* a write was acknowledged has that write.                                *)
THEOREM ListsAreFresh == Spec => []AcknowledgedWritesAreSeen
  <1>1. Inv => AcknowledgedWritesAreSeen
    <2> SUFFICES ASSUME Inv, NEW r \in Request, answer[r].found, NEW w \in seen[r]
                 PROVE answer[r].version >= writeVersion[w]
      BY DEF AcknowledgedWritesAreSeen
    <2>1. w \in Writer
      BY DEF Inv, TypeOK
    <2>2. writeEpoch[w] > 0 /\ writeEpoch[w] <= ask[r].epoch
      BY <2>1 DEF Inv, WriteInv, AskInv
    <2> QED
      BY <2>1, <2>2 DEF Inv, AnswerInv, Fresh
  <1> QED
    BY <1>1, Invariance, PTL

(* A load that began before a write never leaves its list under the epoch  *)
(* that write opened.                                                      *)
THEOREM EntriesAreFresh == Spec => []EntriesMatchTheirEpoch
  <1>1. Inv => EntriesMatchTheirEpoch
    BY DEF Inv, EntryInv, Fresh, EntriesMatchTheirEpoch
  <1> QED
    BY <1>1, Invariance, PTL

(* Sharing loads never hands one user's list to another. *)
THEOREM ListsArePrivate == Spec => []AnswersStayPrivate
  <1>1. Inv => AnswersStayPrivate
    BY DEF Inv, AnswerInv, AnswersStayPrivate
  <1> QED
    BY <1>1, Invariance, PTL

--------------------------------------------------------------------------------
(* ResponseCache: entries without their body.  The method of a leader is   *)
(* settled before its load begins, and does not change while somebody      *)
(* waits for it.                                                           *)
MethodInv == \A r \in Request :
    /\ result[r].omitted => ask[r].head /\ flightStep[r] # "none"
    /\ flight[r] \in Request => readStep[flight[r]] # "idle"
    /\ answer[r].omitted =>
          /\ readStep[r] = "answered"
          /\ ask[r].head \/ \E l \in Request \ {r} : flight[r] = l /\ ask[l].head

(* Every step keeps it: only a HEAD accepts such an entry.                 *)
LEMMA MethodStep == Inv /\ MethodInv /\ [Next]_vars => MethodInv'
  <1> SUFFICES ASSUME Inv, MethodInv, [Next]_vars PROVE MethodInv'
    OBVIOUS
  <1> USE DEF Inv, MethodInv
  <1>1. ASSUME NEW w \in Writer, WriteNext(w) PROVE MethodInv'
    BY <1>1 DEF WriteNext, Commit, AdvanceEpoch, Invalidate, Acknowledge, WriteTo,
                asking, loading
  <1>2. ASSUME NEW r \in Request, NEW u \in User, NEW head \in BOOLEAN, Start(r, u, head)
        PROVE  MethodInv'
    BY <1>2 DEF Start, ReadTo, TypeOK, FlightInv, loading
  <1>3. ASSUME NEW r \in Request, LookUp(r) PROVE MethodInv'
    <2>1. UNCHANGED << ask, flight, result, flightStep >>
      BY <1>3 DEF LookUp, asking, loading
    <2>2. ASSUME NEW e \in Acceptable(r), ReadTo(r, "lookup", "answered"),
                 answer' = [answer EXCEPT ![r] = Response(e)]
          PROVE  MethodInv'
      <3>1. Response(e).omitted => ask[r].head
        BY DEF Response, Acceptable
      <3> QED
        BY <2>1, <2>2, <3>1 DEF ReadTo, TypeOK
    <2>3. ASSUME ReadTo(r, "lookup", "join"), UNCHANGED answer PROVE MethodInv'
      BY <2>1, <2>3 DEF ReadTo, TypeOK
    <2> QED
      BY <1>3, <2>2, <2>3 DEF LookUp
  <1>4. ASSUME NEW r \in Request, Join(r) PROVE MethodInv'
    <2>1. /\ readStep[r] = "join" /\ readStep' = [readStep EXCEPT ![r] = "waiting"]
          /\ UNCHANGED << ask, answer, result >>
      BY <1>4 DEF Join, ReadTo, asking
    <2>2. \/ /\ flight' = [flight EXCEPT ![r] = r]
             /\ flightStep' = [flightStep EXCEPT ![r] = "check"]
          \/ /\ UNCHANGED flightStep
             /\ \E q \in Request : InFlight(q) /\ flight' = [flight EXCEPT ![r] = q]
      BY <1>4 DEF Join
    <2>3. \A q \in Request : InFlight(q) => readStep[q] # "idle"
      BY DEF InFlight, FlightInv
    <2> QED
      BY <2>1, <2>2, <2>3 DEF TypeOK
  <1>5. ASSUME NEW r \in Request, Receive(r) PROVE MethodInv'
    <2>1. /\ readStep[r] = "waiting" /\ readStep' = [readStep EXCEPT ![r] = "answered"]
          /\ flight[r] \in Request
          /\ answer' = [answer EXCEPT ![r] = result[flight[r]]]
          /\ UNCHANGED << ask, flight, flightStep, result >>
      BY <1>5 DEF Receive, ReadTo, FlightInv, asking, loading
    <2>2. result[flight[r]].omitted => ask[flight[r]].head
      BY <2>1
    <2> QED
      BY <2>1, <2>2 DEF TypeOK
  <1>6. ASSUME NEW r \in Request, Abandon(r) PROVE MethodInv'
    BY <1>6 DEF Abandon, ReadTo, TypeOK, asking, loading
  <1>7. ASSUME NEW l \in Request, FlightNext(l) PROVE MethodInv'
    <2>1. UNCHANGED << readStep, ask, flight, answer >>
      BY <1>7 DEF FlightNext, CheckAgain, Load, Store, Deliver, FlightTo, asking
    <2>2. ASSUME NEW e \in Acceptable(l), FlightTo(l, "check", "deliver"),
                 result' = [result EXCEPT ![l] = Response(e)]
          PROVE  MethodInv'
      <3>1. Response(e).omitted => ask[l].head
        BY DEF Response, Acceptable
      <3> QED
        BY <2>1, <2>2, <3>1 DEF FlightTo, TypeOK
    <2>3. ASSUME NEW from, NEW to, to # "none", FlightTo(l, from, to), UNCHANGED result
          PROVE  MethodInv'
      BY <2>1, <2>3 DEF FlightTo, TypeOK
    <2>4. CASE CheckAgain(l)
      BY <2>2, <2>3, <2>4 DEF CheckAgain
    <2>5. ASSUME FlightTo(l, "load", "store"),
                 result' = [result EXCEPT ![l] =
                    [user |-> ask[l].user, version |-> version, omitted |-> FALSE,
                     found |-> TRUE]]
          PROVE  MethodInv'
      BY <2>1, <2>5 DEF FlightTo, TypeOK
    <2>6. CASE Load(l)
      BY <2>3, <2>5, <2>6 DEF Load
    <2>7. CASE Store(l)
      BY <2>3, <2>7 DEF Store
    <2>8. CASE Deliver(l)
      BY <2>3, <2>8 DEF Deliver
    <2> QED
      BY <1>7, <2>4, <2>6, <2>7, <2>8 DEF FlightNext
  <1>8. CASE Vanish
    BY <1>8 DEF Vanish, asking, loading
  <1>9. CASE UNCHANGED vars
    BY <1>9 DEF vars, asking, loading
  <1> QED
    BY <1>1, <1>2, <1>3, <1>4, <1>5, <1>6, <1>7, <1>8, <1>9 DEF Next, RequestNext

(* For any number of requests, a GET has an empty body only if it joined   *)
(* the load of a HEAD.                                                     *)
THEOREM BodylessGetsAreExplained == Spec => []BodylessGetIsExplained
  <1>1. Init => MethodInv
    BY CacheAssumption DEF Init, MethodInv, NoEntry
  <1>2. MethodInv => BodylessGetIsExplained
    BY DEF MethodInv, BodylessGetIsExplained
  <1> QED
    BY <1>1, <1>2, MethodStep, Invariance, PTL DEF Spec

--------------------------------------------------------------------------------
(* MemoryCache: the bytes of a list. *)

(* What an item is made of; every item has a size. *)
LEMMA ItemSize ==
    ASSUME NEW e \in Item
    PROVE  entrySize(e) \in Nat /\ entrySize(e) > 0 /\ e.key \in CacheKey /\ e.body \in Nat
           /\ e.metadata \in Nat /\ e.given \in Nat /\ e.omitted \in BOOLEAN
  <1>1. e.metadata \in Metadata /\ e.body \in Body \cup {0} /\ e.key \in CacheKey
        /\ e.given \in Body /\ e.omitted \in BOOLEAN
    BY DEF Item
  <1>2. Metadata \subseteq Nat \ {0} /\ Body \subseteq Nat
    BY SizesAssumption
  <1>3. e.metadata \in Nat /\ e.metadata > 0 /\ e.body \in Nat /\ e.given \in Nat
    <2>1. e.metadata \in Nat \ {0} /\ e.given \in Nat
      BY <1>1, <1>2
    <2>2. e.body \in Body \/ e.body = 0
      BY <1>1
    <2>3. e.body \in Nat
      <3>1. CASE e.body \in Body
        BY <1>2, <3>1
      <3>2. CASE e.body = 0
        BY <3>2
      <3> QED
        BY <2>2, <3>1, <3>2
    <2> QED
      BY <2>1, <2>3
  <1> QED
    BY <1>1, <1>3 DEF entrySize

(* The sums that TotalSize takes. *)
LEMMA TotalSizeIsLastSum ==
    ASSUME NEW s \in Seq(Item)
    PROVE  \E f \in [0..Len(s) -> Nat] :
              /\ f[0] = 0 /\ \A n \in 1..Len(s) : f[n] = f[n - 1] + entrySize(s[n])
              /\ TotalSize(s) = f[Len(s)]
  <1> DEFINE N == Len(s)
             step == [p \in (1..N) \X Nat |-> p[2] + entrySize(s[p[1]])]
             Sums(g) == [n \in 0..N |-> IF n = 0 THEN 0 ELSE g[n - 1] + entrySize(s[n])]
             sum == CHOOSE g : g = Sums(g)
  <1>1. N \in Nat /\ \A n \in 1..N : s[n] \in Item
    BY LenProperties, ElementOfSeq
  <1>2. \A n \in 1..N : entrySize(s[n]) \in Nat
    BY <1>1, ItemSize
  <1>3. step \in [(1..N) \X Nat -> Nat]
    BY <1>2
  <1>4. PICK f \in [0..N -> Nat] : /\ f[0] = 0
                                   /\ \A n \in 1..N : f[n] = step[<< n, f[n - 1] >>]
    <2> HIDE DEF N, step
    <2>1. N \in Nat /\ 0 \in Nat /\ IsStep(step, N, Nat)
      BY <1>1, <1>3 DEF IsStep
    <2>2. \E f : IsRecursion(f, N, Nat, 0, step)
      BY <2>1, RecursionExists
    <2> QED
      BY <2>2 DEF IsRecursion
  <1>5. \A n \in 1..N : f[n] = f[n - 1] + entrySize(s[n])
    <2> TAKE n \in 1..N
    <2>1. n - 1 \in 0..N
      BY <1>1
    <2>2. << n, f[n - 1] >> \in (1..N) \X Nat
      BY <1>4, <2>1
    <2> QED
      BY <1>4, <2>2
  <1>6. f = Sums(f)
    <2>1. \A n \in 0..N : n = 0 \/ n \in 1..N
      BY <1>1
    <2> HIDE DEF N
    <2> QED
      BY <1>4, <1>5, <2>1
  <1>7. sum = Sums(sum)
    <2> HIDE DEF Sums
    <2> QED
      BY <1>6
  <1>8. sum[0] = 0 /\ \A n \in 1..N : sum[n] = sum[n - 1] + entrySize(s[n])
    <2> HIDE DEF sum
    <2>1. 0 \in 0..N /\ \A n \in 1..N : n \in 0..N /\ n # 0
      BY <1>1
    <2> HIDE DEF N
    <2>2. \A n \in 0..N : sum[n] = Sums(sum)[n]
      BY <1>7
    <2> QED
      BY <2>1, <2>2
  <1>9. \A n \in 0..N : sum[n] = f[n]
    <2> HIDE DEF sum, N
    <2>1. GoesOnAs(f, sum, N)
      BY <1>5, <1>8 DEF GoesOnAs
    <2>2. N \in Nat /\ sum[0] = f[0]
      BY <1>1, <1>4, <1>8
    <2> QED
      BY <2>1, <2>2, RecursionIsUnique
  <1>10. TotalSize(s) = sum[N]
    BY DEF TotalSize
  <1>11. TotalSize(s) = f[N]
    BY <1>1, <1>9, <1>10
  <1> QED
    BY <1>4, <1>5, <1>11

(* The sum over no items, *)
LEMMA TotalSizeOfEmpty == TotalSize(<< >>) = 0
  <1>1. << >> \in Seq(Item) /\ Len(<< >>) = 0
    BY EmptySeq
  <1> QED
    BY <1>1, TotalSizeIsLastSum

(* over any, *)
LEMMA TotalSizeType ==
    ASSUME NEW s \in Seq(Item)
    PROVE  TotalSize(s) \in Nat
  <1>1. Len(s) \in 0..Len(s)
    BY LenProperties
  <1> QED
    BY <1>1, TotalSizeIsLastSum

(* over one more, *)
LEMMA TotalSizeOfAppend ==
    ASSUME NEW s \in Seq(Item), NEW e \in Item
    PROVE  TotalSize(Append(s, e)) = TotalSize(s) + entrySize(e)
  <1> DEFINE N == Len(s)
             t == Append(s, e)
  <1>1. N \in Nat /\ t \in Seq(Item) /\ Len(t) = N + 1 /\ t[N + 1] = e
        /\ \A n \in 1..N : t[n] = s[n]
    BY LenProperties, AppendProperties
  <1>2. PICK f \in [0..N -> Nat] :
              /\ f[0] = 0 /\ \A n \in 1..N : f[n] = f[n - 1] + entrySize(s[n])
              /\ TotalSize(s) = f[N]
    BY TotalSizeIsLastSum
  <1>3. PICK g \in [0..N + 1 -> Nat] :
              /\ g[0] = 0 /\ \A n \in 1..N + 1 : g[n] = g[n - 1] + entrySize(t[n])
              /\ TotalSize(t) = g[N + 1]
    <2> HIDE DEF t
    <2> QED
      BY <1>1, TotalSizeIsLastSum
  <1> HIDE DEF N, t
  <1>4. GoesOnAs(g, f, N)
    <2>1. \A n \in 1..N : n \in 1..N + 1
      BY <1>1
    <2> QED
      BY <1>1, <1>2, <1>3, <2>1 DEF GoesOnAs
  <1>5. f[N] = g[N]
    <2>1. N \in Nat /\ f[0] = g[0]
      BY <1>1, <1>2, <1>3
    <2>2. \A n \in 0..N : f[n] = g[n]
      BY <1>4, <2>1, RecursionIsUnique
    <2> QED
      BY <1>1, <2>2
  <1>6. N + 1 \in 1..N + 1 /\ (N + 1) - 1 = N
    BY <1>1
  <1>7. TotalSize(t) = TotalSize(s) + entrySize(e)
    BY <1>1, <1>2, <1>3, <1>5, <1>6
  <1> QED
    BY <1>7 DEF t

(* over one list behind another, *)
LEMMA TotalSizeOfConcat ==
    ASSUME NEW s \in Seq(Item), NEW t \in Seq(Item)
    PROVE  TotalSize(s \o t) = TotalSize(s) + TotalSize(t)
  <1> DEFINE Adds == {u \in Seq(Item) : TotalSize(s \o u) = TotalSize(s) + TotalSize(u)}
  <1>1. << >> \in Adds
    <2>1. << >> \in Seq(Item) /\ s \o << >> = s
      BY EmptySeq, ConcatEmptySeq
    <2> QED
      BY <2>1, TotalSizeType, TotalSizeOfEmpty
  <1>2. ASSUME NEW u \in Seq(Item), NEW e \in Item, u \in Adds PROVE Append(u, e) \in Adds
    <2>1. Append(u, e) \in Seq(Item) /\ << e >> \in Seq(Item)
      BY AppendProperties
    <2>2. s \o Append(u, e) = Append(s \o u, e) /\ s \o u \in Seq(Item)
      BY <2>1, AppendIsConcat, ConcatAssociative, ConcatProperties
    <2>3. TotalSize(s \o Append(u, e)) = TotalSize(s \o u) + entrySize(e)
      BY <2>2, TotalSizeOfAppend
    <2>4. TotalSize(Append(u, e)) = TotalSize(u) + entrySize(e)
      BY TotalSizeOfAppend
    <2>5. TotalSize(s) \in Nat /\ TotalSize(u) \in Nat /\ entrySize(e) \in Nat
      BY TotalSizeType, ItemSize
    <2> QED
      BY <1>2, <2>1, <2>3, <2>4, <2>5
  <1>3. Seq(Item) \subseteq Adds
    <2> HIDE DEF Adds
    <2> QED
      BY <1>1, <1>2, SequenceInduction
  <1> QED
    BY <1>3

(* and over one item. *)
LEMMA TotalSizeOfOne ==
    ASSUME NEW e \in Item
    PROVE  TotalSize(<< e >>) = entrySize(e)
  <1>1. << >> \in Seq(Item) /\ Append(<< >>, e) = << e >>
    BY EmptySeq
  <1>2. TotalSize(Append(<< >>, e)) = TotalSize(<< >>) + entrySize(e)
    BY <1>1, TotalSizeOfAppend
  <1>3. TotalSize(<< e >>) = 0 + entrySize(e) /\ entrySize(e) \in Nat
    BY <1>1, <1>2, TotalSizeOfEmpty, ItemSize
  <1> QED
    BY <1>3

--------------------------------------------------------------------------------
(* The selected elements of a list. *)

(* f has the sublists that Select(s, S) takes. *)
IsSelection(f, s, S, T) ==
    /\ f \in [0..Len(s) -> Seq(T)] /\ f[0] = << >>
    /\ \A n \in 1..Len(s) : f[n] = IF s[n] \in S THEN Append(f[n - 1], s[n]) ELSE f[n - 1]

(* Select is the last of the choices it makes along the list. *)
LEMMA SelectIsLastChoice ==
    ASSUME NEW T, NEW s \in Seq(T), NEW S
    PROVE  \E f : IsSelection(f, s, S, T) /\ Select(s, S) = f[Len(s)]
  <1> DEFINE N == Len(s)
             V == Seq(T)
             step == [p \in (1..N) \X V |->
                        IF s[p[1]] \in S THEN Append(p[2], s[p[1]]) ELSE p[2]]
             Choices(g) == [n \in 0..N |->
                              IF n = 0 THEN << >>
                              ELSE IF s[n] \in S THEN Append(g[n - 1], s[n]) ELSE g[n - 1]]
             chosen == CHOOSE g : g = Choices(g)
  <1>1. N \in Nat /\ \A n \in 1..N : s[n] \in T
    BY LenProperties, ElementOfSeq
  <1>2. \A v \in V, t \in T : Append(v, t) \in V
    BY AppendProperties
  <1>3. IsStep(step, N, V)
    <2>1. \A p \in (1..N) \X V : p[1] \in 1..N /\ p[2] \in V
      OBVIOUS
    <2>2. \A p \in (1..N) \X V :
            (IF s[p[1]] \in S THEN Append(p[2], s[p[1]]) ELSE p[2]) \in V
      <3> HIDE DEF N, V
      <3> QED
        BY <1>1, <1>2, <2>1
    <2> HIDE DEF N, V
    <2> QED
      BY <2>2 DEF IsStep
  <1>4. PICK f : IsRecursion(f, N, V, << >>, step)
    <2>1. << >> \in V
      BY EmptySeq
    <2> HIDE DEF N, V, step
    <2> QED
      BY <1>1, <1>3, <2>1, RecursionExists
  <1>5. f \in [0..N -> V] /\ f[0] = << >>
    BY <1>4 DEF IsRecursion
  <1>6. \A n \in 1..N : f[n] = IF s[n] \in S THEN Append(f[n - 1], s[n]) ELSE f[n - 1]
    <2> TAKE n \in 1..N
    <2>1. n - 1 \in 0..N
      BY <1>1
    <2>2. << n, f[n - 1] >> \in (1..N) \X V
      BY <1>5, <2>1
    <2>3. f[n] = step[<< n, f[n - 1] >>]
      <3> HIDE DEF step
      <3> QED
        BY <1>4 DEF IsRecursion
    <2> HIDE DEF N, V
    <2> QED
      BY <2>2, <2>3
  <1>7. f = Choices(f)
    <2>1. \A n \in 0..N : n = 0 \/ n \in 1..N
      BY <1>1
    <2> HIDE DEF N, V
    <2> QED
      BY <1>5, <1>6, <2>1
  <1>8. chosen = Choices(chosen)
    <2> HIDE DEF Choices
    <2> QED
      BY <1>7
  <1>9. /\ chosen[0] = << >>
        /\ \A n \in 1..N :
             chosen[n] = IF s[n] \in S THEN Append(chosen[n - 1], s[n]) ELSE chosen[n - 1]
    <2> HIDE DEF chosen
    <2>1. 0 \in 0..N /\ \A n \in 1..N : n \in 0..N /\ n # 0
      BY <1>1
    <2> HIDE DEF N
    <2>2. \A n \in 0..N : chosen[n] = Choices(chosen)[n]
      BY <1>8
    <2> QED
      BY <2>1, <2>2
  <1>10. \A n \in 0..N : chosen[n] = f[n]
    <2> HIDE DEF chosen, N
    <2>1. GoesOnAs(f, chosen, N)
      BY <1>6, <1>9 DEF GoesOnAs
    <2>2. N \in Nat /\ chosen[0] = f[0]
      BY <1>1, <1>5, <1>9
    <2> QED
      BY <2>1, <2>2, RecursionIsUnique
  <1>11. Select(s, S) = chosen[N]
    BY DEF Select
  <1>12. Select(s, S) = f[N]
    BY <1>1, <1>10, <1>11
  <1> QED
    BY <1>5, <1>6, <1>12 DEF IsSelection

(* It selects from the list, *)
LEMMA SelectType ==
    ASSUME NEW T, NEW s \in Seq(T), NEW S
    PROVE  Select(s, S) \in Seq(T)
  <1>1. Len(s) \in 0..Len(s)
    BY LenProperties
  <1> QED
    BY <1>1, SelectIsLastChoice DEF IsSelection

(* nothing from none, *)
LEMMA SelectOfEmpty ==
    ASSUME NEW S
    PROVE  Select(<< >>, S) = << >>
  <1> DEFINE T == {}
  <1>1. << >> \in Seq(T) /\ Len(<< >>) = 0
    BY EmptySeq
  <1> HIDE DEF T
  <1>2. PICK f : IsSelection(f, << >>, S, T) /\ Select(<< >>, S) = f[Len(<< >>)]
    BY <1>1, SelectIsLastChoice
  <1>3. f[0] = << >>
    BY <1>2 DEF IsSelection
  <1> QED
    BY <1>1, <1>2, <1>3

(* and the last element of a list last. *)
LEMMA SelectOfAppend ==
    ASSUME NEW T, NEW s \in Seq(T), NEW e \in T, NEW S
    PROVE  Select(Append(s, e), S) = IF e \in S THEN Append(Select(s, S), e) ELSE Select(s, S)
  <1> DEFINE N == Len(s)
             t == Append(s, e)
  <1>1. N \in Nat /\ t \in Seq(T) /\ Len(t) = N + 1 /\ t[N + 1] = e
        /\ \A n \in 1..N : t[n] = s[n]
    BY LenProperties, AppendProperties
  <1>2. PICK f : IsSelection(f, s, S, T) /\ Select(s, S) = f[N]
    BY SelectIsLastChoice
  <1>3. PICK g : IsSelection(g, t, S, T) /\ Select(t, S) = g[N + 1]
    <2> HIDE DEF t
    <2> QED
      BY <1>1, SelectIsLastChoice
  <1>4. /\ f[0] = << >>
        /\ \A n \in 1..N : f[n] = IF s[n] \in S THEN Append(f[n - 1], s[n]) ELSE f[n - 1]
    BY <1>2 DEF IsSelection
  <1>5. /\ g[0] = << >>
        /\ \A n \in 1..N + 1 : g[n] = IF t[n] \in S THEN Append(g[n - 1], t[n]) ELSE g[n - 1]
    <2> HIDE DEF t
    <2> QED
      BY <1>1, <1>3 DEF IsSelection
  <1> HIDE DEF N, t
  <1>6. GoesOnAs(g, f, N)
    <2>1. \A n \in 1..N : n \in 1..N + 1
      BY <1>1
    <2> QED
      BY <1>1, <1>4, <1>5, <2>1 DEF GoesOnAs
  <1>7. f[N] = g[N]
    <2>1. N \in Nat /\ f[0] = g[0]
      BY <1>1, <1>4, <1>5
    <2>2. \A n \in 0..N : f[n] = g[n]
      BY <1>6, <2>1, RecursionIsUnique
    <2> QED
      BY <1>1, <2>2
  <1>8. N + 1 \in 1..N + 1 /\ (N + 1) - 1 = N
    BY <1>1
  <1>9. Select(t, S) = IF e \in S THEN Append(Select(s, S), e) ELSE Select(s, S)
    BY <1>1, <1>2, <1>3, <1>5, <1>7, <1>8
  <1> QED
    BY <1>9 DEF t

--------------------------------------------------------------------------------
(* What is selected, its bytes and its order. *)

(* The elements of a list, *)
LEMMA ElementsType ==
    ASSUME NEW T, NEW s \in Seq(T)
    PROVE  Elements(s) \subseteq T
  BY LenProperties, ElementOfSeq DEF Elements

(* of none, *)
LEMMA ElementsOfEmpty == Elements(<< >>) = {}
  BY EmptySeq DEF Elements

(* and of a list with one more at its end, *)
LEMMA ElementsOfAppend ==
    ASSUME NEW T, NEW s \in Seq(T), NEW e \in T
    PROVE  Elements(Append(s, e)) = Elements(s) \cup {e}
  <1> DEFINE t == Append(s, e)
  <1>1. /\ Len(s) \in Nat /\ DOMAIN s = 1..Len(s) /\ DOMAIN t = 1..Len(s) + 1
        /\ t[Len(s) + 1] = e /\ \A n \in 1..Len(s) : t[n] = s[n]
    BY LenProperties, AppendProperties
  <1>2. Elements(t) \subseteq Elements(s) \cup {e}
    BY <1>1 DEF Elements
  <1>3. Elements(s) \cup {e} \subseteq Elements(t)
    <2>1. \A n \in 1..Len(s) : n \in 1..Len(s) + 1
      BY <1>1
    <2>2. Len(s) + 1 \in 1..Len(s) + 1
      BY <1>1
    <2> HIDE DEF t
    <2> QED
      BY <1>1, <2>1, <2>2 DEF Elements
  <1> QED
    BY <1>2, <1>3

(* or at its front. *)
LEMMA ElementsOfCons ==
    ASSUME NEW T, NEW s \in Seq(T), NEW e \in T
    PROVE  Elements(<< e >> \o s) = {e} \cup Elements(s)
  <1> DEFINE t == << e >> \o s
  <1>1. << e >> \in Seq(T) /\ Len(<< e >>) = 1 /\ << e >>[1] = e /\ Len(s) \in Nat
    BY LenProperties
  <1>2. /\ t \in Seq(T) /\ Len(t) = Len(s) + 1
        /\ \A n \in 1..Len(s) + 1 : t[n] = IF n = 1 THEN e ELSE s[n - 1]
    BY <1>1, ConcatProperties
  <1>3. DOMAIN s = 1..Len(s) /\ DOMAIN t = 1..Len(s) + 1
    BY <1>2, LenProperties
  <1> HIDE DEF t
  <1>4. Elements(t) \subseteq {e} \cup Elements(s)
    <2>1. \A n \in 1..Len(s) + 1 : n = 1 \/ n - 1 \in 1..Len(s)
      BY <1>1
    <2> QED
      BY <1>2, <1>3, <2>1 DEF Elements
  <1>5. t[1] = e /\ 1 \in DOMAIN t
    BY <1>1, <1>2, <1>3
  <1>6. \A n \in 1..Len(s) : n + 1 \in DOMAIN t /\ t[n + 1] = s[n]
    BY <1>1, <1>2, <1>3
  <1>7. {e} \cup Elements(s) \subseteq Elements(t)
    BY <1>3, <1>5, <1>6 DEF Elements
  <1> QED
    BY <1>4, <1>7 DEF t

(* Select has what is in the list and in the set. *)
LEMMA SelectElements ==
    ASSUME NEW T, NEW s \in Seq(T), NEW S
    PROVE  Elements(Select(s, S)) = Elements(s) \cap S
  <1> DEFINE Has == {u \in Seq(T) : Elements(Select(u, S)) = Elements(u) \cap S}
  <1>1. << >> \in Has
    BY EmptySeq, SelectOfEmpty DEF Elements
  <1>2. ASSUME NEW u \in Seq(T), NEW e \in T, u \in Has PROVE Append(u, e) \in Has
    <2>1. Append(u, e) \in Seq(T) /\ Elements(Append(u, e)) = Elements(u) \cup {e}
      BY AppendProperties, ElementsOfAppend
    <2>2. Select(u, S) \in Seq(T)
      BY SelectType
    <2>3. Elements(Append(Select(u, S), e)) = Elements(Select(u, S)) \cup {e}
      BY <2>2, ElementsOfAppend
    <2>4. Select(Append(u, e), S) = IF e \in S THEN Append(Select(u, S), e) ELSE Select(u, S)
      BY SelectOfAppend
    <2> QED
      BY <1>2, <2>1, <2>3, <2>4
  <1>3. Seq(T) \subseteq Has
    <2> HIDE DEF Has
    <2> QED
      BY <1>1, <1>2, SequenceInduction
  <1> QED
    BY <1>3


(* What a set and the rest select from a list has the bytes of the list. *)
LEMMA SelectSplitsSize ==
    ASSUME NEW s \in Seq(Item), NEW gone
    PROVE  TotalSize(Without(s, gone)) + TotalSize(Select(s, gone)) = TotalSize(s)
  <1> DEFINE Splits(u, S) == TotalSize(Select(u, S \ gone)) + TotalSize(Select(u, gone)) = TotalSize(u)
             Split == {u \in Seq(Item) : \A S : Elements(u) \subseteq S => Splits(u, S)}
  <1>1. << >> \in Split
    <2>1. \A S : Splits(<< >>, S)
      BY SelectOfEmpty, TotalSizeOfEmpty
    <2> QED
      BY <2>1, EmptySeq
  <1>2. ASSUME NEW u \in Seq(Item), NEW e \in Item, u \in Split PROVE Append(u, e) \in Split
    <2> SUFFICES ASSUME NEW S, Elements(Append(u, e)) \subseteq S
                 PROVE  Splits(Append(u, e), S)
      BY AppendProperties
    <2>1. Elements(u) \subseteq S /\ e \in S
      BY ElementsOfAppend
    <2>2. Splits(u, S)
      BY <1>2, <2>1
    <2> DEFINE kept == Select(u, S \ gone)
               taken == Select(u, gone)
    <2>3. kept \in Seq(Item) /\ taken \in Seq(Item)
      BY SelectType
    <2>4. /\ TotalSize(kept) \in Nat /\ TotalSize(taken) \in Nat /\ TotalSize(u) \in Nat
          /\ entrySize(e) \in Nat
      <3> HIDE DEF kept, taken
      <3> QED
        BY <2>3, TotalSizeType, ItemSize
    <2>5. /\ TotalSize(Append(kept, e)) = TotalSize(kept) + entrySize(e)
          /\ TotalSize(Append(taken, e)) = TotalSize(taken) + entrySize(e)
          /\ TotalSize(Append(u, e)) = TotalSize(u) + entrySize(e)
      <3> HIDE DEF kept, taken
      <3> QED
        BY <2>3, TotalSizeOfAppend
    <2>6. /\ Select(Append(u, e), S \ gone) = IF e \in gone THEN kept ELSE Append(kept, e)
          /\ Select(Append(u, e), gone) = IF e \in gone THEN Append(taken, e) ELSE taken
      BY <2>1, SelectOfAppend
    <2>7. TotalSize(kept) + TotalSize(taken) = TotalSize(u)
      BY <2>2
    <2> HIDE DEF kept, taken
    <2>8. CASE e \in gone
      BY <2>4, <2>5, <2>6, <2>7, <2>8
    <2>9. CASE e \notin gone
      <3>1. /\ Select(Append(u, e), S \ gone) = Append(kept, e)
            /\ Select(Append(u, e), gone) = taken
        BY <2>6, <2>9
      <3>2. TotalSize(Append(kept, e)) + TotalSize(taken) = TotalSize(Append(u, e))
        BY <2>4, <2>5, <2>7
      <3> QED
        BY <3>1, <3>2
    <2> QED
      BY <2>8, <2>9
  <1>3. Seq(Item) \subseteq Split
    <2> HIDE DEF Split
    <2> QED
      BY <1>1, <1>2, SequenceInduction
  <1>4. Splits(s, Elements(s))
    BY <1>3
  <1> QED
    BY <1>4 DEF Without

(* In no uses is anything used. *)
LEMMA UsedLaterOfEmpty == \A x, y : ~UsedLater(x, y, << >>)
  BY EmptySeq DEF UsedLater

(* An element that is appended comes after every other. *)
LEMMA UsedLaterOfAppend ==
    ASSUME NEW T, NEW s \in Seq(T), NEW e \in T, NEW x, NEW y
    PROVE  UsedLater(x, y, Append(s, e)) <=> UsedLater(x, y, s) \/ (x \in Elements(s) /\ y = e)
  <1> DEFINE t == Append(s, e)
             N == Len(s)
  <1>1. /\ N \in Nat /\ DOMAIN s = 1..N /\ DOMAIN t = 1..N + 1
        /\ t[N + 1] = e /\ \A n \in 1..N : t[n] = s[n]
    BY LenProperties, AppendProperties
  <1> HIDE DEF t, N
  <1>2. ASSUME UsedLater(x, y, t) PROVE UsedLater(x, y, s) \/ (x \in Elements(s) /\ y = e)
    <2>1. PICK i \in 1..N + 1, j \in 1..N + 1 : i < j /\ t[i] = x /\ t[j] = y
      BY <1>1, <1>2 DEF UsedLater
    <2>2. i \in 1..N /\ (j \in 1..N \/ j = N + 1)
      BY <1>1, <2>1
    <2> QED
      BY <1>1, <2>1, <2>2 DEF UsedLater, Elements
  <1>3. ASSUME UsedLater(x, y, s) PROVE UsedLater(x, y, t)
    <2>1. PICK i \in 1..N, j \in 1..N : i < j /\ s[i] = x /\ s[j] = y
      BY <1>1, <1>3 DEF UsedLater
    <2>2. i \in 1..N + 1 /\ j \in 1..N + 1
      BY <1>1
    <2> QED
      BY <1>1, <2>1, <2>2 DEF UsedLater
  <1>4. ASSUME x \in Elements(s), y = e PROVE UsedLater(x, y, t)
    <2>1. PICK i \in 1..N : s[i] = x
      BY <1>1, <1>4 DEF Elements
    <2>2. i \in 1..N + 1 /\ N + 1 \in 1..N + 1 /\ i < N + 1
      BY <1>1
    <2> QED
      BY <1>1, <1>4, <2>1, <2>2 DEF UsedLater
  <1> QED
    BY <1>2, <1>3, <1>4 DEF t

(* An element that is put in front comes before every other. *)
LEMMA UsedLaterOfCons ==
    ASSUME NEW T, NEW s \in Seq(T), NEW e \in T, NEW x, NEW y
    PROVE  UsedLater(x, y, << e >> \o s) <=> UsedLater(x, y, s) \/ (x = e /\ y \in Elements(s))
  <1> DEFINE t == << e >> \o s
             N == Len(s)
  <1>1. << e >> \in Seq(T) /\ Len(<< e >>) = 1 /\ << e >>[1] = e /\ N \in Nat
    BY LenProperties
  <1>2. /\ t \in Seq(T) /\ Len(t) = N + 1
        /\ \A n \in 1..N + 1 : t[n] = IF n = 1 THEN e ELSE s[n - 1]
    BY <1>1, ConcatProperties
  <1>3. DOMAIN s = 1..N /\ DOMAIN t = 1..N + 1
    BY <1>2, LenProperties
  <1> HIDE DEF t, N
  <1>4. ASSUME UsedLater(x, y, t) PROVE UsedLater(x, y, s) \/ (x = e /\ y \in Elements(s))
    <2>1. PICK i \in 1..N + 1, j \in 1..N + 1 : i < j /\ t[i] = x /\ t[j] = y
      BY <1>3, <1>4 DEF UsedLater
    <2>2. j - 1 \in 1..N /\ j # 1 /\ (i = 1 \/ (i # 1 /\ i - 1 \in 1..N /\ i - 1 < j - 1))
      BY <1>1, <2>1
    <2> QED
      BY <1>2, <1>3, <2>1, <2>2 DEF UsedLater, Elements
  <1>5. ASSUME UsedLater(x, y, s) PROVE UsedLater(x, y, t)
    <2>1. PICK i \in 1..N, j \in 1..N : i < j /\ s[i] = x /\ s[j] = y
      BY <1>3, <1>5 DEF UsedLater
    <2>2. /\ i + 1 \in 1..N + 1 /\ j + 1 \in 1..N + 1 /\ i + 1 < j + 1
          /\ t[i + 1] = x /\ t[j + 1] = y
      BY <1>1, <1>2, <2>1
    <2> QED
      BY <1>3, <2>2 DEF UsedLater
  <1>6. ASSUME x = e, y \in Elements(s) PROVE UsedLater(x, y, t)
    <2>1. PICK j \in 1..N : s[j] = y
      BY <1>3, <1>6 DEF Elements
    <2>2. 1 \in 1..N + 1 /\ j + 1 \in 1..N + 1 /\ 1 < j + 1 /\ t[1] = x /\ t[j + 1] = y
      BY <1>1, <1>2, <1>6, <2>1
    <2> QED
      BY <1>3, <2>2 DEF UsedLater
  <1> QED
    BY <1>4, <1>5, <1>6 DEF t

(* Select keeps the order of the list. *)
LEMMA SelectKeepsOrder ==
    ASSUME NEW T, NEW s \in Seq(T), NEW S, NEW x, NEW y
    PROVE  UsedLater(x, y, Select(s, S)) <=> UsedLater(x, y, s) /\ x \in S /\ y \in S
  <1> DEFINE Keeps(u) == UsedLater(x, y, Select(u, S)) <=> UsedLater(x, y, u) /\ x \in S /\ y \in S
             Kept == {u \in Seq(T) : Keeps(u)}
  <1>1. << >> \in Kept
    BY EmptySeq, SelectOfEmpty, UsedLaterOfEmpty
  <1>2. ASSUME NEW u \in Seq(T), NEW e \in T, u \in Kept PROVE Append(u, e) \in Kept
    <2>1. Append(u, e) \in Seq(T) /\ Select(u, S) \in Seq(T)
      BY AppendProperties, SelectType
    <2>2. UsedLater(x, y, Append(u, e)) <=> UsedLater(x, y, u) \/ (x \in Elements(u) /\ y = e)
      BY UsedLaterOfAppend
    <2>3. UsedLater(x, y, Append(Select(u, S), e)) <=>
             UsedLater(x, y, Select(u, S)) \/ (x \in Elements(u) /\ x \in S /\ y = e)
      BY <2>1, UsedLaterOfAppend, SelectElements
    <2>4. Select(Append(u, e), S) = IF e \in S THEN Append(Select(u, S), e) ELSE Select(u, S)
      BY SelectOfAppend
    <2>5. Keeps(u)
      BY <1>2
    <2>6. Keeps(Append(u, e))
      BY <2>2, <2>3, <2>4, <2>5
    <2> QED
      BY <2>1, <2>6
  <1>3. Seq(T) \subseteq Kept
    <2> HIDE DEF Kept
    <2> QED
      BY <1>1, <1>2, SequenceInduction
  <1> QED
    BY <1>3

(* ... and its length. *)
LEMMA SelectSplitsLength ==
    ASSUME NEW T, NEW s \in Seq(T), NEW gone
    PROVE  Len(Without(s, gone)) + Len(Select(s, gone)) = Len(s)
  <1> DEFINE Splits(u, S) == Len(Select(u, S \ gone)) + Len(Select(u, gone)) = Len(u)
             Split == {u \in Seq(T) : \A S : Elements(u) \subseteq S => Splits(u, S)}
  <1>1. << >> \in Split
    <2>1. \A S : Splits(<< >>, S)
      BY SelectOfEmpty, EmptySeq
    <2> QED
      BY <2>1, EmptySeq
  <1>2. ASSUME NEW u \in Seq(T), NEW e \in T, u \in Split PROVE Append(u, e) \in Split
    <2> SUFFICES ASSUME NEW S, Elements(Append(u, e)) \subseteq S
                 PROVE  Splits(Append(u, e), S)
      BY AppendProperties
    <2>1. Elements(u) \subseteq S /\ e \in S
      BY ElementsOfAppend
    <2>2. Splits(u, S)
      BY <1>2, <2>1
    <2> DEFINE kept == Select(u, S \ gone)
               taken == Select(u, gone)
    <2>3. kept \in Seq(T) /\ taken \in Seq(T)
      BY SelectType
    <2>4. /\ Len(kept) \in Nat /\ Len(taken) \in Nat /\ Len(u) \in Nat
          /\ Len(Append(kept, e)) = Len(kept) + 1 /\ Len(Append(taken, e)) = Len(taken) + 1
          /\ Len(Append(u, e)) = Len(u) + 1
      <3> HIDE DEF kept, taken
      <3> QED
        BY <2>3, AppendProperties, LenProperties
    <2>5. /\ Select(Append(u, e), S \ gone) = IF e \in gone THEN kept ELSE Append(kept, e)
          /\ Select(Append(u, e), gone) = IF e \in gone THEN Append(taken, e) ELSE taken
      BY <2>1, SelectOfAppend
    <2>6. Len(kept) + Len(taken) = Len(u)
      BY <2>2
    <2> HIDE DEF kept, taken
    <2>7. CASE e \in gone
      <3>1. /\ Select(Append(u, e), S \ gone) = kept
            /\ Select(Append(u, e), gone) = Append(taken, e)
        BY <2>5, <2>7
      <3>2. Len(kept) + Len(Append(taken, e)) = Len(Append(u, e))
        BY <2>4, <2>6
      <3> QED
        BY <3>1, <3>2
    <2>8. CASE e \notin gone
      BY <2>4, <2>5, <2>6, <2>8
    <2> QED
      BY <2>7, <2>8
  <1>3. Seq(T) \subseteq Split
    <2> HIDE DEF Split
    <2> QED
      BY <1>1, <1>2, SequenceInduction
  <1>4. Splits(s, Elements(s))
    BY <1>3
  <1> QED
    BY <1>4 DEF Without

(* What is in a list once is selected once. *)
LEMMA SelectOne ==
    ASSUME NEW T, NEW s \in Seq(T), NEW x \in Elements(s), ~UsedLater(x, x, s)
    PROVE  Select(s, {x}) = << x >>
  <1> DEFINE Found(u) == /\ x \notin Elements(u) => Select(u, {x}) = << >>
                         /\ x \in Elements(u) /\ ~UsedLater(x, x, u) => Select(u, {x}) = << x >>
             Finds == {u \in Seq(T) : Found(u)}
  <1>1. << >> \in Finds
    BY EmptySeq, SelectOfEmpty, ElementsOfEmpty
  <1>2. ASSUME NEW u \in Seq(T), NEW e \in T, u \in Finds PROVE Append(u, e) \in Finds
    <2>1. Append(u, e) \in Seq(T) /\ Elements(Append(u, e)) = Elements(u) \cup {e}
      BY AppendProperties, ElementsOfAppend
    <2>2. UsedLater(x, x, Append(u, e)) <=> UsedLater(x, x, u) \/ (x \in Elements(u) /\ x = e)
      BY UsedLaterOfAppend
    <2>3. Select(Append(u, e), {x}) = IF e \in {x} THEN Append(Select(u, {x}), e) ELSE Select(u, {x})
      BY SelectOfAppend
    <2>4. Found(u)
      BY <1>2
    <2>5. Append(<< >>, e) = << e >>
      OBVIOUS
    <2>6. CASE e = x
      BY <2>1, <2>2, <2>3, <2>4, <2>5, <2>6
    <2>7. CASE e # x
      BY <2>1, <2>2, <2>3, <2>4, <2>7
    <2> QED
      BY <2>1, <2>6, <2>7
  <1>3. Seq(T) \subseteq Finds
    <2> HIDE DEF Finds
    <2> QED
      BY <1>1, <1>2, SequenceInduction
  <1> QED
    BY <1>3

(* Only what is in a list comes before or after something in it. *)
LEMMA UsedLaterElements ==
    ASSUME NEW s, NEW x, NEW y, UsedLater(x, y, s)
    PROVE  x \in Elements(s) /\ y \in Elements(s)
  BY DEF UsedLater, Elements

(* The front of a list and what is behind it. *)
LEMMA FrontOfList ==
    ASSUME NEW s \in Seq(Item), NEW n \in 0..Len(s)
    PROVE  /\ SubSeq(s, 1, n) \in Seq(Item) /\ Len(SubSeq(s, 1, n)) = n
           /\ SubSeq(s, n + 1, Len(s)) \in Seq(Item)
           /\ TotalSize(s) = TotalSize(SubSeq(s, 1, n)) + TotalSize(SubSeq(s, n + 1, Len(s)))
           /\ Elements(SubSeq(s, 1, n)) = {s[i] : i \in 1..n}
           /\ \A x, y : UsedLater(x, y, SubSeq(s, 1, n)) => UsedLater(x, y, s)
  <1> DEFINE N == Len(s)
             front == SubSeq(s, 1, n)
             back == SubSeq(s, n + 1, N)
  <1>1. N \in Nat /\ DOMAIN s = 1..N /\ \A i \in 1..N : s[i] \in Item
    BY LenProperties, ElementOfSeq
  <1>2. n \in Int /\ N \in Int /\ 1 \in Int /\ n + 1 \in Int
    BY <1>1
  <1>3. (\A i \in 1..n : s[i] \in Item) /\ (\A i \in n + 1 .. N : s[i] \in Item)
    BY <1>1
  <1>4. front \in Seq(Item) /\ Len(front) = n /\ \A i \in 1..n : front[i] = s[i]
    BY <1>1, <1>2, <1>3, SubSeqProperties
  <1>5. back \in Seq(Item)
    BY <1>2, <1>3, SubSeqProperties
  <1>6. front \o back = s
    <2>1. 1 \in 1..N + 1 /\ n \in 1 - 1 .. N /\ N \in n..N
      BY <1>1
    <2>2. front \o back = SubSeq(s, 1, N)
      BY <2>1, ConcatAdjacentSubSeq
    <2> QED
      BY <2>2, SubSeqFull
  <1>7. TotalSize(s) = TotalSize(front) + TotalSize(back)
    <2> HIDE DEF front, back
    <2>1. TotalSize(front \o back) = TotalSize(front) + TotalSize(back)
      BY <1>4, <1>5, TotalSizeOfConcat
    <2> QED
      BY <1>6, <2>1
  <1>8. DOMAIN front = 1..n
    BY <1>4, LenProperties
  <1>9. Elements(front) = {s[i] : i \in 1..n}
    <2> HIDE DEF front
    <2> QED
      BY <1>4, <1>8 DEF Elements
  <1>10. \A x, y : UsedLater(x, y, front) => UsedLater(x, y, s)
    <2>1. \A i \in 1..n : i \in 1..N
      BY <1>1
    <2> HIDE DEF front
    <2> QED
      BY <1>1, <1>4, <1>8, <2>1 DEF UsedLater
  <1> QED
    BY <1>4, <1>5, <1>7, <1>9, <1>10

--------------------------------------------------------------------------------
(* MemoryCache: the inductive invariant. *)

Promised(e) == e.omitted = ~EntryFits(e.metadata, e.given)

(* What is about to be inserted fits, its body left out if it has to be. *)
SettingInv == \A s \in Setter : \A e \in setting[s] : Promised(e) /\ entrySize(e) <= MaxBytes

(* A key has one last use. *)
OneLastUse(uses) == \A k \in CacheKey : ~UsedLater(k, k, uses)

(* The list is in the order of the last uses. *)
InOrderOfUse(list, uses) ==
    /\ \A e \in Elements(list) : e.key \in Elements(uses)
    /\ \A d, e \in Elements(list) : UsedLater(d, e, list) => UsedLater(d.key, e.key, uses)

OrderInv == OneLastUse(recency) /\ InOrderOfUse(lru, recency)

CacheInv == /\ CacheTypeOK /\ BytesAreExact /\ BodyIsKeptAsPromised
            /\ SettingInv /\ OrderInv

(* With one last use for each key, a list in the order of the uses has one *)
(* item for each key.                                                      *)
LEMMA KeysAreDistinct ==
    ASSUME NEW list \in Seq(Item), NEW uses, OneLastUse(uses), InOrderOfUse(list, uses)
    PROVE  /\ \A i, j \in DOMAIN list : list[i].key = list[j].key => i = j
           /\ \A e \in Elements(list) : ~UsedLater(e, e, list)
  <1>1. /\ DOMAIN list \subseteq Nat
        /\ \A i \in DOMAIN list : list[i] \in Elements(list) /\ list[i].key \in CacheKey
    <2>1. DOMAIN list = 1..Len(list) /\ \A i \in DOMAIN list : list[i] \in Item
      BY LenProperties, ElementOfSeq
    <2>2. \A e \in Item : e.key \in CacheKey
      BY ItemSize
    <2> QED
      BY <2>1, <2>2 DEF Elements
  <1>2. ASSUME NEW i \in DOMAIN list, NEW j \in DOMAIN list, i < j
        PROVE  list[i].key # list[j].key
    <2>1. UsedLater(list[i], list[j], list)
      BY <1>2 DEF UsedLater
    <2>2. UsedLater(list[i].key, list[j].key, uses)
      BY <1>1, <2>1 DEF InOrderOfUse
    <2> QED
      BY <1>1, <2>2 DEF OneLastUse
  <1>3. \A i, j \in DOMAIN list : i = j \/ i < j \/ j < i
    BY <1>1
  <1>4. \A e \in Elements(list) : ~UsedLater(e, e, list)
    BY <1>2 DEF UsedLater
  <1> QED
    BY <1>2, <1>3, <1>4

--------------------------------------------------------------------------------
(* What the operations do to the list and to the uses. *)

(* What is left of a list. *)
LEMMA WithoutFacts ==
    ASSUME NEW T, NEW s \in Seq(T), NEW gone
    PROVE  /\ Without(s, gone) \in Seq(T)
           /\ Elements(Without(s, gone)) = Elements(s) \ gone
           /\ \A x, y : UsedLater(x, y, Without(s, gone)) <=>
                         UsedLater(x, y, s) /\ x \notin gone /\ y \notin gone
  <1>1. /\ Without(s, gone) \in Seq(T)
        /\ Elements(Without(s, gone)) = Elements(s) \ gone
    BY SelectType, SelectElements DEF Without
  <1>2. ASSUME NEW x, NEW y
        PROVE  UsedLater(x, y, Without(s, gone)) <=>
               UsedLater(x, y, s) /\ x \notin gone /\ y \notin gone
    BY SelectKeepsOrder, UsedLaterElements DEF Without
  <1> QED
    BY <1>1, <1>2

(* What leaves takes its bytes along, and the rest stays as it was. *)
LEMMA RemoveKeepsList ==
    ASSUME CacheInv, NEW gone, Remove(gone), UNCHANGED recency
    PROVE  /\ lru' \in Seq(Item) /\ Elements(lru') \subseteq Elements(lru)
           /\ BytesAreExact' /\ OrderInv'
  <1>1. lru \in Seq(Item) /\ lru' = Without(lru, gone)
    BY DEF CacheInv, CacheTypeOK, Remove
  <1>2. /\ lru' \in Seq(Item) /\ Elements(lru') \subseteq Elements(lru)
        /\ \A x, y : UsedLater(x, y, lru') => UsedLater(x, y, lru)
    BY <1>1, WithoutFacts
  <1>3. OrderInv'
    BY <1>2 DEF CacheInv, OrderInv, InOrderOfUse
  <1>4. BytesAreExact'
    <2> DEFINE taken == Select(lru, gone)
    <2>1. taken \in Seq(Item)
      BY <1>1, SelectType
    <2>2. /\ TotalSize(lru) \in Nat /\ TotalSize(lru') \in Nat /\ TotalSize(taken) \in Nat
          /\ Len(lru) \in Nat /\ Len(lru') \in Nat /\ Len(taken) \in Nat
      BY <1>1, <1>2, <2>1, TotalSizeType, LenProperties
    <2>3. TotalSize(lru') + TotalSize(taken) = TotalSize(lru)
      BY <1>1, SelectSplitsSize
    <2>4. Len(lru') + Len(taken) = Len(lru)
      BY <1>1, SelectSplitsLength
    <2>5. bytes = TotalSize(lru) /\ bytes <= MaxBytes /\ Len(lru) <= MaxItems
      BY DEF CacheInv, BytesAreExact
    <2>6. bytes' = bytes - TotalSize(taken)
      BY DEF Remove
    <2>7. MaxBytes \in Nat /\ MaxItems \in Nat
      BY SizesAssumption
    <2> HIDE DEF taken
    <2>8. bytes' = TotalSize(lru') /\ bytes' <= MaxBytes
      BY <2>2, <2>3, <2>5, <2>6, <2>7
    <2>9. Len(lru') <= MaxItems
      BY <2>2, <2>4, <2>5, <2>7
    <2> QED
      BY <2>8, <2>9 DEF BytesAreExact
  <1> QED
    BY <1>2, <1>3, <1>4

(* A use puts its key in front of the others. *)
LEMMA UseGoesToFront ==
    ASSUME CacheInv, NEW k \in CacheKey, Used(k)
    PROVE  /\ recency' \in Seq(CacheKey) /\ OneLastUse(recency')
           /\ Elements(recency') = {k} \cup Elements(recency)
           /\ \A x, y : UsedLater(x, y, recency) /\ x # k /\ y # k => UsedLater(x, y, recency')
           /\ \A y \in Elements(recency) : y # k => UsedLater(k, y, recency')
  <1> DEFINE rest == Without(recency, {k})
  <1>1. recency \in Seq(CacheKey) /\ recency' = << k >> \o rest
    BY DEF CacheInv, CacheTypeOK, Used
  <1>2. /\ rest \in Seq(CacheKey) /\ Elements(rest) = Elements(recency) \ {k}
        /\ \A x, y : UsedLater(x, y, rest) <=>
                      UsedLater(x, y, recency) /\ x \notin {k} /\ y \notin {k}
    BY <1>1, WithoutFacts
  <1> HIDE DEF rest
  <1>3. recency' \in Seq(CacheKey)
    <2>1. << k >> \in Seq(CacheKey)
      OBVIOUS
    <2> QED
      BY <1>1, <1>2, <2>1, ConcatProperties
  <1>4. Elements(recency') = {k} \cup Elements(recency)
    BY <1>1, <1>2, ElementsOfCons
  <1>5. \A x, y : UsedLater(x, y, recency') <=>
                  UsedLater(x, y, rest) \/ (x = k /\ y \in Elements(rest))
    BY <1>1, <1>2, UsedLaterOfCons
  <1>6. OneLastUse(recency')
    BY <1>2, <1>5 DEF CacheInv, OrderInv, OneLastUse
  <1> QED
    BY <1>2, <1>3, <1>4, <1>5, <1>6

(* An item that goes to the front, in place of every item with its key, *)
(* keeps the list in the order of the uses.                             *)
LEMMA ItemGoesToFront ==
    ASSUME CacheInv, NEW e \in Item, NEW gone, Used(e.key),
           \A d \in Elements(lru) : d.key = e.key => d \in gone
    PROVE  /\ << e >> \o Without(lru, gone) \in Seq(Item)
           /\ Elements(<< e >> \o Without(lru, gone)) = {e} \cup (Elements(lru) \ gone)
           /\ Len(<< e >> \o Without(lru, gone)) = 1 + Len(Without(lru, gone))
           /\ TotalSize(<< e >> \o Without(lru, gone))
                 = entrySize(e) + TotalSize(Without(lru, gone))
           /\ InOrderOfUse(<< e >> \o Without(lru, gone), recency')
  <1> DEFINE rest == Without(lru, gone)
             list == << e >> \o rest
  <1>1. lru \in Seq(Item) /\ e.key \in CacheKey
    BY ItemSize DEF CacheInv, CacheTypeOK
  <1>2. /\ rest \in Seq(Item) /\ Elements(rest) = Elements(lru) \ gone
        /\ \A x, y : UsedLater(x, y, rest) => UsedLater(x, y, lru)
    BY <1>1, WithoutFacts
  <1> HIDE DEF rest
  <1>3. << e >> \in Seq(Item) /\ Len(<< e >>) = 1
    OBVIOUS
  <1>4. list \in Seq(Item) /\ Len(list) = 1 + Len(rest)
    BY <1>2, <1>3, ConcatProperties
  <1>5. Elements(list) = {e} \cup (Elements(lru) \ gone)
    BY <1>2, ElementsOfCons
  <1>6. TotalSize(list) = entrySize(e) + TotalSize(rest)
    BY <1>2, <1>3, TotalSizeOfConcat, TotalSizeOfOne
  <1>7. /\ Elements(recency') = {e.key} \cup Elements(recency)
        /\ \A x, y : UsedLater(x, y, recency) /\ x # e.key /\ y # e.key => UsedLater(x, y, recency')
        /\ \A y \in Elements(recency) : y # e.key => UsedLater(e.key, y, recency')
    BY <1>1, UseGoesToFront
  <1>8. /\ \A d \in Elements(rest) : d.key # e.key /\ d.key \in Elements(recency)
        /\ \A d, f \in Elements(rest) : UsedLater(d, f, rest) => UsedLater(d.key, f.key, recency)
    BY <1>2 DEF CacheInv, OrderInv, InOrderOfUse
  <1>9. \A d \in Elements(list) : d.key \in Elements(recency')
    BY <1>2, <1>5, <1>7, <1>8
  <1>10. ASSUME NEW d, NEW f, UsedLater(d, f, list) PROVE UsedLater(d.key, f.key, recency')
    <2>1. UsedLater(d, f, rest) \/ (d = e /\ f \in Elements(rest))
      BY <1>2, <1>10, UsedLaterOfCons
    <2>2. CASE UsedLater(d, f, rest)
      <3>1. d \in Elements(rest) /\ f \in Elements(rest)
        BY <2>2, UsedLaterElements
      <3> QED
        BY <1>7, <1>8, <2>2, <3>1
    <2>3. CASE d = e /\ f \in Elements(rest)
      BY <1>7, <1>8, <2>3
    <2> QED
      BY <2>1, <2>2, <2>3
  <1> QED
    BY <1>4, <1>5, <1>6, <1>9, <1>10 DEF rest, InOrderOfUse

(* What is evicted is as little as the bounds ask for. *)
LEMMA EvictionFacts ==
    ASSUME NEW items \in Seq(Item), EvictFromBack(items, TotalSize(items))
    PROVE  \E n \in 0..Len(items) :
              /\ lru' = SubSeq(items, 1, n) /\ lru' \in Seq(Item) /\ Len(lru') = n
              /\ BytesAreExact'
              /\ \A m \in n + 1 .. Len(items) :
                    m > MaxItems \/ TotalSize(SubSeq(items, 1, m)) > MaxBytes
  <1> DEFINE N == Len(items)
             after(n) == TotalSize(items) - TotalSize(SubSeq(items, n + 1, N))
             within(n) == n <= MaxItems /\ after(n) <= MaxBytes
  <1>1. N \in Nat
    BY LenProperties
  <1>2. ASSUME NEW n \in 0..N PROVE after(n) = TotalSize(SubSeq(items, 1, n))
    <2> DEFINE front == SubSeq(items, 1, n)
               back == SubSeq(items, n + 1, N)
    <2>1. /\ front \in Seq(Item) /\ back \in Seq(Item)
          /\ TotalSize(items) = TotalSize(front) + TotalSize(back)
      BY <1>2, FrontOfList
    <2> HIDE DEF front, back
    <2>2. TotalSize(front) \in Nat /\ TotalSize(back) \in Nat
      BY <2>1, TotalSizeType
    <2>3. TotalSize(items) - TotalSize(back) = TotalSize(front)
      BY <2>1, <2>2
    <2> QED
      BY <2>3 DEF front, back
  <1>3. PICK n \in 0..N : /\ within(n) /\ \A m \in n + 1 .. N : ~within(m)
                          /\ lru' = SubSeq(items, 1, n) /\ bytes' = after(n)
    BY DEF EvictFromBack
  <1>4. lru' \in Seq(Item) /\ Len(lru') = n
    BY <1>3, FrontOfList
  <1>5. BytesAreExact'
    <2> HIDE DEF after
    <2> QED
      BY <1>2, <1>3, <1>4 DEF BytesAreExact
  <1>6. ASSUME NEW m \in n + 1 .. N
        PROVE  m > MaxItems \/ TotalSize(SubSeq(items, 1, m)) > MaxBytes
    <2>1. m \in 0..N /\ m \in Nat /\ MaxItems \in Nat /\ MaxBytes \in Nat
      BY <1>1, SizesAssumption
    <2>2. SubSeq(items, 1, m) \in Seq(Item)
      BY <2>1, FrontOfList
    <2>3. TotalSize(SubSeq(items, 1, m)) \in Nat
      BY <2>2, TotalSizeType
    <2>4. after(m) = TotalSize(SubSeq(items, 1, m)) /\ ~within(m)
      BY <1>2, <1>3, <2>1
    <2> QED
      BY <2>1, <2>3, <2>4
  <1> QED
    BY <1>3, <1>4, <1>5, <1>6

(* What an operation has to leave behind. *)
LEMMA ChangeKeepsInv ==
    ASSUME CacheInv, lru' \in Seq(Item), \A e \in Elements(lru') : Promised(e),
           BytesAreExact', OrderInv', recency' \in Seq(CacheKey), UNCHANGED now,
           DOMAIN setting' = Setter, \A s \in Setter : setting'[s] \subseteq setting[s]
    PROVE  CacheInv'
  <1>1. CacheTypeOK'
    <2>1. \A i, j \in DOMAIN lru' : lru'[i].key = lru'[j].key => i = j
      BY KeysAreDistinct DEF OrderInv
    <2>2. bytes' \in Nat
      BY TotalSizeType DEF BytesAreExact
    <2>3. /\ now' \in 0..MaxTime
          /\ \A s \in Setter : setting'[s] \subseteq Item /\ \A d, e \in setting'[s] : d = e
      BY DEF CacheInv, CacheTypeOK
    <2> QED
      BY <2>1, <2>2, <2>3 DEF CacheTypeOK
  <1>2. BodyIsKeptAsPromised'
    BY DEF BodyIsKeptAsPromised, Promised, EntryFits, Elements
  <1>3. SettingInv'
    BY DEF CacheInv, SettingInv, Promised, EntryFits
  <1> QED
    BY <1>1, <1>2, <1>3 DEF CacheInv

(* Every item in the cache was kept as promised. *)
LEMMA BodiesArePromised ==
    ASSUME CacheInv
    PROVE  \A e \in Elements(lru) : e \in Item /\ Promised(e)
  <1>1. Elements(lru) \subseteq Item
    BY ElementsType DEF CacheInv, CacheTypeOK
  <1>2. \A e \in Elements(lru) : Promised(e)
    BY DEF CacheInv, BodyIsKeptAsPromised, Promised, Elements
  <1> QED
    BY <1>1, <1>2

(* Items are removed. *)
LEMMA RemoveKeepsInv ==
    ASSUME CacheInv, NEW gone, Remove(gone), UNCHANGED << now, setting, recency >>
    PROVE  CacheInv'
  <1>1. /\ lru' \in Seq(Item) /\ Elements(lru') \subseteq Elements(lru)
        /\ BytesAreExact' /\ OrderInv'
    BY RemoveKeepsList
  <1>2. \A e \in Elements(lru') : Promised(e)
    BY <1>1, BodiesArePromised
  <1>3. recency' \in Seq(CacheKey) /\ DOMAIN setting' = Setter
    BY DEF CacheInv, CacheTypeOK
  <1> QED
    BY <1>1, <1>2, <1>3, ChangeKeepsInv

(* An item that is hit goes to the front. *)
LEMMA HitKeepsInv ==
    ASSUME CacheInv, NEW e \in Elements(lru), Used(e.key),
           lru' = << e >> \o Without(lru, {e}), UNCHANGED << bytes, now, setting >>
    PROVE  CacheInv'
  <1>1. e \in Item /\ lru \in Seq(Item) /\ e.key \in CacheKey
    BY BodiesArePromised, ItemSize DEF CacheInv, CacheTypeOK
  <1>2. /\ \A d \in Elements(lru) : d.key = e.key => d \in {e}
        /\ ~UsedLater(e, e, lru)
    BY <1>1, KeysAreDistinct DEF CacheInv, OrderInv, Elements
  <1> DEFINE rest == Without(lru, {e})
  <1>3. /\ lru' \in Seq(Item) /\ Elements(lru') = {e} \cup (Elements(lru) \ {e})
        /\ Len(lru') = 1 + Len(rest) /\ TotalSize(lru') = entrySize(e) + TotalSize(rest)
        /\ InOrderOfUse(lru', recency')
    BY <1>1, <1>2, ItemGoesToFront
  <1>4. recency' \in Seq(CacheKey) /\ OneLastUse(recency')
    BY <1>1, UseGoesToFront
  <1>5. Select(lru, {e}) = << e >>
    BY <1>1, <1>2, SelectOne
  <1>6. BytesAreExact'
    <2>1. /\ TotalSize(rest) + TotalSize(<< e >>) = TotalSize(lru)
          /\ Len(rest) + Len(<< e >>) = Len(lru)
      BY <1>1, <1>5, SelectSplitsSize, SelectSplitsLength
    <2>2. TotalSize(<< e >>) = entrySize(e) /\ Len(<< e >>) = 1 /\ entrySize(e) \in Nat
      BY <1>1, TotalSizeOfOne, ItemSize
    <2>3. rest \in Seq(Item)
      BY <1>1, WithoutFacts
    <2>4. TotalSize(rest) \in Nat /\ Len(rest) \in Nat
      <3> HIDE DEF rest
      <3> QED
        BY <2>3, TotalSizeType, LenProperties
    <2> HIDE DEF rest
    <2>5. TotalSize(lru') = TotalSize(lru) /\ Len(lru') = Len(lru)
      <3>1. TotalSize(rest) + entrySize(e) = TotalSize(lru) /\ Len(rest) + 1 = Len(lru)
        BY <2>1, <2>2
      <3>2. entrySize(e) + TotalSize(rest) = TotalSize(rest) + entrySize(e)
            /\ 1 + Len(rest) = Len(rest) + 1
        BY <2>2, <2>4
      <3> QED
        BY <1>3, <3>1, <3>2
    <2> QED
      BY <2>5 DEF CacheInv, BytesAreExact
  <1>7. \A d \in Elements(lru') : Promised(d)
    BY <1>3, BodiesArePromised
  <1>8. DOMAIN setting' = Setter
    BY DEF CacheInv, CacheTypeOK
  <1> QED
    BY <1>3, <1>4, <1>6, <1>7, <1>8, ChangeKeepsInv DEF OrderInv

(* An entry is measured: it fits once its body is left out. *)
LEMMA MeasureKeepsInv ==
    ASSUME CacheInv, NEW s \in Setter, SetEntry(s)
    PROVE  CacheInv'
  <1>1. PICK k \in CacheKey, t \in Tag, m \in Metadata, b \in Body, ttl \in Ttl :
            Measure(s, [key |-> k, tag |-> t, metadata |-> m, body |-> b,
                        expires |-> now + ttl, omitted |-> FALSE, given |-> b])
    BY DEF SetEntry
  <1> DEFINE e == [key |-> k, tag |-> t, metadata |-> m, body |-> b,
                   expires |-> now + ttl, omitted |-> FALSE, given |-> b]
             kept == IF entrySize(e) > MaxBytes /\ e.body # 0
                     THEN [e EXCEPT !.body = 0, !.omitted = TRUE] ELSE e
  <1>2. /\ m \in Nat /\ b \in Nat /\ MaxBytes \in Nat /\ now + ttl \in Nat
    <2>1. Metadata \subseteq Nat /\ Body \subseteq Nat /\ Ttl \subseteq Nat /\ MaxBytes \in Nat
      BY SizesAssumption
    <2>2. now \in Nat
      BY SizesAssumption DEF CacheInv, CacheTypeOK
    <2>3. m \in Nat /\ b \in Nat /\ ttl \in Nat
      BY <2>1
    <2> QED
      BY <2>1, <2>2, <2>3
  <1>3. /\ entrySize(kept) <= MaxBytes /\ setting' = [setting EXCEPT ![s] = {kept}]
        /\ UNCHANGED << lru, bytes, now, recency >>
    BY <1>1 DEF Measure
  <1>4. kept \in Item
    <2>1. e \in Item
      BY <1>2 DEF Item
    <2>2. [e EXCEPT !.body = 0, !.omitted = TRUE] \in Item
      BY <1>2 DEF Item
    <2> HIDE DEF e
    <2> QED
      BY <2>1, <2>2
  <1>5. Promised(kept)
    <2>1. kept.metadata = m /\ kept.given = b /\ entrySize(e) = m + b
      BY DEF entrySize
    <2>2. CASE m + b > MaxBytes /\ b # 0
      <3>1. kept.omitted = TRUE
        BY <2>1, <2>2
      <3>2. ~EntryFits(m, b)
        BY <1>2, <2>2 DEF EntryFits
      <3> HIDE DEF kept
      <3> QED
        BY <2>1, <3>1, <3>2 DEF Promised
    <2>3. CASE ~(m + b > MaxBytes /\ b # 0)
      <3>1. kept = e
        BY <2>1, <2>3
      <3>2. kept.omitted = FALSE /\ m + b <= MaxBytes
        BY <1>2, <1>3, <2>1, <3>1
      <3>3. EntryFits(m, b)
        BY <1>2, <3>2 DEF EntryFits
      <3> HIDE DEF kept
      <3> QED
        BY <2>1, <3>2, <3>3 DEF Promised
    <2> QED
      BY <2>2, <2>3
  <1> HIDE DEF kept
  <1>6. /\ DOMAIN setting = Setter
        /\ \A r \in Setter : setting[r] \subseteq Item /\ \A c, d \in setting[r] : c = d
    BY DEF CacheInv, CacheTypeOK
  <1>7. DOMAIN setting' = Setter /\ \A r \in Setter : setting'[r] = IF r = s THEN {kept} ELSE setting[r]
    BY <1>3, <1>6
  <1>8. CacheTypeOK'
    <2>1. \A r \in Setter : setting'[r] \subseteq Item /\ \A c, d \in setting'[r] : c = d
      BY <1>4, <1>6, <1>7
    <2> QED
      BY <1>3, <1>7, <2>1 DEF CacheInv, CacheTypeOK
  <1>9. SettingInv'
    BY <1>3, <1>5, <1>7 DEF CacheInv, SettingInv, Promised, EntryFits
  <1>10. BytesAreExact' /\ BodyIsKeptAsPromised' /\ OrderInv'
    BY <1>3 DEF CacheInv, BytesAreExact, BodyIsKeptAsPromised, OrderInv
  <1> QED
    BY <1>8, <1>9, <1>10 DEF CacheInv

(* What an insertion keeps is the front of this list. *)
Inserted(e) == << e >> \o Without(lru, OfKey(e.key))

(* An insertion evicts from that list, whose bytes it has counted. *)
LEMMA InsertFacts ==
    ASSUME CacheInv, NEW s \in Setter, NEW e \in setting[s],
           EvictFromBack(<< e >> \o Without(lru, OfKey(e.key)),
                         bytes - TotalSize(Select(lru, OfKey(e.key))) + entrySize(e)),
           Used(e.key)
    PROVE  /\ e \in Item /\ Promised(e) /\ entrySize(e) <= MaxBytes
           /\ Inserted(e) \in Seq(Item)
           /\ Elements(Inserted(e)) = {e} \cup (Elements(lru) \ OfKey(e.key))
           /\ InOrderOfUse(Inserted(e), recency')
           /\ EvictFromBack(Inserted(e), TotalSize(Inserted(e)))
  <1>1. e \in Item /\ Promised(e) /\ entrySize(e) <= MaxBytes /\ lru \in Seq(Item)
    BY DEF CacheInv, CacheTypeOK, SettingInv
  <1>2. \A d \in Elements(lru) : d.key = e.key => d \in OfKey(e.key)
    BY DEF OfKey
  <1> DEFINE old == OfKey(e.key)
             rest == Without(lru, old)
             taken == Select(lru, old)
  <1> HIDE DEF old
  <1>3. /\ << e >> \o rest \in Seq(Item)
        /\ Elements(<< e >> \o rest) = {e} \cup (Elements(lru) \ old)
        /\ TotalSize(<< e >> \o rest) = entrySize(e) + TotalSize(rest)
        /\ InOrderOfUse(<< e >> \o rest, recency')
    BY <1>1, <1>2, ItemGoesToFront DEF old
  <1>4. rest \in Seq(Item) /\ taken \in Seq(Item)
    BY <1>1, WithoutFacts, SelectType
  <1>5. TotalSize(rest) + TotalSize(taken) = TotalSize(lru)
    BY <1>1, SelectSplitsSize
  <1>6. bytes = TotalSize(lru)
    BY DEF CacheInv, BytesAreExact
  <1>7. EvictFromBack(<< e >> \o rest, bytes - TotalSize(taken) + entrySize(e))
    BY DEF old
  <1> HIDE DEF rest, taken
  <1>8. TotalSize(rest) \in Nat /\ TotalSize(taken) \in Nat /\ entrySize(e) \in Nat
    BY <1>1, <1>4, TotalSizeType, ItemSize
  <1>9. bytes - TotalSize(taken) + entrySize(e) = TotalSize(<< e >> \o rest)
    BY <1>3, <1>5, <1>6, <1>8
  <1> QED
    BY <1>1, <1>3, <1>7, <1>9 DEF old, rest, Inserted

(* What an insertion leaves is within the bounds and in the order of use. *)
LEMMA InsertKeepsInv ==
    ASSUME CacheInv, NEW s \in Setter, Insert(s)
    PROVE  CacheInv'
  <1>1. PICK e \in setting[s] :
            /\ EvictFromBack(<< e >> \o Without(lru, OfKey(e.key)),
                             bytes - TotalSize(Select(lru, OfKey(e.key))) + entrySize(e))
            /\ setting' = [setting EXCEPT ![s] = {}]
            /\ Used(e.key)
            /\ UNCHANGED now
    BY DEF Insert
  <1>2. /\ e \in Item /\ Promised(e)
        /\ Inserted(e) \in Seq(Item)
        /\ Elements(Inserted(e)) = {e} \cup (Elements(lru) \ OfKey(e.key))
        /\ InOrderOfUse(Inserted(e), recency')
        /\ EvictFromBack(Inserted(e), TotalSize(Inserted(e)))
    BY <1>1, InsertFacts
  <1>3. PICK n \in 0..Len(Inserted(e)) :
            lru' = SubSeq(Inserted(e), 1, n) /\ lru' \in Seq(Item) /\ BytesAreExact'
    BY <1>2, EvictionFacts
  <1>4. /\ Elements(lru') \subseteq Elements(Inserted(e))
        /\ \A x, y : UsedLater(x, y, lru') => UsedLater(x, y, Inserted(e))
    <2>1. /\ Elements(lru') = {Inserted(e)[i] : i \in 1..n}
          /\ \A x, y : UsedLater(x, y, lru') => UsedLater(x, y, Inserted(e))
      BY <1>2, <1>3, FrontOfList
    <2>2. DOMAIN Inserted(e) = 1..Len(Inserted(e)) /\ Len(Inserted(e)) \in Nat
      BY <1>2, LenProperties
    <2>3. ASSUME NEW x \in Elements(lru') PROVE x \in Elements(Inserted(e))
      <3>1. PICK i \in 1..n : x = Inserted(e)[i]
        BY <2>1, <2>3
      <3>2. i \in DOMAIN Inserted(e)
        BY <2>2
      <3> QED
        BY <3>1, <3>2 DEF Elements
    <2> QED
      BY <2>1, <2>3
  <1>5. InOrderOfUse(lru', recency')
    BY <1>2, <1>4 DEF InOrderOfUse
  <1>6. recency' \in Seq(CacheKey) /\ OneLastUse(recency')
    BY <1>1, <1>2, ItemSize, UseGoesToFront
  <1>7. \A d \in Elements(lru') : Promised(d)
    BY <1>2, <1>4, BodiesArePromised
  <1>8. DOMAIN setting' = Setter /\ \A r \in Setter : setting'[r] \subseteq setting[r]
    BY <1>1 DEF CacheInv, CacheTypeOK
  <1> QED
    BY <1>1, <1>3, <1>5, <1>6, <1>7, <1>8, ChangeKeepsInv DEF OrderInv

--------------------------------------------------------------------------------
(* MemoryCache: the invariant holds at first and every step keeps it. *)

(* The invariant holds of an empty cache. *)
LEMMA CacheInitInv == CacheInit => CacheInv
  <1> SUFFICES ASSUME CacheInit PROVE CacheInv
    OBVIOUS
  <1>1. lru = << >> /\ bytes = 0 /\ now = 0 /\ recency = << >> /\ setting = [s \in Setter |-> {}]
    BY DEF CacheInit
  <1>2. MaxBytes \in Nat /\ MaxItems \in Nat /\ MaxTime \in Nat
    BY SizesAssumption
  <1>3. Len(<< >>) = 0 /\ DOMAIN << >> = {} /\ \A T : << >> \in Seq(T)
    BY EmptySeq
  <1>4. CacheTypeOK
    BY <1>1, <1>2, <1>3 DEF CacheTypeOK
  <1>5. BytesAreExact
    BY <1>1, <1>2, <1>3, TotalSizeOfEmpty DEF BytesAreExact
  <1>6. BodyIsKeptAsPromised /\ SettingInv
    BY <1>1, <1>3 DEF BodyIsKeptAsPromised, SettingInv
  <1>7. OrderInv
    BY <1>1, UsedLaterOfEmpty, ElementsOfEmpty DEF OrderInv, OneLastUse, InOrderOfUse
  <1> QED
    BY <1>4, <1>5, <1>6, <1>7 DEF CacheInv

(* Every step keeps it. *)
LEMMA CacheStepInv == CacheInv /\ [CacheNext]_cacheVars => CacheInv'
  <1> SUFFICES ASSUME CacheInv, [CacheNext]_cacheVars PROVE CacheInv'
    OBVIOUS
  <1>1. ASSUME NEW k \in CacheKey, Get(k) PROVE CacheInv'
    <2>1. PICK e \in OfKey(k) :
            \/ Remove({e}) /\ UNCHANGED << now, setting, recency >>
            \/ /\ lru' = << e >> \o Without(lru, {e}) /\ Used(k)
               /\ UNCHANGED << bytes, now, setting >>
      BY <1>1 DEF Get
    <2>2. e \in Elements(lru) /\ e.key = k
      BY <2>1 DEF OfKey
    <2> QED
      BY <2>1, <2>2, RemoveKeepsInv, HitKeepsInv
  <1>2. ASSUME NEW k \in CacheKey, Delete(k) PROVE CacheInv'
    BY <1>2, RemoveKeepsInv DEF Delete
  <1>3. ASSUME NEW s \in Setter, SetEntry(s) PROVE CacheInv'
    BY <1>3, MeasureKeepsInv
  <1>4. ASSUME NEW s \in Setter, Insert(s) PROVE CacheInv'
    BY <1>4, InsertKeepsInv
  <1>5. ASSUME NEW t \in Tag, CacheInvalidate(t) PROVE CacheInv'
    <2> DEFINE gone == {e \in Elements(lru) : e.tag = t}
    <2>1. Remove(gone) /\ UNCHANGED << now, setting, recency >>
      BY <1>5 DEF CacheInvalidate
    <2> HIDE DEF gone
    <2> QED
      BY <2>1, RemoveKeepsInv
  <1>6. ASSUME Close PROVE CacheInv'
    <2>1. lru' = << >> /\ bytes' = 0 /\ UNCHANGED << now, setting, recency >>
      BY <1>6 DEF Close
    <2>2. lru' \in Seq(Item) /\ Len(lru') = 0 /\ Elements(lru') = {}
      BY <2>1, EmptySeq, ElementsOfEmpty
    <2>3. MaxBytes \in Nat /\ MaxItems \in Nat
      BY SizesAssumption
    <2>4. BytesAreExact'
      BY <2>1, <2>2, <2>3, TotalSizeOfEmpty DEF BytesAreExact
    <2>5. OrderInv'
      BY <2>1, <2>2 DEF CacheInv, OrderInv, InOrderOfUse
    <2>6. recency' \in Seq(CacheKey) /\ DOMAIN setting' = Setter
      BY <2>1 DEF CacheInv, CacheTypeOK
    <2> QED
      BY <2>1, <2>2, <2>4, <2>5, <2>6, ChangeKeepsInv
  <1>7. ASSUME Tick PROVE CacheInv'
    <2>1. now < MaxTime /\ now' = now + 1 /\ UNCHANGED << lru, bytes, setting, recency >>
      BY <1>7 DEF Tick
    <2>2. now' \in 0..MaxTime
      BY <2>1, SizesAssumption DEF CacheInv, CacheTypeOK
    <2> QED
      BY <2>1, <2>2
         DEF CacheInv, CacheTypeOK, BytesAreExact, BodyIsKeptAsPromised, SettingInv, OrderInv
  <1>8. ASSUME UNCHANGED cacheVars PROVE CacheInv'
    BY <1>8 DEF cacheVars, CacheInv, CacheTypeOK, BytesAreExact, BodyIsKeptAsPromised,
                SettingInv, OrderInv
  <1> QED
    BY <1>1, <1>2, <1>3, <1>4, <1>5, <1>6, <1>7, <1>8 DEF CacheNext

(* The inductive invariant holds throughout every execution. *)
THEOREM CacheInvariance == CacheSpec => []CacheInv
  BY CacheInitInv, CacheStepInv, PTL DEF CacheSpec

(* A key has one item, and nothing is about to be inserted that is none. *)
THEOREM CacheTypeCorrectness == CacheSpec => []CacheTypeOK
  <1>1. CacheInv => CacheTypeOK
    BY DEF CacheInv
  <1> QED
    BY <1>1, CacheInvariance, PTL

(* The running count is the size of what is held, and within both bounds,  *)
(* however entries are replaced, expire, are invalidated and evicted.      *)
THEOREM BytesStayExact == CacheSpec => []BytesAreExact
  <1>1. CacheInv => BytesAreExact
    BY DEF CacheInv
  <1> QED
    BY <1>1, CacheInvariance, PTL

(* A body is kept exactly when EntryFits promised it to the handler of     *)
(* file downloads.                                                         *)
THEOREM PromisesAreKept == CacheSpec => []BodyIsKeptAsPromised
  <1>1. CacheInv => BodyIsKeptAsPromised
    BY DEF CacheInv
  <1> QED
    BY <1>1, CacheInvariance, PTL

--------------------------------------------------------------------------------
(* What an insertion evicts. *)

(* One more item at the end of a front takes its own bytes more. *)
LEMMA OneMore ==
    ASSUME NEW items \in Seq(Item), NEW n \in 0..Len(items), n + 1 <= Len(items)
    PROVE  TotalSize(SubSeq(items, 1, n + 1)) = TotalSize(SubSeq(items, 1, n)) + entrySize(items[n + 1])
  <1> DEFINE front == SubSeq(items, 1, n)
  <1>1. Len(items) \in Nat /\ 1 \in 1..Len(items) /\ n + 1 \in 1..Len(items)
    BY LenProperties
  <1>2. items[n + 1] \in Item /\ front \in Seq(Item)
    BY <1>1, ElementOfSeq, FrontOfList
  <1>3. SubSeq(items, 1, n + 1) = SubSeq(items, 1, (n + 1) - 1) \o << items[n + 1] >>
    BY <1>1, SubSeqRecursiveSecond
  <1>4. (n + 1) - 1 = n
    OBVIOUS
  <1>5. SubSeq(items, 1, n + 1) = Append(front, items[n + 1])
    BY <1>2, <1>3, <1>4, AppendIsConcat
  <1> HIDE DEF front
  <1>6. TotalSize(Append(front, items[n + 1])) = TotalSize(front) + entrySize(items[n + 1])
    BY <1>2, TotalSizeOfAppend
  <1> QED
    BY <1>5, <1>6 DEF front

(* The step that makes an insertion is Insert. *)
LEMMA InsertionIsInsert ==
    ASSUME CacheInv, CacheNext, NEW s \in Setter, setting[s] # {}, setting'[s] = {}
    PROVE  Insert(s)
  <1>1. DOMAIN setting = Setter
    BY DEF CacheInv, CacheTypeOK
  <1>2. ASSUME NEW r \in Setter, SetEntry(r) PROVE FALSE
    <2>1. PICK e : setting[r] = {} /\ setting' = [setting EXCEPT ![r] = {e}]
      BY <1>2 DEF SetEntry, Measure
    <2> QED
      BY <1>1, <2>1
  <1>3. ASSUME NEW r \in Setter, r # s, Insert(r) PROVE FALSE
    BY <1>1, <1>3 DEF Insert
  <1>4. ASSUME UNCHANGED setting PROVE FALSE
    BY <1>4
  <1> QED
    BY <1>2, <1>3, <1>4 DEF CacheNext, Get, Delete, CacheInvalidate, Close, Tick

(* Of the items of other keys that an insertion does not keep, the first in  *)
(* the list is one that did not fit, and all were used before what is kept. *)
LEMMA EvictedFacts ==
    ASSUME CacheInv, NEW s \in Setter, Insert(s), NEW new \in setting[s],
           NEW i \in DOMAIN lru, lru[i].key # new.key, lru[i] \notin Elements(lru')
    PROVE  /\ \A j \in DOMAIN lru' : UsedLater(lru'[j].key, lru[i].key, recency')
           /\ (\A j \in DOMAIN lru : lru[j].key # new.key /\ lru[j] \notin Elements(lru') => i <= j)
                 => \/ Len(lru') + 1 > MaxItems
                    \/ TotalSize(lru') + entrySize(lru[i]) > MaxBytes
  <1> DEFINE L == Inserted(new)
             N == Len(L)
             x == lru[i]
  <1>1. /\ EvictFromBack(<< new >> \o Without(lru, OfKey(new.key)),
                         bytes - TotalSize(Select(lru, OfKey(new.key))) + entrySize(new))
        /\ Used(new.key)
    <2>1. \A e \in setting[s] : e = new
      BY DEF CacheInv, CacheTypeOK
    <2> QED
      BY <2>1 DEF Insert
  <1>2. /\ new \in Item /\ entrySize(new) <= MaxBytes /\ L \in Seq(Item)
        /\ Elements(L) = {new} \cup (Elements(lru) \ OfKey(new.key))
        /\ InOrderOfUse(L, recency') /\ EvictFromBack(L, TotalSize(L))
    BY <1>1, InsertFacts
  <1>3. PICK n \in 0..N :
              /\ lru' = SubSeq(L, 1, n) /\ lru' \in Seq(Item) /\ Len(lru') = n
              /\ \A m \in n + 1 .. N : m > MaxItems \/ TotalSize(SubSeq(L, 1, m)) > MaxBytes
    <2> HIDE DEF L
    <2> QED
      BY <1>2, EvictionFacts
  <1>4. N \in Nat /\ DOMAIN L = 1..N /\ DOMAIN lru' = 1..n
    <2> HIDE DEF L
    <2> QED
      BY <1>2, <1>3, LenProperties
  <1>5. \A j \in 1..n : lru'[j] = L[j]
    <2> HIDE DEF L
    <2>1. \A j \in 1..n : L[j] \in Item
      BY <1>2, <1>4, ElementOfSeq
    <2>2. \A j \in 1..n - 1 + 1 : SubSeq(L, 1, n)[j] = L[1 + j - 1]
      BY <2>1, <1>4, SubSeqProperties
    <2> QED
      BY <1>3, <2>2
  <1>6. \A j \in 1..n : L[j] \in Elements(lru')
    BY <1>4, <1>5 DEF Elements
  <1>7. OneLastUse(recency') /\ \A e \in Elements(L) : e.key \in CacheKey
    <2>1. \A e \in Elements(L) : e \in Item
      BY <1>2, ElementsType
    <2> QED
      BY <1>1, <1>2, <2>1, ItemSize, UseGoesToFront
  <1>8. \A d, e \in Elements(L) : UsedLater(d, e, L) => d # e /\ UsedLater(d.key, e.key, recency')
    BY <1>2, <1>7 DEF InOrderOfUse, OneLastUse
  <1>9. x \in Elements(lru) /\ x \in Elements(L) /\ x # new
    BY <1>2 DEF OfKey, Elements
  <1>10. PICK p \in 1..N : L[p] = x /\ p > n
    <2>1. PICK p \in 1..N : L[p] = x
      BY <1>4, <1>9 DEF Elements
    <2>2. p \notin 1..n
      BY <1>6, <2>1
    <2> QED
      BY <1>4, <2>1, <2>2
  <1> HIDE DEF L
  <1>11. \A d, e : UsedLater(d, e, L) => d \in Elements(L) /\ e \in Elements(L)
    BY UsedLaterElements
  <1>12. \A a, b \in 1..N : a < b => UsedLater(L[a], L[b], L)
    BY <1>4 DEF UsedLater
  <1>13. ASSUME NEW j \in DOMAIN lru' PROVE UsedLater(lru'[j].key, x.key, recency')
    <2>1. j \in 1..n /\ j \in 1..N /\ j < p
      BY <1>4, <1>10
    <2>2. UsedLater(L[j], x, L)
      BY <1>10, <1>12, <2>1
    <2> QED
      BY <1>5, <1>8, <1>11, <2>1, <2>2
  <1>14. ASSUME \A j \in DOMAIN lru : lru[j].key # new.key /\ lru[j] \notin Elements(lru') => i <= j
         PROVE  Len(lru') + 1 > MaxItems \/ TotalSize(lru') + entrySize(x) > MaxBytes
    <2> DEFINE z == L[n + 1]
    <2>1. n \in Nat /\ n + 1 \in 1..N /\ n + 1 \in n + 1 .. N /\ n + 1 <= N
      BY <1>4, <1>10
    <2>2. TotalSize(SubSeq(L, 1, n + 1)) = TotalSize(lru') + entrySize(z)
      BY <1>2, <1>3, <2>1, OneMore
    <2>3. L[1] = new
      <3>1. /\ Without(lru, OfKey(new.key)) \in Seq(Item) /\ << new >> \in Seq(Item)
            /\ Len(<< new >>) = 1 /\ << new >>[1] = new
        BY <1>2, WithoutFacts DEF CacheInv, CacheTypeOK
      <3>2. Len(Without(lru, OfKey(new.key))) \in Nat
        BY <3>1, LenProperties
      <3>3. 1 \in 1..Len(<< new >>) + Len(Without(lru, OfKey(new.key)))
        BY <3>1, <3>2
      <3> QED
        BY <3>1, <3>3, ConcatProperties DEF L, Inserted
    <2>4. n # 0
      <3> SUFFICES ASSUME n = 0 PROVE FALSE
        OBVIOUS
      <3>1. lru' = << >>
        BY <1>3, EmptySeq
      <3>2. n + 1 = 1 /\ z = new /\ TotalSize(lru') = 0
        BY <2>3, <3>1, TotalSizeOfEmpty
      <3>3. n + 1 > MaxItems \/ TotalSize(SubSeq(L, 1, n + 1)) > MaxBytes
        BY <1>3, <2>1
      <3>4. 1 > MaxItems \/ 0 + entrySize(new) > MaxBytes
        <4> HIDE DEF z
        <4> QED
          BY <2>2, <3>2, <3>3
      <3>5. MaxItems \in Nat \ {0} /\ MaxBytes \in Nat /\ entrySize(new) \in Nat
        BY <1>2, ItemSize, SizesAssumption
      <3> QED
        BY <1>2, <3>4, <3>5
    <2>5. UsedLater(new, z, L)
      <3>1. 1 \in 1..N /\ 1 < n + 1
        BY <2>1, <2>4
      <3> QED
        BY <1>12, <2>1, <2>3, <3>1
    <2>6. z \in Elements(lru) /\ z.key # new.key
      <3>1. z \in Elements(L) /\ z # new
        BY <1>8, <1>11, <2>5
      <3> QED
        BY <1>2, <3>1 DEF OfKey
    <2>7. z \notin Elements(lru')
      <3> SUFFICES ASSUME z \in Elements(lru') PROVE FALSE
        OBVIOUS
      <3>1. PICK q \in 1..n : L[q] = z
        BY <1>4, <1>5 DEF Elements
      <3>2. q \in 1..N /\ q < n + 1
        BY <1>4
      <3>3. UsedLater(z, z, L)
        BY <1>12, <2>1, <3>1, <3>2
      <3> QED
        BY <1>8, <1>11, <3>3
    <2>8. PICK w \in DOMAIN lru : lru[w] = z
      BY <2>6 DEF Elements
    <2>9. i <= w
      BY <1>14, <2>6, <2>7, <2>8
    <2>10. x = z
      <3> SUFFICES ASSUME x # z PROVE FALSE
        OBVIOUS
      <3>1. n + 1 < p
        BY <1>4, <1>10
      <3>2. UsedLater(z, x, L)
        BY <1>10, <1>12, <2>1, <3>1
      <3>3. UsedLater(z, x, lru)
        <4> DEFINE rest == Without(lru, OfKey(new.key))
        <4>1. lru \in Seq(Item)
          BY DEF CacheInv, CacheTypeOK
        <4>2. rest \in Seq(Item) /\ \A d, e : UsedLater(d, e, rest) => UsedLater(d, e, lru)
          BY <4>1, WithoutFacts
        <4>3. UsedLater(z, x, << new >> \o rest)
          BY <3>2 DEF L, Inserted
        <4>4. z # new
          BY <2>6
        <4> HIDE DEF rest, z
        <4>5. UsedLater(z, x, rest)
          BY <1>2, <4>2, <4>3, <4>4, UsedLaterOfCons
        <4> QED
          BY <4>2, <4>5
      <3>4. PICK a \in DOMAIN lru, b \in DOMAIN lru : a < b /\ lru[a] = z /\ lru[b] = x
        BY <3>3 DEF UsedLater
      <3>5. a = w /\ b = i
        BY <2>8, <3>4 DEF CacheInv, CacheTypeOK
      <3>6. DOMAIN lru = 1..Len(lru)
        BY LenProperties DEF CacheInv, CacheTypeOK
      <3> QED
        BY <2>9, <3>4, <3>5, <3>6
    <2>11. n + 1 > MaxItems \/ TotalSize(SubSeq(L, 1, n + 1)) > MaxBytes
      BY <1>3, <2>1
    <2> QED
      BY <1>3, <2>2, <2>10, <2>11
  <1> QED
    BY <1>13, <1>14

(* An insertion evicts only what was used before everything it keeps, and  *)
(* no more than it must.                                                   *)
THEOREM LeastRecentlyUsedIsEvicted == CacheSpec => EvictsLeastRecentlyUsed
  <1> DEFINE Evicted(s) ==
        setting[s] # {} /\ setting'[s] = {} =>
        LET new == CHOOSE e \in setting[s] : TRUE
            evicted == {i \in DOMAIN lru : lru[i].key # new.key /\ lru[i] \notin Elements(lru')}
        IN  \A i \in evicted :
              /\ \A j \in DOMAIN lru' : UsedLater(lru'[j].key, lru[i].key, recency')
              /\ (\A j \in evicted : i <= j) =>
                    \/ Len(lru') + 1 > MaxItems
                    \/ TotalSize(lru') + entrySize(lru[i]) > MaxBytes
  <1>1. CacheInv /\ CacheNext => \A s \in Setter : Evicted(s)
    <2> SUFFICES ASSUME CacheInv, CacheNext, NEW s \in Setter, setting[s] # {}, setting'[s] = {}
                 PROVE  Evicted(s)
      BY Zenon
    <2>1. Insert(s)
      BY InsertionIsInsert
    <2> DEFINE new == CHOOSE e \in setting[s] : TRUE
    <2>2. new \in setting[s]
      OBVIOUS
    <2> HIDE DEF new
    <2> QED
      BY <2>1, <2>2, EvictedFacts DEF new
  <1>2. CacheInv /\ [CacheNext]_cacheVars => [\A s \in Setter : Evicted(s)]_cacheVars
    BY <1>1
  <1> QED
    BY <1>2, CacheInvariance, PTL DEF CacheSpec, EvictsLeastRecentlyUsed
================================================================================
