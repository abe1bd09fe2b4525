----------------------------- MODULE ResponseCache -----------------------------
(***************************************************************************)
(* Document lists answered through the process-local cache: the epoch that *)
(* every write advances, the key that names the epoch, the tag that        *)
(* invalidates, and the coalescing of concurrent loads of one key          *)
(* (singleflight).                                                         *)
(*                                                                         *)
(* The content of the database is its version, the number of writes        *)
(* committed so far; a list is known by its requester and by the version   *)
(* it was read from.  The other fields of the key (owner, filter, limit)   *)
(* separate lists exactly as the requester does.  How the cache bounds     *)
(* itself is the subject of module MemoryCache: here an entry may vanish   *)
(* at any time, and a body too large for the cache is left out of its      *)
(* entry.  A flight is named by the request that leads it.                 *)
(***************************************************************************)
EXTENDS Naturals

CONSTANTS
    Writer,             \* uploads and deletes
    Request,            \* GET and HEAD requests for a list
    User,
    LargeUser,          \* users whose list does not fit in the cache
    NoRequest

ASSUME CacheAssumption == LargeUser \subseteq User /\ NoRequest \notin Request

VARIABLES
    version,            \* writes committed by the database
    epoch,              \* handler.cacheEpoch
    cache,              \* the entries of the list tag
    writeStep,          \* progress of a write
    readStep,           \* progress of a request
    ask,                \* ask[r]: who asks, how, and the epoch in the key
    flight,             \* flight[r]: the leader of the load r waits for
    flightStep,         \* progress of the load r leads
    result,             \* result[r]: what the load r leads returns
    answer,             \* answer[r]: what r is answered
    writeVersion,       \* history: the version a write made,
    writeEpoch,         \*   and the epoch it advanced to
    seen                \* history: writes acknowledged when r computed its key

writes == << writeStep, writeVersion, writeEpoch >>
asking == << ask, seen >>
loading == << flightStep, result >>
vars == << version, epoch, cache, writes, readStep, asking, flight, loading, answer >>

NoEntry == [user |-> "none", version |-> 0, omitted |-> FALSE, found |-> FALSE]
NoAsk == [user |-> "none", head |-> FALSE, epoch |-> 0]

Init ==
    /\ version = 0 /\ epoch = 0 /\ cache = {}
    /\ writeStep = [w \in Writer |-> "idle"]
    /\ readStep = [r \in Request |-> "idle"]
    /\ ask = [r \in Request |-> NoAsk]
    /\ flight = [r \in Request |-> NoRequest]
    /\ flightStep = [r \in Request |-> "none"]
    /\ result = [r \in Request |-> NoEntry]
    /\ answer = [r \in Request |-> NoEntry]
    /\ writeVersion = [w \in Writer |-> 0]
    /\ writeEpoch = [w \in Writer |-> 0]
    /\ seen = [r \in Request |-> {}]

--------------------------------------------------------------------------------
(* Writes: commit, advance the epoch, invalidate, answer. *)

WriteTo(w, from, to) ==
    /\ writeStep[w] = from
    /\ writeStep' = [writeStep EXCEPT ![w] = to]
    /\ UNCHANGED << readStep, asking, flight, loading, answer >>

(* A write that commits without being told so is not acknowledged. *)
Commit(w) == /\ \/ WriteTo(w, "idle", "committed")
                \/ WriteTo(w, "idle", "lost")
             /\ version' = version + 1
             /\ writeVersion' = [writeVersion EXCEPT ![w] = version']
             /\ UNCHANGED << epoch, cache, writeEpoch >>

(* Mutation: the cache is only invalidated. *)
KeepEpoch(w) == /\ WriteTo(w, "committed", "advanced")
                /\ writeEpoch' = [writeEpoch EXCEPT ![w] = epoch]
                /\ UNCHANGED << version, epoch, cache, writeVersion >>

AdvanceEpoch(w) == /\ WriteTo(w, "committed", "advanced")
                   /\ epoch' = epoch + 1
                   /\ writeEpoch' = [writeEpoch EXCEPT ![w] = epoch']
                   /\ UNCHANGED << version, cache, writeVersion >>

(* The tag empties the lists.  A delete whose clean-up deadline has already *)
(* passed leaves them, and is not acknowledged.                            *)
Invalidate(w) == /\ \/ WriteTo(w, "advanced", "invalidated") /\ cache' = {}
                    \/ WriteTo(w, "advanced", "lost") /\ UNCHANGED cache
                 /\ UNCHANGED << version, epoch, writeVersion, writeEpoch >>

Acknowledge(w) == /\ WriteTo(w, "invalidated", "acknowledged")
                  /\ UNCHANGED << version, epoch, cache, writeVersion, writeEpoch >>

--------------------------------------------------------------------------------
(* Requests: cachedResponse. *)

store == << version, epoch, cache >>

ReadTo(r, from, to) == /\ readStep[r] = from
                       /\ readStep' = [readStep EXCEPT ![r] = to]
                       /\ UNCHANGED << store, writes >>

(* Mutation: the requester is not part of the key. *)
SameKeyForEverybody(r, q) == ask[r].epoch = ask[q].epoch

SameKey(r, q) == ask[r].epoch = ask[q].epoch /\ ask[r].user = ask[q].user

(* Mutation: an entry without its body is good enough for every method. *)
AnyEntry(r) == {e \in cache : e.epoch = ask[r].epoch /\ e.user = ask[r].user}

(* The cached entry that may answer r, if any: a HEAD needs no body. *)
Acceptable(r) ==
    {e \in cache : /\ e.epoch = ask[r].epoch /\ e.user = ask[r].user
                   /\ ask[r].head \/ ~e.omitted}

Response(e) == [user |-> e.user, version |-> e.version, omitted |-> e.omitted,
                found |-> TRUE]

(* The request is authorised and computes its key. *)
Start(r, u, head) ==
    /\ ReadTo(r, "idle", "lookup")
    /\ ask' = [ask EXCEPT ![r] = [user |-> u, head |-> head, epoch |-> epoch]]
    /\ seen' = [seen EXCEPT ![r] = {w \in Writer : writeStep[w] = "acknowledged"}]
    /\ UNCHANGED << flight, loading, answer >>

LookUp(r) ==
    /\ \/ /\ ReadTo(r, "lookup", "answered")
          /\ \E e \in Acceptable(r) : answer' = [answer EXCEPT ![r] = Response(e)]
       \/ /\ Acceptable(r) = {}
          /\ ReadTo(r, "lookup", "join")
          /\ UNCHANGED answer
    /\ UNCHANGED << asking, flight, loading >>

InFlight(q) == flightStep[q] \in {"check", "load", "store", "deliver"}

(* DoChan: follow the load of this key under way, or lead one. *)
Join(r) ==
    LET leaders == {q \in Request : InFlight(q) /\ SameKey(r, q)} IN
    /\ ReadTo(r, "join", "waiting")
    /\ \/ /\ \E q \in leaders : flight' = [flight EXCEPT ![r] = q]
          /\ UNCHANGED flightStep
       \/ /\ leaders = {}
          /\ flight' = [flight EXCEPT ![r] = r]
          /\ flightStep' = [flightStep EXCEPT ![r] = "check"]
    /\ UNCHANGED << asking, result, answer >>

(* Either the load's value or the end of the request's own context wins. *)
Receive(r) == /\ ReadTo(r, "waiting", "answered")
              /\ flightStep[flight[r]] = "done"
              /\ answer' = [answer EXCEPT ![r] = result[flight[r]]]
              /\ UNCHANGED << asking, flight, loading >>

Abandon(r) == /\ ReadTo(r, "waiting", "abandoned")
              /\ UNCHANGED << asking, flight, loading, answer >>

--------------------------------------------------------------------------------
(* Flights: the function given to DoChan, run once for all that follow,    *)
(* with the request and the method of its leader.                          *)

FlightTo(l, from, to) ==
    /\ flightStep[l] = from
    /\ flightStep' = [flightStep EXCEPT ![l] = to]
    /\ UNCHANGED << version, epoch, writes, readStep, asking, flight, answer >>

CheckAgain(l) ==
    /\ \/ /\ FlightTo(l, "check", "deliver")
          /\ \E e \in Acceptable(l) : result' = [result EXCEPT ![l] = Response(e)]
       \/ /\ Acceptable(l) = {}
          /\ FlightTo(l, "check", "load")
          /\ UNCHANGED result
    /\ UNCHANGED cache

(* The list is read from the database; or the database, or the context of  *)
(* the leader, fails it for everybody.                                     *)
Load(l) ==
    /\ \/ /\ FlightTo(l, "load", "store")
          /\ result' = [result EXCEPT ![l] =
                [user |-> ask[l].user, version |-> version, omitted |-> FALSE,
                 found |-> TRUE]]
       \/ FlightTo(l, "load", "deliver") /\ UNCHANGED result
    /\ UNCHANGED cache

Store(l) ==
    /\ FlightTo(l, "store", "deliver")
    /\ cache' = {e \in cache : e.epoch # ask[l].epoch \/ e.user # ask[l].user}
                \cup {[epoch |-> ask[l].epoch, user |-> ask[l].user,
                       version |-> result[l].version,
                       omitted |-> ask[l].user \in LargeUser]}
    /\ UNCHANGED result

(* Mutation: the flight is removed without a value for its followers. *)
ForgetFollowers(l) == /\ FlightTo(l, "deliver", "none")
                      /\ UNCHANGED << cache, result >>

Deliver(l) == FlightTo(l, "deliver", "done") /\ UNCHANGED << cache, result >>

(* Expiry and eviction. *)
Vanish == /\ \E e \in cache : cache' = cache \ {e}
          /\ UNCHANGED << version, epoch, writes, readStep, asking, flight,
                          loading, answer >>

--------------------------------------------------------------------------------
WriteNext(w) == Commit(w) \/ AdvanceEpoch(w) \/ Invalidate(w) \/ Acknowledge(w)

RequestNext(r) == \/ \E u \in User, head \in BOOLEAN : Start(r, u, head)
                  \/ LookUp(r) \/ Join(r) \/ Receive(r) \/ Abandon(r)

FlightNext(l) == CheckAgain(l) \/ Load(l) \/ Store(l) \/ Deliver(l)

Next == \/ \E w \in Writer : WriteNext(w)
        \/ \E r \in Request : RequestNext(r) \/ FlightNext(r)
        \/ Vanish

Spec == Init /\ [][Next]_vars

(* Goroutines are scheduled, and a load ends: the deadline of the leader   *)
(* bounds it.  No request has to start and no client has to leave.         *)
FairSpec ==
    /\ Spec
    /\ \A r \in Request : WF_vars(LookUp(r) \/ Join(r) \/ Receive(r))
    /\ \A l \in Request : WF_vars(FlightNext(l))

--------------------------------------------------------------------------------
(* Properties. *)

Entry == [epoch : Nat, user : User, version : Nat, omitted : BOOLEAN]
Answer == [user : User, version : Nat, omitted : BOOLEAN, found : {TRUE}]

(* Type invariant: only complete successful lists are cached, one per key. *)
TypeOK ==
    /\ version \in Nat /\ epoch \in Nat
    /\ cache \subseteq Entry
    /\ \A e, f \in cache : e.epoch = f.epoch /\ e.user = f.user => e = f
    /\ writeStep \in [Writer -> {"idle", "committed", "lost", "advanced",
                                 "invalidated", "acknowledged"}]
    /\ readStep \in [Request -> {"idle", "lookup", "join", "waiting", "answered",
                                 "abandoned"}]
    /\ ask \in [Request -> [user : User, head : BOOLEAN, epoch : Nat] \cup {NoAsk}]
    /\ flight \in [Request -> Request \cup {NoRequest}]
    /\ flightStep \in [Request -> {"none", "check", "load", "store", "deliver",
                                   "done"}]
    /\ result \in [Request -> Answer \cup {NoEntry}]
    /\ answer \in [Request -> Answer \cup {NoEntry}]
    /\ writeVersion \in [Writer -> Nat] /\ writeEpoch \in [Writer -> Nat]
    /\ seen \in [Request -> SUBSET Writer]

(* An acknowledged upload or delete is in every list asked for afterwards: *)
(* neither a cached entry, nor an entry stored late by a load that began   *)
(* before the write, nor a load joined on the way brings back the old one. *)
AcknowledgedWritesAreSeen ==
    \A r \in Request : answer[r].found =>
        \A w \in seen[r] : answer[r].version >= writeVersion[w]

(* The same for what may be answered later: an entry is at least as new as *)
(* the write that opened its epoch.                                        *)
EntriesMatchTheirEpoch ==
    \A e \in cache, w \in Writer :
        writeEpoch[w] > 0 /\ writeEpoch[w] <= e.epoch => e.version >= writeVersion[w]

(* A request is answered with its own requester's list, whoever led the    *)
(* load it joined.                                                         *)
AnswersStayPrivate ==
    \A r \in Request : answer[r].found => answer[r].user = ask[r].user

(* A metadata-only entry "may satisfy HEAD, never GET": a GET receives one *)
(* only when it has joined a load that a HEAD led.  The load looks into    *)
(* the cache once more for its leader, and finds an entry of the same key  *)
(* that another load has stored meanwhile.                                 *)
BodylessGetIsExplained ==
    \A r \in Request :
        answer[r].omitted =>
            ask[r].head \/ \E l \in Request \ {r} : flight[r] = l /\ ask[l].head

(* What the comment of the cache promises of a metadata-only entry without *)
(* exception: "It may satisfy HEAD, never GET" (cache.go:16-17).           *)
NoBodylessGet == \A r \in Request : answer[r].omitted => ask[r].head

(* Every request that is authorised is answered or abandoned: no follower  *)
(* waits for a load that will not deliver.                                 *)
EveryRequestEnds ==
    \A r \in Request :
        readStep[r] = "lookup" ~> readStep[r] \in {"answered", "abandoned"}
================================================================================
