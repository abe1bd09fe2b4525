------------------------------ MODULE DocumentList ------------------------------
(***************************************************************************)
(* What a list of documents has in it, and under which key it is cached.   *)
(*                                                                         *)
(* The handler checks the query and makes the key of the cache from it;    *)
(* the service checks the filter again, and the repository once more when  *)
(* it turns it into SQL.  Values are texts: one id and one time have       *)
(* several spellings, and what they stand for is given by two functions.   *)
(* The table has whole seconds; the text of a query may name a finer time. *)
(*                                                                         *)
(* The documents do not change here: that a write is seen by the lists     *)
(* asked for after it is the subject of ResponseCache, where lists are     *)
(* known by their version.                                                 *)
(***************************************************************************)
EXTENDS Integers, FiniteSets

CONSTANTS
    User,               \* users, known by their logins
    UnknownLogin,       \* logins nobody has
    Id,                 \* an id is a number, for the order of ids
    Name, Rank,         \* names are texts; Rank is the order of the database
    CreationTime,       \* in seconds: timestamptz(0)
    TicksPerSecond,
    Value,              \* texts of a query's parameter value
    IdOf, TimeOf,       \* what a text stands for, a time in ticks: functions on Value
    MaxListLimit,
    NoLogin, NoKey, NoValue, NotOne, NoEntry, NoRequest

Key == {"id", "name", "public", "created"}

ASSUME ListAssumption ==
    /\ Id \subseteq Nat /\ Name \cup {"true", "false"} \subseteq Value /\ CreationTime \subseteq Nat
    /\ Rank \in [Name -> Nat]
    /\ \A m, n \in Name : m # n => Rank[m] # Rank[n]
    /\ IsFiniteSet(Id)
    /\ TicksPerSecond \in Nat \ {0}
    /\ IdOf \in [Value -> Id \cup {NotOne}] /\ NotOne \notin Id
    /\ TimeOf \in [Value -> Nat \cup {NotOne}] /\ NotOne \notin Nat
    /\ MaxListLimit \in Nat
    /\ NoLogin \notin User \cup UnknownLogin
    /\ User \cap UnknownLogin = {}
    /\ NoKey \notin Key /\ NoValue \notin Value

VARIABLES
    documents,          \* the table: a function from ids to attributes
    kept,               \* the entry of the response cache
    request,            \* the last request for a list
    answer              \* and its answer

listVars == << documents, kept, request, answer >>

Attributes ==
    {a \in [owner : User, public : BOOLEAN, grants : SUBSET User, name : Name, created : CreationTime] :
        a.owner \notin a.grants}

(* A parameter is missing or has one value; a limit of 0 is a missing one. *)
Request == [user : User, login : User \cup UnknownLogin \cup {NoLogin},
            key : Key \cup {NoKey}, value : Value \cup {NoValue}, limit : 0..(MaxListLimit + 1)]

None == [status |-> "none", ids |-> {}]

ListInit == /\ documents \in UNION {[ids -> Attributes] : ids \in SUBSET Id}
            /\ kept = NoEntry /\ request = NoRequest /\ answer = None

--------------------------------------------------------------------------------
(* The filter. *)

SecondOf(t) == t \div TicksPerSecond

(* parseDocumentListFilter: a key and a value come together.  The service  *)
(* and the repository check the same once more.                            *)
ValidQuery(q) ==
    /\ (q.key = NoKey) <=> (q.value = NoValue)
    /\ q.limit <= MaxListLimit
    /\ \/ q.key \in {NoKey, "name"}
       \/ q.key = "id" /\ IdOf[q.value] # NotOne
       \/ q.key = "public" /\ q.value \in {"true", "false"}
       \/ q.key = "created" /\ TimeOf[q.value] # NotOne

(* buildDocumentFilter: the time of a query is cut off to its second.      *)
Matches(d, q) ==
    LET a == documents[d] IN
    \/ q.key = NoKey
    \/ q.key = "id" /\ d = IdOf[q.value]
    \/ q.key = "name" /\ a.name = q.value
    \/ q.key = "public" /\ a.public = (q.value = "true")
    \/ q.key = "created" /\ a.created = SecondOf(TimeOf[q.value])

--------------------------------------------------------------------------------
(* The list. *)

Owner(q) == IF q.login = NoLogin THEN q.user ELSE q.login

(* Mutation: of another owner everything is listed. *)
SelectedByOwner(q) ==
    {d \in DOMAIN documents : documents[d].owner = Owner(q) /\ Matches(d, q)}

(* WHERE d.owner_id = $1 AND ($1 = $2 OR d.is_public OR EXISTS ...) *)
Selected(q) ==
    {d \in DOMAIN documents :
        LET a == documents[d] IN
        /\ a.owner = Owner(q)
        /\ Owner(q) = q.user \/ a.public \/ q.user \in a.grants
        /\ Matches(d, q)}

(* ORDER BY d.name ASC, d.created_at DESC, d.id ASC *)
Before(d, e) ==
    LET a == documents[d]
        b == documents[e]
    IN  \/ Rank[a.name] < Rank[b.name]
        \/ a.name = b.name /\ a.created > b.created
        \/ a.name = b.name /\ a.created = b.created /\ d < e

(* LIMIT: those with less than limit others before them. *)
Listed(q) ==
    {d \in Selected(q) :
        q.limit = 0 \/ Cardinality({e \in Selected(q) : Before(e, d)}) < q.limit}

(* An owner nobody knows is an error, which is not cached. *)
Load(q) == IF Owner(q) \in User THEN [status |-> "ok", ids |-> Listed(q)]
           ELSE [status |-> "notFound", ids |-> {}]

--------------------------------------------------------------------------------
(* The key.  The epoch is left out: it stands still while nothing is       *)
(* written.                                                                *)

(* normalizedFilterValue: an id or a time in its canonical spelling. *)
Normalized(q) ==
    IF q.key = "id" THEN IdOf[q.value]
    ELSE IF q.key = "created" THEN TimeOf[q.value] ELSE q.value

(* Mutation: the requester is missing in the key. *)
KeyOfAnybody(q) == << "", q.login, q.key, Normalized(q), q.limit >>

ListCacheKey(q) == << q.user, q.login, q.key, Normalized(q), q.limit >>

ValidQueries == {q \in Request : ValidQuery(q)}

(* A query that is refused leaves everything as it is. *)
Refuse == /\ ValidQueries # Request
          /\ request' = NoRequest /\ answer' = [status |-> "refused", ids |-> {}]
          /\ UNCHANGED << documents, kept >>

(* Nothing is cached under the key: the list is loaded and kept. *)
Miss(q) == /\ kept = NoEntry
           /\ request' = q /\ answer' = Load(q)
           /\ kept' = IF Load(q).status = "ok"
                      THEN [key |-> ListCacheKey(q), ids |-> Load(q).ids] ELSE NoEntry
           /\ UNCHANGED documents

Hit(q) == /\ kept # NoEntry /\ kept.key = ListCacheKey(q)
          /\ request' = q /\ answer' = [status |-> "ok", ids |-> kept.ids]
          /\ UNCHANGED << documents, kept >>

(* One entry of the cache is followed: another is followed after it. *)
Evict == /\ kept # NoEntry
         /\ kept' = NoEntry /\ request' = NoRequest /\ answer' = None
         /\ UNCHANGED documents

ListNext == Evict \/ Refuse \/ \E q \in ValidQueries : Miss(q) \/ Hit(q)

ListSpec == ListInit /\ [][ListNext]_listVars

--------------------------------------------------------------------------------
(* Properties *)

(* Type invariant: answers and entries have ids of documents. *)
ListTypeOK ==
    /\ \E ids \in SUBSET Id : documents \in [ids -> Attributes]
    /\ request \in Request \cup {NoRequest}
    /\ answer \in [status : {"none", "ok", "notFound", "refused"}, ids : SUBSET DOMAIN documents]
    /\ kept = NoEntry \/ kept.ids \subseteq DOMAIN documents

(* Two requests of one key have one list: whoever asks, however the value  *)
(* is spelled, an answer from the cache is the answer of the database.     *)
AnswerIsOwnList == answer.status = "ok" => answer.ids = Listed(request)

(* FindAccessible of a single document. *)
Accessible(d, u) == LET a == documents[d] IN a.owner = u \/ a.public \/ u \in a.grants

(* A list shows nothing that a read would refuse, and without a filter it  *)
(* shows every document of the owner that the requester may read; a limit  *)
(* leaves out only what comes after everything that is shown, and nothing  *)
(* while there is room.                                                    *)
ListAgreesWithRead ==
    answer.status = "ok" =>
        LET readable == {d \in DOMAIN documents :
                           Accessible(d, request.user) /\ documents[d].owner = Owner(request)}
            leftOut == readable \ answer.ids
        IN  /\ answer.ids \subseteq readable
            /\ request.limit > 0 => Cardinality(answer.ids) <= request.limit
            /\ request.key = NoKey /\ leftOut # {} =>
                  /\ request.limit = Cardinality(answer.ids)
                  /\ \A d \in answer.ids, e \in leftOut : Before(d, e)
================================================================================
