------------------------------ MODULE MemoryCache ------------------------------
(***************************************************************************)
(* The bounded cache: a list in order of use, an expiry per entry, and a   *)
(* running count of bytes that every operation has to keep exact.          *)
(*                                                                         *)
(* Each operation holds the mutex throughout, save that Set dates and      *)
(* measures its entry before it takes it.  The map from keys to elements   *)
(* is the list itself, whose keys are distinct.  An entry is its key, its  *)
(* tag, the bytes of its metadata and of its body, and its expiry.         *)
(*                                                                         *)
(* The sums and the sublists are recursive functions, so that they can be  *)
(* reasoned about; names begin with Cache where another module of the      *)
(* service has the plain one.                                              *)
(***************************************************************************)
EXTENDS Naturals, Sequences

CONSTANTS
    CacheKey, Tag,
    Setter,             \* concurrent calls of Set
    MaxBytes, MaxItems,
    Metadata, Body,     \* sizes in bytes: of key, tags and headers; of the body
    Ttl,
    MaxTime             \* bound on the clock

ASSUME SizesAssumption ==
    /\ MaxBytes \in Nat \ {0} /\ MaxItems \in Nat \ {0} /\ MaxTime \in Nat
    /\ Metadata \subseteq Nat \ {0} /\ Body \subseteq Nat /\ Ttl \subseteq Nat \ {0}

VARIABLES
    lru,                \* the items, most recently used first
    bytes,
    now,
    setting,            \* setting[s]: the items s is about to insert, none or one
    recency             \* history: the keys in order of their last use

cacheVars == << lru, bytes, now, setting, recency >>

CacheInit == /\ lru = << >> /\ bytes = 0 /\ now = 0 /\ recency = << >>
             /\ setting = [s \in Setter |-> {}]

--------------------------------------------------------------------------------
entrySize(e) == e.metadata + e.body

(* What the items of a list take together. *)
TotalSize(items) ==
    LET sum[n \in 0..Len(items)] == IF n = 0 THEN 0 ELSE sum[n - 1] + entrySize(items[n])
    IN  sum[Len(items)]

(* The elements of a list that are in a set, in the order of the list. *)
Select(list, set) ==
    LET chosen[n \in 0..Len(list)] ==
            IF n = 0 THEN << >>
            ELSE IF list[n] \in set THEN Append(chosen[n - 1], list[n]) ELSE chosen[n - 1]
    IN  chosen[Len(list)]

Elements(list) == {list[i] : i \in DOMAIN list}

Without(list, gone) == Select(list, Elements(list) \ gone)

OfKey(k) == {e \in Elements(lru) : e.key = k}

(* Items leave the list, and their bytes with them. *)
Remove(gone) == /\ lru' = Without(lru, gone)
                /\ bytes' = bytes - TotalSize(Select(lru, gone))

Used(k) == recency' = << k >> \o Without(recency, {k})

(* Mutation: a hit leaves the entry where it is. *)
GetInPlace(k) ==
    /\ \E e \in OfKey(k) : now < e.expires
    /\ Used(k)
    /\ UNCHANGED << lru, bytes, now, setting >>

(* An expired entry is removed, another becomes the most recently used. *)
Get(k) ==
    /\ \E e \in OfKey(k) :
        \/ /\ now >= e.expires
           /\ Remove({e})
           /\ UNCHANGED recency
        \/ /\ now < e.expires
           /\ lru' = << e >> \o Without(lru, {e})
           /\ Used(k)
           /\ UNCHANGED bytes
    /\ UNCHANGED << now, setting >>

(* Whether Set would keep a body of this size. *)
EntryFits(metadata, body) == metadata <= MaxBytes /\ body <= MaxBytes - metadata

(* Mutation: an entry that just fits loses its body. *)
MeasureStrictly(s, e) ==
    LET kept == IF entrySize(e) >= MaxBytes /\ e.body # 0
                THEN [e EXCEPT !.body = 0, !.omitted = TRUE] ELSE e
    IN  /\ setting[s] = {} /\ entrySize(kept) <= MaxBytes
        /\ setting' = [setting EXCEPT ![s] = {kept}]
        /\ UNCHANGED << lru, bytes, now, recency >>

(* Set, before the mutex: a body that cannot fit is left out; an entry     *)
(* that cannot fit even so is not stored, and leaves the old one alone.    *)
Measure(s, e) ==
    LET kept == IF entrySize(e) > MaxBytes /\ e.body # 0
                THEN [e EXCEPT !.body = 0, !.omitted = TRUE] ELSE e
    IN  /\ setting[s] = {} /\ entrySize(kept) <= MaxBytes
        /\ setting' = [setting EXCEPT ![s] = {kept}]
        /\ UNCHANGED << lru, bytes, now, recency >>

(* Items leave at the back until the cache is within its bounds. *)
EvictFromBack(items, total) ==
    LET after(n) == total - TotalSize(SubSeq(items, n + 1, Len(items)))
        within(n) == n <= MaxItems /\ after(n) <= MaxBytes
    IN  \E n \in 0..Len(items) :
            /\ within(n) /\ \A m \in n + 1 .. Len(items) : ~within(m)
            /\ lru' = SubSeq(items, 1, n)
            /\ bytes' = after(n)

(* Mutation: the item that is replaced stays in the list. *)
InsertBesideOld(s) ==
    \E e \in setting[s] :
        /\ EvictFromBack(<< e >> \o lru, bytes + entrySize(e))
        /\ setting' = [setting EXCEPT ![s] = {}]
        /\ Used(e.key)
        /\ UNCHANGED now

(* Mutation: the bytes of the item that is replaced stay counted. *)
InsertKeepsOldBytes(s) ==
    \E e \in setting[s] :
        /\ EvictFromBack(<< e >> \o Without(lru, OfKey(e.key)), bytes + entrySize(e))
        /\ setting' = [setting EXCEPT ![s] = {}]
        /\ Used(e.key)
        /\ UNCHANGED now

(* Set, under the mutex. *)
Insert(s) ==
    \E e \in setting[s] :
        /\ EvictFromBack(<< e >> \o Without(lru, OfKey(e.key)),
                         bytes - TotalSize(Select(lru, OfKey(e.key))) + entrySize(e))
        /\ setting' = [setting EXCEPT ![s] = {}]
        /\ Used(e.key)
        /\ UNCHANGED now

Delete(k) == /\ OfKey(k) # {} /\ Remove(OfKey(k))
             /\ UNCHANGED << now, setting, recency >>

CacheInvalidate(t) == /\ Remove({e \in Elements(lru) : e.tag = t})
                      /\ UNCHANGED << now, setting, recency >>

Close == /\ lru' = << >> /\ bytes' = 0
         /\ UNCHANGED << now, setting, recency >>

Tick == /\ now < MaxTime /\ now' = now + 1
        /\ UNCHANGED << lru, bytes, setting, recency >>

SetEntry(s) ==
    \E k \in CacheKey, t \in Tag, m \in Metadata, b \in Body, ttl \in Ttl :
        Measure(s, [key |-> k, tag |-> t, metadata |-> m, body |-> b,
                    expires |-> now + ttl, omitted |-> FALSE, given |-> b])

CacheNext == \/ \E k \in CacheKey : Get(k) \/ Delete(k)
             \/ \E s \in Setter : SetEntry(s) \/ Insert(s)
             \/ \E t \in Tag : CacheInvalidate(t)
             \/ Close \/ Tick

CacheSpec == CacheInit /\ [][CacheNext]_cacheVars

--------------------------------------------------------------------------------
(* Properties. *)

(* The body given to Set is kept, or left out. *)
Item == {e \in [key : CacheKey, tag : Tag, metadata : Metadata, body : Body \cup {0},
                expires : Nat, omitted : BOOLEAN, given : Body] :
            e.body = IF e.omitted THEN 0 ELSE e.given}

(* Type invariant: a key has one item. *)
CacheTypeOK ==
    /\ lru \in Seq(Item)
    /\ \A i, j \in DOMAIN lru : lru[i].key = lru[j].key => i = j
    /\ bytes \in Nat /\ now \in 0..MaxTime
    /\ DOMAIN setting = Setter
    /\ \A s \in Setter : setting[s] \subseteq Item /\ \A d, e \in setting[s] : d = e
    /\ recency \in Seq(CacheKey)

(* However entries are replaced, expire, are invalidated and evicted, the  *)
(* running count is the size of what is held, and within both bounds.      *)
BytesAreExact == bytes = TotalSize(lru) /\ bytes <= MaxBytes /\ Len(lru) <= MaxItems

(* The body of an entry is kept exactly when EntryFits, which the handler  *)
(* of file downloads asks before it captures one, had promised it.         *)
BodyIsKeptAsPromised ==
    \A i \in DOMAIN lru : lru[i].omitted = ~EntryFits(lru[i].metadata, lru[i].given)

(* In uses, which has the latest first, k is used later than q. *)
UsedLater(k, q, uses) == \E i, j \in DOMAIN uses : i < j /\ uses[i] = k /\ uses[j] = q

(* An insertion evicts only what was used before everything it keeps, and  *)
(* no more than it must.                                                   *)
EvictsLeastRecentlyUsed ==
    [][\A s \in Setter : setting[s] # {} /\ setting'[s] = {} =>
        LET new == CHOOSE e \in setting[s] : TRUE
            evicted == {i \in DOMAIN lru : lru[i].key # new.key /\ lru[i] \notin Elements(lru')}
        IN  \A i \in evicted :
              /\ \A j \in DOMAIN lru' : UsedLater(lru'[j].key, lru[i].key, recency')
              /\ (\A j \in evicted : i <= j) =>
                    \/ Len(lru') + 1 > MaxItems
                    \/ TotalSize(lru') + entrySize(lru[i]) > MaxBytes]_cacheVars
================================================================================
