--------------------------- MODULE DuplicateCache ---------------------------
(***************************************************************************)
(* The duplicate cache of dog/src/time_cache.rs: a hash map of the values, *)
(* a queue of the keys in order of expiration and a separate counter.      *)
(* Entries are only expired at the front of the queue and only by insert,  *)
(* so that the cache forgets exactly the expired keys depends on the queue *)
(* being sorted and in step with the map.                                  *)
(***************************************************************************)
EXTENDS Integers, Sequences

CONSTANTS
  Key, Value,
  NoValue,     \* the map has no entry
  Ttl,         \* Config.cache_time
  MaxTime      \* bound on the clock

ASSUME CacheAssumption ==
  /\ NoValue \notin Value
  /\ Ttl \in Nat
  /\ MaxTime \in Nat

VARIABLES
  now,       \* Instant::now()
  len,       \* DuplicateCache.len
  values,    \* DuplicateCache.values, NoValue for a missing key
  list,      \* DuplicateCache.list
  accepted   \* what the last insert returned

vars == <<now, len, values, list, accepted>>

ExpiringEntry == [key : Key, expiration : Nat]

Init ==
  /\ now = 0
  /\ len = 0
  /\ values = [k \in Key |-> NoValue]
  /\ list = <<>>
  /\ accepted = FALSE

\* Instant is monotonic; it may also stand still between two insertions.
Tick ==
  /\ now < MaxTime
  /\ now' = now + 1
  /\ UNCHANGED <<len, values, list, accepted>>

\* Slip: an entry that expires now is kept.
ExpiredBefore(d) ==
  /\ \A i \in 1 .. d : list[i].expiration < now
  /\ d < Len(list) => list[d + 1].expiration >= now

\* remove_expired_values pops d entries: up to the first one that is alive.
Expired(d) ==
  /\ \A i \in 1 .. d : list[i].expiration <= now
  /\ d < Len(list) => list[d + 1].expiration > now

\* Slip: the keys are only removed from the queue.
ValuesKept(d) == values

\* The map after the removal of the first d keys of the queue.
ValuesWithout(d) ==
  [k \in Key |-> IF \E i \in 1 .. d : list[i].key = k THEN NoValue ELSE values[k]]

\* Slip: a key that is present has its lifetime renewed in place.
InsertRenewing(k, v) ==
  \E d \in 0 .. Len(list) :
    LET rest == SubSeq(list, d + 1, Len(list))
        fresh == ValuesWithout(d)[k] = NoValue
        entry == [key |-> k, expiration |-> now + Ttl]
    IN /\ Expired(d)
       /\ accepted' = fresh
       /\ values' = [ValuesWithout(d) EXCEPT ![k] = IF fresh THEN v ELSE @]
       /\ len' = IF fresh THEN len - d + 1 ELSE len - d
       /\ list' = IF fresh THEN Append(rest, entry)
                   ELSE [i \in DOMAIN rest |-> IF rest[i].key = k THEN entry ELSE rest[i]]
       /\ UNCHANGED now

Insert(k, v) ==
  \E d \in 0 .. Len(list) :
    LET rest == SubSeq(list, d + 1, Len(list))
        fresh == ValuesWithout(d)[k] = NoValue
    IN /\ Expired(d)
       /\ accepted' = fresh
       /\ \/ /\ fresh
             /\ values' = [ValuesWithout(d) EXCEPT ![k] = v]
             /\ len' = len - d + 1
             /\ list' = Append(rest, [key |-> k, expiration |-> now + Ttl])
          \/ /\ ~fresh
             /\ values' = ValuesWithout(d)
             /\ len' = len - d
             /\ list' = rest
       /\ UNCHANGED now

Next == Tick \/ \E k \in Key, v \in Value : Insert(k, v)

Spec == Init /\ [][Next]_vars

-----------------------------------------------------------------------------
\* The fields of time_cache.rs have their types.
TypeOK ==
  /\ now \in Nat
  /\ len \in Int
  /\ values \in [Key -> Value \cup {NoValue}]
  /\ list \in Seq(ExpiringEntry)
  /\ accepted \in BOOLEAN

\* The counter, the queue and the map agree: len never wraps below zero and
\* is what len() promises, no key is queued twice (its second pop would drop
\* a younger value) and exactly the queued keys have a value.
IndexesAgree ==
  /\ len = Len(list)
  /\ \A i, j \in DOMAIN list : list[i].key = list[j].key => i = j
  /\ \A k \in Key : values[k] # NoValue <=> \E i \in DOMAIN list : list[i].key = k

\* The queue is in order of expiration and nothing outlives Ttl: popping at
\* the front until the first live entry therefore removes all expired ones.
ListInOrder ==
  /\ \A i, j \in DOMAIN list : i < j => list[i].expiration <= list[j].expiration
  /\ \A i \in DOMAIN list : list[i].expiration <= now + Ttl

\* The expiry of a key in a queue q, for the abstract map.
ExpirationOf(q, k) ==
  IF \E i \in DOMAIN q : q[i].key = k
    THEN q[CHOOSE i \in DOMAIN q : q[i].key = k].expiration
    ELSE 0

Abstract == INSTANCE ExpiringMap WITH
  value <- values, expires <- [k \in Key |-> ExpirationOf(list, k)]

\* The cache implements the expiring map: insert accepts a key exactly when
\* it was not accepted within the last Ttl.
ImplementsExpiringMap == Abstract!Spec
=============================================================================
