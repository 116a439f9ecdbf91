------------------------ MODULE DuplicateCacheProofs ------------------------
(***************************************************************************)
(* The duplicate cache keeps its three indexes in step and implements the  *)
(* expiring map, for every set of keys and values and every cache_time.    *)
(***************************************************************************)
EXTENDS DuplicateCache, TLAPS

CacheInv == TypeOK /\ IndexesAgree /\ ListInOrder

\* A suffix of a sequence.
LEMMA Suffix ==
  ASSUME NEW S, NEW q \in Seq(S), NEW k \in 0 .. Len(q)
  PROVE  /\ SubSeq(q, k + 1, Len(q)) \in Seq(S)
         /\ Len(SubSeq(q, k + 1, Len(q))) = Len(q) - k
         /\ DOMAIN SubSeq(q, k + 1, Len(q)) = 1 .. (Len(q) - k)
         /\ \A j \in DOMAIN SubSeq(q, k + 1, Len(q)) : SubSeq(q, k + 1, Len(q))[j] = q[j + k]
  OBVIOUS

\* What popping the expired entries leaves, and which entries those are.
LEMMA PoppedEntries ==
  ASSUME CacheInv, NEW d \in 0 .. Len(list), Expired(d)
  PROVE  LET rest == SubSeq(list, d + 1, Len(list))
         IN /\ rest \in Seq(ExpiringEntry)
            /\ Len(rest) = Len(list) - d
            /\ DOMAIN rest = 1 .. (Len(list) - d)
            /\ \A j \in DOMAIN rest : j + d \in DOMAIN list /\ rest[j] = list[j + d]
            /\ \A i \in DOMAIN list : i > d => i - d \in DOMAIN rest /\ rest[i - d] = list[i]
            /\ \A i \in DOMAIN list : list[i].expiration > now <=> i > d
<1> DEFINE rest == SubSeq(list, d + 1, Len(list))
<1>1. list \in Seq(ExpiringEntry) /\ Len(list) \in Nat /\ DOMAIN list = 1 .. Len(list) /\ now \in Nat
  BY DEF CacheInv, TypeOK
<1>2. /\ rest \in Seq(ExpiringEntry)
      /\ Len(rest) = Len(list) - d
      /\ DOMAIN rest = 1 .. (Len(list) - d)
      /\ \A j \in DOMAIN rest : rest[j] = list[j + d]
  BY <1>1, Suffix
<1>3. \A i \in DOMAIN list : list[i].expiration \in Nat
  <2>1. \A i \in DOMAIN list : list[i] \in ExpiringEntry
    BY <1>1
  <2> QED
    BY <2>1 DEF ExpiringEntry
<1> HIDE DEF rest
<1>4. \A j \in DOMAIN rest : j + d \in DOMAIN list
  BY <1>1, <1>2
<1>5. \A i \in DOMAIN list : i > d => i - d \in DOMAIN rest /\ rest[i - d] = list[i]
  <2> SUFFICES ASSUME NEW i \in DOMAIN list, i > d
               PROVE  i - d \in DOMAIN rest /\ rest[i - d] = list[i]
    OBVIOUS
  <2>1. i - d \in DOMAIN rest /\ (i - d) + d = i
    BY <1>1, <1>2
  <2>2. rest[i - d] = list[(i - d) + d]
    BY <1>2, <2>1
  <2> QED
    BY <2>1, <2>2
<1>6. \A i \in DOMAIN list : list[i].expiration > now <=> i > d
  <2> SUFFICES ASSUME NEW i \in DOMAIN list
               PROVE  list[i].expiration > now <=> i > d
    OBVIOUS
  <2>1. CASE i <= d
    <3>1. list[i].expiration <= now
      BY <2>1, <1>1 DEF Expired
    <3> QED
      BY <2>1, <3>1, <1>1, <1>3
  <2>2. CASE i > d
    <3>1. d + 1 \in DOMAIN list /\ d < Len(list)
      BY <2>2, <1>1
    <3>2. list[d + 1].expiration > now
      BY <3>1 DEF Expired
    <3>3. list[d + 1].expiration <= list[i].expiration
      <4>1. CASE i = d + 1
        BY <4>1, <1>3
      <4>2. CASE i > d + 1
        BY <4>2, <3>1 DEF CacheInv, ListInOrder
      <4> QED
        BY <2>2, <4>1, <4>2, <1>1
    <3> QED
      BY <2>2, <3>1, <3>2, <3>3, <1>1, <1>3
  <2> QED
    BY <2>1, <2>2, <1>1
<1> QED
  BY <1>2, <1>4, <1>5, <1>6 DEF rest

\* The value of a key that stays is untouched; every other key loses its own.
LEMMA RemainingValues ==
  ASSUME CacheInv, NEW d \in 0 .. Len(list), Expired(d), NEW k \in Key
  PROVE  /\ (\E i \in DOMAIN list : i > d /\ list[i].key = k) => ValuesWithout(d)[k] = values[k]
         /\ ValuesWithout(d)[k] # NoValue <=> \E i \in DOMAIN list : i > d /\ list[i].key = k
<1>1. Len(list) \in Nat /\ DOMAIN list = 1 .. Len(list)
  BY DEF CacheInv, TypeOK
<1>2. ValuesWithout(d)[k] = IF \E i \in 1 .. d : list[i].key = k THEN NoValue ELSE values[k]
  BY DEF ValuesWithout
<1>3. values[k] # NoValue <=> \E i \in DOMAIN list : list[i].key = k
  BY DEF CacheInv, IndexesAgree
<1>4. \A i \in DOMAIN list : i > d /\ list[i].key = k => ~\E j \in 1 .. d : list[j].key = k
  <2> SUFFICES ASSUME NEW i \in DOMAIN list, i > d, list[i].key = k,
                      NEW j \in 1 .. d, list[j].key = k
               PROVE  FALSE
    OBVIOUS
  <2>1. j \in DOMAIN list /\ j < i
    BY <1>1
  <2> QED
    BY <2>1 DEF CacheInv, IndexesAgree
<1>5. (\E i \in DOMAIN list : list[i].key = k) =>
        (\E i \in 1 .. d : list[i].key = k) \/ \E i \in DOMAIN list : i > d /\ list[i].key = k
  BY <1>1
<1> QED
  BY <1>2, <1>3, <1>4, <1>5

-----------------------------------------------------------------------------
\* insert keeps CacheInv, whatever part of the queue has expired.
LEMMA InsertInv ==
  ASSUME CacheInv, NEW k \in Key, NEW v \in Value, Insert(k, v)
  PROVE  CacheInv'
<1>1. PICK d \in 0 .. Len(list) :
        LET rest == SubSeq(list, d + 1, Len(list))
            fresh == ValuesWithout(d)[k] = NoValue
        IN /\ Expired(d)
           /\ accepted' = fresh
           /\ \/ /\ fresh
                 /\ values' = [ValuesWithout(d) EXCEPT ![k] = v]
                 /\ len' = len - d + 1
                 /\ list' = Append(rest, [key |-> k, expiration |-> now + Ttl])
              \/ /\ ~fresh
                 /\ values' = ValuesWithout(d)
                 /\ len' = len - d
                 /\ list' = rest
           /\ UNCHANGED now
  BY DEF Insert
<1> DEFINE rest == SubSeq(list, d + 1, Len(list))
           kept == ValuesWithout(d)
           entry == [key |-> k, expiration |-> now + Ttl]
<1>2. /\ rest \in Seq(ExpiringEntry)
      /\ Len(rest) = Len(list) - d
      /\ DOMAIN rest = 1 .. (Len(list) - d)
      /\ \A j \in DOMAIN rest : j + d \in DOMAIN list /\ rest[j] = list[j + d]
      /\ \A i \in DOMAIN list : i > d => i - d \in DOMAIN rest /\ rest[i - d] = list[i]
  BY <1>1, PoppedEntries
<1>3. \A j \in Key : kept[j] # NoValue <=> \E i \in DOMAIN list : i > d /\ list[i].key = j
  BY <1>1, RemainingValues
<1>4. kept \in [Key -> Value \cup {NoValue}]
  BY DEF ValuesWithout, CacheInv, TypeOK
<1>5. /\ Len(list) \in Nat /\ now \in Nat /\ Ttl \in Nat /\ d \in Nat /\ len = Len(list)
      /\ NoValue \notin Value /\ d <= Len(list) /\ DOMAIN list = 1 .. Len(list)
  BY CacheAssumption DEF CacheInv, TypeOK, IndexesAgree
<1>6. entry \in ExpiringEntry /\ entry.key = k /\ entry.expiration = now + Ttl
  BY <1>5 DEF ExpiringEntry
<1>7. UNCHANGED now /\ accepted' \in BOOLEAN
  BY <1>1
<1>8. \/ /\ kept[k] = NoValue
         /\ values' = [kept EXCEPT ![k] = v]
         /\ len' = len - d + 1
         /\ list' = Append(rest, entry)
      \/ /\ kept[k] # NoValue
         /\ values' = kept
         /\ len' = len - d
         /\ list' = rest
  BY <1>1
<1> HIDE DEF rest, kept, entry
\* The remaining queue and map are in step and in order.
<1>9. \A i, j \in DOMAIN rest : rest[i].key = rest[j].key => i = j
  <2> SUFFICES ASSUME NEW i \in DOMAIN rest, NEW j \in DOMAIN rest, rest[i].key = rest[j].key
               PROVE  i = j
    OBVIOUS
  <2>1. i + d = j + d
    BY <1>2 DEF CacheInv, IndexesAgree
  <2> QED
    BY <1>2, <1>5, <2>1
<1>10. \A j \in Key : kept[j] # NoValue <=> \E i \in DOMAIN rest : rest[i].key = j
  <2>1. \A i \in DOMAIN rest : i + d > d
    BY <1>2, <1>5
  <2>2. ASSUME NEW j \in Key
        PROVE  (\E i \in DOMAIN list : i > d /\ list[i].key = j)
                 <=> \E i \in DOMAIN rest : rest[i].key = j
    <3>1. ASSUME NEW i \in DOMAIN list, i > d, list[i].key = j
          PROVE  \E x \in DOMAIN rest : rest[x].key = j
      BY <3>1, <1>2
    <3>2. ASSUME NEW i \in DOMAIN rest, rest[i].key = j
          PROVE  \E x \in DOMAIN list : x > d /\ list[x].key = j
      BY <3>2, <1>2, <2>1
    <3> QED
      BY <3>1, <3>2
  <2> QED
    BY <1>3, <2>2
<1>11. /\ \A i, j \in DOMAIN rest : i < j => rest[i].expiration <= rest[j].expiration
       /\ \A i \in DOMAIN rest : rest[i].expiration <= now + Ttl
  <2> SUFFICES ASSUME NEW i \in DOMAIN rest
               PROVE  /\ \A j \in DOMAIN rest : i < j => rest[i].expiration <= rest[j].expiration
                      /\ rest[i].expiration <= now + Ttl
    OBVIOUS
  <2>1. \A j \in DOMAIN rest : i < j => i + d < j + d
    BY <1>2, <1>5
  <2> QED
    BY <1>2, <2>1 DEF CacheInv, ListInOrder
<1>12. CASE /\ kept[k] # NoValue
            /\ values' = kept
            /\ len' = len - d
            /\ list' = rest
  <2>1. TypeOK'
    BY <1>2, <1>4, <1>5, <1>7, <1>12 DEF TypeOK
  <2>2. IndexesAgree'
    BY <1>2, <1>5, <1>9, <1>10, <1>12 DEF IndexesAgree
  <2>3. ListInOrder'
    BY <1>7, <1>11, <1>12 DEF ListInOrder
  <2> QED
    BY <2>1, <2>2, <2>3 DEF CacheInv
<1>13. CASE /\ kept[k] = NoValue
            /\ values' = [kept EXCEPT ![k] = v]
            /\ len' = len - d + 1
            /\ list' = Append(rest, entry)
  <2>1. /\ list' \in Seq(ExpiringEntry)
        /\ Len(list') = Len(rest) + 1
        /\ DOMAIN list' = DOMAIN rest \cup {Len(rest) + 1}
        /\ list'[Len(rest) + 1] = entry
        /\ \A i \in DOMAIN rest : list'[i] = rest[i]
    BY <1>2, <1>6, <1>13
  <2>2. \A i \in DOMAIN rest : i < Len(rest) + 1
    BY <1>2, <1>5
  <2>3. TypeOK'
    <3>1. values' \in [Key -> Value \cup {NoValue}]
      BY <1>4, <1>13
    <3> QED
      BY <1>5, <1>7, <1>13, <2>1, <3>1 DEF TypeOK
  <2>4. \A i \in DOMAIN rest : rest[i].key # k
    BY <1>10, <1>13
  <2>5. IndexesAgree'
    <3>1. len' = Len(list')
      BY <1>2, <1>5, <1>13, <2>1
    <3>2. \A i, j \in DOMAIN list' : list'[i].key = list'[j].key => i = j
      BY <1>6, <1>9, <2>1, <2>4
    <3>3. \A j \in Key : values'[j] # NoValue <=> \E i \in DOMAIN list' : list'[i].key = j
      <4> SUFFICES ASSUME NEW j \in Key
                   PROVE  values'[j] # NoValue <=> \E i \in DOMAIN list' : list'[i].key = j
        OBVIOUS
      <4>1. CASE j = k
        BY <4>1, <1>4, <1>5, <1>6, <1>13, <2>1
      <4>2. CASE j # k
        <5>1. values'[j] = kept[j]
          BY <4>2, <1>4, <1>13
        <5>2. (\E i \in DOMAIN list' : list'[i].key = j) <=> \E i \in DOMAIN rest : rest[i].key = j
          BY <4>2, <1>6, <2>1
        <5> QED
          BY <1>10, <5>1, <5>2
      <4> QED
        BY <4>1, <4>2
    <3> QED
      BY <3>1, <3>2, <3>3 DEF IndexesAgree
  <2>6. ListInOrder'
    <3>1. \A i \in DOMAIN rest : list'[i].expiration <= now + Ttl
      BY <1>11, <2>1
    <3>2. \A i, j \in DOMAIN list' : i < j => list'[i].expiration <= list'[j].expiration
      <4> SUFFICES ASSUME NEW i \in DOMAIN list', NEW j \in DOMAIN list', i < j
                   PROVE  list'[i].expiration <= list'[j].expiration
        OBVIOUS
      <4>1. i \in DOMAIN rest
        BY <2>1, <2>2, <1>2, <1>5
      <4>2. CASE j \in DOMAIN rest
        BY <4>1, <4>2, <2>1, <1>11
      <4>3. CASE j = Len(rest) + 1
        BY <4>1, <4>3, <2>1, <3>1, <1>6
      <4> QED
        BY <2>1, <4>2, <4>3
    <3>3. \A i \in DOMAIN list' : list'[i].expiration <= now' + Ttl
      BY <1>5, <1>6, <1>7, <2>1, <3>1
    <3> QED
      BY <3>2, <3>3 DEF ListInOrder
  <2> QED
    BY <2>3, <2>5, <2>6 DEF CacheInv
<1> QED
  BY <1>8, <1>12, <1>13

\* The empty cache satisfies CacheInv.
LEMMA InitInv ==
  ASSUME Init
  PROVE  CacheInv
<1>1. DOMAIN list = {} /\ Len(list) = 0 /\ list \in Seq(ExpiringEntry)
  BY DEF Init
<1>2. TypeOK
  <2>1. values \in [Key -> Value \cup {NoValue}]
    BY DEF Init
  <2>2. now \in Nat /\ len = 0
    BY DEF Init
  <2>3. accepted \in BOOLEAN
    BY Zenon DEF Init
  <2> QED
    BY <1>1, <2>1, <2>2, <2>3 DEF TypeOK
<1>3. IndexesAgree
  BY <1>1 DEF Init, IndexesAgree
<1>4. ListInOrder
  BY <1>1 DEF ListInOrder
<1> QED
  BY <1>2, <1>3, <1>4 DEF CacheInv

\* Every step keeps CacheInv.
LEMMA NextInv ==
  ASSUME CacheInv, [Next]_vars
  PROVE  CacheInv'
<1>1. CASE UNCHANGED vars
  BY <1>1 DEF vars, CacheInv, TypeOK, IndexesAgree, ListInOrder
<1>2. CASE Tick
  <2>1. TypeOK' /\ IndexesAgree'
    BY <1>2 DEF Tick, CacheInv, TypeOK, IndexesAgree
  <2>2. \A i \in DOMAIN list : list[i] \in ExpiringEntry
    BY DEF CacheInv, TypeOK
  <2>3. \A i \in DOMAIN list : list[i].expiration \in Nat
    BY <2>2 DEF ExpiringEntry
  <2>4. now' = now + 1 /\ list' = list /\ now \in Nat /\ Ttl \in Nat
    BY <1>2, CacheAssumption DEF Tick, CacheInv, TypeOK
  <2>5. \A i \in DOMAIN list : list[i].expiration <= now + Ttl
    BY DEF CacheInv, ListInOrder
  <2>6. \A i \in DOMAIN list : list[i].expiration <= now' + Ttl
    BY <2>3, <2>4, <2>5
  <2> QED
    BY <2>1, <2>4, <2>6 DEF CacheInv, ListInOrder
<1>3. CASE \E k \in Key, v \in Value : Insert(k, v)
  BY <1>3, InsertInv
<1> QED
  BY <1>1, <1>2, <1>3 DEF Next

\* The counter, the map and the queue of the duplicate cache never disagree
\* and the queue stays in order of expiration: `len -= 1' cannot wrap, and
\* remove_expired_values stops at an entry behind which none is expired.
THEOREM CacheConsistent == Spec => [](IndexesAgree /\ ListInOrder)
<1>1. Init => CacheInv
  BY InitInv
<1>2. CacheInv /\ [Next]_vars => CacheInv'
  BY NextInv
<1>3. CacheInv => IndexesAgree /\ ListInOrder
  BY DEF CacheInv
<1> QED
  BY <1>1, <1>2, <1>3, PTL DEF Spec

\* The order of expiration by itself: what lets remove_expired_values stop at
\* the first entry that has not expired.
THEOREM CacheOrdered == Spec => []ListInOrder
  BY CacheConsistent, PTL

-----------------------------------------------------------------------------
(* Refinement.                                                             *)

\* With distinct keys the expiry of a key is that of its entry.
LEMMA ExpirationOfQueued ==
  ASSUME NEW q, \A i, j \in DOMAIN q : q[i].key = q[j].key => i = j
  PROVE  /\ \A i \in DOMAIN q : ExpirationOf(q, q[i].key) = q[i].expiration
         /\ \A k : (~\E i \in DOMAIN q : q[i].key = k) => ExpirationOf(q, k) = 0
<1>1. ASSUME NEW i \in DOMAIN q
      PROVE  ExpirationOf(q, q[i].key) = q[i].expiration
  <2> DEFINE c == CHOOSE j \in DOMAIN q : q[j].key = q[i].key
  <2>1. c \in DOMAIN q /\ q[c].key = q[i].key
    OBVIOUS
  <2>2. c = i
    BY <2>1
  <2>3. ExpirationOf(q, q[i].key) = q[c].expiration
    BY DEF ExpirationOf
  <2> QED
    BY <2>2, <2>3
<1>2. \A k : (~\E i \in DOMAIN q : q[i].key = k) => ExpirationOf(q, k) = 0
  BY DEF ExpirationOf
<1> QED
  BY <1>1, <1>2

\* A key is live in the abstract map exactly when its entry is not popped.
LEMMA LiveIsKept ==
  ASSUME CacheInv, NEW d \in 0 .. Len(list), Expired(d), NEW k \in Key
  PROVE  ExpirationOf(list, k) > now <=> ValuesWithout(d)[k] # NoValue
<1>0. /\ \A i \in DOMAIN list : ExpirationOf(list, list[i].key) = list[i].expiration
      /\ \A j : (~\E i \in DOMAIN list : list[i].key = j) => ExpirationOf(list, j) = 0
  BY ExpirationOfQueued DEF CacheInv, IndexesAgree
<1>1. \A i \in DOMAIN list : list[i].expiration > now <=> i > d
  BY PoppedEntries
<1>2. ValuesWithout(d)[k] # NoValue <=> \E i \in DOMAIN list : i > d /\ list[i].key = k
  BY RemainingValues
<1>3. CASE \E i \in DOMAIN list : list[i].key = k
  <2>1. PICK i \in DOMAIN list : list[i].key = k
    BY <1>3
  <2>2. ExpirationOf(list, k) = list[i].expiration
    BY <2>1, <1>0
  <2>3. \A j \in DOMAIN list : list[j].key = k => j = i
    BY <2>1 DEF CacheInv, IndexesAgree
  <2> QED
    BY <1>1, <1>2, <2>1, <2>2, <2>3
<1>4. CASE ~\E i \in DOMAIN list : list[i].key = k
  <2>1. ExpirationOf(list, k) = 0 /\ now \in Nat
    BY <1>4, <1>0 DEF CacheInv, TypeOK
  <2> QED
    BY <1>2, <1>4, <2>1
<1> QED
  BY <1>3, <1>4

\* What an insertion does to the expiries, seen from the abstract map.
LEMMA InsertExpirations ==
  ASSUME CacheInv, CacheInv', NEW k \in Key, NEW v \in Value, NEW d \in 0 .. Len(list), Expired(d),
         \/ /\ ValuesWithout(d)[k] = NoValue
            /\ list' = Append(SubSeq(list, d + 1, Len(list)),
                              [key |-> k, expiration |-> now + Ttl])
         \/ /\ ValuesWithout(d)[k] # NoValue
            /\ list' = SubSeq(list, d + 1, Len(list))
  PROVE  \A j \in Key : ExpirationOf(list', j) =
           IF ExpirationOf(list, j) > now THEN ExpirationOf(list, j) ELSE IF j = k THEN now + Ttl ELSE 0
<1> DEFINE rest == SubSeq(list, d + 1, Len(list))
           entry == [key |-> k, expiration |-> now + Ttl]
<1>1. /\ rest \in Seq(ExpiringEntry)
      /\ Len(rest) = Len(list) - d
      /\ DOMAIN rest = 1 .. (Len(list) - d)
      /\ \A j \in DOMAIN rest : j + d \in DOMAIN list /\ rest[j] = list[j + d]
      /\ \A i \in DOMAIN list : i > d => i - d \in DOMAIN rest /\ rest[i - d] = list[i]
      /\ \A i \in DOMAIN list : list[i].expiration > now <=> i > d
  BY PoppedEntries
<1>2. entry \in ExpiringEntry /\ entry.key = k /\ entry.expiration = now + Ttl
  BY CacheAssumption DEF ExpiringEntry, CacheInv, TypeOK
<1>3. \/ ValuesWithout(d)[k] = NoValue /\ list' = Append(rest, entry)
      \/ ValuesWithout(d)[k] # NoValue /\ list' = rest
  OBVIOUS
<1> HIDE DEF rest, entry
<1>4. /\ \A i \in DOMAIN rest : i \in DOMAIN list' /\ list'[i] = rest[i]
      /\ ValuesWithout(d)[k] = NoValue =>
           /\ Len(rest) + 1 \in DOMAIN list'
           /\ list'[Len(rest) + 1] = entry
      /\ \A i \in DOMAIN list' : i \in DOMAIN rest
           \/ (ValuesWithout(d)[k] = NoValue /\ list'[i] = entry)
  BY <1>1, <1>2, <1>3
<1>5. /\ \A i \in DOMAIN list' : ExpirationOf(list', list'[i].key) = list'[i].expiration
      /\ \A j \in Key : (~\E i \in DOMAIN list' : list'[i].key = j) => ExpirationOf(list', j) = 0
  <2>1. \A i, j \in DOMAIN list' : list'[i].key = list'[j].key => i = j
    BY DEF CacheInv, IndexesAgree
  <2> QED
    BY <2>1, ExpirationOfQueued
<1> SUFFICES ASSUME NEW j \in Key
             PROVE  ExpirationOf(list', j) =
                      IF ExpirationOf(list, j) > now THEN ExpirationOf(list, j)
                      ELSE IF j = k THEN now + Ttl ELSE 0
  OBVIOUS
<1>6. ExpirationOf(list, j) > now <=> ValuesWithout(d)[j] # NoValue
  BY LiveIsKept
<1>7. CASE ExpirationOf(list, j) > now
  <2>1. PICK i \in DOMAIN list : i > d /\ list[i].key = j
    BY <1>6, <1>7, RemainingValues
  <2>2. ExpirationOf(list, j) = list[i].expiration
    BY <2>1, ExpirationOfQueued DEF CacheInv, IndexesAgree
  <2>3. i - d \in DOMAIN list' /\ list'[i - d] = list[i]
    BY <1>1, <1>4, <2>1
  <2>4. ExpirationOf(list', j) = list[i].expiration
    BY <1>5, <2>1, <2>3
  <2> QED
    BY <1>7, <2>2, <2>4
<1>8. CASE ~(ExpirationOf(list, j) > now) /\ j = k
  <2>1. Len(rest) + 1 \in DOMAIN list' /\ list'[Len(rest) + 1] = entry
    BY <1>4, <1>6, <1>8
  <2> QED
    BY <1>2, <1>5, <1>8, <2>1
<1>9. CASE ~(ExpirationOf(list, j) > now) /\ j # k
  <2>1. ~\E i \in DOMAIN list : i > d /\ list[i].key = j
    BY <1>6, <1>9, RemainingValues
  <2>2. d \in Nat /\ \A i \in DOMAIN rest : i + d > d
    BY <1>1
  <2>3. ~\E i \in DOMAIN rest : rest[i].key = j
    BY <1>1, <2>1, <2>2
  <2>4. ~\E i \in DOMAIN list' : list'[i].key = j
    BY <1>2, <1>4, <1>9, <2>3
  <2> QED
    BY <1>5, <1>9, <2>4
<1> QED
  BY <1>7, <1>8, <1>9

\* The duplicate cache implements the expiring map, for every set of keys and
\* values and every cache_time: insert accepts a key exactly when it was not
\* accepted within the last cache_time, and forgets exactly the expired keys.
THEOREM CacheRefines == Spec => ImplementsExpiringMap
<1> DEFINE expiry == [k \in Key |-> ExpirationOf(list, k)]
<1>1. Init => CacheInv
  BY InitInv
<1>2. Init => Abstract!Init
  BY DEF Init, Abstract!Init, ExpirationOf
<1>3. CacheInv /\ CacheInv' /\ [Next]_vars => [Abstract!Next]_Abstract!vars
  <2> SUFFICES ASSUME CacheInv, CacheInv', [Next]_vars
               PROVE  [Abstract!Next]_Abstract!vars
    OBVIOUS
  <2>1. CASE UNCHANGED vars
    BY <2>1 DEF vars, Abstract!vars, ExpirationOf
  <2>2. CASE Tick
    <3>1. Abstract!Tick
      BY <2>2 DEF Tick, Abstract!Tick, ExpirationOf
    <3> QED
      BY <3>1 DEF Abstract!Next
  <2>3. ASSUME NEW k \in Key, NEW v \in Value, Insert(k, v)
        PROVE  Abstract!Insert(k, v)
    <3>1. PICK d \in 0 .. Len(list) :
            /\ Expired(d)
            /\ accepted' = (ValuesWithout(d)[k] = NoValue)
            /\ \/ /\ ValuesWithout(d)[k] = NoValue
                  /\ values' = [ValuesWithout(d) EXCEPT ![k] = v]
                  /\ list' = Append(SubSeq(list, d + 1, Len(list)),
                                    [key |-> k, expiration |-> now + Ttl])
               \/ /\ ValuesWithout(d)[k] # NoValue
                  /\ values' = ValuesWithout(d)
                  /\ list' = SubSeq(list, d + 1, Len(list))
            /\ UNCHANGED now
      BY <2>3 DEF Insert
    <3>2. \A j \in Key : Abstract!Live(j) <=> ValuesWithout(d)[j] # NoValue
      BY <3>1, LiveIsKept DEF Abstract!Live
    <3>3. accepted' = ~Abstract!Live(k)
      BY <3>1, <3>2
    <3>4. \A j \in Key : ValuesWithout(d)[j] # NoValue => ValuesWithout(d)[j] = values[j]
      BY <3>1, RemainingValues
    <3>5. values' = [j \in Key |-> IF Abstract!Live(j) THEN values[j]
                                   ELSE IF j = k THEN v ELSE NoValue]
      <4>1. ValuesWithout(d) = [j \in Key |-> ValuesWithout(d)[j]]
        BY DEF ValuesWithout
      <4>2. values' = [j \in Key |-> IF ValuesWithout(d)[j] # NoValue THEN ValuesWithout(d)[j]
                                     ELSE IF j = k THEN v ELSE NoValue]
        BY <3>1, <4>1
      <4> QED
        BY <3>2, <3>4, <4>2
    <3>6. expiry' = [j \in Key |-> IF Abstract!Live(j) THEN expiry[j]
                                   ELSE IF j = k THEN now + Ttl ELSE 0]
      <4>1. \A j \in Key : ExpirationOf(list', j) =
              IF ExpirationOf(list, j) > now THEN ExpirationOf(list, j)
              ELSE IF j = k THEN now + Ttl ELSE 0
        BY <3>1, InsertExpirations
      <4> QED
        BY <4>1 DEF Abstract!Live
    <3> QED
      BY <3>1, <3>3, <3>5, <3>6 DEF Abstract!Insert
  <2> QED
    BY <2>1, <2>2, <2>3 DEF Next, Abstract!Next
<1>4. CacheInv /\ [Next]_vars => CacheInv'
  BY NextInv
<1> QED
  BY <1>1, <1>2, <1>3, <1>4, PTL DEF Spec, ImplementsExpiringMap, Abstract!Spec
=============================================================================
