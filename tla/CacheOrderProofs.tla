-------------------------- MODULE CacheOrderProofs --------------------------
(***************************************************************************)
(* Theorems about the order of the keys in Cache's buckets, and about what *)
(* a sweep that stops early leaves behind because of it.                   *)
(***************************************************************************)
EXTENDS CacheProofs

-----------------------------------------------------------------------------
(* Buckets that keep their order                                           *)

\* What comes before something in s came before it in t.
InOrderOf(s, t) ==
    \A i, j \in 1..Len(s) : i < j =>
      \E p, q \in 1..Len(t) : p < q /\ t[p] = s[i] /\ t[q] = s[j]

\* Taking a key out of a bucket keeps the others in their order.
LEMMA WithoutOrder ==
    ASSUME NEW keys \in Seq(Keys), NEW k
    PROVE  InOrderOf(Without(keys, k), keys)
<1>1. CASE k \notin Range(keys)
  BY <1>1 DEF Without, InOrderOf
<1>2. CASE k \in Range(keys)
  <2> DEFINE n == CHOOSE j \in DOMAIN keys : keys[j] = k
             s == SubSeq(keys, 1, n - 1)
             t == SubSeq(keys, n + 1, Len(keys))
  <2>1. n \in 1..Len(keys)
    BY <1>2 DEF Range
  <2>2. /\ s \in Seq(Keys) /\ Len(s) = n - 1
        /\ \A j \in 1..(n - 1) : s[j] = keys[j]
    <3> HIDE DEF n
    <3> QED BY <2>1
  <2>3. /\ t \in Seq(Keys) /\ Len(t) = Len(keys) - n
        /\ \A j \in 1..(Len(keys) - n) : t[j] = keys[n + j]
    <3> HIDE DEF n
    <3> QED BY <2>1
  <2> DEFINE r == s \o t
  <2>4. Without(keys, k) = r
    BY <1>2 DEF Without
  <2> HIDE DEF n, s, t
  <2>5. /\ Len(r) = Len(s) + Len(t)
        /\ \A j \in 1..(Len(s) + Len(t)) :
             r[j] = IF j <= Len(s) THEN s[j] ELSE t[j - Len(s)]
    BY <2>2, <2>3, ConcatProperties
  <2> HIDE DEF r
  <2> DEFINE at(j) == IF j < n THEN j ELSE j + 1
  <2>6. ASSUME NEW j \in 1..Len(r) PROVE at(j) \in 1..Len(keys) /\ r[j] = keys[at(j)]
    <3>1. CASE j < n
      BY <2>1, <2>2, <2>3, <2>5, <3>1
    <3>2. CASE ~(j < n)
      <4>1. j - (n - 1) \in 1..(Len(keys) - n) /\ r[j] = t[j - (n - 1)]
        BY <2>1, <2>2, <2>3, <2>5, <3>2
      <4>2. n + (j - (n - 1)) = j + 1
        BY <2>1
      <4> QED BY <2>1, <2>3, <3>2, <4>1, <4>2
    <3> QED BY <3>1, <3>2
  <2>7. \A i, j \in 1..Len(r) : i < j => at(i) < at(j)
    BY <2>1, <2>2, <2>3, <2>5
  <2> HIDE DEF at
  <2> QED BY <2>4, <2>6, <2>7 DEF InOrderOf
<1> QED BY <1>1, <1>2

\* So does cutting off its head.
LEMMA CutOrder ==
    ASSUME NEW keys \in Seq(Keys), NEW n \in Nat
    PROVE  InOrderOf(Splice(keys, n), keys)
<1> DEFINE r == SubSeq(keys, n + 1, Len(keys))
<1>1. /\ r \in Seq(Keys)
      /\ Len(r) = IF n < Len(keys) THEN Len(keys) - n ELSE 0
      /\ \A j \in 1..(Len(keys) - n) : r[j] = keys[n + j]
  BY SubSeqProperties
<1> HIDE DEF r
<1>2. ASSUME NEW i \in 1..Len(r), NEW j \in 1..Len(r), i < j
      PROVE  \E p, q \in 1..Len(keys) : p < q /\ keys[p] = r[i] /\ keys[q] = r[j]
  <2>1. /\ n + i \in 1..Len(keys) /\ n + j \in 1..Len(keys) /\ n + i < n + j
        /\ keys[n + i] = r[i] /\ keys[n + j] = r[j]
    BY <1>1, <1>2
  <2> QED BY <2>1
<1> QED BY <1>2 DEF InOrderOf, Splice, r

LEMMA SameOrder == ASSUME NEW keys PROVE InOrderOf(keys, keys)
BY DEF InOrderOf

-----------------------------------------------------------------------------
(* The order of the entries' dates                                         *)

\* No entry is from the future.
DatesPast ==
    clockRan = "forward" => \A k \in DOMAIN items : items[k].date <= now

\* Entries that go, and buckets that lose keys, leave what is left in order.
LEMMA OrderKept ==
    ASSUME IInv, DatesPast, FiledInOrder, clockRan' = clockRan, now' \in Nat, now <= now',
           DOMAIN items' \subseteq DOMAIN items,
           \A x \in DOMAIN items' : items'[x] = items[x],
           \A t : InOrderOf(Bucket(t)', Bucket(t))
    PROVE  DatesPast' /\ FiledInOrder'
<1>1. DatesPast'
  BY DEF DatesPast, IInv, TypeOK, Entry
<1>2. FiledInOrder'
  <2> SUFFICES ASSUME clockRan = "forward", NEW ttl \in DOMAIN recentlyUsedKeys',
                      NEW i \in 1..Len(Bucket(ttl)'), NEW j \in 1..Len(Bucket(ttl)'),
                      i < j,
                      Bucket(ttl)'[i] \in DOMAIN items', Bucket(ttl)'[j] \in DOMAIN items',
                      items'[Bucket(ttl)'[i]].TTL = ttl, items'[Bucket(ttl)'[j]].TTL = ttl
               PROVE  items'[Bucket(ttl)'[i]].date <= items'[Bucket(ttl)'[j]].date
    BY DEF FiledInOrder, Held
  <2>1. PICK p \in 1..Len(Bucket(ttl)), q \in 1..Len(Bucket(ttl)) :
          p < q /\ Bucket(ttl)[p] = Bucket(ttl)'[i] /\ Bucket(ttl)[q] = Bucket(ttl)'[j]
    BY DEF InOrderOf
  <2>2. ttl \in DOMAIN recentlyUsedKeys
    BY <2>1 DEF Bucket
  <2> QED BY <2>1, <2>2 DEF FiledInOrder, Held
<1> QED BY <1>1, <1>2

\* The key that is filed at the end has the latest date.
LEMMA InsertOrder ==
    ASSUME IInv, DatesPast, FiledInOrder, NEW k \in Keys, NEW v \in Values,
           NEW ttl \in TTLs, Insert(k, v, ttl)
    PROVE  DatesPast' /\ FiledInOrder'
<1> DEFINE w == Without(Bucket(ttl), k)
           b == Append(w, k)
<1>1. /\ w \in Seq(Keys) /\ k \notin Range(w) /\ InOrderOf(w, Bucket(ttl))
  BY BucketType, WithoutKey, WithoutOrder
<1> HIDE DEF w
<1>2. /\ b \in Seq(Keys) /\ Len(b) = Len(w) + 1
      /\ \A j \in 1..Len(w) : b[j] = w[j]
      /\ b[Len(w) + 1] = k
  BY <1>1, AppendProperties
<1> HIDE DEF b
<1>3. /\ DOMAIN items' = DOMAIN items \cup {k}
      /\ items'[k].TTL = ttl /\ items'[k].date = now
      /\ \A x \in DOMAIN items : x # k => items'[x] = items[x]
      /\ now' = now /\ clockRan' = clockRan
  BY DEF Insert, NewEntry
<1>4. Bucket(ttl)' = b /\ \A t : t # ttl => Bucket(t)' = Bucket(t)
  BY DEF Insert, File, Bucket, b, w
<1>5. DatesPast'
  BY <1>3 DEF DatesPast, IInv, TypeOK
<1>6. FiledInOrder'
  <2> SUFFICES ASSUME clockRan = "forward", NEW t \in DOMAIN recentlyUsedKeys',
                      NEW i \in 1..Len(Bucket(t)'), NEW j \in 1..Len(Bucket(t)'), i < j,
                      Bucket(t)'[i] \in DOMAIN items', Bucket(t)'[j] \in DOMAIN items',
                      items'[Bucket(t)'[i]].TTL = t, items'[Bucket(t)'[j]].TTL = t
               PROVE  items'[Bucket(t)'[i]].date <= items'[Bucket(t)'[j]].date
    BY <1>3 DEF FiledInOrder, Held
  <2>1. CASE t # ttl
    <3>1. Bucket(t)' = Bucket(t) /\ t \in DOMAIN recentlyUsedKeys
      BY <1>4, <2>1 DEF Bucket
    <3>2. Bucket(t)[i] # k /\ Bucket(t)[j] # k
      BY <1>3, <2>1, <3>1
    <3> QED BY <1>3, <3>1, <3>2 DEF FiledInOrder, Held
  <2>2. CASE t = ttl
    <3>1. i \in 1..Len(w) /\ b[i] = w[i] /\ b[i] # k
      BY <1>1, <1>2, <1>4, <2>2 DEF Range
    <3>2. b[i] \in DOMAIN items /\ items'[b[i]] = items[b[i]]
      BY <1>3, <1>4, <2>2, <3>1
    <3>3. CASE j = Len(w) + 1
      BY <1>2, <1>3, <1>4, <2>2, <3>2, <3>3 DEF DatesPast
    <3>4. CASE j # Len(w) + 1
      <4>1. j \in 1..Len(w) /\ b[j] = w[j] /\ b[j] # k
        BY <1>1, <1>2, <1>4, <2>2, <3>4 DEF Range
      <4>2. b[j] \in DOMAIN items /\ items'[b[j]] = items[b[j]]
        BY <1>3, <1>4, <2>2, <4>1
      <4>3. PICK p \in 1..Len(Bucket(ttl)), q \in 1..Len(Bucket(ttl)) :
              p < q /\ Bucket(ttl)[p] = b[i] /\ Bucket(ttl)[q] = b[j]
        BY <1>1, <3>1, <4>1 DEF InOrderOf
      <4>4. ttl \in DOMAIN recentlyUsedKeys
        BY <4>3 DEF Bucket
      <4>5. items[b[i]].TTL = ttl /\ items[b[j]].TTL = ttl
        BY <1>4, <2>2, <3>2, <4>2
      <4>6. items[b[i]].date <= items[b[j]].date
        BY <3>2, <4>2, <4>3, <4>4, <4>5 DEF FiledInOrder, Held
      <4> QED BY <1>4, <2>2, <3>2, <4>2, <4>6
    <3> QED BY <3>3, <3>4
  <2> QED BY <2>1, <2>2
<1> QED BY <1>5, <1>6

-----------------------------------------------------------------------------
(* What a sweep leaves behind                                              *)

\* What has been through the sweep and has expired is behind a stray key.
ScannedSoFar ==
    sweep.phase \in {"scan", "confirm"} /\ clockRan = "forward" =>
      \A k \in DOMAIN items :
        items[k].TTL \notin sweep.todo /\ Expired(items[k]) => BehindStray(k)

OrderInv ==
    /\ IInv
    /\ DatesPast
    /\ FiledInOrder
    /\ ScannedSoFar
    /\ sweep.phase = "confirm" => sweep.todo = {}

\* A key stays behind a stray one if its bucket stays and entries only go.
LEMMA StrayKept ==
    ASSUME NEW k \in DOMAIN items', BehindStray(k),
           DOMAIN items' \subseteq DOMAIN items,
           \A x \in DOMAIN items' : items'[x] = items[x],
           Bucket(items[k].TTL)' = Bucket(items[k].TTL)
    PROVE  BehindStray(k)'
<1>1. items'[k].TTL = items[k].TTL
  OBVIOUS
<1>2. PICK i \in 1..Len(Bucket(items[k].TTL)), j \in 1..Len(Bucket(items[k].TTL)) :
        /\ i < j /\ Bucket(items[k].TTL)[j] = k
        /\ Bucket(items[k].TTL)[i] \in DOMAIN items =>
             items[Bucket(items[k].TTL)[i]].TTL # items[k].TTL
  BY DEF BehindStray, Held
<1> DEFINE b == Bucket(items[k].TTL)
<1>3. Bucket(items[k].TTL)' = b
  OBVIOUS
<1>4. b[i] \in DOMAIN items' => items'[b[i]].TTL # items'[k].TTL
  BY <1>1, <1>2
<1> HIDE DEF b
<1>5. i \in 1..Len(b) /\ j \in 1..Len(b) /\ i < j /\ b[j] = k
  BY <1>2 DEF b
<1> QED BY <1>3, <1>4, <1>5 DEF BehindStray, Held, Bucket

\* A bucket is taken off the list when it is empty: no entry is filed there.
LEMMA EmptyBucketOrder ==
    ASSUME OrderInv, NEW ttl \in sweep.todo, sweep.phase = "scan",
           SweepEmptyBucket(ttl), UNCHANGED <<now, clockRan, reply>>
    PROVE  DatesPast' /\ FiledInOrder' /\ ScannedSoFar' /\ sweep'.phase = "scan"
<1>1. /\ Bucket(ttl) = <<>> /\ items' = items
      /\ \A t : Bucket(t)' = Bucket(t)
  BY DEF SweepEmptyBucket, Bucket, Restrict
<1>2. sweep'.phase = "scan" /\ sweep'.todo = sweep.todo \ {ttl}
  BY DEF SweepEmptyBucket, OrderInv, IInv, TypeOK
<1>3. DatesPast' /\ FiledInOrder'
  <2>1. \A t : InOrderOf(Bucket(t)', Bucket(t))
    BY <1>1, SameOrder
  <2>2. now' \in Nat /\ now <= now'
    BY CacheAssumption DEF OrderInv, IInv, TypeOK
  <2> QED BY <1>1, <2>1, <2>2, OrderKept DEF OrderInv
<1>4. ScannedSoFar'
  <2> SUFFICES ASSUME clockRan = "forward", NEW k \in DOMAIN items,
                      items[k].TTL \notin sweep'.todo, Expired(items[k])
               PROVE  BehindStray(k)'
    BY <1>1 DEF ScannedSoFar, Expired
  <2>1. k \in Range(Bucket(items[k].TTL))
    BY DEF OrderInv, IInv, KeyFiled
  <2>2. items[k].TTL # ttl
    BY <1>1, <2>1 DEF Range
  <2>3. BehindStray(k)
    BY <1>2, <2>2 DEF OrderInv, ScannedSoFar
  <2> QED BY <1>1, <2>3, StrayKept
<1> QED BY <1>2, <1>3, <1>4

\* The inner loop stops at a key that holds no expired entry.  If one behind it
\* does, then its date is earlier, and the two are not filed under one TTL.
LEMMA SweepKeysOrder ==
    ASSUME OrderInv, NEW ttl \in sweep.todo, sweep.phase = "scan",
           NEW n \in 0..Len(Bucket(ttl)), SweepKeys(ttl, n),
           UNCHANGED <<now, clockRan, reply>>
    PROVE  DatesPast' /\ FiledInOrder' /\ ScannedSoFar' /\ sweep'.phase = "scan"
<1> DEFINE b == Bucket(ttl)
           cut == IF n < Len(b) THEN n ELSE sweep.deleteTo
<1>0. IInv /\ ttl \in TTLs /\ b \in Seq(Keys)
  BY BucketType DEF OrderInv, IInv, TypeOK
<1>1. /\ DOMAIN items' \subseteq DOMAIN items
      /\ \A x \in DOMAIN items' : items'[x] = items[x]
      /\ ttl \in DOMAIN recentlyUsedKeys
      /\ sweep'.phase = "scan" /\ sweep'.todo = sweep.todo \ {ttl}
  <2>1. sweep' = [sweep EXCEPT !.todo = sweep.todo \ {ttl}, !.deleteTo = sweep'.deleteTo]
    BY <1>0, SweepKeysStep
  <2>2. sweep'.phase = "scan" /\ sweep'.todo = sweep.todo \ {ttl}
    BY <2>1, <1>0 DEF IInv, TypeOK
  <2> QED BY <1>0, <2>2, SweepKeysStep
<1>2. cut \in Nat
  BY <1>0 DEF IInv, TypeOK
<1>3. /\ ExpiredHead(b, n)
      /\ items' = Restrict(items, DOMAIN items \ {b[i] : i \in 1..n})
      /\ recentlyUsedKeys' = [recentlyUsedKeys EXCEPT ![ttl] = Splice(b, cut)]
  BY DEF SweepKeys
<1>4. Bucket(ttl)' = Splice(b, cut) /\ \A t : t # ttl => Bucket(t)' = Bucket(t)
  <2> HIDE DEF cut
  <2> QED BY <1>1, <1>3 DEF Bucket
<1> HIDE DEF b, cut
<1>5. DatesPast' /\ FiledInOrder'
  <2>1. \A t : InOrderOf(Bucket(t)', Bucket(t))
    BY <1>0, <1>2, <1>4, CutOrder, SameOrder DEF b
  <2>2. now' \in Nat /\ now <= now'
    BY <1>0, CacheAssumption DEF IInv, TypeOK
  <2> QED BY <1>0, <1>1, <2>1, <2>2, OrderKept DEF OrderInv
<1>6. ASSUME clockRan = "forward", NEW k \in DOMAIN items', items[k].TTL = ttl,
             Expired(items[k])
      PROVE  BehindStray(k)'
  <2>1. PICK j \in 1..Len(b) : b[j] = k
    BY <1>0, <1>1, <1>6 DEF IInv, KeyFiled, Range, b
  <2>2. k \notin {b[i] : i \in 1..n}
    BY <1>3 DEF Restrict
  <2>3. j > n
    BY <2>1, <2>2
  <2>4. n < Len(b) /\ cut = n /\ ~HeldExpired(b[n + 1])
    BY <1>0, <1>3, <2>1, <2>3 DEF ExpiredHead, cut, b
  <2>5. j > n + 1
    BY <1>1, <1>6, <2>1, <2>3, <2>4 DEF HeldExpired, Held
  <2>6. ASSUME b[n + 1] \in DOMAIN items PROVE items[b[n + 1]].TTL # ttl
    <3> SUFFICES ASSUME items[b[n + 1]].TTL = ttl PROVE FALSE
      OBVIOUS
    <3>1. ~Expired(items[b[n + 1]])
      BY <2>4, <2>6 DEF HeldExpired, Held
    <3>2. items[b[n + 1]].date <= items[k].date
      <4>1. n + 1 \in 1..Len(b) /\ n + 1 < j
        BY <2>4, <2>5
      <4> QED BY <1>1, <1>6, <2>1, <2>6, <4>1 DEF OrderInv, FiledInOrder, Held, b
    <3>3. items[b[n + 1]] \in Entry /\ items[k] \in Entry /\ now \in Nat
      BY <1>0, <1>1, <2>6 DEF IInv, TypeOK
    <3>4. items[b[n + 1]].date \in Nat /\ items[k].date \in Nat /\ ttl \in Nat
      BY <1>0, <3>3, CacheAssumption DEF Entry
    <3>5. \A x, y, t, m \in Nat : x <= y /\ y + t <= m => x + t <= m
      OBVIOUS
    <3>6. items[k].date + ttl <= now
      BY <1>6 DEF Expired
    <3>7. items[b[n + 1]].date + ttl <= now
      BY <3>2, <3>3, <3>4, <3>5, <3>6
    <3> QED BY <3>1, <3>7 DEF Expired
  <2> DEFINE c == Bucket(ttl)'
  <2>7. /\ Len(c) = Len(b) - n
        /\ \A i \in 1..(Len(b) - n) : c[i] = b[n + i]
    BY <1>0, <1>4, <2>4, SubSeqProperties DEF Splice
  <2> HIDE DEF c
  <2>8. /\ 1 \in 1..Len(c) /\ j - n \in 1..Len(c) /\ 1 < j - n
        /\ c[1] = b[n + 1] /\ c[j - n] = k
    <3>1. n + (j - n) = j
      OBVIOUS
    <3> QED BY <1>0, <2>1, <2>4, <2>5, <2>7, <3>1
  <2>9. items'[k].TTL = ttl
    BY <1>1, <1>6
  <2>10. c[1] \in DOMAIN items' => items'[c[1]].TTL # ttl
    BY <1>1, <2>6, <2>8
  <2> QED BY <2>8, <2>9, <2>10 DEF BehindStray, Held, Bucket, c
<1>7. ScannedSoFar'
  <2> SUFFICES ASSUME clockRan = "forward", NEW k \in DOMAIN items',
                      items[k].TTL \notin sweep'.todo, Expired(items[k])
               PROVE  BehindStray(k)'
    BY <1>1 DEF ScannedSoFar, Expired
  <2>1. CASE items[k].TTL = ttl
    BY <1>6, <2>1
  <2>2. CASE items[k].TTL # ttl
    <3>1. BehindStray(k)
      BY <1>1, <2>2 DEF OrderInv, ScannedSoFar
    <3> QED BY <1>1, <1>4, <2>2, <3>1, StrayKept
  <2> QED BY <2>1, <2>2
<1> QED BY <1>1, <1>5, <1>7

LEMMA SweepBucketOrder ==
    ASSUME OrderInv, SweepBucket
    PROVE  DatesPast' /\ FiledInOrder' /\ ScannedSoFar' /\ sweep'.phase = "scan"
<1>1. PICK ttl \in sweep.todo :
         SweepEmptyBucket(ttl) \/ \E n \in 0..Len(Bucket(ttl)) : SweepKeys(ttl, n)
  BY DEF SweepBucket
<1>2. sweep.phase = "scan" /\ UNCHANGED <<now, clockRan, reply>>
  BY DEF SweepBucket
<1>3. CASE SweepEmptyBucket(ttl)
  BY <1>2, <1>3, EmptyBucketOrder
<1>4. ASSUME NEW n \in 0..Len(Bucket(ttl)), SweepKeys(ttl, n)
      PROVE  DatesPast' /\ FiledInOrder' /\ ScannedSoFar' /\ sweep'.phase = "scan"
  BY <1>2, <1>4, SweepKeysOrder
<1> QED BY <1>1, <1>3, <1>4

-----------------------------------------------------------------------------
(* The invariant and the theorems                                          *)

LEMMA InitOrder == Init => OrderInv
<1> SUFFICES ASSUME Init PROVE OrderInv
  OBVIOUS
<1>1. IInv
  BY InitIInv
<1>2. items = Empty /\ recentlyUsedKeys = Empty /\ sweep.phase = "idle"
  BY DEF Init, NotSweeping
<1> QED BY <1>1, <1>2 DEF OrderInv, DatesPast, FiledInOrder, ScannedSoFar, Empty

\* Steps that are not part of a sweep.
LEMMA QuietOrder ==
    ASSUME OrderInv, sweep'.phase \in {"idle", "threw"}, DatesPast', FiledInOrder', IInv'
    PROVE  OrderInv'
BY DEF OrderInv, ScannedSoFar

LEMMA OrderKeptByNext == OrderInv /\ [Next]_vars => OrderInv'
<1> SUFFICES ASSUME OrderInv, [Next]_vars PROVE OrderInv'
  OBVIOUS
<1>0. IInv /\ IInv' /\ DatesPast /\ FiledInOrder
  BY NextIInv DEF OrderInv
<1>1. ASSUME NEW k \in Keys, NEW v \in Values, NEW ttl \in TTLOf[k], Insert(k, v, ttl)
      PROVE  OrderInv'
  <2>1. ttl \in TTLs
    BY CacheAssumption
  <2>2. sweep'.phase = "idle"
    BY <1>1 DEF Insert, Idle
  <2> QED BY <1>0, <1>1, <2>1, <2>2, InsertOrder, QuietOrder
<1>2. ASSUME NEW k \in Keys, Get(k)
      PROVE  OrderInv'
  <2>1. /\ DOMAIN items' \subseteq DOMAIN items
        /\ \A x \in DOMAIN items' : items'[x] = items[x]
    BY <1>2 DEF Get, Restrict
  <2>2. UNCHANGED <<recentlyUsedKeys, now, clockRan, sweep>> /\ sweep.phase = "idle"
    BY <1>2 DEF Get, Idle
  <2>3. \A t : InOrderOf(Bucket(t)', Bucket(t))
    BY <2>2, SameOrder DEF Bucket
  <2>4. now' \in Nat /\ now <= now'
    BY <1>0, <2>2, CacheAssumption DEF IInv, TypeOK
  <2> QED BY <1>0, <2>1, <2>2, <2>3, <2>4, OrderKept, QuietOrder
<1>3. ASSUME NEW k \in Keys, Remove(k)
      PROVE  OrderInv'
  <2>1. UNCHANGED <<now, clockRan>> /\ sweep.phase = "idle"
    BY <1>3 DEF Remove, Idle
  <2>2. now' \in Nat /\ now <= now'
    BY <1>0, <2>1, CacheAssumption DEF IInv, TypeOK
  <2>3. CASE ~Held(k)
    <3>1. UNCHANGED <<items, recentlyUsedKeys, sweep>>
      BY <1>3, <2>3 DEF Remove
    <3>2. \A t : InOrderOf(Bucket(t)', Bucket(t))
      BY <3>1, SameOrder DEF Bucket
    <3> QED BY <1>0, <2>1, <2>2, <3>1, <3>2, OrderKept, QuietOrder
  <2>4. CASE Held(k)
    <3>0. PICK ttl : ttl = items[k].TTL
      OBVIOUS
    <3>1. ttl \in DOMAIN recentlyUsedKeys
      BY <1>0, <2>4, <3>0, RemoveFindsBucket
    <3>2. /\ items' = Restrict(items, DOMAIN items \ {k})
          /\ recentlyUsedKeys' = [recentlyUsedKeys EXCEPT ![ttl] = Without(@, k)]
          /\ sweep' = sweep
      BY <1>3, <2>4, <3>0, <3>1 DEF Remove
    <3>3. /\ DOMAIN items' \subseteq DOMAIN items
          /\ \A x \in DOMAIN items' : items'[x] = items[x]
      BY <3>2 DEF Restrict
    <3>4. Bucket(ttl)' = Without(Bucket(ttl), k) /\ \A t : t # ttl => Bucket(t)' = Bucket(t)
      BY <3>1, <3>2 DEF Bucket
    <3>5. InOrderOf(Bucket(ttl)', Bucket(ttl))
      BY <1>0, <3>4, BucketType, WithoutOrder
    <3>6. \A t : InOrderOf(Bucket(t)', Bucket(t))
      BY <3>4, <3>5, SameOrder
    <3> QED BY <1>0, <2>1, <2>2, <3>2, <3>3, <3>6, OrderKept, QuietOrder
  <2> QED BY <2>3, <2>4
<1>4. CASE SweepStart
  <2>1. /\ UNCHANGED <<items, recentlyUsedKeys, now, clockRan>>
        /\ sweep'.todo = DOMAIN recentlyUsedKeys /\ sweep'.phase = "scan"
    BY <1>4 DEF SweepStart
  <2>2. \A k \in DOMAIN items : items[k].TTL \in sweep'.todo
    <3> SUFFICES ASSUME NEW k \in DOMAIN items PROVE items[k].TTL \in DOMAIN recentlyUsedKeys
      BY <2>1
    <3>1. k \in Keys /\ Held(k)
      BY <1>0 DEF IInv, TypeOK, Held
    <3> QED BY <1>0, <3>1, RemoveFindsBucket
  <2>3. DatesPast' /\ FiledInOrder' /\ ScannedSoFar'
    BY <1>0, <2>1, <2>2 DEF DatesPast, FiledInOrder, Held, Bucket, ScannedSoFar
  <2> QED BY <1>0, <2>1, <2>3 DEF OrderInv
<1>5. CASE SweepBucket
  BY <1>0, <1>5, SweepBucketOrder DEF OrderInv
<1>6. CASE SweepScanned \/ SweepConfirm \/ UNCHANGED vars
  <2>1. UNCHANGED <<items, recentlyUsedKeys, now, clockRan>>
    BY <1>6 DEF SweepScanned, SweepConfirm, vars
  <2>2. DatesPast' /\ FiledInOrder'
    BY <1>0, <2>1 DEF DatesPast, FiledInOrder, Held, Bucket
  <2>3. CASE SweepScanned \/ UNCHANGED vars
    <3>1. /\ sweep'.todo = sweep.todo
          /\ \/ sweep'.phase = sweep.phase
             \/ sweep'.phase = "confirm" /\ sweep.phase = "scan" /\ sweep.todo = {}
      <4>1. CASE SweepScanned
        <5>1. /\ sweep' = [sweep EXCEPT !.phase = "confirm"]
              /\ sweep.phase = "scan" /\ sweep.todo = {}
          BY <4>1 DEF SweepScanned
        <5>2. sweep \in [phase : Phase, listed : SUBSET TTLs, todo : SUBSET TTLs,
                        deleteTo : Nat]
          BY <1>0 DEF IInv, TypeOK
        <5> QED BY <5>1, <5>2
      <4>2. CASE UNCHANGED vars
        BY <4>2 DEF vars
      <4> QED BY <2>3, <4>1, <4>2
    <3>2. ScannedSoFar'
      BY <2>1, <3>1 DEF OrderInv, ScannedSoFar, Expired, BehindStray, Held, Bucket
    <3> QED BY <1>0, <2>2, <3>1, <3>2 DEF OrderInv
  <2>4. CASE SweepConfirm
    <3>1. sweep'.phase \in {"idle", "threw"}
      BY <1>0, <2>4 DEF SweepConfirm, NotSweeping, IInv, TypeOK
    <3> QED BY <1>0, <2>2, <3>1, QuietOrder
  <2> QED BY <1>6, <2>3, <2>4
<1>7. CASE Tick
  <2>1. UNCHANGED <<items, recentlyUsedKeys, clockRan, sweep>> /\ sweep.phase = "idle"
    BY <1>7 DEF Tick, Idle
  <2>2. now' \in Nat /\ now <= now'
    BY <1>0, <1>7, CacheAssumption DEF Tick, IInv, TypeOK
  <2>3. \A t : InOrderOf(Bucket(t)', Bucket(t))
    BY <2>1, SameOrder DEF Bucket
  <2> QED BY <1>0, <2>1, <2>2, <2>3, OrderKept, QuietOrder
<1>8. CASE StepBack
  <2>1. sweep' = sweep /\ sweep.phase = "idle" /\ clockRan' = "back"
    BY <1>8 DEF StepBack, Idle
  <2>2. DatesPast' /\ FiledInOrder'
    BY <2>1 DEF DatesPast, FiledInOrder
  <2> QED BY <1>0, <2>1, <2>2, QuietOrder
<1>9. CASE Restart
  <2>1. items' = Empty /\ recentlyUsedKeys' = Empty /\ sweep'.phase = "idle"
    BY <1>9 DEF Restart, NotSweeping
  <2>2. DatesPast' /\ FiledInOrder'
    BY <2>1 DEF DatesPast, FiledInOrder, Empty
  <2> QED BY <1>0, <2>1, <2>2, QuietOrder
<1> QED BY <1>1, <1>2, <1>3, <1>4, <1>5, <1>6, <1>7, <1>8, <1>9 DEF Next, Sweeping

LEMMA OrderHolds == Spec => []OrderInv
<1> QED BY InitOrder, OrderKeptByNext, PTL DEF Spec

\* As long as the clock has not stepped back, the entries filed under a TTL are
\* in the order of their dates (cache.js:39-51), whatever keys move to another
\* TTL or are dropped by get.
THEOREM BucketsInOrder == Spec => []FiledInOrder
<1>1. OrderInv => FiledInOrder
  BY DEF OrderInv
<1> QED BY <1>1, OrderHolds, PTL

\* A sweep that has been through the buckets has left an expired entry only
\* behind a key whose own entry is gone or elsewhere (cache.js:155-163).
THEOREM SweepsTakeTheRest == Spec => []SweptUnlessBehindStray
<1>1. OrderInv => SweptUnlessBehindStray
  BY DEF OrderInv, ScannedSoFar, SweptUnlessBehindStray
<1> QED BY <1>1, OrderHolds, PTL
=============================================================================
