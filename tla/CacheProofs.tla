---------------------------- MODULE CacheProofs ----------------------------
(***************************************************************************)
(* Theorems about Cache, for every set of keys, TTLs and values, every     *)
(* clock and every use of remove().                                        *)
(***************************************************************************)
EXTENDS Cache, SequenceTheorems, TLAPS

\* What the invariants rest on: types, every entry's key in the bucket of its
\* TTL and no key twice in a bucket.  The last is needed for the other two to
\* be preserved, since insert files a key again after taking it out.
IInv == TypeOK /\ KeyFiled /\ NoDuplicates

-----------------------------------------------------------------------------
(* The three ways in which a bucket changes.                               *)

\* Taking a key out of a bucket leaves every other key in it, and the bucket
\* without duplicates and without that key.
LEMMA WithoutKey ==
    ASSUME NEW keys \in Seq(Keys), NEW k, Distinct(keys)
    PROVE  /\ Without(keys, k) \in Seq(Keys)
           /\ Distinct(Without(keys, k))
           /\ Range(Without(keys, k)) = Range(keys) \ {k}
<1>1. CASE k \notin Range(keys)
  BY <1>1 DEF Without
<1>2. CASE k \in Range(keys)
  <2> DEFINE i == CHOOSE j \in DOMAIN keys : keys[j] = k
             s == SubSeq(keys, 1, i - 1)
             t == SubSeq(keys, i + 1, Len(keys))
  <2>1. i \in 1..Len(keys) /\ keys[i] = k
    BY <1>2 DEF Range
  <2>2. /\ s \in Seq(Keys) /\ Len(s) = i - 1
        /\ \A j \in 1..(i - 1) : s[j] = keys[j]
    <3> HIDE DEF i
    <3> QED BY <2>1
  <2>3. /\ t \in Seq(Keys) /\ Len(t) = Len(keys) - i
        /\ \A j \in 1..(Len(keys) - i) : t[j] = keys[i + j]
    <3> HIDE DEF i
    <3> QED BY <2>1
  <2> DEFINE r == s \o t
  <2> HIDE DEF i, s, t
  <2>4. /\ r \in Seq(Keys) /\ Len(r) = Len(keys) - 1
        /\ \A j \in 1..(Len(keys) - 1) :
             r[j] = IF j < i THEN keys[j] ELSE keys[j + 1]
    <3>1. /\ r \in Seq(Keys) /\ Len(r) = Len(s) + Len(t)
          /\ \A j \in 1..(Len(s) + Len(t)) :
               r[j] = IF j <= Len(s) THEN s[j] ELSE t[j - Len(s)]
      BY <2>2, <2>3, ConcatProperties
    <3>2. Len(r) = Len(keys) - 1
      BY <2>1, <2>2, <2>3, <3>1
    <3>3. ASSUME NEW j \in 1..(Len(keys) - 1), j < i PROVE r[j] = keys[j]
      BY <2>1, <2>2, <2>3, <3>1, <3>3
    <3>4. ASSUME NEW j \in 1..(Len(keys) - 1), ~(j < i)
          PROVE  r[j] = keys[j + 1]
      <4>1. r[j] = t[j - (i - 1)] /\ j - (i - 1) \in 1..(Len(keys) - i)
        BY <2>1, <2>2, <2>3, <3>1, <3>4
      <4>2. t[j - (i - 1)] = keys[i + (j - (i - 1))]
        BY <2>3, <4>1
      <4>3. i + (j - (i - 1)) = j + 1
        BY <2>1
      <4> QED BY <4>1, <4>2, <4>3
    <3> QED BY <3>1, <3>2, <3>3, <3>4
  <2>5. Without(keys, k) = r
    BY <1>2 DEF Without, i, s, t
  <2> HIDE DEF r
  <2>6. Distinct(r)
    BY <2>1, <2>4 DEF Distinct
  <2>7. Range(r) = Range(keys) \ {k}
    <3>1. ASSUME NEW x \in Range(r) PROVE x \in Range(keys) \ {k}
      <4>1. PICK j \in 1..Len(r) : r[j] = x
        BY <2>4 DEF Range
      <4>2. CASE j < i
        BY <4>1, <4>2, <2>1, <2>4 DEF Distinct, Range
      <4>3. CASE ~(j < i)
        BY <4>1, <4>3, <2>1, <2>4 DEF Distinct, Range
      <4> QED BY <4>2, <4>3
    <3>2. ASSUME NEW x \in Range(keys) \ {k} PROVE x \in Range(r)
      <4>1. PICK j \in 1..Len(keys) : keys[j] = x /\ j # i
        BY <2>1 DEF Range
      <4>2. CASE j < i
        BY <4>1, <4>2, <2>1, <2>4 DEF Range
      <4>3. CASE j > i
        <5>1. j - 1 \in 1..Len(r) /\ r[j - 1] = x
          BY <4>1, <4>3, <2>1, <2>4
        <5> QED BY <5>1, <2>4 DEF Range
      <4> QED BY <4>1, <4>2, <4>3, <2>1
    <3> QED BY <3>1, <3>2
  <2> QED BY <2>4, <2>5, <2>6, <2>7
<1> QED BY <1>1, <1>2

\* Filing a key at the end of a bucket it is not in.
LEMMA FileKey ==
    ASSUME NEW keys \in Seq(Keys), NEW k \in Keys,
           Distinct(keys), k \notin Range(keys)
    PROVE  /\ Append(keys, k) \in Seq(Keys)
           /\ Distinct(Append(keys, k))
           /\ Range(Append(keys, k)) = Range(keys) \cup {k}
<1> DEFINE r == Append(keys, k)
<1>1. /\ r \in Seq(Keys) /\ Len(r) = Len(keys) + 1
      /\ \A j \in 1..Len(keys) : r[j] = keys[j]
      /\ r[Len(keys) + 1] = k
  BY AppendProperties
<1> HIDE DEF r
<1>2. \A j \in 1..Len(keys) : keys[j] # k
  BY DEF Range
<1>3. Distinct(r)
  BY <1>1, <1>2 DEF Distinct
<1>4. Range(r) = Range(keys) \cup {k}
  BY <1>1 DEF Range
<1> QED BY <1>1, <1>3, <1>4 DEF r

\* Cutting n keys off the head of a bucket leaves the others in their order.
LEMMA CutHead ==
    ASSUME NEW keys \in Seq(Keys), NEW n \in Nat, Distinct(keys)
    PROVE  /\ SubSeq(keys, n + 1, Len(keys)) \in Seq(Keys)
           /\ Distinct(SubSeq(keys, n + 1, Len(keys)))
           /\ \A j \in 1..Len(keys) :
                j > n => keys[j] \in Range(SubSeq(keys, n + 1, Len(keys)))
<1> DEFINE r == SubSeq(keys, n + 1, Len(keys))
<1>1. /\ r \in Seq(Keys)
      /\ Len(r) = IF n < Len(keys) THEN Len(keys) - n ELSE 0
      /\ \A j \in 1..(Len(keys) - n) : r[j] = keys[n + j]
  BY SubSeqProperties
<1> HIDE DEF r
<1>2. Distinct(r)
  BY <1>1 DEF Distinct
<1>3. ASSUME NEW j \in 1..Len(keys), j > n PROVE keys[j] \in Range(r)
  <2>1. j - n \in 1..Len(r) /\ r[j - n] = keys[j]
    BY <1>1, <1>3
  <2> QED BY <2>1, <1>1 DEF Range
<1> QED BY <1>1, <1>2, <1>3 DEF r

-----------------------------------------------------------------------------
(* The invariant.                                                          *)

LEMMA BucketType ==
    ASSUME IInv, NEW ttl
    PROVE  Bucket(ttl) \in Seq(Keys) /\ Distinct(Bucket(ttl))
BY DEF IInv, TypeOK, NoDuplicates, Bucket, Distinct

LEMMA InitIInv == Init => IInv
<1> SUFFICES ASSUME Init PROVE IInv
  OBVIOUS
<1> USE CacheAssumption DEF Init, Empty, NotSweeping, Phase
<1>1. TypeOK
  BY DEF TypeOK
<1>2. KeyFiled /\ NoDuplicates
  BY DEF KeyFiled, NoDuplicates
<1> QED BY <1>1, <1>2 DEF IInv

LEMMA InsertIInv ==
    ASSUME IInv, NEW k \in Keys, NEW v \in Values, NEW ttl \in TTLs,
           Insert(k, v, ttl)
    PROVE  IInv'
<1> DEFINE keys == Without(Bucket(ttl), k)
           new == Append(keys, k)
<1>1. /\ keys \in Seq(Keys) /\ Distinct(keys)
      /\ Range(keys) = Range(Bucket(ttl)) \ {k}
  BY BucketType, WithoutKey
<1> HIDE DEF keys
<1>2. /\ new \in Seq(Keys) /\ Distinct(new)
      /\ Range(new) = Range(Bucket(ttl)) \cup {k}
  BY <1>1, FileKey
<1> HIDE DEF new
<1>3. /\ DOMAIN recentlyUsedKeys' = DOMAIN recentlyUsedKeys \cup {ttl}
      /\ recentlyUsedKeys'[ttl] = new
      /\ \A t \in DOMAIN recentlyUsedKeys :
           t # ttl => recentlyUsedKeys'[t] = recentlyUsedKeys[t]
      /\ recentlyUsedKeys' = [t \in DOMAIN recentlyUsedKeys' |-> recentlyUsedKeys'[t]]
  BY DEF Insert, new, keys, File
<1>4. /\ DOMAIN items' = DOMAIN items \cup {k}
      /\ items'[k] = [value |-> v, TTL |-> ttl, date |-> now]
      /\ \A x \in DOMAIN items : x # k => items'[x] = items[x]
      /\ items' = [x \in DOMAIN items' |-> items'[x]]
  BY DEF Insert, NewEntry
<1>5. TypeOK'
  <2>1. items' \in [DOMAIN items' -> Entry] /\ DOMAIN items' \subseteq Keys
    BY <1>4 DEF IInv, TypeOK, Entry
  <2>2. /\ recentlyUsedKeys' \in [DOMAIN recentlyUsedKeys' -> Seq(Keys)]
        /\ DOMAIN recentlyUsedKeys' \subseteq TTLs
    BY <1>2, <1>3 DEF IInv, TypeOK
  <2> QED BY <2>1, <2>2 DEF IInv, TypeOK, Insert
<1>6. NoDuplicates'
  BY <1>2, <1>3 DEF IInv, NoDuplicates
<1>7. KeyFiled'
  <2> SUFFICES ASSUME NEW x \in DOMAIN items'
               PROVE  x \in Range(Bucket(items[x].TTL)')
    BY DEF KeyFiled, Bucket
  <2>1. CASE x = k
    <3>1. items'[x].TTL = ttl
      BY <2>1, <1>4
    <3> QED BY <3>1, <2>1, <1>2, <1>3 DEF Bucket
  <2>2. CASE x # k
    <3>1. /\ x \in DOMAIN items /\ items'[x] = items[x]
          /\ x \in Range(Bucket(items[x].TTL))
      BY <2>2, <1>4 DEF IInv, KeyFiled
    <3>2. CASE items[x].TTL = ttl
      BY <3>1, <3>2, <1>2, <1>3 DEF Bucket
    <3>3. CASE items[x].TTL # ttl
      <4>1. items[x].TTL \in DOMAIN recentlyUsedKeys
        BY <3>1 DEF Bucket, Range
      <4> QED BY <3>1, <3>3, <4>1, <1>3 DEF Bucket
    <3> QED BY <3>2, <3>3
  <2> QED BY <2>1, <2>2
<1> QED BY <1>5, <1>6, <1>7 DEF IInv

LEMMA GetIInv ==
    ASSUME IInv, NEW k \in Keys, Get(k)
    PROVE  IInv'
<1>1. /\ DOMAIN items' \subseteq DOMAIN items
      /\ \A x \in DOMAIN items' : items'[x] = items[x]
      /\ items' = [x \in DOMAIN items' |-> items'[x]]
  <2>1. CASE HeldExpired(k)
    BY <2>1 DEF Get, Restrict
  <2>2. CASE ~HeldExpired(k)
    BY <2>2 DEF Get, IInv, TypeOK
  <2> QED BY <2>1, <2>2
<1>2. reply' \in Values \cup {NotFound, NoReply}
  <2>1. CASE HeldLive(k)
    <3>1. items[k].value \in Values
      BY <2>1 DEF IInv, TypeOK, Entry, HeldLive, Held
    <3> QED BY <2>1, <3>1 DEF Get, Answer
  <2>2. CASE ~HeldLive(k)
    BY <2>2 DEF Get, Answer
  <2> QED BY <2>1, <2>2
<1>3. UNCHANGED <<recentlyUsedKeys, now, clockRan, sweep>>
  BY DEF Get
<1>4. TypeOK'
  <2>1. items' \in [DOMAIN items' -> Entry] /\ DOMAIN items' \subseteq Keys
    BY <1>1 DEF IInv, TypeOK
  <2> QED BY <2>1, <1>2, <1>3 DEF IInv, TypeOK
<1>5. NoDuplicates'
  BY <1>3 DEF IInv, NoDuplicates
<1>6. KeyFiled'
  BY <1>1, <1>3 DEF IInv, KeyFiled, Bucket
<1> QED BY <1>4, <1>5, <1>6 DEF IInv

\* KeyFiled makes the second branch of remove, the TypeError, impossible.
LEMMA RemoveFindsBucket ==
    ASSUME IInv, NEW k \in Keys, Held(k)
    PROVE  items[k].TTL \in DOMAIN recentlyUsedKeys
<1>1. k \in Range(Bucket(items[k].TTL))
  BY DEF IInv, KeyFiled, Held
<1> QED BY <1>1 DEF Bucket, Range

LEMMA RemoveIInv ==
    ASSUME IInv, NEW k \in Keys, Remove(k)
    PROVE  IInv'
<1>1. CASE ~Held(k)
  <2>1. UNCHANGED <<items, recentlyUsedKeys, now, clockRan, sweep>> /\ reply' = NoReply
    BY <1>1 DEF Remove
  <2> QED BY <2>1 DEF IInv, TypeOK, KeyFiled, NoDuplicates, Bucket
<1>2. CASE Held(k)
  <2> DEFINE ttl == items[k].TTL
             keys == Without(Bucket(ttl), k)
  <2>1. ttl \in DOMAIN recentlyUsedKeys
    BY <1>2, RemoveFindsBucket
  <2>2. /\ keys \in Seq(Keys) /\ Distinct(keys)
        /\ Range(keys) = Range(Bucket(ttl)) \ {k}
    BY BucketType, WithoutKey
  <2>3. /\ recentlyUsedKeys' = [recentlyUsedKeys EXCEPT ![ttl] = keys]
        /\ items' = Restrict(items, DOMAIN items \ {k})
        /\ UNCHANGED <<now, clockRan, sweep>>
        /\ reply' = NoReply
    BY <1>2, <2>1 DEF Remove, Bucket
  <2> HIDE DEF keys
  <2>4. /\ DOMAIN items' = DOMAIN items \ {k}
        /\ \A x \in DOMAIN items' : items'[x] = items[x]
        /\ items' = [x \in DOMAIN items' |-> items'[x]]
    BY <2>3 DEF Restrict
  <2>5. TypeOK'
    <3>1. items' \in [DOMAIN items' -> Entry] /\ DOMAIN items' \subseteq Keys
      BY <2>4 DEF IInv, TypeOK
    <3>2. /\ recentlyUsedKeys' \in [DOMAIN recentlyUsedKeys' -> Seq(Keys)]
          /\ DOMAIN recentlyUsedKeys' \subseteq TTLs
      BY <2>2, <2>3 DEF IInv, TypeOK
    <3> QED BY <3>1, <3>2, <2>3 DEF IInv, TypeOK
  <2>6. NoDuplicates'
    BY <2>2, <2>3 DEF IInv, NoDuplicates, TypeOK
  <2>7. KeyFiled'
    <3> SUFFICES ASSUME NEW x \in DOMAIN items'
                 PROVE  x \in Range(Bucket(items[x].TTL)')
      BY DEF KeyFiled, Bucket
    <3>1. /\ x \in DOMAIN items /\ x # k /\ items'[x] = items[x]
          /\ x \in Range(Bucket(items[x].TTL))
      BY <2>4 DEF IInv, KeyFiled
    <3>2. items[x].TTL \in DOMAIN recentlyUsedKeys
      BY <3>1 DEF Bucket, Range
    <3>3. CASE items[x].TTL = ttl
      BY <3>1, <3>2, <3>3, <2>2, <2>3 DEF Bucket
    <3>4. CASE items[x].TTL # ttl
      BY <3>1, <3>2, <3>4, <2>3 DEF Bucket
    <3> QED BY <3>3, <3>4
  <2> QED BY <2>5, <2>6, <2>7 DEF IInv
<1> QED BY <1>1, <1>2

\* One bucket of the sweep: what it takes out of `items' are expired entries
\* at the head of the bucket, and all the keys it cuts off are theirs.
LEMMA SweepKeysStep ==
    ASSUME IInv, NEW ttl \in TTLs, NEW n \in 0..Len(Bucket(ttl)),
           SweepKeys(ttl, n)
    PROVE  /\ ttl \in DOMAIN recentlyUsedKeys
           /\ DOMAIN items' \subseteq DOMAIN items
           /\ \A x \in DOMAIN items : HeldLive(x) => x \in DOMAIN items'
           /\ \A x \in DOMAIN items' : items'[x] = items[x]
           /\ items' = [x \in DOMAIN items' |-> items'[x]]
           /\ \E keys \in Seq(Keys) :
                /\ recentlyUsedKeys' = [recentlyUsedKeys EXCEPT ![ttl] = keys]
                /\ Distinct(keys)
                /\ \A x \in DOMAIN items' :
                     x \in Range(Bucket(ttl)) => x \in Range(keys)
           /\ sweep'.deleteTo \in Nat
           /\ sweep' = [sweep EXCEPT !.todo = sweep.todo \ {ttl},
                                     !.deleteTo = sweep'.deleteTo]
<1> DEFINE b == Bucket(ttl)
           cut == IF n < Len(b) THEN n ELSE sweep.deleteTo
           gone == {b[i] : i \in 1..n}
           keys == SubSeq(b, cut + 1, Len(b))
<1>1. b \in Seq(Keys) /\ Distinct(b)
  BY BucketType
<1>2. /\ b # <<>>
      /\ items' = Restrict(items, DOMAIN items \ gone)
      /\ recentlyUsedKeys' = [recentlyUsedKeys EXCEPT ![ttl] = keys]
      /\ sweep' = [sweep EXCEPT !.todo = @ \ {ttl}, !.deleteTo = cut]
      /\ \A i \in 1..n : HeldExpired(b[i])
  BY DEF SweepKeys, ExpiredHead, Splice
<1>3. ttl \in DOMAIN recentlyUsedKeys
  BY <1>2 DEF Bucket
<1>4. cut \in Nat
  BY <1>1 DEF IInv, TypeOK
<1>5. \A x \in gone : HeldExpired(x)
  BY <1>2
<1>6. keys \in Seq(Keys) /\ Distinct(keys)
  <2> HIDE DEF b, cut
  <2> QED BY <1>1, <1>4, CutHead
<1>7. /\ DOMAIN items' = DOMAIN items \ gone
      /\ \A x \in DOMAIN items' : items'[x] = items[x]
      /\ items' = [x \in DOMAIN items' |-> items'[x]]
  <2> HIDE DEF gone
  <2> QED BY <1>2 DEF Restrict
<1>8. \A x \in DOMAIN items : HeldLive(x) => x \in DOMAIN items'
  <2> HIDE DEF gone
  <2> QED BY <1>5, <1>7 DEF HeldLive, HeldExpired
<1>9. ASSUME NEW x \in DOMAIN items', x \in Range(b)
      PROVE  x \in Range(keys)
  <2>1. PICK j \in 1..Len(b) : b[j] = x
    BY <1>1, <1>9 DEF Range
  <2>2. ~(j <= n)
    BY <2>1, <1>7
  <2>3. n < Len(b) /\ cut = n
    BY <2>1, <2>2, <1>1
  <2> HIDE DEF b, cut
  <2>4. b[j] \in Range(keys)
    BY <2>1, <2>2, <2>3, <1>1, <1>4, CutHead
  <2> QED BY <2>1, <2>4
<1>10. /\ sweep'.deleteTo = cut
       /\ sweep' = [sweep EXCEPT !.todo = sweep.todo \ {ttl},
                                 !.deleteTo = sweep'.deleteTo]
  <2> HIDE DEF cut
  <2> QED BY <1>2 DEF IInv, TypeOK
<1> HIDE DEF keys, cut, gone
<1> QED BY <1>2, <1>3, <1>4, <1>6, <1>7, <1>8, <1>9, <1>10

LEMMA SweepBucketIInv ==
    ASSUME IInv, SweepBucket
    PROVE  IInv'
<1>1. PICK ttl \in sweep.todo :
         SweepEmptyBucket(ttl) \/ \E n \in 0..Len(Bucket(ttl)) : SweepKeys(ttl, n)
  BY DEF SweepBucket
<1>2. ttl \in TTLs /\ UNCHANGED <<now, clockRan, reply>>
  BY <1>1 DEF SweepBucket, IInv, TypeOK
<1>3. CASE SweepEmptyBucket(ttl)
  <2>1. /\ DOMAIN recentlyUsedKeys' = DOMAIN recentlyUsedKeys \ {ttl}
        /\ \A t \in DOMAIN recentlyUsedKeys' :
             recentlyUsedKeys'[t] = recentlyUsedKeys[t]
        /\ recentlyUsedKeys' = [t \in DOMAIN recentlyUsedKeys' |-> recentlyUsedKeys'[t]]
        /\ UNCHANGED items
        /\ sweep' = [sweep EXCEPT !.todo = @ \ {ttl}]
        /\ Bucket(ttl) = <<>>
    BY <1>3 DEF SweepEmptyBucket, Restrict
  <2>2. TypeOK'
    <3>1. /\ recentlyUsedKeys' \in [DOMAIN recentlyUsedKeys' -> Seq(Keys)]
          /\ DOMAIN recentlyUsedKeys' \subseteq TTLs
      BY <2>1 DEF IInv, TypeOK
    <3> QED BY <3>1, <2>1, <1>2 DEF IInv, TypeOK
  <2>3. NoDuplicates'
    BY <2>1 DEF IInv, NoDuplicates
  <2>4. KeyFiled'
    <3> SUFFICES ASSUME NEW x \in DOMAIN items
                 PROVE  x \in Range(Bucket(items[x].TTL)')
      BY <2>1 DEF KeyFiled, Bucket
    <3>1. x \in Range(Bucket(items[x].TTL))
      BY DEF IInv, KeyFiled
    <3>2. items[x].TTL \in DOMAIN recentlyUsedKeys /\ items[x].TTL # ttl
      BY <3>1, <2>1 DEF Bucket, Range
    <3> QED BY <3>1, <3>2, <2>1 DEF Bucket
  <2> QED BY <2>2, <2>3, <2>4 DEF IInv
<1>4. ASSUME NEW n \in 0..Len(Bucket(ttl)), SweepKeys(ttl, n)
      PROVE  IInv'
  <2>1. /\ ttl \in DOMAIN recentlyUsedKeys
        /\ DOMAIN items' \subseteq DOMAIN items
        /\ \A x \in DOMAIN items' : items'[x] = items[x]
        /\ items' = [x \in DOMAIN items' |-> items'[x]]
        /\ sweep'.deleteTo \in Nat
        /\ sweep' = [sweep EXCEPT !.todo = sweep.todo \ {ttl},
                                  !.deleteTo = sweep'.deleteTo]
    BY <1>2, <1>4, SweepKeysStep
  <2>2. PICK keys \in Seq(Keys) :
          /\ recentlyUsedKeys' = [recentlyUsedKeys EXCEPT ![ttl] = keys]
          /\ Distinct(keys)
          /\ \A x \in DOMAIN items' :
               x \in Range(Bucket(ttl)) => x \in Range(keys)
    BY <1>2, <1>4, SweepKeysStep
  <2>3. TypeOK'
    <3>1. items' \in [DOMAIN items' -> Entry] /\ DOMAIN items' \subseteq Keys
      BY <2>1 DEF IInv, TypeOK
    <3>2. /\ recentlyUsedKeys' \in [DOMAIN recentlyUsedKeys' -> Seq(Keys)]
          /\ DOMAIN recentlyUsedKeys' \subseteq TTLs
      BY <2>2 DEF IInv, TypeOK
    <3>3. sweep' \in [phase : Phase, listed : SUBSET TTLs, todo : SUBSET TTLs,
                      deleteTo : Nat]
      BY <2>1 DEF IInv, TypeOK
    <3> QED BY <3>1, <3>2, <3>3, <1>2 DEF IInv, TypeOK
  <2>4. NoDuplicates'
    BY <2>1, <2>2 DEF IInv, NoDuplicates, TypeOK
  <2>5. KeyFiled'
    <3> SUFFICES ASSUME NEW x \in DOMAIN items'
                 PROVE  x \in Range(Bucket(items[x].TTL)')
      BY DEF KeyFiled, Bucket
    <3>1. /\ items'[x] = items[x]
          /\ x \in Range(Bucket(items[x].TTL))
      BY <2>1 DEF IInv, KeyFiled
    <3>2. items[x].TTL \in DOMAIN recentlyUsedKeys
      BY <3>1 DEF Bucket, Range
    <3>3. CASE items[x].TTL = ttl
      BY <3>1, <3>2, <3>3, <2>2 DEF Bucket
    <3>4. CASE items[x].TTL # ttl
      BY <3>1, <3>2, <3>4, <2>2 DEF Bucket
    <3> QED BY <3>3, <3>4
  <2> QED BY <2>3, <2>4, <2>5 DEF IInv
<1> QED BY <1>1, <1>3, <1>4

LEMMA NextIInv == IInv /\ [Next]_vars => IInv'
<1> SUFFICES ASSUME IInv, [Next]_vars PROVE IInv'
  OBVIOUS
<1> USE CacheAssumption
<1>1. ASSUME NEW k \in Keys, NEW v \in Values, NEW ttl \in TTLOf[k],
             Insert(k, v, ttl)
      PROVE  IInv'
  BY <1>1, InsertIInv
<1>2. ASSUME NEW k \in Keys, Get(k) PROVE IInv'
  BY <1>2, GetIInv
<1>3. ASSUME NEW k \in Keys, Remove(k) PROVE IInv'
  BY <1>3, RemoveIInv
<1>4. CASE SweepStart \/ SweepScanned \/ SweepConfirm
  <2>1. UNCHANGED <<items, recentlyUsedKeys, now, clockRan, reply>>
    BY <1>4 DEF SweepStart, SweepScanned, SweepConfirm
  <2>2. sweep' \in [phase : Phase, listed : SUBSET TTLs, todo : SUBSET TTLs,
                    deleteTo : Nat]
    BY <1>4 DEF SweepStart, SweepScanned, SweepConfirm, IInv, TypeOK, Phase,
                NotSweeping
  <2> QED BY <2>1, <2>2 DEF IInv, TypeOK, KeyFiled, NoDuplicates, Bucket
<1>5. CASE SweepBucket
  BY <1>5, SweepBucketIInv
<1>6. CASE Tick \/ StepBack
  <2>1. /\ UNCHANGED <<items, recentlyUsedKeys, sweep, reply>>
        /\ now' \in 0..MaxNow
        /\ clockRan' \in {"forward", "back"}
    BY <1>6 DEF Tick, StepBack, IInv, TypeOK
  <2> QED BY <2>1 DEF IInv, TypeOK, KeyFiled, NoDuplicates, Bucket
<1>7. CASE Restart
  BY <1>7 DEF Restart, Empty, NotSweeping, Phase, IInv, TypeOK, KeyFiled,
              NoDuplicates
<1>8. CASE UNCHANGED vars
  BY <1>8 DEF vars, IInv, TypeOK, KeyFiled, NoDuplicates, Bucket
<1> QED BY <1>1, <1>2, <1>3, <1>4, <1>5, <1>6, <1>7, <1>8 DEF Next, Sweeping

LEMMA Invariance == Spec => []IInv
<1> QED BY InitIInv, NextIInv, PTL DEF Spec

\* The cache's variables keep their types.
THEOREM TypeCorrect == Spec => []TypeOK
<1>1. IInv => TypeOK
  BY DEF IInv
<1> QED BY Invariance, <1>1, PTL

\* However entries come and go (inserted again with another TTL, fetched late,
\* swept, removed, under a clock that may step back), every entry's key is in
\* the bucket of the entry's TTL, the one remove dereferences and a sweep
\* would find it in.
THEOREM EveryKeyIsFiled == Spec => []KeyFiled
<1>1. IInv => KeyFiled
  BY DEF IInv
<1> QED BY Invariance, <1>1, PTL

\* No bucket ever holds a key twice.
THEOREM BucketsHaveNoDuplicates == Spec => []NoDuplicates
<1>1. IInv => NoDuplicates
  BY DEF IInv
<1> QED BY Invariance, <1>1, PTL

-----------------------------------------------------------------------------
(* What a sweep may do.                                                    *)

LEMMA SweepingKeepsLive ==
    ASSUME IInv, Sweeping, NEW k \in DOMAIN items, HeldLive(k)
    PROVE  k \in DOMAIN items' /\ items'[k] = items[k]
<1>1. CASE SweepStart \/ SweepScanned \/ SweepConfirm
  BY <1>1 DEF SweepStart, SweepScanned, SweepConfirm
<1>2. CASE SweepBucket
  <2>1. PICK ttl \in sweep.todo :
          SweepEmptyBucket(ttl) \/ \E n \in 0..Len(Bucket(ttl)) : SweepKeys(ttl, n)
    BY <1>2 DEF SweepBucket
  <2>2. ttl \in TTLs
    BY <2>1 DEF IInv, TypeOK
  <2>3. CASE SweepEmptyBucket(ttl)
    BY <2>3 DEF SweepEmptyBucket
  <2>4. ASSUME NEW n \in 0..Len(Bucket(ttl)), SweepKeys(ttl, n)
        PROVE  k \in DOMAIN items' /\ items'[k] = items[k]
    BY <2>2, <2>4, SweepKeysStep
  <2> QED BY <2>1, <2>3, <2>4
<1> QED BY <1>1, <1>2 DEF Sweeping

\* No sweep ever takes away or changes an entry that could still be served,
\* whatever deleteTo an earlier bucket left behind and wherever orphans are.
THEOREM SweepsKeepLiveEntries == Spec => SweepKeepsLive
<1>1. IInv /\ [Next]_vars =>
        [Sweeping => \A k \in DOMAIN items :
           HeldLive(k) => k \in DOMAIN items' /\ items'[k] = items[k]]_vars
  BY SweepingKeepsLive
<1> QED BY Invariance, <1>1, PTL DEF Spec, SweepKeepsLive

-----------------------------------------------------------------------------
(* Cache implements TtlStore.                                              *)

\* A step that changes neither the clock nor a live entry leaves the abstract
\* store as it is.
LEMMA SameLiveEntries ==
    ASSUME IInv, now' = now,
           DOMAIN items' \subseteq DOMAIN items,
           \A x \in DOMAIN items' : items'[x] = items[x],
           \A x \in DOMAIN items : HeldLive(x) => x \in DOMAIN items'
    PROVE  LiveEntries' = LiveEntries
<1>1. {x \in DOMAIN items' : HeldLive(x)'} = {x \in DOMAIN items : HeldLive(x)}
  BY DEF HeldLive, Held, Expired
<1> QED BY <1>1 DEF LiveEntries, HeldLive, Held

LEMMA InsertIsPut ==
    ASSUME IInv, NEW k \in Keys, NEW v \in Values, NEW ttl \in TTLs,
           Insert(k, v, ttl)
    PROVE  Store!Put(k, v, ttl)
<1>1. /\ DOMAIN items' = DOMAIN items \cup {k}
      /\ items'[k] = [value |-> v, TTL |-> ttl, date |-> now]
      /\ \A x \in DOMAIN items : x # k => items'[x] = items[x]
      /\ now' = now /\ reply' = NoReply
  BY DEF Insert, NewEntry
<1>2. HeldLive(k)'
  <2>1. ttl \in Nat \ {0} /\ now \in Nat
    BY CacheAssumption DEF IInv, TypeOK
  <2> QED BY <1>1, <2>1 DEF HeldLive, Held, Expired
<1>3. \A x \in DOMAIN items : x # k => (HeldLive(x)' <=> HeldLive(x))
  BY <1>1 DEF HeldLive, Held, Expired
<1>4. DOMAIN LiveEntries' = DOMAIN LiveEntries \cup {k}
  BY <1>1, <1>2, <1>3 DEF LiveEntries
<1>5. LiveEntries' = [x \in DOMAIN LiveEntries \cup {k} |->
                        IF x = k THEN [value |-> v, until |-> now + ttl]
                                 ELSE LiveEntries[x]]
  <2>1. ASSUME NEW x \in DOMAIN LiveEntries'
        PROVE  LiveEntries'[x] = [value |-> items'[x].value,
                                  until |-> items'[x].date + items'[x].TTL]
    BY <2>1 DEF LiveEntries
  <2>2. ASSUME NEW x \in DOMAIN LiveEntries
        PROVE  LiveEntries[x] = [value |-> items[x].value,
                                 until |-> items[x].date + items[x].TTL]
    BY <2>2 DEF LiveEntries
  <2>3. LiveEntries' = [x \in DOMAIN LiveEntries' |-> LiveEntries'[x]]
    BY DEF LiveEntries
  <2>4. DOMAIN LiveEntries \subseteq DOMAIN items
    BY DEF LiveEntries
  <2>5. LiveEntries'[k] = [value |-> v, until |-> now + ttl]
    <3>1. k \in DOMAIN LiveEntries'
      BY <1>4
    <3>2. /\ items'[k].value = v /\ items'[k].TTL = ttl
          /\ items'[k].date = now
      BY <1>1
    <3> QED BY <3>1, <3>2, <2>1
  <2>6. ASSUME NEW x \in DOMAIN LiveEntries, x # k
        PROVE  LiveEntries'[x] = LiveEntries[x]
    <3>1. items'[x] = items[x]
      BY <2>4, <2>6, <1>1
    <3>2. x \in DOMAIN LiveEntries'
      BY <1>4
    <3> QED BY <3>1, <3>2, <2>1, <2>2
  <2> HIDE DEF LiveEntries
  <2> QED BY <2>3, <2>5, <2>6, <1>4
<1> QED BY <1>1, <1>5 DEF Store!Put

LEMMA GetIsLookup ==
    ASSUME IInv, NEW k \in Keys, Get(k)
    PROVE  Store!Lookup(k)
<1>1. LiveEntries' = LiveEntries
  <2>1. CASE HeldExpired(k)
    <3>1. items' = Restrict(items, DOMAIN items \ {k}) /\ now' = now
      BY <2>1 DEF Get
    <3>2. ~HeldLive(k)
      BY <2>1 DEF HeldExpired, HeldLive
    <3>3. /\ DOMAIN items' \subseteq DOMAIN items
          /\ \A x \in DOMAIN items' : items'[x] = items[x]
          /\ \A x \in DOMAIN items : HeldLive(x) => x \in DOMAIN items'
      BY <3>1, <3>2 DEF Restrict
    <3> QED BY <3>1, <3>3, SameLiveEntries
  <2>2. CASE ~HeldExpired(k)
    BY <2>2 DEF Get, LiveEntries, HeldLive, Held, Expired
  <2> QED BY <2>1, <2>2
<1>2. k \in DOMAIN LiveEntries <=> HeldLive(k)
  BY DEF LiveEntries, HeldLive, Held
<1>3. HeldLive(k) => LiveEntries[k].value = items[k].value
  BY DEF LiveEntries, HeldLive, Held
<1> QED BY <1>1, <1>2, <1>3 DEF Store!Lookup, Get, Answer

LEMMA RemoveIsForget ==
    ASSUME IInv, NEW k \in Keys, Remove(k)
    PROVE  Store!Forget(k)
<1>1. /\ DOMAIN items' = DOMAIN items \ {k}
      /\ \A x \in DOMAIN items' : items'[x] = items[x]
      /\ now' = now /\ reply' = NoReply
  BY DEF Remove, Restrict, Held
<1>2. {x \in DOMAIN items' : HeldLive(x)'} =
        {x \in DOMAIN items : HeldLive(x)} \ {k}
  BY <1>1 DEF HeldLive, Held, Expired
<1>3. LiveEntries' = Restrict(LiveEntries, DOMAIN LiveEntries \ {k})
  BY <1>1, <1>2 DEF LiveEntries, Restrict
<1> QED BY <1>1, <1>3 DEF Store!Forget, Store!Restrict, Restrict

LEMMA SweepingStutters ==
    ASSUME IInv, Sweeping
    PROVE  LiveEntries' = LiveEntries /\ UNCHANGED <<now, reply>>
<1>1. UNCHANGED <<now, reply>>
  BY DEF Sweeping, SweepStart, SweepBucket, SweepScanned, SweepConfirm
<1>2. DOMAIN items' \subseteq DOMAIN items
      /\ \A x \in DOMAIN items' : items'[x] = items[x]
  <2>1. CASE SweepStart \/ SweepScanned \/ SweepConfirm
    BY <2>1 DEF SweepStart, SweepScanned, SweepConfirm
  <2>2. CASE SweepBucket
    <3>1. PICK ttl \in sweep.todo :
            \/ SweepEmptyBucket(ttl)
            \/ \E n \in 0..Len(Bucket(ttl)) : SweepKeys(ttl, n)
      BY <2>2 DEF SweepBucket
    <3>2. ttl \in TTLs
      BY <3>1 DEF IInv, TypeOK
    <3>3. CASE SweepEmptyBucket(ttl)
      BY <3>3 DEF SweepEmptyBucket
    <3>4. ASSUME NEW n \in 0..Len(Bucket(ttl)), SweepKeys(ttl, n)
          PROVE  DOMAIN items' \subseteq DOMAIN items
                 /\ \A x \in DOMAIN items' : items'[x] = items[x]
      BY <3>2, <3>4, SweepKeysStep
    <3> QED BY <3>1, <3>3, <3>4
  <2> QED BY <2>1, <2>2 DEF Sweeping
<1>3. \A x \in DOMAIN items : HeldLive(x) => x \in DOMAIN items'
  BY SweepingKeepsLive
<1> QED BY <1>1, <1>2, <1>3, SameLiveEntries

LEMMA TickIsAdvance ==
    ASSUME IInv, Tick
    PROVE  Store!Advance
<1>1. /\ now \in Nat /\ now' = now + 1 /\ now < MaxNow
      /\ UNCHANGED <<items, reply>>
  BY DEF Tick, IInv, TypeOK
<1> DEFINE stays == {k \in DOMAIN LiveEntries : LiveEntries[k].until > now'}
<1>2. \A x \in DOMAIN items : items[x].date \in Nat /\ items[x].TTL \in Nat
  BY CacheAssumption DEF IInv, TypeOK, Entry
<1>3. {x \in DOMAIN items' : HeldLive(x)'} = stays
  <2>1. \A x \in DOMAIN items :
          HeldLive(x)' <=> HeldLive(x) /\ items[x].date + items[x].TTL > now'
    BY <1>1, <1>2 DEF HeldLive, Held, Expired
  <2> QED BY <1>1, <2>1 DEF LiveEntries
<1>4. LiveEntries' = Restrict(LiveEntries, stays)
  BY <1>1, <1>3 DEF LiveEntries, Restrict
<1> QED BY <1>1, <1>4 DEF Store!Advance, Store!Restrict, Restrict

\* An entry that is live before the clock is set back is so afterwards.
LEMMA StepBackIsSetBack ==
    ASSUME IInv, StepBack
    PROVE  Store!SetBack
<1>1. /\ now \in Nat /\ now > 0 /\ now' = now - 1
      /\ UNCHANGED <<items, reply>>
  BY DEF StepBack, IInv, TypeOK
<1>2. \A x \in DOMAIN items : items[x].date \in Nat /\ items[x].TTL \in Nat
  BY CacheAssumption DEF IInv, TypeOK, Entry
<1>3. \A x \in DOMAIN items : HeldLive(x) => HeldLive(x)'
  BY <1>1, <1>2 DEF HeldLive, Held, Expired
<1>4. DOMAIN LiveEntries \subseteq DOMAIN LiveEntries'
  BY <1>1, <1>3 DEF LiveEntries
<1>5. \A x \in DOMAIN LiveEntries : LiveEntries'[x] = LiveEntries[x]
  BY <1>1, <1>4 DEF LiveEntries
<1>6. LiveEntries = Restrict(LiveEntries', DOMAIN LiveEntries)
  <2>1. LiveEntries = [x \in DOMAIN LiveEntries |-> LiveEntries[x]]
    BY DEF LiveEntries
  <2> HIDE DEF LiveEntries
  <2> QED BY <1>4, <1>5, <2>1 DEF Restrict
<1> QED BY <1>1, <1>4, <1>6 DEF Store!SetBack, Store!Restrict, Restrict

LEMMA StepRefines ==
    IInv /\ [Next]_vars => [Store!StoreNext]_(Store!storeVars)
<1> SUFFICES ASSUME IInv, [Next]_vars
             PROVE  [Store!StoreNext]_(Store!storeVars)
  OBVIOUS
<1>1. ASSUME NEW k \in Keys, NEW v \in Values, NEW ttl \in TTLOf[k],
             Insert(k, v, ttl)
      PROVE  Store!StoreNext
  <2>1. ttl \in TTLs
    BY CacheAssumption
  <2> QED BY <1>1, <2>1, InsertIsPut DEF Store!StoreNext
<1>2. ASSUME NEW k \in Keys, Get(k) PROVE Store!StoreNext
  BY <1>2, GetIsLookup DEF Store!StoreNext
<1>3. ASSUME NEW k \in Keys, Remove(k) PROVE Store!StoreNext
  BY <1>3, RemoveIsForget DEF Store!StoreNext
<1>4. CASE Sweeping
  BY <1>4, SweepingStutters DEF Store!storeVars
<1>5. CASE Tick
  BY <1>5, TickIsAdvance DEF Store!StoreNext
<1>6. CASE StepBack
  BY <1>6, StepBackIsSetBack DEF Store!StoreNext
<1>7. CASE Restart
  <2>1. LiveEntries' = [k \in {} |-> NoReply]
    BY <1>7 DEF Restart, Empty, LiveEntries
  <2> QED BY <1>7, <2>1 DEF Restart, Store!StoreNext, Store!Lose
<1>8. CASE UNCHANGED vars
  <2>1. LiveEntries' = LiveEntries
    BY <1>8 DEF vars, LiveEntries, HeldLive, Held, Expired
  <2> QED BY <1>8, <2>1 DEF vars, Store!storeVars
<1> QED BY <1>1, <1>2, <1>3, <1>4, <1>5, <1>6, <1>7, <1>8 DEF Next

LEMMA InitRefines == Init => Store!StoreInit
BY DEF Init, Empty, LiveEntries, Store!StoreInit

\* What callers see of the cache is the abstract store: a get answers with the
\* value inserted last while that is live and with ENOTFOUND otherwise,
\* whatever the sweep has done since and wherever the clock is set.
THEOREM CacheImplementsStore == Spec => ImplementsStore
BY Invariance, InitRefines, StepRefines, PTL
   DEF Spec, ImplementsStore, Store!StoreSpec
=============================================================================
