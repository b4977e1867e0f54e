---------------------------- MODULE MempoolLemmas ----------------------------
(***************************************************************************)
(* What the operations of the mempool do to the pool queue, for any number *)
(* of transactions: facts that the proofs about a validator and about a    *)
(* follower share.                                                         *)
(***************************************************************************)
EXTENDS Mempool, BoundedSets, SequenceTheorems

OneToOne(s) == \A i, j \in DOMAIN s : i # j => s[i] # s[j]

(* Keep(s, I) lists the positions f[1], f[2], ... of s, each of I once.    *)
Lists(f, s, I) ==
    /\ f \in [1..Cardinality(I) -> I]
    /\ \A i \in I : \E j \in 1..Cardinality(I) : f[j] = i
    /\ \A j, k \in 1..Cardinality(I) : j # k => f[j] # f[k]
    /\ Keep(s, I) = [j \in 1..Cardinality(I) |-> s[f[j]]]

\* Such a listing exists: the position of rank j in I is unique.
LEMMA KeepPositions ==
    ASSUME NEW S, NEW s \in Seq(S), NEW I \in SUBSET (DOMAIN s)
    PROVE  /\ Cardinality(I) \in Nat
           /\ \E f : Lists(f, s, I)
<1>1. DOMAIN s = 1..Len(s) /\ Len(s) \in Nat
  BY LenProperties
<1>2. IsFiniteSet(I) /\ I \subseteq Int
  <2>1. IsFiniteSet(DOMAIN s)
    BY <1>1, FS_Interval
  <2> QED BY <1>1, <2>1, FS_Subset
<1>3. Cardinality(I) \in Nat /\ Enumerates(ByRank(I), I)
  BY <1>2, RanksEnumerate
<1>4. Keep(s, I) = [j \in 1..Cardinality(I) |-> s[ByRank(I)[j]]]
  BY DEF Keep, ByRank
<1>5. \A j, k \in 1..Cardinality(I) : j # k => ByRank(I)[j] # ByRank(I)[k]
  <2> SUFFICES ASSUME NEW j \in 1..Cardinality(I), NEW k \in 1..Cardinality(I), j < k
               PROVE  ByRank(I)[j] # ByRank(I)[k]
    OBVIOUS
  <2>1. ByRank(I)[j] < ByRank(I)[k] /\ ByRank(I)[j] \in Int
    BY <1>2, <1>3 DEF Enumerates
  <2> QED BY <2>1
<1>6. Lists(ByRank(I), s, I)
  BY <1>3, <1>4, <1>5 DEF Lists, Enumerates
<1> QED BY <1>3, <1>6

(* The keys of a subsequence are those at its positions; it repeats none   *)
(* if the sequence does not.                                               *)
LEMMA KeepKeys ==
    ASSUME NEW S, NEW s \in Seq(S), NEW I \in SUBSET (DOMAIN s)
    PROVE  /\ Keep(s, I) \in Seq(S)
           /\ Keys(Keep(s, I)) = {s[i] : i \in I}
           /\ OneToOne(s) => OneToOne(Keep(s, I))
<1>1. Len(s) \in Nat /\ I \in SUBSET (1..Len(s)) /\ DOMAIN s = 1..Len(s)
  BY LenProperties
<1>2. Cardinality(I) \in Nat
  BY KeepPositions
<1>3. PICK f : Lists(f, s, I)
  BY KeepPositions
<1>4. \A i \in I : s[i] \in S
  BY <1>1, ElementOfSeq
<1>5. Keep(s, I) \in [1..Cardinality(I) -> S]
  BY <1>3, <1>4 DEF Lists
<1>6. Keep(s, I) \in Seq(S)
  BY <1>2, <1>5, SeqDef
<1>7. DOMAIN Keep(s, I) = 1..Cardinality(I)
  BY <1>3 DEF Lists
<1>8. Keys(Keep(s, I)) = {s[i] : i \in I}
  <2>1. \A j \in 1..Cardinality(I) : Keep(s, I)[j] = s[f[j]]
    BY <1>3 DEF Lists
  <2> QED BY <1>3, <1>7, <2>1 DEF Keys, Lists
<1>9. OneToOne(s) => OneToOne(Keep(s, I))
  BY <1>1, <1>3, <1>7 DEF OneToOne, Lists
<1> QED BY <1>6, <1>8, <1>9

(* Dropping a set of keys from a queue removes no other key, and all of    *)
(* these if the queue has no repetitions.                                  *)
LEMMA DropFirstKeys ==
    ASSUME NEW S, NEW s \in Seq(S), NEW K
    PROVE  /\ DropFirst(s, K) \in Seq(S)
           /\ Keys(s) \ K \subseteq Keys(DropFirst(s, K))
           /\ Keys(DropFirst(s, K)) \subseteq Keys(s)
           /\ OneToOne(s) => /\ OneToOne(DropFirst(s, K))
                             /\ Keys(DropFirst(s, K)) = Keys(s) \ K
<1> DEFINE I == {i \in DOMAIN s :
                    s[i] \in K => \E j \in 1..(i - 1) : s[j] = s[i]}
<1>1. DOMAIN s = 1..Len(s) /\ Len(s) \in Nat
  BY LenProperties
<1>2. OneToOne(s) => I = {i \in DOMAIN s : s[i] \notin K}
  <2> SUFFICES ASSUME OneToOne(s), NEW i \in DOMAIN s, NEW j \in 1..(i - 1)
               PROVE  s[j] # s[i]
    OBVIOUS
  <2>1. i \in 1..Len(s) /\ j \in 1..Len(s) /\ i # j
    BY <1>1
  <2> QED BY <1>1, <2>1 DEF OneToOne
<1>3. DropFirst(s, K) = Keep(s, I)
  BY DEF DropFirst
<1>4. I \in SUBSET (DOMAIN s) /\ \A i \in DOMAIN s : s[i] \notin K => i \in I
  OBVIOUS
<1>5. OneToOne(s) => {s[i] : i \in I} = Keys(s) \ K
  BY <1>2 DEF Keys
<1> HIDE DEF I
<1>6. Keys(s) \ K \subseteq {s[i] : i \in I} /\ {s[i] : i \in I} \subseteq Keys(s)
  BY <1>4 DEF Keys
<1> QED BY <1>3, <1>4, <1>5, <1>6, KeepKeys

(* Concatenation joins the keys of two queues that have none in common.    *)
LEMMA ConcatKeys ==
    ASSUME NEW S, NEW s \in Seq(S), NEW t \in Seq(S)
    PROVE  /\ s \o t \in Seq(S)
           /\ Keys(s \o t) = Keys(s) \cup Keys(t)
           /\ OneToOne(s) /\ OneToOne(t) /\ Keys(s) \cap Keys(t) = {}
              => OneToOne(s \o t)
<1> DEFINE u == s \o t
<1>1. /\ DOMAIN s = 1..Len(s) /\ Len(s) \in Nat
      /\ DOMAIN t = 1..Len(t) /\ Len(t) \in Nat
  BY LenProperties
<1>2. /\ u \in Seq(S) /\ Len(u) = Len(s) + Len(t)
      /\ \A i \in 1..(Len(s) + Len(t)) :
            u[i] = IF i <= Len(s) THEN s[i] ELSE t[i - Len(s)]
  BY ConcatProperties
<1> HIDE DEF u
<1>3. DOMAIN u = 1..(Len(s) + Len(t))
  BY <1>2, LenProperties
<1>4. \A i \in DOMAIN u :
        \/ i \in DOMAIN s /\ u[i] = s[i]
        \/ i \notin DOMAIN s /\ i - Len(s) \in DOMAIN t /\ u[i] = t[i - Len(s)]
  BY <1>1, <1>2, <1>3
<1>5. \A i \in DOMAIN s : i \in DOMAIN u /\ u[i] = s[i]
  BY <1>1, <1>2, <1>3
<1>6. \A i \in DOMAIN t : i + Len(s) \in DOMAIN u /\ u[i + Len(s)] = t[i]
  BY <1>1, <1>2, <1>3
<1>7. Keys(u) = Keys(s) \cup Keys(t)
  BY <1>4, <1>5, <1>6 DEF Keys
<1>8. ASSUME OneToOne(s), OneToOne(t), Keys(s) \cap Keys(t) = {}
      PROVE  OneToOne(u)
  <2> SUFFICES ASSUME NEW i \in DOMAIN u, NEW j \in DOMAIN u, i # j
               PROVE  u[i] # u[j]
    BY DEF OneToOne
  <2>1. i \in Nat /\ j \in Nat
    BY <1>1, <1>3
  <2>2. CASE i \in DOMAIN s /\ j \in DOMAIN s
    BY <1>5, <1>8, <2>2 DEF OneToOne
  <2>3. CASE i \notin DOMAIN s /\ j \notin DOMAIN s
    <3>1. i - Len(s) \in DOMAIN t /\ j - Len(s) \in DOMAIN t
          /\ u[i] = t[i - Len(s)] /\ u[j] = t[j - Len(s)]
      BY <1>4, <2>3
    <3>2. i - Len(s) # j - Len(s)
      BY <1>1, <2>1
    <3> QED BY <1>8, <3>1, <3>2 DEF OneToOne
  <2>4. CASE i \in DOMAIN s /\ j \notin DOMAIN s
    BY <1>4, <1>8, <2>4 DEF Keys
  <2>5. CASE i \notin DOMAIN s /\ j \in DOMAIN s
    BY <1>4, <1>8, <2>5 DEF Keys
  <2> QED BY <2>2, <2>3, <2>4, <2>5
<1> QED BY <1>2, <1>7, <1>8 DEF u
-----------------------------------------------------------------------------
\* _add puts a new key at the back of the pool and changes nothing else.
LEMMA InsertPool ==
    ASSUME pool \in Seq(Txn), OneToOne(pool), NEW k \in Txn, NEW c,
           k \notin Keys(pool), Insert(k, c)
    PROVE  /\ pool' \in Seq(Txn) /\ OneToOne(pool')
           /\ Keys(pool') = Keys(pool) \cup {k}
<1>1. pool' = Append(pool, k)
  BY DEF Insert
<1>2. DOMAIN pool = 1..Len(pool) /\ Len(pool) \in Nat
  BY LenProperties
<1>3. /\ pool' \in Seq(Txn) /\ Len(pool') = Len(pool) + 1
      /\ \A i \in 1..Len(pool) : pool'[i] = pool[i]
      /\ pool'[Len(pool) + 1] = k
  BY <1>1, AppendProperties
<1>4. DOMAIN pool' = 1..(Len(pool) + 1)
  BY <1>3, LenProperties
<1>5. Keys(pool') = Keys(pool) \cup {k}
  BY <1>2, <1>3, <1>4 DEF Keys
<1>6. OneToOne(pool')
  BY <1>2, <1>3, <1>4 DEF OneToOne, Keys
<1> QED BY <1>3, <1>5, <1>6

\* commit takes keys out of the pool: only its own, and all of them if the pool
\* has none twice.
LEMMA CommitPool ==
    ASSUME pool \in Seq(Txn), NEW l, NEW K, NEW result, Commit(l, K, result)
    PROVE  /\ pool' \in Seq(Txn) /\ Keys(pool) \ K \subseteq Keys(pool')
           /\ OneToOne(pool) => OneToOne(pool') /\ Keys(pool') = Keys(pool) \ K
    BY DropFirstKeys DEF Commit

\* An iteration over a finite set that repeats no element meets them all.
LEMMA IterationKeys ==
    ASSUME NEW T, IsFiniteSet(T),
           NEW front, front \in [1..Cardinality(T) -> T], OneToOne(front)
    PROVE  Keys(front) = T
<1> DEFINE D == 1..Cardinality(T)
<1>1. Cardinality(T) \in Nat
  BY FS_CardinalityType
<1>2. IsFiniteSet(D) /\ Cardinality(D) = Cardinality(T)
  BY <1>1, FS_Interval
<1>3. front \in [D -> T] /\ DOMAIN front = D
  OBVIOUS
<1> HIDE DEF D
<1>4. front \in Injection(D, T)
  <2>1. \A i, j \in D : front[i] = front[j] => i = j
    BY <1>3 DEF OneToOne
  <2> QED BY <1>3, <2>1, Fun_IsInj
<1>5. front \in Surjection(D, T)
  BY <1>2, <1>4, FS_Injection
<1>6. \A t \in T : \E i \in D : front[i] = t
  BY <1>5, Fun_SurjectionProperties
<1> QED BY <1>3, <1>6 DEF Keys

\* free returns the keys of a lease to the pool, each of them once.
LEMMA FreePool ==
    ASSUME pool \in Seq(Txn), NEW l,
           IsFiniteSet(leased[l]), leased[l] \subseteq Txn, Free(l)
    PROVE  /\ pool' \in Seq(Txn)
           /\ Keys(pool') = Keys(pool) \cup leased[l]
           /\ OneToOne(pool) /\ leased[l] \cap Keys(pool) = {} => OneToOne(pool')
<1> DEFINE n == Cardinality(leased[l])
<1>1. n \in Nat
  BY FS_CardinalityType
<1>2. PICK front \in [1..n -> leased[l]] :
        /\ \A i, j \in DOMAIN front : i # j => front[i] # front[j]
        /\ pool' = front \o pool
  BY DEF Free
<1>5. Keys(front) = leased[l]
  <2>1. OneToOne(front)
    BY <1>2 DEF OneToOne
  <2> QED BY <2>1, IterationKeys
<1> HIDE DEF n
<1>6. front \in Seq(Txn)
  <2>1. front \in [1..n -> Txn]
    BY <1>2
  <2> QED BY <1>1, <2>1, SeqDef
<1>7. OneToOne(front)
  BY <1>2 DEF OneToOne
<1> QED BY <1>2, <1>5, <1>6, <1>7, ConcatKeys

\* lease_batch takes the chosen keys out of the pool; the others that it
\* popped are still there.
LEMMA LeaseBatchPool ==
    ASSUME pool \in Seq(Txn), OneToOne(pool), NEW l, NEW n \in 0..Len(pool),
           NEW B \in SUBSET (1..n), LeaseBatch(l, n, B)
    PROVE  /\ pool' \in Seq(Txn) /\ OneToOne(pool')
           /\ Keys(pool') = Keys(pool) \ Keys(Keep(pool, B))
           /\ Keep(pool, B) \in Seq(Txn) /\ OneToOne(Keep(pool, B))
           /\ Keys(Keep(pool, B)) = {pool[i] : i \in B}
<1> DEFINE size == Len(pool)
           rest == SubSeq(pool, n + 1, size)
           back == Keep(pool, (1..n) \ B)
<1>1. DOMAIN pool = 1..size /\ size \in Nat /\ n \in 0..size
  BY LenProperties
<1> HIDE DEF size
<1>2. /\ B \in SUBSET (DOMAIN pool)
      /\ (1..n) \ B \in SUBSET (DOMAIN pool)
  BY <1>1
<1>3. /\ Keep(pool, B) \in Seq(Txn) /\ OneToOne(Keep(pool, B))
      /\ Keys(Keep(pool, B)) = {pool[i] : i \in B}
  BY <1>2, KeepKeys
<1>4. /\ back \in Seq(Txn) /\ OneToOne(back)
      /\ Keys(back) = {pool[i] : i \in (1..n) \ B}
  BY <1>2, KeepKeys
<1>5. /\ rest \in Seq(Txn)
      /\ Len(rest) = IF n + 1 <= size THEN size - (n + 1) + 1 ELSE 0
      /\ \A i \in 1..(size - (n + 1) + 1) : rest[i] = pool[(n + 1) + i - 1]
  <2>1. \A i \in (n + 1)..size : pool[i] \in Txn
    BY <1>1, ElementOfSeq
  <2> QED BY <1>1, <2>1, SubSeqProperties
<1>6. Len(rest) = size - n /\ DOMAIN rest = 1..(size - n)
      /\ \A i \in DOMAIN rest : rest[i] = pool[n + i]
  <2> HIDE DEF rest
  <2>1. Len(rest) = size - n
    BY <1>1, <1>5
  <2>2. DOMAIN rest = 1..(size - n)
    BY <1>5, <2>1, LenProperties
  <2>3. \A i \in 1..(size - n) : rest[i] = pool[(n + 1) + i - 1]
    BY <1>1, <1>5
  <2>4. \A i \in 1..(size - n) : (n + 1) + i - 1 = n + i
    OBVIOUS
  <2> QED BY <2>1, <2>2, <2>3, <2>4
<1>7. OneToOne(rest) /\ Keys(rest) = {pool[i] : i \in (n + 1)..size}
  <2> HIDE DEF rest
  <2>1. \A i \in DOMAIN rest : n + i \in (n + 1)..size
    BY <1>1, <1>6
  <2>2. \A i \in (n + 1)..size : i - n \in DOMAIN rest /\ rest[i - n] = pool[i]
    BY <1>1, <1>6
  <2>3. Keys(rest) = {pool[i] : i \in (n + 1)..size}
    <3>1. ASSUME NEW x \in Keys(rest)
          PROVE  \E i \in (n + 1)..size : x = pool[i]
      <4>1. PICK i \in DOMAIN rest : x = rest[i]
        BY DEF Keys
      <4> QED BY <1>6, <2>1, <4>1
    <3>2. ASSUME NEW i \in (n + 1)..size
          PROVE  pool[i] \in Keys(rest)
      BY <2>2 DEF Keys
    <3> QED BY <3>1, <3>2
  <2>4. \A i, j \in DOMAIN rest : i # j => rest[i] # rest[j]
    BY <1>1, <1>6 DEF OneToOne
  <2> QED BY <2>3, <2>4 DEF OneToOne
<1> HIDE DEF rest, back
<1>8. /\ Keys(rest) \cap Keys(back) = {}
      /\ Keys(rest) \cup Keys(back) = Keys(pool) \ {pool[i] : i \in B}
  <2>1. \A i \in DOMAIN pool : \/ i \in (n + 1)..size
                               \/ i \in (1..n) \ B
                               \/ i \in B
    BY <1>1
  <2>2. \A i \in (n + 1)..size : i \in DOMAIN pool /\ i \notin (1..n)
    BY <1>1
  <2>3. \A i \in 1..n : i \in DOMAIN pool
    BY <1>1
  <2>4. Keys(rest) \cap Keys(back) = {}
    BY <1>4, <1>7, <2>2, <2>3 DEF OneToOne
  <2>5. ASSUME NEW x \in Keys(rest) \cup Keys(back)
        PROVE  x \in Keys(pool) /\ \A i \in B : pool[i] # x
    <3>1. PICK i \in ((n + 1)..size) \cup ((1..n) \ B) : x = pool[i]
      BY <1>4, <1>7
    <3>2. i \in DOMAIN pool /\ i \notin B
      BY <2>2, <2>3
    <3>3. \A j \in B : j \in DOMAIN pool
      BY <2>3
    <3> QED BY <3>1, <3>2, <3>3 DEF Keys, OneToOne
  <2>6. ASSUME NEW i \in DOMAIN pool, i \notin B
        PROVE  pool[i] \in Keys(rest) \cup Keys(back)
    BY <1>4, <1>7, <2>1, <2>6
  <2>7. ASSUME NEW x \in Keys(pool) \ {pool[i] : i \in B}
        PROVE  x \in Keys(rest) \cup Keys(back)
    BY <2>6 DEF Keys
  <2> QED BY <2>4, <2>5, <2>7
<1>9. pool' = rest \o back
  BY DEF LeaseBatch, rest, back, size
<1> QED BY <1>3, <1>4, <1>5, <1>7, <1>8, <1>9, ConcatKeys

\* lease_txns takes keys of the block out of the pool, and no others.
LEMMA LeaseTxnsPool ==
    ASSUME pool \in Seq(Txn), NEW l, NEW K, LeaseTxns(l, K)
    PROVE  /\ pool' \in Seq(Txn) /\ Keys(pool) \ K \subseteq Keys(pool')
           /\ OneToOne(pool) => OneToOne(pool') /\ Keys(pool') = Keys(pool) \ K
    BY DropFirstKeys DEF LeaseTxns
=============================================================================
