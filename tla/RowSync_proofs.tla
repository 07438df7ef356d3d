---------------------------- MODULE RowSync_proofs ---------------------------
(***************************************************************************)
(* First what the server asks a PLC for, whatever Ids the database has and *)
(* whatever range the PLC announces (SyncRanges): the batches cover the    *)
(* missing Ids, ask for none that is there, do not overlap and come newest *)
(* first.                                                                  *)
(*                                                                         *)
(* Then the protocol, for any setup and number of connections: no row is   *)
(* stored under the Id of a row further off than the next (NearInv, about  *)
(* every place a row can be in on its way), queries and their answers do   *)
(* not multiply (GreetOnce and QueryInv, about every place of a greeting,  *)
(* a query and an answer), and no Id of a greeting is forgotten (KeptInv). *)
(***************************************************************************)
EXTENDS RowSync, FiniteSetTheorems, FunctionTheorems, SequenceTheorems, TLAPS

-----------------------------------------------------------------------------
(* Finite sets by rank. *)

Above(S, key, r) == {s \in S : key[s] > key[r]}

\* Elements with different keys are numbered by how many have a larger key.
LEMMA Ranked ==
  ASSUME NEW S, IsFiniteSet(S), NEW key \in [S -> Int],
         \A r, s \in S : key[r] = key[s] => r = s
  PROVE  /\ Cardinality(S) \in Nat
         /\ \A r \in S : Cardinality(Above(S, key, r)) \in 0 .. Cardinality(S) - 1
         /\ \A r, s \in S : key[s] > key[r]
                            => Cardinality(Above(S, key, s)) < Cardinality(Above(S, key, r))
         /\ \A k \in 0 .. Cardinality(S) - 1 : \E r \in S : Cardinality(Above(S, key, r)) = k
  <1> DEFINE n == Cardinality(S)
             c(r) == Cardinality(Above(S, key, r))
  <1>1. n \in Nat
    BY FS_CardinalityType
  <1>2. \A r \in S : IsFiniteSet(Above(S, key, r)) /\ c(r) \in Nat
    <2> TAKE r \in S
    <2>1. Above(S, key, r) \in SUBSET S
      BY DEF Above
    <2>2. IsFiniteSet(Above(S, key, r))
      BY <2>1, FS_Subset
    <2> QED BY <2>2, FS_CardinalityType
  <1>3. \A r, s \in S : key[s] > key[r] => c(s) < c(r)
    <2> SUFFICES ASSUME NEW r \in S, NEW s \in S, key[s] > key[r]
                 PROVE  c(s) < c(r)
      OBVIOUS
    <2>1. /\ Above(S, key, s) \in SUBSET Above(S, key, r)
          /\ s \in Above(S, key, r) /\ s \notin Above(S, key, s)
      BY DEF Above
    <2>2. c(s) <= c(r) /\ c(s) # c(r)
      BY <1>2, <2>1, FS_Subset
    <2> QED BY <1>2, <2>2
  <1>4. \A r \in S : c(r) \in 0 .. n - 1
    <2> TAKE r \in S
    <2>1. Above(S, key, r) \in SUBSET S /\ r \notin Above(S, key, r)
      BY DEF Above
    <2>2. c(r) <= n /\ c(r) # n
      BY <2>1, FS_Subset
    <2> QED BY <1>1, <1>2, <2>2
  <1> HIDE DEF c
  <1> DEFINE g == [r \in S |-> c(r) + 1]
  <1>5. g \in Injection(S, 1 .. n)
    <2>1. g \in [S -> 1 .. n]
      BY <1>1, <1>4
    <2>2. ASSUME NEW r \in S, NEW s \in S, g[r] = g[s]
          PROVE  r = s
      <3>1. c(r) = c(s)
        <4>1. c(r) + 1 = c(s) + 1
          BY <2>2
        <4> QED BY <1>2, <4>1
      <3>2. ~(key[r] > key[s]) /\ ~(key[s] > key[r])
        BY <1>2, <1>3, <3>1
      <3>3. key[r] = key[s]
        BY <3>2
      <3> QED BY <3>3
    <2> HIDE DEF g
    <2> QED BY <2>1, <2>2, Fun_IsInj
  <1>6. g \in Surjection(S, 1 .. n)
    <2>1. IsFiniteSet(1 .. n) /\ Cardinality(1 .. n) = n
      BY <1>1, FS_Interval
    <2> QED BY <1>5, <2>1, FS_Injection
  <1>7. \A k \in 0 .. n - 1 : \E r \in S : c(r) = k
    <2> TAKE k \in 0 .. n - 1
    <2>1. k + 1 \in 1 .. n
      BY <1>1
    <2>2. \A t \in 1 .. n : \E r \in S : g[r] = t
      <3> HIDE DEF g, n
      <3> QED BY <1>6 DEF Surjection
    <2>3. PICK r \in S : c(r) + 1 = k + 1
      BY <2>1, <2>2
    <2> QED BY <1>2, <2>3
  <1> QED BY <1>1, <1>3, <1>4, <1>7 DEF c

\* Max and Min of a finite set of numbers.
LEMMA Foremost ==
  ASSUME NEW S, IsFiniteSet(S), S # {}, NEW key \in [S -> Int],
         \A r, s \in S : key[r] = key[s] => r = s
  PROVE  \E m \in S : \A s \in S : key[s] <= key[m]
  <1>1. 0 \in 0 .. Cardinality(S) - 1
    BY Ranked, FS_EmptySet
  <1>2. PICK m \in S : Cardinality(Above(S, key, m)) = 0
    BY <1>1, Ranked
  <1>3. Above(S, key, m) = {}
    <2>1. Above(S, key, m) \in SUBSET S
      BY DEF Above
    <2> QED BY <1>2, <2>1, FS_Subset, FS_EmptySet
  <1>4. \A s \in S : key[s] <= key[m]
    BY <1>3 DEF Above
  <1> QED BY <1>4

LEMMA MaxOf ==
  ASSUME NEW S \in SUBSET Int, IsFiniteSet(S), S # {}
  PROVE  Max(S) \in S /\ \A x \in S : x <= Max(S)
  <1> DEFINE key == [x \in S |-> x]
  <1>1. key \in [S -> Int] /\ \A r, s \in S : key[r] = key[s] => r = s
    OBVIOUS
  <1>2. \E m \in S : \A s \in S : key[s] <= key[m]
    <2> HIDE DEF key
    <2> QED BY <1>1, Foremost
  <1>3. \E m \in S : \A y \in S : m >= y
    BY <1>2
  <1> QED BY <1>3 DEF Max

LEMMA MinOf ==
  ASSUME NEW S \in SUBSET Int, IsFiniteSet(S), S # {}
  PROVE  Min(S) \in S /\ \A x \in S : Min(S) <= x
  <1> DEFINE key == [x \in S |-> -x]
  <1>1. key \in [S -> Int] /\ \A r, s \in S : key[r] = key[s] => r = s
    OBVIOUS
  <1>2. \E m \in S : \A s \in S : key[s] <= key[m]
    <2> HIDE DEF key
    <2> QED BY <1>1, Foremost
  <1>3. \E m \in S : \A y \in S : m <= y
    BY <1>2
  <1> QED BY <1>3 DEF Min

\* The queue has every batch once, in the order of falling tails.
LEMMA Sorted ==
  ASSUME NEW S \in SUBSET [tail : Int, head : Int], IsFiniteSet(S),
         \A r, s \in S : r.tail = s.tail => r = s
  PROVE  /\ Cardinality(S) \in Nat
         /\ NewestFirst(S) \in [1 .. Cardinality(S) -> S]
         /\ \A r \in S : \E i \in 1 .. Cardinality(S) : NewestFirst(S)[i] = r
         /\ \A i \in 1 .. Cardinality(S) : \A j \in 1 .. i - 1 :
              NewestFirst(S)[i].tail < NewestFirst(S)[j].tail
  <1> DEFINE key == [r \in S |-> r.tail]
             n == Cardinality(S)
             q == NewestFirst(S)
             c(r) == Cardinality(Newer(S, r))
  <1>1. key \in [S -> Int] /\ \A r, s \in S : key[r] = key[s] => r = s
    OBVIOUS
  <1>2. \A r \in S : Above(S, key, r) = Newer(S, r) /\ key[r] = r.tail /\ r.tail \in Int
    BY DEF Above, Newer
  <1> HIDE DEF key
  <1>3. /\ n \in Nat
        /\ \A r \in S : c(r) \in 0 .. n - 1
        /\ \A r, s \in S : s.tail > r.tail => c(s) < c(r)
        /\ \A k \in 0 .. n - 1 : \E r \in S : c(r) = k
    BY <1>1, <1>2, Ranked
  <1> HIDE DEF c
  <1>4. \A i \in 1 .. n : q[i] \in S /\ c(q[i]) = i - 1
    <2> TAKE i \in 1 .. n
    <2>1. i - 1 \in 0 .. n - 1
      BY <1>3
    <2>2. \E r \in S : c(r) = i - 1
      BY <1>3, <2>1
    <2>3. q[i] = CHOOSE r \in S : c(r) = i - 1
      BY DEF NewestFirst, c
    <2> QED BY <2>2, <2>3
  <1>5. q \in [1 .. n -> S]
    BY <1>4 DEF NewestFirst
  <1> HIDE DEF q
  <1>6. \A r \in S : \E i \in 1 .. n : q[i] = r
    <2> TAKE r \in S
    <2>1. c(r) + 1 \in 1 .. n /\ c(r) \in Nat
      BY <1>3
    <2>2. q[c(r) + 1] \in S /\ c(q[c(r) + 1]) = c(r)
      BY <1>4, <2>1
    <2>3. ~(q[c(r) + 1].tail > r.tail) /\ ~(r.tail > q[c(r) + 1].tail)
      BY <1>3, <2>2
    <2>4. q[c(r) + 1].tail = r.tail
      BY <2>2, <2>3
    <2> QED BY <2>1, <2>2, <2>4
  <1>7. \A i \in 1 .. n : \A j \in 1 .. i - 1 : q[i].tail < q[j].tail
    <2> TAKE i \in 1 .. n
    <2> TAKE j \in 1 .. i - 1
    <2>1. j \in 1 .. n /\ i \in Int /\ j \in Int /\ j < i
      BY <1>3
    <2>2. c(q[i]) = i - 1 /\ c(q[j]) = j - 1 /\ q[i] \in S /\ q[j] \in S
      BY <1>4, <2>1
    <2>3. ~(q[i].tail > q[j].tail)
      BY <1>3, <2>1, <2>2
    <2>4. q[i].tail # q[j].tail
      BY <2>1, <2>2
    <2> QED BY <2>2, <2>3, <2>4
  <1> QED BY <1>3, <1>5, <1>6, <1>7 DEF q
-----------------------------------------------------------------------------
(* Cutting a range into batches. *)

\* Division with a positive divisor.
LEMMA Quotient ==
  ASSUME NEW a \in Int
  PROVE  /\ a \div MaxBatch \in Int
         /\ (a \div MaxBatch) * MaxBatch <= a
         /\ a < (a \div MaxBatch) * MaxBatch + MaxBatch
  BY BatchAssumption

\* Multiples of the batch size grow with the factor.
LEMMA Multiple ==
  ASSUME NEW i \in Int, NEW j \in Int
  PROVE  /\ i * MaxBatch \in Int
         /\ (i + 1) * MaxBatch = i * MaxBatch + MaxBatch
         /\ i < j => (i + 1) * MaxBatch <= j * MaxBatch
         /\ i <= j => i * MaxBatch <= j * MaxBatch
         /\ i * MaxBatch < j * MaxBatch => i < j
  BY BatchAssumption

\* There are as many batches as it takes to reach h, and no more.
LEMMA Rounding ==
  ASSUME NEW t \in Int, NEW h \in Int, t <= h
  PROVE  /\ NumBatches(t, h) \in Nat
         /\ \A i \in 0 .. NumBatches(t, h) - 1 : t + i * MaxBatch < h
         /\ \A x \in t .. h - 1 : \E i \in 0 .. NumBatches(t, h) - 1 :
              t + i * MaxBatch <= x /\ x < t + (i + 1) * MaxBatch
  <1> DEFINE n == NumBatches(t, h)
  <1>0. MaxBatch \in Nat /\ MaxBatch > 0
    BY BatchAssumption
  <1>1. n \in Int /\ n * MaxBatch <= h - t + MaxBatch - 1 /\ h - t + MaxBatch - 1 < n * MaxBatch + MaxBatch
    <2>1. h - t + MaxBatch - 1 \in Int
      BY <1>0
    <2> QED BY <2>1, Quotient DEF NumBatches
  <1> HIDE DEF n
  <1>2. n * MaxBatch \in Int /\ 0 * MaxBatch = 0
    BY <1>0, <1>1, Multiple
  <1>3. n \in Nat
    <2>1. (n + 1) * MaxBatch = n * MaxBatch + MaxBatch
      BY <1>1, Multiple
    <2>2. 0 * MaxBatch < (n + 1) * MaxBatch
      BY <1>0, <1>1, <1>2, <2>1
    <2>3. 0 < n + 1
      BY <1>1, <2>2, Multiple
    <2> QED BY <1>1, <2>3
  <1>4. \A i \in 0 .. n - 1 : t + i * MaxBatch < h
    <2> TAKE i \in 0 .. n - 1
    <2>1. i \in Int /\ i < n
      BY <1>1
    <2>2. /\ i * MaxBatch \in Int /\ (i + 1) * MaxBatch = i * MaxBatch + MaxBatch
          /\ (i + 1) * MaxBatch <= n * MaxBatch
      BY <1>1, <2>1, Multiple
    <2>3. i * MaxBatch + MaxBatch <= n * MaxBatch
      BY <2>2
    <2> QED BY <1>0, <1>1, <1>2, <2>2, <2>3
  <1>5. \A x \in t .. h - 1 : \E i \in 0 .. n - 1 :
          t + i * MaxBatch <= x /\ x < t + (i + 1) * MaxBatch
    <2> TAKE x \in t .. h - 1
    <2> DEFINE i == (x - t) \div MaxBatch
    <2>1. i \in Int /\ i * MaxBatch <= x - t /\ x - t < i * MaxBatch + MaxBatch
      BY Quotient
    <2> HIDE DEF i
    <2>2. (i + 1) * MaxBatch = i * MaxBatch + MaxBatch /\ i * MaxBatch \in Int
      BY <2>1, Multiple
    <2>3. i \in 0 .. n - 1
      <3>1. 0 * MaxBatch < (i + 1) * MaxBatch
        <4>1. x - t >= 0
          OBVIOUS
        <4> QED BY <1>0, <1>2, <2>1, <2>2, <4>1
      <3>2. i * MaxBatch < n * MaxBatch
        BY <1>0, <1>1, <1>2, <2>1, <2>2
      <3>3. 0 < i + 1 /\ i < n
        BY <1>1, <2>1, <3>1, <3>2, Multiple
      <3> QED BY <1>1, <2>1, <3>3
    <2> QED BY <1>0, <2>1, <2>2, <2>3
  <1> QED BY <1>3, <1>4, <1>5 DEF n

\* Batches that hold at least one Id and at most MAX_BATCH_SIZE, and no Id twice.
IsCut(S) ==
  /\ S \subseteq [tail : Nat, head : Nat]
  /\ \A r \in S : r.tail < r.head /\ r.head - r.tail <= MaxBatch
  /\ \A r, s \in S : r.tail < s.tail => r.head <= s.tail
  /\ \A r, s \in S : r.tail = s.tail => r = s

Covers(S, x) == \E r \in S : r.tail <= x /\ x < r.head

\* The smaller of two numbers, for the end of the last batch.
LEMMA SmallerOf ==
  ASSUME NEW m \in Int, NEW n \in Int
  PROVE  Min({m, n}) = IF m <= n THEN m ELSE n
  <1>1. \E x \in {m, n} : \A y \in {m, n} : x <= y
    <2>1. CASE m <= n
      BY <2>1
    <2>2. CASE ~(m <= n)
      BY <2>2
    <2> QED BY <2>1, <2>2
  <1>2. Min({m, n}) \in {m, n} /\ \A y \in {m, n} : Min({m, n}) <= y
    BY <1>1 DEF Min
  <1> QED BY <1>2

\* A hole is cut into batches that cover it and stay within it.
LEMMA BatchesCut ==
  ASSUME NEW t \in Nat, NEW h \in Nat, t <= h
  PROVE  /\ IsCut(Batches(t, h))
         /\ \A r \in Batches(t, h) : t <= r.tail /\ r.head <= h
         /\ \A x \in t .. h - 1 : Covers(Batches(t, h), x)
  <1> DEFINE n == NumBatches(t, h)
             e(i) == Min({h, t + (i + 1) * MaxBatch})
  <1>0. MaxBatch \in Nat /\ MaxBatch > 0
    BY BatchAssumption
  <1>1. /\ n \in Nat /\ \A i \in 0 .. n - 1 : t + i * MaxBatch < h
        /\ \A x \in t .. h - 1 : \E i \in 0 .. n - 1 :
             t + i * MaxBatch <= x /\ x < t + (i + 1) * MaxBatch
    <2>1. t \in Int /\ h \in Int
      OBVIOUS
    <2> QED BY <2>1, Rounding
  <1>2. \A i \in 0 .. n - 1 :
          /\ i * MaxBatch \in Nat /\ t <= t + i * MaxBatch
          /\ (i + 1) * MaxBatch = i * MaxBatch + MaxBatch
          /\ e(i) \in Nat /\ t + i * MaxBatch < e(i) /\ e(i) <= h /\ e(i) <= t + (i + 1) * MaxBatch
    <2> TAKE i \in 0 .. n - 1
    <2>1. /\ i * MaxBatch \in Int /\ (i + 1) * MaxBatch = i * MaxBatch + MaxBatch
          /\ 0 * MaxBatch <= i * MaxBatch /\ 0 * MaxBatch = 0
      BY <1>0, <1>1, Multiple
    <2>2. t + (i + 1) * MaxBatch \in Int
      BY <1>0, <2>1
    <2>3. e(i) = IF h <= t + (i + 1) * MaxBatch THEN h ELSE t + (i + 1) * MaxBatch
      BY <2>2, SmallerOf
    <2> HIDE DEF e
    <2> QED BY <1>0, <1>1, <2>1, <2>3
  <1>3. \A i, j \in 0 .. n - 1 : i < j => e(i) <= t + j * MaxBatch
    <2> TAKE i, j \in 0 .. n - 1
    <2>1. i < j => (i + 1) * MaxBatch <= j * MaxBatch
      BY <1>1, Multiple
    <2> HIDE DEF e
    <2> QED BY <1>0, <1>2, <2>1
  <1> HIDE DEF e, n
  <1>4. \A r \in Batches(t, h) : \E i \in 0 .. n - 1 :
          r = [tail |-> t + i * MaxBatch, head |-> e(i)]
    BY DEF Batches, IdRange, n, e
  <1>5. \A i \in 0 .. n - 1 : [tail |-> t + i * MaxBatch, head |-> e(i)] \in Batches(t, h)
    BY DEF Batches, IdRange, n, e
  <1>6. \A r \in Batches(t, h) : /\ r \in [tail : Nat, head : Nat]
                                 /\ r.tail < r.head /\ r.head - r.tail <= MaxBatch
                                 /\ t <= r.tail /\ r.head <= h
    BY <1>0, <1>2, <1>4
  <1>7. ASSUME NEW r \in Batches(t, h), NEW s \in Batches(t, h)
        PROVE  (r.tail < s.tail => r.head <= s.tail) /\ (r.tail = s.tail => r = s)
    <2>1. PICK i \in 0 .. n - 1 : r = [tail |-> t + i * MaxBatch, head |-> e(i)]
      BY <1>4
    <2>2. PICK j \in 0 .. n - 1 : s = [tail |-> t + j * MaxBatch, head |-> e(j)]
      BY <1>4
    <2>3. i \in Int /\ j \in Int /\ i * MaxBatch \in Int /\ j * MaxBatch \in Int
      BY <1>1, <1>2
    <2>4. i < j => r.tail < s.tail /\ r.head <= s.tail
      BY <1>0, <1>2, <1>3, <2>1, <2>2, <2>3
    <2>5. j < i => s.tail < r.tail
      BY <1>0, <1>2, <1>3, <2>1, <2>2, <2>3
    <2>6. i = j => r = s
      BY <2>1, <2>2
    <2>7. r.tail \in Int /\ s.tail \in Int
      BY <2>1, <2>2, <2>3
    <2>8. CASE i < j
      BY <2>4, <2>7, <2>8
    <2>9. CASE j < i
      BY <2>5, <2>7, <2>9
    <2>10. CASE i = j
      BY <2>6, <2>7, <2>10
    <2> QED BY <2>3, <2>8, <2>9, <2>10
  <1>8. \A x \in t .. h - 1 : Covers(Batches(t, h), x)
    <2> TAKE x \in t .. h - 1
    <2>1. PICK i \in 0 .. n - 1 : t + i * MaxBatch <= x /\ x < t + (i + 1) * MaxBatch
      BY <1>1
    <2>2. x < e(i)
      <3>1. t + (i + 1) * MaxBatch \in Int
        BY <1>0, <1>2
      <3>2. e(i) = IF h <= t + (i + 1) * MaxBatch THEN h ELSE t + (i + 1) * MaxBatch
        BY <3>1, SmallerOf DEF e
      <3> QED BY <2>1, <3>2
    <2> QED BY <1>5, <2>1, <2>2 DEF Covers
  <1> QED BY <1>6, <1>7, <1>8 DEF IsCut

\* Without rows in the database the batches are all full.
LEMMA AllBatchesCut ==
  ASSUME NEW t \in Nat, NEW h \in Nat, t <= h
  PROVE  /\ IsCut(AllBatches(t, h))
         /\ \A r \in AllBatches(t, h) : t <= r.tail /\ r.tail < h
         /\ \A x \in t .. h - 1 : Covers(AllBatches(t, h), x)
  <1> DEFINE n == NumBatches(t, h)
             b(i) == [tail |-> t + i * MaxBatch, head |-> t + (i + 1) * MaxBatch]
  <1>0. MaxBatch \in Nat /\ MaxBatch > 0
    BY BatchAssumption
  <1>1. /\ n \in Nat /\ \A i \in 0 .. n - 1 : t + i * MaxBatch < h
        /\ \A x \in t .. h - 1 : \E i \in 0 .. n - 1 :
             t + i * MaxBatch <= x /\ x < t + (i + 1) * MaxBatch
    <2>1. t \in Int /\ h \in Int
      OBVIOUS
    <2> QED BY <2>1, Rounding
  <1>2. \A i \in 0 .. n - 1 :
          i * MaxBatch \in Nat /\ (i + 1) * MaxBatch = i * MaxBatch + MaxBatch
    <2> TAKE i \in 0 .. n - 1
    <2>1. /\ i * MaxBatch \in Int /\ (i + 1) * MaxBatch = i * MaxBatch + MaxBatch
          /\ 0 * MaxBatch <= i * MaxBatch /\ 0 * MaxBatch = 0
      BY <1>0, <1>1, Multiple
    <2> QED BY <2>1
  <1>3. AllBatches(t, h) = {b(i) : i \in 0 .. n - 1}
    BY DEF AllBatches, IdRange
  <1> HIDE DEF n
  <1>4. \A r \in AllBatches(t, h) : /\ r \in [tail : Nat, head : Nat]
                                    /\ r.tail < r.head /\ r.head - r.tail <= MaxBatch
                                    /\ t <= r.tail /\ r.tail < h
    BY <1>0, <1>1, <1>2, <1>3
  <1>5. ASSUME NEW r \in AllBatches(t, h), NEW s \in AllBatches(t, h)
        PROVE  (r.tail < s.tail => r.head <= s.tail) /\ (r.tail = s.tail => r = s)
    <2>1. PICK i \in 0 .. n - 1 : r = b(i)
      BY <1>3
    <2>2. PICK j \in 0 .. n - 1 : s = b(j)
      BY <1>3
    <2>3. /\ i \in Int /\ j \in Int /\ i * MaxBatch \in Int /\ j * MaxBatch \in Int
          /\ i < j => (i + 1) * MaxBatch <= j * MaxBatch
          /\ j < i => (j + 1) * MaxBatch <= i * MaxBatch
      <3>1. i \in Int /\ j \in Int
        BY <1>1
      <3> QED BY <3>1, Multiple
    <2>4. i < j => r.tail < s.tail /\ r.head <= s.tail
      BY <1>0, <1>2, <2>1, <2>2, <2>3
    <2>5. j < i => s.tail < r.tail
      BY <1>0, <1>2, <2>1, <2>2, <2>3
    <2>6. i = j => r = s
      BY <2>1, <2>2
    <2>7. r.tail \in Int /\ s.tail \in Int
      BY <2>1, <2>2, <2>3
    <2>8. CASE i < j
      BY <2>4, <2>7, <2>8
    <2>9. CASE j < i
      BY <2>5, <2>7, <2>9
    <2>10. CASE i = j
      BY <2>6, <2>7, <2>10
    <2> QED BY <2>3, <2>8, <2>9, <2>10
  <1>6. \A x \in t .. h - 1 : Covers(AllBatches(t, h), x)
    <2> TAKE x \in t .. h - 1
    <2>1. PICK i \in 0 .. n - 1 : t + i * MaxBatch <= x /\ x < t + (i + 1) * MaxBatch
      BY <1>1
    <2>2. b(i) \in AllBatches(t, h)
      BY <1>3
    <2>3. b(i).tail <= x /\ x < b(i).head
      BY <2>1
    <2> HIDE DEF b
    <2> QED BY <2>2, <2>3 DEF Covers
  <1> QED BY <1>4, <1>5, <1>6 DEF IsCut

-----------------------------------------------------------------------------
(* The holes of the database. *)

Holes(ids, t, h) == FirstHole(ids, t) \cup InnerHoles(ids) \cup LastHole(ids, h)

\* A hole has no Id of the database, and holes do not overlap.
LEMMA HolesApart ==
  ASSUME NEW ids \in SUBSET Nat, IsFiniteSet(ids), ids # {},
         NEW t \in Nat, NEW h \in Nat
  PROVE  /\ Holes(ids, t, h) \subseteq [tail : Nat, head : Nat]
         /\ \A r \in Holes(ids, t, h) :
              /\ r.tail <= r.head
              /\ r.head \in ids \/ r.head = h + Extra
              /\ \A x \in ids : x < r.tail \/ r.head <= x
         /\ \A r, s \in Holes(ids, t, h) :
              r = s \/ r.tail = r.head \/ s.tail = s.head \/ r.head <= s.tail \/ s.head <= r.tail
  <1> DEFINE lo == Min(ids)
             hi == Max(ids)
             first == FirstHole(ids, t)
             inner == InnerHoles(ids)
             last == LastHole(ids, h)
  <1>1. /\ lo \in ids /\ hi \in ids /\ lo \in Nat /\ hi \in Nat
        /\ \A x \in ids : x \in Nat /\ lo <= x /\ x <= hi
    <2>1. ids \in SUBSET Int
      OBVIOUS
    <2> QED BY <2>1, MinOf, MaxOf
  <1>2. \A r \in first : r = [tail |-> t, head |-> lo] /\ t < lo
    BY DEF FirstHole, IdRange
  <1>3. ASSUME NEW r \in inner
        PROVE  /\ r \in [tail : Nat, head : Nat] /\ r.tail < r.head
               /\ r.tail - 1 \in ids /\ r.head \in ids
               /\ \A x \in ids : x < r.tail \/ r.head <= x
    <2>1. PICK p \in ids, q \in ids : r = [tail |-> p + 1, head |-> q]
      BY <1>3 DEF InnerHoles, IdRange
    <2>2. r.tail < r.head /\ \A x \in ids : x < r.tail \/ r.head <= x
      BY <1>3 DEF InnerHoles
    <2> QED BY <1>1, <2>1, <2>2
  <1>4. \A r \in last : r = [tail |-> hi + 1, head |-> h + Extra] /\ hi + 1 <= h
    BY DEF LastHole, IdRange
  <1>5. h + Extra \in Nat /\ h <= h + Extra
    BY BatchAssumption
  <1> HIDE DEF lo, hi, first, inner, last
  <1>6. \A r \in Holes(ids, t, h) : r \in first \/ r \in inner \/ r \in last
    BY DEF Holes, first, inner, last
  <1>7. ASSUME NEW r \in Holes(ids, t, h)
        PROVE  /\ r \in [tail : Nat, head : Nat] /\ r.tail <= r.head
               /\ r.head \in ids \/ r.head = h + Extra
               /\ \A x \in ids : x < r.tail \/ r.head <= x
    <2>1. CASE r \in first
      BY <1>1, <1>2, <2>1
    <2>2. CASE r \in inner
      BY <1>3, <2>2
    <2>3. CASE r \in last
      BY <1>1, <1>4, <1>5, <2>3
    <2> QED BY <1>6, <2>1, <2>2, <2>3
  <1>8. ASSUME NEW r \in inner, NEW s \in inner
        PROVE  r = s \/ r.head <= s.tail \/ s.head <= r.tail
    <2>1. /\ r \in [tail : Nat, head : Nat] /\ r.tail < r.head
          /\ s \in [tail : Nat, head : Nat] /\ s.tail < s.head
          /\ r.tail - 1 < s.tail \/ s.head <= r.tail - 1
          /\ s.tail - 1 < r.tail \/ r.head <= s.tail - 1
          /\ r.head < s.tail \/ s.head <= r.head
          /\ s.head < r.tail \/ r.head <= s.head
      BY <1>3
    <2>2. CASE r.tail = s.tail /\ r.head = s.head
      BY <2>1, <2>2
    <2> QED BY <2>1, <2>2
  <1>9. ASSUME NEW r \in Holes(ids, t, h), NEW s \in Holes(ids, t, h)
        PROVE  r = s \/ r.tail = r.head \/ s.tail = s.head \/ r.head <= s.tail \/ s.head <= r.tail
    <2>1. ASSUME NEW a \in first, NEW b \in inner PROVE a.head <= b.tail
      BY <1>1, <1>2, <1>3
    <2>2. ASSUME NEW a \in first, NEW b \in last PROVE a.head <= b.tail
      BY <1>1, <1>2, <1>4
    <2>3. ASSUME NEW a \in inner, NEW b \in last PROVE a.head <= b.tail
      BY <1>1, <1>3, <1>4
    <2>4. CASE r \in first
      BY <1>2, <1>6, <2>1, <2>2, <2>4
    <2>5. CASE r \in inner
      BY <1>6, <1>8, <2>1, <2>3, <2>5
    <2>6. CASE r \in last
      BY <1>4, <1>6, <2>2, <2>3, <2>6
    <2> QED BY <1>6, <2>4, <2>5, <2>6
  <1> QED BY <1>7, <1>9

\* Every Id of the announced range that is not in the database is in a hole.
LEMMA HolesCover ==
  ASSUME NEW ids \in SUBSET Nat, IsFiniteSet(ids), ids # {},
         NEW t \in Nat, NEW h \in Nat, NEW x \in t .. h - 1, x \notin ids
  PROVE  Covers(Holes(ids, t, h), x)
  <1> DEFINE lo == Min(ids)
             hi == Max(ids)
  <1>1. lo \in ids /\ hi \in ids /\ \A y \in ids : y \in Nat /\ lo <= y /\ y <= hi
    <2>1. ids \in SUBSET Int
      OBVIOUS
    <2> QED BY <2>1, MinOf, MaxOf
  <1>a. x \in Nat /\ t <= x /\ x < h /\ lo \in Nat /\ hi \in Nat
    <2> HIDE DEF lo, hi
    <2>1. x \in Nat /\ t <= x /\ x < h
      OBVIOUS
    <2> QED BY <1>1, <2>1
  <1>2. CASE x < lo
    <2> DEFINE r == IdRange(t, lo)
    <2>1. t < lo
      BY <1>a, <1>2
    <2>2. r \in Holes(ids, t, h)
      BY <2>1 DEF Holes, FirstHole
    <2>3. r.tail <= x /\ x < r.head
      BY <1>a, <1>2 DEF IdRange
    <2> QED BY <2>2, <2>3 DEF Covers
  <1>3. CASE x > hi
    <2> DEFINE r == IdRange(hi + 1, h + Extra)
    <2>1. hi + 1 <= h
      BY <1>a, <1>3
    <2>2. r \in Holes(ids, t, h)
      BY <2>1 DEF Holes, LastHole
    <2>3. r.tail <= x /\ x < r.head
      <3> HIDE DEF hi
      <3> QED BY <1>a, <1>3, BatchAssumption DEF IdRange
    <2> QED BY <2>2, <2>3 DEF Covers
  <1> HIDE DEF lo, hi
  <1>4. CASE lo <= x /\ x <= hi
    <2> DEFINE below == {y \in ids : y < x}
               over == {y \in ids : y > x}
               p == Max(below)
               q == Min(over)
               r == IdRange(p + 1, q)
    <2> HIDE DEF p, q, r
    <2>1. lo \in below /\ hi \in over
      BY <1>1, <1>a, <1>4
    <2>2. below \in SUBSET ids /\ over \in SUBSET ids /\ below \in SUBSET Int /\ over \in SUBSET Int
      <3>1. below \in SUBSET ids /\ over \in SUBSET ids
        OBVIOUS
      <3>2. ids \in SUBSET Int
        OBVIOUS
      <3> HIDE DEF below, over
      <3> QED BY <3>1, <3>2
    <2>3. IsFiniteSet(below) /\ IsFiniteSet(over)
      BY <2>2, FS_Subset
    <2>4. p \in below /\ \A y \in below : y <= p
      <3>1. below # {}
        BY <2>1
      <3> HIDE DEF below
      <3> QED BY <2>2, <2>3, <3>1, MaxOf DEF p
    <2>5. q \in over /\ \A y \in over : q <= y
      <3>1. over # {}
        BY <2>1
      <3> HIDE DEF over
      <3> QED BY <2>2, <2>3, <3>1, MinOf DEF q
    <2>6. /\ p \in ids /\ q \in ids /\ p \in Nat /\ q \in Nat /\ p < x /\ x < q
          /\ \A y \in ids : y < p + 1 \/ q <= y
      <3>1. \A y \in ids : y \in Nat /\ (y \in below \/ y \in over)
        OBVIOUS
      <3>2. \A y \in ids : y < p + 1 \/ q <= y
        BY <2>4, <2>5, <3>1
      <3> QED BY <2>4, <2>5, <3>2
    <2>7. r \in Holes(ids, t, h)
      <3>1. r.tail = p + 1 /\ r.head = q
        BY DEF IdRange, r
      <3>2. r \in {IdRange(a + 1, b) : a \in ids, b \in ids}
        BY <2>6 DEF r
      <3>3. r \in InnerHoles(ids)
        BY <2>6, <3>1, <3>2 DEF InnerHoles
      <3> QED BY <3>3 DEF Holes
    <2>8. r.tail <= x /\ x < r.head
      BY <1>a, <2>6 DEF IdRange, r
    <2> QED BY <2>7, <2>8 DEF Covers
  <1> QED BY <1>a, <1>2, <1>3, <1>4

-----------------------------------------------------------------------------
(* All batches of a greeting. *)

Hole(ids, t, h, r) == \E a \in Holes(ids, t, h) : r \in Batches(a.tail, a.head)

\* A batch is part of one hole.
LEMMA OfHoles ==
  ASSUME NEW ids, NEW t, NEW h, ids # {}
  PROVE  \A r : r \in MissingBatches(ids, t, h) <=> Hole(ids, t, h, r)
  BY DEF MissingBatches, Holes, Hole

LEMMA HoleBatch ==
  ASSUME NEW ids \in SUBSET Nat, IsFiniteSet(ids), ids # {},
         NEW t \in Nat, NEW h \in Nat,
         NEW a \in Holes(ids, t, h), NEW r \in Batches(a.tail, a.head)
  PROVE  /\ r \in [tail : Nat, head : Nat]
         /\ r.tail < r.head /\ r.head - r.tail <= MaxBatch
         /\ a.tail \in Nat /\ a.head \in Nat /\ a.tail <= r.tail /\ r.head <= a.head
  <1>1. a \in [tail : Nat, head : Nat] /\ a.tail <= a.head
    BY HolesApart
  <1>2. a.tail \in Nat /\ a.head \in Nat
    BY <1>1
  <1>3. IsCut(Batches(a.tail, a.head)) /\ a.tail <= r.tail /\ r.head <= a.head
    BY <1>1, <1>2, BatchesCut
  <1> QED BY <1>2, <1>3 DEF IsCut

\* The batches of all holes together.
LEMMA MissingCut ==
  ASSUME NEW ids \in SUBSET Nat, IsFiniteSet(ids),
         NEW t \in Nat, NEW h \in Nat, t <= h
  PROVE  IsCut(MissingBatches(ids, t, h))
  <1>1. CASE ids = {}
    BY <1>1, AllBatchesCut DEF MissingBatches
  <1>2. CASE ids # {}
    <2>1. ASSUME NEW r \in MissingBatches(ids, t, h)
          PROVE  r \in [tail : Nat, head : Nat] /\ r.tail < r.head /\ r.head - r.tail <= MaxBatch
      <3>1. PICK a \in Holes(ids, t, h) : r \in Batches(a.tail, a.head)
        BY <1>2, OfHoles DEF Hole
      <3> QED BY <1>2, <3>1, HoleBatch
    <2>2. ASSUME NEW r \in MissingBatches(ids, t, h), NEW s \in MissingBatches(ids, t, h)
          PROVE  (r.tail < s.tail => r.head <= s.tail) /\ (r.tail = s.tail => r = s)
      <3>1. PICK a \in Holes(ids, t, h) : r \in Batches(a.tail, a.head)
        BY <1>2, OfHoles DEF Hole
      <3>2. PICK b \in Holes(ids, t, h) : s \in Batches(b.tail, b.head)
        BY <1>2, OfHoles DEF Hole
      <3>3. /\ r.tail \in Nat /\ r.head \in Nat /\ r.tail < r.head
            /\ a.tail \in Nat /\ a.head \in Nat /\ a.tail <= r.tail /\ r.head <= a.head
        BY <1>2, <3>1, HoleBatch
      <3>4. /\ s.tail \in Nat /\ s.head \in Nat /\ s.tail < s.head
            /\ b.tail \in Nat /\ b.head \in Nat /\ b.tail <= s.tail /\ s.head <= b.head
        BY <1>2, <3>2, HoleBatch
      <3>5. CASE a = b
        <4>1. IsCut(Batches(a.tail, a.head))
          BY <3>3, BatchesCut
        <4> QED BY <3>1, <3>2, <3>5, <4>1 DEF IsCut
      <3>6. CASE a # b
        <4>1. a.head <= b.tail \/ b.head <= a.tail
          <5>1. a.tail # a.head /\ b.tail # b.head
            BY <3>3, <3>4
          <5> QED BY <1>2, <3>6, <5>1, HolesApart
        <4> QED BY <3>3, <3>4, <4>1
      <3> QED BY <3>5, <3>6
    <2> QED BY <2>1, <2>2 DEF IsCut
  <1> QED BY <1>1, <1>2

\* There are finitely many, so they can be queued.
LEMMA MissingFinite ==
  ASSUME NEW ids \in SUBSET Nat, IsFiniteSet(ids),
         NEW t \in Nat, NEW h \in Nat, t <= h
  PROVE  IsFiniteSet(MissingBatches(ids, t, h))
  <1> DEFINE S == MissingBatches(ids, t, h)
  <1>1. \E k \in Nat : \A r \in S : r.tail <= k
    <2>1. CASE ids = {}
      <3>1. \A r \in S : r.tail < h
        BY <2>1, AllBatchesCut DEF MissingBatches
      <3>2. \A r \in S : r.tail \in Nat
        BY MissingCut DEF IsCut
      <3> QED BY <3>1, <3>2
    <2>2. CASE ids # {}
      <3> DEFINE m == Max(ids)
      <3>1. m \in Nat /\ \A x \in ids : x \in Nat /\ x <= m
        <4>1. ids \in SUBSET Int
          OBVIOUS
        <4> QED BY <2>2, <4>1, MaxOf
      <3> HIDE DEF m
      <3> DEFINE k == m + h + Extra
      <3>2. k \in Nat /\ h + Extra <= k /\ m <= k
        BY <3>1, BatchAssumption
      <3>3. ASSUME NEW r \in S PROVE r.tail <= k
        <4>1. PICK a \in Holes(ids, t, h) : r \in Batches(a.tail, a.head)
          BY <2>2, OfHoles DEF Hole
        <4>2. /\ r.tail \in Nat /\ r.head \in Nat /\ r.tail < r.head
              /\ a.head \in Nat /\ r.head <= a.head
          BY <2>2, <4>1, HoleBatch
        <4>3. a.head \in ids \/ a.head = h + Extra
          BY <2>2, HolesApart
        <4>4. a.head <= k
          <5> HIDE DEF k
          <5>1. CASE a.head \in ids
            <6>1. a.head \in Nat /\ a.head <= m
              BY <3>1, <5>1
            <6> QED BY <3>1, <3>2, <6>1
          <5>2. CASE a.head = h + Extra
            BY <3>2, <5>2
          <5> QED BY <4>3, <5>1, <5>2
        <4> HIDE DEF k
        <4> QED BY <3>2, <4>2, <4>4
      <3> HIDE DEF k
      <3> QED BY <3>2, <3>3
    <2> QED BY <2>1, <2>2
  <1>2. PICK k \in Nat : \A r \in S : r.tail <= k
    BY <1>1
  <1>3. /\ \A r \in S : r \in [tail : Nat, head : Nat]
        /\ \A r, s \in S : r.tail = s.tail => r = s
    BY MissingCut DEF IsCut
  <1> HIDE DEF S
  <1> DEFINE key == [r \in S |-> r.tail]
  <1>4. key \in [S -> 0 .. k]
    BY <1>2, <1>3
  <1>5. \A r, s \in S : key[r] = key[s] => r = s
    BY <1>3
  <1> HIDE DEF key
  <1>6. key \in Injection(S, 0 .. k)
    BY <1>4, <1>5, Fun_IsInj
  <1>7. IsFiniteSet(0 .. k)
    BY FS_Interval
  <1>8. IsFiniteSet(S)
    BY <1>6, <1>7, FS_Injection
  <1> QED BY <1>8 DEF S

\* They hold all Ids of the range that are missing and none that is there.
LEMMA MissingExact ==
  ASSUME NEW ids \in SUBSET Nat, IsFiniteSet(ids),
         NEW t \in Nat, NEW h \in Nat, t <= h
  PROVE  /\ \A x \in t .. h - 1 : x \in ids \/ Covers(MissingBatches(ids, t, h), x)
         /\ \A x \in ids : ~Covers(MissingBatches(ids, t, h), x)
         /\ \A r \in MissingBatches(ids, t, h) : t <= r.tail \/ \E x \in ids : x < t
  <1>1. CASE ids = {}
    BY <1>1, AllBatchesCut DEF MissingBatches
  <1>2. CASE ids # {}
    <2>1. ASSUME NEW x \in t .. h - 1, x \notin ids
          PROVE  Covers(MissingBatches(ids, t, h), x)
      <3>1. PICK a \in Holes(ids, t, h) : a.tail <= x /\ x < a.head
        BY <1>2, <2>1, HolesCover DEF Covers
      <3>2. a.tail \in Nat /\ a.head \in Nat /\ a.tail <= a.head /\ x \in Nat
        BY <1>2, HolesApart
      <3>3. x \in a.tail .. a.head - 1
        BY <3>1, <3>2
      <3>4. Covers(Batches(a.tail, a.head), x)
        BY <3>2, <3>3, BatchesCut
      <3>5. \A r \in Batches(a.tail, a.head) : r \in MissingBatches(ids, t, h)
        BY <1>2, OfHoles DEF Hole
      <3> QED BY <3>4, <3>5 DEF Covers
    <2>2. ASSUME NEW x \in ids, NEW r \in MissingBatches(ids, t, h), r.tail <= x, x < r.head
          PROVE  FALSE
      <3>1. PICK a \in Holes(ids, t, h) : r \in Batches(a.tail, a.head)
        BY <1>2, OfHoles DEF Hole
      <3>2. /\ r.tail \in Nat /\ r.head \in Nat
            /\ a.tail \in Nat /\ a.head \in Nat /\ a.tail <= r.tail /\ r.head <= a.head
        BY <1>2, <3>1, HoleBatch
      <3>3. x < a.tail \/ a.head <= x
        BY <1>2, HolesApart
      <3>4. x \in Nat
        OBVIOUS
      <3> QED BY <2>2, <3>2, <3>3, <3>4
    <2>3. ASSUME NEW r \in MissingBatches(ids, t, h)
          PROVE  t <= r.tail \/ \E x \in ids : x < t
      <3>1. PICK a \in Holes(ids, t, h) : r \in Batches(a.tail, a.head)
        BY <1>2, OfHoles DEF Hole
      <3>2. r.tail \in Nat /\ a.tail \in Nat /\ a.tail <= r.tail
        BY <1>2, <3>1, HoleBatch
      <3>3. t <= a.tail \/ \E x \in ids : x < t
        <4>1. CASE a \in FirstHole(ids, t)
          BY <4>1 DEF FirstHole, IdRange
        <4>2. CASE a \in InnerHoles(ids)
          <5>1. PICK p \in ids, q \in ids : a = [tail |-> p + 1, head |-> q]
            BY <4>2 DEF InnerHoles, IdRange
          <5>2. p \in Nat /\ a.tail = p + 1
            BY <5>1
          <5>3. CASE p < t
            BY <5>3
          <5>4. CASE ~(p < t)
            BY <5>2, <5>4
          <5> QED BY <5>3, <5>4
        <4>3. CASE a \in LastHole(ids, h)
          <5> DEFINE m == Max(ids)
          <5>1. m \in ids /\ m \in Nat
            <6>1. ids \in SUBSET Int
              OBVIOUS
            <6> QED BY <1>2, <6>1, MaxOf
          <5>2. a.tail = m + 1
            BY <4>3 DEF LastHole, IdRange
          <5> HIDE DEF m
          <5>3. CASE m < t
            BY <5>1, <5>3
          <5>4. CASE ~(m < t)
            BY <5>1, <5>2, <5>4
          <5> QED BY <5>3, <5>4
        <4> QED BY <4>1, <4>2, <4>3 DEF Holes
      <3> QED BY <3>2, <3>3
    <2> QED BY <2>1, <2>2, <2>3 DEF Covers
  <1> QED BY <1>1, <1>2

-----------------------------------------------------------------------------
(* The queue of a greeting. *)

LEMMA QueueTyped ==
  ASSUME NEW ids \in SUBSET Nat, IsFiniteSet(ids),
         NEW t \in Nat, NEW h \in Nat, t <= h
  PROVE  /\ RowsToFetch(ids, t, h) \in Seq([tail : Nat, head : Nat])
         /\ \A i \in DOMAIN RowsToFetch(ids, t, h) :
              RowsToFetch(ids, t, h)[i] \in MissingBatches(ids, t, h)
         /\ \A r \in MissingBatches(ids, t, h) :
              \E i \in DOMAIN RowsToFetch(ids, t, h) : RowsToFetch(ids, t, h)[i] = r
         /\ \A i \in DOMAIN RowsToFetch(ids, t, h) : \A j \in 1 .. i - 1 :
              /\ j \in DOMAIN RowsToFetch(ids, t, h)
              /\ RowsToFetch(ids, t, h)[i].tail < RowsToFetch(ids, t, h)[j].tail
  <1> DEFINE S == MissingBatches(ids, t, h)
             q == RowsToFetch(ids, t, h)
             n == Cardinality(S)
  <1>1. IsCut(S) /\ IsFiniteSet(S)
    BY MissingCut, MissingFinite
  <1>2. S \in SUBSET [tail : Nat, head : Nat] /\ \A r, s \in S : r.tail = s.tail => r = s
    BY <1>1 DEF IsCut
  <1>3. q = NewestFirst(S)
    BY DEF RowsToFetch
  <1> HIDE DEF S, q
  <1>4. S \in SUBSET [tail : Int, head : Int]
    BY <1>2
  <1>5. /\ n \in Nat /\ q \in [1 .. n -> S]
        /\ \A r \in S : \E i \in 1 .. n : q[i] = r
        /\ \A i \in 1 .. n : \A j \in 1 .. i - 1 : q[i].tail < q[j].tail
    BY <1>1, <1>2, <1>3, <1>4, Sorted
  <1> HIDE DEF n
  <1>6. q \in Seq(S)
    BY <1>5
  <1>7. q \in Seq([tail : Nat, head : Nat])
    BY <1>2, <1>6, SeqMonotonic
  <1>8. DOMAIN q = 1 .. n /\ \A i \in 1 .. n : \A j \in 1 .. i - 1 : j \in 1 .. n
    BY <1>5
  <1> QED BY <1>5, <1>7, <1>8 DEF q, S

(* Exactly the missing Ids are asked for, once each and newest first, for every *)
(* database, every announced range and every batch size (PlcServer2.fs:177-200). *)
THEOREM QueueRight ==
  ASSUME NEW ids \in SUBSET Nat, IsFiniteSet(ids),
         NEW t \in Nat, NEW h \in Nat, t <= h
  PROVE  AsksRight(ids, t, h)
  <1> DEFINE S == MissingBatches(ids, t, h)
             q == RowsToFetch(ids, t, h)
             asked == UNION {IdsOf(q[i]) : i \in DOMAIN q}
  <1>1. /\ IsCut(S)
        /\ \A x \in t .. h - 1 : x \in ids \/ Covers(S, x)
        /\ \A x \in ids : ~Covers(S, x)
    <2>1. IsCut(S)
      BY MissingCut
    <2>2. \A x \in t .. h - 1 : x \in ids \/ Covers(S, x)
      BY MissingExact
    <2>3. \A x \in ids : ~Covers(S, x)
      BY MissingExact
    <2> QED BY <2>1, <2>2, <2>3
  <1>2. /\ \A i \in DOMAIN q : q[i] \in S
        /\ \A r \in S : \E i \in DOMAIN q : q[i] = r
        /\ \A i \in DOMAIN q : \A j \in 1 .. i - 1 : j \in DOMAIN q /\ q[i].tail < q[j].tail
    <2>1. \A i \in DOMAIN q : q[i] \in S
      BY QueueTyped
    <2>2. \A r \in S : \E i \in DOMAIN q : q[i] = r
      BY QueueTyped
    <2>3. \A i \in DOMAIN q : \A j \in 1 .. i - 1 : j \in DOMAIN q /\ q[i].tail < q[j].tail
      BY QueueTyped
    <2> QED BY <2>1, <2>2, <2>3
  <1> HIDE DEF S, q
  <1>3. \A x \in Nat : x \in asked <=> Covers(S, x)
    <2> TAKE x \in Nat
    <2>1. \A r \in S : r.tail \in Nat /\ r.head \in Nat /\ (x \in IdsOf(r) <=> r.tail <= x /\ x < r.head)
      BY <1>1 DEF IsCut, IdsOf
    <2>2. x \in asked <=> \E i \in DOMAIN q : x \in IdsOf(q[i])
      OBVIOUS
    <2> HIDE DEF asked
    <2> QED BY <1>2, <2>1, <2>2 DEF Covers
  <1> HIDE DEF asked
  <1>4. (t .. h - 1) \ ids \subseteq asked
    <2>1. \A x \in t .. h - 1 : x \in Nat
      OBVIOUS
    <2> QED BY <1>1, <1>3, <2>1
  <1>5. asked \cap ids = {}
    BY <1>1, <1>3
  <1>6. \A i \in DOMAIN q :
          /\ q[i].tail < q[i].head /\ q[i].head - q[i].tail <= MaxBatch
          /\ \A j \in 1 .. i - 1 : q[i].head <= q[j].tail
    BY <1>1, <1>2 DEF IsCut
  <1> QED BY <1>4, <1>5, <1>6 DEF AsksRight, asked, q
-----------------------------------------------------------------------------
(* The protocol. *)

\* Rows that the PLC has added when its head is h, under their Id or the next.
Near(h) == {x \in [label : Nat, row : Nat] : x.row < h /\ x.label - x.row \in {0, 1}}

Carriers(h) == [type : {"live", "rows"}, rows : SUBSET Near(h)]
Messages(h) == [type : {"greeting"}, range : RangeTypes] \cup Carriers(h)

NearInv ==
  /\ setup \in Setups
  /\ HeadId \in Nat /\ TailId \in Nat
  /\ greeting \in RangeTypes
  /\ outbox \in Seq(Messages(HeadId))
  /\ toServer \in [Conns -> Seq(Messages(HeadId))]
  /\ db \subseteq Near(HeadId)
-----------------------------------------------------------------------------
\* The larger of two numbers, for the tail of the ring.
LEMMA LargerOf ==
  ASSUME NEW m \in Int, NEW n \in Int
  PROVE  Max({m, n}) \in {m, n} /\ Max({m, n}) >= m /\ Max({m, n}) >= n
  <1>1. \E x \in {m, n} : \A y \in {m, n} : x >= y
    <2>1. CASE m >= n
      BY <2>1
    <2>2. CASE ~(m >= n)
      BY <2>2
    <2> QED BY <2>1, <2>2
  <1> QED BY <1>1 DEF Max

\* The numbers of the setup.
LEMMA SetupTypes ==
  ASSUME NearInv
  PROVE  setup.capacity \in Nat /\ setup.firstHead \in Nat
  BY SyncAssumption DEF NearInv

\* The PLC adds rows only: what was near stays near.
LEMMA NearGrows ==
  ASSUME NEW h \in Nat
  PROVE  /\ Near(h) \subseteq Near(h + 1)
         /\ Messages(h) \subseteq Messages(h + 1)
         /\ Seq(Messages(h)) \subseteq Seq(Messages(h + 1))
  <1>1. Near(h) \subseteq Near(h + 1)
    BY DEF Near
  <1>2. Messages(h) \subseteq Messages(h + 1)
    BY <1>1 DEF Messages, Carriers
  <1> QED BY <1>1, <1>2

\* The message the server looks at; when it is no greeting it carries rows.
LEMMA ReceivedTyped ==
  ASSUME NearInv, NEW c \in Conns, toServer[c] # <<>>
  PROVE  /\ Received(c) \in Messages(HeadId)
         /\ Tail(toServer[c]) \in Seq(Messages(HeadId))
         /\ Received(c).type \in {"live", "rows"} => Received(c).rows \subseteq Near(HeadId)
  <1>1. toServer[c] \in Seq(Messages(HeadId))
    BY DEF NearInv
  <1>2. Received(c) \in Messages(HeadId) /\ Tail(toServer[c]) \in Seq(Messages(HeadId))
    BY <1>1, HeadTailProperties DEF Received
  <1>3. Received(c).type \in {"live", "rows"} => Received(c) \in Carriers(HeadId)
    BY <1>2 DEF Messages
  <1> QED BY <1>2, <1>3 DEF Carriers

\* Nothing is on its way at first.
LEMMA NearInit == Init => NearInv
  <1> SUFFICES ASSUME Init PROVE NearInv
    OBVIOUS
  <1>1. setup.capacity \in Nat /\ setup.firstHead \in Nat
    BY SyncAssumption DEF Init
  <1>2. HeadId \in Nat /\ TailId \in Nat
    <2>1. setup.firstHead - setup.capacity \in Int
      BY <1>1
    <2>2. TailId \in Int /\ TailId >= 0
      BY <2>1, LargerOf DEF Init
    <2> QED BY <1>1, <2>2 DEF Init
  <1> QED BY <1>2 DEF Init, NearInv, IdRange, RangeTypes

\* An answer to a query has rows under their own Ids.
LEMMA FetchedNear ==
  ASSUME NearInv, NEW r
  PROVE  Fetched(r) \subseteq Near(HeadId)
  <1>1. \A i \in TailId .. HeadId - 1 : LabelledRow(i, i) \in Near(HeadId)
    BY DEF NearInv, Near, LabelledRow
  <1> QED BY <1>1 DEF Fetched

\* One step per action that moves a row or a message; the others leave all in place.
LEMMA NearStep == NearInv /\ [Next]_vars => NearInv'
  <1> SUFFICES ASSUME NearInv, [Next]_vars PROVE NearInv'
    OBVIOUS
  <1> USE DEF NearInv
  <1>0. CASE UNCHANGED vars
    BY <1>0 DEF vars, ringVars, inputVars, netVars, serverVars
  <1>a. CASE Next
    <2>1. UNCHANGED setup
      BY <1>a DEF Next
    <2>2. CASE FlushRound \/ ModbusConnect \/ DevicesFail \/ CompareRow \/ EndRound
      <3>1. outbox' = outbox \/ outbox' = <<>>
        BY <2>2 DEF FlushRound, ModbusConnect, DevicesFail, CompareRow, EndRound
      <3>2. outbox' \in Seq(Messages(HeadId))
        BY <3>1, EmptySeq
      <3>3. UNCHANGED <<HeadId, TailId, greeting, toServer, db>>
        BY <2>2 DEF FlushRound, ModbusConnect, DevicesFail, CompareRow, EndRound,
                    ringVars, inputVars, netVars, serverVars
      <3> QED BY <2>1, <3>2, <3>3
    <2>3. CASE WriteRow
      <3>1. HeadId' = HeadId + 1
        BY <2>3 DEF WriteRow
      <3>2. TailId' \in Nat
        <4>1. TailId' = Max({TailId, HeadId + 1 - setup.capacity})
          BY <2>3 DEF WriteRow
        <4>2. HeadId + 1 - setup.capacity \in Int
          BY SetupTypes
        <4>3. ASSUME NEW n \in Int, TailId' = Max({TailId, n}) PROVE TailId' \in Nat
          <5>1. TailId \in Int /\ TailId >= 0
            OBVIOUS
          <5>2. Max({TailId, n}) \in {TailId, n} /\ Max({TailId, n}) >= TailId
            BY <5>1, LargerOf
          <5> QED BY <4>3, <5>1, <5>2
        <4> QED BY <4>1, <4>2, <4>3
      <3>3. LiveRow(LabelledRow(LiveLabel, HeadId)) \in Messages(HeadId + 1)
        BY <3>1 DEF LiveRow, LabelledRow, LiveLabel, Messages, Carriers, Near
      <3>4. outbox' \in Seq(Messages(HeadId'))
        <4>1. outbox' = Append(outbox, LiveRow(LabelledRow(LiveLabel, HeadId)))
          BY <2>3 DEF WriteRow
        <4> QED BY <4>1, <3>1, <3>3, NearGrows, AppendProperties
      <3>5. UNCHANGED <<greeting, toServer, db>>
        BY <2>3 DEF WriteRow, inputVars, netVars, serverVars
      <3> QED BY <2>1, <3>1, <3>2, <3>4, <3>5, NearGrows
    <2>4. CASE ServeQuery
      <3>1. Rows(Fetched(Head(queries))) \in Messages(HeadId)
        BY FetchedNear DEF Rows, Messages, Carriers
      <3>2. outbox' \in Seq(Messages(HeadId))
        BY <2>4, <3>1, AppendProperties DEF ServeQuery
      <3> QED BY <2>1, <2>4, <3>2 DEF ServeQuery, ringVars, inputVars, netVars, serverVars
    <2>5. CASE Connect \/ Read \/ PickStream \/ NothingToSend
      BY <2>1, <2>5 DEF Connect, Read, PickStream, NothingToSend,
                        ringVars, inputVars, netVars, serverVars
    <2>6. CASE OpenStream \/ ReadFails
      <3>1. outbox' \in Seq(Messages(HeadId))
        BY <2>6, EmptySeq DEF OpenStream, ReadFails
      <3> QED BY <2>1, <2>6, <3>1 DEF OpenStream, ReadFails, ringVars, netVars, serverVars
    <2>7. CASE GreetTail \/ GreetHead
      BY <2>1, <2>7 DEF GreetTail, GreetHead, IdRange, RangeTypes, ringVars, netVars, serverVars
    <2>8. CASE Greet
      <3>1. Greeting(greeting) \in Messages(HeadId)
        BY DEF Greeting, Messages
      <3>2. outbox' \in Seq(Messages(HeadId))
        BY <2>8, <3>1, AppendProperties DEF Greet
      <3> QED BY <2>1, <2>8, <3>2 DEF Greet, ringVars, netVars, serverVars
    <2>9. CASE Send
      <3>1. Head(outbox) \in Messages(HeadId) /\ outbox' \in Seq(Messages(HeadId))
        BY <2>9, HeadTailProperties DEF Send
      <3>2. toServer' \in [Conns -> Seq(Messages(HeadId))]
        <4>1. \A c \in Conns : Append(toServer[c], Head(outbox)) \in Seq(Messages(HeadId))
          BY <3>1, AppendProperties
        <4> QED BY <2>9, <4>1 DEF Send
      <3> QED BY <2>1, <2>9, <3>1, <3>2 DEF Send, ringVars, inputVars, serverVars
    <2>10. CASE Break
      <3>1. \A c \in Conns : \A n \in 0 .. Len(toServer[c]) :
              SubSeq(toServer[c], 1, n) \in Seq(Messages(HeadId))
        <4> TAKE c \in Conns
        <4> TAKE n \in 0 .. Len(toServer[c])
        <4>1. toServer[c] \in Seq(Messages(HeadId))
          OBVIOUS
        <4> QED BY <4>1, SubSeqProperties
      <3>2. PICK n \in 0 .. Len(toServer[conn]) :
              toServer' = [toServer EXCEPT ![conn] = SubSeq(@, 1, n)]
        BY <2>10 DEF Break
      <3>3. toServer' \in [Conns -> Seq(Messages(HeadId))]
        BY <3>1, <3>2
      <3> QED BY <2>1, <2>10, <3>3 DEF Break, ringVars, inputVars, serverVars
    <2>11. ASSUME NEW c \in Conns, Serve(c) PROVE NearInv'
      <3>1. toServer[c] # <<>>
        BY <2>11 DEF Serve, Reject, Welcome, StoreLive, StoreRows
      <3>2. /\ Tail(toServer[c]) \in Seq(Messages(HeadId))
            /\ Received(c).type \in {"live", "rows"} => Received(c).rows \subseteq Near(HeadId)
        BY <3>1, ReceivedTyped
      <3>3. /\ UNCHANGED <<HeadId, TailId, greeting, outbox>>
            /\ toServer' \in {[toServer EXCEPT ![c] = <<>>],
                              [toServer EXCEPT ![c] = Tail(toServer[c])]}
        BY <2>11 DEF Serve, Reject, Welcome, StoreLive, StoreRows, ringVars, inputVars
      <3>4. toServer' \in [Conns -> Seq(Messages(HeadId))]
        BY <3>2, <3>3, EmptySeq
      <3>5. db' \subseteq Near(HeadId)
        <4>1. db' = db \/ (Received(c).type \in {"live", "rows"} /\ db' \subseteq db \cup Received(c).rows)
          BY <2>11 DEF Serve, Reject, Welcome, StoreLive, StoreRows, New
        <4> QED BY <3>2, <4>1
      <3> QED BY <2>1, <3>3, <3>4, <3>5
    <2> QED
      BY <1>a, <2>2, <2>3, <2>4, <2>5, <2>6, <2>7, <2>8, <2>9, <2>10, <2>11
      DEF Next, PlcThread, InputThread, OutputThread
  <1> QED BY <1>0, <1>a
-----------------------------------------------------------------------------
(* What the database has are rows of the PLC, under their own Id or the next, *)
(* whatever breaks and however late a message comes (PlcEngine.java:456, 904). *)
THEOREM RowsNearTheirIds == Spec => []StoredNearOwnId
  <1>1. NearInv => StoredNearOwnId
    BY DEF NearInv, StoredNearOwnId, Near
  <1> QED BY <1>1, NearInit, NearStep, PTL DEF Spec

-----------------------------------------------------------------------------
\* Labels are no further than the next Id: the database is finite.
LEMMA LabelsFinite ==
  ASSUME NearInv
  PROVE  Labels \in SUBSET Nat /\ IsFiniteSet(Labels)
  <1>1. \A x \in Near(HeadId) : x.label \in 0 .. HeadId
    BY DEF NearInv, Near
  <1>2. Labels \in SUBSET (0 .. HeadId)
    BY <1>1 DEF NearInv, Labels
  <1>3. IsFiniteSet(0 .. HeadId)
    BY FS_Interval DEF NearInv
  <1>4. \A l \in 0 .. HeadId : l \in Nat
    OBVIOUS
  <1> QED BY <1>2, <1>3, <1>4, FS_Subset

(* Whatever the database has and wherever the ring starts, exactly the missing *)
(* Ids are asked for, once each, newest first (PlcServer2.fs:177-200).         *)
THEOREM ScanRight == Spec => []RangesRight
  <1>1. NearInv => RangesRight
    <2> SUFFICES ASSUME NearInv, NEW t \in 0 .. HeadId
                 PROVE  AsksRight(Labels, t, HeadId)
      BY DEF RangesRight
    <2>1. t \in Nat /\ HeadId \in Nat /\ t <= HeadId
      BY DEF NearInv
    <2>2. Labels \in SUBSET Nat /\ IsFiniteSet(Labels)
      BY LabelsFinite
    <2> QED BY <2>1, <2>2, QueueRight
  <1> QED BY <1>1, NearInit, NearStep, PTL DEF Spec

-----------------------------------------------------------------------------
(* Queues. *)

\* What is left of a queue when its head is taken.
LEMMA TailIndex ==
  ASSUME NEW M, NEW s \in Seq(M), s # <<>>
  PROVE  /\ Len(s) \in Nat \ {0} /\ DOMAIN s = 1 .. Len(s)
         /\ Head(s) = s[1] /\ Head(s) \in M /\ Tail(s) \in Seq(M)
         /\ DOMAIN Tail(s) = 1 .. Len(s) - 1
         /\ \A i \in 1 .. Len(s) - 1 : i + 1 \in 2 .. Len(s) /\ Tail(s)[i] = s[i + 1]
         /\ \A j \in 2 .. Len(s) : j - 1 \in 1 .. Len(s) - 1 /\ Tail(s)[j - 1] = s[j]
  <1>1. Len(s) \in Nat \ {0} /\ DOMAIN s = 1 .. Len(s)
    BY EmptySeq
  <1>2. /\ Head(s) \in M /\ Tail(s) \in Seq(M) /\ Len(Tail(s)) = Len(s) - 1
        /\ \A i \in 1 .. Len(Tail(s)) : Tail(s)[i] = s[i + 1]
    BY HeadTailProperties
  <1>3. Head(s) = s[1] /\ DOMAIN Tail(s) = 1 .. Len(s) - 1
    BY <1>1, <1>2
  <1>4. \A j \in 2 .. Len(s) : j - 1 \in 1 .. Len(s) - 1 /\ Tail(s)[j - 1] = s[j]
    BY <1>1, <1>2
  <1> QED BY <1>1, <1>2, <1>3, <1>4

\* A queue with one element more.
LEMMA AppendIndex ==
  ASSUME NEW M, NEW s \in Seq(M), NEW m \in M
  PROVE  /\ Len(s) \in Nat /\ DOMAIN s = 1 .. Len(s)
         /\ Append(s, m) \in Seq(M)
         /\ DOMAIN Append(s, m) = 1 .. Len(s) + 1
         /\ \A i \in 1 .. Len(s) : Append(s, m)[i] = s[i]
         /\ Append(s, m)[Len(s) + 1] = m
  BY AppendProperties

\* A prefix of a queue.
LEMMA PrefixIndex ==
  ASSUME NEW M, NEW s \in Seq(M), NEW n \in 0 .. Len(s)
  PROVE  /\ SubSeq(s, 1, n) \in Seq(M)
         /\ \A i \in DOMAIN SubSeq(s, 1, n) : i \in DOMAIN s /\ SubSeq(s, 1, n)[i] = s[i]
  OBVIOUS

\* Announced ranges are no longer than nothing.
Announced(s) == \A i \in DOMAIN s : s[i].type = "greeting" => s[i].range.tail <= s[i].range.head

LEMMA AnnouncedMoves ==
  ASSUME NEW M, NEW s \in Seq(M), Announced(s)
  PROVE  /\ s # <<>> => Announced(Tail(s))
         /\ \A n \in 0 .. Len(s) : Announced(SubSeq(s, 1, n))
         /\ \A m \in M : (m.type = "greeting" => m.range.tail <= m.range.head)
                           => Announced(Append(s, m))
         /\ Announced(<<>>)
  <1>1. ASSUME s # <<>> PROVE Announced(Tail(s))
    <2>1. \A i \in DOMAIN Tail(s) : i + 1 \in DOMAIN s /\ Tail(s)[i] = s[i + 1]
      BY <1>1, TailIndex
    <2> QED BY <2>1 DEF Announced
  <1>2. ASSUME NEW n \in 0 .. Len(s) PROVE Announced(SubSeq(s, 1, n))
    BY PrefixIndex DEF Announced
  <1>3. ASSUME NEW m \in M, m.type = "greeting" => m.range.tail <= m.range.head
        PROVE  Announced(Append(s, m))
    <2>1. \A i \in DOMAIN Append(s, m) :
            (i \in DOMAIN s /\ Append(s, m)[i] = s[i]) \/ Append(s, m)[i] = m
      BY AppendIndex
    <2> QED BY <1>3, <2>1 DEF Announced
  <1> QED BY <1>1, <1>2, <1>3 DEF Announced
-----------------------------------------------------------------------------
(* Types of all variables. *)

ThreadTypes ==
  /\ round \in {"flush", "connect", "row", "different", "minute", "queries"}
  /\ modbus \in BOOLEAN /\ trigger \in BOOLEAN
  /\ input \in {"offline", "connected", "tail", "head", "greet", "reading"}
  /\ conn \in 0 .. MaxConn /\ stream \in 0 .. conn /\ out \in 0 .. conn /\ up \in BOOLEAN
  /\ up => input # "offline"
  /\ input # "offline" => conn # 0
  /\ stream = IF input \in {"offline", "connected"} THEN 0 ELSE conn

ServerTypes ==
  /\ queries \in Seq(RangeTypes)
  /\ toPlc \in [Conns -> Seq(RangeTypes)] /\ toFetch \in [Conns -> Seq(RangeTypes)]
  /\ user \in [Conns -> {"none", "stranger", "plc", "rejected"}]

GreetingTypes ==
  /\ TailId <= HeadId
  /\ greeting.tail <= TailId /\ greeting.head <= HeadId
  /\ input = "greet" => greeting.tail <= greeting.head
  /\ Announced(outbox)
  /\ \A c \in Conns : Announced(toServer[c])

TypeInv == NearInv /\ ThreadTypes /\ ServerTypes /\ GreetingTypes

LEMMA TypeInit == Init => TypeInv
  <1> SUFFICES ASSUME Init PROVE TypeInv
    OBVIOUS
  <1>1. ThreadTypes
    <2>1. conn = 0 /\ conn \in 0 .. MaxConn /\ stream = 0 /\ out = 0
      BY SyncAssumption DEF Init
    <2>2. modbus \in BOOLEAN /\ trigger \in BOOLEAN /\ up \in BOOLEAN /\ ~up
      BY DEF Init
    <2>3. round = "flush" /\ input = "offline"
      BY DEF Init
    <2> QED BY <2>1, <2>2, <2>3 DEF ThreadTypes
  <1>2. ServerTypes
    <2>1. <<>> \in Seq(RangeTypes)
      BY EmptySeq
    <2> QED BY <2>1 DEF Init, ServerTypes
  <1>3. GreetingTypes
    <2>1. setup.capacity \in Nat \ {0} /\ setup.firstHead \in Nat /\ HeadId = setup.firstHead
      BY SyncAssumption DEF Init
    <2>2. TailId \in Int /\ 0 <= TailId /\ TailId <= HeadId
      <3>1. setup.firstHead - setup.capacity \in Int
        BY <2>1
      <3>2. ASSUME NEW d \in Int, TailId = Max({0, d}) PROVE TailId \in {0, d} /\ TailId >= 0
        BY <3>2, LargerOf
      <3>3. TailId = Max({0, setup.firstHead - setup.capacity})
        BY DEF Init
      <3>4. TailId \in {0, setup.firstHead - setup.capacity} /\ TailId >= 0
        BY <3>1, <3>2, <3>3
      <3> QED BY <2>1, <3>1, <3>4
    <2>3. greeting.tail = 0 /\ greeting.head = 0
      BY DEF Init, IdRange
    <2>4. Announced(outbox) /\ \A c \in Conns : Announced(toServer[c])
      BY DEF Init, Announced
    <2> QED BY <2>1, <2>2, <2>3, <2>4 DEF GreetingTypes
  <1> QED BY <1>1, <1>2, <1>3, NearInit DEF TypeInv

LEMMA ThreadStep == TypeInv /\ [Next]_vars => ThreadTypes'
  <1> SUFFICES ASSUME TypeInv, [Next]_vars PROVE ThreadTypes'
    OBVIOUS
  <1> USE DEF ThreadTypes
  <1>0. /\ ThreadTypes
        /\ MaxConn \in Nat /\ conn \in Nat /\ stream \in Nat /\ out \in Nat
    BY SyncAssumption DEF TypeInv
  <1>1. CASE UNCHANGED vars
    BY <1>0, <1>1 DEF vars, plcVars, inputVars, netVars
  <1>2. CASE FlushRound
    BY <1>0, <1>2 DEF FlushRound, inputVars, netVars
  <1>3. CASE ModbusConnect
    BY <1>0, <1>3 DEF ModbusConnect, inputVars, netVars
  <1>4. CASE DevicesFail
    BY <1>0, <1>4 DEF DevicesFail, ModbusClose, inputVars, netVars
  <1>5. CASE CompareRow
    BY <1>0, <1>5 DEF CompareRow, AfterRow, ModbusClose, inputVars, netVars
  <1>6. CASE WriteRow
    BY <1>0, <1>6 DEF WriteRow, AfterRow, ModbusClose, inputVars, netVars
  <1>7. CASE ServeQuery \/ EndRound
    BY <1>0, <1>7 DEF ServeQuery, EndRound, plcVars, inputVars, netVars
  <1>8. CASE Connect
    <2>1. conn' = conn + 1 /\ conn < MaxConn /\ UNCHANGED <<stream, out, round, modbus>>
      BY <1>8 DEF Connect
    <2>2. conn' \in 0 .. MaxConn /\ stream' \in 0 .. conn' /\ out' \in 0 .. conn'
      BY <1>0, <2>1
    <2>3. up' \in BOOLEAN /\ trigger' \in BOOLEAN /\ input' = "connected"
      BY <1>8 DEF Connect
    <2>4. stream' = 0 /\ conn' # 0
      BY <1>0, <1>8, <2>1 DEF Connect
    <2>5. modbus' \in BOOLEAN
      BY <1>0, <2>1
    <2> QED BY <1>0, <2>1, <2>2, <2>3, <2>4, <2>5
  <1>9. CASE OpenStream \/ GreetTail \/ GreetHead \/ Greet
    BY <1>0, <1>9 DEF OpenStream, GreetTail, GreetHead, Greet, plcVars, netVars
  <1>10. CASE Read
    BY <1>0, <1>10 DEF Read, plcVars, inputVars
  <1>11. CASE ReadFails
    BY <1>0, <1>11 DEF ReadFails, plcVars, netVars
  <1>12. CASE PickStream \/ NothingToSend
    BY <1>0, <1>12 DEF PickStream, NothingToSend, plcVars, inputVars, netVars
  <1>13. CASE Send
    BY <1>0, <1>13 DEF Send, plcVars, inputVars
  <1>14. CASE Break
    BY <1>0, <1>14 DEF Break, plcVars, inputVars
  <1>15. ASSUME NEW c \in Conns, Serve(c) PROVE ThreadTypes'
    <2>1. UNCHANGED <<plcVars, inputVars, out, conn>> /\ (up' = up \/ up' = FALSE)
      BY <1>0, <1>15 DEF Serve, Reject, Welcome, StoreLive, StoreRows
    <2>2. up' \in BOOLEAN /\ (up' => up)
      <3>1. up \in BOOLEAN
        BY <1>0
      <3>2. CASE up' = up
        BY <3>1, <3>2
      <3>3. CASE up' = FALSE
        BY <3>3
      <3> QED BY <2>1, <3>2, <3>3
    <2>3. modbus' \in BOOLEAN /\ trigger' \in BOOLEAN
      BY <1>0, <2>1 DEF plcVars
    <2>4. UNCHANGED <<round, input, conn, stream, out>>
      BY <2>1 DEF plcVars, inputVars
    <2> QED BY <1>0, <2>2, <2>3, <2>4
  <1> QED
    BY <1>1, <1>2, <1>3, <1>4, <1>5, <1>6, <1>7, <1>8, <1>9, <1>10, <1>11, <1>12, <1>13,
       <1>14, <1>15
    DEF Next, PlcThread, InputThread, OutputThread

\* A greeting that the server looks at announces a range.
LEMMA GreetingTyped ==
  ASSUME TypeInv, NEW c \in Conns, toServer[c] # <<>>, Received(c).type = "greeting"
  PROVE  /\ Received(c).range \in RangeTypes
         /\ Received(c).range.tail \in Nat /\ Received(c).range.head \in Nat
         /\ Received(c).range.tail <= Received(c).range.head
  <1>1. toServer[c] \in Seq(Messages(HeadId)) /\ Announced(toServer[c])
    BY DEF TypeInv, NearInv, GreetingTypes
  <1>2. Received(c) = toServer[c][1] /\ 1 \in DOMAIN toServer[c]
    BY <1>1, TailIndex DEF Received
  <1>3. Received(c) \in Messages(HeadId)
    BY <1>1, TailIndex DEF Received
  <1>4. Received(c).range \in RangeTypes
    BY <1>3 DEF Messages, Carriers
  <1> QED BY <1>1, <1>2, <1>4 DEF Announced, RangeTypes

LEMMA QueryTyped ==
  ASSUME TypeInv, NEW c \in Conns, NEW q \in Seq(RangeTypes), QueryNext(c, q)
  PROVE  toFetch' \in [Conns -> Seq(RangeTypes)] /\ toPlc' \in [Conns -> Seq(RangeTypes)]
  <1>1. toFetch \in [Conns -> Seq(RangeTypes)] /\ toPlc \in [Conns -> Seq(RangeTypes)]
    BY DEF TypeInv, ServerTypes
  <1>2. CASE q = <<>>
    BY <1>1, <1>2 DEF QueryNext
  <1>3. CASE q # <<>>
    <2>1. Head(q) \in RangeTypes /\ Tail(q) \in Seq(RangeTypes)
      BY <1>3, TailIndex
    <2>2. Append(toPlc[c], Head(q)) \in Seq(RangeTypes)
      BY <1>1, <2>1, AppendIndex
    <2>3. toFetch' = [toFetch EXCEPT ![c] = Tail(q)]
      BY <1>3 DEF QueryNext
    <2>4. toPlc' = [toPlc EXCEPT ![c] = Append(toPlc[c], Head(q))] \/ toPlc' = toPlc
      BY <1>3 DEF QueryNext
    <2> QED BY <1>1, <2>1, <2>2, <2>3, <2>4
  <1> QED BY <1>2, <1>3

LEMMA ServerStep == TypeInv /\ [Next]_vars => ServerTypes'
  <1> SUFFICES ASSUME TypeInv, [Next]_vars PROVE ServerTypes'
    OBVIOUS
  <1> USE DEF ServerTypes
  <1>0. ServerTypes
    BY DEF TypeInv
  <1>1. CASE UNCHANGED vars
    BY <1>0, <1>1 DEF vars, netVars, serverVars
  <1>2. CASE FlushRound \/ ModbusConnect \/ DevicesFail \/ CompareRow \/ WriteRow \/ EndRound
    BY <1>0, <1>2 DEF FlushRound, ModbusConnect, DevicesFail, CompareRow, WriteRow, EndRound,
                      netVars, serverVars
  <1>3. CASE ServeQuery
    BY <1>0, <1>3, TailIndex DEF ServeQuery, netVars, serverVars
  <1>4. CASE Connect
    BY <1>0, <1>4 DEF Connect
  <1>5. CASE OpenStream \/ GreetTail \/ GreetHead \/ Greet \/ ReadFails \/ PickStream \/ NothingToSend
    BY <1>0, <1>5 DEF OpenStream, GreetTail, GreetHead, Greet, ReadFails, PickStream,
                      NothingToSend, netVars, serverVars
  <1>6. CASE Read
    <2>1. toPlc[conn] # <<>> /\ queries' = Append(queries, Head(toPlc[conn]))
          /\ toPlc' = [toPlc EXCEPT ![conn] = Tail(@)] /\ UNCHANGED serverVars
      BY <1>6 DEF Read
    <2>2. CASE conn \in Conns
      <3>1. Head(toPlc[conn]) \in RangeTypes /\ Tail(toPlc[conn]) \in Seq(RangeTypes)
        BY <1>0, <2>1, <2>2, TailIndex
      <3> QED BY <1>0, <2>1, <3>1, AppendIndex DEF serverVars
    <2>3. conn \in Conns
      BY <1>6 DEF Read, TypeInv, ThreadTypes, Conns
    <2> QED BY <2>2, <2>3
  <1>7. CASE Send
    BY <1>0, <1>7 DEF Send, serverVars
  <1>8. CASE Break
    <2>1. PICK m \in 0 .. Len(toPlc[conn]) : toPlc' = [toPlc EXCEPT ![conn] = SubSeq(@, 1, m)]
      BY <1>8 DEF Break
    <2>2. conn \in Conns => SubSeq(toPlc[conn], 1, m) \in Seq(RangeTypes)
      BY <1>0, PrefixIndex
    <2> QED BY <1>0, <1>8, <2>1, <2>2 DEF Break, serverVars
  <1>9. ASSUME NEW c \in Conns, Serve(c) PROVE ServerTypes'
    <2>0. UNCHANGED queries
      BY <1>9 DEF Serve, Reject, Welcome, StoreLive, StoreRows
    <2>1. CASE Reject(c)
      BY <1>0, <2>0, <2>1 DEF Reject
    <2>2. CASE Welcome(c)
      <3> DEFINE q == RowsToFetch(Labels, Received(c).range.tail, Received(c).range.head)
      <3>1. q \in Seq(RangeTypes)
        <4>1. Labels \in SUBSET Nat /\ IsFiniteSet(Labels)
          BY LabelsFinite DEF TypeInv
        <4>2. /\ Received(c).range.tail \in Nat /\ Received(c).range.head \in Nat
              /\ Received(c).range.tail <= Received(c).range.head
          BY <2>2, GreetingTyped DEF Welcome
        <4> QED BY <4>1, <4>2, QueueTyped DEF RangeTypes
      <3>2. QueryNext(c, q) /\ user' = [user EXCEPT ![c] = "plc"]
        BY <2>2 DEF Welcome
      <3> HIDE DEF q
      <3>3. toFetch' \in [Conns -> Seq(RangeTypes)] /\ toPlc' \in [Conns -> Seq(RangeTypes)]
        BY <3>1, <3>2, QueryTyped
      <3> QED BY <1>0, <2>0, <3>2, <3>3
    <2>3. CASE StoreLive(c)
      BY <1>0, <2>0, <2>3 DEF StoreLive
    <2>4. CASE StoreRows(c)
      <3>1. Unfetched(c) \in Seq(RangeTypes)
        BY <1>0, EmptySeq DEF Unfetched
      <3>2. UNCHANGED <<toFetch, toPlc>> \/ QueryNext(c, Unfetched(c))
        BY <2>4 DEF StoreRows
      <3>3. UNCHANGED user
        BY <2>4 DEF StoreRows
      <3>4. toFetch' \in [Conns -> Seq(RangeTypes)] /\ toPlc' \in [Conns -> Seq(RangeTypes)]
        BY <1>0, <3>1, <3>2, QueryTyped
      <3> QED BY <1>0, <2>0, <3>3, <3>4
    <2> QED BY <1>9, <2>1, <2>2, <2>3, <2>4 DEF Serve
  <1> QED
    BY <1>1, <1>2, <1>3, <1>4, <1>5, <1>6, <1>7, <1>8, <1>9
    DEF Next, PlcThread, InputThread, OutputThread

\* The tail of the ring moves forwards and stays behind the head.
LEMMA RingMoves ==
  ASSUME TypeInv, WriteRow
  PROVE  TailId' \in Nat /\ TailId <= TailId' /\ TailId' <= HeadId + 1
  <1>0. HeadId \in Nat /\ TailId \in Nat /\ TailId <= HeadId
    BY DEF TypeInv, NearInv, GreetingTypes
  <1>1. TailId' = Max({TailId, HeadId + 1 - setup.capacity})
    BY DEF WriteRow
  <1>2. setup.capacity \in Nat
    BY SetupTypes DEF TypeInv
  <1>3. HeadId + 1 - setup.capacity \in Int /\ HeadId + 1 - setup.capacity <= HeadId + 1
    BY <1>0, <1>2
  <1>4. ASSUME NEW d \in Int, TailId' = Max({TailId, d})
        PROVE  TailId' \in {TailId, d} /\ TailId <= TailId'
    <2>1. TailId \in Int
      BY <1>0
    <2>2. Max({TailId, d}) \in {TailId, d} /\ Max({TailId, d}) >= TailId
      BY <2>1, LargerOf
    <2> QED BY <1>4, <2>1, <2>2
  <1>5. TailId' \in {TailId, HeadId + 1 - setup.capacity} /\ TailId <= TailId'
    BY <1>1, <1>3, <1>4
  <1> QED BY <1>0, <1>3, <1>5

\* The greeting announces the ring as it was a moment ago.
LEMMA GreetingStep == TypeInv /\ [Next]_vars => GreetingTypes'
  <1> SUFFICES ASSUME TypeInv, [Next]_vars PROVE GreetingTypes'
    OBVIOUS
  <1>0. /\ GreetingTypes
        /\ HeadId \in Nat /\ TailId \in Nat /\ greeting.tail \in Nat /\ greeting.head \in Nat
        /\ outbox \in Seq(Messages(HeadId))
        /\ \A c \in Conns : toServer[c] \in Seq(Messages(HeadId))
        /\ toServer \in [Conns -> Seq(Messages(HeadId))]
        /\ greeting \in RangeTypes
    BY DEF TypeInv, NearInv, RangeTypes
  <1>a. Announced(<<>>)
    BY DEF Announced
  <1> USE DEF GreetingTypes
  <1>1. CASE UNCHANGED vars
    BY <1>0, <1>1 DEF vars, ringVars, inputVars, netVars
  <1>2. CASE FlushRound \/ ModbusConnect \/ DevicesFail \/ CompareRow \/ EndRound
    <2>1. outbox' = outbox \/ outbox' = <<>>
      BY <1>2 DEF FlushRound, ModbusConnect, DevicesFail, CompareRow, EndRound
    <2>2. Announced(outbox')
      BY <1>0, <1>a, <2>1
    <2> QED
      BY <1>0, <1>2, <2>2 DEF FlushRound, ModbusConnect, DevicesFail, CompareRow, EndRound,
                              ringVars, inputVars, netVars
  <1>3. CASE WriteRow
    <2>1. HeadId' = HeadId + 1 /\ UNCHANGED <<inputVars, toServer>>
      BY <1>3 DEF WriteRow, netVars
    <2>2. TailId \in Nat /\ TailId' \in Nat /\ TailId <= TailId' /\ TailId' <= HeadId + 1
      BY <1>0, <1>3, RingMoves
    <2>3. Announced(outbox')
      <3> DEFINE m == LiveRow(LabelledRow(LiveLabel, HeadId))
      <3>1. outbox' = Append(outbox, m)
        BY <1>3 DEF WriteRow
      <3>2. m.type # "greeting"
        BY DEF LiveRow
      <3> HIDE DEF m
      <3>3. outbox \in Seq(Messages(HeadId) \cup {m})
        BY <1>0, SeqMonotonic
      <3> QED BY <1>0, <3>1, <3>2, <3>3, AnnouncedMoves
    <2> QED BY <1>0, <2>1, <2>2, <2>3 DEF inputVars
  <1>4. CASE ServeQuery
    <2> DEFINE m == Rows(Fetched(Head(queries)))
    <2>1. outbox' = Append(outbox, m) /\ UNCHANGED <<ringVars, inputVars, toServer>>
      BY <1>4 DEF ServeQuery, netVars
    <2>2. m.type # "greeting"
      BY DEF Rows
    <2> HIDE DEF m
    <2>3. outbox \in Seq(Messages(HeadId) \cup {m})
      BY <1>0, SeqMonotonic
    <2>4. Announced(outbox')
      BY <1>0, <2>1, <2>2, <2>3, AnnouncedMoves
    <2> QED BY <1>0, <2>1, <2>4 DEF ringVars, inputVars
  <1>5. CASE Connect \/ OpenStream \/ Read \/ ReadFails \/ PickStream \/ NothingToSend
    <2>1. outbox' = outbox \/ outbox' = <<>>
      BY <1>5 DEF Connect, OpenStream, Read, ReadFails, PickStream, NothingToSend
    <2>2. Announced(outbox')
      BY <1>0, <1>a, <2>1
    <2>3. UNCHANGED <<ringVars, greeting, toServer>> /\ (input' = input \/ input' # "greet")
      BY <1>5 DEF Connect, OpenStream, Read, ReadFails, PickStream, NothingToSend,
                  inputVars, netVars
    <2> QED BY <1>0, <2>2, <2>3 DEF ringVars
  <1>6. CASE GreetTail
    <2>1. greeting'.tail = TailId /\ greeting'.head = 0
      BY <1>6 DEF GreetTail, IdRange
    <2> QED BY <1>0, <1>6, <2>1 DEF GreetTail, ringVars, netVars
  <1>7. CASE GreetHead
    <2>1. greeting'.tail = greeting.tail /\ greeting'.head = HeadId
      BY <1>0, <1>7 DEF GreetHead, RangeTypes
    <2> QED BY <1>0, <1>7, <2>1 DEF GreetHead, ringVars, netVars
  <1>8. CASE Greet
    <2> DEFINE m == Greeting(greeting)
    <2>1. /\ outbox' = Append(outbox, m) /\ input' = "reading"
          /\ UNCHANGED <<ringVars, greeting, toServer>> /\ input = "greet"
      BY <1>8 DEF Greet, netVars
    <2>2. m.range.tail <= m.range.head
      BY <1>0, <2>1 DEF Greeting
    <2> HIDE DEF m
    <2>3. outbox \in Seq(Messages(HeadId) \cup {m})
      BY <1>0, SeqMonotonic
    <2>4. Announced(outbox')
      BY <1>0, <2>1, <2>2, <2>3, AnnouncedMoves
    <2> QED BY <1>0, <2>1, <2>4 DEF ringVars
  <1>9. CASE Send
    <2>1. outbox # <<>> /\ outbox' = Tail(outbox) /\ UNCHANGED <<ringVars, inputVars>>
      BY <1>9 DEF Send
    <2>2. Announced(outbox')
      BY <1>0, <2>1, AnnouncedMoves
    <2>3. Head(outbox).type = "greeting" => Head(outbox).range.tail <= Head(outbox).range.head
      BY <1>0, <2>1, TailIndex DEF Announced
    <2>4. Head(outbox) \in Messages(HeadId)
      BY <1>0, <2>1, TailIndex
    <2>5. ASSUME NEW c \in Conns PROVE Announced(toServer'[c])
      <3>1. toServer'[c] = toServer[c] \/ toServer'[c] = Append(toServer[c], Head(outbox))
        BY <1>0, <1>9 DEF Send
      <3> QED BY <1>0, <2>3, <2>4, <3>1, AnnouncedMoves
    <2> QED BY <1>0, <2>1, <2>2, <2>5 DEF ringVars, inputVars
  <1>10. CASE Break
    <2>1. PICK n \in 0 .. Len(toServer[conn]) :
            toServer' = [toServer EXCEPT ![conn] = SubSeq(@, 1, n)]
      BY <1>10 DEF Break
    <2>2. ASSUME NEW c \in Conns PROVE Announced(toServer'[c])
      <3>1. toServer'[c] = toServer[c] \/ (c = conn /\ toServer'[c] = SubSeq(toServer[c], 1, n))
        BY <1>0, <2>1
      <3> QED BY <1>0, <3>1, AnnouncedMoves
    <2> QED BY <1>0, <1>10, <2>2 DEF Break, ringVars, inputVars
  <1>11. ASSUME NEW c \in Conns, Serve(c) PROVE GreetingTypes'
    <2>1. /\ toServer[c] # <<>> /\ UNCHANGED <<ringVars, inputVars, outbox>>
          /\ toServer' \in {[toServer EXCEPT ![c] = <<>>],
                            [toServer EXCEPT ![c] = Tail(toServer[c])]}
      BY <1>11 DEF Serve, Reject, Welcome, StoreLive, StoreRows
    <2>2. Announced(Tail(toServer[c]))
      BY <1>0, <2>1, AnnouncedMoves
    <2>3. \A d \in Conns : Announced(toServer'[d])
      BY <1>0, <1>a, <2>1, <2>2
    <2> QED BY <1>0, <2>1, <2>3 DEF ringVars, inputVars
  <1> QED
    BY <1>1, <1>2, <1>3, <1>4, <1>5, <1>6, <1>7, <1>8, <1>9, <1>10, <1>11
    DEF Next, PlcThread, InputThread, OutputThread

LEMMA TypeStep == TypeInv /\ [Next]_vars => TypeInv'
  BY ThreadStep, ServerStep, GreetingStep, NearStep DEF TypeInv

(* Every variable keeps its type, and what travels is a message of the protocol, *)
(* for any rings and number of connections (PlcEngine.java:349-864,               *)
(* PlcServer2.fs:918-1006).                                                       *)
THEOREM TypeCorrect == Spec => []TypeOK
  <1>1. TypeInv => TypeOK
    <2> SUFFICES ASSUME TypeInv PROVE TypeOK
      OBVIOUS
    <2>1. \A m \in Messages(HeadId) : IsMessage(m)
      <3>1. \A x \in Near(HeadId) : x \in RowTypes
        BY DEF Near, RowTypes
      <3> QED BY <3>1 DEF Messages, Carriers, IsMessage
    <2>2. \A s \in Seq(Messages(HeadId)) : \A i \in DOMAIN s : IsMessage(s[i])
      BY <2>1
    <2>3. /\ \A i \in DOMAIN outbox : IsMessage(outbox[i])
          /\ \A c \in Conns : \A i \in DOMAIN toServer[c] : IsMessage(toServer[c][i])
      BY <2>2 DEF TypeInv, NearInv
    <2>4. HeadId \in Nat /\ TailId \in 0 .. HeadId /\ greeting \in RangeTypes
      BY DEF TypeInv, NearInv, GreetingTypes
    <2>5. db \subseteq RowTypes
      BY DEF TypeInv, NearInv, Near, RowTypes
    <2>6. ThreadTypes /\ ServerTypes
      BY DEF TypeInv
    <2> QED BY <2>3, <2>4, <2>5, <2>6 DEF TypeOK, ThreadTypes, ServerTypes
  <1> QED BY <1>1, TypeInit, TypeStep, PTL DEF Spec

-----------------------------------------------------------------------------
(* One greeting per connection. *)

NoGreeting(s) == \A i \in DOMAIN s : s[i].type # "greeting"
AtMostOne(s) ==
  \A i, j \in DOMAIN s : s[i].type = "greeting" /\ s[j].type = "greeting" => i = j
AllAre(s, g) == \A i \in DOMAIN s : s[i].type = "greeting" => s[i].range = g

\* A connection is greeted once, after its stream is there and before anything is asked
\* on it; until then its greeting waits in the output queue.
GreetOnce ==
  /\ \A c \in Conns : c > conn => user[c] = "none" /\ toServer[c] = <<>>
  /\ \A c \in Conns : AtMostOne(toServer[c]) /\ (user[c] = "plc" => NoGreeting(toServer[c]))
  /\ AtMostOne(outbox) /\ AllAre(outbox, greeting)
  /\ NoGreeting(outbox) \/ input = "reading"
  /\ \A c \in Conns : c = conn =>
       /\ AllAre(toServer[c], greeting)
       /\ user[c] = "plc" \/ ~NoGreeting(toServer[c])
            => input \in {"reading", "offline"} /\ NoGreeting(outbox) /\ out \in {0, c}

LEMMA GreetingsTail ==
  ASSUME NEW M, NEW s \in Seq(M), s # <<>>
  PROVE  /\ NoGreeting(s) => NoGreeting(Tail(s)) /\ Head(s).type # "greeting"
         /\ AtMostOne(s) => AtMostOne(Tail(s))
         /\ AtMostOne(s) /\ Head(s).type = "greeting" => NoGreeting(Tail(s))
         /\ \A g : AllAre(s, g) => AllAre(Tail(s), g) /\ (Head(s).type = "greeting" => Head(s).range = g)
         /\ NoGreeting(s) <=> NoGreeting(Tail(s)) /\ Head(s).type # "greeting"
  <1>1. /\ Len(s) \in Nat \ {0} /\ DOMAIN s = 1 .. Len(s) /\ Head(s) = s[1]
        /\ DOMAIN Tail(s) = 1 .. Len(s) - 1
        /\ \A i \in 1 .. Len(s) - 1 : i + 1 \in 2 .. Len(s) /\ Tail(s)[i] = s[i + 1]
        /\ \A j \in 2 .. Len(s) : j - 1 \in 1 .. Len(s) - 1 /\ Tail(s)[j - 1] = s[j]
    BY TailIndex
  <1>2. 1 \in DOMAIN s /\ \A i \in DOMAIN Tail(s) : i + 1 \in DOMAIN s /\ i + 1 # 1
    BY <1>1
  <1>3. \A i \in DOMAIN Tail(s) : Tail(s)[i] = s[i + 1]
    BY <1>1
  <1>4. AtMostOne(s) => AtMostOne(Tail(s))
    BY <1>1, <1>2, <1>3 DEF AtMostOne
  <1>5. NoGreeting(s) => NoGreeting(Tail(s)) /\ Head(s).type # "greeting"
    BY <1>1, <1>2, <1>3 DEF NoGreeting
  <1>6. AtMostOne(s) /\ Head(s).type = "greeting" => NoGreeting(Tail(s))
    BY <1>1, <1>2, <1>3 DEF AtMostOne, NoGreeting
  <1>7. \A g : AllAre(s, g) => AllAre(Tail(s), g) /\ (Head(s).type = "greeting" => Head(s).range = g)
    BY <1>1, <1>2, <1>3 DEF AllAre
  <1>8. NoGreeting(Tail(s)) /\ Head(s).type # "greeting" => NoGreeting(s)
    <2> SUFFICES ASSUME NoGreeting(Tail(s)), Head(s).type # "greeting", NEW j \in DOMAIN s
                 PROVE  s[j].type # "greeting"
      BY DEF NoGreeting
    <2>1. CASE j = 1
      BY <1>1, <2>1
    <2>2. CASE j \in 2 .. Len(s)
      BY <1>1, <2>2 DEF NoGreeting
    <2> QED BY <1>1, <2>1, <2>2
  <1> QED BY <1>4, <1>5, <1>6, <1>7, <1>8

LEMMA GreetingsAppend ==
  ASSUME NEW M, NEW s \in Seq(M), NEW m \in M
  PROVE  /\ NoGreeting(Append(s, m)) <=> NoGreeting(s) /\ m.type # "greeting"
         /\ AtMostOne(s) /\ (NoGreeting(s) \/ m.type # "greeting") => AtMostOne(Append(s, m))
         /\ \A g : AllAre(s, g) /\ (m.type = "greeting" => m.range = g) => AllAre(Append(s, m), g)
  <1> DEFINE t == Append(s, m)
  <1>1. /\ Len(s) \in Nat /\ DOMAIN s = 1 .. Len(s) /\ DOMAIN t = 1 .. Len(s) + 1
        /\ \A i \in 1 .. Len(s) : t[i] = s[i]
        /\ t[Len(s) + 1] = m
    BY AppendIndex
  <1> HIDE DEF t
  <1>2. /\ \A i \in DOMAIN s : i \in DOMAIN t /\ t[i] = s[i]
        /\ \A i \in DOMAIN t : i \in DOMAIN s \/ i = Len(s) + 1
        /\ Len(s) + 1 \in DOMAIN t
    BY <1>1
  <1>3. NoGreeting(t) <=> NoGreeting(s) /\ m.type # "greeting"
    BY <1>1, <1>2 DEF NoGreeting
  <1>4. AtMostOne(s) /\ (NoGreeting(s) \/ m.type # "greeting") => AtMostOne(t)
    <2> SUFFICES ASSUME AtMostOne(s), NoGreeting(s) \/ m.type # "greeting",
                        NEW i \in DOMAIN t, NEW j \in DOMAIN t,
                        t[i].type = "greeting", t[j].type = "greeting"
                 PROVE  i = j
      BY DEF AtMostOne
    <2>1. CASE i \in DOMAIN s /\ j \in DOMAIN s
      BY <1>2, <2>1 DEF AtMostOne
    <2>2. CASE i \in DOMAIN s /\ j = Len(s) + 1
      BY <1>1, <1>2, <2>2 DEF NoGreeting
    <2>3. CASE i = Len(s) + 1 /\ j \in DOMAIN s
      BY <1>1, <1>2, <2>3 DEF NoGreeting
    <2> QED BY <1>2, <2>1, <2>2, <2>3
  <1>5. \A g : AllAre(s, g) /\ (m.type = "greeting" => m.range = g) => AllAre(t, g)
    BY <1>1, <1>2 DEF AllAre
  <1> QED BY <1>3, <1>4, <1>5 DEF t

LEMMA GreetingsPrefix ==
  ASSUME NEW M, NEW s \in Seq(M), NEW n \in 0 .. Len(s)
  PROVE  /\ NoGreeting(s) => NoGreeting(SubSeq(s, 1, n))
         /\ AtMostOne(s) => AtMostOne(SubSeq(s, 1, n))
         /\ \A g : AllAre(s, g) => AllAre(SubSeq(s, 1, n), g)
  <1> DEFINE t == SubSeq(s, 1, n)
  <1>1. \A i \in DOMAIN t : i \in DOMAIN s /\ t[i] = s[i]
    BY PrefixIndex
  <1> HIDE DEF t
  <1> QED BY <1>1 DEF t, NoGreeting, AtMostOne, AllAre

LEMMA GreetingsNone == NoGreeting(<<>>) /\ AtMostOne(<<>>) /\ \A g : AllAre(<<>>, g)
  BY DEF NoGreeting, AtMostOne, AllAre

LEMMA GreetInit == Init => GreetOnce
  BY GreetingsNone, SyncAssumption DEF Init, GreetOnce, Conns

\* One step per action that touches a greeting.
LEMMA GreetStep == TypeInv /\ GreetOnce /\ [Next]_vars => GreetOnce'
  <1> SUFFICES ASSUME TypeInv, GreetOnce, [Next]_vars PROVE GreetOnce'
    OBVIOUS
  <1>0. /\ outbox \in Seq(Messages(HeadId))
        /\ toServer \in [Conns -> Seq(Messages(HeadId))]
        /\ \A c \in Conns : toServer[c] \in Seq(Messages(HeadId))
        /\ user \in [Conns -> {"none", "stranger", "plc", "rejected"}]
        /\ conn \in Nat /\ MaxConn \in Nat
    BY SyncAssumption DEF TypeInv, NearInv, ServerTypes, ThreadTypes
  <1>b. \A s : NoGreeting(s) => \A g : AllAre(s, g)
    BY DEF NoGreeting, AllAre
  <1> USE DEF GreetOnce
  <1>1. CASE UNCHANGED vars
    BY <1>1 DEF vars, inputVars, netVars, serverVars
  <1>2. CASE FlushRound \/ ModbusConnect \/ DevicesFail \/ CompareRow \/ EndRound
    <2>1. outbox' = outbox \/ outbox' = <<>>
      BY <1>2 DEF FlushRound, ModbusConnect, DevicesFail, CompareRow, EndRound
    <2>2. UNCHANGED <<inputVars, out, netVars, serverVars>>
      BY <1>2 DEF FlushRound, ModbusConnect, DevicesFail, CompareRow, EndRound
    <2> QED BY <2>1, <2>2, GreetingsNone DEF inputVars, netVars, serverVars
  <1>3. CASE WriteRow \/ ServeQuery
    <2>1. PICK m : m.type # "greeting" /\ outbox' = Append(outbox, m)
      BY <1>3 DEF WriteRow, ServeQuery, LiveRow, Rows
    <2>2. outbox \in Seq(Messages(HeadId) \cup {m})
      BY <1>0, SeqMonotonic
    <2>3. /\ NoGreeting(outbox') <=> NoGreeting(outbox)
          /\ AtMostOne(outbox) => AtMostOne(outbox')
          /\ AllAre(outbox, greeting) => AllAre(outbox', greeting)
      BY <2>1, <2>2, GreetingsAppend
    <2>4. UNCHANGED <<inputVars, out, netVars, serverVars>>
      BY <1>3 DEF WriteRow, ServeQuery
    <2> QED BY <2>3, <2>4 DEF inputVars, netVars, serverVars
  <1>4. CASE Connect
    <2>1. /\ conn' = conn + 1 /\ conn' \in Conns /\ input = "offline"
          /\ user' = [user EXCEPT ![conn'] = "stranger"]
          /\ UNCHANGED <<outbox, greeting, toServer>>
      BY <1>0, <1>4 DEF Connect, Conns
    <2>2. toServer[conn'] = <<>> /\ NoGreeting(outbox)
      BY <1>0, <2>1
    <2>3. \A c \in Conns : c > conn' => c > conn /\ c # conn'
      BY <1>0, <2>1 DEF Conns
    <2>4. \A c \in Conns : c # conn' => user'[c] = user[c]
      BY <1>0, <2>1
    <2>5. user'[conn'] = "stranger"
      BY <1>0, <2>1
    <2> QED BY <2>1, <2>2, <2>3, <2>4, <2>5, GreetingsNone
  <1>5. CASE OpenStream \/ ReadFails
    <2>1. /\ outbox' = <<>> /\ UNCHANGED <<greeting, out, netVars, serverVars>>
          /\ \/ input = "connected"
             \/ input = "reading" /\ input' = "offline"
      BY <1>5 DEF OpenStream, ReadFails
    <2> QED BY <2>1, GreetingsNone DEF netVars, serverVars
  <1>6. CASE GreetTail \/ GreetHead
    <2>1. /\ input \in {"tail", "head"}
          /\ UNCHANGED <<outbox, out, netVars, serverVars>>
      BY <1>6 DEF GreetTail, GreetHead
    <2>2. NoGreeting(outbox) /\ \A c \in Conns : c = conn => NoGreeting(toServer[c]) /\ user[c] # "plc"
      BY <2>1
    <2> QED BY <1>b, <2>1, <2>2 DEF netVars, serverVars
  <1>7. CASE Greet
    <2> DEFINE m == Greeting(greeting)
    <2>1. /\ input = "greet" /\ input' = "reading" /\ outbox' = Append(outbox, m)
          /\ UNCHANGED <<greeting, out, netVars, serverVars>>
      BY <1>7 DEF Greet
    <2>2. m.range = greeting
      BY DEF Greeting
    <2> HIDE DEF m
    <2>3. outbox \in Seq(Messages(HeadId) \cup {m})
      BY <1>0, SeqMonotonic
    <2>4. NoGreeting(outbox) /\ \A c \in Conns : c = conn => NoGreeting(toServer[c]) /\ user[c] # "plc"
      BY <2>1
    <2>5. AtMostOne(outbox') /\ AllAre(outbox', greeting)
      BY <2>1, <2>2, <2>3, <2>4, GreetingsAppend
    <2> QED BY <2>1, <2>4, <2>5 DEF netVars, serverVars
  <1>8. CASE Read
    BY <1>8 DEF Read, inputVars, serverVars
  <1>9. CASE PickStream \/ NothingToSend
    <2>1. /\ UNCHANGED <<outbox, inputVars, netVars, serverVars>>
          /\ out' = 0 \/ (out' = stream /\ stream # 0)
      BY <1>9 DEF PickStream, NothingToSend
    <2>2. stream \in {0, conn}
      BY DEF TypeInv, ThreadTypes
    <2> QED BY <2>1, <2>2 DEF inputVars, netVars, serverVars
  <1>10. CASE Send
    <2>1. /\ outbox # <<>> /\ outbox' = Tail(outbox) /\ out' = 0
          /\ UNCHANGED <<inputVars, conn, serverVars>>
      BY <1>10 DEF Send
    <2>2. /\ AtMostOne(outbox') /\ AllAre(outbox', greeting)
          /\ NoGreeting(outbox) <=> NoGreeting(outbox') /\ Head(outbox).type # "greeting"
          /\ Head(outbox).type = "greeting" => NoGreeting(outbox') /\ Head(outbox).range = greeting
          /\ Head(outbox) \in Messages(HeadId)
      BY <1>0, <2>1, GreetingsTail, TailIndex
    <2>3. CASE toServer' = toServer
      BY <2>1, <2>2, <2>3 DEF inputVars, serverVars
    <2>4. CASE toServer' = [toServer EXCEPT ![conn] = Append(@, Head(outbox))] /\ conn \in Conns
      <3> DEFINE s == toServer[conn]
      <3>1. s \in Seq(Messages(HeadId))
        BY <1>0, <2>4
      <3>2. /\ toServer'[conn] = Append(s, Head(outbox))
            /\ \A c \in Conns : c # conn => toServer'[c] = toServer[c]
        BY <1>0, <2>4
      <3>3. Head(outbox).type = "greeting" => NoGreeting(s) /\ user[conn] # "plc" /\ input = "reading"
        BY <2>2, <2>4
      <3>4. /\ AtMostOne(toServer'[conn]) /\ AllAre(toServer'[conn], greeting)
            /\ NoGreeting(toServer'[conn]) <=> NoGreeting(s) /\ Head(outbox).type # "greeting"
        BY <2>2, <2>4, <3>1, <3>2, <3>3, GreetingsAppend
      <3>5. user[conn] = "plc" => NoGreeting(toServer'[conn])
        BY <2>2, <2>4, <3>3, <3>4
      <3>6. user[conn] = "plc" \/ ~NoGreeting(toServer'[conn])
              => input \in {"reading", "offline"} /\ NoGreeting(outbox')
        BY <2>2, <2>4, <3>3, <3>4
      <3>7. UNCHANGED <<input, greeting, conn, user>>
        BY <2>1 DEF inputVars, serverVars
      <3>8. \A c \in Conns : c > conn => toServer'[c] = toServer[c]
        BY <1>0, <3>2
      <3>9. NoGreeting(outbox') \/ input = "reading"
        BY <2>2
      <3> HIDE DEF s
      <3> QED BY <2>1, <2>2, <3>2, <3>4, <3>5, <3>6, <3>7, <3>8, <3>9
    <2>5. conn \in Conns \/ conn = 0
      BY DEF TypeInv, ThreadTypes, Conns
    <2>6. conn = 0 => out = 0
      BY DEF TypeInv, ThreadTypes
    <2> QED BY <1>10, <2>3, <2>4, <2>5, <2>6 DEF Send
  <1>11. CASE Break
    <2>1. PICK n \in 0 .. Len(toServer[conn]) :
            toServer' = [toServer EXCEPT ![conn] = SubSeq(@, 1, n)]
      BY <1>11 DEF Break
    <2>2. UNCHANGED <<outbox, inputVars, out, conn, serverVars>> /\ up
      BY <1>11 DEF Break
    <2>3. conn \in Conns
      BY <2>2 DEF TypeInv, ThreadTypes, Conns
    <2>4. /\ toServer'[conn] = SubSeq(toServer[conn], 1, n)
          /\ \A c \in Conns : c # conn => toServer'[c] = toServer[c]
      BY <1>0, <2>1, <2>3
    <2>5. /\ NoGreeting(toServer[conn]) => NoGreeting(toServer'[conn])
          /\ AtMostOne(toServer[conn]) => AtMostOne(toServer'[conn])
          /\ AllAre(toServer[conn], greeting) => AllAre(toServer'[conn], greeting)
      BY <1>0, <2>1, <2>3, <2>4, GreetingsPrefix
    <2>6. \A c \in Conns : c > conn => c # conn
      BY <1>0
    <2> QED BY <2>2, <2>3, <2>4, <2>5, <2>6 DEF inputVars, serverVars
  <1>12. ASSUME NEW c \in Conns, Serve(c) PROVE GreetOnce'
    <2>1. /\ toServer[c] # <<>> /\ UNCHANGED <<inputVars, outbox, out, conn>>
          /\ \/ toServer' = [toServer EXCEPT ![c] = <<>>]
             \/ toServer' = [toServer EXCEPT ![c] = Tail(toServer[c])]
      BY <1>12 DEF Serve, Reject, Welcome, StoreLive, StoreRows
    <2>2. \/ user' = user
          \/ user' = [user EXCEPT ![c] = "rejected"]
          \/ user' = [user EXCEPT ![c] = "plc"] /\ Head(toServer[c]).type = "greeting"
             /\ toServer' = [toServer EXCEPT ![c] = Tail(toServer[c])]
      BY <1>12 DEF Serve, Reject, Welcome, StoreLive, StoreRows, Received
    <2>3. /\ \A d \in Conns : d # c => toServer'[d] = toServer[d] /\ user'[d] = user[d]
          /\ toServer'[c] \in {<<>>, Tail(toServer[c])}
          /\ user'[c] \in {user[c], "rejected", "plc"}
      BY <1>0, <2>1, <2>2
    <2>4. user'[c] = "plc" /\ user[c] # "plc" =>
            Head(toServer[c]).type = "greeting" /\ toServer'[c] = Tail(toServer[c])
      BY <1>0, <2>1, <2>2
    <2>5. /\ AtMostOne(toServer'[c])
          /\ NoGreeting(toServer[c]) => NoGreeting(toServer'[c])
          /\ \A g : AllAre(toServer[c], g) => AllAre(toServer'[c], g)
      <3>1. CASE toServer'[c] = <<>>
        BY <3>1, GreetingsNone
      <3>2. CASE toServer'[c] = Tail(toServer[c])
        <4>1. toServer[c] \in Seq(Messages(HeadId)) /\ AtMostOne(toServer[c])
          BY <1>0
        <4> QED BY <2>1, <3>2, <4>1, GreetingsTail
      <3> QED BY <2>3, <3>1, <3>2
    <2>6. user'[c] = "plc" => NoGreeting(toServer'[c])
      BY <1>0, <2>1, <2>3, <2>4, <2>5, GreetingsTail
    <2>7. user'[c] = "plc" \/ ~NoGreeting(toServer'[c]) => user[c] = "plc" \/ ~NoGreeting(toServer[c])
      BY <1>0, <2>1, <2>3, <2>4, <2>5, GreetingsTail
    <2>8. ~(c > conn)
      BY <2>1
    <2> QED BY <2>1, <2>3, <2>5, <2>6, <2>7, <2>8 DEF inputVars
  <1> QED
    BY <1>1, <1>2, <1>3, <1>4, <1>5, <1>6, <1>7, <1>8, <1>9, <1>10, <1>11, <1>12
    DEF Next, PlcThread, InputThread, OutputThread

-----------------------------------------------------------------------------
(* Queries and answers do not multiply. *)

InPlayOf(q, o, p, s) ==
  {<<"queries", 0, i>> : i \in DOMAIN q}
    \cup {<<"outbox", 0, i>> : i \in Answers(o)}
    \cup (UNION {{<<"toPlc", c, i>> : i \in DOMAIN p[c]} : c \in Conns})
    \cup (UNION {{<<"toServer", c, i>> : i \in Answers(s[c])} : c \in Conns})

Places == {"queries", "outbox", "toPlc", "toServer"}

LEMMA PlaceOf ==
  ASSUME NEW q, NEW o, NEW p, NEW s, NEW P, P = InPlayOf(q, o, p, s)
  PROVE  /\ \A i : <<"queries", 0, i>> \in P <=> i \in DOMAIN q
         /\ \A i : <<"outbox", 0, i>> \in P <=> i \in Answers(o)
         /\ \A c \in Conns : \A i : <<"toPlc", c, i>> \in P <=> i \in DOMAIN p[c]
         /\ \A c \in Conns : \A i : <<"toServer", c, i>> \in P <=> i \in Answers(s[c])
         /\ \A x \in P : \/ \E i \in DOMAIN q : x = <<"queries", 0, i>>
                         \/ \E i \in Answers(o) : x = <<"outbox", 0, i>>
                         \/ \E c \in Conns : \E i \in DOMAIN p[c] : x = <<"toPlc", c, i>>
                         \/ \E c \in Conns : \E i \in Answers(s[c]) : x = <<"toServer", c, i>>
  <1>1. \A i : <<"queries", 0, i>> \in P <=> i \in DOMAIN q
    BY DEF InPlayOf
  <1>2. \A i : <<"outbox", 0, i>> \in P <=> i \in Answers(o)
    BY DEF InPlayOf
  <1>3. \A c \in Conns : \A i : <<"toPlc", c, i>> \in P <=> i \in DOMAIN p[c]
    BY DEF InPlayOf
  <1>4. \A c \in Conns : \A i : <<"toServer", c, i>> \in P <=> i \in Answers(s[c])
    BY DEF InPlayOf
  <1>5. \A x \in P : \/ \E i \in DOMAIN q : x = <<"queries", 0, i>>
                     \/ \E i \in Answers(o) : x = <<"outbox", 0, i>>
                     \/ \E c \in Conns : \E i \in DOMAIN p[c] : x = <<"toPlc", c, i>>
                     \/ \E c \in Conns : \E i \in Answers(s[c]) : x = <<"toServer", c, i>>
    BY DEF InPlayOf
  <1> QED BY <1>1, <1>2, <1>3, <1>4, <1>5

\* Where a place of the queue k of connection c was before its head was taken.
Shift(k, c, x) == IF x[1] = k /\ x[2] = c THEN <<k, c, x[3] + 1>> ELSE x

\* Whatever is about afterwards was about before, in the same place, one place further
\* back in the queue whose head was taken, or as that head.
LEMMA Moved ==
  ASSUME NEW P, NEW Q, IsFiniteSet(P), NEW k, NEW c, NEW new,
         \A x \in Q : \E a, b : \E i \in Nat \ {0} : x = <<a, b, i>>,
         \A x \in Q : x = new \/ Shift(k, c, x) \in P,
         new \in Q => <<k, c, 1>> \in P
  PROVE  IsFiniteSet(Q) /\ Cardinality(Q) <= Cardinality(P)
  <1> DEFINE f == [x \in Q |-> IF x = new THEN <<k, c, 1>> ELSE Shift(k, c, x)]
  <1>1. f \in [Q -> P]
    OBVIOUS
  <1>2. ASSUME NEW x \in Q, NEW y \in Q, f[x] = f[y]
        PROVE  x = y
    <2>1. PICK a1, b1 : \E i \in Nat \ {0} : x = <<a1, b1, i>>
      OBVIOUS
    <2>1i. PICK i1 \in Nat \ {0} : x = <<a1, b1, i1>>
      BY <2>1
    <2>2. PICK a2, b2 : \E i \in Nat \ {0} : y = <<a2, b2, i>>
      OBVIOUS
    <2>2i. PICK i2 \in Nat \ {0} : y = <<a2, b2, i2>>
      BY <2>2
    <2>3. CASE x = new /\ y = new
      BY <2>3
    <2>4. CASE x = new /\ y # new
      <3>1. <<k, c, 1>> = Shift(k, c, y)
        BY <1>2, <2>4
      <3>2. i2 + 1 # 1 /\ ~(a2 = k /\ b2 = c /\ i2 + 1 = 1)
        OBVIOUS
      <3>3. CASE a2 = k /\ b2 = c
        BY <2>2i, <3>1, <3>2, <3>3 DEF Shift
      <3>4. CASE ~(a2 = k /\ b2 = c)
        BY <2>2i, <3>1, <3>4 DEF Shift
      <3> QED BY <3>3, <3>4
    <2>5. CASE x # new /\ y = new
      <3>1. <<k, c, 1>> = Shift(k, c, x)
        BY <1>2, <2>5
      <3>2. i1 + 1 # 1
        OBVIOUS
      <3>3. CASE a1 = k /\ b1 = c
        BY <2>1i, <3>1, <3>2, <3>3 DEF Shift
      <3>4. CASE ~(a1 = k /\ b1 = c)
        BY <2>1i, <3>1, <3>4 DEF Shift
      <3> QED BY <3>3, <3>4
    <2>6. CASE x # new /\ y # new
      <3>1. Shift(k, c, x) = Shift(k, c, y)
        BY <1>2, <2>6
      <3>2. i1 + 1 = i2 + 1 => i1 = i2
        OBVIOUS
      <3> QED BY <2>1i, <2>2i, <3>1, <3>2 DEF Shift
    <2> QED BY <2>3, <2>4, <2>5, <2>6
  <1> HIDE DEF f
  <1>3. f \in Injection(Q, P)
    BY <1>1, <1>2, Fun_IsInj
  <1> QED BY <1>3, FS_Injection

\* Places are triples with a position.
LEMMA PlacesTyped ==
  ASSUME NEW q, NEW o, NEW p, NEW s, NEW M, NEW R,
         q \in Seq(R), o \in Seq(M), p \in [Conns -> Seq(R)], s \in [Conns -> Seq(M)]
  PROVE  \A x \in InPlayOf(q, o, p, s) : \E a, b : \E i \in Nat \ {0} : x = <<a, b, i>>
  <1>1. \A t \in Seq(R) : \A i \in DOMAIN t : i \in Nat \ {0}
    OBVIOUS
  <1>2. \A t \in Seq(M) : \A i \in DOMAIN t : i \in Nat \ {0}
    OBVIOUS
  <1>3. \A t \in Seq(M) : \A i \in Answers(t) : i \in Nat \ {0}
    BY <1>2 DEF Answers
  <1> SUFFICES ASSUME NEW x \in InPlayOf(q, o, p, s)
               PROVE  \E a, b : \E i \in Nat \ {0} : x = <<a, b, i>>
    OBVIOUS
  <1>4. CASE \E i \in DOMAIN q : x = <<"queries", 0, i>>
    BY <1>1, <1>4
  <1>5. CASE \E i \in Answers(o) : x = <<"outbox", 0, i>>
    BY <1>3, <1>5
  <1>6. CASE \E c \in Conns : \E i \in DOMAIN p[c] : x = <<"toPlc", c, i>>
    BY <1>1, <1>6
  <1>7. CASE \E c \in Conns : \E i \in Answers(s[c]) : x = <<"toServer", c, i>>
    BY <1>3, <1>7
  <1> QED BY <1>4, <1>5, <1>6, <1>7, PlaceOf

\* The answers in a queue.
LEMMA AnswersMove ==
  ASSUME NEW M, NEW s \in Seq(M)
  PROVE  /\ s # <<>> => \A i \in Answers(Tail(s)) : i + 1 \in Answers(s)
         /\ s # <<>> /\ Head(s).type = "rows" => 1 \in Answers(s)
         /\ \A m \in M : /\ \A i \in Answers(Append(s, m)) :
                              i \in Answers(s) \/ (i = Len(s) + 1 /\ m.type = "rows")
                         /\ m.type = "rows" => Len(s) + 1 \in Answers(Append(s, m))
         /\ \A n \in 0 .. Len(s) : Answers(SubSeq(s, 1, n)) \subseteq Answers(s)
  <1>1. ASSUME s # <<>> PROVE \A i \in Answers(Tail(s)) : i + 1 \in Answers(s)
    <2>1. \A i \in DOMAIN Tail(s) : i + 1 \in DOMAIN s /\ Tail(s)[i] = s[i + 1]
      BY <1>1, TailIndex
    <2> QED BY <2>1 DEF Answers
  <1>2. ASSUME s # <<>>, Head(s).type = "rows" PROVE 1 \in Answers(s)
    <2>1. 1 \in DOMAIN s /\ Head(s) = s[1]
      BY <1>2, TailIndex
    <2> QED BY <1>2, <2>1 DEF Answers
  <1>3. ASSUME NEW m \in M
        PROVE  /\ \A i \in Answers(Append(s, m)) :
                    i \in Answers(s) \/ (i = Len(s) + 1 /\ m.type = "rows")
               /\ m.type = "rows" => Len(s) + 1 \in Answers(Append(s, m))
    <2> DEFINE t == Append(s, m)
    <2>1. /\ Len(s) \in Nat /\ DOMAIN s = 1 .. Len(s) /\ DOMAIN t = 1 .. Len(s) + 1
          /\ \A i \in 1 .. Len(s) : t[i] = s[i]
          /\ t[Len(s) + 1] = m
      BY AppendIndex
    <2> HIDE DEF t
    <2>2. Len(s) + 1 \in DOMAIN t /\ \A i \in DOMAIN t : i \in DOMAIN s \/ i = Len(s) + 1
      BY <2>1
    <2> QED BY <2>1, <2>2 DEF Answers, t
  <1>4. ASSUME NEW n \in 0 .. Len(s) PROVE Answers(SubSeq(s, 1, n)) \subseteq Answers(s)
    <2>1. \A i \in DOMAIN SubSeq(s, 1, n) : i \in DOMAIN s /\ SubSeq(s, 1, n)[i] = s[i]
      BY PrefixIndex
    <2> QED BY <2>1 DEF Answers
  <1> QED BY <1>1, <1>2, <1>3, <1>4

LEMMA Fewer ==
  ASSUME NEW q, NEW o, NEW p, NEW s, NEW q2, NEW o2, NEW p2, NEW s2,
         DOMAIN q2 \subseteq DOMAIN q, Answers(o2) \subseteq Answers(o),
         \A c \in Conns : DOMAIN p2[c] \subseteq DOMAIN p[c] /\ Answers(s2[c]) \subseteq Answers(s[c])
  PROVE  InPlayOf(q2, o2, p2, s2) \subseteq InPlayOf(q, o, p, s)
  BY DEF InPlayOf

\* Sending a query adds at most one at the end of what is on its way.
LEMMA QuerySent ==
  ASSUME TypeInv, NEW c \in Conns, NEW q \in Seq(RangeTypes),
         QueryNext(c, q) \/ UNCHANGED toPlc
  PROVE  \A d \in Conns : \A i \in DOMAIN toPlc'[d] :
           i \in DOMAIN toPlc[d] \/ (d = c /\ i = Len(toPlc[c]) + 1)
  <1>1. toPlc \in [Conns -> Seq(RangeTypes)]
    BY DEF TypeInv, ServerTypes
  <1>2. CASE toPlc' = toPlc
    BY <1>2
  <1>3. CASE q # <<>> /\ toPlc' = [toPlc EXCEPT ![c] = Append(@, Head(q))]
    <2>1. Head(q) \in RangeTypes /\ toPlc[c] \in Seq(RangeTypes)
      BY <1>1, <1>3, TailIndex
    <2>2. \A i \in DOMAIN Append(toPlc[c], Head(q)) : i \in DOMAIN toPlc[c] \/ i = Len(toPlc[c]) + 1
      BY <2>1, AppendIndex
    <2>3. /\ toPlc'[c] = Append(toPlc[c], Head(q))
          /\ \A d \in Conns : d # c => toPlc'[d] = toPlc[d]
      BY <1>1, <1>3
    <2> QED BY <2>2, <2>3
  <1> QED BY <1>2, <1>3 DEF QueryNext

Users == {c \in Conns : user[c] = "plc"}

QueryInv ==
  /\ IsFiniteSet(InPlay)
  /\ Cardinality(InPlay) <= Cardinality(Users)

LEMMA QueryInit == Init => QueryInv
  <1> SUFFICES ASSUME Init PROVE QueryInv
    OBVIOUS
  <1>1. InPlay = {}
    <2>1. DOMAIN queries = {} /\ Answers(outbox) = {}
      BY DEF Init, Answers
    <2>2. \A c \in Conns : DOMAIN toPlc[c] = {} /\ Answers(toServer[c]) = {}
      BY DEF Init, Answers
    <2> QED BY <2>1, <2>2 DEF InPlay
  <1>2. Users = {}
    BY DEF Init, Users
  <1> QED BY <1>1, <1>2, FS_EmptySet DEF QueryInv

\* One step per place that a query or an answer can leave.
LEMMA QueryStep == TypeInv /\ GreetOnce /\ QueryInv /\ [Next]_vars => QueryInv'
  <1> SUFFICES ASSUME TypeInv, GreetOnce, QueryInv, [Next]_vars PROVE QueryInv'
    OBVIOUS
  <1> DEFINE P == InPlayOf(queries, outbox, toPlc, toServer)
             Q == InPlayOf(queries', outbox', toPlc', toServer')
  <1>0. /\ outbox \in Seq(Messages(HeadId)) /\ queries \in Seq(RangeTypes)
        /\ toServer \in [Conns -> Seq(Messages(HeadId))]
        /\ toPlc \in [Conns -> Seq(RangeTypes)]
        /\ toFetch \in [Conns -> Seq(RangeTypes)]
        /\ user \in [Conns -> {"none", "stranger", "plc", "rejected"}]
        /\ conn \in Nat /\ MaxConn \in Nat
    BY SyncAssumption DEF TypeInv, NearInv, ServerTypes, ThreadTypes
  <1>1. InPlay = P /\ InPlay' = Q
    BY DEF InPlay, InPlayOf
  <1>2. IsFiniteSet(P) /\ Cardinality(P) \in Nat
    BY <1>1, FS_CardinalityType DEF QueryInv
  <1>3. IsFiniteSet(Users) /\ Cardinality(Users) \in Nat
    <2>1. Users \in SUBSET (1 .. MaxConn)
      BY DEF Users, Conns
    <2>2. IsFiniteSet(1 .. MaxConn)
      BY <1>0, FS_Interval
    <2>3. IsFiniteSet(Users)
      BY <2>1, <2>2, FS_Subset
    <2> QED BY <2>3, FS_CardinalityType
  <1>4. \A x \in Q : \E a, b : \E i \in Nat \ {0} : x = <<a, b, i>>
    <2>1. /\ outbox' \in Seq(Messages(HeadId')) /\ queries' \in Seq(RangeTypes)
          /\ toServer' \in [Conns -> Seq(Messages(HeadId'))]
          /\ toPlc' \in [Conns -> Seq(RangeTypes)]
      BY TypeStep DEF TypeInv, NearInv, ServerTypes
    <2> QED BY <2>1, PlacesTyped
  <1>5. /\ \A i \in DOMAIN queries : <<"queries", 0, i>> \in P
        /\ \A i \in Answers(outbox) : <<"outbox", 0, i>> \in P
        /\ \A c \in Conns : \A i \in DOMAIN toPlc[c] : <<"toPlc", c, i>> \in P
        /\ \A c \in Conns : \A i \in Answers(toServer[c]) : <<"toServer", c, i>> \in P
    BY PlaceOf
  <1>6. \A x \in Q : \/ \E i \in DOMAIN queries' : x = <<"queries", 0, i>>
                     \/ \E i \in Answers(outbox') : x = <<"outbox", 0, i>>
                     \/ \E c \in Conns : \E i \in DOMAIN toPlc'[c] : x = <<"toPlc", c, i>>
                     \/ \E c \in Conns : \E i \in Answers(toServer'[c]) : x = <<"toServer", c, i>>
    BY PlaceOf
  <1>7. /\ \A i : <<"queries", 0, i>> \in Q => i \in DOMAIN queries'
        /\ \A c \in Conns : \A i : <<"toPlc", c, i>> \in Q => i \in DOMAIN toPlc'[c]
        /\ \A c \in Conns : \A i : <<"toServer", c, i>> \in Q => i \in Answers(toServer'[c])
    BY PlaceOf
  <1>8. ASSUME Q \subseteq P, Users' = Users PROVE QueryInv'
    <2>1. IsFiniteSet(Q) /\ Cardinality(Q) <= Cardinality(P) /\ Cardinality(Q) \in Nat
      BY <1>2, <1>8, FS_Subset, FS_CardinalityType
    <2> HIDE DEF P, Q
    <2> QED BY <1>1, <1>2, <1>3, <1>8, <2>1 DEF QueryInv
  <1>9. ASSUME NEW k, NEW c, NEW new, Users' = Users,
               \A x \in Q : x = new \/ Shift(k, c, x) \in P,
               new \in Q => <<k, c, 1>> \in P
        PROVE  QueryInv'
    <2>1. IsFiniteSet(Q) /\ Cardinality(Q) <= Cardinality(P)
      <3> HIDE DEF P, Q
      <3> QED BY <1>2, <1>4, <1>9, Moved
    <2>2. Cardinality(Q) \in Nat
      BY <2>1, FS_CardinalityType
    <2> HIDE DEF P, Q
    <2> QED BY <1>1, <1>2, <1>3, <1>9, <2>1, <2>2 DEF QueryInv
  <1> HIDE DEF P, Q
  <1>10. CASE UNCHANGED vars
    <2>1. Q = P /\ Users' = Users
      BY <1>10 DEF P, Q, Users, vars, netVars, serverVars
    <2> QED BY <1>8, <2>1
  <1>11. CASE \/ FlushRound \/ ModbusConnect \/ DevicesFail \/ CompareRow \/ EndRound
              \/ OpenStream \/ GreetTail \/ GreetHead \/ ReadFails \/ PickStream \/ NothingToSend
    <2>1. /\ UNCHANGED <<queries, netVars, serverVars>>
          /\ outbox' = outbox \/ outbox' = <<>>
      BY <1>11 DEF FlushRound, ModbusConnect, DevicesFail, CompareRow, EndRound, OpenStream,
                   GreetTail, GreetHead, ReadFails, PickStream, NothingToSend
    <2>2. Answers(outbox') \subseteq Answers(outbox)
      BY <2>1 DEF Answers
    <2>3. Q \subseteq P
      BY <2>1, <2>2, Fewer DEF P, Q, netVars
    <2>4. Users' = Users
      BY <2>1 DEF Users, serverVars
    <2> QED BY <1>8, <2>3, <2>4
  <1>12. CASE WriteRow \/ Greet
    <2>1. PICK m : m.type # "rows" /\ outbox' = Append(outbox, m)
      BY <1>12 DEF WriteRow, Greet, LiveRow, Greeting
    <2>2. outbox \in Seq(Messages(HeadId) \cup {m})
      BY <1>0, SeqMonotonic
    <2>3. Answers(outbox') \subseteq Answers(outbox)
      BY <2>1, <2>2, AnswersMove
    <2>4. UNCHANGED <<queries, netVars, serverVars>>
      BY <1>12 DEF WriteRow, Greet
    <2>5. Q \subseteq P
      BY <2>3, <2>4, Fewer DEF P, Q, netVars
    <2>6. Users' = Users
      BY <2>4 DEF Users, serverVars
    <2> QED BY <1>8, <2>5, <2>6
  <1>13. CASE Connect
    <2>1. /\ conn' = conn + 1 /\ conn' \in Conns /\ user' = [user EXCEPT ![conn'] = "stranger"]
          /\ UNCHANGED <<outbox, queries, toServer, toPlc>>
      BY <1>0, <1>13 DEF Connect, Conns
    <2>2. user[conn'] = "none"
      BY <1>0, <2>1 DEF GreetOnce
    <2>3. Users' = Users
      BY <1>0, <2>1, <2>2 DEF Users
    <2>4. Q = P
      BY <2>1 DEF P, Q
    <2> QED BY <1>8, <2>3, <2>4
  <1>14. CASE Break
    <2>1. PICK n \in 0 .. Len(toServer[conn]), m \in 0 .. Len(toPlc[conn]) :
            /\ toServer' = [toServer EXCEPT ![conn] = SubSeq(@, 1, n)]
            /\ toPlc' = [toPlc EXCEPT ![conn] = SubSeq(@, 1, m)]
      BY <1>14 DEF Break
    <2>2. UNCHANGED <<outbox, queries, serverVars>>
      BY <1>14 DEF Break
    <2>3. ASSUME NEW c \in Conns
          PROVE  DOMAIN toPlc'[c] \subseteq DOMAIN toPlc[c]
                 /\ Answers(toServer'[c]) \subseteq Answers(toServer[c])
      <3>1. CASE c = conn
        <4>1. toServer'[c] = SubSeq(toServer[c], 1, n) /\ toPlc'[c] = SubSeq(toPlc[c], 1, m)
          BY <1>0, <2>1, <3>1
        <4>2. toServer[c] \in Seq(Messages(HeadId)) /\ toPlc[c] \in Seq(RangeTypes)
          BY <1>0
        <4>3. Answers(toServer'[c]) \subseteq Answers(toServer[c])
          BY <2>1, <3>1, <4>1, <4>2, AnswersMove
        <4>4. DOMAIN toPlc'[c] \subseteq DOMAIN toPlc[c]
          BY <2>1, <3>1, <4>1, <4>2, PrefixIndex
        <4> QED BY <4>3, <4>4
      <3>2. CASE c # conn
        BY <1>0, <2>1, <3>2
      <3> QED BY <3>1, <3>2
    <2>4. Q \subseteq P
      BY <2>2, <2>3, Fewer DEF P, Q
    <2>5. Users' = Users
      BY <2>2 DEF Users, serverVars
    <2> QED BY <1>8, <2>4, <2>5
  <1>15. CASE ServeQuery
    <2> DEFINE new == <<"outbox", 0, Len(outbox) + 1>>
               m == Rows(Fetched(Head(queries)))
    <2>1. /\ queries # <<>> /\ queries' = Tail(queries) /\ outbox' = Append(outbox, m)
          /\ UNCHANGED <<toPlc, toServer, user>>
      BY <1>15 DEF ServeQuery, netVars, serverVars
    <2> HIDE DEF m
    <2>2. outbox \in Seq(Messages(HeadId) \cup {m})
      BY <1>0, SeqMonotonic
    <2>3. \A i \in Answers(outbox') : i \in Answers(outbox) \/ i = Len(outbox) + 1
      BY <2>1, <2>2, AnswersMove
    <2>4. 1 \in DOMAIN queries /\ \A i \in DOMAIN queries' : i + 1 \in DOMAIN queries
      BY <1>0, <2>1, TailIndex
    <2>5. ASSUME NEW x \in Q PROVE x = new \/ Shift("queries", 0, x) \in P
      <3>1. CASE \E i \in DOMAIN queries' : x = <<"queries", 0, i>>
        BY <1>5, <2>4, <3>1 DEF Shift
      <3>2. CASE \E i \in Answers(outbox') : x = <<"outbox", 0, i>>
        BY <1>5, <2>3, <3>2 DEF Shift
      <3>3. CASE \E c \in Conns : \E i \in DOMAIN toPlc'[c] : x = <<"toPlc", c, i>>
        BY <1>5, <2>1, <3>3 DEF Shift
      <3>4. CASE \E c \in Conns : \E i \in Answers(toServer'[c]) : x = <<"toServer", c, i>>
        BY <1>5, <2>1, <3>4 DEF Shift
      <3> QED BY <1>6, <3>1, <3>2, <3>3, <3>4
    <2>6. <<"queries", 0, 1>> \in P
      BY <1>5, <2>4
    <2>7. Users' = Users
      BY <2>1 DEF Users
    <2> HIDE DEF new
    <2> QED BY <1>9, <2>5, <2>6, <2>7
  <1>16. CASE Read
    <2> DEFINE new == <<"queries", 0, Len(queries) + 1>>
    <2>1. /\ toPlc[conn] # <<>> /\ queries' = Append(queries, Head(toPlc[conn]))
          /\ toPlc' = [toPlc EXCEPT ![conn] = Tail(@)]
          /\ UNCHANGED <<outbox, toServer, user>>
      BY <1>16 DEF Read, serverVars
    <2>2. conn \in Conns
      BY <1>16 DEF Read, TypeInv, ThreadTypes, Conns
    <2>3. toPlc[conn] \in Seq(RangeTypes) /\ Head(toPlc[conn]) \in RangeTypes
      BY <1>0, <2>1, <2>2, TailIndex
    <2>4. \A i \in DOMAIN queries' : i \in DOMAIN queries \/ i = Len(queries) + 1
      BY <1>0, <2>1, <2>3, AppendIndex
    <2>5. /\ toPlc'[conn] = Tail(toPlc[conn])
          /\ \A c \in Conns : c # conn => toPlc'[c] = toPlc[c]
      BY <1>0, <2>1, <2>2
    <2>6. 1 \in DOMAIN toPlc[conn] /\ \A i \in DOMAIN toPlc'[conn] : i + 1 \in DOMAIN toPlc[conn]
      <3>1. \A t \in Seq(RangeTypes) : t # <<>> =>
              1 \in DOMAIN t /\ \A i \in DOMAIN Tail(t) : i + 1 \in DOMAIN t
        BY TailIndex
      <3> QED BY <2>1, <2>3, <2>5, <3>1
    <2>7. ASSUME NEW x \in Q PROVE x = new \/ Shift("toPlc", conn, x) \in P
      <3>1. CASE \E i \in DOMAIN queries' : x = <<"queries", 0, i>>
        BY <1>5, <2>4, <3>1 DEF Shift
      <3>2. CASE \E i \in Answers(outbox') : x = <<"outbox", 0, i>>
        BY <1>5, <2>1, <3>2 DEF Shift
      <3>3. CASE \E c \in Conns : \E i \in DOMAIN toPlc'[c] : x = <<"toPlc", c, i>>
        <4>1. PICK c \in Conns : \E i \in DOMAIN toPlc'[c] : x = <<"toPlc", c, i>>
          BY <3>3
        <4>2. CASE c = conn
          BY <1>5, <2>2, <2>6, <4>1, <4>2 DEF Shift
        <4>3. CASE c # conn
          BY <1>5, <2>5, <4>1, <4>3 DEF Shift
        <4> QED BY <4>2, <4>3
      <3>4. CASE \E c \in Conns : \E i \in Answers(toServer'[c]) : x = <<"toServer", c, i>>
        BY <1>5, <2>1, <3>4 DEF Shift
      <3> QED BY <1>6, <3>1, <3>2, <3>3, <3>4
    <2>8. <<"toPlc", conn, 1>> \in P
      BY <1>5, <2>2, <2>6
    <2>9. Users' = Users
      BY <2>1 DEF Users
    <2> HIDE DEF new
    <2> QED BY <1>9, <2>7, <2>8, <2>9
  <1>17. CASE Send
    <2> DEFINE m == Head(outbox)
               new == <<"toServer", out, Len(toServer[out]) + 1>>
    <2>1. /\ outbox # <<>> /\ outbox' = Tail(outbox) /\ out # 0
          /\ UNCHANGED <<queries, toPlc, user>>
      BY <1>17 DEF Send, serverVars
    <2>2. out \in Conns
      <3>1. out \in 0 .. conn /\ conn \in 0 .. MaxConn
        BY DEF TypeInv, ThreadTypes
      <3> QED BY <1>0, <2>1, <3>1 DEF Conns
    <2>3. /\ toServer[out] \in Seq(Messages(HeadId)) /\ m \in Messages(HeadId)
          /\ \A i \in Answers(outbox') : i + 1 \in Answers(outbox)
          /\ m.type = "rows" => 1 \in Answers(outbox)
      BY <1>0, <2>1, <2>2, AnswersMove, TailIndex
    <2> HIDE DEF m
    <2>4. /\ \A c \in Conns : c # out => toServer'[c] = toServer[c]
          /\ toServer'[out] = toServer[out] \/ toServer'[out] = Append(toServer[out], m)
      BY <1>0, <1>17, <2>2 DEF Send, m
    <2>5. \A i \in Answers(toServer'[out]) :
            i \in Answers(toServer[out]) \/ (i = Len(toServer[out]) + 1 /\ m.type = "rows")
      BY <2>3, <2>4, AnswersMove
    <2>6. ASSUME NEW x \in Q PROVE x = new \/ Shift("outbox", 0, x) \in P
      <3>1. CASE \E i \in DOMAIN queries' : x = <<"queries", 0, i>>
        BY <1>5, <2>1, <3>1 DEF Shift
      <3>2. CASE \E i \in Answers(outbox') : x = <<"outbox", 0, i>>
        BY <1>5, <2>3, <3>2 DEF Shift
      <3>3. CASE \E c \in Conns : \E i \in DOMAIN toPlc'[c] : x = <<"toPlc", c, i>>
        BY <1>5, <2>1, <3>3 DEF Shift
      <3>4. CASE \E c \in Conns : \E i \in Answers(toServer'[c]) : x = <<"toServer", c, i>>
        <4>1. PICK c \in Conns : \E i \in Answers(toServer'[c]) : x = <<"toServer", c, i>>
          BY <3>4
        <4>2. CASE c = out
          BY <1>5, <2>2, <2>5, <4>1, <4>2 DEF Shift
        <4>3. CASE c # out
          BY <1>5, <2>4, <4>1, <4>3 DEF Shift
        <4> QED BY <4>2, <4>3
      <3> QED BY <1>6, <3>1, <3>2, <3>3, <3>4
    <2>7. new \in Q => <<"outbox", 0, 1>> \in P
      <3>1. ~(Len(toServer[out]) + 1 \in Answers(toServer[out]))
        BY <2>3 DEF Answers
      <3> QED BY <1>5, <1>7, <2>2, <2>3, <2>5, <3>1
    <2>8. Users' = Users
      BY <2>1 DEF Users
    <2> HIDE DEF new
    <2> QED BY <1>9, <2>6, <2>7, <2>8
  <1>18. ASSUME NEW c \in Conns, Serve(c) PROVE QueryInv'
    <2> DEFINE new == <<"toPlc", c, Len(toPlc[c]) + 1>>
    <2>1. toServer[c] # <<>> /\ UNCHANGED <<queries, outbox>>
      BY <1>18 DEF Serve, Reject, Welcome, StoreLive, StoreRows
    <2>2. toServer[c] \in Seq(Messages(HeadId)) /\ toPlc[c] \in Seq(RangeTypes)
      BY <1>0
    <2>3. CASE Reject(c)
      <3>1. /\ toServer' = [toServer EXCEPT ![c] = <<>>] /\ UNCHANGED toPlc
            /\ user' = [user EXCEPT ![c] = "rejected"] /\ user[c] = "stranger"
        BY <2>3 DEF Reject
      <3>2. \A d \in Conns : Answers(toServer'[d]) \subseteq Answers(toServer[d])
        BY <1>0, <3>1 DEF Answers
      <3>3. Q \subseteq P
        BY <2>1, <3>1, <3>2, Fewer DEF P, Q
      <3>4. Users' = Users
        BY <1>0, <3>1 DEF Users
      <3> QED BY <1>8, <3>3, <3>4
    <2>4. ASSUME toServer' = [toServer EXCEPT ![c] = Tail(@)],
                 NEW q \in Seq(RangeTypes), QueryNext(c, q) \/ UNCHANGED toPlc
          PROVE  \A x \in Q : x = new \/ Shift("toServer", c, x) \in P
      <3>1. \A d \in Conns : \A i \in DOMAIN toPlc'[d] :
              i \in DOMAIN toPlc[d] \/ (d = c /\ i = Len(toPlc[c]) + 1)
        BY <2>4, QuerySent
      <3>2. /\ toServer'[c] = Tail(toServer[c])
            /\ \A d \in Conns : d # c => toServer'[d] = toServer[d]
        BY <1>0, <2>4
      <3>3. \A i \in Answers(toServer'[c]) : i + 1 \in Answers(toServer[c])
        BY <2>1, <2>2, <3>2, AnswersMove
      <3> SUFFICES ASSUME NEW x \in Q PROVE x = new \/ Shift("toServer", c, x) \in P
        OBVIOUS
      <3>4. CASE \E i \in DOMAIN queries' : x = <<"queries", 0, i>>
        BY <1>5, <2>1, <3>4 DEF Shift
      <3>5. CASE \E i \in Answers(outbox') : x = <<"outbox", 0, i>>
        BY <1>5, <2>1, <3>5 DEF Shift
      <3>6. CASE \E d \in Conns : \E i \in DOMAIN toPlc'[d] : x = <<"toPlc", d, i>>
        BY <1>5, <3>1, <3>6 DEF Shift
      <3>7. CASE \E d \in Conns : \E i \in Answers(toServer'[d]) : x = <<"toServer", d, i>>
        <4>1. PICK d \in Conns : \E i \in Answers(toServer'[d]) : x = <<"toServer", d, i>>
          BY <3>7
        <4>2. CASE d = c
          BY <1>5, <3>3, <4>1, <4>2 DEF Shift
        <4>3. CASE d # c
          BY <1>5, <3>2, <4>1, <4>3 DEF Shift
        <4> QED BY <4>2, <4>3
      <3> QED BY <1>6, <3>4, <3>5, <3>6, <3>7
    <2>5. <<>> \in Seq(RangeTypes)
      BY EmptySeq
    <2>6. UNCHANGED toPlc => new \notin Q
      <3>1. ~(Len(toPlc[c]) + 1 \in DOMAIN toPlc[c])
        BY <2>2
      <3> QED BY <1>7, <3>1
    <2> HIDE DEF new
    <2>7. CASE StoreLive(c)
      <3>1. toServer' = [toServer EXCEPT ![c] = Tail(@)] /\ UNCHANGED <<toPlc, user>>
        BY <2>7 DEF StoreLive
      <3>2. Users' = Users
        BY <3>1 DEF Users
      <3>3. \A x \in Q : x = new \/ Shift("toServer", c, x) \in P
        BY <2>4, <2>5, <3>1
      <3> QED BY <1>9, <2>6, <3>1, <3>2, <3>3
    <2>8. CASE StoreRows(c)
      <3>1. /\ toServer' = [toServer EXCEPT ![c] = Tail(@)] /\ UNCHANGED user
            /\ Head(toServer[c]).type = "rows"
            /\ QueryNext(c, Unfetched(c)) \/ UNCHANGED toPlc
        BY <2>8 DEF StoreRows, Received
      <3>2. Unfetched(c) \in Seq(RangeTypes)
        BY <1>0, <2>5 DEF Unfetched
      <3>3. \A x \in Q : x = new \/ Shift("toServer", c, x) \in P
        BY <2>4, <3>1, <3>2
      <3>4. <<"toServer", c, 1>> \in P
        BY <1>5, <2>1, <2>2, <3>1, AnswersMove
      <3>5. Users' = Users
        BY <3>1 DEF Users
      <3> QED BY <1>9, <3>3, <3>4, <3>5
    <2>9. CASE Welcome(c)
      <3> DEFINE q == RowsToFetch(Labels, Received(c).range.tail, Received(c).range.head)
                 head == <<"toServer", c, 1>>
                 P2 == P \cup {head}
      <3>1. /\ toServer' = [toServer EXCEPT ![c] = Tail(@)]
            /\ user' = [user EXCEPT ![c] = "plc"]
            /\ Received(c).type = "greeting" /\ QueryNext(c, q)
        BY <2>9 DEF Welcome
      <3>2. q \in Seq(RangeTypes)
        <4>1. Labels \in SUBSET Nat /\ IsFiniteSet(Labels)
          BY LabelsFinite DEF TypeInv
        <4>2. /\ Received(c).range.tail \in Nat /\ Received(c).range.head \in Nat
              /\ Received(c).range.tail <= Received(c).range.head
          BY <2>1, <3>1, GreetingTyped
        <4> QED BY <4>1, <4>2, QueueTyped DEF RangeTypes
      <3> HIDE DEF q
      <3>3. \A x \in Q : x = new \/ Shift("toServer", c, x) \in P
        BY <2>4, <3>1, <3>2
      <3>4. IsFiniteSet(P2) /\ Cardinality(P2) <= Cardinality(P) + 1 /\ Cardinality(P2) \in Nat
        <4> HIDE DEF head
        <4>1. IsFiniteSet(P2) /\ (Cardinality(P2) = Cardinality(P) \/ Cardinality(P2) = Cardinality(P) + 1)
          BY <1>2, FS_AddElement
        <4> HIDE DEF P2
        <4> QED BY <1>2, <4>1, FS_CardinalityType
      <3>5. IsFiniteSet(Q) /\ Cardinality(Q) <= Cardinality(P2)
        <4>1. head \in P2 /\ \A x \in Q : x = new \/ Shift("toServer", c, x) \in P2
          BY <3>3
        <4> HIDE DEF P2
        <4> QED BY <1>4, <3>4, <4>1, Moved
      <3>6. Cardinality(Q) \in Nat
        BY <3>5, FS_CardinalityType
      <3>7. user[c] # "plc"
        <4>1. ~NoGreeting(toServer[c])
          BY <2>1, <2>2, <3>1, GreetingsTail DEF Received
        <4> QED BY <4>1 DEF GreetOnce
      <3>8. Users' = Users \cup {c} /\ c \notin Users
        BY <1>0, <3>1, <3>7 DEF Users
      <3>9. Cardinality(Users') = Cardinality(Users) + 1
        BY <1>3, <3>8, FS_AddElement
      <3> HIDE DEF P2
      <3>10. Cardinality(P) <= Cardinality(Users)
        BY <1>1 DEF QueryInv
      <3> QED BY <1>1, <1>2, <1>3, <3>4, <3>5, <3>6, <3>9, <3>10 DEF QueryInv
    <2> QED BY <1>18, <2>3, <2>7, <2>8, <2>9 DEF Serve
  <1> QED
    BY <1>10, <1>11, <1>12, <1>13, <1>14, <1>15, <1>16, <1>17, <1>18
    DEF Next, PlcThread, InputThread, OutputThread

(* There are never more queries and answers about than the server greeted          *)
(* connections, also when answers to an old connection come in on a new one, for    *)
(* any number of connections (PlcServer2.fs:115-121, 202, 263).                     *)
THEOREM QueriesDoNotMultiply == Spec => []OneQueryPerGreeting
  <1>1. QueryInv => OneQueryPerGreeting
    BY DEF QueryInv, OneQueryPerGreeting, Users
  <1> QED
    BY <1>1, TypeInit, TypeStep, GreetInit, GreetStep, QueryInit, QueryStep, PTL DEF Spec

-----------------------------------------------------------------------------
(* No Id of a greeting is forgotten. *)

\* A range that asks for x and does not start below g; an answer that has x.
Asks(r, g, x) == g <= r.tail /\ r.tail <= x /\ x < r.head
Carries(m, x) == m.type = "rows" /\ \E y \in m.rows : y.label = x

Asked(s, g, x) == \E i \in DOMAIN s : Asks(s[i], g, x)
Carried(s, x) == \E i \in DOMAIN s : Carries(s[i], x)

Accounted(x) ==
  \/ x \in Labels
  \/ Asked(toFetch[conn], greeting.tail, x)
  \/ Asked(queries, greeting.tail, x)
  \/ Asked(toPlc[conn], greeting.tail, x)
  \/ Carried(outbox, x)
  \/ Carried(toServer[conn], x)

Undisturbed ==
  /\ setup.senderKeepsUp /\ setup.oldBelow = 0
  /\ up /\ user[conn] = "plc" /\ TailId = greeting.tail

\* Ranges that start below the tail are not counted: they are answered without rows.
KeptInv == Undisturbed => \A x \in IdsOf(greeting) : x \in Straddled \/ Accounted(x)

LEMMA AskedMoves ==
  ASSUME NEW R, NEW s \in Seq(R), NEW g, NEW x
  PROVE  /\ s # <<>> /\ Asked(s, g, x) => Asked(Tail(s), g, x) \/ Asks(Head(s), g, x)
         /\ \A r \in R : Asked(s, g, x) \/ Asks(r, g, x) => Asked(Append(s, r), g, x)
  <1>1. ASSUME s # <<>>, Asked(s, g, x) PROVE Asked(Tail(s), g, x) \/ Asks(Head(s), g, x)
    <2>1. PICK j \in DOMAIN s : Asks(s[j], g, x)
      BY <1>1 DEF Asked
    <2>2. /\ Len(s) \in Nat \ {0} /\ DOMAIN s = 1 .. Len(s) /\ Head(s) = s[1]
          /\ DOMAIN Tail(s) = 1 .. Len(s) - 1
          /\ \A i \in 2 .. Len(s) : i - 1 \in 1 .. Len(s) - 1 /\ Tail(s)[i - 1] = s[i]
      BY <1>1, TailIndex
    <2>3. CASE j = 1
      BY <2>1, <2>2, <2>3
    <2>4. CASE j \in 2 .. Len(s)
      BY <2>1, <2>2, <2>4 DEF Asked
    <2> QED BY <2>2, <2>3, <2>4
  <1>2. ASSUME NEW r \in R, Asked(s, g, x) \/ Asks(r, g, x) PROVE Asked(Append(s, r), g, x)
    <2> DEFINE t == Append(s, r)
    <2>1. /\ Len(s) \in Nat /\ DOMAIN s = 1 .. Len(s) /\ DOMAIN t = 1 .. Len(s) + 1
          /\ \A i \in 1 .. Len(s) : t[i] = s[i]
          /\ t[Len(s) + 1] = r
      BY AppendIndex
    <2> HIDE DEF t
    <2>2. Len(s) + 1 \in DOMAIN t /\ \A i \in DOMAIN s : i \in DOMAIN t /\ t[i] = s[i]
      BY <2>1
    <2> QED BY <1>2, <2>1, <2>2 DEF Asked, t
  <1> QED BY <1>1, <1>2

LEMMA CarriedMoves ==
  ASSUME NEW M, NEW s \in Seq(M), NEW x
  PROVE  /\ s # <<>> /\ Carried(s, x) => Carried(Tail(s), x) \/ Carries(Head(s), x)
         /\ \A m \in M : Carried(s, x) \/ Carries(m, x) => Carried(Append(s, m), x)
  <1>1. ASSUME s # <<>>, Carried(s, x) PROVE Carried(Tail(s), x) \/ Carries(Head(s), x)
    <2>1. PICK j \in DOMAIN s : Carries(s[j], x)
      BY <1>1 DEF Carried
    <2>2. /\ Len(s) \in Nat \ {0} /\ DOMAIN s = 1 .. Len(s) /\ Head(s) = s[1]
          /\ DOMAIN Tail(s) = 1 .. Len(s) - 1
          /\ \A i \in 2 .. Len(s) : i - 1 \in 1 .. Len(s) - 1 /\ Tail(s)[i - 1] = s[i]
      BY <1>1, TailIndex
    <2>3. CASE j = 1
      BY <2>1, <2>2, <2>3
    <2>4. CASE j \in 2 .. Len(s)
      BY <2>1, <2>2, <2>4 DEF Carried
    <2> QED BY <2>2, <2>3, <2>4
  <1>2. ASSUME NEW m \in M, Carried(s, x) \/ Carries(m, x) PROVE Carried(Append(s, m), x)
    <2> DEFINE t == Append(s, m)
    <2>1. /\ Len(s) \in Nat /\ DOMAIN s = 1 .. Len(s) /\ DOMAIN t = 1 .. Len(s) + 1
          /\ \A i \in 1 .. Len(s) : t[i] = s[i]
          /\ t[Len(s) + 1] = m
      BY AppendIndex
    <2> HIDE DEF t
    <2>2. Len(s) + 1 \in DOMAIN t /\ \A i \in DOMAIN s : i \in DOMAIN t /\ t[i] = s[i]
      BY <2>1
    <2> QED BY <1>2, <2>1, <2>2 DEF Carried, t
  <1> QED BY <1>1, <1>2

\* A query for the newest connection is on its way, what is left stays queued.
LEMMA QueryKept ==
  ASSUME TypeInv, up, conn \in Conns, NEW q \in Seq(RangeTypes), QueryNext(conn, q), NEW g, NEW x
  PROVE  /\ Asked(q, g, x) => Asked(toFetch'[conn], g, x) \/ Asked(toPlc'[conn], g, x)
         /\ Asked(toPlc[conn], g, x) => Asked(toPlc'[conn], g, x)
  <1>1. toFetch \in [Conns -> Seq(RangeTypes)] /\ toPlc \in [Conns -> Seq(RangeTypes)]
    BY DEF TypeInv, ServerTypes
  <1>2. CASE q = <<>>
    <2>1. ~Asked(q, g, x)
      BY <1>2 DEF Asked
    <2> QED BY <1>2, <2>1 DEF QueryNext
  <1>3. CASE q # <<>>
    <2>1. Head(q) \in RangeTypes
      BY <1>3, TailIndex
    <2>2. toFetch'[conn] = Tail(q) /\ toPlc'[conn] = Append(toPlc[conn], Head(q))
      BY <1>1, <1>3 DEF QueryNext
    <2>3. toPlc[conn] \in Seq(RangeTypes)
      BY <1>1
    <2> QED BY <1>3, <2>1, <2>2, <2>3, AskedMoves
  <1> QED BY <1>2, <1>3

LEMMA KeptInit == Init => KeptInv
  BY DEF Init, KeptInv, Undisturbed

\* Unless the PLC is disturbed nothing that is asked for is lost from sight: one step per
\* action that moves a query, an answer or a row.
LEMMA KeptStep == TypeInv /\ GreetOnce /\ KeptInv /\ [Next]_vars => KeptInv'
  <1> SUFFICES ASSUME TypeInv, GreetOnce, KeptInv, [Next]_vars,
                      Undisturbed', NEW x \in IdsOf(greeting)'
               PROVE  x \in Straddled' \/ Accounted(x)'
    BY DEF KeptInv
  <1> DEFINE g == greeting.tail
  <1>1. /\ HeadId \in Nat /\ TailId \in Nat
        /\ greeting \in RangeTypes /\ g \in Nat /\ greeting.head \in Nat
        /\ g <= TailId /\ greeting.head <= HeadId
        /\ outbox \in Seq(Messages(HeadId)) /\ toServer \in [Conns -> Seq(Messages(HeadId))]
        /\ db \subseteq Near(HeadId)
        /\ queries \in Seq(RangeTypes)
        /\ toPlc \in [Conns -> Seq(RangeTypes)] /\ toFetch \in [Conns -> Seq(RangeTypes)]
        /\ user \in [Conns -> {"none", "stranger", "plc", "rejected"}]
    BY DEF TypeInv, NearInv, ServerTypes, GreetingTypes, RangeTypes
  <1>2. /\ conn \in 0 .. MaxConn /\ MaxConn \in Nat
        /\ up => input # "offline" /\ conn \in Conns
        /\ input = "reading" => stream # 0
    BY SyncAssumption DEF TypeInv, ThreadTypes, Conns
  <1>3. setup.senderKeepsUp' /\ setup.oldBelow' = 0 /\ up' /\ user'[conn'] = "plc"
        /\ TailId' = greeting'.tail
    BY DEF Undisturbed
  <1>4. up /\ user[conn] = "plc" => input = "reading"
    BY <1>2 DEF GreetOnce
  \* What a step must show when the connection already was what it is now.
  <1>5. ASSUME UNCHANGED <<setup, greeting>>, TailId <= TailId', up, user[conn] = "plc",
               Labels \subseteq Labels',
               TailId = greeting.tail /\ Accounted(x) => Accounted(x)'
        PROVE  x \in Straddled' \/ Accounted(x)'
    <2>1. TailId = greeting.tail
      BY <1>1, <1>3, <1>5
    <2>2. Undisturbed
      BY <1>3, <1>5, <2>1 DEF Undisturbed
    <2>3. x \in IdsOf(greeting)
      BY <1>5 DEF IdsOf
    <2>4. x \in Straddled \/ Accounted(x)
      BY <2>2, <2>3 DEF KeptInv
    <2>5. Straddled \subseteq Straddled'
      BY <1>5 DEF Straddled
    <2> QED BY <1>5, <2>1, <2>4, <2>5
  <1>6. ASSUME UNCHANGED <<setup, greeting, conn, toFetch, queries, toPlc, outbox, toServer,
                           user, db>>, TailId <= TailId', up' => up
        PROVE  x \in Straddled' \/ Accounted(x)'
    <2>1. Labels' = Labels
      BY <1>6 DEF Labels
    <2>2. Accounted(x) => Accounted(x)'
      BY <1>6, <2>1 DEF Accounted
    <2>3. up /\ user[conn] = "plc"
      BY <1>3, <1>6
    <2> QED BY <1>5, <1>6, <2>1, <2>2, <2>3
  <1> HIDE DEF g
  <1>7. CASE UNCHANGED vars
    BY <1>1, <1>6, <1>7 DEF vars, ringVars, plcVars, inputVars, netVars, serverVars
  <1>8. CASE Next
    <2>1. UNCHANGED setup
      BY <1>8 DEF Next
    <2>2. CASE FlushRound
      <3>1. /\ UNCHANGED <<setup, greeting, conn, toFetch, queries, toPlc, toServer, user, db, up,
                           TailId>>
            /\ setup.senderKeepsUp /\ stream # 0 => outbox = <<>>
            /\ outbox' = <<>>
        BY <2>1, <2>2 DEF FlushRound, ringVars, inputVars, netVars, serverVars
      <3>2. outbox = <<>>
        BY <1>2, <1>3, <1>4, <3>1
      <3> QED BY <1>1, <1>6, <3>1, <3>2
    <2>3. CASE ModbusConnect \/ DevicesFail \/ CompareRow \/ EndRound \/ PickStream \/ NothingToSend
      BY <1>1, <1>6, <2>1, <2>3
      DEF ModbusConnect, DevicesFail, CompareRow, EndRound, PickStream, NothingToSend,
          ringVars, plcVars, inputVars, netVars, serverVars
    <2>4. CASE WriteRow
      <3> DEFINE m == LiveRow(LabelledRow(LiveLabel, HeadId))
      <3>1. /\ UNCHANGED <<greeting, conn, toFetch, queries, toPlc, toServer, user, db, up>>
            /\ outbox' = Append(outbox, m) /\ HeadId' = HeadId + 1
        BY <2>4 DEF WriteRow, inputVars, netVars, serverVars
      <3>2. TailId <= TailId'
        BY <2>4, RingMoves
      <3>3. m \in Messages(HeadId + 1)
        BY <1>1, <3>1 DEF LiveRow, LabelledRow, LiveLabel, Messages, Carriers, Near
      <3>4. outbox \in Seq(Messages(HeadId + 1))
        BY <1>1, NearGrows
      <3> HIDE DEF m
      <3>5. Carried(outbox, x) => Carried(outbox', x)
        BY <3>1, <3>3, <3>4, CarriedMoves
      <3>6. Labels' = Labels
        BY <3>1 DEF Labels
      <3>7. Accounted(x) => Accounted(x)'
        BY <3>1, <3>5, <3>6 DEF Accounted
      <3> QED BY <1>3, <1>5, <2>1, <3>1, <3>2, <3>6, <3>7
    <2>5. CASE ServeQuery
      <3> DEFINE r == Head(queries)
                 m == Rows(Fetched(r))
      <3>1. /\ UNCHANGED <<greeting, conn, toFetch, toPlc, toServer, user, db, up, TailId>>
            /\ queries # <<>> /\ queries' = Tail(queries) /\ outbox' = Append(outbox, m)
        BY <2>5 DEF ServeQuery, ringVars, inputVars, netVars, serverVars
      <3>2. m \in Messages(HeadId)
        BY FetchedNear DEF TypeInv, Rows, Messages, Carriers
      <3>3. Labels' = Labels
        BY <3>1 DEF Labels
      <3>4. r \in RangeTypes /\ r.tail \in Nat
        <4>1. r \in RangeTypes
          BY <1>1, <3>1, TailIndex
        <4> QED BY <4>1 DEF RangeTypes
      <3>5. ASSUME TailId = greeting.tail, Asks(r, greeting.tail, x) PROVE Carries(m, x)
        <4>1. x \in Int /\ x < HeadId
          BY <1>1, <3>1 DEF IdsOf
        <4>2. TailId <= r.tail /\ r.tail <= x /\ x < r.head
          BY <3>5 DEF Asks
        <4>3. x \in TailId .. HeadId - 1
          BY <1>1, <3>4, <4>1, <4>2
        <4>4. LabelledRow(x, x) \in Fetched(r)
          BY <1>1, <3>4, <4>2, <4>3 DEF Fetched
        <4> QED BY <4>4 DEF Carries, Rows, LabelledRow
      <3> HIDE DEF m, r
      <3>6. Carried(outbox, x) \/ Carries(m, x) => Carried(outbox', x)
        BY <1>1, <3>1, <3>2, CarriedMoves
      <3>7. Asked(queries, greeting.tail, x)
              => Asked(queries', greeting.tail, x) \/ Asks(r, greeting.tail, x)
        BY <1>1, <3>1, AskedMoves DEF r
      <3>8. TailId = greeting.tail /\ Accounted(x) => Accounted(x)'
        BY <3>1, <3>3, <3>5, <3>6, <3>7 DEF Accounted
      <3> QED BY <1>1, <1>3, <1>5, <2>1, <3>1, <3>3, <3>8
    <2>6. CASE Connect
      <3>1. conn' = conn + 1 /\ conn < MaxConn /\ user' = [user EXCEPT ![conn'] = "stranger"]
        BY <2>6 DEF Connect
      <3>2. conn' \in Conns
        BY <1>2, <3>1 DEF Conns
      <3> QED BY <1>1, <1>3, <3>1, <3>2
    <2>7. CASE OpenStream \/ GreetTail \/ GreetHead \/ Greet
      <3>1. UNCHANGED <<conn, up, user>> /\ input # "reading"
        BY <2>7 DEF OpenStream, GreetTail, GreetHead, Greet, netVars, serverVars
      <3> QED BY <1>3, <1>4, <3>1
    <2>8. CASE Read
      <3> DEFINE r == Head(toPlc[conn])
      <3>1. /\ UNCHANGED <<greeting, conn, toFetch, toServer, user, db, up, TailId, outbox>>
            /\ toPlc[conn] # <<>> /\ toPlc' = [toPlc EXCEPT ![conn] = Tail(@)]
            /\ queries' = Append(queries, r)
        BY <2>8 DEF Read, ringVars, inputVars, serverVars
      <3>2. conn \in Conns /\ toPlc[conn] \in Seq(RangeTypes)
        BY <1>1, <1>2, <1>3, <3>1
      <3>3. r \in RangeTypes /\ toPlc'[conn] = Tail(toPlc[conn])
        BY <1>1, <3>1, <3>2, TailIndex
      <3>4. Asked(toPlc[conn], greeting.tail, x)
              => Asked(toPlc'[conn], greeting.tail, x) \/ Asks(r, greeting.tail, x)
        BY <3>1, <3>2, <3>3, AskedMoves
      <3> HIDE DEF r
      <3>5. Asked(queries, greeting.tail, x) \/ Asks(r, greeting.tail, x)
              => Asked(queries', greeting.tail, x)
        BY <1>1, <3>1, <3>3, AskedMoves
      <3>6. Labels' = Labels
        BY <3>1 DEF Labels
      <3>7. Accounted(x) => Accounted(x)'
        BY <3>1, <3>4, <3>5, <3>6 DEF Accounted
      <3> QED BY <1>1, <1>3, <1>5, <2>1, <3>1, <3>6, <3>7
    <2>9. CASE ReadFails \/ Break
      <3>1. (~up /\ up' = up) \/ up' = FALSE
        BY <2>9 DEF ReadFails, Break, netVars
      <3> QED BY <1>3, <3>1
    <2>10. CASE Send
      <3> DEFINE m == Head(outbox)
      <3>1. /\ UNCHANGED <<greeting, conn, toFetch, toPlc, user, db, up, TailId, queries>>
            /\ out # 0 /\ outbox # <<>> /\ outbox' = Tail(outbox)
        BY <2>10 DEF Send, ringVars, inputVars, serverVars
      <3>2. conn \in Conns
        BY <1>2, <1>3, <3>1
      <3>3. out = conn
        BY <1>3, <3>1, <3>2 DEF GreetOnce
      <3>4. m \in Messages(HeadId) /\ toServer[conn] \in Seq(Messages(HeadId))
        BY <1>1, <3>1, <3>2, TailIndex
      <3>5. toServer'[conn] = Append(toServer[conn], m)
        BY <1>1, <1>3, <2>10, <3>1, <3>2, <3>3 DEF Send
      <3>6. Carried(outbox, x) => Carried(outbox', x) \/ Carries(m, x)
        BY <1>1, <3>1, CarriedMoves
      <3> HIDE DEF m
      <3>7. Carried(toServer[conn], x) \/ Carries(m, x) => Carried(toServer'[conn], x)
        BY <3>4, <3>5, CarriedMoves
      <3>8. Labels' = Labels
        BY <3>1 DEF Labels
      <3>9. Accounted(x) => Accounted(x)'
        BY <3>1, <3>6, <3>7, <3>8 DEF Accounted
      <3> QED BY <1>1, <1>3, <1>5, <2>1, <3>1, <3>8, <3>9
    <2>11. ASSUME NEW c \in Conns, Serve(c) PROVE x \in Straddled' \/ Accounted(x)'
      <3>1. /\ UNCHANGED <<greeting, conn, TailId, queries, outbox>>
            /\ toServer[c] # <<>>
            /\ \A d \in Conns : d # c => /\ toServer'[d] = toServer[d] /\ toFetch'[d] = toFetch[d]
                                         /\ toPlc'[d] = toPlc[d] /\ user'[d] = user[d]
            /\ up' = up \/ up' = FALSE
            /\ db \subseteq db'
        BY <1>1, <2>11
        DEF Serve, Reject, Welcome, StoreLive, StoreRows, QueryNext, ringVars, inputVars
      <3>2. up /\ conn \in Conns
        BY <1>2, <1>3, <3>1
      <3>3. Labels \subseteq Labels'
        BY <3>1 DEF Labels
      <3>4. CASE c # conn
        <4>1. user[conn] = "plc"
          BY <1>3, <3>1, <3>2, <3>4
        <4>2. Accounted(x) => Accounted(x)'
          BY <3>1, <3>2, <3>3, <3>4 DEF Accounted
        <4> QED BY <1>1, <1>5, <2>1, <3>1, <3>2, <3>3, <4>1, <4>2
      <3>5. CASE c = conn
        <4> DEFINE m == Received(conn)
        <4>0. /\ toServer[conn] \in Seq(Messages(HeadId)) /\ toServer[conn] # <<>>
              /\ Received(conn) = Head(toServer[conn])
              /\ Carried(toServer[conn], x) => Carried(Tail(toServer[conn]), x) \/ Carries(m, x)
          BY <1>1, <3>1, <3>2, <3>5, CarriedMoves DEF Received
        <4>1. CASE Reject(conn)
          <5>1. up' = FALSE
            BY <4>1 DEF Reject
          <5> QED BY <1>3, <5>1
        <4>2. CASE StoreLive(conn)
          <5>1. /\ UNCHANGED <<user, toPlc, toFetch>> /\ user[conn] = "plc"
                /\ toServer'[conn] = Tail(toServer[conn]) /\ m.type = "live"
            BY <1>1, <3>2, <4>2 DEF StoreLive
          <5>2. ~Carries(m, x)
            BY <5>1 DEF Carries
          <5> HIDE DEF m
          <5>3. Accounted(x) => Accounted(x)'
            BY <3>1, <3>3, <4>0, <5>1, <5>2 DEF Accounted
          <5> QED BY <1>1, <1>5, <2>1, <3>1, <3>2, <3>3, <5>1, <5>3
        <4>3. CASE StoreRows(conn)
          <5>1. /\ UNCHANGED user /\ user[conn] = "plc"
                /\ toServer'[conn] = Tail(toServer[conn]) /\ m.type = "rows"
                /\ db' = db \cup (New(m.rows) \ Old(m.rows))
                /\ IF m.rows = {} THEN UNCHANGED <<toFetch, toPlc>>
                                  ELSE QueryNext(conn, Unfetched(conn))
            BY <1>1, <3>2, <4>3 DEF StoreRows
          <5>2. m.rows \subseteq Near(HeadId)
            BY <3>1, <3>2, <3>5, <5>1, ReceivedTyped DEF TypeInv
          <5>3. \A y \in m.rows : y.row \in Nat
            BY <5>2 DEF Near
          <5>4. setup.oldBelow = 0
            BY <1>3, <2>1
          <5>5. Old(m.rows) = {}
            BY <5>3, <5>4 DEF Old
          <5>6. Unfetched(conn) = toFetch[conn]
            BY <5>3, <5>4 DEF Unfetched, Old, New
          <5>7. Carries(m, x) => x \in Labels'
            <6>1. \A y \in m.rows : y \in db' \/ y.label \in Labels
              BY <5>1, <5>5 DEF New
            <6> QED BY <3>3, <6>1 DEF Carries, Labels
          <5>8. /\ Asked(toFetch[conn], greeting.tail, x)
                     => Asked(toFetch'[conn], greeting.tail, x) \/ Asked(toPlc'[conn], greeting.tail, x)
                /\ Asked(toPlc[conn], greeting.tail, x) => Asked(toPlc'[conn], greeting.tail, x)
            <6>1. CASE m.rows = {}
              BY <5>1, <6>1
            <6>2. CASE m.rows # {}
              <7>1. toFetch[conn] \in Seq(RangeTypes) /\ QueryNext(conn, toFetch[conn])
                BY <1>1, <3>2, <5>1, <5>6, <6>2
              <7> QED BY <3>2, <7>1, QueryKept
            <6> QED BY <6>1, <6>2
          <5> HIDE DEF m
          <5>9. Accounted(x) => Accounted(x)'
            BY <3>1, <3>3, <4>0, <5>1, <5>7, <5>8 DEF Accounted
          <5> QED BY <1>1, <1>5, <2>1, <3>1, <3>2, <3>3, <5>1, <5>9
        <4>4. CASE Welcome(conn)
          <5> DEFINE t == greeting.tail
                     h == greeting.head
                     q == RowsToFetch(Labels, t, h)
          <5>1. /\ UNCHANGED db /\ m.type = "greeting"
                /\ QueryNext(conn, RowsToFetch(Labels, m.range.tail, m.range.head))
            BY <4>4 DEF Welcome
          <5>2. m.range = greeting
            <6>1. m = toServer[conn][1] /\ 1 \in DOMAIN toServer[conn]
              BY <4>0, TailIndex
            <6> QED BY <3>2, <5>1, <6>1 DEF GreetOnce, AllAre
          <5>3. t \in Nat /\ h \in Nat /\ t <= h
            BY <3>2, <4>0, <5>1, <5>2, GreetingTyped
          <5>4. Labels \in SUBSET Nat /\ IsFiniteSet(Labels)
            BY LabelsFinite DEF TypeInv
          <5>5. /\ q \in Seq(RangeTypes)
                /\ \A r \in MissingBatches(Labels, t, h) : \E i \in DOMAIN q : q[i] = r
            <6> HIDE DEF t, h
            <6>1. /\ q \in Seq([tail : Nat, head : Nat])
                  /\ \A r \in MissingBatches(Labels, t, h) : \E i \in DOMAIN q : q[i] = r
              BY <5>3, <5>4, QueueTyped
            <6> QED BY <6>1 DEF RangeTypes
          <5>6. x \in t .. h - 1
            BY <3>1 DEF IdsOf
          <5>7. CASE x \in Labels
            BY <3>3, <5>7 DEF Accounted
          <5>8. CASE x \notin Labels
            <6>1. PICK r \in MissingBatches(Labels, t, h) : r.tail <= x /\ x < r.head
              BY <5>3, <5>4, <5>6, <5>8, MissingExact DEF Covers
            <6>2. r.tail \in Nat /\ r.head \in Nat /\ r.head - r.tail <= MaxBatch
              BY <5>3, <5>4, <6>1, MissingCut DEF IsCut
            <6>3. CASE t <= r.tail
              <7>1. Asked(q, t, x)
                BY <5>5, <6>1, <6>3 DEF Asked, Asks
              <7>2. QueryNext(conn, q)
                BY <5>1, <5>2
              <7> HIDE DEF q
              <7>3. Asked(toFetch'[conn], t, x) \/ Asked(toPlc'[conn], t, x)
                BY <3>2, <5>5, <7>1, <7>2, QueryKept
              <7> QED BY <3>1, <7>3 DEF Accounted
            <6>4. CASE ~(t <= r.tail)
              <7>1. \E l \in Labels : l < t
                BY <5>3, <5>4, <6>1, <6>4, MissingExact
              <7>2. \E l \in Labels' : l < t
                BY <3>3, <7>1
              <7>3. x \in t .. t + MaxBatch - 2
                BY <5>3, <5>6, <6>1, <6>2, <6>4, BatchAssumption
              <7> QED BY <3>1, <7>2, <7>3 DEF Straddled
            <6> QED BY <6>3, <6>4
          <5> QED BY <5>7, <5>8
        <4> QED BY <2>11, <3>5, <4>1, <4>2, <4>3, <4>4 DEF Serve
      <3> QED BY <3>4, <3>5
    <2> QED
      BY <1>8, <2>2, <2>3, <2>4, <2>5, <2>6, <2>7, <2>8, <2>9, <2>10, <2>11
      DEF Next, PlcThread, InputThread, OutputThread
  <1> QED BY <1>7, <1>8

(* While its connection holds and the ring retires nothing, an Id the PLC announced   *)
(* is stored, queued, asked for or on its way, whatever was stored before and however *)
(* many queries and answers are about, but for those of a batch that starts below the *)
(* tail (PlcServer2.fs:169-205, 227-265, CircularDB.java:228).                        *)
THEOREM NothingForgotten == Spec => []NoIdForgotten
  <1>1. TypeInv /\ KeptInv => NoIdForgotten
    <2> SUFFICES ASSUME TypeInv, KeptInv, Undisturbed,
                        NEW x \in IdsOf(greeting), x \notin Straddled
                 PROVE  x \in Labels \cup Ranges(toFetch[conn]) \cup AskedFor \cup OnTheWay
      BY DEF NoIdForgotten, Undisturbed
    <2>1. Accounted(x)
      BY DEF KeptInv
    <2>2. x \in Int
      BY DEF IdsOf
    <2>3. conn \in Conns
      BY SyncAssumption DEF TypeInv, ThreadTypes, Undisturbed, Conns
    <2>4. ASSUME NEW s \in Seq(RangeTypes), Asked(s, greeting.tail, x)
          PROVE  x \in Ranges(s)
      <3>1. PICK i \in DOMAIN s : Asks(s[i], greeting.tail, x)
        BY <2>4 DEF Asked
      <3>2. s[i] \in RangeTypes
        BY <3>1
      <3>3. s[i].tail \in Nat /\ s[i].head \in Nat
        BY <3>2 DEF RangeTypes
      <3>4. x \in IdsOf(s[i])
        BY <2>2, <3>1, <3>3 DEF Asks, IdsOf
      <3> QED BY <3>4 DEF Ranges
    <2>5. \A s : Carried(s, x) => x \in Answered(s)
      BY DEF Carried, Carries, Answered, Answers
    <2>6. /\ queries \in Seq(RangeTypes)
          /\ toPlc[conn] \in Seq(RangeTypes) /\ toFetch[conn] \in Seq(RangeTypes)
      BY <2>3 DEF TypeInv, ServerTypes
    <2> QED BY <2>1, <2>4, <2>5, <2>6 DEF Accounted, AskedFor, OnTheWay
  <1> QED
    BY <1>1, TypeInit, TypeStep, GreetInit, GreetStep, KeptInit, KeptStep, PTL DEF Spec
=============================================================================
