---------------------------- MODULE EngineProofs -----------------------------
(***************************************************************************)
(* One run of the data-quality scan (RuleScan) and one look-up in the      *)
(* detection engines (DetectionCascade): for each an inductive invariant,  *)
(* kept by every step, and the properties that follow from it, for every   *)
(* pack of rules, chunk size, table of mappings and string.                *)
(***************************************************************************)
EXTENDS RuleScan, DetectionCascade, TLAPS, FiniteSetTheorems, SequenceTheorems, WellFoundedInduction


-----------------------------------------------------------------------------
(* Sets in order and lists in chunks.                                      *)

Distinct(s) == \A m, n \in DOMAIN s : s[m] = s[n] => m = n

\* The rank of a member among the members of a set.
Rank(S, x) == Cardinality(UpTo(S, x))

LEMMA RankRises ==
  ASSUME NEW S \in SUBSET Int, IsFiniteSet(S), NEW x \in S
  PROVE  /\ Rank(S, x) \in 1 .. Cardinality(S) /\ Cardinality(S) \in Nat
         /\ \A y \in S : x < y => Rank(S, x) < Rank(S, y)
<1>1. /\ IsFiniteSet(UpTo(S, x)) /\ Rank(S, x) \in Nat /\ Cardinality(S) \in Nat
      /\ Rank(S, x) <= Cardinality(S)
  BY FS_Subset, FS_CardinalityType DEF UpTo, Rank
<1>2. Rank(S, x) # 0
  <2>1. x \in UpTo(S, x)
    BY DEF UpTo
  <2> QED BY <1>1, <2>1, FS_EmptySet DEF Rank
<1>3. ASSUME NEW y \in S, x < y
      PROVE  Rank(S, x) < Rank(S, y)
  <2>1. UpTo(S, x) \subseteq UpTo(S, y) /\ y \in UpTo(S, y) /\ y \notin UpTo(S, x)
    <3>1. x \in Int /\ y \in Int /\ ~(y <= x)
      BY <1>3
    <3>2. ASSUME NEW z \in S, z <= x PROVE z <= y
      <4>1. z \in Int
        OBVIOUS
      <4> QED BY <1>3, <3>1, <3>2, <4>1
    <3>3. UpTo(S, x) \subseteq UpTo(S, y)
      BY <3>2 DEF UpTo
    <3>4. y \in UpTo(S, y)
      BY <3>1 DEF UpTo
    <3>5. y \notin UpTo(S, x)
      BY <3>1 DEF UpTo
    <3> QED BY <3>3, <3>4, <3>5
  <2>2. IsFiniteSet(UpTo(S, y))
    BY FS_Subset DEF UpTo
  <2>3. Cardinality(UpTo(S, y)) \in Nat
    BY <2>2, FS_CardinalityType
  <2>4. Cardinality(UpTo(S, x)) <= Cardinality(UpTo(S, y)) /\ Cardinality(UpTo(S, x)) # Cardinality(UpTo(S, y))
    BY <2>1, <2>2, FS_Subset
  <2> QED BY <1>1, <2>3, <2>4 DEF Rank
<1> QED BY <1>1, <1>2, <1>3

LEMMA RankIsOnto ==
  ASSUME NEW S \in SUBSET Int, IsFiniteSet(S)
  PROVE  \A n \in 1 .. Cardinality(S) : \E x \in S : Rank(S, x) = n
<1>1. PICK N : N = Cardinality(S)
  OBVIOUS
<1>2. N \in Nat
  BY <1>1, FS_CardinalityType
<1>3. PICK rank : rank = [x \in S |-> Rank(S, x)]
  OBVIOUS
<1>4. rank \in Injection(S, 1 .. N)
  <2>1. rank \in [S -> 1 .. N]
    BY <1>1, <1>3, RankRises
  <2>2. ASSUME NEW x \in S, NEW y \in S, rank[x] = rank[y]
        PROVE  x = y
    <3>1. ~(x < y) /\ ~(y < x)
      BY <1>2, <1>3, <2>1, <2>2, RankRises
    <3> QED BY <3>1
  <2> QED BY <2>1, <2>2 DEF Injection, IsInjective
<1>5. IsFiniteSet(1 .. N) /\ Cardinality(1 .. N) = N
  BY <1>2, FS_Interval
<1>6. rank \in Surjection(S, 1 .. N)
  BY <1>1, <1>4, <1>5, FS_Injection
<1> QED BY <1>1, <1>3, <1>6 DEF Surjection

LEMMA InOrderLists ==
  ASSUME NEW S, S \subseteq Int, IsFiniteSet(S)
  PROVE  InOrder(S) \in Seq(S) /\ Distinct(InOrder(S)) /\ ToSet(InOrder(S)) = S
<1>1. Cardinality(S) \in Nat
  BY FS_CardinalityType
<1>2. \A n \in 1 .. Cardinality(S) : Nth(S, n) \in S /\ Rank(S, Nth(S, n)) = n
  BY RankIsOnto DEF Nth, Rank
<1>3. \A x \in S : Rank(S, x) \in 1 .. Cardinality(S) /\ Nth(S, Rank(S, x)) = x
  <2> TAKE x \in S
  <2>1. Rank(S, x) \in 1 .. Cardinality(S)
    BY RankRises
  <2>2. PICK y : y = Nth(S, Rank(S, x))
    OBVIOUS
  <2>3. y \in S /\ Rank(S, y) = Rank(S, x)
    BY <1>2, <2>1, <2>2
  <2>4. ~(x < y) /\ ~(y < x)
    <3>1. x < y => Rank(S, x) < Rank(S, y)
      BY <2>3, RankRises
    <3>2. y < x => Rank(S, y) < Rank(S, x)
      BY <2>3, RankRises
    <3> QED BY <1>1, <2>1, <2>3, <3>1, <3>2
  <2>5. x = y
    BY <2>3, <2>4
  <2> QED BY <2>1, <2>2, <2>5
<1>4. InOrder(S) \in Seq(S) /\ DOMAIN InOrder(S) = 1 .. Cardinality(S)
  BY <1>1, <1>2 DEF InOrder
<1>5. Distinct(InOrder(S))
  BY <1>2 DEF Distinct, InOrder
<1>6. ToSet(InOrder(S)) = S
  BY <1>2, <1>3 DEF ToSet, InOrder
<1> QED BY <1>4, <1>5, <1>6

\* Integer division.
LEMMA Division ==
  ASSUME NEW a \in Nat, NEW c \in Nat \ {0}
  PROVE  a \div c \in Nat /\ c * (a \div c) <= a /\ a < c * (a \div c) + c
OBVIOUS

LEMMA Products ==
  ASSUME NEW k \in Nat, NEW n \in Nat, NEW c \in Nat \ {0}
  PROVE  /\ n * c \in Nat /\ (n + 1) * c = n * c + c
         /\ k <= n => k * c <= n * c
         /\ k < n => k * c + c <= n * c
OBVIOUS

LEMMA ChunkBounds ==
  ASSUME NEW L \in Nat, NEW c \in Nat \ {0}, NEW K, K = (L + c - 1) \div c
  PROVE  /\ K \in Nat
         /\ \A n \in 1 .. K : (n - 1) * c \in Nat /\ n * c = (n - 1) * c + c /\ (n - 1) * c < L
         /\ \A m, n \in 1 .. K : m < n => m * c <= (n - 1) * c
         /\ \A q \in 1 .. L : \E n \in 1 .. K : (n - 1) * c < q /\ q <= n * c
<1>1. PICK a \in Nat : a = L + c - 1
  OBVIOUS
<1>2. K \in Nat /\ c * K <= a /\ a < c * K + c
  BY <1>1, Division
<1>3. ASSUME NEW n \in 1 .. K
      PROVE  (n - 1) * c \in Nat /\ n * c = (n - 1) * c + c /\ (n - 1) * c < L
  <2>1. PICK p \in Nat : p = n - 1 /\ n = p + 1
    BY <1>2
  <2>2. p * c \in Nat /\ n * c = p * c + c
    BY <2>1, Products
  <2>3. n * c <= K * c /\ K * c = c * K
    BY <1>2, Products
  <2> QED BY <1>1, <1>2, <2>1, <2>2, <2>3
<1>4. ASSUME NEW m \in 1 .. K, NEW n \in 1 .. K, m < n
      PROVE  m * c <= (n - 1) * c
  <2>1. PICK p \in Nat : p = n - 1 /\ m <= p
    BY <1>2, <1>4
  <2> QED BY <1>2, <2>1, Products
<1>5. ASSUME NEW q \in 1 .. L
      PROVE  \E n \in 1 .. K : (n - 1) * c < q /\ q <= n * c
  <2>1. PICK b \in Nat : b = q - 1
    OBVIOUS
  <2>2. PICK p : p = b \div c
    OBVIOUS
  <2>3. p \in Nat /\ c * p <= b /\ b < c * p + c
    BY <2>1, <2>2, Division
  <2>4. p < K
    <3>1. CASE K <= p
      <4>1. K * c <= p * c /\ K * c = c * K /\ p * c = c * p
        BY <1>2, <2>3, <3>1, Products
      <4> QED BY <1>1, <1>2, <2>1, <2>3, <4>1
    <3> QED BY <1>2, <2>3, <3>1
  <2>5. PICK n \in 1 .. K : n = p + 1 /\ n - 1 = p
    BY <1>2, <2>3, <2>4
  <2>6. n * c = p * c + c /\ p * c = c * p /\ p * c \in Nat
    BY <2>3, <2>5, Products
  <2>7. p * c < q /\ q <= n * c
    BY <2>1, <2>3, <2>6
  <2> QED BY <2>5, <2>7
<1> QED BY <1>2, <1>3, <1>4, <1>5

LEMMA ChunksPartition ==
  ASSUME RuleScanAssumption, NEW S, NEW rules \in Seq(S), Distinct(rules)
  PROVE  /\ Chunks(rules) \in Seq(Seq(S))
         /\ \A n \in DOMAIN Chunks(rules) : Chunks(rules)[n] # <<>> /\ Distinct(Chunks(rules)[n])
         /\ \A m, n \in DOMAIN Chunks(rules) : m # n => ToSet(Chunks(rules)[m]) \cap ToSet(Chunks(rules)[n]) = {}
         /\ UNION {ToSet(Chunks(rules)[n]) : n \in DOMAIN Chunks(rules)} = ToSet(rules)
<1>1. PICK c, L, K : c = ChunkSize /\ L = Len(rules) /\ K = (L + c - 1) \div c
  OBVIOUS
<1>2. c \in Nat \ {0} /\ L \in Nat /\ DOMAIN rules = 1 .. L /\ \A q \in 1 .. L : rules[q] \in S
  BY <1>1 DEF RuleScanAssumption
<1>3. /\ K \in Nat
      /\ \A n \in 1 .. K : (n - 1) * c \in Nat /\ n * c = (n - 1) * c + c /\ (n - 1) * c < L
      /\ \A m, n \in 1 .. K : m < n => m * c <= (n - 1) * c
      /\ \A q \in 1 .. L : \E n \in 1 .. K : (n - 1) * c < q /\ q <= n * c
  <2>1. L \in Nat /\ c \in Nat \ {0} /\ K = (L + c - 1) \div c
    BY <1>1, <1>2
  <2> QED BY <2>1, ChunkBounds
<1> DEFINE first(n) == (n - 1) * c + 1
           last(n) == IF n * c < L THEN n * c ELSE L
<1>4. Chunks(rules) = [n \in 1 .. K |-> SubSeq(rules, first(n), last(n))]
  BY <1>1 DEF Chunks
<1>5. \A n \in 1 .. K : /\ first(n) \in 1 .. L /\ last(n) \in 1 .. L /\ first(n) <= last(n)
                        /\ last(n) <= n * c
  <2> TAKE n \in 1 .. K
  <2>1. PICK f, t : f = (n - 1) * c /\ t = n * c
    OBVIOUS
  <2>2. f \in Nat /\ t = f + c /\ f < L
    BY <1>3, <2>1
  <2> QED BY <1>2, <2>1, <2>2
<1>6. \A m, n \in 1 .. K : m < n => last(m) < first(n)
  <2> SUFFICES ASSUME NEW m \in 1 .. K, NEW n \in 1 .. K, m < n PROVE last(m) < first(n)
    OBVIOUS
  <2>1. PICK t, f : t = m * c /\ f = (n - 1) * c
    OBVIOUS
  <2>2. t <= f /\ f \in Nat /\ t \in Int /\ last(m) <= t /\ last(m) \in Int
    BY <1>2, <1>3, <1>5, <2>1
  <2> QED BY <2>1, <2>2
<1>7. \A q \in 1 .. L : \E n \in 1 .. K : q \in first(n) .. last(n)
  <2> TAKE q \in 1 .. L
  <2>1. PICK n \in 1 .. K : (n - 1) * c < q /\ q <= n * c
    BY <1>3
  <2>2. PICK f, t : f = (n - 1) * c /\ t = n * c
    OBVIOUS
  <2>3. f \in Nat /\ t \in Int /\ f < q /\ q <= t
    BY <1>2, <1>3, <2>1, <2>2
  <2>4. q \in first(n) .. last(n)
    BY <1>2, <2>2, <2>3
  <2> QED BY <2>4
<1> HIDE DEF first, last
<1>8. ASSUME NEW n \in 1 .. K
      PROVE  /\ Chunks(rules)[n] \in Seq(S) /\ Chunks(rules)[n] # <<>> /\ Distinct(Chunks(rules)[n])
             /\ ToSet(Chunks(rules)[n]) = {rules[q] : q \in first(n) .. last(n)}
  <2>1. PICK f, t, s : f = first(n) /\ t = last(n) /\ s = SubSeq(rules, f, t)
    OBVIOUS
  <2>2. f \in 1 .. L /\ t \in 1 .. L /\ f <= t
    BY <1>5, <2>1
  <2>3. s \in Seq(S) /\ Len(s) = t - f + 1 /\ \A i \in 1 .. t - f + 1 : s[i] = rules[f + i - 1]
    BY <1>2, <2>1, <2>2, SubSeqProperties
  <2>4. s # <<>> /\ DOMAIN s = 1 .. t - f + 1
    BY <2>2, <2>3
  <2>5. Distinct(s)
    <3> SUFFICES ASSUME NEW i \in 1 .. t - f + 1, NEW j \in 1 .. t - f + 1, s[i] = s[j] PROVE i = j
      BY <2>4 DEF Distinct
    <3>1. rules[f + i - 1] = rules[f + j - 1] /\ f + i - 1 \in 1 .. L /\ f + j - 1 \in 1 .. L
      BY <1>2, <2>2, <2>3
    <3>2. f + i - 1 = f + j - 1
      BY <1>2, <3>1 DEF Distinct
    <3> QED BY <2>2, <3>2
  <2>6. ToSet(s) = {rules[q] : q \in f .. t}
    <3>1. ASSUME NEW i \in 1 .. t - f + 1 PROVE \E q \in f .. t : s[i] = rules[q]
      BY <2>2, <2>3
    <3>2. ASSUME NEW q \in f .. t PROVE \E i \in 1 .. t - f + 1 : s[i] = rules[q]
      <4>1. PICK i \in 1 .. t - f + 1 : f + i - 1 = q
        <5>1. q - f + 1 \in 1 .. t - f + 1 /\ f + (q - f + 1) - 1 = q
          BY <1>2, <2>2
        <5> QED BY <5>1
      <4> QED BY <2>3, <4>1
    <3>3. ToSet(s) = {s[i] : i \in 1 .. t - f + 1}
      BY <2>4 DEF ToSet
    <3>4. PICK I, Q : I = 1 .. t - f + 1 /\ Q = f .. t
      OBVIOUS
    <3>5. (\A i \in I : \E q \in Q : s[i] = rules[q]) /\ (\A q \in Q : \E i \in I : s[i] = rules[q])
      BY <3>1, <3>2, <3>4
    <3>6. {s[i] : i \in I} = {rules[q] : q \in Q}
      BY <3>5
    <3> QED BY <3>3, <3>4, <3>6
  <2>7. Chunks(rules)[n] = s
    BY <1>4, <2>1
  <2> QED BY <2>1, <2>3, <2>4, <2>5, <2>6, <2>7
<1>9. Chunks(rules) \in Seq(Seq(S)) /\ DOMAIN Chunks(rules) = 1 .. K
  BY <1>3, <1>4, <1>8
<1>10. ASSUME NEW m \in 1 .. K, NEW n \in 1 .. K, m # n
       PROVE  ToSet(Chunks(rules)[m]) \cap ToSet(Chunks(rules)[n]) = {}
  <2>1. \A i \in first(m) .. last(m), j \in first(n) .. last(n) : i # j
    <3>1. CASE m < n
      BY <1>2, <1>5, <1>6, <3>1
    <3>2. CASE n < m
      BY <1>2, <1>5, <1>6, <3>2
    <3> QED BY <1>3, <1>10, <3>1, <3>2
  <2>2. \A i \in first(m) .. last(m), j \in first(n) .. last(n) : rules[i] # rules[j]
    <3> TAKE i \in first(m) .. last(m), j \in first(n) .. last(n)
    <3>1. i \in 1 .. L /\ j \in 1 .. L
      BY <1>2, <1>5
    <3> QED BY <1>2, <2>1, <3>1 DEF Distinct
  <2>3. PICK I, J : I = first(m) .. last(m) /\ J = first(n) .. last(n)
    OBVIOUS
  <2>4. \A i \in I, j \in J : rules[i] # rules[j]
    BY <2>2, <2>3
  <2>5. {rules[q] : q \in I} \cap {rules[q] : q \in J} = {}
    BY <2>4
  <2>6. ToSet(Chunks(rules)[m]) = {rules[q] : q \in I} /\ ToSet(Chunks(rules)[n]) = {rules[q] : q \in J}
    BY <1>8, <2>3
  <2> QED BY <2>5, <2>6
<1>11. UNION {ToSet(Chunks(rules)[n]) : n \in 1 .. K} = ToSet(rules)
  <2>1. ASSUME NEW n \in 1 .. K PROVE ToSet(Chunks(rules)[n]) \subseteq ToSet(rules)
    <3>1. \A q \in first(n) .. last(n) : q \in 1 .. L
      BY <1>2, <1>5
    <3>2. PICK I : I = first(n) .. last(n)
      OBVIOUS
    <3>3. ToSet(Chunks(rules)[n]) = {rules[q] : q \in I} /\ \A q \in I : q \in 1 .. L
      BY <1>8, <3>1, <3>2
    <3>4. ToSet(rules) = {rules[q] : q \in 1 .. L}
      BY <1>2 DEF ToSet
    <3> QED BY <3>3, <3>4
  <2>2. ASSUME NEW q \in 1 .. L PROVE \E n \in 1 .. K : rules[q] \in ToSet(Chunks(rules)[n])
    <3>1. PICK n \in 1 .. K : q \in first(n) .. last(n)
      BY <1>7
    <3> QED BY <1>8, <3>1
  <2>3. ASSUME NEW x \in ToSet(rules) PROVE \E n \in 1 .. K : x \in ToSet(Chunks(rules)[n])
    BY <1>2, <2>2 DEF ToSet
  <2> QED BY <2>1, <2>3
<1> QED BY <1>8, <1>9, <1>10, <1>11

\* The lists of a queue: their rules, and that they share none.
Parts(lists) == UNION {ToSet(lists[n]) : n \in DOMAIN lists}
WellCut(lists) ==
  /\ \A n \in DOMAIN lists : lists[n] # <<>> /\ Distinct(lists[n])
  /\ \A m, n \in DOMAIN lists : m # n => ToSet(lists[m]) \cap ToSet(lists[n]) = {}

LEMMA CutsJoin ==
  ASSUME NEW S, NEW s \in Seq(Seq(S)), NEW t \in Seq(Seq(S)), WellCut(s), WellCut(t), Parts(s) \cap Parts(t) = {}
  PROVE  s \o t \in Seq(Seq(S)) /\ WellCut(s \o t) /\ Parts(s \o t) = Parts(s) \cup Parts(t)
<1>1. PICK k, l, j : k = Len(s) /\ l = Len(t) /\ j = s \o t
  OBVIOUS
<1>2. k \in Nat /\ l \in Nat /\ DOMAIN s = 1 .. k /\ DOMAIN t = 1 .. l /\ j \in Seq(Seq(S)) /\ DOMAIN j = 1 .. k + l
  BY <1>1, ConcatProperties, LenProperties
<1>3. (\A n \in 1 .. k : j[n] = s[n]) /\ \A n \in 1 .. l : j[k + n] = t[n]
  BY <1>1, <1>2, ConcatProperties
<1>4. \A n \in 1 .. k + l : n \in 1 .. k \/ \E m \in 1 .. l : n = k + m
  <2> TAKE n \in 1 .. k + l
  <2>1. n \in 1 .. k \/ (n - k \in 1 .. l /\ n = k + (n - k))
    BY <1>2
  <2> QED BY <2>1
<1>5. (\A n \in 1 .. k : n \in 1 .. k + l) /\ \A n \in 1 .. l : k + n \in 1 .. k + l
  BY <1>2
<1>6. Parts(j) = Parts(s) \cup Parts(t)
  <2>1. (\A n \in 1 .. k + l : ToSet(j[n]) \subseteq Parts(s) \cup Parts(t))
    BY <1>2, <1>3, <1>4 DEF Parts
  <2>2. (\A n \in 1 .. k : ToSet(s[n]) \subseteq Parts(j)) /\ \A n \in 1 .. l : ToSet(t[n]) \subseteq Parts(j)
    BY <1>2, <1>3, <1>5 DEF Parts
  <2>3. PICK P : P = Parts(j)
    OBVIOUS
  <2>4. Parts(s) \subseteq P
    BY <1>2, <2>2, <2>3 DEF Parts
  <2>5. Parts(t) \subseteq P
    BY <1>2, <2>2, <2>3 DEF Parts
  <2>6. PICK Q : Q = Parts(s) \cup Parts(t)
    OBVIOUS
  <2>7. \A n \in 1 .. k + l : ToSet(j[n]) \subseteq Q
    BY <2>1, <2>6
  <2>8. Parts(j) \subseteq Q
    BY <1>2, <2>7 DEF Parts
  <2> QED BY <2>3, <2>4, <2>5, <2>6, <2>8
<1>7. \A n \in 1 .. k + l : j[n] # <<>> /\ Distinct(j[n])
  BY <1>2, <1>3, <1>4 DEF WellCut
<1>8. ASSUME NEW m \in 1 .. k + l, NEW n \in 1 .. k + l, m # n
      PROVE  ToSet(j[m]) \cap ToSet(j[n]) = {}
  <2>1. ASSUME NEW x \in 1 .. k, NEW y \in 1 .. l PROVE ToSet(s[x]) \cap ToSet(t[y]) = {}
    <3>1. ToSet(s[x]) \subseteq Parts(s) /\ ToSet(t[y]) \subseteq Parts(t)
      BY <1>2 DEF Parts
    <3> QED BY <3>1
  <2>2. CASE m \in 1 .. k /\ n \in 1 .. k
    BY <1>2, <1>3, <1>8, <2>2 DEF WellCut
  <2>3. CASE m \in 1 .. k /\ \E y \in 1 .. l : n = k + y
    BY <1>3, <2>1, <2>3
  <2>4. CASE (\E x \in 1 .. l : m = k + x) /\ n \in 1 .. k
    BY <1>3, <2>1, <2>4
  <2>5. CASE (\E x \in 1 .. l : m = k + x) /\ (\E y \in 1 .. l : n = k + y)
    <3>1. PICK x \in 1 .. l, y \in 1 .. l : m = k + x /\ n = k + y
      BY <2>5
    <3>2. x # y
      BY <1>8, <3>1
    <3>3. ToSet(t[x]) \cap ToSet(t[y]) = {}
      BY <1>2, <3>2 DEF WellCut
    <3> QED BY <1>3, <3>1, <3>3
  <2> QED BY <1>4, <2>2, <2>3, <2>4, <2>5
<1>9. WellCut(j)
  BY <1>2, <1>7, <1>8 DEF WellCut
<1> QED BY <1>1, <1>2, <1>6, <1>9

LEMMA OneByOne ==
  ASSUME NEW S, NEW s \in Seq(S), Distinct(s)
  PROVE  LET lists == [n \in DOMAIN s |-> <<s[n]>>]
         IN  lists \in Seq(Seq(S)) /\ WellCut(lists) /\ Parts(lists) = ToSet(s)
<1>1. PICK lists : lists = [n \in DOMAIN s |-> <<s[n]>>]
  OBVIOUS
<1>2. DOMAIN s = 1 .. Len(s) /\ Len(s) \in Nat /\ \A n \in 1 .. Len(s) : s[n] \in S
  OBVIOUS
<1>3. DOMAIN lists = DOMAIN s /\ \A n \in DOMAIN s : lists[n] = <<s[n]>>
  BY <1>1
<1>4. \A n \in DOMAIN s : lists[n] \in Seq(S)
  BY <1>2, <1>3
<1>5. lists \in Seq(Seq(S))
  BY <1>1, <1>2, <1>4
<1>6. \A n \in DOMAIN s : lists[n] # <<>> /\ Distinct(lists[n]) /\ ToSet(lists[n]) = {s[n]}
  BY <1>3 DEF Distinct, ToSet
<1>7. WellCut(lists)
  BY <1>3, <1>6 DEF WellCut, Distinct
<1>8. Parts(lists) = ToSet(s)
  BY <1>3, <1>6 DEF Parts, ToSet
<1> QED BY <1>1, <1>5, <1>7, <1>8

LEMMA FirstTaken ==
  ASSUME NEW S, NEW s \in Seq(Seq(S)), s # <<>>, WellCut(s)
  PROVE  /\ Head(s) \in Seq(S) /\ Head(s) # <<>> /\ Distinct(Head(s))
         /\ Tail(s) \in Seq(Seq(S)) /\ WellCut(Tail(s))
         /\ Parts(s) = ToSet(Head(s)) \cup Parts(Tail(s)) /\ ToSet(Head(s)) \cap Parts(Tail(s)) = {}
<1>1. PICK k, h, t : k = Len(s) /\ h = Head(s) /\ t = Tail(s)
  OBVIOUS
<1>2. k \in Nat /\ k # 0 /\ DOMAIN s = 1 .. k /\ h = s[1] /\ h \in Seq(S)
  BY <1>1
<1>3. t \in Seq(Seq(S)) /\ DOMAIN t = 1 .. k - 1 /\ \A n \in 1 .. k - 1 : t[n] = s[n + 1]
  BY <1>1, HeadTailProperties, LenProperties
<1>4. /\ 1 \in 1 .. k /\ \A n \in 1 .. k - 1 : n + 1 \in 1 .. k /\ n + 1 # 1
      /\ \A m, n \in 1 .. k - 1 : m # n => m + 1 # n + 1
      /\ \A n \in 1 .. k : n = 1 \/ \E m \in 1 .. k - 1 : n = m + 1
  <2>1. \A n \in 1 .. k : n = 1 \/ (n - 1 \in 1 .. k - 1 /\ n = (n - 1) + 1)
    BY <1>2
  <2> QED BY <1>2, <2>1
<1>5. h # <<>> /\ Distinct(h)
  BY <1>2, <1>4 DEF WellCut
<1>6. WellCut(t)
  <2>1. \A n \in 1 .. k - 1 : t[n] # <<>> /\ Distinct(t[n])
    BY <1>2, <1>3, <1>4 DEF WellCut
  <2>2. \A m, n \in 1 .. k : m # n => ToSet(s[m]) \cap ToSet(s[n]) = {}
    BY <1>2 DEF WellCut
  <2>3. ASSUME NEW m \in 1 .. k - 1, NEW n \in 1 .. k - 1, m # n
        PROVE  ToSet(t[m]) \cap ToSet(t[n]) = {}
    <3>1. m + 1 \in 1 .. k /\ n + 1 \in 1 .. k /\ m + 1 # n + 1
      BY <1>4, <2>3
    <3>2. ToSet(s[m + 1]) \cap ToSet(s[n + 1]) = {}
      BY <2>2, <3>1
    <3> QED BY <1>3, <3>2
  <2> QED BY <1>3, <2>1, <2>3 DEF WellCut
<1>7. \A n \in 1 .. k - 1 : ToSet(h) \cap ToSet(t[n]) = {}
  BY <1>2, <1>3, <1>4 DEF WellCut
<1>8. ToSet(h) \cap Parts(t) = {}
  BY <1>3, <1>7 DEF Parts
<1>9. Parts(s) = ToSet(h) \cup Parts(t)
  <2>1. ASSUME NEW n \in 1 .. k PROVE ToSet(s[n]) \subseteq ToSet(h) \cup Parts(t)
    <3>1. CASE n = 1
      BY <1>2, <3>1
    <3>2. ASSUME NEW m \in 1 .. k - 1, n = m + 1 PROVE ToSet(s[n]) \subseteq Parts(t)
      <4>1. s[n] = t[m]
        BY <1>3, <3>2
      <4> QED BY <1>3, <4>1 DEF Parts
    <3> QED BY <1>4, <3>1, <3>2
  <2>2. ToSet(h) \subseteq Parts(s) /\ \A n \in 1 .. k - 1 : ToSet(t[n]) \subseteq Parts(s)
    <3>1. \A n \in 1 .. k : ToSet(s[n]) \subseteq Parts(s)
      BY <1>2 DEF Parts
    <3> QED BY <1>2, <1>3, <1>4, <3>1
  <2>3. PICK P, Q : P = Parts(s) /\ Q = ToSet(h) \cup Parts(t)
    OBVIOUS
  <2>4. P \subseteq Q
    BY <1>2, <2>1, <2>3 DEF Parts
  <2>5. Parts(t) \subseteq P
    BY <1>3, <2>2, <2>3 DEF Parts
  <2> QED BY <2>2, <2>3, <2>4, <2>5
<1> QED BY <1>1, <1>2, <1>3, <1>5, <1>6, <1>8, <1>9

-----------------------------------------------------------------------------
(* The outcomes of a rule.                                                 *)

RuleOutcomes == [rule : Rules, status : Measured \cup {"dormant"}]
Places(outcomes, rule) == {n \in DOMAIN outcomes : outcomes[n].rule = rule}
Named(outcomes) == {outcomes[n].rule : n \in DOMAIN outcomes}
NamesOnce(outcomes) == \A m, n \in DOMAIN outcomes : outcomes[m].rule = outcomes[n].rule => m = n

LEMMA OutcomesAppend ==
  ASSUME NEW S, NEW o \in Seq(S), NEW q \in Seq(S), NamesOnce(q), NEW rule
  PROVE  /\ Cardinality(Places(o, rule)) \in Nat
         /\ Cardinality(Places(o \o q, rule)) =
              Cardinality(Places(o, rule)) + IF rule \in Named(q) THEN 1 ELSE 0
<1>1. PICK k, l, j : k = Len(o) /\ l = Len(q) /\ j = o \o q
  OBVIOUS
<1>2. k \in Nat /\ l \in Nat /\ DOMAIN o = 1 .. k /\ DOMAIN q = 1 .. l /\ DOMAIN j = 1 .. k + l
  BY <1>1, ConcatProperties, LenProperties
<1>3. (\A n \in 1 .. k : j[n] = o[n]) /\ \A n \in 1 .. l : j[k + n] = q[n]
  BY <1>1, <1>2, ConcatProperties
<1>4. \A n \in 1 .. k + l : n \in 1 .. k \/ (n - k \in 1 .. l /\ n = k + (n - k))
  BY <1>2
<1>5. (\A n \in 1 .. k : n \in 1 .. k + l) /\ (\A n \in 1 .. l : k + n \in 1 .. k + l /\ k + n \notin 1 .. k)
  BY <1>2
<1>6. IsFiniteSet(Places(o, rule)) /\ Cardinality(Places(o, rule)) \in Nat
  <2>1. Places(o, rule) \subseteq 1 .. k
    BY <1>2 DEF Places
  <2>2. IsFiniteSet(1 .. k)
    BY <1>2, FS_Interval
  <2>3. IsFiniteSet(Places(o, rule))
    BY <2>1, <2>2, FS_Subset
  <2> QED BY <2>3, FS_CardinalityType
<1>7. CASE rule \notin Named(q)
  <2>1. Places(j, rule) = Places(o, rule)
    <3>1. Places(o, rule) \subseteq Places(j, rule)
      BY <1>2, <1>3, <1>5 DEF Places
    <3>2. ASSUME NEW m \in Places(j, rule) PROVE m \in Places(o, rule)
      <4>1. m \in 1 .. k + l /\ j[m].rule = rule
        BY <1>2 DEF Places
      <4>2. \A n \in 1 .. l : q[n].rule # rule
        BY <1>2, <1>7 DEF Named
      <4>3. m \in 1 .. k
        BY <1>3, <1>4, <4>1, <4>2
      <4> QED BY <1>2, <1>3, <4>1, <4>3 DEF Places
    <3> QED BY <3>1, <3>2
  <2> QED BY <1>1, <1>6, <1>7, <2>1
<1>8. CASE rule \in Named(q)
  <2>1. PICK n \in 1 .. l : q[n].rule = rule /\ \A m \in 1 .. l : q[m].rule = rule => m = n
    BY <1>2, <1>8 DEF Named, NamesOnce
  <2>2. Places(j, rule) = Places(o, rule) \cup {k + n}
    <3>1. Places(o, rule) \subseteq Places(j, rule)
      BY <1>2, <1>3, <1>5 DEF Places
    <3>2. k + n \in Places(j, rule)
      BY <1>2, <1>3, <1>5, <2>1 DEF Places
    <3>3. ASSUME NEW m \in Places(j, rule) PROVE m \in Places(o, rule) \cup {k + n}
      <4>1. m \in 1 .. k + l /\ j[m].rule = rule
        BY <1>2 DEF Places
      <4>2. CASE m \in 1 .. k
        BY <1>2, <1>3, <4>1, <4>2 DEF Places
      <4>3. CASE m - k \in 1 .. l /\ m = k + (m - k)
        <5>1. PICK i \in 1 .. l : m = k + i
          BY <4>3
        <5> QED BY <1>3, <2>1, <4>1, <5>1
      <4> QED BY <1>4, <4>1, <4>2, <4>3
    <3> QED BY <3>1, <3>2, <3>3
  <2>3. k + n \notin Places(o, rule)
    BY <1>2, <1>5 DEF Places
  <2> QED BY <1>1, <1>6, <1>8, <2>2, <2>3, FS_AddElement
<1> QED BY <1>6, <1>7, <1>8

LEMMA OutcomesOfRules ==
  ASSUME NEW rules \in Seq(Rules), NEW status \in Measured \cup {"dormant"}
  PROVE  /\ OutcomesOf(rules, status) \in Seq(RuleOutcomes)
         /\ Len(OutcomesOf(rules, status)) = Len(rules)
         /\ \A n \in DOMAIN rules : OutcomesOf(rules, status)[n].rule = rules[n]
         /\ DOMAIN OutcomesOf(rules, status) = DOMAIN rules
         /\ Named(OutcomesOf(rules, status)) = ToSet(rules)
         /\ Distinct(rules) => NamesOnce(OutcomesOf(rules, status))
<1>1. PICK o, k : o = OutcomesOf(rules, status) /\ k = Len(rules)
  OBVIOUS
<1>2. k \in Nat /\ DOMAIN rules = 1 .. k /\ \A n \in 1 .. k : rules[n] \in Rules
  BY <1>1
<1>3. DOMAIN o = 1 .. k /\ \A n \in 1 .. k : o[n].rule = rules[n] /\ o[n] \in RuleOutcomes
  BY <1>1, <1>2 DEF OutcomesOf, Outcome, RuleOutcomes
<1>4. o \in Seq(RuleOutcomes) /\ Len(o) = k
  <2>1. o = [n \in 1 .. k |-> Outcome(rules[n], status)]
    BY <1>1, <1>2 DEF OutcomesOf
  <2> QED BY <1>2, <1>3, <2>1
<1>5. Named(o) = ToSet(rules)
  BY <1>2, <1>3 DEF Named, ToSet
<1>6. Distinct(rules) => NamesOnce(o)
  BY <1>2, <1>3 DEF Distinct, NamesOnce
<1> QED BY <1>1, <1>2, <1>3, <1>4, <1>5, <1>6

-----------------------------------------------------------------------------
(* The run of the scan.                                                    *)

Steps == {"gate", "compile", "next", "batch", "each", "collect", "mark", "report", "send", "end", "aborted"}
Working == {"batch", "each", "collect", "mark"}
Scanning == {"compile", "next"} \cup Working
Runs ==
  [step : Steps, batchable : SUBSET Rules, runs : SUBSET Rules, todo : Seq(Seq(Rules)), item : Seq(Rules),
   results : Seq(RuleOutcomes), outcomes : Seq(RuleOutcomes), processed : SUBSET Rules,
   interrupted : BOOLEAN, sent : Seq(STRING), pruned : BOOLEAN]

\* The rules not processed yet are those in hand and those that wait.
QueueOK(a) ==
  /\ a.processed \subseteq a.runs
  /\ a.step \in {"gate", "compile"} => a.processed = {}
  /\ a.step = "gate" => a.outcomes = <<>>
  /\ WellCut(a.todo)
  /\ a.step = "next" => a.runs \ a.processed = Parts(a.todo)
  /\ a.step \in Working => /\ a.runs \ a.processed = ToSet(a.item) \cup Parts(a.todo)
                           /\ ToSet(a.item) \cap Parts(a.todo) = {} /\ Distinct(a.item)
  /\ Len(a.results) <= Len(a.item) /\ \A n \in DOMAIN a.results : a.results[n].rule = a.item[n]
  /\ a.step \in {"batch", "each"} => Len(a.results) < Len(a.item)
  /\ a.step = "collect" => Len(a.results) = Len(a.item)

\* The rules with an outcome.
Counted(a) == (Rules \ a.runs) \cup a.processed \cup (IF a.step = "mark" THEN ToSet(a.item) ELSE {})
TimesIn(a, rule) == Cardinality(Places(a.outcomes, rule))
CountOK(a) ==
  /\ a.step \in Scanning => \A rule \in Rules : TimesIn(a, rule) = IF rule \in Counted(a) THEN 1 ELSE 0
  /\ a.step \in {"report", "send", "end"} =>
       \A rule \in Rules :
         \/ TimesIn(a, rule) = 1
         \/ a.interrupted /\ TimesIn(a, rule) = 2 /\ rule \in ToSet(a.item) \ a.processed

RunOK(a) == a \in Runs /\ QueueOK(a) /\ CountOK(a)

LEMMA RulesInOrder ==
  ASSUME RuleScanAssumption, NEW S \in SUBSET Rules
  PROVE  InOrder(S) \in Seq(S) /\ InOrder(S) \in Seq(Rules) /\ Distinct(InOrder(S)) /\ ToSet(InOrder(S)) = S
<1>1. NRules \in Nat
  BY DEF RuleScanAssumption
<1>2. IsFiniteSet(Rules) /\ Rules \subseteq Int
  BY <1>1, FS_Interval DEF Rules
<1>3. IsFiniteSet(S) /\ S \subseteq Int
  BY <1>2, FS_Subset
<1>4. InOrder(S) \in Seq(S) /\ Distinct(InOrder(S)) /\ ToSet(InOrder(S)) = S
  BY <1>3, InOrderLists
<1> QED BY <1>4, SeqMonotonic

\* The outcomes of a set of rules are appended to those there are.
Adds(o, p, S) ==
  /\ p \in Seq(RuleOutcomes)
  /\ \A rule \in Rules : Cardinality(Places(p, rule)) =
                           Cardinality(Places(o, rule)) + IF rule \in S THEN 1 ELSE 0

LEMMA Reports ==
  ASSUME RuleScanAssumption, NEW o, o \in Seq(RuleOutcomes), NEW S, S \subseteq Rules,
         NEW status, status \in Measured \cup {"dormant"}
  PROVE  Adds(o, o \o OutcomesOf(InOrder(S), status), S)
<1>1. PICK q : q = OutcomesOf(InOrder(S), status)
  OBVIOUS
<1>2. q \in Seq(RuleOutcomes) /\ NamesOnce(q) /\ Named(q) = S
  BY <1>1, RulesInOrder, OutcomesOfRules
<1>3. PICK p : p = o \o q
  OBVIOUS
<1>4. p \in Seq(RuleOutcomes)
  BY <1>2, <1>3, ConcatProperties
<1>5. \A rule \in Rules : Cardinality(Places(p, rule)) =
                            Cardinality(Places(o, rule)) + IF rule \in S THEN 1 ELSE 0
  BY <1>2, <1>3, OutcomesAppend
<1>6. Adds(o, p, S)
  BY <1>4, <1>5 DEF Adds
<1> QED BY <1>1, <1>3, <1>6

LEMMA NoPlaces == \A rule : Cardinality(Places(<<>>, rule)) = 0
<1>1. \A rule : Places(<<>>, rule) = {}
  BY DEF Places
<1> QED BY <1>1, FS_EmptySet

LEMMA RunStarts == ASSUME RuleScanInit PROVE RunOK(audit)
<1>1. PICK batchable \in SUBSET Rules :
        audit = [step |-> "gate", batchable |-> batchable, runs |-> {}, todo |-> <<>>, item |-> <<>>,
                 results |-> <<>>, outcomes |-> <<>>, processed |-> {}, interrupted |-> FALSE,
                 sent |-> <<>>, pruned |-> FALSE]
  BY DEF RuleScanInit
<1>2. audit \in Runs
  BY <1>1 DEF Runs, Steps
<1>3. QueueOK(audit)
  BY <1>1 DEF QueueOK, WellCut, Working
<1>4. CountOK(audit)
  BY <1>1 DEF CountOK, Scanning, Working
<1> QED BY <1>2, <1>3, <1>4 DEF RunOK

LEMMA GateKeeps ==
  ASSUME RuleScanAssumption, RunOK(audit), GateRules
  PROVE  RunOK(audit')
<1>1. audit \in Runs /\ audit.step = "gate" /\ audit.outcomes = <<>> /\ audit.processed = {} /\ QueueOK(audit)
  BY DEF RunOK, QueueOK, GateRules
<1>2. PICK dormant \in SUBSET Rules :
        audit' = [audit EXCEPT !.step = "compile", !.runs = Rules \ dormant,
                               !.outcomes = OutcomesOf(InOrder(dormant), "dormant")]
  BY DEF GateRules
<1>3. PICK o : o = OutcomesOf(InOrder(dormant), "dormant")
  OBVIOUS
<1>4. o \in Seq(RuleOutcomes)
  BY <1>3, RulesInOrder, OutcomesOfRules
<1>5. o = <<>> \o o /\ <<>> \in Seq(RuleOutcomes)
  BY <1>4
<1>6. \A rule \in Rules : Cardinality(Places(o, rule)) = IF rule \in dormant THEN 1 ELSE 0
  <2>1. o = <<>> \o OutcomesOf(InOrder(dormant), "dormant") /\ "dormant" \in Measured \cup {"dormant"}
    BY <1>3, <1>5
  <2>2. Adds(<<>>, <<>> \o OutcomesOf(InOrder(dormant), "dormant"), dormant)
    BY <1>5, <2>1, Reports
  <2>3. Adds(<<>>, o, dormant)
    BY <2>1, <2>2
  <2> QED BY <2>3, NoPlaces DEF Adds
<1>7. /\ audit' \in Runs /\ audit'.step = "compile" /\ audit'.runs = Rules \ dormant /\ audit'.outcomes = o
      /\ audit'.processed = {} /\ audit'.todo = audit.todo /\ audit'.results = audit.results
      /\ audit'.item = audit.item
  BY <1>1, <1>2, <1>3, <1>4 DEF Runs, Steps
<1>8. QueueOK(audit')
  BY <1>1, <1>7 DEF QueueOK, Working
<1>9. CountOK(audit')
  BY <1>6, <1>7 DEF CountOK, Counted, TimesIn
<1> QED BY <1>7, <1>8, <1>9 DEF RunOK

LEMMA CompileKeeps ==
  ASSUME RuleScanAssumption, RunOK(audit), CompileRules
  PROVE  RunOK(audit')
<1>1. audit \in Runs /\ audit.step = "compile" /\ audit.processed = {} /\ QueueOK(audit) /\ CountOK(audit)
  BY DEF RunOK, QueueOK, CompileRules
<1>2. PICK broken \in SUBSET audit.runs :
        LET runs == audit.runs \ broken
            own == InOrder(runs \ audit.batchable)
        IN audit' = [audit EXCEPT
             !.step = "next", !.runs = runs,
             !.outcomes = @ \o OutcomesOf(InOrder(broken), "error"),
             !.todo = Chunks(InOrder(runs \cap audit.batchable)) \o [n \in DOMAIN own |-> <<own[n]>>]]
  BY DEF CompileRules
<1>3. PICK runs, own, shared, o, t :
        /\ runs = audit.runs \ broken
        /\ own = InOrder(runs \ audit.batchable) /\ shared = InOrder(runs \cap audit.batchable)
        /\ o = audit.outcomes \o OutcomesOf(InOrder(broken), "error")
        /\ t = Chunks(shared) \o [n \in DOMAIN own |-> <<own[n]>>]
  OBVIOUS
<1>4. audit' = [audit EXCEPT !.step = "next", !.runs = runs, !.outcomes = o, !.todo = t]
  BY <1>2, <1>3
<1>5. runs \subseteq Rules /\ broken \subseteq Rules /\ broken \subseteq audit.runs /\ audit.runs \subseteq Rules
      /\ audit.outcomes \in Seq(RuleOutcomes)
  BY <1>1, <1>3 DEF Runs
<1>6. t \in Seq(Seq(Rules)) /\ WellCut(t) /\ Parts(t) = runs
  <2>1. own \in Seq(Rules) /\ Distinct(own) /\ ToSet(own) = runs \ audit.batchable
    BY <1>3, <1>5, RulesInOrder
  <2>2. shared \in Seq(Rules) /\ Distinct(shared) /\ ToSet(shared) = runs \cap audit.batchable
    BY <1>3, <1>5, RulesInOrder
  <2>3. PICK c, e : c = Chunks(shared) /\ e = [n \in DOMAIN own |-> <<own[n]>>]
    OBVIOUS
  <2>4. c \in Seq(Seq(Rules)) /\ WellCut(c) /\ Parts(c) = runs \cap audit.batchable
    BY <2>2, <2>3, ChunksPartition DEF WellCut, Parts
  <2>5. e \in Seq(Seq(Rules)) /\ WellCut(e) /\ Parts(e) = runs \ audit.batchable
    BY <2>1, <2>3, OneByOne
  <2>6. t = c \o e
    BY <1>3, <2>3
  <2>7. Parts(c) \cap Parts(e) = {} /\ Parts(c) \cup Parts(e) = runs
    BY <2>4, <2>5
  <2> QED BY <2>4, <2>5, <2>6, <2>7, CutsJoin
<1>7. /\ o \in Seq(RuleOutcomes)
      /\ \A rule \in Rules : Cardinality(Places(o, rule)) =
                               Cardinality(Places(audit.outcomes, rule)) + IF rule \in broken THEN 1 ELSE 0
  <2>1. o = audit.outcomes \o OutcomesOf(InOrder(broken), "error") /\ "error" \in Measured \cup {"dormant"}
        /\ broken \in SUBSET Rules
    BY <1>3, <1>5 DEF Measured
  <2>2. Adds(audit.outcomes, audit.outcomes \o OutcomesOf(InOrder(broken), "error"), broken)
    BY <1>5, <2>1, Reports
  <2>3. Adds(audit.outcomes, o, broken)
    BY <2>1, <2>2
  <2> QED BY <2>3 DEF Adds
<1>8. /\ audit' \in Runs /\ audit'.step = "next" /\ audit'.runs = runs /\ audit'.outcomes = o /\ audit'.todo = t
      /\ audit'.processed = {} /\ audit'.results = audit.results /\ audit'.item = audit.item
  BY <1>1, <1>4, <1>5, <1>6, <1>7 DEF Runs, Steps
<1>9. QueueOK(audit')
  BY <1>1, <1>6, <1>8 DEF QueueOK, Working
<1>10. \A rule \in Rules : TimesIn(audit, rule) = IF rule \in Rules \ audit.runs THEN 1 ELSE 0
  BY <1>1 DEF CountOK, Scanning, Counted
<1>11. CountOK(audit')
  BY <1>3, <1>5, <1>7, <1>8, <1>10 DEF CountOK, Counted, TimesIn
<1> QED BY <1>8, <1>9, <1>11 DEF RunOK

LEMMA TakeKeeps ==
  ASSUME RuleScanAssumption, RunOK(audit), TakeItem
  PROVE  RunOK(audit')
<1>1. audit \in Runs /\ audit.step = "next" /\ audit.todo # <<>> /\ QueueOK(audit) /\ CountOK(audit)
  BY DEF RunOK, TakeItem
<1>2. PICK h, t, e : h = Head(audit.todo) /\ t = Tail(audit.todo) /\ e = <<>>
  OBVIOUS
<1>3. PICK step \in {"batch", "each"} :
        audit' = [audit EXCEPT !.item = h, !.todo = t, !.results = e, !.step = step]
  BY <1>2 DEF TakeItem
<1>4. /\ h \in Seq(Rules) /\ h # <<>> /\ Distinct(h) /\ t \in Seq(Seq(Rules)) /\ WellCut(t)
      /\ Parts(audit.todo) = ToSet(h) \cup Parts(t) /\ ToSet(h) \cap Parts(t) = {}
  <2>1. audit.todo \in Seq(Seq(Rules)) /\ WellCut(audit.todo)
    BY <1>1 DEF Runs, QueueOK
  <2> QED BY <1>1, <1>2, <2>1, FirstTaken
<1>5. /\ audit' \in Runs /\ audit'.step = step /\ audit'.runs = audit.runs /\ audit'.outcomes = audit.outcomes
      /\ audit'.todo = t /\ audit'.processed = audit.processed /\ audit'.results = e /\ audit'.item = h
  <2>1. e \in Seq(RuleOutcomes) /\ step \in Steps
    BY <1>2, <1>3 DEF Steps
  <2>2. h \in Seq(Rules) /\ t \in Seq(Seq(Rules))
    BY <1>4
  <2> QED BY <1>1, <1>3, <2>1, <2>2 DEF Runs
<1>6. Len(h) \in Nat /\ Len(h) # 0
  BY <1>4
<1>7. audit.processed \subseteq audit.runs /\ audit.runs \ audit.processed = Parts(audit.todo)
  BY <1>1 DEF QueueOK
<1>8. QueueOK(audit')
  BY <1>2, <1>4, <1>5, <1>6, <1>7 DEF QueueOK, Working
<1>9. CountOK(audit')
  BY <1>1, <1>5 DEF CountOK, Counted, TimesIn, Scanning, Working
<1> QED BY <1>5, <1>8, <1>9 DEF RunOK

LEMMA ProcessKeeps ==
  ASSUME RuleScanAssumption, RunOK(audit), ProcessBatch \/ ProcessRule
  PROVE  RunOK(audit')
<1>1. audit \in Runs /\ audit.step \in {"batch", "each"} /\ QueueOK(audit) /\ CountOK(audit)
  BY DEF RunOK, ProcessBatch, ProcessRule
<1>2. /\ audit.item \in Seq(Rules) /\ audit.results \in Seq(RuleOutcomes)
      /\ Len(audit.results) < Len(audit.item)
      /\ \A n \in DOMAIN audit.results : audit.results[n].rule = audit.item[n]
  BY <1>1 DEF Runs, QueueOK
<1>3. PICK step \in {"each", "collect"}, results \in Seq(RuleOutcomes) :
        /\ audit' = [audit EXCEPT !.step = step, !.results = results]
        /\ Len(results) <= Len(audit.item)
        /\ \A n \in DOMAIN results : results[n].rule = audit.item[n]
        /\ step = "each" => Len(results) < Len(audit.item)
        /\ step = "collect" => Len(results) = Len(audit.item)
  <2>1. CASE audit' = [audit EXCEPT !.step = "each"]
    <3>1. audit' = [audit EXCEPT !.step = "each", !.results = audit.results]
      BY <1>1, <2>1 DEF Runs
    <3>2. Len(audit.results) <= Len(audit.item)
      BY <1>2
    <3> QED BY <1>2, <3>1, <3>2
  <2>2. CASE audit' = [audit EXCEPT !.step = "collect", !.results = OutcomesOf(audit.item, "error")]
    <3>1. PICK results : results = OutcomesOf(audit.item, "error")
      OBVIOUS
    <3>2. "error" \in Measured \cup {"dormant"}
      BY DEF Measured
    <3>3. /\ results \in Seq(RuleOutcomes) /\ Len(results) = Len(audit.item)
          /\ DOMAIN results = DOMAIN audit.item
          /\ \A n \in DOMAIN audit.item : results[n].rule = audit.item[n]
      BY <1>2, <3>1, <3>2, OutcomesOfRules
    <3>4. audit' = [audit EXCEPT !.step = "collect", !.results = results]
      BY <2>2, <3>1
    <3>5. Len(results) <= Len(audit.item)
      BY <1>2, <3>3
    <3> QED BY <3>3, <3>4, <3>5
  <2>3. CASE ProcessRule
    <3>1. PICK status, results :
            /\ status \in Measured
            /\ results = Append(audit.results, Outcome(audit.item[Len(audit.results) + 1], status))
            /\ audit' = [audit EXCEPT !.results = results,
                                      !.step = IF Len(results) = Len(audit.item) THEN "collect" ELSE "each"]
      BY <2>3 DEF ProcessRule
    <3>2. PICK k, e : /\ k = Len(audit.results) /\ e = Outcome(audit.item[k + 1], status)
                      /\ results = Append(audit.results, e)
      BY <3>1
    <3>3. k \in Nat /\ k + 1 \in 1 .. Len(audit.item) /\ DOMAIN audit.results = 1 .. k
      BY <1>2, <3>2
    <3>4. audit.item[k + 1] \in Rules /\ status \in Measured \cup {"dormant"}
      BY <1>2, <3>1, <3>3
    <3>5. e \in RuleOutcomes /\ e.rule = audit.item[k + 1]
      BY <3>2, <3>4 DEF Outcome, RuleOutcomes
    <3>7. /\ results \in Seq(RuleOutcomes) /\ Len(results) = k + 1 /\ DOMAIN results = 1 .. k + 1
          /\ \A n \in 1 .. k : results[n] = audit.results[n] 
          /\ results[k + 1] = e
      BY <1>2, <3>2, <3>3, <3>5
    <3>8. \A n \in DOMAIN results : results[n].rule = audit.item[n]
      <4>1. \A n \in 1 .. k + 1 : n \in 1 .. k \/ n = k + 1
        BY <3>3
      <4> QED BY <1>2, <3>3, <3>5, <3>7, <4>1
    <3>9. Len(audit.item) \in Nat /\ Len(results) \in Nat /\ Len(results) <= Len(audit.item)
      BY <1>2, <3>3, <3>7
    <3>10. PICK next \in {"each", "collect"} :
             /\ next = IF Len(results) = Len(audit.item) THEN "collect" ELSE "each"
             /\ audit' = [audit EXCEPT !.step = next, !.results = results]
      BY <1>1, <3>1 DEF Runs
    <3>11. next = "each" => Len(results) < Len(audit.item)
      BY <3>9, <3>10
    <3>12. next = "collect" => Len(results) = Len(audit.item)
      BY <3>10
    <3> QED BY <3>7, <3>8, <3>9, <3>10, <3>11, <3>12
  <2> QED BY <2>1, <2>2, <2>3 DEF ProcessBatch
<1>4. /\ audit' \in Runs /\ audit'.step = step /\ audit'.runs = audit.runs /\ audit'.outcomes = audit.outcomes
      /\ audit'.todo = audit.todo /\ audit'.processed = audit.processed /\ audit'.results = results
      /\ audit'.item = audit.item
  BY <1>1, <1>3 DEF Runs, Steps
<1>5. /\ audit.processed \subseteq audit.runs /\ WellCut(audit.todo)
      /\ audit.runs \ audit.processed = ToSet(audit.item) \cup Parts(audit.todo)
      /\ ToSet(audit.item) \cap Parts(audit.todo) = {} /\ Distinct(audit.item)
  BY <1>1 DEF QueueOK, Working
<1>6. QueueOK(audit')
  BY <1>3, <1>4, <1>5 DEF QueueOK
<1>7. CountOK(audit')
  BY <1>1, <1>4 DEF CountOK, Counted, TimesIn, Scanning, Working
<1> QED BY <1>4, <1>6, <1>7 DEF RunOK

LEMMA CollectKeeps ==
  ASSUME RuleScanAssumption, RunOK(audit), Collect
  PROVE  RunOK(audit')
<1>1. audit \in Runs /\ audit.step = "collect" /\ QueueOK(audit) /\ CountOK(audit)
  BY DEF RunOK, Collect
<1>2. PICK item, results, o :
        item = audit.item /\ results = audit.results /\ o = audit.outcomes \o audit.results
  OBVIOUS
<1>3. audit' = [audit EXCEPT !.step = "mark", !.outcomes = o]
  BY <1>2 DEF Collect
<1>4. /\ item \in Seq(Rules) /\ results \in Seq(RuleOutcomes) /\ audit.outcomes \in Seq(RuleOutcomes)
      /\ Len(results) = Len(item) /\ Distinct(item) /\ \A n \in DOMAIN results : results[n].rule = item[n]
      /\ audit.processed \subseteq audit.runs /\ audit.runs \subseteq Rules /\ WellCut(audit.todo)
      /\ audit.runs \ audit.processed = ToSet(item) \cup Parts(audit.todo)
      /\ ToSet(item) \cap Parts(audit.todo) = {}
  BY <1>1, <1>2 DEF Runs, QueueOK, Working
<1>5. DOMAIN results = DOMAIN item
  BY <1>4
<1>6. NamesOnce(results) /\ Named(results) = ToSet(item)
  BY <1>4, <1>5 DEF NamesOnce, Named, Distinct, ToSet
<1>7. o \in Seq(RuleOutcomes)
  BY <1>2, <1>4, ConcatProperties
<1>8. \A rule \in Rules : Cardinality(Places(o, rule)) =
                            Cardinality(Places(audit.outcomes, rule)) + IF rule \in ToSet(item) THEN 1 ELSE 0
  BY <1>2, <1>4, <1>6, OutcomesAppend
<1>9. /\ audit' \in Runs /\ audit'.step = "mark" /\ audit'.runs = audit.runs /\ audit'.outcomes = o
      /\ audit'.todo = audit.todo /\ audit'.processed = audit.processed /\ audit'.results = results
      /\ audit'.item = item
  BY <1>1, <1>2, <1>3, <1>7 DEF Runs, Steps
<1>10. Len(item) \in Nat
  BY <1>4
<1>11. QueueOK(audit')
  BY <1>4, <1>9, <1>10 DEF QueueOK
<1>12. \A rule \in Rules : TimesIn(audit, rule) = IF rule \in (Rules \ audit.runs) \cup audit.processed THEN 1 ELSE 0
  BY <1>1 DEF CountOK, Scanning, Working, Counted
<1>13. CountOK(audit')
  <2>1. \A rule \in ToSet(item) : rule \notin (Rules \ audit.runs) \cup audit.processed
    BY <1>4
  <2> QED BY <1>8, <1>9, <1>12, <2>1 DEF CountOK, Counted, TimesIn
<1> QED BY <1>9, <1>11, <1>13 DEF RunOK

LEMMA MarkKeeps ==
  ASSUME RuleScanAssumption, RunOK(audit), MarkProcessed
  PROVE  RunOK(audit')
<1>1. audit \in Runs /\ audit.step = "mark" /\ QueueOK(audit) /\ CountOK(audit)
  BY DEF RunOK, MarkProcessed
<1>2. PICK P : P = audit.processed \cup ToSet(audit.item)
  OBVIOUS
<1>3. audit' = [audit EXCEPT !.step = "next", !.processed = P]
  BY <1>2 DEF MarkProcessed
<1>4. /\ audit.processed \subseteq audit.runs /\ audit.runs \subseteq Rules
      /\ audit.runs \ audit.processed = ToSet(audit.item) \cup Parts(audit.todo)
      /\ ToSet(audit.item) \cap Parts(audit.todo) = {}
  BY <1>1 DEF Runs, QueueOK, Working
<1>5. P \subseteq audit.runs /\ P \subseteq Rules /\ audit.runs \ P = Parts(audit.todo)
  BY <1>2, <1>4
<1>6. /\ audit' \in Runs /\ audit'.step = "next" /\ audit'.runs = audit.runs /\ audit'.outcomes = audit.outcomes
      /\ audit'.todo = audit.todo /\ audit'.processed = P /\ audit'.results = audit.results
      /\ audit'.item = audit.item
  BY <1>1, <1>3, <1>5 DEF Runs, Steps
<1>7. QueueOK(audit')
  BY <1>1, <1>5, <1>6 DEF QueueOK, Working
<1>8. CountOK(audit')
  <2>1. Counted(audit') = Counted(audit)
    BY <1>1, <1>2, <1>6 DEF Counted
  <2> QED BY <1>1, <1>6, <2>1 DEF CountOK, TimesIn, Scanning, Working
<1> QED BY <1>6, <1>7, <1>8 DEF RunOK

LEMMA InterruptKeeps ==
  ASSUME RuleScanAssumption, RunOK(audit), Interrupt
  PROVE  RunOK(audit')
<1>1. audit \in Runs /\ audit.step \in {"next"} \cup Working /\ QueueOK(audit) /\ CountOK(audit)
  BY DEF RunOK, Interrupt, Working
<1>2. PICK o, S : S = audit.runs \ audit.processed /\ o = audit.outcomes \o OutcomesOf(InOrder(S), "dormant")
  OBVIOUS
<1>3. audit' = [audit EXCEPT !.step = "report", !.interrupted = TRUE, !.outcomes = o]
  BY <1>2 DEF Interrupt
<1>4. /\ S \in SUBSET Rules /\ audit.outcomes \in Seq(RuleOutcomes) /\ audit.processed \subseteq audit.runs
      /\ audit.runs \subseteq Rules
  BY <1>1, <1>2 DEF Runs, QueueOK
<1>5. /\ o \in Seq(RuleOutcomes)
      /\ \A rule \in Rules : Cardinality(Places(o, rule)) =
                               Cardinality(Places(audit.outcomes, rule)) + IF rule \in S THEN 1 ELSE 0
  <2>1. "dormant" \in Measured \cup {"dormant"}
    OBVIOUS
  <2>2. Adds(audit.outcomes, audit.outcomes \o OutcomesOf(InOrder(S), "dormant"), S)
    BY <1>4, <2>1, Reports
  <2>3. Adds(audit.outcomes, o, S)
    BY <1>2, <2>2
  <2> QED BY <2>3 DEF Adds
<1>6. /\ audit' \in Runs /\ audit'.step = "report" /\ audit'.runs = audit.runs /\ audit'.outcomes = o
      /\ audit'.todo = audit.todo /\ audit'.processed = audit.processed /\ audit'.results = audit.results
      /\ audit'.item = audit.item /\ audit'.interrupted = TRUE
  BY <1>1, <1>3, <1>5 DEF Runs, Steps
<1>7. QueueOK(audit')
  BY <1>1, <1>6 DEF QueueOK, Working
<1>8. \A rule \in Rules : TimesIn(audit, rule) = IF rule \in Counted(audit) THEN 1 ELSE 0
  BY <1>1 DEF CountOK, Scanning
<1>9. ASSUME NEW rule \in Rules
      PROVE  \/ TimesIn(audit', rule) = 1
             \/ TimesIn(audit', rule) = 2 /\ rule \in ToSet(audit.item) \ audit.processed
  <2>1. CASE rule \notin S
    <3>1. rule \in Counted(audit)
      BY <1>2, <2>1 DEF Counted
    <3> QED BY <1>5, <1>6, <1>8, <2>1, <3>1 DEF TimesIn
  <2>2. CASE rule \in S /\ rule \notin Counted(audit)
    BY <1>5, <1>6, <1>8, <2>2 DEF TimesIn
  <2>3. CASE rule \in S /\ rule \in Counted(audit)
    <3>1. rule \in ToSet(audit.item) \ audit.processed
      BY <1>2, <1>4, <2>3 DEF Counted
    <3>2. TimesIn(audit', rule) = 2
      BY <1>5, <1>6, <1>8, <2>3 DEF TimesIn
    <3> QED BY <3>1, <3>2
  <2> QED BY <2>1, <2>2, <2>3
<1>10. CountOK(audit')
  BY <1>6, <1>9 DEF CountOK, Scanning, Working
<1> QED BY <1>6, <1>7, <1>10 DEF RunOK

LEMMA EndKeeps ==
  ASSUME RuleScanAssumption, RunOK(audit),
         AllProcessed \/ WriteReport \/ Send \/ PruneOldReports \/ Aborts
  PROVE  RunOK(audit')
<1>1. audit \in Runs /\ QueueOK(audit) /\ CountOK(audit)
  BY DEF RunOK
<1>2. PICK step \in {"report", "send", "end", "aborted"}, sent \in Seq(STRING), pruned \in BOOLEAN :
        /\ audit' = [audit EXCEPT !.step = step, !.sent = sent, !.pruned = pruned]
        /\ \/ step = "aborted"
           \/ step = "report" /\ audit.step = "next" /\ audit.todo = <<>>
           \/ audit.step \in {"report", "send"}
  <2>1. audit.sent \in Seq(STRING) /\ audit.pruned \in BOOLEAN
    BY <1>1 DEF Runs
  <2>2. CASE AllProcessed
    <3>1. audit' = [audit EXCEPT !.step = "report", !.sent = audit.sent, !.pruned = audit.pruned]
      BY <1>1, <2>2 DEF AllProcessed, Runs
    <3> QED BY <2>1, <2>2, <3>1 DEF AllProcessed
  <2>3. CASE WriteReport
    <3>1. audit' = [audit EXCEPT !.step = "send", !.sent = audit.sent, !.pruned = audit.pruned]
      BY <1>1, <2>3 DEF WriteReport, Runs
    <3> QED BY <2>1, <2>3, <3>1 DEF WriteReport
  <2>4. CASE Send
    <3>1. PICK sent : sent = Append(audit.sent, Channels[Len(audit.sent) + 1])
      OBVIOUS
    <3>2. Len(audit.sent) + 1 \in 1 .. Len(Channels) /\ Channels \in Seq(STRING)
      BY <2>1, <2>4 DEF Send, RuleScanAssumption
    <3>3. sent \in Seq(STRING)
      BY <2>1, <3>1, <3>2
    <3>4. audit' = [audit EXCEPT !.sent = sent]
      BY <2>4, <3>1 DEF Send
    <3>5. audit' = [audit EXCEPT !.step = "send", !.sent = sent, !.pruned = audit.pruned]
      BY <1>1, <2>4, <3>4 DEF Send, Runs
    <3> QED BY <2>1, <2>4, <3>3, <3>5 DEF Send
  <2>5. CASE PruneOldReports
    <3>1. audit' = [audit EXCEPT !.step = "end", !.sent = audit.sent, !.pruned = TRUE]
      BY <1>1, <2>5 DEF PruneOldReports, Runs
    <3> QED BY <2>1, <2>5, <3>1 DEF PruneOldReports
  <2>6. CASE Aborts
    <3>1. audit' = [audit EXCEPT !.step = "aborted", !.sent = audit.sent, !.pruned = audit.pruned]
      BY <1>1, <2>6 DEF Aborts, Runs
    <3> QED BY <2>1, <3>1
  <2> QED BY <2>2, <2>3, <2>4, <2>5, <2>6
<1>3. /\ audit' \in Runs /\ audit'.step = step /\ audit'.runs = audit.runs /\ audit'.outcomes = audit.outcomes
      /\ audit'.todo = audit.todo /\ audit'.processed = audit.processed /\ audit'.results = audit.results
      /\ audit'.item = audit.item /\ audit'.interrupted = audit.interrupted
  BY <1>1, <1>2 DEF Runs, Steps
<1>4. QueueOK(audit')
  BY <1>1, <1>3 DEF QueueOK, Working
<1>5. CASE step = "aborted"
  BY <1>3, <1>4, <1>5 DEF RunOK, CountOK, Scanning, Working
<1>6. CASE step = "report" /\ audit.step = "next" /\ audit.todo = <<>>
  <2>1. Parts(audit.todo) = {}
    BY <1>6 DEF Parts
  <2>2. audit.processed = audit.runs
    BY <1>1, <1>6, <2>1 DEF QueueOK
  <2>3. \A rule \in Rules : TimesIn(audit, rule) = 1
    BY <1>1, <1>6, <2>2 DEF CountOK, Scanning, Counted
  <2>4. CountOK(audit')
    BY <1>3, <1>6, <2>3 DEF CountOK, TimesIn, Scanning, Working
  <2> QED BY <1>3, <1>4, <2>4 DEF RunOK
<1>7. CASE audit.step \in {"report", "send"}
  <2>1. CountOK(audit')
    BY <1>1, <1>3, <1>7 DEF CountOK, TimesIn, Scanning, Working
  <2> QED BY <1>3, <1>4, <2>1 DEF RunOK
<1> QED BY <1>2, <1>5, <1>6, <1>7

LEMMA RunKeeps ==
  ASSUME RuleScanAssumption, RunOK(audit), RuleScanNext
  PROVE  RunOK(audit')
BY GateKeeps, CompileKeeps, TakeKeeps, ProcessKeeps, CollectKeeps, MarkKeeps, InterruptKeeps, EndKeeps
   DEF RuleScanNext

LEMMA RunSays ==
  ASSUME RunOK(audit)
  PROVE  RuleScanTypeOK /\ EveryRuleIsReported
<1>1. RuleScanTypeOK
  BY DEF RunOK, Runs, Steps, QueueOK, RuleOutcomes, RuleScanTypeOK
<1>2. \A rule : Times(rule) = TimesIn(audit, rule)
  BY DEF Times, TimesIn, Places
<1>3. EveryRuleIsReported
  BY <1>2 DEF RunOK, CountOK, EveryRuleIsReported
<1> QED BY <1>1, <1>3


-----------------------------------------------------------------------------
(* One look-up in the engines.                                             *)

LEMMA LeastNat ==
  ASSUME NEW S \in SUBSET Nat, S # {}
  PROVE  \E x \in S : \A y \in S : x <= y
<1>1. IsWellFoundedOn(OpToRel(<, Nat), Nat)
  BY NatLessThanWellFounded
<1>2. PICK x \in S : \A y \in S : ~(<<y, x>> \in OpToRel(<, Nat))
  BY <1>1, WFMin
<1>3. \A y \in S : ~(y < x)
  BY <1>2 DEF OpToRel
<1> QED BY <1>3

LEMMA MinIsLeast ==
  ASSUME NEW S \in SUBSET Nat, S # {}
  PROVE  Min(S) \in S /\ \A y \in S : Min(S) <= y
<1>1. \E x \in S : \A y \in S : x <= y
  BY LeastNat
<1> QED BY <1>1 DEF Min

LEMMA MaxIsOne ==
  ASSUME NEW L \in Nat, NEW S \in SUBSET (1 .. L), S # {}
  PROVE  Max(S) \in S
<1>1. PICK T : T = {n \in Nat : L - n \in S}
  OBVIOUS
<1>2. T \in SUBSET Nat /\ T # {}
  <2>1. PICK x \in S : TRUE
    OBVIOUS
  <2>2. x \in Int /\ L - x \in Nat /\ L - (L - x) = x
    OBVIOUS
  <2> QED BY <1>1, <2>1, <2>2
<1>3. PICK t \in T : \A n \in T : t <= n
  BY <1>2, LeastNat
<1>4. L - t \in S /\ t \in Nat
  BY <1>1, <1>3
<1>5. \A y \in S : L - t >= y
  <2> TAKE y \in S
  <2>1. y \in Int /\ L - y \in Nat /\ L - (L - y) = y
    OBVIOUS
  <2>2. L - y \in T
    BY <1>1, <2>1
  <2>3. t <= L - y
    BY <1>3, <2>2
  <2> QED BY <1>4, <2>1, <2>3
<1> QED BY <1>4, <1>5 DEF Max

Phases == {"begin", "scan", "done"}
Tracks == {"A", "B", "C", "none"}
HitRecords == [mapping : Nat, track : Tracks, pos : Nat]

\* The type of a scan, with nothing said of the strings it gives back.
Looking ==
  /\ scan \in [engine : DOMAIN Indexes, index : Indexes[scan.engine], circuit : {scan.circuit},
               amenity : Strings, phase : Phases, pos : Nat, best : HitRecords, result : {scan.result}]
  /\ scan.result.ai \in BOOLEAN

\* A hit at this place of the string, or none.
HitOrNone(hit, pos) ==
  hit = NoHit \/ (hit \in HitRecords /\ hit.mapping \in DOMAIN scan.index /\ hit.pos = pos /\ hit # NoHit)

\* The best is the best of the segments the scan has passed.
BestSoFar ==
  /\ scan.best = NoHit => \A q \in 1 .. scan.pos - 1 : HitAt(q) = NoHit
  /\ scan.best # NoHit =>
       /\ \E p \in 1 .. scan.pos - 1 : scan.best = HitAt(p)
       /\ \A q \in 1 .. scan.pos - 1 : HitAt(q) # NoHit => AsGoodAs(scan.best, HitAt(q))

\* A scan that ends by a rule of its own has looked at nothing, every other
\* at all the segments.
LooksAtAll ==
  /\ scan.phase = "begin" => scan.best = NoHit
  /\ scan.phase = "done" /\ scan.amenity # <<>> /\ scan.result.source # "vip" => scan.pos = Len(Segments) + 1
  /\ scan.result.ai => scan.phase = "done" /\ scan.best = NoHit

ScanOK ==
  /\ Looking
  /\ scan.pos \in 1 .. Len(Segments) + 1
  /\ BestSoFar
  /\ LooksAtAll
  /\ CircuitRulesHold

LEMMA SegmentsAre ==
  ASSUME CascadeAssumption, Looking
  PROVE  /\ Segments \in Seq(Phrases) /\ DOMAIN Segments = 1 .. Len(Segments) /\ Len(Segments) \in Nat
         /\ scan.index \in Seq(Mappings)
         /\ \A m, n \in DOMAIN scan.index : m < n => scan.index[m].tier <= scan.index[n].tier
         /\ DOMAIN scan.index = 1 .. Len(scan.index) /\ Len(scan.index) \in Nat
         /\ \A m \in DOMAIN scan.index : scan.index[m] \in Mappings
<1>1. scan.amenity \in Seq(Phrases) /\ scan.index \in Indexes[scan.engine] /\ scan.engine \in DOMAIN Indexes
  BY DEF CascadeAssumption, Looking
<1>2. PICK S : S = {n \in DOMAIN scan.amenity : scan.amenity[n] \notin Ignored}
  OBVIOUS
<1>3. S \subseteq Int /\ IsFiniteSet(S) /\ S \subseteq DOMAIN scan.amenity
  <2>1. DOMAIN scan.amenity = 1 .. Len(scan.amenity) /\ Len(scan.amenity) \in Nat
    BY <1>1
  <2>2. IsFiniteSet(1 .. Len(scan.amenity))
    BY <2>1, FS_Interval
  <2>3. S \in SUBSET (1 .. Len(scan.amenity))
    BY <1>2, <2>1
  <2>4. IsFiniteSet(S)
    BY <2>2, <2>3, FS_Subset
  <2> QED BY <2>1, <2>3, <2>4
<1>4. PICK kept : kept = InOrder(S)
  OBVIOUS
<1>5. kept \in Seq(S)
  BY <1>3, <1>4, InOrderLists
<1>6. Segments = [n \in DOMAIN kept |-> scan.amenity[kept[n]]]
  BY <1>2, <1>4 DEF Segments
<1>7. DOMAIN kept = 1 .. Len(kept) /\ Len(kept) \in Nat /\ \A n \in DOMAIN kept : scan.amenity[kept[n]] \in Phrases
  <2>1. DOMAIN kept = 1 .. Len(kept) /\ Len(kept) \in Nat /\ \A n \in DOMAIN kept : kept[n] \in S
    BY <1>5
  <2>2. \A x \in S : scan.amenity[x] \in Phrases
    BY <1>1, <1>3
  <2> QED BY <2>1, <2>2
<1>8. Segments \in Seq(Phrases)
  BY <1>6, <1>7
<1>9. scan.index \in Seq(Mappings) /\ \A m, n \in DOMAIN scan.index : m < n => scan.index[m].tier <= scan.index[n].tier
  BY <1>1 DEF CascadeAssumption
<1> QED BY <1>8, <1>9

LEMMA HitsAreHits ==
  ASSUME CascadeAssumption, Looking, NEW pos \in DOMAIN Segments
  PROVE  /\ HitOrNone(MatchSegment(scan.index, Segments[pos], pos), pos)
         /\ HitOrNone(MatchMovieSegment(scan.index, Segments[pos], pos), pos)
         /\ HitOrNone(MatchIntlSegment(scan.index, Segments[pos], pos), pos)
<1>1. PICK L, index : index = scan.index /\ L = Len(index)
  OBVIOUS
<1>2. L \in Nat /\ DOMAIN index = 1 .. L /\ pos \in Nat
  BY <1>1, SegmentsAre
<1>3. PICK phrase : phrase = Segments[pos]
  OBVIOUS
<1>4. ASSUME NEW same \in SUBSET DOMAIN index, NEW track \in Tracks
      PROVE  HitOrNone(Found(same, Max, track, pos), pos) /\ HitOrNone(Found(same, Min, track, pos), pos)
  <2>1. CASE same = {}
    BY <2>1 DEF Found, HitOrNone
  <2>2. CASE same # {}
    <3>1. PICK x, y : x = Max(same) /\ y = Min(same)
      OBVIOUS
    <3>2. x \in same /\ y \in same
      <4>1. same \in SUBSET (1 .. L) /\ same \in SUBSET Nat
        BY <1>2
      <4>2. Max(same) \in same
        BY <1>2, <2>2, <4>1, MaxIsOne
      <4>3. Min(same) \in same
        BY <2>2, <4>1, MinIsLeast
      <4> QED BY <3>1, <4>2, <4>3
    <3>3. x \in 1 .. L /\ y \in 1 .. L
      BY <1>2, <3>2
    <3>4. ASSUME NEW n \in 1 .. L
          PROVE  HitOrNone([mapping |-> n, track |-> track, pos |-> pos], pos)
      <4>1. PICK h : h = [mapping |-> n, track |-> track, pos |-> pos]
        OBVIOUS
      <4>2. h.mapping = n /\ h.pos = pos /\ h \in HitRecords /\ n # 0
        BY <1>2, <4>1 DEF HitRecords
      <4>3. h # NoHit
        BY <4>2 DEF NoHit
      <4> QED BY <1>1, <1>2, <4>1, <4>2, <4>3 DEF HitOrNone
    <3>5. /\ Found(same, Max, track, pos) = [mapping |-> x, track |-> track, pos |-> pos]
          /\ Found(same, Min, track, pos) = [mapping |-> y, track |-> track, pos |-> pos]
      BY <2>2, <3>1 DEF Found
    <3> QED BY <3>3, <3>4, <3>5
  <2> QED BY <2>1, <2>2
<1>5. \A h, g : HitOrNone(h, pos) /\ HitOrNone(g, pos) => HitOrNone(OrElse(h, g), pos)
  BY DEF OrElse
<1>6. HitOrNone(ExactTracks(index, phrase, pos, Max), pos) /\ HitOrNone(ExactTracks(index, phrase, pos, Min), pos)
  <2>1. PICK a, b : /\ a = {m \in DOMAIN index : TrackA(index[m].keyword) = TrackA(phrase)}
                    /\ b = {m \in DOMAIN index : TrackB(index[m].keyword) = TrackB(phrase)}
    OBVIOUS
  <2>2. /\ HitOrNone(Found(a, Max, "A", pos), pos) /\ HitOrNone(Found(a, Min, "A", pos), pos)
        /\ HitOrNone(Found(b, Max, "B", pos), pos) /\ HitOrNone(Found(b, Min, "B", pos), pos)
    <3>1. a \subseteq DOMAIN index /\ b \subseteq DOMAIN index
      BY <2>1
    <3>2. "A" \in Tracks /\ "B" \in Tracks
      BY DEF Tracks
    <3> QED BY <1>4, <3>1, <3>2
  <2>3. /\ ExactTracks(index, phrase, pos, Max) = OrElse(Found(a, Max, "A", pos), Found(b, Max, "B", pos))
        /\ ExactTracks(index, phrase, pos, Min) = OrElse(Found(a, Min, "A", pos), Found(b, Min, "B", pos))
    BY <2>1 DEF ExactTracks, With
  <2> QED BY <1>5, <2>2, <2>3
<1>7. HitOrNone(ConcatExact(index, phrase, pos), pos) /\ HitOrNone(LooseTrack(index, phrase, pos), pos)
  <2>1. PICK a, b : /\ a = {m \in DOMAIN index : ConcatForm(index[m].keyword) = ConcatForm(phrase)}
                    /\ b = {m \in DOMAIN index : Loose(index[m].keyword, phrase)}
    OBVIOUS
  <2>2. HitOrNone(Found(a, Min, "C", pos), pos) /\ HitOrNone(Found(b, Min, "C", pos), pos)
    <3>1. a \subseteq DOMAIN index /\ b \subseteq DOMAIN index
      BY <2>1
    <3>2. "C" \in Tracks
      BY DEF Tracks
    <3> QED BY <1>4, <3>1, <3>2
  <2>3. ConcatExact(index, phrase, pos) = Found(a, Min, "C", pos) /\ LooseTrack(index, phrase, pos) = Found(b, Min, "C", pos)
    BY <2>1 DEF ConcatExact, LooseTrack, With
  <2> QED BY <2>2, <2>3
<1>8. /\ ExactTracks(index, phrase, pos, MappingIndex) = ExactTracks(index, phrase, pos, Max)
      /\ ExactTracks(index, phrase, pos, MovieFormatMappingIndex) = ExactTracks(index, phrase, pos, Max)
      /\ ExactTracks(index, phrase, pos, IntlMappingIndex) = ExactTracks(index, phrase, pos, Min)
  BY DEF ExactTracks, Found, MappingIndex, MovieFormatMappingIndex, IntlMappingIndex
<1> QED BY <1>1, <1>3, <1>5, <1>6, <1>7, <1>8 DEF MatchSegment, MatchMovieSegment, MatchIntlSegment

LEMMA HitAtIsHit ==
  ASSUME CascadeAssumption, Looking, NEW pos \in DOMAIN Segments
  PROVE  HitOrNone(HitAt(pos), pos)
<1>1. scan.engine \in {"domestic", "movie", "intl"}
  BY DEF CascadeAssumption, Looking
<1> QED BY <1>1, HitsAreHits DEF HitAt

\* The order of the hits.
LEMMA TiersAndScopes ==
  ASSUME CascadeAssumption, Looking, NEW m \in DOMAIN scan.index
  PROVE  Tier(m) \in Nat /\ Scope(m) \in 0 .. 2
<1>1. scan.index[m] \in Mappings
  BY SegmentsAre
<1> QED BY <1>1 DEF Tier, Scope, Mappings

LEMMA DisplacesByRank ==
  ASSUME CascadeAssumption, Looking, NEW new, NEW old,
         new.mapping \in DOMAIN scan.index, old.mapping \in DOMAIN scan.index
  PROVE  /\ scan.engine = "domestic" =>
              (DomesticDisplaces(new, old) <=>
                 \/ Tier(new.mapping) < Tier(old.mapping)
                 \/ Tier(new.mapping) = Tier(old.mapping) /\ Scope(new.mapping) < Scope(old.mapping))
         /\ scan.engine # "domestic" =>
              (HigherTier(new, old) <=>
                 \/ Tier(new.mapping) < Tier(old.mapping)
                 \/ Tier(new.mapping) = Tier(old.mapping) /\ Scope(new.mapping) < Scope(old.mapping))
<1>1. PICK t, u : t = Tier(new.mapping) /\ u = Tier(old.mapping)
  OBVIOUS
<1>2. CASE scan.engine = "domestic"
  <2>1. /\ Scope(new.mapping) = IF Own(new.mapping) THEN 0 ELSE IF Scoped(new.mapping) THEN 1 ELSE 2
        /\ Scope(old.mapping) = IF Own(old.mapping) THEN 0 ELSE IF Scoped(old.mapping) THEN 1 ELSE 2
    BY <1>2 DEF Scope
  <2>2. (Own(new.mapping) => Scoped(new.mapping)) /\ (Own(old.mapping) => Scoped(old.mapping))
    BY DEF Own
  <2>3. Own(new.mapping) \in BOOLEAN /\ Own(old.mapping) \in BOOLEAN
    BY DEF Own, Scoped
  <2>4. Scope(new.mapping) < Scope(old.mapping) <=>
          \/ Own(new.mapping) /\ ~Own(old.mapping)
          \/ Own(new.mapping) = Own(old.mapping) /\ Scoped(new.mapping) /\ ~Scoped(old.mapping)
    BY <2>1, <2>2, <2>3
  <2> QED BY <1>2, <2>4 DEF DomesticDisplaces, HigherTier
<1>3. CASE scan.engine # "domestic"
  <2>1. Scope(new.mapping) = 0 /\ Scope(old.mapping) = 0
    BY <1>3 DEF Scope
  <2> QED BY <1>3, <2>1 DEF HigherTier
<1> QED BY <1>2, <1>3

\* What a hit at the next place does to the best of the places before it.
LEMMA NextBest ==
  ASSUME CascadeAssumption, ScanOK, NEW hit, NEW pos, pos = scan.pos, pos \in DOMAIN Segments,
         HitAt(pos) = hit, hit # NoHit
  PROVE  LET before == \/ scan.best = NoHit
                       \/ Tier(hit.mapping) < Tier(scan.best.mapping)
                       \/ Tier(hit.mapping) = Tier(scan.best.mapping) /\ Scope(hit.mapping) < Scope(scan.best.mapping)
         IN  /\ AsGoodAs(hit, hit)
             /\ before => \A q \in 1 .. pos - 1 : HitAt(q) # NoHit => AsGoodAs(hit, HitAt(q))
             /\ ~before => AsGoodAs(scan.best, hit)
<1>1. PICK L : L = Len(Segments)
  OBVIOUS
<1>2. L \in Nat /\ DOMAIN Segments = 1 .. L /\ pos \in 1 .. L /\ Looking /\ BestSoFar
  BY <1>1, SegmentsAre DEF ScanOK
<1>3. \A q \in 1 .. pos : q \in DOMAIN Segments
  BY <1>2
<1>4. \A q \in 1 .. pos : HitAt(q) # NoHit => HitAt(q).mapping \in DOMAIN scan.index /\ HitAt(q).pos = q
  BY <1>2, <1>3, HitAtIsHit DEF HitOrNone
<1>5. hit.mapping \in DOMAIN scan.index /\ hit.pos = pos
  BY <1>2, <1>4
<1>6. PICK t, c : t = Tier(hit.mapping) /\ c = Scope(hit.mapping)
  OBVIOUS
<1>7. t \in Nat /\ c \in 0 .. 2
  BY <1>2, <1>5, <1>6, TiersAndScopes
<1>8. AsGoodAs(hit, hit)
  BY <1>2, <1>5, <1>6, <1>7 DEF AsGoodAs
<1>9. CASE scan.best = NoHit
  BY <1>2, <1>8, <1>9 DEF BestSoFar
<1>10. CASE scan.best # NoHit
  <2>1. PICK p \in 1 .. pos - 1 : scan.best = HitAt(p)
    BY <1>2, <1>10 DEF BestSoFar
  <2>2. scan.best.mapping \in DOMAIN scan.index /\ scan.best.pos = p /\ p < pos /\ p \in Nat
    BY <1>2, <1>4, <1>10, <2>1
  <2>3. PICK u, d : u = Tier(scan.best.mapping) /\ d = Scope(scan.best.mapping)
    OBVIOUS
  <2>4. u \in Nat /\ d \in 0 .. 2
    BY <1>2, <2>2, <2>3, TiersAndScopes
  <2>5. ASSUME ~(t < u \/ (t = u /\ c < d))
        PROVE  AsGoodAs(scan.best, hit)
    BY <1>2, <1>5, <1>6, <1>7, <2>2, <2>3, <2>4, <2>5 DEF AsGoodAs
  <2>6. ASSUME t < u \/ (t = u /\ c < d), NEW q \in 1 .. pos - 1, HitAt(q) # NoHit
        PROVE  AsGoodAs(hit, HitAt(q))
    <3>1. AsGoodAs(scan.best, HitAt(q))
      BY <1>2, <1>10, <2>6 DEF BestSoFar
    <3>2. HitAt(q).mapping \in DOMAIN scan.index
      BY <1>2, <1>4, <2>6
    <3>3. PICK g, v, e : g = HitAt(q) /\ v = Tier(g.mapping) /\ e = Scope(g.mapping)
      OBVIOUS
    <3>4. v \in Nat /\ e \in 0 .. 2
      BY <1>2, <3>2, <3>3, TiersAndScopes
    <3>5. u < v \/ (u = v /\ (d < e \/ d = e))
      BY <2>3, <3>1, <3>3 DEF AsGoodAs
    <3>6. t < v \/ (t = v /\ c < e)
      BY <1>7, <2>4, <2>6, <3>4, <3>5
    <3> QED BY <1>6, <3>3, <3>6 DEF AsGoodAs
  <2> QED BY <1>6, <1>8, <1>10, <2>3, <2>5, <2>6
<1> QED BY <1>8, <1>9, <1>10

LEMMA SameSearch ==
  ASSUME scan'.engine = scan.engine, scan'.index = scan.index, scan'.circuit = scan.circuit,
         scan'.amenity = scan.amenity
  PROVE  /\ Segments' = Segments
         /\ \A q : HitAt(q)' = HitAt(q)
         /\ \A h, g : AsGoodAs(h, g)' <=> AsGoodAs(h, g)
<1>1. Segments' = Segments
  BY DEF Segments
<1>2. \A q : HitAt(q)' = HitAt(q)
  BY <1>1 DEF HitAt
<1>3. \A m : Tier(m)' = Tier(m) /\ Scope(m)' = Scope(m)
  BY DEF Tier, Scope, Own, Scoped
<1>4. \A h, g : AsGoodAs(h, g)' <=> AsGoodAs(h, g)
  BY <1>3 DEF AsGoodAs
<1> QED BY <1>1, <1>2, <1>4

LEMMA LookUpStarts ==
  ASSUME CascadeAssumption, ScanInit
  PROVE  ScanOK
<1>1. PICK engine, index, amenity, circuit :
        /\ engine \in DOMAIN Indexes /\ index \in Indexes[engine] /\ amenity \in Strings
        /\ scan = [engine |-> engine, index |-> index, circuit |-> circuit, amenity |-> amenity,
                   phase |-> "begin", pos |-> 1, best |-> NoHit, result |-> NoResult]
  BY DEF ScanInit
<1>2. /\ scan.engine = engine /\ scan.index = index /\ scan.amenity = amenity /\ scan.phase = "begin"
      /\ scan.pos = 1 /\ scan.best = NoHit /\ scan.result = NoResult
  BY <1>1
<1>3. NoHit \in HitRecords
  BY DEF NoHit, HitRecords, Tracks
<1>4. Looking
  BY <1>1, <1>3 DEF Looking, NoResult, Phases
<1>5. Len(Segments) \in Nat
  BY <1>4, SegmentsAre
<1>6. scan.pos \in 1 .. Len(Segments) + 1
  BY <1>2, <1>5
<1>7. BestSoFar
  BY <1>2 DEF BestSoFar
<1>8. LooksAtAll /\ CircuitRulesHold
  <2>1. scan.result.ai = FALSE
    <3>1. NoResult.ai = FALSE
      BY DEF NoResult
    <3>2. scan.result.ai = NoResult.ai
      BY <1>2
    <3> QED BY <3>1, <3>2
  <2> QED BY <1>2, <2>1 DEF LooksAtAll, CircuitRulesHold
<1> QED BY <1>4, <1>6, <1>7, <1>8 DEF ScanOK

LEMMA LookKeeps ==
  ASSUME CascadeAssumption, ScanOK, Look \/ LookMovie \/ LookIntl
  PROVE  ScanOK'
<1>1. Looking /\ BestSoFar /\ LooksAtAll /\ scan.pos \in 1 .. Len(Segments) + 1
  BY DEF ScanOK
<1>2. PICK L, pos, hit : L = Len(Segments) /\ pos = scan.pos /\ hit = HitAt(pos)
  OBVIOUS
<1>3. scan.phase = "scan" /\ pos <= L
  BY <1>2 DEF Look, LookMovie, LookIntl, LookAt
<1>4. L \in Nat /\ pos \in 1 .. L /\ DOMAIN Segments = 1 .. L
  BY <1>1, <1>2, <1>3, SegmentsAre
<1>5. HitOrNone(hit, pos) /\ \A q \in 1 .. pos : HitOrNone(HitAt(q), q)
  BY <1>1, <1>2, <1>4, HitAtIsHit
<1>6. scan.best # NoHit => scan.best.mapping \in DOMAIN scan.index
  BY <1>1, <1>2, <1>4, <1>5 DEF BestSoFar, HitOrNone
<1> DEFINE before == \/ scan.best = NoHit
                     \/ Tier(hit.mapping) < Tier(scan.best.mapping)
                     \/ Tier(hit.mapping) = Tier(scan.best.mapping) /\ Scope(hit.mapping) < Scope(scan.best.mapping)
<1>7. PICK best : /\ best = IF hit # NoHit /\ before THEN hit ELSE scan.best
                  /\ scan' = [scan EXCEPT !.pos = pos + 1, !.best = best]
  <2>1. CASE Look
    <3>1. scan.engine = "domestic" /\ hit = MatchSegment(scan.index, Segments[pos], pos)
      BY <1>2, <2>1 DEF Look, LookAt, HitAt
    <3>2. scan' = [scan EXCEPT !.pos = pos + 1,
                     !.best = IF hit # NoHit /\ (scan.best = NoHit \/ DomesticDisplaces(hit, scan.best))
                                THEN hit ELSE scan.best]
      BY <1>1, <1>2, <2>1, <3>1 DEF Look, LookAt, Looking
    <3>3. hit # NoHit /\ scan.best # NoHit => (DomesticDisplaces(hit, scan.best) <=> before)
      BY <1>1, <1>5, <1>6, <3>1, DisplacesByRank DEF HitOrNone
    <3> QED BY <3>2, <3>3
  <2>2. CASE LookMovie
    <3>1. scan.engine = "movie" /\ hit = MatchMovieSegment(scan.index, Segments[pos], pos)
      BY <1>2, <2>2 DEF LookMovie, LookAt, HitAt
    <3>2. scan' = [scan EXCEPT !.pos = pos + 1,
                     !.best = IF hit # NoHit /\ (scan.best = NoHit \/ HigherTier(hit, scan.best))
                                THEN hit ELSE scan.best]
      BY <1>1, <1>2, <2>2, <3>1 DEF LookMovie, LookAt, Looking
    <3>3. hit # NoHit /\ scan.best # NoHit => (HigherTier(hit, scan.best) <=> before)
      BY <1>1, <1>5, <1>6, <3>1, DisplacesByRank DEF HitOrNone
    <3> QED BY <3>2, <3>3
  <2>3. CASE LookIntl
    <3>1. scan.engine = "intl" /\ hit = MatchIntlSegment(scan.index, Segments[pos], pos)
      BY <1>2, <2>3 DEF LookIntl, LookAt, HitAt
    <3>2. scan' = [scan EXCEPT !.pos = pos + 1,
                     !.best = IF hit # NoHit /\ (scan.best = NoHit \/ HigherTier(hit, scan.best))
                                THEN hit ELSE scan.best]
      BY <1>1, <1>2, <2>3, <3>1 DEF LookIntl, LookAt, Looking
    <3>3. hit # NoHit /\ scan.best # NoHit => (HigherTier(hit, scan.best) <=> before)
      BY <1>1, <1>5, <1>6, <3>1, DisplacesByRank DEF HitOrNone
    <3> QED BY <3>2, <3>3
  <2> QED BY <2>1, <2>2, <2>3
<1>8. /\ Looking' /\ scan'.pos = pos + 1 /\ scan'.best = best /\ scan'.phase = "scan"
      /\ scan'.engine = scan.engine /\ scan'.index = scan.index /\ scan'.circuit = scan.circuit
      /\ scan'.amenity = scan.amenity /\ scan'.result = scan.result
  <2>1. best \in HitRecords /\ pos + 1 \in Nat
    BY <1>1, <1>4, <1>5, <1>7 DEF Looking, HitOrNone
  <2> QED BY <1>1, <1>3, <1>7, <2>1 DEF Looking
<1>9. Segments' = Segments /\ (\A q : HitAt(q)' = HitAt(q)) /\ \A h, g : AsGoodAs(h, g)' <=> AsGoodAs(h, g)
  BY <1>8, SameSearch
<1>10. \A q \in 1 .. pos + 1 - 1 : q = pos \/ q \in 1 .. pos - 1
  BY <1>4
<1>11. pos \in 1 .. pos + 1 - 1 /\ \A q \in 1 .. pos - 1 : q \in 1 .. pos + 1 - 1
  BY <1>4
<1>12. BestSoFar'
  <2>1. CASE hit = NoHit
    <3>1. best = scan.best /\ HitAt(pos) = NoHit
      BY <1>2, <1>7, <2>1
    <3>2. CASE scan.best = NoHit
      BY <1>1, <1>2, <1>8, <1>9, <1>10, <3>1, <3>2 DEF BestSoFar
    <3>3. CASE scan.best # NoHit
      <4>1. PICK p \in 1 .. pos - 1 : scan.best = HitAt(p)
        BY <1>1, <1>2, <3>3 DEF BestSoFar
      <4>2. \A q \in 1 .. pos + 1 - 1 : HitAt(q) # NoHit => AsGoodAs(scan.best, HitAt(q))
        BY <1>1, <1>2, <1>10, <3>1, <3>3 DEF BestSoFar
      <4> QED BY <1>8, <1>9, <1>11, <3>1, <3>3, <4>1, <4>2 DEF BestSoFar
    <3> QED BY <3>2, <3>3
  <2>2. CASE hit # NoHit
    <3>1. /\ AsGoodAs(hit, hit)
          /\ before => \A q \in 1 .. pos - 1 : HitAt(q) # NoHit => AsGoodAs(hit, HitAt(q))
          /\ ~before => AsGoodAs(scan.best, hit)
      BY <1>2, <1>4, <2>2, NextBest
    <3>2. CASE before
      <4>1. best = hit
        BY <1>7, <2>2, <3>2
      <4> QED BY <1>2, <1>8, <1>9, <1>10, <1>11, <2>2, <3>1, <3>2, <4>1 DEF BestSoFar
    <3>3. CASE ~before
      <4>1. best = scan.best /\ scan.best # NoHit
        BY <1>7, <3>3
      <4> QED BY <1>1, <1>2, <1>8, <1>9, <1>10, <1>11, <2>2, <3>1, <3>3, <4>1 DEF BestSoFar
    <3> QED BY <3>2, <3>3
  <2> QED BY <2>1, <2>2
<1>13. scan'.pos \in 1 .. Len(Segments') + 1
  BY <1>2, <1>4, <1>8, <1>9
<1>14. LooksAtAll' /\ CircuitRulesHold'
  BY <1>1, <1>3, <1>8 DEF LooksAtAll, CircuitRulesHold
<1> QED BY <1>8, <1>12, <1>13, <1>14 DEF ScanOK

\* What CircuitRulesHold asks of an answer.
KeepsTheRules(format, source, ai) ==
  scan.engine = "domestic" =>
    /\ scan.circuit = Imax =>
         /\ ~ai
         /\ format # "IMAX" => scan.best # NoHit /\ Tier(scan.best.mapping) <= MostUrgentTier
    /\ source = "keyword" /\ format # "Standard" =>
         \A m \in DOMAIN scan.index : format = scan.index[m].format =>
           \/ ~Scoped(m) \/ Own(m)
           \/ \E k \in DOMAIN scan.index :
                \/ scan.index[k].format = scan.index[m].format /\ (~Scoped(k) \/ Own(k))
                \/ scan.index[k].na = scan.index[m].format

LEMMA AnswerKeeps ==
  ASSUME ScanOK, NEW format, NEW source, NEW ai \in BOOLEAN, Answer(format, source, ai),
         scan.amenity # <<>> /\ source # "vip" => scan.pos = Len(Segments) + 1,
         ai => scan.best = NoHit, KeepsTheRules(format, source, ai)
  PROVE  ScanOK'
<1>1. Looking /\ BestSoFar /\ scan.pos \in 1 .. Len(Segments) + 1
  BY DEF ScanOK
<1>2. PICK result : result = [format |-> format, source |-> source, ai |-> ai]
  OBVIOUS
<1>3. scan' = [scan EXCEPT !.phase = "done", !.result = result]
  BY <1>2 DEF Answer
<1>4. /\ scan'.pos = scan.pos /\ scan'.best = scan.best /\ scan'.phase = "done"
      /\ scan'.engine = scan.engine /\ scan'.index = scan.index /\ scan'.circuit = scan.circuit
      /\ scan'.amenity = scan.amenity /\ scan'.result = result
  BY <1>1, <1>3 DEF Looking
<1>5. result.format = format /\ result.source = source /\ result.ai = ai
  BY <1>2
<1>6. Looking'
  BY <1>1, <1>3, <1>5 DEF Looking, Phases
<1>7. Segments' = Segments /\ (\A q : HitAt(q)' = HitAt(q)) /\ \A h, g : AsGoodAs(h, g)' <=> AsGoodAs(h, g)
  BY <1>4, SameSearch
<1>8. BestSoFar'
  BY <1>1, <1>4, <1>7 DEF BestSoFar
<1>9. LooksAtAll'
  BY <1>4, <1>5, <1>7 DEF LooksAtAll
<1>10. \A m : Tier(m)' = Tier(m) /\ (Scoped(m)' <=> Scoped(m)) /\ (Own(m)' <=> Own(m))
  BY <1>4 DEF Tier, Own, Scoped
<1>11. CircuitRulesHold'
  BY <1>4, <1>5, <1>10 DEF CircuitRulesHold, KeepsTheRules
<1> QED BY <1>1, <1>4, <1>6, <1>7, <1>8, <1>9, <1>11 DEF ScanOK

LEMMA BestIsAHit ==
  ASSUME CascadeAssumption, ScanOK, scan.best # NoHit
  PROVE  /\ scan.best.mapping \in DOMAIN scan.index /\ scan.best.mapping # 0
         /\ scan.best.pos \in Nat /\ scan.best.pos < scan.pos
<1>1. Looking /\ BestSoFar /\ scan.pos \in 1 .. Len(Segments) + 1
  BY DEF ScanOK
<1>2. PICK L, pos : L = Len(Segments) /\ pos = scan.pos
  OBVIOUS
<1>3. L \in Nat /\ DOMAIN Segments = 1 .. L /\ pos \in 1 .. L + 1 /\ pos \in Nat
      /\ DOMAIN scan.index = 1 .. Len(scan.index) /\ Len(scan.index) \in Nat
  BY <1>1, <1>2, SegmentsAre
<1>4. PICK p \in 1 .. pos - 1 : scan.best = HitAt(p)
  BY <1>1, <1>2 DEF BestSoFar
<1>5. p \in 1 .. L /\ p < pos
  BY <1>3, <1>4
<1>6. HitOrNone(scan.best, p)
  BY <1>1, <1>3, <1>4, <1>5, HitAtIsHit
<1>7. scan.best.mapping \in DOMAIN scan.index /\ scan.best.pos = p
  BY <1>6 DEF HitOrNone
<1> QED BY <1>2, <1>3, <1>5, <1>7

LEMMA BeginKeeps ==
  ASSUME ScanOK, scan.phase = "begin", scan' = [scan EXCEPT !.phase = "scan"]
  PROVE  ScanOK'
<1>1. Looking /\ BestSoFar /\ LooksAtAll /\ scan.pos \in 1 .. Len(Segments) + 1
  BY DEF ScanOK
<1>2. /\ scan'.pos = scan.pos /\ scan'.best = scan.best /\ scan'.phase = "scan"
      /\ scan'.engine = scan.engine /\ scan'.index = scan.index /\ scan'.circuit = scan.circuit
      /\ scan'.amenity = scan.amenity /\ scan'.result = scan.result
  BY <1>1 DEF Looking
<1>3. Looking'
  BY <1>1 DEF Looking, Phases
<1>4. Segments' = Segments /\ (\A q : HitAt(q)' = HitAt(q)) /\ \A h, g : AsGoodAs(h, g)' <=> AsGoodAs(h, g)
  BY <1>2, SameSearch
<1>5. BestSoFar'
  BY <1>1, <1>2, <1>4 DEF BestSoFar
<1>6. LooksAtAll' /\ CircuitRulesHold'
  BY <1>1, <1>2 DEF LooksAtAll, CircuitRulesHold
<1> QED BY <1>1, <1>2, <1>3, <1>4, <1>5, <1>6 DEF ScanOK

\* The format of a keyword at this circuit, unless it is the standard one, is
\* that of a mapping for this circuit or for all, or one for the others.
LEMMA ResolvedRight ==
  ASSUME CascadeAssumption, Looking, NEW m \in DOMAIN scan.index, ResolveCircuitFormat(m) # "Standard"
  PROVE  \E k \in DOMAIN scan.index :
           \/ scan.index[k].format = ResolveCircuitFormat(m) /\ (~Scoped(k) \/ Own(k))
           \/ scan.index[k].na = ResolveCircuitFormat(m)
<1>1. PICK own : own = {k \in DOMAIN scan.index : scan.index[k].keyword = scan.index[m].keyword /\ Own(k)}
  OBVIOUS
<1>2. CASE own # {}
  <2>1. PICK k : k = Max(own)
    OBVIOUS
  <2>2. PICK L \in Nat : DOMAIN scan.index = 1 .. L
    BY SegmentsAre
  <2>3. own \in SUBSET (1 .. L)
    BY <1>1, <2>2
  <2>4. k \in own
    BY <1>2, <2>1, <2>3, MaxIsOne
  <2>5. ResolveCircuitFormat(m) = scan.index[k].format
    BY <1>1, <1>2, <2>1 DEF ResolveCircuitFormat
  <2> QED BY <1>1, <2>4, <2>5
<1>3. CASE own = {} /\ ~Scoped(m)
  BY <1>1, <1>3 DEF ResolveCircuitFormat
<1>4. CASE own = {} /\ Scoped(m) /\ scan.index[m].na # ""
  BY <1>1, <1>4 DEF ResolveCircuitFormat
<1>5. CASE own = {} /\ Scoped(m) /\ scan.index[m].na = ""
  BY <1>1, <1>5 DEF ResolveCircuitFormat
<1> QED BY <1>2, <1>3, <1>4, <1>5

LEMMA ConcludeKeeps ==
  ASSUME CascadeAssumption, ScanOK, Conclude
  PROVE  ScanOK'
<1>1. scan.engine = "domestic" /\ scan.phase = "scan" /\ scan.pos > Len(Segments)
      /\ Looking /\ scan.pos \in 1 .. Len(Segments) + 1
  BY DEF Conclude, Scanned, ScanOK
<1>2. scan.pos = Len(Segments) + 1
  BY <1>1, SegmentsAre
<1>3. PICK best : best = scan.best.mapping
  OBVIOUS
<1>4. best = 0 <=> scan.best = NoHit
  BY <1>3, BestIsAHit DEF NoHit
<1>5. CASE InImaxHouse /\ (best = 0 \/ Tier(best) > MostUrgentTier)
  <2>1. Answer("IMAX", "imax", FALSE)
    BY <1>3, <1>5 DEF Conclude
  <2>2. KeepsTheRules("IMAX", "imax", FALSE)
    BY DEF KeepsTheRules
  <2> QED BY <1>2, <2>1, <2>2, AnswerKeeps
<1>6. CASE ~InImaxHouse /\ best = 0
  <2>1. Answer("Standard", "none", TRUE)
    BY <1>3, <1>6 DEF Conclude
  <2>2. KeepsTheRules("Standard", "none", TRUE)
    BY <1>6 DEF KeepsTheRules, InImaxHouse
  <2> QED BY <1>2, <1>4, <1>6, <2>1, <2>2, AnswerKeeps
<1>7. CASE best # 0 /\ (InImaxHouse => ~(Tier(best) > MostUrgentTier))
  <2>1. PICK format : format = ResolveCircuitFormat(best)
    OBVIOUS
  <2>2. Answer(format, "keyword", FALSE)
    BY <1>3, <1>7, <2>1 DEF Conclude
  <2>3. best \in DOMAIN scan.index
    BY <1>3, <1>4, <1>7, BestIsAHit
  <2>4. Tier(best) \in Nat
    BY <1>1, <2>3, TiersAndScopes
  <2>5. format # "Standard" =>
          \E k \in DOMAIN scan.index :
            \/ scan.index[k].format = format /\ (~Scoped(k) \/ Own(k))
            \/ scan.index[k].na = format
    BY <1>1, <2>1, <2>3, ResolvedRight
  <2>6. scan.circuit = Imax => Tier(best) <= MostUrgentTier
    BY <1>7, <2>4 DEF InImaxHouse, MostUrgentTier
  <2>7. KeepsTheRules(format, "keyword", FALSE)
    BY <1>3, <1>4, <1>7, <2>5, <2>6 DEF KeepsTheRules
  <2> QED BY <1>2, <2>2, <2>7, AnswerKeeps
<1> QED BY <1>5, <1>6, <1>7

LEMMA ScanStepKeeps ==
  ASSUME CascadeAssumption, ScanOK, ScanNext
  PROVE  ScanOK'
<1>1. Looking /\ scan.pos \in 1 .. Len(Segments) + 1 /\ Len(Segments) \in Nat /\ LooksAtAll
  BY SegmentsAre DEF ScanOK
<1>2. CASE Begin
  BY <1>2, BeginKeeps DEF Begin
<1>3. CASE Empty
  <2>1. scan.amenity = <<>>
    BY <1>3 DEF Empty
  <2>2. CASE InImaxHouse
    <3>1. Answer("IMAX", "imax", FALSE) /\ KeepsTheRules("IMAX", "imax", FALSE)
      BY <1>3, <2>2 DEF Empty, KeepsTheRules
    <3> QED BY <2>1, <3>1, AnswerKeeps
  <2>3. CASE ~InImaxHouse
    <3>1. Answer("Standard", "empty", FALSE) /\ KeepsTheRules("Standard", "empty", FALSE)
      BY <1>3, <2>3 DEF Empty, KeepsTheRules, InImaxHouse
    <3> QED BY <2>1, <3>1, AnswerKeeps
  <2> QED BY <2>2, <2>3
<1>4. CASE Vip
  <2>1. CASE scan' = [scan EXCEPT !.phase = "scan"]
    BY <1>4, <2>1, BeginKeeps DEF Vip
  <2>2. CASE scan.circuit = VipHouse /\ Answer("VIP", "vip", FALSE)
    <3>1. KeepsTheRules("VIP", "vip", FALSE)
      BY <2>2 DEF KeepsTheRules, VipHouse, Imax
    <3> QED BY <2>2, <3>1, AnswerKeeps
  <2> QED BY <1>4, <2>1, <2>2 DEF Vip
<1>5. CASE Look \/ LookMovie \/ LookIntl
  BY <1>5, LookKeeps
<1>6. CASE Conclude
  BY <1>6, ConcludeKeeps
<1>7. ASSUME scan.engine # "domestic", NEW format, NEW source, NEW ai \in BOOLEAN, Answer(format, source, ai),
             scan.amenity = <<>> \/ scan.pos > Len(Segments), ai => scan.best = NoHit
      PROVE  ScanOK'
  <2>1. scan.amenity # <<>> => scan.pos = Len(Segments) + 1
    BY <1>1, <1>7
  <2>2. KeepsTheRules(format, source, ai)
    BY <1>7 DEF KeepsTheRules
  <2> QED BY <1>7, <2>1, <2>2, AnswerKeeps
<1>8. CASE EmptyMovie
  BY <1>7, <1>8 DEF EmptyMovie
<1>9. CASE ConcludeMovie
  <2>1. CASE scan.best = NoHit
    BY <1>7, <1>9, <2>1 DEF ConcludeMovie, Scanned
  <2>2. CASE scan.best # NoHit
    BY <1>7, <1>9, <2>2 DEF ConcludeMovie, Scanned
  <2> QED BY <2>1, <2>2
<1>10. CASE EmptyIntl
  BY <1>7, <1>10 DEF EmptyIntl
<1>11. CASE ConcludeIntl
  <2>1. CASE scan.best = NoHit
    BY <1>7, <1>11, <2>1 DEF ConcludeIntl, Scanned
  <2>2. CASE scan.best # NoHit
    BY <1>7, <1>11, <2>2 DEF ConcludeIntl, Scanned
  <2> QED BY <2>1, <2>2
<1> QED BY <1>2, <1>3, <1>4, <1>5, <1>6, <1>8, <1>9, <1>10, <1>11 DEF ScanNext

\* The table of a form keeps the most urgent mapping of the international
\* engine, and track A goes before the others.
LEMMA VerbatimWins ==
  ASSUME CascadeAssumption, Looking, scan.engine = "intl", NEW p \in DOMAIN Segments, NEW m \in Verbatim(p)
  PROVE  HitAt(p) # NoHit /\ Tier(HitAt(p).mapping) <= Tier(m)
<1>1. PICK index, phrase, same :
        /\ index = scan.index /\ phrase = Segments[p]
        /\ same = {n \in DOMAIN index : TrackA(index[n].keyword) = TrackA(phrase)}
  OBVIOUS
<1>2. PICK L \in Nat : DOMAIN index = 1 .. L
  BY <1>1, SegmentsAre
<1>3. m \in same /\ same \in SUBSET Nat /\ same # {} /\ same \in SUBSET (1 .. L)
  BY <1>1, <1>2 DEF Verbatim
<1>4. PICK x : x = Min(same)
  OBVIOUS
<1>5. x \in same /\ x <= m /\ x \in 1 .. L /\ m \in 1 .. L
  BY <1>2, <1>3, <1>4, MinIsLeast
<1>6. PICK h : h = [mapping |-> x, track |-> "A", pos |-> p]
  OBVIOUS
<1>7. h.mapping = x /\ h # NoHit
  <2>1. h.mapping = x /\ x # 0
    BY <1>5, <1>6
  <2> QED BY <2>1 DEF NoHit
<1>8. Found(same, IntlMappingIndex, "A", p) = h
  BY <1>3, <1>4, <1>6 DEF Found, IntlMappingIndex
<1>9. ExactTracks(index, phrase, p, IntlMappingIndex) = h
  BY <1>1, <1>7, <1>8 DEF ExactTracks, With, OrElse
<1>10. HitAt(p) = h
  BY <1>1, <1>7, <1>9 DEF HitAt, MatchIntlSegment, OrElse
<1>11. Tier(x) <= Tier(m)
  <2>1. Tier(x) \in Nat /\ \A a, b \in DOMAIN scan.index : a < b => scan.index[a].tier <= scan.index[b].tier
    BY <1>1, <1>2, <1>5, TiersAndScopes, SegmentsAre
  <2>2. x = m \/ x < m
    BY <1>5
  <2> QED BY <1>1, <1>2, <1>5, <2>1, <2>2 DEF Tier
<1> QED BY <1>7, <1>10, <1>11

LEMMA ScanSays ==
  ASSUME CascadeAssumption, ScanOK
  PROVE  ScanTypeOK /\ CascadeKeepsTheBest /\ CircuitRulesHold
<1>1. Looking /\ BestSoFar /\ LooksAtAll /\ CircuitRulesHold /\ scan.pos \in 1 .. Len(Segments) + 1
  BY DEF ScanOK
<1>2. PICK L, pos : L = Len(Segments) /\ pos = scan.pos
  OBVIOUS
<1>3. /\ L \in Nat /\ DOMAIN Segments = 1 .. L /\ pos \in 1 .. L + 1
      /\ DOMAIN scan.index = 1 .. Len(scan.index) /\ Len(scan.index) \in Nat
  BY <1>1, <1>2, SegmentsAre
<1>4. ScanTypeOK
  <2>1. scan.phase \in {"begin", "scan", "done"} /\ scan.result.ai \in BOOLEAN
    BY <1>1 DEF Looking, Phases
  <2>2. CASE scan.best = NoHit
    <3>1. scan.best.mapping = 0 /\ scan.best.pos = 0
      BY <2>2 DEF NoHit
    <3> QED BY <1>1, <1>2, <1>3, <2>1, <3>1 DEF ScanTypeOK
  <2>3. CASE scan.best # NoHit
    <3>1. scan.best.mapping \in 1 .. Len(scan.index) /\ scan.best.pos < scan.pos
      BY <1>3, <2>3, BestIsAHit
    <3> QED BY <1>1, <1>3, <2>1, <3>1 DEF ScanTypeOK
  <2> QED BY <2>2, <2>3
<1>5. CascadeKeepsTheBest
  <2> SUFFICES ASSUME scan.phase = "done", scan.amenity # <<>>, scan.result.source # "vip"
               PROVE  /\ scan.best = NoHit <=> Hits = {}
                      /\ scan.best # NoHit =>
                           scan.best \in Hits /\ \A hit \in Hits : AsGoodAs(scan.best, hit)
                      /\ scan.result.ai => Hits = {}
                      /\ scan.engine = "intl" =>
                           \A p \in DOMAIN Segments : \A m \in Verbatim(p) : Tier(scan.best.mapping) <= Tier(m)
    BY DEF CascadeKeepsTheBest
  <2>1. pos = L + 1
    BY <1>1, <1>2 DEF LooksAtAll
  <2>2. \A q : q \in DOMAIN Segments <=> q \in 1 .. pos - 1
    BY <1>3, <2>1
  <2>3. Hits = {HitAt(q) : q \in DOMAIN Segments} \ {NoHit}
    BY DEF Hits
  <2>4. /\ scan.best = NoHit => \A q \in DOMAIN Segments : HitAt(q) = NoHit
        /\ scan.best # NoHit => /\ \E p \in DOMAIN Segments : scan.best = HitAt(p)
                                /\ \A q \in DOMAIN Segments : HitAt(q) # NoHit => AsGoodAs(scan.best, HitAt(q))
    BY <1>1, <1>2, <2>2 DEF BestSoFar
  <2>5. scan.best = NoHit => Hits = {}
    BY <2>3, <2>4
  <2>6. scan.best # NoHit => scan.best \in Hits /\ \A hit \in Hits : AsGoodAs(scan.best, hit)
    BY <2>3, <2>4
  <2>7. scan.result.ai => Hits = {}
    BY <1>1, <2>5 DEF LooksAtAll
  <2>8. ASSUME scan.engine = "intl", NEW p \in DOMAIN Segments, NEW m \in Verbatim(p)
        PROVE  Tier(scan.best.mapping) <= Tier(m)
    <3>1. HitAt(p) # NoHit /\ Tier(HitAt(p).mapping) <= Tier(m)
      BY <1>1, <2>8, VerbatimWins
    <3>2. scan.best # NoHit /\ AsGoodAs(scan.best, HitAt(p))
      BY <2>4, <3>1
    <3>3. HitAt(p).mapping \in DOMAIN scan.index /\ m \in DOMAIN scan.index /\ scan.best.mapping \in DOMAIN scan.index
      BY <1>1, <3>1, <3>2, HitAtIsHit, BestIsAHit DEF HitOrNone, Verbatim
    <3>4. PICK t, u, v : t = Tier(scan.best.mapping) /\ u = Tier(HitAt(p).mapping) /\ v = Tier(m)
      OBVIOUS
    <3>5. t \in Nat /\ u \in Nat /\ v \in Nat
      BY <1>1, <3>3, <3>4, TiersAndScopes
    <3>6. t < u \/ t = u
      BY <3>2, <3>4 DEF AsGoodAs
    <3> QED BY <3>1, <3>4, <3>5, <3>6
  <2> QED BY <2>5, <2>6, <2>7, <2>8
<1> QED BY <1>1, <1>4, <1>5

LEMMA ScanRests ==
  ASSUME ScanOK, UNCHANGED scan
  PROVE  ScanOK'
<1>1. /\ scan'.engine = scan.engine /\ scan'.index = scan.index /\ scan'.circuit = scan.circuit
      /\ scan'.amenity = scan.amenity
  OBVIOUS
<1>2. Segments' = Segments /\ (\A q : HitAt(q)' = HitAt(q)) /\ \A h, g : AsGoodAs(h, g)' <=> AsGoodAs(h, g)
  BY <1>1, SameSearch
<1>3. \A m : Tier(m)' = Tier(m) /\ (Scoped(m)' <=> Scoped(m)) /\ (Own(m)' <=> Own(m))
  BY <1>1 DEF Tier, Own, Scoped
<1>4. Looking' /\ LooksAtAll' /\ BestSoFar'
  BY <1>2 DEF ScanOK, Looking, LooksAtAll, BestSoFar
<1>5. CircuitRulesHold'
  BY <1>1, <1>3 DEF ScanOK, CircuitRulesHold
<1> QED BY <1>2, <1>4, <1>5 DEF ScanOK
==============================================================================
