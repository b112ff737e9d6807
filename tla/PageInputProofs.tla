--------------------------- MODULE PageInputProofs ---------------------------
(***************************************************************************)
(* Proofs about PageInput: first what is needed of lists and of functions  *)
(* that recur along them, then what the checks of a page find and what a   *)
(* post stores, then the requests.                                         *)
(***************************************************************************)
EXTENDS PageInput, FiniteSetTheorems, TLAPS

-----------------------------------------------------------------------------
(* Lists *)

\* A set of numbers has a least one.
LEMMA Least ==
  ASSUME NEW A \in SUBSET Nat, A # {}
  PROVE  \E m \in A : \A n \in A : m <= n
<1> DEFINE Upto(k) == A \cap (0..k)
<1>1. PICK a \in A : TRUE
  OBVIOUS
<1> DEFINE B == Upto(a)
           T == {Upto(k) : k \in B}
<1>2. IsWellFoundedOn(StrictSubsetOrdering(B), FiniteSubsetsOf(B))
  BY FS_StrictSubsetOrderingWellFounded
<1>3. T \subseteq FiniteSubsetsOf(B) /\ T # {}
  <2>1. IsFiniteSet(B)
    <3>1. IsFiniteSet(0..a) /\ B \subseteq 0..a
      BY FS_Interval
    <3> HIDE DEF B
    <3>2. QED
      BY <3>1, FS_Subset
  <2>2. \A k \in B : Upto(k) \subseteq B
    OBVIOUS
  <2>3. a \in B
    OBVIOUS
  <2> HIDE DEF Upto, B
  <2>4. \A k \in B : Upto(k) \in FiniteSubsetsOf(B)
    BY <2>1, <2>2, FS_Subset DEF FiniteSubsetsOf
  <2>5. QED
    BY <2>3, <2>4
<1>4. PICK X \in T : \A Y \in T : <<Y, X>> \notin StrictSubsetOrdering(B)
  <2> HIDE DEF T
  <2>1. QED
    BY <1>2, <1>3, WFMin
<1>5. PICK m \in B : X = Upto(m)
  <2> HIDE DEF Upto, B
  <2>1. QED
    OBVIOUS
<1>6. ASSUME NEW n \in A, n < m
      PROVE  FALSE
  <2>1. n \in B /\ Upto(n) \subseteq Upto(m)
    BY <1>6
  <2>2. m \in Upto(m) /\ m \notin Upto(n)
    BY <1>6
  <2>3. \A k \in B : Upto(k) \subseteq B
    OBVIOUS
  <2> HIDE DEF Upto, B
  <2>4. <<Upto(n), Upto(m)>> \in StrictSubsetOrdering(B)
    BY <2>1, <2>2, <2>3 DEF StrictSubsetOrdering
  <2>5. Upto(n) \in T
    BY <2>1
  <2>6. QED
    BY <1>4, <1>5, <2>4, <2>5
<1>7. QED
  BY <1>6

\* What passes from each index to the next holds of all.
LEMMA IndexInduction ==
  ASSUME NEW n \in Nat, NEW G \in SUBSET (0..n), 0 \in G,
         \A i \in 1..n : i - 1 \in G => i \in G
  PROVE  G = 0..n
<1>1. SUFFICES ASSUME (0..n) \ G # {}
               PROVE  FALSE
  OBVIOUS
<1>2. PICK m \in (0..n) \ G : \A k \in (0..n) \ G : m <= k
  <2>1. (0..n) \ G \in SUBSET Nat
    OBVIOUS
  <2>2. QED
    BY <1>1, <2>1, Least
<1>3. m \in 1..n /\ m - 1 \in 0..n /\ m - 1 < m
  BY <1>2
<1>4. m - 1 \in G
  BY <1>2, <1>3
<1>5. QED
  BY <1>2, <1>3, <1>4

\* f begins with base, and G makes each of its values of the one before.
Recurs(f, n, V, base, G) ==
  f \in [0..n -> V] /\ f[0] = base /\ \A i \in 1..n : f[i] = G[<<i, f[i - 1]>>]

LEMMA ListRecursion ==
  ASSUME NEW n \in Nat, NEW V, NEW base \in V, NEW G \in [(1..n) \X V -> V]
  PROVE  \E f : Recurs(f, n, V, base, G)
<1> DEFINE Upto(k) == {f \in [0..k -> V] : f[0] = base /\ \A i \in 1..k : f[i] = G[<<i, f[i - 1]>>]}
           Good == {k \in 0..n : Upto(k) # {}}
<1>1. 0 \in Good
  <2>1. [i \in 0..0 |-> base] \in Upto(0)
    OBVIOUS
  <2>2. 0 \in 0..n
    OBVIOUS
  <2> HIDE DEF Upto
  <2>3. QED
    BY <2>1, <2>2
<1>2. ASSUME NEW k \in 1..n, k - 1 \in Good
      PROVE  k \in Good
  <2>1. PICK f : f \in Upto(k - 1)
    BY <1>2
  <2> DEFINE g == [i \in 0..k |-> IF i = k THEN G[<<k, f[k - 1]>>] ELSE f[i]]
  <2>2. f \in [0..(k - 1) -> V] /\ f[0] = base /\ \A i \in 1..(k - 1) : f[i] = G[<<i, f[i - 1]>>]
    BY <2>1
  <2>3. f[k - 1] \in V /\ G[<<k, f[k - 1]>>] \in V
    BY <2>2
  <2>4. \A i \in 0..k : i = k \/ i \in 0..(k - 1)
    OBVIOUS
  <2>5. g \in [0..k -> V]
    BY <2>2, <2>3, <2>4
  <2>6. g[0] = base /\ g[k] = G[<<k, f[k - 1]>>] /\ \A i \in 0..(k - 1) : g[i] = f[i]
    BY <2>2, <2>4
  <2> HIDE DEF g
  <2>7. ASSUME NEW i \in 1..k
        PROVE  g[i] = G[<<i, g[i - 1]>>]
    <3>1. CASE i = k
      <4>1. k - 1 \in 0..(k - 1)
        OBVIOUS
      <4>2. QED
        BY <2>6, <3>1, <4>1
    <3>2. CASE i # k
      <4>1. i \in 1..(k - 1) /\ i \in 0..(k - 1) /\ i - 1 \in 0..(k - 1)
        BY <3>2
      <4>2. QED
        BY <2>2, <2>6, <4>1
    <3>3. QED
      BY <3>1, <3>2
  <2>8. g \in Upto(k)
    BY <2>5, <2>6, <2>7
  <2>9. k \in 0..n
    OBVIOUS
  <2> HIDE DEF Upto
  <2>10. QED
    BY <2>8, <2>9
<1>3. Good = 0..n
  <2>1. Good \in SUBSET (0..n)
    OBVIOUS
  <2> HIDE DEF Good
  <2>2. QED
    BY <1>1, <1>2, <2>1, IndexInduction
<1>4. n \in Good
  <2> HIDE DEF Good
  <2>1. QED
    BY <1>3
<1>5. QED
  BY <1>4 DEF Recurs

Prefix(list, i) == [j \in 1..i |-> list[j]]

LEMMA PrefixIs ==
  ASSUME NEW T, NEW list \in Seq(T)
  PROVE  /\ Prefix(list, 0) = <<>>
         /\ Prefix(list, Len(list)) = list
         /\ \A i \in 0..Len(list) : Prefix(list, i) \in Seq(T) /\ Len(Prefix(list, i)) = i
         /\ \A i \in 1..Len(list) : Prefix(list, i) = Append(Prefix(list, i - 1), list[i])
<1> DEFINE n == Len(list)
<1>1. n \in Nat /\ list = [j \in 1..n |-> list[j]] /\ \A j \in 1..n : list[j] \in T
  OBVIOUS
<1>2. \A i \in 0..n : Prefix(list, i) \in Seq(T) /\ Len(Prefix(list, i)) = i
  BY <1>1 DEF Prefix
<1>3. ASSUME NEW i \in 1..n
      PROVE  Prefix(list, i) = Append(Prefix(list, i - 1), list[i])
  <2>1. Prefix(list, i - 1) \in Seq(T) /\ Len(Prefix(list, i - 1)) = i - 1
    BY <1>2
  <2>2. Append(Prefix(list, i - 1), list[i]) \in Seq(T) /\ Len(Append(Prefix(list, i - 1), list[i])) = i
    BY <1>1, <2>1
  <2>3. \A j \in 1..i : Append(Prefix(list, i - 1), list[i])[j] = list[j]
    BY <2>1 DEF Prefix
  <2>4. QED
    BY <1>2, <2>2, <2>3 DEF Prefix
<1>4. Prefix(list, 0) = <<>>
  BY DEF Prefix
<1>5. QED
  BY <1>1, <1>2, <1>3, <1>4 DEF Prefix

\* What the empty list has, and what passes from a list to the list with one more, all
\* lists have.
LEMMA SeqInduction ==
  ASSUME NEW T, NEW G \in SUBSET Seq(T), <<>> \in G, \A s \in G, x \in T : Append(s, x) \in G
  PROVE  G = Seq(T)
<1>1. SUFFICES ASSUME NEW list \in Seq(T)
               PROVE  list \in G
  OBVIOUS
<1> DEFINE n == Len(list)
           Good == {i \in 0..n : Prefix(list, i) \in G}
<1>2. n \in Nat /\ \A j \in 1..n : list[j] \in T
  OBVIOUS
<1>3. 0 \in Good
  BY <1>2, PrefixIs
<1>4. ASSUME NEW i \in 1..n, i - 1 \in Good
      PROVE  i \in Good
  <2>1. Prefix(list, i) = Append(Prefix(list, i - 1), list[i])
    BY PrefixIs
  <2>2. i \in 0..n
    BY <1>2
  <2>3. QED
    BY <1>2, <1>4, <2>1, <2>2
<1>5. Good = 0..n
  <2>1. Good \in SUBSET (0..n)
    OBVIOUS
  <2> HIDE DEF Good, n
  <2>2. QED
    BY <1>2, <1>3, <1>4, <2>1, IndexInduction
<1>6. n \in Good
  <2>1. n \in 0..n
    BY <1>2
  <2> HIDE DEF Good
  <2>2. QED
    BY <1>5, <2>1
<1>7. QED
  BY <1>6, PrefixIs

KeptBy(kept, list, set, T) ==
  /\ kept \in [0..Len(list) -> Seq(T)]
  /\ kept[0] = <<>>
  /\ \A i \in 1..Len(list) :
       kept[i] = IF list[i] \in set THEN Append(kept[i - 1], list[i]) ELSE kept[i - 1]
  /\ Only(list, set) = kept[Len(list)]

LEMMA OnlyRecurs ==
  ASSUME NEW T, NEW list \in Seq(T), NEW set
  PROVE  \E kept : KeptBy(kept, list, set, T)
<1> DEFINE n == Len(list)
           V == Seq(T)
           base == <<>>
           G == [x \in (1..n) \X V |-> IF list[x[1]] \in set THEN Append(x[2], list[x[1]]) ELSE x[2]]
           Filters(f) == f = [i \in 0..n |->
                           IF i = 0 THEN <<>>
                           ELSE IF list[i] \in set THEN Append(f[i - 1], list[i]) ELSE f[i - 1]]
           kept == CHOOSE f : Filters(f)
<1>1. n \in Nat /\ (\A i \in 1..n : list[i] \in T) /\ base \in V
  OBVIOUS
<1>2. G \in [(1..n) \X V -> V]
  <2>1. ASSUME NEW i \in 1..n, NEW v \in V
        PROVE  Append(v, list[i]) \in V
    BY <1>1
  <2>2. QED
    BY <2>1
<1>3. PICK f : f \in [0..n -> V] /\ f[0] = base /\ \A i \in 1..n : f[i] = G[<<i, f[i - 1]>>]
  <2> HIDE DEF n, V, G, base
  <2>1. \E f : Recurs(f, n, V, base, G)
    BY <1>1, <1>2, ListRecursion
  <2>2. QED
    BY <2>1 DEF Recurs
<1>4. ASSUME NEW i \in 1..n
      PROVE  /\ i - 1 \in 0..n /\ i \in 0..n /\ i # 0
             /\ f[i] = IF list[i] \in set THEN Append(f[i - 1], list[i]) ELSE f[i - 1]
  <2>1. i - 1 \in 0..n /\ i \in 0..n /\ i # 0
    BY <1>1
  <2>2. f[i - 1] \in V
    <3> HIDE DEF V, G
    <3>1. QED
      BY <1>3, <2>1
  <2>3. QED
    BY <1>3, <2>1, <2>2
<1>5. \A i \in 0..n : i = 0 \/ i \in 1..n
  BY <1>1
<1>6. Filters(f)
  <2> HIDE DEF G, V
  <2>1. \A i \in 0..n : f[i] = IF i = 0 THEN <<>>
                               ELSE IF list[i] \in set THEN Append(f[i - 1], list[i]) ELSE f[i - 1]
    BY <1>3, <1>4, <1>5
  <2>2. QED
    BY <1>3, <2>1
<1>7. Filters(kept)
  <2> HIDE DEF Filters
  <2>1. QED
    BY <1>6
<1>8. Only(list, set) = kept[n]
  BY DEF Only
<1> HIDE DEF kept
<1>9. kept = f
  <2> DEFINE Good == {i \in 0..n : kept[i] = f[i]}
  <2>1. 0 \in Good
    BY <1>1, <1>6, <1>7
  <2>2. ASSUME NEW i \in 1..n, i - 1 \in Good
        PROVE  i \in Good
    <3>1. i \in 0..n /\ i # 0 /\ kept[i - 1] = f[i - 1]
      BY <1>4, <2>2
    <3>2. kept[i] = IF list[i] \in set THEN Append(kept[i - 1], list[i]) ELSE kept[i - 1]
      BY <1>7, <3>1
    <3>3. QED
      BY <1>4, <3>1, <3>2
  <2>3. Good \in SUBSET (0..n)
    OBVIOUS
  <2> HIDE DEF Good, n
  <2>4. Good = 0..n
    BY <1>1, <2>1, <2>2, <2>3, IndexInduction
  <2>5. DOMAIN kept = 0..n
    BY <1>7
  <2>6. kept = [i \in 0..n |-> kept[i]] /\ f = [i \in 0..n |-> f[i]]
    BY <1>3, <1>7
  <2>7. QED
    BY <2>4, <2>6 DEF Good
<1>10. QED
  BY <1>1, <1>3, <1>4, <1>8, <1>9 DEF KeptBy

LEMMA OnlyEmpty ==
  ASSUME NEW set
  PROVE  Only(<<>>, set) = <<>>
<1>1. <<>> \in Seq({})
  OBVIOUS
<1>2. PICK kept : KeptBy(kept, <<>>, set, {})
  BY <1>1, OnlyRecurs
<1>3. QED
  BY <1>2 DEF KeptBy

LEMMA OnlyAppend ==
  ASSUME NEW T, NEW list \in Seq(T), NEW x \in T, NEW set
  PROVE  Only(Append(list, x), set) = IF x \in set THEN Append(Only(list, set), x) ELSE Only(list, set)
<1> DEFINE n == Len(list)
           longer == Append(list, x)
<1>1. n \in Nat /\ longer \in Seq(T) /\ Len(longer) = n + 1 /\ longer[n + 1] = x
      /\ \A i \in 1..n : longer[i] = list[i]
  OBVIOUS
<1>2. PICK kept : KeptBy(kept, list, set, T)
  BY OnlyRecurs
<1>3. PICK more : KeptBy(more, longer, set, T)
  BY <1>1, OnlyRecurs
<1> DEFINE Good == {i \in 0..n : more[i] = kept[i]}
<1>4. 0 \in Good
  BY <1>1, <1>2, <1>3 DEF KeptBy
<1>5. ASSUME NEW i \in 1..n, i - 1 \in Good
      PROVE  i \in Good
  <2>1. i \in 1..Len(longer)
    BY <1>1
  <2>2. more[i] = IF longer[i] \in set THEN Append(more[i - 1], longer[i]) ELSE more[i - 1]
    BY <1>3, <2>1 DEF KeptBy
  <2>3. kept[i] = IF list[i] \in set THEN Append(kept[i - 1], list[i]) ELSE kept[i - 1]
    BY <1>2 DEF KeptBy
  <2>4. QED
    BY <1>1, <1>5, <2>2, <2>3
<1>6. Good = 0..n
  <2>1. Good \in SUBSET (0..n)
    OBVIOUS
  <2> HIDE DEF Good, n
  <2>2. QED
    BY <1>1, <1>4, <1>5, <2>1, IndexInduction
<1>7. more[n] = Only(list, set)
  <2>1. n \in Good
    BY <1>1, <1>6
  <2>2. QED
    BY <1>2, <2>1 DEF KeptBy
<1>8. Only(longer, set) = IF x \in set THEN Append(more[n], x) ELSE more[n]
  <2>1. n + 1 \in 1..Len(longer) /\ (n + 1) - 1 = n
    BY <1>1
  <2>2. Only(longer, set) = more[n + 1]
    BY <1>1, <1>3 DEF KeptBy
  <2>3. more[n + 1] = IF longer[n + 1] \in set THEN Append(more[(n + 1) - 1], longer[n + 1]) ELSE more[(n + 1) - 1]
    BY <1>3, <2>1 DEF KeptBy
  <2>4. QED
    BY <1>1, <2>1, <2>2, <2>3
<1>9. QED
  BY <1>7, <1>8

LEMMA AppendRange ==
  ASSUME NEW T, NEW list \in Seq(T), NEW x
  PROVE  ToSet(Append(list, x)) = ToSet(list) \cup {x}
<1>1. PICK n \in Nat : n = Len(list)
  OBVIOUS
<1>2. DOMAIN Append(list, x) = 1..(n + 1) /\ DOMAIN list = 1..n
  BY <1>1
<1>3. \A i \in 1..n : Append(list, x)[i] = list[i]
  BY <1>1
<1>4. Append(list, x)[n + 1] = x
  BY <1>1
<1>5. \A i \in 1..(n + 1) : i \in 1..n \/ i = n + 1
  OBVIOUS
<1>6. n + 1 \in 1..(n + 1) /\ 1..n \subseteq 1..(n + 1)
  OBVIOUS
<1>7. QED
  BY <1>2, <1>3, <1>4, <1>5, <1>6 DEF ToSet

LEMMA OnlyIs ==
  ASSUME NEW T, NEW list \in Seq(T), NEW set
  PROVE  Only(list, set) \in Seq(T) /\ ToSet(Only(list, set)) = ToSet(list) \cap set
<1> DEFINE Good == {s \in Seq(T) : Only(s, set) \in Seq(T) /\ ToSet(Only(s, set)) = ToSet(s) \cap set}
<1>1. <<>> \in Good
  <2>1. Only(<<>>, set) = <<>> /\ <<>> \in Seq(T) /\ ToSet(<<>>) = {}
    BY OnlyEmpty DEF ToSet
  <2>2. ToSet(<<>>) \cap set = {}
    BY <2>1
  <2>3. QED
    BY <2>1, <2>2
<1>2. ASSUME NEW s \in Good, NEW x \in T
      PROVE  Append(s, x) \in Good
  <2>1. s \in Seq(T) /\ Append(s, x) \in Seq(T)
    OBVIOUS
  <2>2. Only(Append(s, x), set) = IF x \in set THEN Append(Only(s, set), x) ELSE Only(s, set)
    BY <2>1, OnlyAppend
  <2>3. ToSet(Append(s, x)) = ToSet(s) \cup {x}
    BY <2>1, AppendRange
  <2>4. Only(s, set) \in Seq(T) /\ ToSet(Only(s, set)) = ToSet(s) \cap set
    OBVIOUS
  <2>5. /\ Append(Only(s, set), x) \in Seq(T)
        /\ ToSet(Append(Only(s, set), x)) = ToSet(Only(s, set)) \cup {x}
    BY <2>4, AppendRange
  <2>6. Only(Append(s, x), set) \in Seq(T) /\ ToSet(Only(Append(s, x), set)) = ToSet(Append(s, x)) \cap set
    BY <2>2, <2>3, <2>4, <2>5
  <2>7. QED
    BY <2>1, <2>6
<1>3. Good = Seq(T)
  <2>1. Good \in SUBSET Seq(T)
    OBVIOUS
  <2> HIDE DEF Good
  <2>2. QED
    BY <1>1, <1>2, <2>1, SeqInduction
<1>4. QED
  BY <1>3

\* Sets that agree on the members of a list select the same.
LEMMA OnlySame ==
  ASSUME NEW T, NEW list \in Seq(T), NEW A, NEW B, ToSet(list) \cap A = ToSet(list) \cap B
  PROVE  Only(list, A) = Only(list, B)
<1> DEFINE Good == {s \in Seq(T) : ToSet(s) \cap A = ToSet(s) \cap B => Only(s, A) = Only(s, B)}
<1>1. <<>> \in Good
  BY OnlyEmpty
<1>2. ASSUME NEW s \in Good, NEW x \in T
      PROVE  Append(s, x) \in Good
  <2>1. s \in Seq(T) /\ Append(s, x) \in Seq(T)
    OBVIOUS
  <2>2. /\ Only(Append(s, x), A) = IF x \in A THEN Append(Only(s, A), x) ELSE Only(s, A)
        /\ Only(Append(s, x), B) = IF x \in B THEN Append(Only(s, B), x) ELSE Only(s, B)
    BY <2>1, OnlyAppend
  <2>3. ToSet(Append(s, x)) = ToSet(s) \cup {x}
    BY <2>1, AppendRange
  <2>4. SUFFICES ASSUME ToSet(Append(s, x)) \cap A = ToSet(Append(s, x)) \cap B
                 PROVE  Only(Append(s, x), A) = Only(Append(s, x), B)
    BY <2>1
  <2>5. ToSet(s) \cap A = ToSet(s) \cap B /\ (x \in A <=> x \in B)
    BY <2>3, <2>4
  <2>6. Only(s, A) = Only(s, B)
    BY <2>5
  <2>7. QED
    BY <2>2, <2>5, <2>6
<1>3. Good = Seq(T)
  <2>1. Good \in SUBSET Seq(T)
    OBVIOUS
  <2> HIDE DEF Good
  <2>2. QED
    BY <1>1, <1>2, <2>1, SeqInduction
<1>4. QED
  BY <1>3

\* Selecting twice is selecting what is in both sets.
LEMMA OnlyOnly ==
  ASSUME NEW T, NEW list \in Seq(T), NEW A, NEW B
  PROVE  Only(Only(list, A), B) = Only(list, A \cap B)
<1> DEFINE Good == {s \in Seq(T) : Only(Only(s, A), B) = Only(s, A \cap B)}
<1>1. <<>> \in Good
  <2>1. Only(<<>>, A) = <<>> /\ Only(<<>>, B) = <<>> /\ Only(<<>>, A \cap B) = <<>>
    BY OnlyEmpty
  <2>2. QED
    BY <2>1
<1>2. ASSUME NEW s \in Good, NEW x \in T
      PROVE  Append(s, x) \in Good
  <2>1. s \in Seq(T) /\ Append(s, x) \in Seq(T)
    OBVIOUS
  <2>2. ASSUME NEW front \in Seq(T), NEW set
        PROVE  Only(Append(front, x), set) = IF x \in set THEN Append(Only(front, set), x) ELSE Only(front, set)
    BY OnlyAppend
  <2>3. Only(s, A) \in Seq(T)
    BY <2>1, OnlyIs
  <2>4. Only(Only(s, A), B) = Only(s, A \cap B)
    OBVIOUS
  <2>5. Only(Append(s, x), A) = IF x \in A THEN Append(Only(s, A), x) ELSE Only(s, A)
    BY <2>1, <2>2
  <2>6. Only(Append(Only(s, A), x), B) = IF x \in B THEN Append(Only(Only(s, A), B), x) ELSE Only(Only(s, A), B)
    BY <2>2, <2>3
  <2>7. Only(Append(s, x), A \cap B) =
          IF x \in A \cap B THEN Append(Only(s, A \cap B), x) ELSE Only(s, A \cap B)
    BY <2>1, <2>2
  <2>8. Only(Only(Append(s, x), A), B) = Only(Append(s, x), A \cap B)
    <3>1. CASE x \in A
      <4>1. x \in A \cap B <=> x \in B
        BY <3>1
      <4>2. Only(Append(s, x), A) = Append(Only(s, A), x)
        BY <2>5, <3>1
      <4>3. QED
        BY <2>4, <2>6, <2>7, <4>1, <4>2
    <3>2. CASE x \notin A
      <4>1. Only(Append(s, x), A) = Only(s, A)
        BY <2>5, <3>2
      <4>2. x \notin A \cap B
        BY <3>2
      <4>3. Only(Append(s, x), A \cap B) = Only(s, A \cap B)
        BY <2>7, <4>2
      <4>4. QED
        BY <2>4, <4>1, <4>3
    <3>3. QED
      BY <3>1, <3>2
  <2>9. QED
    BY <2>1, <2>8
<1>3. Good = Seq(T)
  <2>1. Good \in SUBSET Seq(T)
    OBVIOUS
  <2> HIDE DEF Good
  <2>2. QED
    BY <1>1, <1>2, <2>1, SeqInduction
<1>4. QED
  BY <1>3

LEMMA ConcatIs ==
  ASSUME NEW T, NEW s \in Seq(T), NEW t \in Seq(T)
  PROVE  /\ s \o t \in Seq(T) /\ s \o <<>> = s /\ <<>> \o s = s
         /\ ToSet(s \o t) = ToSet(s) \cup ToSet(t)
         /\ \A x \in T : s \o Append(t, x) = Append(s \o t, x)
<1> DEFINE m == Len(s)
           n == Len(t)
<1>1. m \in Nat /\ n \in Nat /\ s \o t \in Seq(T) /\ s \o <<>> = s /\ <<>> \o s = s
  OBVIOUS
<1>2. \A x \in T : s \o Append(t, x) = Append(s \o t, x)
  OBVIOUS
<1>3. /\ DOMAIN s = 1..m /\ DOMAIN t = 1..n /\ DOMAIN (s \o t) = 1..(m + n)
      /\ \A i \in 1..m : (s \o t)[i] = s[i]
      /\ \A i \in 1..n : (s \o t)[m + i] = t[i]
  OBVIOUS
<1>4. ToSet(s \o t) = ToSet(s) \cup ToSet(t)
  <2>1. \A i \in 1..m : i \in 1..(m + n)
    BY <1>1
  <2>2. \A i \in 1..n : m + i \in 1..(m + n)
    BY <1>1
  <2>3. \A i \in 1..(m + n) : i \in 1..m \/ (i - m \in 1..n /\ i = m + (i - m))
    BY <1>1
  <2> HIDE DEF m, n
  <2>4. ASSUME NEW x \in ToSet(s \o t)
        PROVE  x \in ToSet(s) \cup ToSet(t)
    <3>1. PICK i \in 1..(m + n) : (s \o t)[i] = x
      BY <1>3 DEF ToSet
    <3>2. CASE i \in 1..m
      BY <1>3, <3>1, <3>2 DEF ToSet
    <3>3. CASE i - m \in 1..n /\ i = m + (i - m)
      <4>1. (s \o t)[m + (i - m)] = t[i - m]
        BY <1>3, <3>3
      <4>2. QED
        BY <1>3, <3>1, <3>3, <4>1 DEF ToSet
    <3>4. QED
      BY <2>3, <3>2, <3>3
  <2>5. ASSUME NEW x \in ToSet(s)
        PROVE  x \in ToSet(s \o t)
    BY <1>3, <2>1 DEF ToSet
  <2>6. ASSUME NEW x \in ToSet(t)
        PROVE  x \in ToSet(s \o t)
    BY <1>3, <2>2 DEF ToSet
  <2>7. QED
    BY <2>4, <2>5, <2>6
<1>5. QED
  BY <1>1, <1>2, <1>4

LEMMA OnlyConcat ==
  ASSUME NEW T, NEW list \in Seq(T), NEW more \in Seq(T), NEW set
  PROVE  Only(list \o more, set) = Only(list, set) \o Only(more, set)
<1> DEFINE Good == {t \in Seq(T) : Only(list \o t, set) = Only(list, set) \o Only(t, set)}
<1>1. Only(list, set) \in Seq(T)
  BY OnlyIs
<1>2. <<>> \in Good
  <2>1. <<>> \in Seq(T) /\ Only(<<>>, set) = <<>>
    BY OnlyEmpty
  <2>2. list \o <<>> = list /\ Only(list, set) \o <<>> = Only(list, set)
    BY <1>1, <2>1, ConcatIs
  <2>3. QED
    BY <2>1, <2>2
<1>3. ASSUME NEW t \in Good, NEW x \in T
      PROVE  Append(t, x) \in Good
  <2>1. t \in Seq(T) /\ Append(t, x) \in Seq(T) /\ Only(t, set) \in Seq(T)
    BY OnlyIs
  <2>2. /\ list \o t \in Seq(T) /\ list \o Append(t, x) = Append(list \o t, x)
        /\ Only(list, set) \o Append(Only(t, set), x) = Append(Only(list, set) \o Only(t, set), x)
    <3>1. list \o t \in Seq(T) /\ list \o Append(t, x) = Append(list \o t, x)
      BY <2>1, ConcatIs
    <3>2. Only(list, set) \o Append(Only(t, set), x) = Append(Only(list, set) \o Only(t, set), x)
      BY <1>1, <2>1, ConcatIs
    <3>3. QED
      BY <3>1, <3>2
  <2>3. ASSUME NEW front \in Seq(T)
        PROVE  Only(Append(front, x), set) = IF x \in set THEN Append(Only(front, set), x) ELSE Only(front, set)
    BY OnlyAppend
  <2>4. Only(Append(t, x), set) = IF x \in set THEN Append(Only(t, set), x) ELSE Only(t, set)
    BY <2>1, <2>3
  <2>5. Only(Append(list \o t, x), set) = IF x \in set THEN Append(Only(list \o t, set), x) ELSE Only(list \o t, set)
    BY <2>2, <2>3
  <2>6. Only(list \o t, set) = Only(list, set) \o Only(t, set)
    OBVIOUS
  <2>7. Only(list \o Append(t, x), set) = Only(list, set) \o Only(Append(t, x), set)
    BY <2>2, <2>4, <2>5, <2>6
  <2>8. QED
    BY <2>1, <2>7
<1>4. Good = Seq(T)
  <2>1. Good \in SUBSET Seq(T)
    OBVIOUS
  <2> HIDE DEF Good
  <2>2. QED
    BY <1>2, <1>3, <2>1, SeqInduction
<1>5. QED
  BY <1>4

LEMMA SeqWithin ==
  ASSUME NEW T, NEW list, list \in Seq(T), NEW S, ToSet(list) \subseteq S
  PROVE  list \in Seq(S)
<1> DEFINE n == Len(list)
<1>1. n \in Nat /\ list = [i \in 1..n |-> list[i]] /\ DOMAIN list = 1..n
  OBVIOUS
<1>2. \A i \in 1..n : list[i] \in S
  BY <1>1 DEF ToSet
<1> HIDE DEF n
<1>3. [i \in 1..n |-> list[i]] \in Seq(S)
  BY <1>1, <1>2
<1>4. QED
  BY <1>1, <1>3

\* A list has no member twice.
Distinct(list) == \A i, j \in DOMAIN list : list[i] = list[j] => i = j

\* The first of each pair in R comes before the second.
InOrder(list, R) == \A i, j \in DOMAIN list : <<list[i], list[j]>> \in R => i < j

LEMMA AppendOrder ==
  ASSUME NEW T, NEW list \in Seq(T), NEW x, NEW R
  PROVE  /\ Distinct(Append(list, x)) <=> Distinct(list) /\ x \notin ToSet(list)
         /\ InOrder(Append(list, x), R) <=>
              InOrder(list, R) /\ <<x, x>> \notin R /\ \A y \in ToSet(list) : <<x, y>> \notin R
<1> DEFINE longer == Append(list, x)
<1>1. PICK n \in Nat : n = Len(list)
  OBVIOUS
<1>2. DOMAIN longer = 1..(n + 1) /\ DOMAIN list = 1..n /\ longer[n + 1] = x
      /\ \A i \in 1..n : longer[i] = list[i]
  BY <1>1
<1> HIDE DEF longer
<1>3. /\ \A i \in 1..(n + 1) : i \in 1..n \/ i = n + 1
      /\ \A i \in 1..n : i \in 1..(n + 1) /\ i # n + 1 /\ i < n + 1 /\ ~(n + 1 < i)
      /\ n + 1 \in 1..(n + 1) /\ ~(n + 1 < n + 1)
  OBVIOUS
<1>4. \A y : y \in ToSet(list) <=> \E i \in 1..n : list[i] = y
  BY <1>2 DEF ToSet
<1>5. ASSUME Distinct(longer)
      PROVE  Distinct(list) /\ x \notin ToSet(list)
  BY <1>2, <1>3, <1>4, <1>5 DEF Distinct
<1>6. ASSUME Distinct(list), x \notin ToSet(list)
      PROVE  Distinct(longer)
  <2>1. SUFFICES ASSUME NEW i \in 1..(n + 1), NEW j \in 1..(n + 1), longer[i] = longer[j]
                 PROVE  i = j
    BY <1>2 DEF Distinct
  <2>2. CASE i \in 1..n /\ j \in 1..n
    BY <1>2, <1>6, <2>1, <2>2 DEF Distinct
  <2>3. CASE i = n + 1
    BY <1>2, <1>3, <1>4, <1>6, <2>1, <2>3
  <2>4. CASE j = n + 1
    BY <1>2, <1>3, <1>4, <1>6, <2>1, <2>4
  <2>5. QED
    BY <1>3, <2>2, <2>3, <2>4
<1>7. ASSUME InOrder(longer, R)
      PROVE  InOrder(list, R) /\ <<x, x>> \notin R /\ \A y \in ToSet(list) : <<x, y>> \notin R
  <2>1. \A i, j \in 1..(n + 1) : <<longer[i], longer[j]>> \in R => i < j
    BY <1>2, <1>7 DEF InOrder
  <2>2. InOrder(list, R)
    <3>1. SUFFICES ASSUME NEW i \in 1..n, NEW j \in 1..n, <<list[i], list[j]>> \in R
                   PROVE  i < j
      BY <1>2 DEF InOrder
    <3>2. <<longer[i], longer[j]>> \in R
      BY <1>2, <3>1
    <3>3. QED
      BY <1>3, <2>1, <3>2
  <2>3. <<x, x>> \notin R
    BY <1>2, <1>3, <2>1
  <2>4. ASSUME NEW y \in ToSet(list), <<x, y>> \in R
        PROVE  FALSE
    <3>1. PICK i \in 1..n : list[i] = y
      BY <1>4
    <3>2. <<longer[n + 1], longer[i]>> \in R
      BY <1>2, <2>4, <3>1
    <3>3. QED
      BY <1>3, <2>1, <3>2
  <2>5. QED
    BY <2>2, <2>3, <2>4
<1>8. ASSUME InOrder(list, R), <<x, x>> \notin R, \A y \in ToSet(list) : <<x, y>> \notin R
      PROVE  InOrder(longer, R)
  <2>1. SUFFICES ASSUME NEW i \in 1..(n + 1), NEW j \in 1..(n + 1), <<longer[i], longer[j]>> \in R
                 PROVE  i < j
    BY <1>2 DEF InOrder
  <2>2. CASE i \in 1..n /\ j \in 1..n
    <3>1. <<list[i], list[j]>> \in R
      BY <1>2, <2>1, <2>2
    <3>2. QED
      BY <1>2, <1>8, <2>2, <3>1 DEF InOrder
  <2>3. CASE i \in 1..n /\ j = n + 1
    BY <1>3, <2>3
  <2>4. CASE i = n + 1
    <3>1. longer[i] = x
      BY <1>2, <2>4
    <3>2. longer[j] = x \/ longer[j] \in ToSet(list)
      BY <1>2, <1>3, <1>4
    <3>3. QED
      BY <1>8, <2>1, <3>1, <3>2
  <2>5. QED
    BY <1>3, <2>2, <2>3, <2>4
<1>9. QED
  BY <1>5, <1>6, <1>7, <1>8 DEF longer

LEMMA EmptyOrder ==
  ASSUME NEW R
  PROVE  Distinct(<<>>) /\ ToSet(<<>>) = {} /\ InOrder(<<>>, R)
<1>1. DOMAIN <<>> = {}
  OBVIOUS
<1>2. QED
  BY <1>1 DEF Distinct, InOrder, ToSet

\* Selecting and joining keep the order.
LEMMA OnlyOrder ==
  ASSUME NEW T, NEW list \in Seq(T), NEW set, NEW R
  PROVE  /\ Distinct(list) => Distinct(Only(list, set))
         /\ InOrder(list, R) => InOrder(Only(list, set), R)
<1> DEFINE Good == {s \in Seq(T) : /\ Distinct(s) => Distinct(Only(s, set))
                                   /\ InOrder(s, R) => InOrder(Only(s, set), R)}
<1>1. <<>> \in Good
  BY OnlyEmpty, EmptyOrder
<1>2. ASSUME NEW s \in Good, NEW x \in T
      PROVE  Append(s, x) \in Good
  <2>1. s \in Seq(T) /\ Append(s, x) \in Seq(T)
    OBVIOUS
  <2>2. Only(Append(s, x), set) = IF x \in set THEN Append(Only(s, set), x) ELSE Only(s, set)
    BY <2>1, OnlyAppend
  <2>3. Only(s, set) \in Seq(T) /\ ToSet(Only(s, set)) \subseteq ToSet(s)
    BY <2>1, OnlyIs
  <2>4. /\ Distinct(Append(s, x)) <=> Distinct(s) /\ x \notin ToSet(s)
        /\ InOrder(Append(s, x), R) <=>
             InOrder(s, R) /\ <<x, x>> \notin R /\ \A y \in ToSet(s) : <<x, y>> \notin R
    BY <2>1, AppendOrder
  <2>5. /\ Distinct(Append(Only(s, set), x)) <=> Distinct(Only(s, set)) /\ x \notin ToSet(Only(s, set))
        /\ InOrder(Append(Only(s, set), x), R) <=>
             InOrder(Only(s, set), R) /\ <<x, x>> \notin R /\ \A y \in ToSet(Only(s, set)) : <<x, y>> \notin R
    BY <2>3, AppendOrder
  <2>6. /\ Distinct(s) => Distinct(Only(s, set))
        /\ InOrder(s, R) => InOrder(Only(s, set), R)
    OBVIOUS
  <2>7. Distinct(Append(s, x)) => Distinct(Only(Append(s, x), set))
    BY <2>2, <2>3, <2>4, <2>5, <2>6
  <2>8. InOrder(Append(s, x), R) => InOrder(Only(Append(s, x), set), R)
    BY <2>2, <2>3, <2>4, <2>5, <2>6
  <2>9. QED
    BY <2>1, <2>7, <2>8
<1>3. Good = Seq(T)
  <2>1. Good \in SUBSET Seq(T)
    OBVIOUS
  <2> HIDE DEF Good
  <2>2. QED
    BY <1>1, <1>2, <2>1, SeqInduction
<1>4. QED
  BY <1>3

LEMMA OnlyDistinct ==
  ASSUME NEW T, NEW list \in Seq(T), Distinct(list), NEW set
  PROVE  /\ Only(list, set) \in Seq(T)
         /\ ToSet(Only(list, set)) = ToSet(list) \cap set
         /\ Distinct(Only(list, set))
<1>1. InOrder(list, {})
  BY DEF InOrder
<1>2. Distinct(Only(list, set)) /\ InOrder(Only(list, set), {})
  BY <1>1, OnlyOrder
<1>3. QED
  BY <1>2, OnlyIs

LEMMA ConcatOrder ==
  ASSUME NEW T, NEW list \in Seq(T), NEW more \in Seq(T), NEW R,
         Distinct(list), InOrder(list, R)
  PROVE  /\ Distinct(more) /\ ToSet(list) \cap ToSet(more) = {} => Distinct(list \o more)
         /\ InOrder(more, R) /\ (\A y \in ToSet(more), x \in ToSet(list) : <<y, x>> \notin R) =>
              InOrder(list \o more, R)
<1> DEFINE Apart(t) == Distinct(t) /\ ToSet(list) \cap ToSet(t) = {}
           After(t) == InOrder(t, R) /\ \A y \in ToSet(t), x \in ToSet(list) : <<y, x>> \notin R
           Good == {t \in Seq(T) : /\ Apart(t) => Distinct(list \o t)
                                   /\ After(t) => InOrder(list \o t, R)}
<1>1. <<>> \in Good
  BY ConcatIs
<1>2. ASSUME NEW t \in Good, NEW z \in T
      PROVE  Append(t, z) \in Good
  <2>1. t \in Seq(T) /\ Append(t, z) \in Seq(T)
    OBVIOUS
  <2>2. /\ list \o t \in Seq(T) /\ list \o Append(t, z) = Append(list \o t, z)
        /\ ToSet(list \o t) = ToSet(list) \cup ToSet(t)
    BY <2>1, ConcatIs
  <2>3. ToSet(Append(t, z)) = ToSet(t) \cup {z}
    BY <2>1, AppendRange
  <2>4. ASSUME NEW s \in Seq(T)
        PROVE  /\ Distinct(Append(s, z)) <=> Distinct(s) /\ z \notin ToSet(s)
               /\ InOrder(Append(s, z), R) <=>
                    InOrder(s, R) /\ <<z, z>> \notin R /\ \A y \in ToSet(s) : <<z, y>> \notin R
    BY AppendOrder
  <2>5. ASSUME Apart(Append(t, z))
        PROVE  Distinct(list \o Append(t, z))
    <3>1. Distinct(t) /\ z \notin ToSet(t) /\ z \notin ToSet(list) /\ ToSet(list) \cap ToSet(t) = {}
      BY <2>1, <2>3, <2>4, <2>5
    <3>2. Distinct(list \o t)
      BY <3>1
    <3>3. z \notin ToSet(list \o t)
      BY <2>2, <3>1
    <3>4. Distinct(Append(list \o t, z))
      BY <2>2, <2>4, <3>2, <3>3
    <3>5. QED
      BY <2>2, <3>4
  <2>6. ASSUME After(Append(t, z))
        PROVE  InOrder(list \o Append(t, z), R)
    <3>1. InOrder(t, R) /\ <<z, z>> \notin R /\ \A y \in ToSet(t) : <<z, y>> \notin R
      BY <2>1, <2>4, <2>6
    <3>2. \A y \in ToSet(t) \cup {z}, x \in ToSet(list) : <<y, x>> \notin R
      BY <2>3, <2>6
    <3>3. InOrder(list \o t, R)
      BY <3>1, <3>2
    <3>4. \A y \in ToSet(list \o t) : <<z, y>> \notin R
      BY <2>2, <3>1, <3>2
    <3>5. InOrder(Append(list \o t, z), R)
      BY <2>2, <2>4, <3>1, <3>3, <3>4
    <3>6. QED
      BY <2>2, <3>5
  <2> HIDE DEF Apart, After
  <2>7. QED
    BY <2>1, <2>5, <2>6
<1>3. Good = Seq(T)
  <2>1. Good \in SUBSET Seq(T)
    OBVIOUS
  <2> HIDE DEF Good
  <2>2. QED
    BY <1>1, <1>2, <2>1, SeqInduction
<1>4. QED
  BY <1>3

-----------------------------------------------------------------------------
(* Lists of lists *)

\* lists has lists over E of the members of T.
AreLists(lists, T, E) == \A y \in T : lists[y] \in Seq(E)

FlatBy(flat, order, lists, E) ==
  /\ flat \in [0..Len(order) -> Seq(E)]
  /\ flat[0] = <<>>
  /\ \A i \in 1..Len(order) : flat[i] = flat[i - 1] \o lists[order[i]]
  /\ Joined(order, lists) = flat[Len(order)]

LEMMA JoinedRecurs ==
  ASSUME NEW T, NEW order \in Seq(T), NEW E, NEW lists, AreLists(lists, T, E)
  PROVE  \E flat : FlatBy(flat, order, lists, E)
<1> DEFINE n == Len(order)
           V == Seq(E)
           base == <<>>
           seqs == [i \in DOMAIN order |-> lists[order[i]]]
           G == [x \in (1..n) \X V |-> x[2] \o seqs[x[1]]]
           Flattens(f) == f = [i \in 1..n |-> IF i = 1 THEN seqs[i] ELSE f[i - 1] \o seqs[i]]
           flatten == CHOOSE f : Flattens(f)
<1>1. n \in Nat /\ DOMAIN order = 1..n /\ base \in V /\ \A i \in 1..n : order[i] \in T
  OBVIOUS
<1>2. seqs \in [1..n -> V] /\ (\A i \in 1..n : seqs[i] = lists[order[i]] /\ seqs[i] \in V) /\ Len(seqs) = n
  BY <1>1 DEF AreLists
<1> HIDE DEF n, seqs
<1>3. G \in [(1..n) \X V -> V]
  <2>1. ASSUME NEW i \in 1..n, NEW v \in V
        PROVE  v \o seqs[i] \in V
    BY <1>2
  <2>2. QED
    BY <2>1
<1>4. PICK f : f \in [0..n -> V] /\ f[0] = base /\ \A i \in 1..n : f[i] = G[<<i, f[i - 1]>>]
  <2> HIDE DEF V, G, base
  <2>1. \E f : Recurs(f, n, V, base, G)
    BY <1>1, <1>3, ListRecursion
  <2>2. QED
    BY <2>1 DEF Recurs
<1>5. ASSUME NEW i \in 1..n
      PROVE  f[i] = f[i - 1] \o seqs[i] /\ f[i] \in V /\ f[i - 1] \in V
  <2>1. i - 1 \in 0..n /\ i \in 0..n
    BY <1>1
  <2>2. f[i - 1] \in V /\ f[i] \in V
    <3> HIDE DEF V, G
    <3>1. QED
      BY <1>4, <2>1
  <2>3. QED
    BY <1>4, <2>2
<1>6. ASSUME Joined(order, lists) = f[n]
      PROVE  FlatBy(f, order, lists, E)
  <2>1. \A i \in 1..n : f[i] = f[i - 1] \o lists[order[i]]
    BY <1>2, <1>5
  <2> HIDE DEF G
  <2>2. QED
    BY <1>4, <1>6, <2>1 DEF FlatBy, n
<1>7. CASE n = 0
  <2>1. seqs = <<>>
    BY <1>2, <1>7
  <2>2. Joined(order, lists) = <<>>
    BY <1>2, <1>7, <2>1 DEF Joined, FlattenSeq, seqs
  <2>3. QED
    BY <1>4, <1>6, <1>7, <2>2
<1>8. CASE n # 0
  <2> DEFINE g == [i \in 1..n |-> f[i]]
  <2>1. 1 \in 1..n /\ n \in 1..n /\ (\A i \in 1..n : i = 1 \/ (i - 1 \in 1..n /\ i # 1))
    BY <1>1, <1>8
  <2>2. f[1] = seqs[1]
    <3>1. f[1] = f[0] \o seqs[1] /\ seqs[1] \in V
      BY <1>2, <1>5, <2>1
    <3>2. QED
      BY <1>4, <3>1
  <2>3. Flattens(g)
    <3>1. ASSUME NEW i \in 1..n
          PROVE  g[i] = IF i = 1 THEN seqs[i] ELSE g[i - 1] \o seqs[i]
      BY <1>5, <2>1, <2>2
    <3>2. QED
      BY <3>1
  <2>4. Flattens(flatten)
    <3> HIDE DEF Flattens, g
    <3>1. QED
      BY <2>3
  <2>5. Joined(order, lists) = flatten[n]
    BY <1>2, <1>8 DEF Joined, FlattenSeq, seqs
  <2> HIDE DEF flatten
  <2> DEFINE Good == {i \in 0..n : i # 0 => flatten[i] = f[i]}
  <2>6. 0 \in Good
    BY <1>1
  <2>7. ASSUME NEW i \in 1..n, i - 1 \in Good
        PROVE  i \in Good
    <3>1. flatten[i] = IF i = 1 THEN seqs[i] ELSE flatten[i - 1] \o seqs[i]
      BY <2>4
    <3>2. i \in 0..n
      BY <1>1
    <3>3. CASE i = 1
      BY <2>2, <3>1, <3>2, <3>3
    <3>4. CASE i # 1
      <4>1. i - 1 # 0 /\ flatten[i - 1] = f[i - 1]
        BY <2>7, <3>4
      <4>2. QED
        BY <1>5, <3>1, <3>2, <3>4, <4>1
    <3>5. QED
      BY <3>3, <3>4
  <2>8. Good = 0..n
    <3>1. Good \in SUBSET (0..n)
      OBVIOUS
    <3> HIDE DEF Good
    <3>2. QED
      BY <1>1, <2>6, <2>7, <3>1, IndexInduction
  <2>9. flatten[n] = f[n]
    <3>1. n \in Good
      BY <1>1, <2>8
    <3>2. QED
      BY <1>8, <3>1
  <2>10. QED
    BY <1>6, <2>5, <2>9
<1>9. QED
  BY <1>7, <1>8

LEMMA JoinedEmpty ==
  ASSUME NEW lists
  PROVE  Joined(<<>>, lists) = <<>>
<1> DEFINE seqs == [i \in DOMAIN <<>> |-> lists[<<>>[i]]]
<1>1. seqs = <<>> /\ Len(<<>>) = 0
  OBVIOUS
<1>2. Joined(<<>>, lists) = FlattenSeq(seqs)
  BY DEF Joined
<1> HIDE DEF seqs
<1>3. QED
  BY <1>1, <1>2 DEF FlattenSeq

LEMMA JoinedAppend ==
  ASSUME NEW T, NEW order \in Seq(T), NEW x \in T, NEW E, NEW lists, AreLists(lists, T, E)
  PROVE  Joined(Append(order, x), lists) = Joined(order, lists) \o lists[x]
<1> DEFINE n == Len(order)
           longer == Append(order, x)
<1>1. n \in Nat /\ longer \in Seq(T) /\ Len(longer) = n + 1 /\ longer[n + 1] = x
      /\ \A i \in 1..n : longer[i] = order[i]
  OBVIOUS
<1>2. PICK flat : FlatBy(flat, order, lists, E)
  BY JoinedRecurs
<1>3. PICK more : FlatBy(more, longer, lists, E)
  <2> HIDE DEF longer
  <2>1. QED
    BY <1>1, JoinedRecurs
<1> DEFINE Good == {i \in 0..n : more[i] = flat[i]}
<1>4. 0 \in Good
  BY <1>1, <1>2, <1>3 DEF FlatBy
<1>5. ASSUME NEW i \in 1..n, i - 1 \in Good
      PROVE  i \in Good
  <2>1. i \in 1..Len(longer)
    BY <1>1
  <2>2. more[i] = more[i - 1] \o lists[longer[i]]
    BY <1>3, <2>1 DEF FlatBy
  <2>3. flat[i] = flat[i - 1] \o lists[order[i]]
    BY <1>2 DEF FlatBy
  <2>4. more[i - 1] = flat[i - 1] /\ longer[i] = order[i] /\ i \in 0..n
    BY <1>1, <1>5
  <2>5. more[i] = flat[i]
    BY <2>2, <2>3, <2>4
  <2>6. QED
    BY <2>4, <2>5
<1>6. Good = 0..n
  <2>1. Good \in SUBSET (0..n)
    OBVIOUS
  <2> HIDE DEF Good, n
  <2>2. QED
    BY <1>1, <1>4, <1>5, <2>1, IndexInduction
<1>7. more[n] = Joined(order, lists)
  <2>1. n \in Good
    BY <1>1, <1>6
  <2>2. QED
    BY <1>2, <2>1 DEF FlatBy
<1>8. Joined(longer, lists) = more[n] \o lists[x]
  <2>1. n + 1 \in 1..Len(longer) /\ (n + 1) - 1 = n
    BY <1>1
  <2>2. Joined(longer, lists) = more[n + 1]
    BY <1>1, <1>3 DEF FlatBy
  <2>3. more[n + 1] = more[(n + 1) - 1] \o lists[longer[n + 1]]
    BY <1>3, <2>1 DEF FlatBy
  <2>4. QED
    BY <1>1, <2>1, <2>2, <2>3
<1>9. QED
  BY <1>7, <1>8

LEMMA OnlyAll ==
  ASSUME NEW T, NEW list \in Seq(T), NEW set
  PROVE  /\ ToSet(list) \subseteq set => Only(list, set) = list
         /\ ToSet(list) \cap set = {} => Only(list, set) = <<>>
<1> DEFINE Good == {s \in Seq(T) : /\ ToSet(s) \subseteq set => Only(s, set) = s
                                   /\ ToSet(s) \cap set = {} => Only(s, set) = <<>>}
<1>1. <<>> \in Good
  BY OnlyEmpty
<1>2. ASSUME NEW s \in Good, NEW x \in T
      PROVE  Append(s, x) \in Good
  <2>1. s \in Seq(T) /\ Append(s, x) \in Seq(T)
    OBVIOUS
  <2>2. ToSet(Append(s, x)) = ToSet(s) \cup {x}
    BY <2>1, AppendRange
  <2>3. Only(Append(s, x), set) = IF x \in set THEN Append(Only(s, set), x) ELSE Only(s, set)
    BY <2>1, OnlyAppend
  <2>4. /\ ToSet(s) \subseteq set => Only(s, set) = s
        /\ ToSet(s) \cap set = {} => Only(s, set) = <<>>
    OBVIOUS
  <2>5. ASSUME ToSet(Append(s, x)) \subseteq set
        PROVE  Only(Append(s, x), set) = Append(s, x)
    <3>1. x \in set /\ ToSet(s) \subseteq set
      BY <2>2, <2>5
    <3>2. QED
      BY <2>3, <2>4, <3>1
  <2>6. ASSUME ToSet(Append(s, x)) \cap set = {}
        PROVE  Only(Append(s, x), set) = <<>>
    <3>1. x \notin set /\ ToSet(s) \cap set = {}
      BY <2>2, <2>6
    <3>2. QED
      BY <2>3, <2>4, <3>1
  <2>7. QED
    BY <2>1, <2>5, <2>6
<1>3. Good = Seq(T)
  <2>1. Good \in SUBSET Seq(T)
    OBVIOUS
  <2> HIDE DEF Good
  <2>2. QED
    BY <1>1, <1>2, <2>1, SeqInduction
<1>4. QED
  BY <1>3

LEMMA JoinedIs ==
  ASSUME NEW T, NEW order \in Seq(T), NEW E, NEW lists, AreLists(lists, T, E)
  PROVE  /\ Joined(order, lists) \in Seq(E)
         /\ ToSet(Joined(order, lists)) = UNION {ToSet(lists[y]) : y \in ToSet(order)}
<1> DEFINE All(s) == UNION {ToSet(lists[y]) : y \in ToSet(s)}
           Good == {s \in Seq(T) : Joined(s, lists) \in Seq(E) /\ ToSet(Joined(s, lists)) = All(s)}
<1>1. <<>> \in Good
  <2>1. ToSet(<<>>) = {}
    BY EmptyOrder
  <2>2. All(<<>>) = {}
    BY <2>1
  <2>3. Joined(<<>>, lists) = <<>>
    BY JoinedEmpty
  <2>4. <<>> \in Seq(T) /\ <<>> \in Seq(E)
    OBVIOUS
  <2> HIDE DEF All
  <2>5. QED
    BY <2>1, <2>2, <2>3, <2>4
<1>2. ASSUME NEW s \in Good, NEW x \in T
      PROVE  Append(s, x) \in Good
  <2>1. s \in Seq(T) /\ Append(s, x) \in Seq(T)
    OBVIOUS
  <2>2. Joined(Append(s, x), lists) = Joined(s, lists) \o lists[x]
    BY <2>1, JoinedAppend
  <2>3. ToSet(Append(s, x)) = ToSet(s) \cup {x}
    BY <2>1, AppendRange
  <2>4. Joined(s, lists) \in Seq(E) /\ ToSet(Joined(s, lists)) = All(s) /\ lists[x] \in Seq(E)
    BY DEF AreLists
  <2>5. /\ Joined(s, lists) \o lists[x] \in Seq(E)
        /\ ToSet(Joined(s, lists) \o lists[x]) = ToSet(Joined(s, lists)) \cup ToSet(lists[x])
    BY <2>4, ConcatIs
  <2>6. All(Append(s, x)) = All(s) \cup ToSet(lists[x])
    BY <2>3
  <2>7. Joined(Append(s, x), lists) \in Seq(E) /\ ToSet(Joined(Append(s, x), lists)) = All(Append(s, x))
    BY <2>2, <2>4, <2>5, <2>6
  <2>8. QED
    BY <2>1, <2>7
<1>3. Good = Seq(T)
  <2>1. Good \in SUBSET Seq(T)
    OBVIOUS
  <2> HIDE DEF Good
  <2>2. QED
    BY <1>1, <1>2, <2>1, SeqInduction
<1>4. QED
  BY <1>3

\* The list of c is in the set, and those of others have nothing of it.
Tells(c, set, lists, T) ==
  \A y \in T : IF y = c THEN ToSet(lists[y]) \subseteq set ELSE ToSet(lists[y]) \cap set = {}

\* Of lists that are joined, one whose members the others do not have can be told apart.
LEMMA JoinedOnly ==
  ASSUME NEW T, NEW order \in Seq(T), NEW E, NEW lists, AreLists(lists, T, E),
         NEW c, NEW set, Distinct(order),
         Tells(c, set, lists, T)
  PROVE  Only(Joined(order, lists), set) = IF c \in ToSet(order) THEN lists[c] ELSE <<>>
<1> DEFINE Apart(s) == Only(Joined(s, lists), set) = IF c \in ToSet(s) THEN lists[c] ELSE <<>>
           Good == {s \in Seq(T) : Distinct(s) => Apart(s)}
<1>1. <<>> \in Good
  <2>1. Only(<<>>, set) = <<>> /\ Joined(<<>>, lists) = <<>> /\ ToSet(<<>>) = {}
    BY OnlyEmpty, JoinedEmpty, EmptyOrder
  <2>2. <<>> \in Seq(T) /\ c \notin ToSet(<<>>)
    BY <2>1
  <2>3. QED
    BY <2>1, <2>2
<1>2. ASSUME NEW s \in Good, NEW x \in T
      PROVE  Append(s, x) \in Good
  <2>1. s \in Seq(T) /\ Append(s, x) \in Seq(T)
    OBVIOUS
  <2>2. Joined(Append(s, x), lists) = Joined(s, lists) \o lists[x]
    BY <2>1, JoinedAppend
  <2>3. ToSet(Append(s, x)) = ToSet(s) \cup {x}
    BY <2>1, AppendRange
  <2>4. Joined(s, lists) \in Seq(E) /\ lists[x] \in Seq(E)
    BY <2>1, JoinedIs DEF AreLists
  <2>5. Only(Joined(Append(s, x), lists), set) = Only(Joined(s, lists), set) \o Only(lists[x], set)
    BY <2>2, <2>4, OnlyConcat
  <2>6. SUFFICES ASSUME Distinct(Append(s, x))
                 PROVE  Apart(Append(s, x))
    BY <2>1
  <2>7. Distinct(s) /\ x \notin ToSet(s)
    BY <2>1, <2>6, AppendOrder
  <2>8. Apart(s)
    BY <2>7
  <2>9. CASE x = c
    <3>1. Only(lists[x], set) = lists[x]
      BY <2>4, <2>9, OnlyAll DEF Tells
    <3>2. Only(Joined(s, lists), set) = <<>>
      BY <2>7, <2>8, <2>9
    <3>3. <<>> \o lists[x] = lists[x]
      BY <2>4
    <3>4. QED
      BY <2>3, <2>5, <2>9, <3>1, <3>2, <3>3
  <2>10. CASE x # c
    <3>1. Only(lists[x], set) = <<>>
      BY <2>4, <2>10, OnlyAll DEF Tells
    <3>2. Only(Joined(s, lists), set) \in Seq(E)
      BY <2>4, OnlyIs
    <3>3. Only(Joined(s, lists), set) \o <<>> = Only(Joined(s, lists), set)
      BY <3>2
    <3>4. c \in ToSet(Append(s, x)) <=> c \in ToSet(s)
      BY <2>3, <2>10
    <3>5. QED
      BY <2>5, <2>8, <3>1, <3>3, <3>4
  <2>11. QED
    BY <2>9, <2>10
<1>3. Good = Seq(T)
  <2>1. Good \in SUBSET Seq(T)
    OBVIOUS
  <2> HIDE DEF Good
  <2>2. QED
    BY <1>1, <1>2, <2>1, SeqInduction
<1>4. QED
  BY <1>3

-----------------------------------------------------------------------------
(* The order of the controls *)

\* An option reveals only controls that come after its question.
Parents == {x \in Controls \X Controls : page.when[x[2]] # None /\ page.when[x[2]].of = x[1]}

LEMMA PageOrder ==
  ASSUME IsPage(page)
  PROVE  /\ page.controls \in Seq(Controls) /\ ToSet(page.controls) = Controls
         /\ Distinct(page.controls) /\ InOrder(page.controls, Parents)
         /\ Outside \notin Controls
         /\ \A c \in Controls :
              page.when[c] # None => page.show[c] = None /\ page.when[c].of \in Controls
<1> DEFINE order == page.controls
<1>1. /\ order \in Seq(Controls) /\ Outside \notin Controls
      /\ \A i, j \in DOMAIN order : order[i] = order[j] => i = j
      /\ \A i \in DOMAIN order :
           page.when[order[i]] # None =>
             /\ page.show[order[i]] = None
             /\ \E j \in 1..(i - 1) : order[j] = page.when[order[i]].of
  BY DEF IsPage, Controls
<1>2. ToSet(order) = Controls
  BY DEF ToSet, Controls, Range
<1>3. PICK n \in Nat : DOMAIN order = 1..n
  BY <1>1
<1> HIDE DEF order
<1>4. \A i \in 1..n : \A j \in 1..(i - 1) : j \in 1..n /\ j < i
  OBVIOUS
<1>5. InOrder(order, Parents)
  <2>1. SUFFICES ASSUME NEW i \in 1..n, NEW j \in 1..n, <<order[i], order[j]>> \in Parents
                 PROVE  i < j
    BY <1>3 DEF InOrder
  <2>2. page.when[order[j]] # None /\ page.when[order[j]].of = order[i]
    BY <2>1 DEF Parents
  <2>3. PICK k \in 1..(j - 1) : order[k] = page.when[order[j]].of
    BY <1>1, <1>3, <2>2
  <2>4. k = i
    BY <1>1, <1>3, <1>4, <2>2, <2>3
  <2>5. QED
    BY <1>4, <2>4
<1>6. ASSUME NEW c \in Controls, page.when[c] # None
      PROVE  page.show[c] = None /\ page.when[c].of \in Controls
  <2>1. PICK i \in 1..n : order[i] = c
    BY <1>2, <1>3 DEF ToSet
  <2>2. PICK j \in 1..(i - 1) : order[j] = page.when[c].of
    BY <1>1, <1>3, <1>6, <2>1
  <2>3. order[j] \in Controls
    BY <1>2, <1>3, <1>4 DEF ToSet
  <2>4. QED
    BY <1>1, <1>3, <1>6, <2>1, <2>2, <2>3
<1>7. QED
  BY <1>1, <1>2, <1>5, <1>6 DEF order, Distinct

\* Every control of cs is visited once, after the one with the option that reveals it.
LEMMA VisitIs ==
  ASSUME IsPage(page), NEW cs \in SUBSET Controls
  PROVE  /\ Visit(cs) \in Seq(cs) /\ ToSet(Visit(cs)) = cs
         /\ Distinct(Visit(cs)) /\ InOrder(Visit(cs), Parents)
<1> DEFINE nested == {c \in cs : page.when[c] # None}
           first == Only(page.controls, cs \ nested)
           second == Only(page.controls, nested)
<1>1. /\ page.controls \in Seq(Controls) /\ ToSet(page.controls) = Controls
      /\ Distinct(page.controls) /\ InOrder(page.controls, Parents)
  BY PageOrder
<1>2. /\ first \in Seq(Controls) /\ ToSet(first) = cs \ nested
      /\ Distinct(first) /\ InOrder(first, Parents)
  <2>1. Controls \cap (cs \ nested) = cs \ nested
    OBVIOUS
  <2> HIDE DEF nested
  <2>2. InOrder(first, Parents)
    BY <1>1, OnlyOrder
  <2>3. QED
    BY <1>1, <2>1, <2>2, OnlyDistinct
<1>3. /\ second \in Seq(Controls) /\ ToSet(second) = nested
      /\ Distinct(second) /\ InOrder(second, Parents)
  <2>1. Controls \cap nested = nested
    OBVIOUS
  <2> HIDE DEF nested
  <2>2. InOrder(second, Parents)
    BY <1>1, OnlyOrder
  <2>3. QED
    BY <1>1, <2>1, <2>2, OnlyDistinct
<1>4. Visit(cs) = first \o second
  BY DEF Visit
<1>5. \A y \in nested, x \in cs \ nested : <<y, x>> \notin Parents
  BY DEF Parents
<1>6. (cs \ nested) \cap nested = {} /\ (cs \ nested) \cup nested = cs
  OBVIOUS
<1> HIDE DEF first, second, nested
<1>7. first \o second \in Seq(Controls) /\ ToSet(first \o second) = cs
  <2>1. first \o second \in Seq(Controls) /\ ToSet(first \o second) = ToSet(first) \cup ToSet(second)
    BY <1>2, <1>3, ConcatIs
  <2>2. QED
    BY <1>2, <1>3, <1>6, <2>1
<1>8. Distinct(first \o second) /\ InOrder(first \o second, Parents)
  BY <1>2, <1>3, <1>5, <1>6, ConcatOrder
<1>9. QED
  BY <1>4, <1>7, <1>8, SeqWithin

-----------------------------------------------------------------------------
(* The components that are present *)

Parented(list) ==
  \A i \in DOMAIN list :
    page.when[list[i]] # None => \E j \in 1..(i - 1) : list[j] = page.when[list[i]].of

LEMMA ParentedIs ==
  ASSUME NEW T, NEW list \in Seq(T), Parented(list), NEW c \in ToSet(list), page.when[c] # None
  PROVE  page.when[c].of \in ToSet(list)
<1>1. PICK n \in Nat : DOMAIN list = 1..n
  OBVIOUS
<1>2. PICK i \in 1..n : list[i] = c
  BY <1>1 DEF ToSet
<1>3. PICK j \in 1..(i - 1) : list[j] = page.when[c].of
  BY <1>1, <1>2 DEF Parented
<1>4. j \in 1..n
  OBVIOUS
<1>5. QED
  BY <1>1, <1>3, <1>4 DEF ToSet

LEMMA ParentedAppend ==
  ASSUME NEW T, NEW list \in Seq(T), NEW x, Parented(Append(list, x))
  PROVE  Parented(list) /\ (page.when[x] # None => page.when[x].of \in ToSet(list))
<1> DEFINE longer == Append(list, x)
<1>1. PICK n \in Nat : n = Len(list)
  OBVIOUS
<1>2. DOMAIN longer = 1..(n + 1) /\ DOMAIN list = 1..n /\ longer[n + 1] = x
      /\ \A i \in 1..n : longer[i] = list[i]
  BY <1>1
<1> HIDE DEF longer
<1>3. (\A i \in 1..n : i \in 1..(n + 1) /\ \A j \in 1..(i - 1) : j \in 1..n) /\ n + 1 \in 1..(n + 1)
  OBVIOUS
<1>4. Parented(longer)
  BY DEF longer
<1>5. ASSUME NEW i \in 1..n, page.when[list[i]] # None
      PROVE  \E j \in 1..(i - 1) : list[j] = page.when[list[i]].of
  <2>1. longer[i] = list[i] /\ i \in DOMAIN longer
    BY <1>2, <1>3
  <2>2. PICK j \in 1..(i - 1) : longer[j] = page.when[list[i]].of
    BY <1>4, <1>5, <2>1 DEF Parented
  <2>3. longer[j] = list[j]
    BY <1>2, <1>3
  <2>4. QED
    BY <2>2, <2>3
<1>6. ASSUME page.when[x] # None
      PROVE  page.when[x].of \in ToSet(list)
  <2>1. PICK j \in 1..((n + 1) - 1) : longer[j] = page.when[x].of
    BY <1>2, <1>3, <1>4, <1>6 DEF Parented
  <2>2. j \in 1..n
    OBVIOUS
  <2>3. QED
    BY <1>2, <2>1, <2>2 DEF ToSet
<1>7. QED
  BY <1>2, <1>5, <1>6 DEF Parented

\* P holds those members of a list whose condition is true and whose parent it holds.
Selects(P, list, ans) ==
  /\ P \subseteq ToSet(list)
  /\ \A c \in ToSet(list) :
       c \in P <=> Holds(ans, page.show[c]) /\ (page.when[c] # None => page.when[c].of \in P)

LEMMA SelectsExists ==
  ASSUME NEW ans, NEW T, NEW list \in Seq(T), Distinct(list), Parented(list)
  PROVE  \E P : Selects(P, list, ans)
<1> DEFINE Good == {s \in Seq(T) : Distinct(s) /\ Parented(s) => \E P : Selects(P, s, ans)}
<1>1. <<>> \in Good
  <2>1. Selects({}, <<>>, ans)
    BY EmptyOrder DEF Selects
  <2>2. QED
    BY <2>1
<1>2. ASSUME NEW s \in Good, NEW x \in T
      PROVE  Append(s, x) \in Good
  <2>1. s \in Seq(T) /\ Append(s, x) \in Seq(T)
    OBVIOUS
  <2>2. SUFFICES ASSUME Distinct(Append(s, x)), Parented(Append(s, x))
                 PROVE  \E P : Selects(P, Append(s, x), ans)
    BY <2>1
  <2>3. Distinct(s) /\ x \notin ToSet(s)
    BY <2>1, <2>2, AppendOrder
  <2>4. Parented(s) /\ (page.when[x] # None => page.when[x].of \in ToSet(s))
    BY <2>1, <2>2, ParentedAppend
  <2>5. PICK P : Selects(P, s, ans)
    BY <2>3, <2>4
  <2>6. \A c \in ToSet(s) : page.when[c] # None => page.when[c].of \in ToSet(s)
    BY <2>1, <2>4, ParentedIs
  <2>7. ToSet(Append(s, x)) = ToSet(s) \cup {x}
    BY <2>1, AppendRange
  <2>8. CASE Holds(ans, page.show[x]) /\ (page.when[x] # None => page.when[x].of \in P)
    <3>1. Selects(P \cup {x}, Append(s, x), ans)
      BY <2>3, <2>4, <2>5, <2>6, <2>7, <2>8 DEF Selects
    <3>2. QED
      BY <3>1
  <2>9. CASE ~(Holds(ans, page.show[x]) /\ (page.when[x] # None => page.when[x].of \in P))
    <3>1. Selects(P, Append(s, x), ans)
      BY <2>3, <2>4, <2>5, <2>6, <2>7, <2>9 DEF Selects
    <3>2. QED
      BY <3>1
  <2>10. QED
    BY <2>8, <2>9
<1>3. Good = Seq(T)
  <2>1. Good \in SUBSET Seq(T)
    OBVIOUS
  <2> HIDE DEF Good
  <2>2. QED
    BY <1>1, <1>2, <2>1, SeqInduction
<1>4. QED
  BY <1>3

\* What is present: a component whose condition is true, of those that are nested the ones
\* in a component that is present.
LEMMA PresentIs ==
  ASSUME IsPage(page), NEW ans
  PROVE  /\ Present(ans) \subseteq Controls
         /\ \A c \in Controls :
              c \in Present(ans) <=>
                Holds(ans, page.show[c]) /\ (page.when[c] # None => page.when[c].of \in Present(ans))
<1> DEFINE Finds(f) == f = [c \in Controls |-> /\ Holds(ans, page.show[c])
                                               /\ page.when[c] # None => f[page.when[c].of]]
           present == CHOOSE f : Finds(f)
<1>1. /\ page.controls \in Seq(Controls) /\ ToSet(page.controls) = Controls /\ Distinct(page.controls)
      /\ \A c \in Controls : page.when[c] # None => page.when[c].of \in Controls
  BY PageOrder
<1>2. Parented(page.controls)
  BY DEF IsPage, Parented
<1>3. PICK P : Selects(P, page.controls, ans)
  BY <1>1, <1>2, SelectsExists
<1> DEFINE f == [c \in Controls |-> c \in P]
<1>4. Finds(f)
  <2>1. ASSUME NEW c \in Controls
        PROVE  (c \in P) = (Holds(ans, page.show[c]) /\ (page.when[c] # None => f[page.when[c].of]))
    <3>1. page.when[c] # None => (f[page.when[c].of] <=> page.when[c].of \in P)
      BY <1>1
    <3>2. c \in P <=> Holds(ans, page.show[c]) /\ (page.when[c] # None => page.when[c].of \in P)
      BY <1>1, <1>3 DEF Selects
    <3> HIDE DEF f
    <3>3. c \in P <=> Holds(ans, page.show[c]) /\ (page.when[c] # None => f[page.when[c].of])
      BY <3>1, <3>2, Zenon
    <3>4. QED
      BY <3>3, SMT
  <2>2. QED
    BY <2>1, Zenon
<1>5. Finds(present)
  <2> HIDE DEF Finds, f
  <2>1. QED
    BY <1>4
<1>6. Present(ans) = {c \in Controls : present[c]}
  BY DEF Present
<1> HIDE DEF present
<1>7. ASSUME NEW c \in Controls
      PROVE  present[c] = (Holds(ans, page.show[c]) /\ (page.when[c] # None => present[page.when[c].of]))
  BY <1>5, Zenon
<1>8. ASSUME NEW c \in Controls
      PROVE  c \in Present(ans) <=>
               Holds(ans, page.show[c]) /\ (page.when[c] # None => page.when[c].of \in Present(ans))
  <2>1. page.when[c] # None => (page.when[c].of \in Present(ans) <=> present[page.when[c].of])
    BY <1>1, <1>6, Zenon
  <2>2. c \in Present(ans) <=> present[c]
    BY <1>6, Zenon
  <2>3. QED
    BY <1>7, <2>1, <2>2, Zenon
<1>9. QED
  BY <1>6, <1>8, Zenon

-----------------------------------------------------------------------------
(* What the checks of a page find *)

Types == {"required", "value", "date.missing", "date.invalid"} \cup Range(page.limits)
AllErrors == [control : Controls, type : Types]
About(c) == {e \in AllErrors : e.control = c}
ErrorsOf(c, types) == [i \in DOMAIN types |-> Error(c, types[i])]

LEMMA OfControlIs ==
  ASSUME NEW es \in Seq(AllErrors), NEW c
  PROVE  /\ OfControl(es, c) = Only(es, About(c))
         /\ OfControl(es, c) \in Seq(AllErrors)
         /\ ToSet(OfControl(es, c)) = ToSet(es) \cap About(c)
<1> DEFINE named == {e \in ToSet(es) : e.control = c}
<1>1. ToSet(es) \subseteq AllErrors
  BY DEF ToSet
<1>2. ToSet(es) \cap named = ToSet(es) \cap About(c)
  BY <1>1 DEF About
<1>3. OfControl(es, c) = Only(es, named)
  BY DEF OfControl
<1> HIDE DEF named
<1>4. Only(es, named) = Only(es, About(c))
  BY <1>2, OnlySame
<1>5. QED
  BY <1>3, <1>4, OnlyIs

LEMMA ErrorsOfIs ==
  ASSUME NEW c \in Controls, NEW types \in Seq(Types)
  PROVE  /\ ErrorsOf(c, types) \in Seq(AllErrors)
         /\ ToSet(ErrorsOf(c, types)) \subseteq About(c)
         /\ \A d : d # c => ToSet(ErrorsOf(c, types)) \cap About(d) = {}
         /\ ErrorsOf(c, types) = <<>> <=> types = <<>>
<1>1. PICK n \in Nat : DOMAIN types = 1..n /\ \A i \in 1..n : types[i] \in Types
  OBVIOUS
<1>2. \A i \in 1..n : Error(c, types[i]) \in AllErrors /\ Error(c, types[i]).control = c
  BY <1>1 DEF Error, AllErrors
<1>3. ErrorsOf(c, types) = [i \in 1..n |-> Error(c, types[i])]
  BY <1>1 DEF ErrorsOf
<1>4. ErrorsOf(c, types) \in Seq(AllErrors)
  BY <1>2, <1>3
<1>5. \A e \in ToSet(ErrorsOf(c, types)) : e \in AllErrors /\ e.control = c
  BY <1>2, <1>3 DEF ToSet
<1>6. ErrorsOf(c, types) = <<>> <=> types = <<>>
  <2>1. ErrorsOf(c, types) = <<>> <=> n = 0
    BY <1>3
  <2>2. types = <<>> <=> n = 0
    BY <1>1
  <2>3. QED
    BY <2>1, <2>2
<1>7. QED
  BY <1>4, <1>5, <1>6 DEF About

\* The errors of a control among those of an order: those of the types that it has.
LEMMA ErrorsIs ==
  ASSUME NEW cs \in SUBSET Controls, NEW order \in Seq(cs), Distinct(order),
         NEW types, DOMAIN types = cs, \A c \in cs : types[c] \in Seq(Types)
  PROVE  /\ Errors(order, types) \in Seq(AllErrors)
         /\ \A c \in Controls :
              OfControl(Errors(order, types), c) =
                IF c \in ToSet(order) THEN ErrorsOf(c, types[c]) ELSE <<>>
<1> DEFINE lists == [c \in cs |-> ErrorsOf(c, types[c])]
<1>1. Errors(order, types) = Joined(order, lists)
  BY DEF Errors, ErrorsOf
<1>2. \A c \in cs : lists[c] = ErrorsOf(c, types[c])
  OBVIOUS
<1> HIDE DEF lists
<1>3. AreLists(lists, cs, AllErrors)
  <2>1. \A c \in cs : ErrorsOf(c, types[c]) \in Seq(AllErrors)
    BY ErrorsOfIs
  <2>2. QED
    BY <1>2, <2>1 DEF AreLists
<1>4. Errors(order, types) \in Seq(AllErrors)
  BY <1>1, <1>3, JoinedIs
<1>5. ASSUME NEW c \in Controls
      PROVE  OfControl(Errors(order, types), c) =
               IF c \in ToSet(order) THEN ErrorsOf(c, types[c]) ELSE <<>>
  <2>1. ASSUME NEW y \in cs
        PROVE  (y = c => ToSet(lists[y]) \subseteq About(c)) /\ (y # c => ToSet(lists[y]) \cap About(c) = {})
    <3>2. y \in Controls /\ types[y] \in Seq(Types) /\ lists[y] = ErrorsOf(y, types[y])
      BY <1>2
    <3>3. ToSet(lists[y]) \subseteq About(y) /\ \A d : d # y => ToSet(lists[y]) \cap About(d) = {}
      BY <3>2, ErrorsOfIs
    <3>4. QED
      BY <3>3
  <2>2. Only(Joined(order, lists), About(c)) = IF c \in ToSet(order) THEN lists[c] ELSE <<>>
    <3>1. Tells(c, About(c), lists, cs)
      BY <2>1 DEF Tells
    <3>2. QED
      BY <1>3, <3>1, JoinedOnly
  <2>3. ToSet(order) \subseteq cs
    BY DEF ToSet
  <2>4. OfControl(Errors(order, types), c) = Only(Joined(order, lists), About(c))
    BY <1>1, <1>4, OfControlIs
  <2>5. QED
    BY <1>2, <2>2, <2>3, <2>4
<1>6. QED
  BY <1>4, <1>5

LEMMA TypesAre ==
  ASSUME IsPage(page), NEW ans, NEW c
  PROVE  /\ RequiredTypes(ans, c) \in Seq(Types)
         /\ ValueTypes(ans, c) \in Seq(Types)
         /\ DateTypes(ans, c) \in Seq(Types)
<1>1. <<>> \in Seq(Types)
  OBVIOUS
<1>2. RequiredTypes(ans, c) \in Seq(Types)
  <2>1. <<"required">> \in Seq(Types)
    BY DEF Types
  <2>2. QED
    BY <1>1, <2>1 DEF RequiredTypes
<1>3. ValueTypes(ans, c) \in Seq(Types)
  <2>1. <<"value">> \in Seq(Types)
    BY DEF Types
  <2>2. QED
    BY <1>1, <2>1 DEF ValueTypes
<1>4. DateTypes(ans, c) \in Seq(Types)
  <2>1. <<"date.missing">> \in Seq(Types) /\ <<"date.invalid">> \in Seq(Types)
    BY DEF Types
  <2>2. page.limits \in Seq(Types)
    <3>1. page.limits \in Seq(Range(page.limits) \ {"required"})
      BY DEF IsPage
    <3>2. ToSet(page.limits) \subseteq Types
      BY DEF ToSet, Types, Range
    <3>3. QED
      BY <3>1, <3>2, SeqWithin
  <2> DEFINE filled == {part \in page.parts : ans[c][part] # Blank}
             types == DateTypes(ans, c)
  <2>3. types = CASE filled = {} -> RequiredTypes(ans, c)
                  [] filled # {} /\ filled # page.parts -> <<"date.missing">>
                  [] filled = page.parts /\ ~Real(ans[c]) -> <<"date.invalid">>
                  [] filled = page.parts /\ Real(ans[c]) /\ ans[c]["year"] = Late -> page.limits
                  [] OTHER -> <<>>
    BY DEF DateTypes
  <2> HIDE DEF types, filled
  <2>4. types \in {RequiredTypes(ans, c), <<"date.missing">>, <<"date.invalid">>, page.limits, <<>>}
    BY <2>3
  <2>5. QED
    BY <1>1, <1>2, <2>1, <2>2, <2>4 DEF types
<1>5. QED
  BY <1>2, <1>3, <1>4

\* The errors of one control, in the order of the three checks.
Found(ans, c) ==
  ErrorsOf(c, RequiredTypes(ans, c)) \o ErrorsOf(c, ValueTypes(ans, c))
    \o ErrorsOf(c, IF Is(c, "date") THEN DateTypes(ans, c) ELSE <<>>)

LEMMA ValidateIs ==
  ASSUME IsPage(page), NEW ans, NEW cs \in SUBSET Controls
  PROVE  /\ Validate(ans, cs) \in Seq(AllErrors)
         /\ \A c \in Controls :
              OfControl(Validate(ans, cs), c) = IF c \in cs THEN Found(ans, c) ELSE <<>>
<1> DEFINE groups == {c \in cs : Is(c, "checkboxes")}
           dates == {c \in cs : Is(c, "date")}
           names == Only(Visit(cs), cs \ groups)
           boxes == Only(Visit(cs), groups)
           ofDates == Only(names, dates)
           required == Errors(names \o boxes, [c \in cs |-> RequiredTypes(ans, c)])
           value == Errors(names, [c \in cs |-> ValueTypes(ans, c)])
           date == Errors(ofDates, [c \in dates |-> DateTypes(ans, c)])
<1>1. Validate(ans, cs) = required \o value \o date
  BY DEF Validate
<1>2. Visit(cs) \in Seq(cs) /\ ToSet(Visit(cs)) = cs /\ Distinct(Visit(cs))
  BY VisitIs
<1>3. groups \subseteq cs /\ dates \subseteq cs /\ groups \cap dates = {}
  BY DEF Is
<1>4. names \in Seq(cs) /\ ToSet(names) = cs \ groups /\ Distinct(names)
  <2> HIDE DEF groups
  <2>1. cs \cap (cs \ groups) = cs \ groups
    OBVIOUS
  <2>2. QED
    BY <1>2, <2>1, OnlyDistinct
<1>5. boxes \in Seq(cs) /\ ToSet(boxes) = groups /\ Distinct(boxes)
  <2>1. cs \cap groups = groups
    BY <1>3
  <2> HIDE DEF groups
  <2>2. boxes \in Seq(cs) /\ ToSet(boxes) = ToSet(Visit(cs)) \cap groups /\ Distinct(boxes)
    BY <1>2, OnlyDistinct
  <2> HIDE DEF boxes
  <2>3. QED
    BY <1>2, <2>1, <2>2
<1>6. ofDates \in Seq(dates) /\ ToSet(ofDates) = dates /\ Distinct(ofDates)
  <2>1. (cs \ groups) \cap dates = dates
    BY <1>3
  <2> HIDE DEF groups, dates, names
  <2>2. ofDates \in Seq(cs) /\ ToSet(ofDates) = ToSet(names) \cap dates /\ Distinct(ofDates)
    BY <1>4, OnlyDistinct
  <2> HIDE DEF ofDates
  <2>3. ToSet(ofDates) = dates
    BY <1>4, <2>1, <2>2
  <2>4. QED
    BY <2>2, <2>3, SeqWithin
<1>7. names \o boxes \in Seq(cs) /\ ToSet(names \o boxes) = cs /\ Distinct(names \o boxes)
  <2>1. (cs \ groups) \cup groups = cs /\ (cs \ groups) \cap groups = {}
    BY <1>3
  <2> HIDE DEF groups, names, boxes
  <2>2. names \o boxes \in Seq(cs) /\ ToSet(names \o boxes) = ToSet(names) \cup ToSet(boxes)
    BY <1>4, <1>5, ConcatIs
  <2>3. InOrder(names, {})
    BY DEF InOrder
  <2>4. Distinct(names \o boxes)
    BY <1>4, <1>5, <2>1, <2>3, ConcatOrder
  <2>5. QED
    BY <1>4, <1>5, <2>1, <2>2, <2>4
<1>8. dates \in SUBSET Controls
  BY <1>3
<1>9. /\ required \in Seq(AllErrors)
      /\ \A c \in Controls :
           OfControl(required, c) = IF c \in cs THEN ErrorsOf(c, RequiredTypes(ans, c)) ELSE <<>>
  <2> DEFINE types == [c \in cs |-> RequiredTypes(ans, c)]
             order == names \o boxes
  <2>1. DOMAIN types = cs /\ \A c \in cs : types[c] = RequiredTypes(ans, c) /\ types[c] \in Seq(Types)
    BY TypesAre
  <2> HIDE DEF types, names, boxes, order
  <2>2. Distinct(order) /\ order \in Seq(cs) /\ ToSet(order) = cs
    BY <1>7 DEF order
  <2>3. /\ Errors(order, types) \in Seq(AllErrors)
        /\ \A c \in Controls :
             OfControl(Errors(order, types), c) = IF c \in ToSet(order) THEN ErrorsOf(c, types[c]) ELSE <<>>
    BY <2>1, <2>2, ErrorsIs
  <2>4. Errors(order, types) = required
    BY DEF types, order
  <2>5. QED
    BY <2>1, <2>2, <2>3, <2>4
<1>10. /\ value \in Seq(AllErrors)
       /\ \A c \in Controls :
            OfControl(value, c) = IF c \in cs \ groups THEN ErrorsOf(c, ValueTypes(ans, c)) ELSE <<>>
  <2> DEFINE types == [c \in cs |-> ValueTypes(ans, c)]
  <2>1. DOMAIN types = cs /\ \A c \in cs : types[c] = ValueTypes(ans, c) /\ types[c] \in Seq(Types)
    BY TypesAre
  <2> HIDE DEF types, names, groups
  <2>2. /\ Errors(names, types) \in Seq(AllErrors)
        /\ \A c \in Controls :
             OfControl(Errors(names, types), c) = IF c \in ToSet(names) THEN ErrorsOf(c, types[c]) ELSE <<>>
    BY <1>4, <2>1, ErrorsIs
  <2>3. Errors(names, types) = value
    BY DEF types
  <2>4. QED
    BY <1>4, <2>1, <2>2, <2>3
<1>11. /\ date \in Seq(AllErrors)
       /\ \A c \in Controls :
            OfControl(date, c) = IF c \in dates THEN ErrorsOf(c, DateTypes(ans, c)) ELSE <<>>
  <2> DEFINE types == [c \in dates |-> DateTypes(ans, c)]
  <2>1. DOMAIN types = dates /\ \A c \in dates : types[c] = DateTypes(ans, c) /\ types[c] \in Seq(Types)
    BY TypesAre
  <2> HIDE DEF types, ofDates, dates
  <2>2. /\ Errors(ofDates, types) \in Seq(AllErrors)
        /\ \A c \in Controls :
             OfControl(Errors(ofDates, types), c) = IF c \in ToSet(ofDates) THEN ErrorsOf(c, types[c]) ELSE <<>>
    BY <1>6, <1>8, <2>1, ErrorsIs
  <2>3. Errors(ofDates, types) = date
    BY DEF types
  <2>4. QED
    BY <1>6, <2>1, <2>2, <2>3
<1> HIDE DEF required, value, date
<1>12. required \o value \o date \in Seq(AllErrors) /\ required \o value \in Seq(AllErrors)
  BY <1>9, <1>10, <1>11
<1>13. ASSUME NEW c \in Controls
       PROVE  OfControl(required \o value \o date, c) =
                OfControl(required, c) \o OfControl(value, c) \o OfControl(date, c)
  <2> DEFINE both == required \o value
  <2>1. Only(both \o date, About(c)) = Only(both, About(c)) \o Only(date, About(c))
    <3>1. both \in Seq(AllErrors) /\ date \in Seq(AllErrors)
      BY <1>11, <1>12
    <3> HIDE DEF both
    <3>2. QED
      BY <3>1, OnlyConcat
  <2>2. Only(required \o value, About(c)) = Only(required, About(c)) \o Only(value, About(c))
    BY <1>9, <1>10, OnlyConcat
  <2>3. /\ OfControl(required \o value \o date, c) = Only(required \o value \o date, About(c))
        /\ OfControl(required, c) = Only(required, About(c))
        /\ OfControl(value, c) = Only(value, About(c))
        /\ OfControl(date, c) = Only(date, About(c))
    BY <1>9, <1>10, <1>11, <1>12, OfControlIs
  <2>4. QED
    BY <2>1, <2>2, <2>3
<1>14. ASSUME NEW c \in Controls
       PROVE  OfControl(Validate(ans, cs), c) = IF c \in cs THEN Found(ans, c) ELSE <<>>
  <2>1. OfControl(Validate(ans, cs), c) = OfControl(required, c) \o OfControl(value, c) \o OfControl(date, c)
    BY <1>1, <1>13
  <2>2. ErrorsOf(c, <<>>) = <<>>
    BY DEF ErrorsOf
  <2>3. CASE c \in cs
    <3>1. OfControl(value, c) = ErrorsOf(c, ValueTypes(ans, c))
      <4>1. CASE c \in groups
        <5>1. ValueTypes(ans, c) = <<>>
          BY <4>1 DEF ValueTypes, Is
        <5>2. QED
          BY <1>10, <2>2, <4>1, <5>1
      <4>2. CASE c \notin groups
        BY <1>10, <2>3, <4>2
      <4>3. QED
        BY <4>1, <4>2
    <3>2. OfControl(date, c) = ErrorsOf(c, IF Is(c, "date") THEN DateTypes(ans, c) ELSE <<>>)
      <4>1. c \in dates <=> Is(c, "date")
        BY <2>3
      <4> HIDE DEF dates
      <4>2. QED
        BY <1>11, <2>2, <4>1
    <3>3. OfControl(required, c) = ErrorsOf(c, RequiredTypes(ans, c))
      BY <1>9, <2>3
    <3>4. QED
      BY <2>1, <2>3, <3>1, <3>2, <3>3 DEF Found
  <2>4. CASE c \notin cs
    <3>1. OfControl(required, c) = <<>> /\ OfControl(value, c) = <<>> /\ OfControl(date, c) = <<>>
      BY <1>3, <1>9, <1>10, <1>11, <2>4
    <3>2. QED
      BY <2>1, <2>4, <3>1
  <2>5. QED
    BY <2>3, <2>4
<1>15. QED
  BY <1>1, <1>12, <1>14

LEMMA ConcatEmpty ==
  ASSUME NEW T, NEW s \in Seq(T), NEW t \in Seq(T)
  PROVE  s \o t = <<>> <=> s = <<>> /\ t = <<>>
<1>1. Len(s \o t) = Len(s) + Len(t) /\ Len(s) \in Nat /\ Len(t) \in Nat /\ s \o t \in Seq(T)
  OBVIOUS
<1>2. \A u \in Seq(T) : u = <<>> <=> Len(u) = 0
  OBVIOUS
<1>3. QED
  BY <1>1, <1>2

LEMMA NoErrors ==
  ASSUME NEW es \in Seq(AllErrors)
  PROVE  es = <<>> <=> \A c \in Controls : OfControl(es, c) = <<>>
<1>1. ASSUME es = <<>>
      PROVE  \A c \in Controls : OfControl(es, c) = <<>>
  <2>1. \A c \in Controls : OfControl(es, c) = Only(es, About(c))
    BY OfControlIs
  <2>2. QED
    BY <1>1, <2>1, OnlyEmpty
<1>2. ASSUME es # <<>>
      PROVE  \E c \in Controls : OfControl(es, c) # <<>>
  <2>1. 1 \in DOMAIN es /\ es[1] \in AllErrors
    BY <1>2
  <2>2. es[1] \in ToSet(es)
    BY <2>1 DEF ToSet
  <2> DEFINE c == es[1].control
  <2>3. c \in Controls /\ es[1] \in About(c)
    BY <2>1 DEF AllErrors, About
  <2> HIDE DEF c
  <2>4. es[1] \in ToSet(OfControl(es, c))
    BY <2>2, <2>3, OfControlIs
  <2>5. OfControl(es, c) # <<>>
    BY <2>4, EmptyOrder
  <2>6. QED
    BY <2>3, <2>5
<1>3. QED
  BY <1>1, <1>2

\* What an answer of a control may be.
IsAnswer(c, v) ==
  /\ Is(c, "date") => v = [part \in page.parts |-> v[part]]
  /\ c \in page.redacted => v \in DOMAIN page.mask

LEMMA FoundNothing ==
  ASSUME IsPage(page), NEW ans, NEW c \in Controls, IsAnswer(c, ans[c])
  PROVE  Found(ans, c) = <<>> <=> Complete(ans, {c})
<1> DEFINE dateTypes == IF Is(c, "date") THEN DateTypes(ans, c) ELSE <<>>
           required == RequiredTypes(ans, c)
           value == ValueTypes(ans, c)
<1>1. required \in Seq(Types) /\ value \in Seq(Types) /\ dateTypes \in Seq(Types)
  <2>1. <<>> \in Seq(Types)
    OBVIOUS
  <2>2. QED
    BY <2>1, TypesAre
<1>2. Found(ans, c) = ErrorsOf(c, required) \o ErrorsOf(c, value) \o ErrorsOf(c, dateTypes)
  BY DEF Found
<1> HIDE DEF dateTypes, required, value
<1>3. Found(ans, c) = <<>> <=> required = <<>> /\ value = <<>> /\ dateTypes = <<>>
  <2>1. /\ ErrorsOf(c, required) \in Seq(AllErrors)
        /\ ErrorsOf(c, value) \in Seq(AllErrors)
        /\ ErrorsOf(c, dateTypes) \in Seq(AllErrors)
    BY <1>1, ErrorsOfIs
  <2>2. ErrorsOf(c, required) \o ErrorsOf(c, value) \in Seq(AllErrors)
    BY <2>1
  <2>3. Found(ans, c) = <<>> <=>
          ErrorsOf(c, required) \o ErrorsOf(c, value) = <<>> /\ ErrorsOf(c, dateTypes) = <<>>
    BY <1>2, <2>1, <2>2, ConcatEmpty
  <2>4. ErrorsOf(c, required) \o ErrorsOf(c, value) = <<>> <=>
          ErrorsOf(c, required) = <<>> /\ ErrorsOf(c, value) = <<>>
    BY <2>1, ConcatEmpty
  <2>5. /\ ErrorsOf(c, required) = <<>> <=> required = <<>>
        /\ ErrorsOf(c, value) = <<>> <=> value = <<>>
        /\ ErrorsOf(c, dateTypes) = <<>> <=> dateTypes = <<>>
    BY <1>1, ErrorsOfIs
  <2>6. QED
    BY <2>3, <2>4, <2>5
<1>4. \A x : <<x>> # <<>>
  OBVIOUS
<1>5. required = <<>> <=> (c \in page.required /\ ~Hidden(ans, c) => ans[c] # NoAnswer(c))
  BY <1>4 DEF required, RequiredTypes, IsRequired
<1>6. value = <<>> <=> (page.kind[c] \in {"text", "radios"} => ans[c] \notin Wrong)
  BY <1>4 DEF value, ValueTypes
<1>7. ASSUME required = <<>>
      PROVE  dateTypes = <<>> <=>
               (Is(c, "date") /\ ans[c] # NoAnswer(c) =>
                  Blank \notin Range(ans[c]) /\ Real(ans[c]) /\ (page.limits # <<>> => ans[c]["year"] # Late))
  <2>1. CASE ~Is(c, "date")
    BY <2>1 DEF dateTypes
  <2>2. CASE Is(c, "date")
    <3> DEFINE filled == {part \in page.parts : ans[c][part] # Blank}
               v == ans[c]
               types == DateTypes(ans, c)
    <3>1. dateTypes = types
      BY <2>2 DEF dateTypes
    <3>2. v = [part \in page.parts |-> v[part]] /\ NoAnswer(c) = [part \in page.parts |-> Blank]
      BY <2>2 DEF IsAnswer, NoAnswer, Is
    <3>3. v = NoAnswer(c) <=> filled = {}
      <4>1. ASSUME filled = {}
            PROVE  v = NoAnswer(c)
        BY <3>2, <4>1
      <4>2. ASSUME v = NoAnswer(c)
            PROVE  filled = {}
        BY <3>2, <4>2
      <4>3. QED
        BY <4>1, <4>2
    <3>4. Blank \notin Range(v) <=> filled = page.parts
      BY <3>2 DEF Range
    <3>5. types = CASE filled = {} -> required
                    [] filled # {} /\ filled # page.parts -> <<"date.missing">>
                    [] filled = page.parts /\ ~Real(v) -> <<"date.invalid">>
                    [] filled = page.parts /\ Real(v) /\ v["year"] = Late -> page.limits
                    [] OTHER -> <<>>
      BY DEF DateTypes, required
    <3>6. page.parts # {}
      <4>1. PICK i \in DOMAIN page.controls : page.controls[i] = c
        BY DEF Controls, Range
      <4>2. QED
        BY <2>2 DEF IsPage, Is, Controls
    <3> HIDE DEF filled, types
    <3>7. CASE filled = {}
      <4>1. types = required
        BY <3>5, <3>6, <3>7
      <4>2. QED
        BY <1>7, <3>1, <3>3, <3>7, <4>1
    <3>8. CASE filled # {} /\ filled # page.parts
      <4>1. types = <<"date.missing">>
        BY <3>5, <3>8
      <4>2. QED
        BY <1>4, <2>2, <3>1, <3>3, <3>4, <3>8, <4>1
    <3>9. CASE filled # {} /\ filled = page.parts /\ ~Real(v)
      <4>1. types = <<"date.invalid">>
        BY <3>5, <3>9
      <4>2. QED
        BY <1>4, <2>2, <3>1, <3>3, <3>9, <4>1
    <3>10. CASE filled # {} /\ filled = page.parts /\ Real(v) /\ v["year"] = Late
      <4>1. types = page.limits
        BY <3>5, <3>10
      <4>2. QED
        BY <2>2, <3>1, <3>3, <3>4, <3>10, <4>1
    <3>11. CASE filled # {} /\ filled = page.parts /\ Real(v) /\ v["year"] # Late
      <4>1. types = <<>>
        BY <3>5, <3>11
      <4>2. QED
        BY <2>2, <3>1, <3>3, <3>4, <3>11, <4>1
    <3>12. QED
      BY <3>7, <3>8, <3>9, <3>10, <3>11
  <2>3. QED
    BY <2>1, <2>2
<1>8. QED
  BY <1>3, <1>5, <1>6, <1>7 DEF Complete

\* Nothing is found on a page exactly when it is complete.
LEMMA ValidatedIs ==
  ASSUME IsPage(page), NEW ans, NEW cs \in SUBSET Controls, \A c \in cs : IsAnswer(c, ans[c])
  PROVE  Validate(ans, cs) = <<>> <=> Complete(ans, cs)
<1>1. /\ Validate(ans, cs) \in Seq(AllErrors)
      /\ \A c \in Controls :
           OfControl(Validate(ans, cs), c) = IF c \in cs THEN Found(ans, c) ELSE <<>>
  BY ValidateIs
<1>2. Validate(ans, cs) = <<>> <=> \A c \in cs : Found(ans, c) = <<>>
  BY <1>1, NoErrors
<1>3. \A c \in cs : Found(ans, c) = <<>> <=> Complete(ans, {c})
  BY FoundNothing
<1>4. Complete(ans, cs) <=> \A c \in cs : Complete(ans, {c})
  BY DEF Complete
<1>5. QED
  BY <1>2, <1>3, <1>4

-----------------------------------------------------------------------------
(* What a post stores *)

Posted(cs, fields) == [c \in cs |-> IF c \in DOMAIN fields THEN fields[c] ELSE NoAnswer(c)]

\* What becomes of the answer old when v is posted.
Updated(c, old, v) == IF c \in page.redacted /\ v # Blank /\ v = Mask(c, old) THEN old ELSE v

Maps(f, A, D) == f \in [A -> D]

\* after has what a post of v for c makes of before, and the rest of it.
Stores(before, after, c, v, A) ==
  /\ \A d \in A : d # c => after[d] = before[d]
  /\ after[c] = Updated(c, before[c], v)

\* What is stored of a post is what is posted, or nothing if the control is hidden.
Kept(s, c, posted) == IF Hidden(s, c) THEN NoAnswer(c) ELSE posted[c]

LEMMA ProcessControlIs ==
  ASSUME NEW A, NEW D, NEW s, Maps(s, A, D), NEW cs \in SUBSET A, NEW c \in cs,
         NEW posted, Maps(posted, cs, D), NoAnswer(c) \in D
  PROVE  /\ Maps(ProcessControl(s, c, posted), A, D)
         /\ Stores(s, ProcessControl(s, c, posted), c, Kept(s, c, posted), A)
<1> DEFINE v == Kept(s, c, posted)
<1>1. v \in D /\ s \in [A -> D] /\ c \in A
  BY DEF Maps, Kept
<1>2. ProcessControl(s, c, posted) = UpdateValue(s, c, v)
  BY DEF ProcessControl, Kept
<1> HIDE DEF v
<1>3. CASE c \in page.redacted /\ v # Blank /\ v = Mask(c, s[c])
  <2>1. UpdateValue(s, c, v) = s /\ Updated(c, s[c], v) = s[c]
    BY <1>3 DEF UpdateValue, Updated
  <2>2. QED
    BY <1>1, <1>2, <2>1 DEF v, Maps, Stores
<1>4. CASE ~(c \in page.redacted /\ v # Blank /\ v = Mask(c, s[c]))
  <2>1. UpdateValue(s, c, v) = [s EXCEPT ![c] = v] /\ Updated(c, s[c], v) = v
    BY <1>4 DEF UpdateValue, Updated
  <2>2. [s EXCEPT ![c] = v] \in [A -> D]
    BY <1>1
  <2>3. /\ [s EXCEPT ![c] = v][c] = v
        /\ \A d \in A : d # c => [s EXCEPT ![c] = v][d] = s[d]
    BY <1>1
  <2>4. QED
    BY <1>2, <2>1, <2>2, <2>3 DEF v, Maps, Stores
<1>5. QED
  BY <1>3, <1>4

ProcessedBy(processed, ans, cs, fields, A, D) ==
  LET order == Visit(cs) IN
  /\ processed \in [0..Len(order) -> [A -> D]]
  /\ processed[0] = ans
  /\ \A i \in 1..Len(order) :
       processed[i] = ProcessControl(processed[i - 1], order[i], Posted(cs, fields))
  /\ ProcessInput(ans, cs, fields) = processed[Len(order)]

LEMMA ProcessRecurs ==
  ASSUME IsPage(page), NEW A, NEW D, NEW ans \in [A -> D], NEW cs \in SUBSET Controls, Controls \subseteq A,
         NEW fields, Posted(cs, fields) \in [cs -> D], \A c \in cs : NoAnswer(c) \in D
  PROVE  \E processed : ProcessedBy(processed, ans, cs, fields, A, D)
<1> DEFINE order == Visit(cs)
           n == Len(order)
           V == [A -> D]
           posted == Posted(cs, fields)
           G == [x \in (1..n) \X V |-> ProcessControl(x[2], order[x[1]], posted)]
           Processes(f) == f = [i \in 0..n |->
                             IF i = 0 THEN ans ELSE ProcessControl(f[i - 1], order[i], posted)]
           processed == CHOOSE f : Processes(f)
<1>1. ProcessInput(ans, cs, fields) = processed[n]
  BY DEF ProcessInput, Posted
<1>2. n \in Nat /\ \A i \in 1..n : order[i] \in cs
  <2>1. order \in Seq(cs)
    BY VisitIs
  <2> HIDE DEF order
  <2>2. QED
    BY <2>1
<1>3. posted \in [cs -> D] /\ cs \in SUBSET A /\ \A c \in cs : NoAnswer(c) \in D
  OBVIOUS
<1> HIDE DEF order, n, posted, processed
<1>4. G \in [(1..n) \X V -> V]
  <2>1. ASSUME NEW i \in 1..n, NEW s \in V
        PROVE  ProcessControl(s, order[i], posted) \in V
    <3>1. Maps(s, A, D) /\ Maps(posted, cs, D)
      BY <1>3 DEF Maps
    <3>2. Maps(ProcessControl(s, order[i], posted), A, D)
      BY <1>2, <1>3, <3>1, ProcessControlIs
    <3>3. QED
      BY <3>2 DEF Maps
  <2>2. QED
    BY <2>1
<1>5. PICK f : f \in [0..n -> V] /\ f[0] = ans /\ \A i \in 1..n : f[i] = G[<<i, f[i - 1]>>]
  <2>1. ans \in V
    OBVIOUS
  <2> HIDE DEF V, G
  <2>2. \E f : Recurs(f, n, V, ans, G)
    BY <1>2, <1>4, <2>1, ListRecursion
  <2>3. QED
    BY <2>2 DEF Recurs
<1>6. ASSUME NEW i \in 1..n
      PROVE  /\ i - 1 \in 0..n /\ i \in 0..n /\ i # 0
             /\ f[i] = ProcessControl(f[i - 1], order[i], posted)
  <2>1. i - 1 \in 0..n /\ i \in 0..n /\ i # 0
    BY <1>2
  <2>2. f[i - 1] \in V
    <3> HIDE DEF V, G
    <3>1. QED
      BY <1>5, <2>1
  <2>3. QED
    BY <1>5, <2>1, <2>2
<1>7. Processes(f)
  <2> HIDE DEF G, V
  <2>1. \A i \in 0..n : i = 0 \/ i \in 1..n
    BY <1>2
  <2>2. \A i \in 0..n : f[i] = IF i = 0 THEN ans ELSE ProcessControl(f[i - 1], order[i], posted)
    BY <1>5, <1>6, <2>1
  <2>3. QED
    BY <1>5, <2>2
<1>8. Processes(processed)
  <2> HIDE DEF Processes
  <2>1. QED
    BY <1>7 DEF processed
<1>9. processed = f
  <2> DEFINE Good == {i \in 0..n : processed[i] = f[i]}
  <2>1. 0 \in Good
    BY <1>2, <1>7, <1>8
  <2>2. ASSUME NEW i \in 1..n, i - 1 \in Good
        PROVE  i \in Good
    <3>1. i \in 0..n /\ i # 0 /\ processed[i - 1] = f[i - 1]
      BY <1>6, <2>2
    <3>2. processed[i] = ProcessControl(processed[i - 1], order[i], posted)
      BY <1>8, <3>1
    <3>3. QED
      BY <1>6, <3>1, <3>2
  <2>3. Good \in SUBSET (0..n)
    OBVIOUS
  <2>4. Good = 0..n
    <3> HIDE DEF Good
    <3>1. QED
      BY <1>2, <2>1, <2>2, <2>3, IndexInduction
  <2>5. processed = [i \in 0..n |-> processed[i]] /\ f = [i \in 0..n |-> f[i]]
    BY <1>5, <1>8
  <2>6. \A i \in 0..n : processed[i] = f[i]
    BY <2>4
  <2>7. QED
    BY <2>5, <2>6
<1> HIDE DEF G
<1>10. ProcessedBy(f, ans, cs, fields, A, D)
  BY <1>1, <1>5, <1>6, <1>9 DEF ProcessedBy, order, n, posted
<1>11. QED
  BY <1>10

\* What is there for a condition to see.
LEMMA HiddenSame ==
  ASSUME NEW ans, NEW other, NEW c, page.when[c] # None => ans[page.when[c].of] = other[page.when[c].of]
  PROVE  Hidden(ans, c) <=> Hidden(other, c)
BY DEF Hidden, Holds, ItemsChecked

\* A post stores for each control that is present what the post has for it, or nothing if
\* the control is hidden by the answers as they are after the post, and leaves the others
\* as they were.
LEMMA ProcessIs ==
  ASSUME IsPage(page), NEW A, NEW D, NEW ans \in [A -> D], NEW cs \in SUBSET Controls, Controls \subseteq A,
         NEW fields, Posted(cs, fields) \in [cs -> D], \A c \in cs : NoAnswer(c) \in D
  PROVE  LET stored == ProcessInput(ans, cs, fields) IN
         /\ stored \in [A -> D]
         /\ \A d \in A \ cs : stored[d] = ans[d]
         /\ \A c \in cs :
              stored[c] = Updated(c, ans[c], Kept(stored, c, Posted(cs, fields)))
<1> DEFINE order == Visit(cs)
           n == Len(order)
           posted == Posted(cs, fields)
<1>1. PICK p : ProcessedBy(p, ans, cs, fields, A, D)
  BY ProcessRecurs
<1>2. /\ order \in Seq(cs) /\ ToSet(order) = cs
      /\ Distinct(order) /\ InOrder(order, Parents)
  BY VisitIs
<1> HIDE DEF order
<1>3. n \in Nat /\ DOMAIN order = 1..n /\ \A i \in 1..n : order[i] \in cs
  BY <1>2
<1>4. /\ p \in [0..n -> [A -> D]] /\ p[0] = ans
      /\ \A i \in 1..n : p[i] = ProcessControl(p[i - 1], order[i], posted)
      /\ ProcessInput(ans, cs, fields) = p[n]
  BY <1>1 DEF ProcessedBy, order
<1> HIDE DEF n
<1>5. ASSUME NEW i \in 1..n
      PROVE  /\ i - 1 \in 0..n /\ i \in 0..n
             /\ p[i] \in [A -> D] /\ p[i - 1] \in [A -> D]
             /\ \A d \in A : d # order[i] => p[i][d] = p[i - 1][d]
             /\ p[i][order[i]] = Updated(order[i], p[i - 1][order[i]], Kept(p[i - 1], order[i], posted))
  <2>1. i - 1 \in 0..n /\ i \in 0..n
    BY <1>3
  <2>2. p[i - 1] \in [A -> D] /\ p[i] \in [A -> D]
    BY <1>4, <2>1
  <2> DEFINE c == order[i]
             before == p[i - 1]
  <2>3. c \in cs /\ NoAnswer(c) \in D /\ Maps(posted, cs, D) /\ cs \in SUBSET A
    BY <1>3 DEF Maps
  <2>4. p[i] = ProcessControl(before, c, posted)
    BY <1>4
  <2>5. Maps(before, A, D)
    BY <2>2 DEF Maps
  <2> HIDE DEF posted, c, before
  <2>6. Stores(before, p[i], c, Kept(before, c, posted), A)
    BY <2>3, <2>4, <2>5, ProcessControlIs
  <2>7. QED
    BY <2>1, <2>2, <2>6 DEF c, before, Stores
\* What is not visited in between stays.
<1>6. ASSUME NEW i \in 0..n, NEW d \in A, \A j \in 1..n : i < j => order[j] # d
      PROVE  p[n][d] = p[i][d]
  <2> DEFINE Good == {k \in 0..n : k >= i => p[k][d] = p[i][d]}
  <2>1. 0 \in Good
    BY <1>3
  <2>2. ASSUME NEW k \in 1..n, k - 1 \in Good
        PROVE  k \in Good
    <3>1. CASE k > i
      <4>1. order[k] # d /\ k - 1 >= i
        BY <1>3, <1>6, <3>1
      <4>2. p[k][d] = p[k - 1][d]
        BY <1>5, <4>1
      <4>3. QED
        BY <1>5, <2>2, <4>1, <4>2
    <3>2. CASE k <= i
      <4>1. k \in 0..n /\ (k >= i => k = i)
        BY <1>3, <3>2
      <4>2. QED
        BY <4>1
    <3>3. QED
      BY <1>3, <3>1, <3>2
  <2>3. Good \in SUBSET (0..n)
    OBVIOUS
  <2>4. Good = 0..n
    <3> HIDE DEF Good
    <3>1. QED
      BY <1>3, <2>1, <2>2, <2>3, IndexInduction
  <2>5. n \in Good
    BY <1>3, <2>4
  <2>6. QED
    BY <1>3, <2>5
<1>7. ASSUME NEW i \in 0..n, NEW d \in A, \A j \in 1..n : j <= i => order[j] # d
      PROVE  p[i][d] = ans[d]
  <2> DEFINE Good == {k \in 0..n : k <= i => p[k][d] = ans[d]}
  <2>1. 0 \in Good
    BY <1>3, <1>4
  <2>2. ASSUME NEW k \in 1..n, k - 1 \in Good
        PROVE  k \in Good
    <3>1. CASE k <= i
      <4>1. order[k] # d /\ k - 1 <= i
        BY <1>3, <1>7, <3>1
      <4>2. p[k][d] = p[k - 1][d]
        BY <1>5, <4>1
      <4>3. QED
        BY <1>5, <2>2, <4>1, <4>2
    <3>2. CASE k > i
      BY <1>5, <3>2
    <3>3. QED
      BY <3>1, <3>2
  <2>3. Good \in SUBSET (0..n)
    OBVIOUS
  <2>4. Good = 0..n
    <3> HIDE DEF Good
    <3>1. QED
      BY <1>3, <2>1, <2>2, <2>3, IndexInduction
  <2>5. i \in Good
    BY <2>4
  <2>6. QED
    BY <1>3, <2>5
<1>8. ASSUME NEW d \in A \ cs
      PROVE  p[n][d] = ans[d]
  <2>1. n \in 0..n /\ \A j \in 1..n : order[j] # d
    BY <1>3
  <2>2. QED
    BY <1>7, <2>1
<1>9. ASSUME NEW c \in cs
      PROVE  p[n][c] = Updated(c, ans[c], Kept(p[n], c, posted))
  <2>1. PICK i \in 1..n : order[i] = c
    BY <1>2, <1>3 DEF ToSet
  <2>2. \A j \in 1..n : order[j] = c => j = i
    BY <1>2, <1>3, <2>1 DEF Distinct
  <2>3. c \in A
    OBVIOUS
  <2>4. p[n][c] = p[i][c]
    <3>1. \A j \in 1..n : i < j => order[j] # c
      BY <1>3, <2>2
    <3>2. QED
      BY <1>5, <1>6, <2>3, <3>1
  <2>5. p[i - 1][c] = ans[c]
    <3>1. \A j \in 1..n : j <= i - 1 => order[j] # c
      BY <1>3, <2>2
    <3>2. QED
      BY <1>5, <1>7, <2>3, <3>1
  <2>6. Hidden(p[i - 1], c) <=> Hidden(p[n], c)
    <3>1. ASSUME page.when[c] # None
          PROVE  p[i - 1][page.when[c].of] = p[n][page.when[c].of]
      <4> DEFINE d == page.when[c].of
      <4>1. d \in Controls /\ c \in Controls
        BY <3>1, PageOrder
      <4>2. <<d, c>> \in Parents
        BY <3>1, <4>1 DEF Parents
      <4> HIDE DEF d
      <4>3. \A j \in 1..n : order[j] = d => j < i
        BY <1>2, <1>3, <2>1, <4>2 DEF InOrder
      <4>4. \A j \in 1..n : i - 1 < j => order[j] # d
        BY <1>3, <4>3
      <4>5. QED
        BY <1>5, <1>6, <4>1, <4>4 DEF d
    <3>2. QED
      BY <3>1, HiddenSame
  <2>7. p[i][c] = Updated(c, p[i - 1][c], Kept(p[i - 1], c, posted))
    BY <1>5, <2>1
  <2>8. Kept(p[i - 1], c, posted) = Kept(p[n], c, posted)
    BY <2>6 DEF Kept
  <2>9. QED
    BY <2>4, <2>5, <2>7, <2>8
<1>10. p[n] \in [A -> D]
  BY <1>3, <1>4
<1>11. QED
  BY <1>4, <1>8, <1>9, <1>10

-----------------------------------------------------------------------------
(* What is shown of errors *)

\* A set of indices has a greatest one.
LEMMA Greatest ==
  ASSUME NEW k \in Nat, NEW A \in SUBSET (1..k), A # {}
  PROVE  Max(A) \in A /\ \A n \in A : n <= Max(A)
<1> DEFINE B == {m \in 0..k : \E a \in A : m = k - a}
<1>1. B \in SUBSET Nat /\ B # {}
  <2>1. PICK a \in A : TRUE
    OBVIOUS
  <2>2. k - a \in B
    OBVIOUS
  <2>3. B \in SUBSET Nat
    OBVIOUS
  <2> HIDE DEF B
  <2>4. QED
    BY <2>2, <2>3
<1>2. PICK m \in B : \A n \in B : m <= n
  <2> HIDE DEF B
  <2>1. QED
    BY <1>1, Least
<1>3. PICK a \in A : m = k - a
  OBVIOUS
<1>4. ASSUME NEW n \in A
      PROVE  n <= a
  <2>1. k - n \in B
    OBVIOUS
  <2>2. m <= k - n
    BY <1>2, <2>1
  <2>3. QED
    BY <1>3, <2>2
<1>5. \E x \in A : \A y \in A : x >= y
  BY <1>4
<1>6. Max(A) \in A /\ \A y \in A : Max(A) >= y
  BY <1>5 DEF Max
<1>7. QED
  BY <1>6

\* The indices of the errors of c before i.
Earlier(es, i, c) == {j \in 1..(i - 1) : es[j].control = c}

LEMMA EarlierAppend ==
  ASSUME NEW es \in Seq(AllErrors), NEW x \in AllErrors, NEW i \in 1..(Len(es) + 1), NEW c
  PROVE  /\ Earlier(Append(es, x), i, c) = Earlier(es, i, c)
         /\ Earlier(es, i, c) # {} =>
              /\ Max(Earlier(es, i, c)) \in Earlier(es, i, c)
              /\ Append(es, x)[Max(Earlier(es, i, c))] = es[Max(Earlier(es, i, c))]
<1> DEFINE longer == Append(es, x)
           earlier == Earlier(es, i, c)
<1>1. \A j \in 1..Len(es) : longer[j] = es[j]
  OBVIOUS
<1>2. \A j \in 1..(i - 1) : j \in 1..Len(es)
  OBVIOUS
<1> HIDE DEF longer
<1>3. Earlier(longer, i, c) = earlier
  BY <1>1, <1>2 DEF Earlier
<1>4. earlier \in SUBSET (1..(i - 1)) /\ i - 1 \in Nat
  BY DEF Earlier
<1> HIDE DEF earlier
<1>5. earlier # {} => Max(earlier) \in earlier
  BY <1>4, Greatest
<1>6. earlier # {} => longer[Max(earlier)] = es[Max(earlier)]
  BY <1>1, <1>2, <1>4, <1>5
<1>7. QED
  BY <1>3, <1>5, <1>6 DEF longer, earlier

\* x is shown after the errors es: see checkErrorDisplay.
ShownAfter(es, x) ==
  LET own == OfControl(es, x.control)
  IN  own # <<>> => x.type # "required" /\ own[Len(own)].type # "required"

LEMMA OfControlAppend ==
  ASSUME NEW es \in Seq(AllErrors), NEW x \in AllErrors, NEW c
  PROVE  OfControl(Append(es, x), c) = IF x.control = c THEN Append(OfControl(es, c), x) ELSE OfControl(es, c)
<1>1. Append(es, x) \in Seq(AllErrors)
  OBVIOUS
<1>2. /\ OfControl(Append(es, x), c) = Only(Append(es, x), About(c))
      /\ OfControl(es, c) = Only(es, About(c))
  BY <1>1, OfControlIs
<1>3. Only(Append(es, x), About(c)) = IF x \in About(c) THEN Append(Only(es, About(c)), x) ELSE Only(es, About(c))
  BY OnlyAppend
<1>4. x \in About(c) <=> x.control = c
  BY DEF About
<1>5. QED
  BY <1>2, <1>3, <1>4

\* The last error of c is that with the greatest index.
LEMMA LastIs ==
  ASSUME NEW es \in Seq(AllErrors), NEW c
  PROVE  LET own == OfControl(es, c)
             indices == Earlier(es, Len(es) + 1, c)
         IN  /\ own = <<>> <=> indices = {}
             /\ own # <<>> => own[Len(own)] = es[Max(indices)]
<1> DEFINE Ends(s) == LET own == OfControl(s, c)
                          indices == Earlier(s, Len(s) + 1, c)
                      IN  /\ own = <<>> <=> indices = {}
                          /\ own # <<>> => own[Len(own)] = s[Max(indices)]
           Good == {s \in Seq(AllErrors) : Ends(s)}
<1>1. <<>> \in Good
  <2>1. <<>> \in Seq(AllErrors) /\ Len(<<>>) = 0
    OBVIOUS
  <2>2. OfControl(<<>>, c) = <<>>
    BY <2>1, OfControlIs, OnlyEmpty
  <2>3. Earlier(<<>>, 0 + 1, c) = {}
    BY DEF Earlier
  <2>4. QED
    BY <2>1, <2>2, <2>3
<1>2. ASSUME NEW s \in Good, NEW x \in AllErrors
      PROVE  Append(s, x) \in Good
  <2> DEFINE n == Len(s)
             longer == Append(s, x)
             own == OfControl(s, c)
             indices == Earlier(s, n + 1, c)
             more == Earlier(longer, n + 2, c)
  <2>1. s \in Seq(AllErrors) /\ longer \in Seq(AllErrors) /\ n \in Nat /\ Len(longer) = n + 1
        /\ longer[n + 1] = x /\ \A j \in 1..n : longer[j] = s[j]
    OBVIOUS
  <2>2. OfControl(longer, c) = IF x.control = c THEN Append(own, x) ELSE own
    BY <2>1, OfControlAppend
  <2>3. own \in Seq(AllErrors)
    BY <2>1, OfControlIs
  <2>4. (own = <<>> <=> indices = {}) /\ (own # <<>> => own[Len(own)] = s[Max(indices)])
    OBVIOUS
  <2>5. /\ Earlier(longer, n + 1, c) = indices
        /\ indices # {} => longer[Max(indices)] = s[Max(indices)]
    <3> DEFINE i == n + 1
    <3>1. i \in 1..(Len(s) + 1)
      BY <2>1
    <3> HIDE DEF i
    <3>2. /\ Earlier(Append(s, x), i, c) = Earlier(s, i, c)
          /\ Earlier(s, i, c) # {} => Append(s, x)[Max(Earlier(s, i, c))] = s[Max(Earlier(s, i, c))]
      <4> HIDE DEF longer, n, own, indices, more, Good, Ends
      <4>1. s \in Seq(AllErrors) /\ x \in AllErrors
        BY <2>1
      <4>2. QED
        BY <3>1, <4>1, EarlierAppend
    <3>3. QED
      BY <3>2 DEF i
  <2>6. more = Earlier(longer, n + 1, c) \cup IF x.control = c THEN {n + 1} ELSE {}
    <3>1. 1..((n + 2) - 1) = 1..((n + 1) - 1) \cup {n + 1}
      BY <2>1
    <3> HIDE DEF longer, n
    <3>2. QED
      BY <2>1, <3>1 DEF Earlier
  <2>7. more \in SUBSET (1..(n + 1))
    BY <2>1 DEF Earlier
  <2>8. CASE x.control = c
    <3>1. n + 1 \in more
      BY <2>6, <2>8
    <3>2. Max(more) \in more /\ n + 1 <= Max(more)
      <4>1. n + 1 \in Nat
        BY <2>1
      <4> HIDE DEF more, n
      <4>2. QED
        BY <2>7, <3>1, <4>1, Greatest
    <3>3. Max(more) = n + 1
      <4>1. ASSUME NEW m \in 1..(n + 1), n + 1 <= m
            PROVE  m = n + 1
        BY <2>1, <4>1
      <4> HIDE DEF more, n
      <4>2. Max(more) \in 1..(n + 1)
        BY <2>7, <3>2
      <4>3. QED
        BY <3>2, <4>1, <4>2
    <3>4. OfControl(longer, c) = Append(own, x)
      BY <2>2, <2>8
    <3>5. Append(own, x) # <<>> /\ Append(own, x)[Len(Append(own, x))] = x
      BY <2>3
    <3>6. (n + 1) + 1 = n + 2
      BY <2>1
    <3> HIDE DEF longer, own, more, n
    <3>7. Ends(longer)
      BY <2>1, <3>1, <3>3, <3>4, <3>5, <3>6 DEF more
    <3>8. QED
      BY <2>1, <3>7 DEF longer
  <2>9. CASE x.control # c
    <3>1. more = indices
      BY <2>5, <2>6, <2>9
    <3>2. OfControl(longer, c) = own
      BY <2>2, <2>9
    <3>3. (n + 1) + 1 = n + 2
      BY <2>1
    <3> HIDE DEF longer, own, more, n, indices
    <3>4. Ends(longer)
      BY <2>1, <2>4, <2>5, <3>1, <3>2, <3>3 DEF more
    <3>5. QED
      BY <2>1, <3>4 DEF longer
  <2>10. QED
    BY <2>8, <2>9
<1>3. Good = Seq(AllErrors)
  <2>1. Good \in SUBSET Seq(AllErrors)
    OBVIOUS
  <2> HIDE DEF Good
  <2>2. QED
    BY <1>1, <1>2, <2>1, SeqInduction
<1>4. QED
  BY <1>3

Indices(es) == [i \in DOMAIN es |-> i]
ShownAt(es) == {i \in DOMAIN es : CheckErrorDisplay(es, i)}
Picked(es, indices) == [k \in DOMAIN indices |-> es[indices[k]]]

LEMMA PickedAppend ==
  ASSUME NEW T, NEW es \in Seq(T), NEW x \in T, NEW shown \in Seq(1..Len(es))
  PROVE  /\ Picked(es, shown) \in Seq(T)
         /\ Picked(Append(es, x), shown) = Picked(es, shown)
         /\ Picked(Append(es, x), Append(shown, Len(es) + 1)) = Append(Picked(es, shown), x)
<1> DEFINE n == Len(es)
           m == Len(shown)
           longer == Append(es, x)
           more == Append(shown, n + 1)
<1>1. n \in Nat /\ (\A i \in 1..n : es[i] \in T /\ longer[i] = es[i]) /\ longer[n + 1] = x
  OBVIOUS
<1>2. m \in Nat /\ DOMAIN shown = 1..m /\ \A k \in 1..m : shown[k] \in 1..n
  OBVIOUS
<1>3. DOMAIN more = 1..(m + 1) /\ more[m + 1] = n + 1 /\ \A k \in 1..m : more[k] = shown[k]
  BY <1>1
<1> HIDE DEF longer, more, n, m
<1>4. Picked(es, shown) = [k \in 1..m |-> es[shown[k]]]
  BY <1>2 DEF Picked
<1>5. \A k \in 1..m : es[shown[k]] \in T
  BY <1>1, <1>2
<1>6. Picked(es, shown) \in Seq(T) /\ Len(Picked(es, shown)) = m
  BY <1>2, <1>4, <1>5
<1>7. Picked(longer, shown) = Picked(es, shown)
  BY <1>1, <1>2 DEF Picked
<1> DEFINE picked == Picked(es, shown)
<1>8. \A k \in 1..m : picked[k] = es[shown[k]]
  BY <1>4
<1> HIDE DEF picked
<1>9. Append(picked, x) = [k \in 1..(m + 1) |-> IF k = m + 1 THEN x ELSE picked[k]]
  <2>1. picked \in Seq(T) /\ Len(picked) = m
    BY <1>6 DEF picked
  <2>2. Append(picked, x) \in Seq(T) /\ Len(Append(picked, x)) = m + 1
    BY <2>1
  <2>3. \A k \in 1..(m + 1) : Append(picked, x)[k] = IF k = m + 1 THEN x ELSE picked[k]
    BY <2>1
  <2> DEFINE whole == Append(picked, x)
  <2>4. whole = [k \in 1..(m + 1) |-> whole[k]]
    <3>1. whole \in Seq(T) /\ Len(whole) = m + 1
      BY <2>2
    <3> HIDE DEF whole
    <3>2. QED
      BY <3>1
  <2>5. \A k \in 1..(m + 1) : whole[k] = IF k = m + 1 THEN x ELSE picked[k]
    BY <2>3
  <2> HIDE DEF whole
  <2>6. whole = [k \in 1..(m + 1) |-> IF k = m + 1 THEN x ELSE picked[k]]
    BY <2>4, <2>5
  <2>7. QED
    BY <2>6 DEF whole
<1>10. \A k \in 1..(m + 1) : longer[more[k]] = IF k = m + 1 THEN x ELSE picked[k]
  <2>1. ASSUME NEW k \in 1..(m + 1), k # m + 1
        PROVE  k \in 1..m
    BY <1>2, <2>1
  <2>2. ASSUME NEW k \in 1..m
        PROVE  longer[more[k]] = picked[k]
    BY <1>1, <1>2, <1>3, <1>8
  <2>3. QED
    BY <1>1, <1>3, <2>1, <2>2
<1>11. Picked(longer, more) = Append(picked, x)
  BY <1>3, <1>9, <1>10 DEF Picked
<1>12. QED
  BY <1>6, <1>7, <1>11 DEF longer, more, picked, n

\* An error more changes nothing of what is shown of those before.
LEMMA CheckSame ==
  ASSUME NEW es \in Seq(AllErrors), NEW x \in AllErrors, NEW i \in 1..Len(es)
  PROVE  CheckErrorDisplay(Append(es, x), i) <=> CheckErrorDisplay(es, i)
<1> DEFINE longer == Append(es, x)
           c == es[i].control
<1>1. longer[i] = es[i] /\ i \in 1..(Len(es) + 1)
  OBVIOUS
<1>2. /\ Earlier(longer, i, c) = Earlier(es, i, c)
      /\ Earlier(es, i, c) # {} => longer[Max(Earlier(es, i, c))] = es[Max(Earlier(es, i, c))]
  <2> HIDE DEF c
  <2>1. QED
    BY <1>1, EarlierAppend
<1>3. CheckErrorDisplay(es, i) <=>
        (Earlier(es, i, c) # {} => "required" \notin {es[i].type, es[Max(Earlier(es, i, c))].type})
  BY DEF CheckErrorDisplay, Earlier
<1> HIDE DEF longer
<1>4. CheckErrorDisplay(longer, i) <=>
        (Earlier(longer, i, c) # {} => "required" \notin {longer[i].type, longer[Max(Earlier(longer, i, c))].type})
  BY <1>1 DEF CheckErrorDisplay, Earlier
<1>5. QED
  BY <1>1, <1>2, <1>3, <1>4 DEF longer

LEMMA CheckLast ==
  ASSUME NEW es \in Seq(AllErrors), NEW x \in AllErrors
  PROVE  CheckErrorDisplay(Append(es, x), Len(es) + 1) <=> ShownAfter(es, x)
<1> DEFINE n == Len(es)
           longer == Append(es, x)
           c == x.control
           indices == Earlier(es, n + 1, c)
           own == OfControl(es, c)
<1>1. longer[n + 1] = x /\ n + 1 \in 1..(n + 1)
  OBVIOUS
<1>2. /\ Earlier(longer, n + 1, c) = indices
      /\ indices # {} => longer[Max(indices)] = es[Max(indices)]
  <2> HIDE DEF c
  <2>1. QED
    BY <1>1, EarlierAppend
<1>3. (own = <<>> <=> indices = {}) /\ (own # <<>> => own[Len(own)] = es[Max(indices)])
  <2> HIDE DEF c
  <2>1. QED
    BY LastIs
<1> HIDE DEF longer
<1>4. CheckErrorDisplay(longer, n + 1) <=>
        (Earlier(longer, n + 1, c) # {} =>
           "required" \notin {longer[n + 1].type, longer[Max(Earlier(longer, n + 1, c))].type})
  BY <1>1 DEF CheckErrorDisplay, Earlier
<1>5. ShownAfter(es, x) <=> (own # <<>> => x.type # "required" /\ own[Len(own)].type # "required")
  BY DEF ShownAfter
<1> HIDE DEF indices, own
<1>6. QED
  BY <1>1, <1>2, <1>3, <1>4, <1>5 DEF longer

LEMMA DisplayedEmpty == Displayed(<<>>) = <<>>
<1>1. DOMAIN <<>> = {}
  OBVIOUS
<1>2. Indices(<<>>) = <<>>
  BY <1>1 DEF Indices
<1>3. Picked(<<>>, <<>>) = <<>>
  BY <1>1 DEF Picked
<1>4. Displayed(<<>>) = Picked(<<>>, Only(Indices(<<>>), ShownAt(<<>>)))
  BY DEF Displayed, Indices, ShownAt, Picked
<1>5. QED
  BY <1>2, <1>3, <1>4, OnlyEmpty

LEMMA DisplayedAppend ==
  ASSUME NEW es \in Seq(AllErrors), NEW x \in AllErrors
  PROVE  Displayed(Append(es, x)) = IF ShownAfter(es, x) THEN Append(Displayed(es), x) ELSE Displayed(es)
<1> DEFINE n == Len(es)
           longer == Append(es, x)
           shown == Only(Indices(es), ShownAt(es))
<1>1. \A s : Displayed(s) = Picked(s, Only(Indices(s), ShownAt(s)))
  BY DEF Displayed, Indices, ShownAt, Picked
<1>2. /\ n \in Nat /\ DOMAIN es = 1..n /\ DOMAIN longer = 1..(n + 1)
      /\ Indices(es) \in Seq(1..n) /\ Len(Indices(es)) = n /\ ToSet(Indices(es)) = 1..n
  BY DEF Indices, ToSet
<1>3. Indices(longer) = Append(Indices(es), n + 1)
  BY <1>2 DEF Indices
<1>4. ToSet(Indices(es)) \cap ShownAt(longer) = ToSet(Indices(es)) \cap ShownAt(es)
  <2>1. \A i \in 1..n : i \in 1..(n + 1) /\ (CheckErrorDisplay(longer, i) <=> CheckErrorDisplay(es, i))
    BY <1>2, CheckSame
  <2> HIDE DEF longer, n
  <2>2. QED
    BY <1>2, <2>1 DEF ShownAt
<1>5. n + 1 \in ShownAt(longer) <=> ShownAfter(es, x)
  <2>1. CheckErrorDisplay(longer, n + 1) <=> ShownAfter(es, x)
    BY CheckLast
  <2>2. n + 1 \in 1..(n + 1)
    BY <1>2
  <2> HIDE DEF longer, n
  <2>3. QED
    BY <1>2, <2>1, <2>2 DEF ShownAt
<1>6. Only(Indices(es), ShownAt(longer)) = shown
  <2> HIDE DEF longer, n
  <2>1. QED
    BY <1>2, <1>4, OnlySame
<1>7. Only(Indices(longer), ShownAt(longer)) = IF ShownAfter(es, x) THEN Append(shown, n + 1) ELSE shown
  <2>1. Indices(es) \in Seq(Nat) /\ n + 1 \in Nat
    BY <1>2
  <2> DEFINE last == n + 1
             before == Indices(es)
             set == ShownAt(longer)
  <2> HIDE DEF longer, n, shown
  <2>2. Only(Append(before, last), set) =
          IF last \in set THEN Append(Only(before, set), last) ELSE Only(before, set)
    <3> HIDE DEF last, before, set
    <3>1. before \in Seq(Nat) /\ last \in Nat
      BY <2>1 DEF before, last
    <3>2. QED
      BY <3>1, OnlyAppend
  <2>3. QED
    BY <1>3, <1>5, <1>6, <2>2
<1>8. shown \in Seq(1..n)
  <2> HIDE DEF n
  <2>1. QED
    BY <1>2, OnlyIs
<1>9. /\ Picked(longer, shown) = Picked(es, shown)
       /\ Picked(longer, Append(shown, n + 1)) = Append(Picked(es, shown), x)
  <2> HIDE DEF shown
  <2>1. QED
    BY <1>8, PickedAppend
<1>10. Displayed(es) = Picked(es, shown)
  BY <1>1
<1> HIDE DEF shown, longer, n
<1>11. Displayed(longer) = IF ShownAfter(es, x) THEN Append(Displayed(es), x) ELSE Displayed(es)
  BY <1>1, <1>7, <1>9, <1>10
<1>12. QED
  BY <1>11 DEF longer

LEMMA DisplayedIs ==
  ASSUME NEW es \in Seq(AllErrors)
  PROVE  /\ Displayed(es) \in Seq(AllErrors) /\ ToSet(Displayed(es)) \subseteq ToSet(es)
         /\ Displayed(es) = <<>> <=> es = <<>>
<1> DEFINE Right(s) == /\ Displayed(s) \in Seq(AllErrors) /\ ToSet(Displayed(s)) \subseteq ToSet(s)
                       /\ Displayed(s) = <<>> <=> s = <<>>
           Good == {s \in Seq(AllErrors) : Right(s)}
<1>1. ASSUME NEW s \in Good, NEW x \in AllErrors
      PROVE  Append(s, x) \in Good
  <2>1. s \in Seq(AllErrors) /\ Append(s, x) \in Seq(AllErrors) /\ Append(s, x) # <<>> /\ Right(s)
    OBVIOUS
  <2>2. Displayed(Append(s, x)) = IF ShownAfter(s, x) THEN Append(Displayed(s), x) ELSE Displayed(s)
    BY <2>1, DisplayedAppend
  <2>3. ToSet(Append(s, x)) = ToSet(s) \cup {x}
    BY <2>1, AppendRange
  <2>4. Append(Displayed(s), x) \in Seq(AllErrors) /\ ToSet(Append(Displayed(s), x)) = ToSet(Displayed(s)) \cup {x}
        /\ Append(Displayed(s), x) # <<>>
    <3> DEFINE shown == Displayed(s)
    <3>1. shown \in Seq(AllErrors)
      BY <2>1
    <3> HIDE DEF shown, Good, Right
    <3>2. Append(shown, x) \in Seq(AllErrors) /\ Append(shown, x) # <<>>
      BY <3>1
    <3>3. ToSet(Append(shown, x)) = ToSet(shown) \cup {x}
      BY <3>1, AppendRange
    <3>4. QED
      BY <3>2, <3>3 DEF shown
  <2>5. s = <<>> => ShownAfter(s, x)
    <3>1. \A c : OfControl(<<>>, c) = <<>>
      <4>1. <<>> \in Seq(AllErrors)
        OBVIOUS
      <4>2. QED
        BY <4>1, OfControlIs, OnlyEmpty
    <3>2. QED
      BY <3>1 DEF ShownAfter
  <2> HIDE DEF Right
  <2>6. Displayed(s) \in Seq(AllErrors) /\ ToSet(Displayed(s)) \subseteq ToSet(s) /\ (Displayed(s) = <<>> <=> s = <<>>)
    BY <2>1 DEF Right
  <2>7. Right(Append(s, x))
    <3> DEFINE longer == Append(s, x)
    <3>1. CASE ShownAfter(s, x)
      BY <2>1, <2>2, <2>3, <2>4, <2>6, <3>1 DEF Right
    <3>2. CASE ~ShownAfter(s, x)
      BY <2>1, <2>2, <2>3, <2>5, <2>6, <3>2 DEF Right
    <3>3. QED
      BY <3>1, <3>2
  <2>8. QED
    BY <2>1, <2>2, <2>7
<1>2. <<>> \in Good
  <2>1. <<>> \in Seq(AllErrors) /\ ToSet(<<>>) = {}
    BY EmptyOrder
  <2>2. QED
    BY <2>1, DisplayedEmpty
<1>3. Good = Seq(AllErrors)
  <2>1. Good \in SUBSET Seq(AllErrors)
    OBVIOUS
  <2> HIDE DEF Good
  <2>2. QED
    BY <1>1, <1>2, <2>1, SeqInduction
<1>4. QED
  BY <1>3

\* What is shown of the errors of a control does not depend on those of others.
LEMMA ShownOfControl ==
  ASSUME NEW es \in Seq(AllErrors), NEW c
  PROVE  OfControl(Displayed(es), c) = Displayed(OfControl(es, c))
<1> DEFINE Good == {s \in Seq(AllErrors) : OfControl(Displayed(s), c) = Displayed(OfControl(s, c))}
<1>1. <<>> \in Good
  <2>1. <<>> \in Seq(AllErrors)
    OBVIOUS
  <2>2. OfControl(<<>>, c) = <<>>
    BY <2>1, OfControlIs, OnlyEmpty
  <2>3. QED
    BY <2>1, <2>2, DisplayedEmpty
<1>2. ASSUME NEW s \in Good, NEW x \in AllErrors
      PROVE  Append(s, x) \in Good
  <2> DEFINE own == OfControl(s, c)
             longer == Append(s, x)
             shown == Displayed(s)
  <2>1. s \in Seq(AllErrors) /\ longer \in Seq(AllErrors) /\ OfControl(shown, c) = Displayed(own)
    OBVIOUS
  <2>2. own \in Seq(AllErrors) /\ shown \in Seq(AllErrors)
    BY <2>1, OfControlIs, DisplayedIs
  <2>3. Displayed(longer) = IF ShownAfter(s, x) THEN Append(shown, x) ELSE shown
    BY <2>1, DisplayedAppend
  <2>4. OfControl(longer, c) = IF x.control = c THEN Append(own, x) ELSE own
    BY <2>1, OfControlAppend
  <2> HIDE DEF longer, shown
  <2>5. OfControl(Append(shown, x), c) = IF x.control = c THEN Append(OfControl(shown, c), x) ELSE OfControl(shown, c)
    BY <2>2, OfControlAppend
  <2>6. ASSUME x.control # c
        PROVE  OfControl(Displayed(longer), c) = Displayed(OfControl(longer, c))
    BY <2>1, <2>3, <2>4, <2>5, <2>6
  <2>7. ASSUME x.control = c
        PROVE  OfControl(Displayed(longer), c) = Displayed(OfControl(longer, c))
    <3>1. OfControl(own, c) = own
      <4>1. OfControl(own, c) = Only(own, About(c)) /\ own = Only(s, About(c))
        BY <2>1, <2>2, OfControlIs
      <4>2. ToSet(own) \subseteq About(c)
        BY <2>1, OfControlIs
      <4> HIDE DEF own
      <4>3. QED
        BY <2>2, <4>1, <4>2, OnlyAll
    <3>2. ShownAfter(own, x) <=> ShownAfter(s, x)
      BY <2>7, <3>1 DEF ShownAfter
    <3> HIDE DEF own
    <3>3. Displayed(Append(own, x)) = IF ShownAfter(own, x) THEN Append(Displayed(own), x) ELSE Displayed(own)
      BY <2>2, DisplayedAppend
    <3>4. QED
      BY <2>1, <2>3, <2>4, <2>5, <2>7, <3>2, <3>3
  <2>8. OfControl(Displayed(longer), c) = Displayed(OfControl(longer, c))
    BY <2>6, <2>7
  <2>9. QED
    BY <2>1, <2>8 DEF longer
<1>3. Good = Seq(AllErrors)
  <2>1. Good \in SUBSET Seq(AllErrors)
    OBVIOUS
  <2> HIDE DEF Good
  <2>2. QED
    BY <1>1, <1>2, <2>1, SeqInduction
<1>4. QED
  BY <1>3

\* The list at the top has the errors that are shown beside each control, and is empty
\* when there are none.
LEMMA ListAgrees ==
  ASSUME IsPage(page), NEW cs \in SUBSET Controls, NEW es \in Seq(AllErrors),
         \A c \in Controls : c \notin cs => OfControl(es, c) = <<>>
  PROVE  /\ SummaryErrors(es, cs) = <<>> <=> es = <<>>
         /\ \A c \in Controls : OfControl(SummaryErrors(es, cs), c) = OfControl(Displayed(es), c)
<1> DEFINE order == Visit(cs)
           lists == [c \in cs |-> OfControl(es, c)]
           all == Joined(order, lists)
<1>1. order \in Seq(cs) /\ ToSet(order) = cs /\ Distinct(order)
  BY VisitIs
<1>2. \A c \in cs : lists[c] = OfControl(es, c)
  OBVIOUS
<1>3. SummaryErrors(es, cs) = Displayed(all)
  BY DEF SummaryErrors
<1> HIDE DEF order, lists
<1>4. AreLists(lists, cs, AllErrors)
  BY <1>2, OfControlIs DEF AreLists
<1>5. all \in Seq(AllErrors)
  BY <1>1, <1>4, JoinedIs
<1>6. ASSUME NEW c \in Controls
      PROVE  OfControl(all, c) = OfControl(es, c)
  <2>1. Tells(c, About(c), lists, cs)
    <3>1. ASSUME NEW d \in cs
          PROVE  IF d = c THEN ToSet(lists[d]) \subseteq About(c) ELSE ToSet(lists[d]) \cap About(c) = {}
      <4>1. ToSet(lists[d]) \subseteq About(d)
        BY <1>2, OfControlIs
      <4>2. d # c => About(d) \cap About(c) = {}
        BY DEF About
      <4>3. QED
        BY <4>1, <4>2
    <3>2. QED
      BY <3>1 DEF Tells
  <2>2. Only(all, About(c)) = IF c \in ToSet(order) THEN lists[c] ELSE <<>>
    BY <1>1, <1>4, <2>1, JoinedOnly
  <2> HIDE DEF all
  <2>3. OfControl(all, c) = Only(all, About(c))
    BY <1>5, OfControlIs
  <2>4. QED
    BY <1>1, <1>2, <2>2, <2>3
<1> HIDE DEF all
<1>7. ASSUME NEW c \in Controls
      PROVE  OfControl(Displayed(all), c) = OfControl(Displayed(es), c)
  BY <1>5, <1>6, ShownOfControl
<1>8. all = <<>> <=> es = <<>>
  BY <1>5, <1>6, NoErrors
<1>9. Displayed(all) = <<>> <=> all = <<>>
  BY <1>5, DisplayedIs
<1>10. QED
  BY <1>3, <1>7, <1>8, <1>9

LEMMA Twice ==
  ASSUME NEW e
  PROVE  <<e>> \o <<>> = <<e>> /\ <<e>> \o <<e>> = <<e, e>> /\ <<e, e>> = Append(<<e>>, e)
<1> DEFINE longer == Append(<<e>>, e)
<1>1. <<e>> \in Seq({e}) /\ <<>> \in Seq({e})
  OBVIOUS
<1>2. longer \in Seq({e}) /\ Len(longer) = 2 /\ longer[1] = e /\ longer[2] = e
  BY <1>1
<1>3. <<e>> = Append(<<>>, e)
  OBVIOUS
<1>4. <<e>> \o Append(<<>>, e) = Append(<<e>> \o <<>>, e)
  BY <1>1, ConcatIs
<1>5. <<e>> \o <<>> = <<e>>
  OBVIOUS
<1> HIDE DEF longer
<1>6. longer = <<e, e>>
  BY <1>2
<1>7. QED
  BY <1>3, <1>4, <1>5, <1>6 DEF longer

\* A required error is found alone, or once more for a date.
LEMMA RequiredIs ==
  ASSUME IsPage(page), NEW ans, NEW c \in Controls, IsAnswer(c, ans[c]),
         Error(c, "required") \in ToSet(Found(ans, c))
  PROVE  Found(ans, c) \in {<<Error(c, "required")>>, <<Error(c, "required"), Error(c, "required")>>}
<1> DEFINE dateTypes == IF Is(c, "date") THEN DateTypes(ans, c) ELSE <<>>
           required == RequiredTypes(ans, c)
           value == ValueTypes(ans, c)
<1>1. required \in Seq(Types) /\ value \in Seq(Types) /\ dateTypes \in Seq(Types)
  <2>1. <<>> \in Seq(Types)
    OBVIOUS
  <2>2. QED
    BY <2>1, TypesAre
<1>2. Found(ans, c) = ErrorsOf(c, required) \o ErrorsOf(c, value) \o ErrorsOf(c, dateTypes)
  BY DEF Found
<1>3. required \in {<<>>, <<"required">>} /\ value \in {<<>>, <<"value">>}
  BY DEF RequiredTypes, ValueTypes
<1>4. "required" \notin Range(page.limits)
  <2>1. page.limits \in Seq(Range(page.limits) \ {"required"})
    BY DEF IsPage
  <2>2. QED
    BY <2>1 DEF Range
<1>5. DateTypes(ans, c) = required \/ "required" \notin Range(DateTypes(ans, c))
  <2>1. /\ "required" \notin Range(<<>>) /\ "required" \notin Range(<<"date.missing">>)
        /\ "required" \notin Range(<<"date.invalid">>)
    BY DEF Range
  <2> DEFINE types == DateTypes(ans, c)
             filled == {part \in page.parts : ans[c][part] # Blank}
  <2>2. types = CASE filled = {} -> required
                  [] filled # {} /\ filled # page.parts -> <<"date.missing">>
                  [] filled = page.parts /\ ~Real(ans[c]) -> <<"date.invalid">>
                  [] filled = page.parts /\ Real(ans[c]) /\ ans[c]["year"] = Late -> page.limits
                  [] OTHER -> <<>>
    BY DEF DateTypes
  <2> HIDE DEF types, filled, required
  <2>3. types \in {required, <<"date.missing">>, <<"date.invalid">>, page.limits, <<>>}
    BY <2>2
  <2>4. types = required \/ "required" \notin Range(types)
    BY <1>4, <2>1, <2>3
  <2>5. QED
    BY <2>4 DEF types
<1>6. dateTypes = <<>> \/ dateTypes = required \/ "required" \notin Range(dateTypes)
  BY <1>5
<1>7. required = <<"required">>
  <2>1. /\ ToSet(Found(ans, c)) = ToSet(ErrorsOf(c, required)) \cup ToSet(ErrorsOf(c, value))
                                     \cup ToSet(ErrorsOf(c, dateTypes))
    <3> HIDE DEF required, value, dateTypes
    <3>1. /\ ErrorsOf(c, required) \in Seq(AllErrors)
          /\ ErrorsOf(c, value) \in Seq(AllErrors)
          /\ ErrorsOf(c, dateTypes) \in Seq(AllErrors)
      BY <1>1, ErrorsOfIs
    <3>2. /\ ErrorsOf(c, required) \o ErrorsOf(c, value) \in Seq(AllErrors)
          /\ ToSet(ErrorsOf(c, required) \o ErrorsOf(c, value)) = ToSet(ErrorsOf(c, required)) \cup ToSet(ErrorsOf(c, value))
      BY <3>1, ConcatIs
    <3> DEFINE two == ErrorsOf(c, required) \o ErrorsOf(c, value)
    <3>3. two \in Seq(AllErrors) /\ Found(ans, c) = two \o ErrorsOf(c, dateTypes)
      BY <1>2, <3>2
    <3>4. ToSet(two) = ToSet(ErrorsOf(c, required)) \cup ToSet(ErrorsOf(c, value))
      BY <3>2
    <3> HIDE DEF two
    <3>5. ToSet(two \o ErrorsOf(c, dateTypes)) = ToSet(two) \cup ToSet(ErrorsOf(c, dateTypes))
      BY <3>1, <3>3, ConcatIs
    <3>6. QED
      BY <3>3, <3>4, <3>5
  <2>2. \A types : Error(c, "required") \in ToSet(ErrorsOf(c, types)) => "required" \in Range(types)
    BY DEF ToSet, ErrorsOf, Error, Range
  <2>3. "required" \notin Range(<<>>) /\ "required" \notin Range(<<"value">>)
    BY DEF Range
  <2> HIDE DEF required, value, dateTypes
  <2>4. "required" \in Range(required) \/ "required" \in Range(dateTypes)
    BY <1>3, <2>1, <2>2, <2>3
  <2>5. QED
    BY <1>3, <1>6, <2>3, <2>4
<1>8. ans[c] = NoAnswer(c)
  <2>1. \A t : <<t>> # <<>>
    OBVIOUS
  <2>2. QED
    BY <1>7, <2>1 DEF RequiredTypes
<1>9. value = <<>>
  <2>1. page.kind[c] \in {"text", "radios"} => NoAnswer(c) = Blank
    BY DEF NoAnswer, Is
  <2>2. QED
    BY <1>8, <2>1, BlankAssumption DEF ValueTypes
<1>10. dateTypes \in {<<>>, required}
  <2>1. ASSUME Is(c, "date")
        PROVE  DateTypes(ans, c) = required
    <3>1. NoAnswer(c) = [part \in page.parts |-> Blank]
      BY <2>1 DEF NoAnswer, Is
    <3>2. {part \in page.parts : ans[c][part] # Blank} = {}
      BY <1>8, <3>1
    <3>3. page.parts # {}
      <4>1. PICK i \in DOMAIN page.controls : page.controls[i] = c
        BY DEF Controls, Range
      <4>2. QED
        BY <2>1 DEF IsPage, Is, Controls
    <3>4. QED
      BY <3>2, <3>3 DEF DateTypes
  <2>2. QED
    BY <2>1
<1>11. ErrorsOf(c, <<>>) = <<>> /\ ErrorsOf(c, <<"required">>) = <<Error(c, "required")>>
  <2>1. DOMAIN <<>> = {}
    OBVIOUS
  <2>2. QED
    BY <2>1 DEF ErrorsOf
<1> HIDE DEF required, value, dateTypes
<1>12. Found(ans, c) = <<Error(c, "required")>> \o <<>> \o ErrorsOf(c, dateTypes)
  BY <1>2, <1>7, <1>9, <1>11
<1>13. ASSUME NEW e
       PROVE  <<e>> \o <<>> = <<e>> /\ <<e>> \o <<e>> = <<e, e>>
  BY Twice
<1>14. QED
  BY <1>7, <1>10, <1>11, <1>12, <1>13

\* Beside a control, "required" is shown alone.
LEMMA RequiredAlone ==
  ASSUME IsPage(page), NEW ans, NEW c \in Controls, IsAnswer(c, ans[c]),
         Error(c, "required") \in ToSet(Displayed(Found(ans, c))), Found(ans, c) \in Seq(AllErrors)
  PROVE  Len(Displayed(Found(ans, c))) = 1
<1> DEFINE e == Error(c, "required")
<1>1. Found(ans, c) \in {<<e>>, <<e, e>>}
  <2>1. e \in ToSet(Found(ans, c))
    BY DisplayedIs
  <2>2. QED
    BY <2>1, RequiredIs
<1>2. e \in AllErrors /\ e.control = c /\ e.type = "required"
  BY DEF Error, AllErrors, Types
<1> HIDE DEF e
<1>3. <<>> \in Seq(AllErrors) /\ <<e>> \in Seq(AllErrors) /\ Append(<<>>, e) = <<e>> /\ Append(<<e>>, e) = <<e, e>>
  <2>1. Append(<<>>, e) = <<e>>
    OBVIOUS
  <2>2. <<>> \in Seq(AllErrors) /\ <<e>> \in Seq(AllErrors)
    BY <1>2
  <2>3. QED
    BY <2>1, <2>2, Twice
<1>4. OfControl(<<>>, c) = <<>>
  BY <1>3, OfControlIs, OnlyEmpty
<1>5. OfControl(<<e>>, c) = <<e>>
  <2>1. OfControl(Append(<<>>, e), c) = Append(OfControl(<<>>, c), e)
    BY <1>2, <1>3, OfControlAppend
  <2>2. QED
    BY <1>3, <1>4, <2>1
<1>6. Displayed(<<e>>) = <<e>>
  <2>1. ShownAfter(<<>>, e)
    BY <1>2, <1>4 DEF ShownAfter
  <2>2. Displayed(Append(<<>>, e)) = IF ShownAfter(<<>>, e) THEN Append(Displayed(<<>>), e) ELSE Displayed(<<>>)
    BY <1>2, <1>3, DisplayedAppend
  <2>3. QED
    BY <1>3, <2>1, <2>2, DisplayedEmpty
<1>7. Displayed(<<e, e>>) = <<e>>
  <2>1. <<e>> # <<>>
    OBVIOUS
  <2>2. ~ShownAfter(<<e>>, e)
    BY <1>2, <1>5, <2>1 DEF ShownAfter
  <2>3. Displayed(Append(<<e>>, e)) = IF ShownAfter(<<e>>, e) THEN Append(Displayed(<<e>>), e) ELSE Displayed(<<e>>)
    BY <1>2, <1>3, DisplayedAppend
  <2>4. QED
    BY <1>3, <1>6, <2>2, <2>3
<1>8. Displayed(Found(ans, c)) = <<e>>
  BY <1>1, <1>6, <1>7
<1>9. QED
  BY <1>8

-----------------------------------------------------------------------------
(* The invariants.  Each is an operator of what changes, so that it can be said of the   *)
(* values of the next state.                                                             *)

IsForm(f) == f = [c \in DOMAIN f |-> f[c]] /\ DOMAIN f \subseteq Controls /\ \A c \in DOMAIN f : IsAnswer(c, f[c])

IsTyped(in, f) ==
  /\ in = [c \in Controls \cup {Outside} |-> in[c]]
  /\ \A c \in Controls : IsAnswer(c, in[c])
  /\ f # None => IsForm(f)

\* What is hidden has no answer.
Unset(in) == \A c \in Controls : in[c] # NoAnswer(c) => ~Hidden(in, c)

\* The last form shows the answers that are stored, masked or not.
Shows(old, in, f) ==
  ~old /\ f # None => \A c \in DOMAIN f : f[c] = in[c] \/ f[c] = Mask(c, in[c])

\* The last summary page lists them.
SumsUp(old, in, s) == ~old /\ s # None => s = Listed(in)

Accepted(in, r, o) ==
  /\ r # None => (r.accepted <=> Complete(in, r.controls))
  /\ o # None => Complete(o.answers, DOMAIN o.listed)

Obeyed(old, in, r) ==
  ~old /\ r # None =>
    \A c \in r.controls :
      in[c] = IF Hidden(in, c) \/ c \notin DOMAIN r.meant THEN NoAnswer(c) ELSE r.meant[c]

Agreed(old, in, f, r) ==
  r # None =>
    /\ r.accepted <=> r.list = <<>>
    /\ \A c \in Controls :
         LET es == r.inline[c] IN
         /\ es = OfControl(r.list, c)
         /\ es # <<>> => c \in r.controls /\ ~Hidden(in, c)
         /\ Error(c, "required") \in Range(es) => Len(es) = 1
         /\ es # <<>> /\ ~old /\ c \in DOMAIN f => f[c] = in[c]

SentListed(old, o) ==
  o # None =>
    /\ \A c \in DOMAIN o.output \cap Present(o.answers) :
         /\ c \in DOMAIN o.listed
         /\ (Is(c, "date") => InEveryMonth(o.output[c])) => o.listed[c] = o.output[c]
    /\ \A c \in DOMAIN o.listed : o.listed[c] # NoAnswer(c) => c \in DOMAIN o.output
    /\ ~old => o.shown = o.listed

Inv(in, f, s, r, o) ==
  /\ IsTyped(in, f)
  /\ Unset(in)
  /\ Shows(oldForms, in, f)
  /\ SumsUp(oldForms, in, s)
  /\ Accepted(in, r, o)
  /\ Obeyed(oldForms, in, r)
  /\ Agreed(oldForms, in, f, r)
  /\ SentListed(oldForms, o)

PageInv ==
  /\ page \in PageDefs
  /\ today \in Days
  /\ oldForms \in BOOLEAN
  /\ Inv(input, form, summary, reply, sent)

LEMMA Carried ==
  ASSUME UNCHANGED <<page, today, oldForms>>
  PROVE  Inv(input, form, summary, reply, sent)' <=> Inv(input', form', summary', reply', sent')
<1>1. Controls' = Controls
  BY DEF Controls
<1>2. IsTyped(input, form)' <=> IsTyped(input', form')
  BY DEF IsTyped, IsForm, IsAnswer, Controls, Is
<1>3. Unset(input)' <=> Unset(input')
  BY DEF Unset, Controls, NoAnswer, Hidden, Holds, ItemsChecked, Is
<1>4. Shows(oldForms, input, form)' <=> Shows(oldForms, input', form')
  BY DEF Shows, Mask
<1>5. SumsUp(oldForms, input, summary)' <=> SumsUp(oldForms, input', summary')
  <2>1. Present(input)' = Present(input')
    BY <1>1 DEF Present, Controls, Holds, ItemsChecked, Is
  <2>2. \A c : Hidden(input, c)' <=> Hidden(input', c)
    BY DEF Hidden, Holds, ItemsChecked, Is
  <2>3. ASSUME NEW c
        PROVE  DisplayValue(input, c)' = DisplayValue(input', c)
    <3>1. DateShown(input[c])' = DateShown(input'[c])
      <4>1. \A date : Rolled(date)' = Rolled(date)
        BY DEF Rolled, MonthLength
      <4>2. QED
        BY <4>1 DEF DateShown
    <3>2. NoAnswer(c)' = NoAnswer(c)
      BY DEF NoAnswer, Is
    <3>3. QED
      BY <3>1, <3>2 DEF DisplayValue, Is
  <2>4. Listed(input)' = Listed(input')
    BY <2>1, <2>2, <2>3 DEF Listed
  <2>5. QED
    BY <2>4 DEF SumsUp
<1>6. Accepted(input, reply, sent)' <=> Accepted(input', reply', sent')
  BY DEF Accepted, Complete, Controls, Hidden, Holds, ItemsChecked, Is, NoAnswer, Real, MonthLength
<1>7. Obeyed(oldForms, input, reply)' <=> Obeyed(oldForms, input', reply')
  BY DEF Obeyed, Hidden, Holds, ItemsChecked, Is, NoAnswer
<1>8. SentListed(oldForms, sent)' <=> SentListed(oldForms, sent')
  BY DEF SentListed, Present, Controls, Hidden, Holds, ItemsChecked, Is, NoAnswer, InEveryMonth
<1>9. Agreed(oldForms, input, form, reply)' <=> Agreed(oldForms, input', form', reply')
  BY DEF Agreed, Controls, Hidden, Holds, ItemsChecked, Is, OfControl, Error
<1>10. QED
  BY <1>2, <1>3, <1>4, <1>5, <1>6, <1>7, <1>8, <1>9 DEF Inv

-----------------------------------------------------------------------------
(* Answers, forms and what is listed *)

LEMMA AnswersAre ==
  ASSUME IsPage(page), NEW c \in Controls
  PROVE  /\ IsAnswer(c, NoAnswer(c))
         /\ \A v \in page.choices[c] : IsAnswer(c, v)
         /\ \A v : IsAnswer(c, v) => IsAnswer(c, Mask(c, v))
         /\ c \in page.redacted =>
              /\ NoAnswer(c) = Blank
              /\ \A v : IsAnswer(c, v) /\ page.mask[v] \in page.choices[c] \cup {Blank} => page.mask[v] = v
<1>1. /\ Is(c, "date") => \A v \in page.choices[c] : v = [part \in page.parts |-> v[part]]
      /\ c \in page.redacted =>
           /\ page.kind[c] \in {"text", "radios"}
           /\ page.choices[c] \cup {Blank} \subseteq DOMAIN page.mask
           /\ \A v \in DOMAIN page.mask :
                /\ page.mask[v] \in DOMAIN page.mask
                /\ page.mask[v] \in page.choices[c] \cup {Blank} => page.mask[v] = v
  <2>1. c \in Range(page.controls)
    BY DEF Controls
  <2>2. Is(c, "date") <=> page.kind[c] = "date"
    BY DEF Is
  <2>3. QED
    BY <2>1, <2>2 DEF IsPage
<1>2. c \in page.redacted => ~Is(c, "date") /\ ~Is(c, "checkboxes")
  BY <1>1 DEF Is
<1>3. Is(c, "date") => NoAnswer(c) = [part \in page.parts |-> Blank]
  BY DEF NoAnswer, Is
<1>4. c \in page.redacted => NoAnswer(c) = Blank
  BY <1>2 DEF NoAnswer
<1>5. IsAnswer(c, NoAnswer(c))
  <2>1. ASSUME Is(c, "date")
        PROVE  NoAnswer(c) = [part \in page.parts |-> NoAnswer(c)[part]]
    BY <1>3, <2>1
  <2>2. QED
    BY <1>1, <1>4, <2>1 DEF IsAnswer
<1>6. \A v \in page.choices[c] : IsAnswer(c, v)
  BY <1>1 DEF IsAnswer
<1>7. ASSUME NEW v, IsAnswer(c, v)
      PROVE  IsAnswer(c, Mask(c, v))
  <2>1. CASE c \in page.redacted
    BY <1>1, <1>2, <1>7, <2>1 DEF IsAnswer, Mask
  <2>2. CASE c \notin page.redacted
    BY <1>7, <2>2 DEF Mask
  <2>3. QED
    BY <2>1, <2>2
<1>8. QED
  BY <1>1, <1>4, <1>5, <1>6, <1>7 DEF IsAnswer

LEMMA FormIs ==
  ASSUME IsPage(page), NEW in, NEW cs \in SUBSET Controls, \A c \in cs : IsAnswer(c, in[c]), NEW es
  PROVE  /\ IsForm(FormOf(in, cs, es))
         /\ \A old : Shows(old, in, FormOf(in, cs, es))
<1> DEFINE f == FormOf(in, cs, es)
<1>1. f = [c \in cs |-> ShownValue(in, c, es)]
  BY DEF FormOf
<1>2. ASSUME NEW c \in cs
      PROVE  f[c] = in[c] \/ f[c] = Mask(c, in[c])
  BY <1>1 DEF ShownValue
<1> HIDE DEF f
<1>3. \A c \in cs : IsAnswer(c, f[c])
  BY <1>2, AnswersAre
<1>4. QED
  BY <1>1, <1>2, <1>3 DEF IsForm, Shows, f

LEMMA RolledIs ==
  ASSUME NEW date, date.day \in Int, date.day <= 28
  PROVE  Rolled(date) = date
<1>1. PICK length : length = MonthLength(date.year, date.month)
  OBVIOUS
<1>2. length \in {28, 29, 30, 31}
  BY <1>1 DEF MonthLength
<1>3. QED
  BY <1>1, <1>2 DEF Rolled

\* A date that any month has is shown as it is.
LEMMA DateShownIs ==
  ASSUME today \in Days, {"month", "year"} \subseteq page.parts, page.parts \subseteq {"day", "month", "year"},
         NEW v, v = [part \in page.parts |-> v[part]], Real(v), InEveryMonth(v)
  PROVE  DateShown(v) = v
<1> DEFINE Set(d, part) == IF part \in page.parts THEN Rolled([d EXCEPT ![part] = v[part]]) ELSE d
           one == Set(today, "day")
           two == Set(one, "month")
           three == Set(two, "year")
<1>1. DateShown(v) = [part \in page.parts |-> three[part]]
  BY DEF DateShown
<1>2. DOMAIN today = {"day", "month", "year"} /\ today.day \in Int
  BY DaysAssumption
<1>3. /\ DOMAIN one = {"day", "month", "year"} /\ one.day \in Int /\ one.day <= 28
      /\ "day" \in page.parts => one.day = v["day"]
  <2>1. CASE "day" \in page.parts
    <3> DEFINE d == [today EXCEPT !["day"] = v["day"]]
    <3>1. v["day"] \in Int /\ v["day"] <= 28
      <4>1. v["day"] \in 1..MonthLength(v["year"], v["month"])
        BY <2>1 DEF Real
      <4>2. QED
        BY <2>1, <4>1 DEF InEveryMonth
    <3>2. DOMAIN d = {"day", "month", "year"} /\ d.day = v["day"]
      BY <1>2
    <3> HIDE DEF d
    <3>3. Rolled(d) = d
      BY <3>1, <3>2, RolledIs
    <3>4. one = d
      BY <2>1, <3>3 DEF d
    <3> HIDE DEF one
    <3>5. QED
      BY <3>1, <3>2, <3>4
  <2>2. CASE "day" \notin page.parts
    <3>1. one = today
      BY <2>2
    <3>2. today.day <= 28
      BY <2>2 DEF InEveryMonth
    <3> HIDE DEF one
    <3>3. QED
      BY <1>2, <2>2, <3>1, <3>2
  <2>3. QED
    BY <2>1, <2>2
<1> HIDE DEF one
<1>4. /\ DOMAIN two = {"day", "month", "year"} /\ two.day = one.day
      /\ two.month = v["month"]
  <2> DEFINE d == [one EXCEPT !["month"] = v["month"]]
  <2>1. DOMAIN d = {"day", "month", "year"} /\ d.day = one.day /\ d.month = v["month"]
    BY <1>3
  <2> HIDE DEF d
  <2>2. Rolled(d) = d
    BY <1>3, <2>1, RolledIs
  <2>3. two = d
    BY <2>2 DEF d
  <2> HIDE DEF two
  <2>4. QED
    BY <2>1, <2>3
<1> HIDE DEF two
<1>5. three.day = one.day /\ three.month = v["month"] /\ three.year = v["year"]
  <2> DEFINE d == [two EXCEPT !["year"] = v["year"]]
  <2>1. d.day = one.day /\ d.month = v["month"] /\ d.year = v["year"]
    BY <1>4
  <2> HIDE DEF d
  <2>2. Rolled(d) = d
    BY <1>3, <2>1, RolledIs
  <2>3. three = d
    BY <2>2 DEF d
  <2> HIDE DEF three
  <2>4. QED
    BY <2>1, <2>3
<1> HIDE DEF three
<1>6. \A part \in page.parts : three[part] = v[part]
  BY <1>3, <1>5
<1>7. QED
  BY <1>1, <1>6

\* What the summary lists of valid answers is what is submitted of them.
LEMMA ListedIs ==
  ASSUME IsPage(page), today \in Days, NEW in, \A c \in Controls : IsAnswer(c, in[c]), Unset(in),
         Complete(in, Present(in))
  PROVE  LET listed == Listed(in)
             output == OutputData(in)
         IN  /\ DOMAIN listed \subseteq Present(in)
             /\ \A c \in DOMAIN output \cap Present(in) :
                  /\ c \in DOMAIN listed
                  /\ (Is(c, "date") => InEveryMonth(output[c])) => listed[c] = output[c]
             /\ \A c \in DOMAIN listed : listed[c] # NoAnswer(c) => c \in DOMAIN output
<1> DEFINE listed == Listed(in)
           output == OutputData(in)
<1>1. /\ DOMAIN listed = {c \in Present(in) : ~Hidden(in, c)}
      /\ \A c \in DOMAIN listed : listed[c] = DisplayValue(in, c)
  BY DEF Listed
<1>2. /\ DOMAIN output = {c \in Controls : in[c] # NoAnswer(c)}
      /\ \A c \in DOMAIN output : output[c] = in[c]
  BY DEF OutputData
<1> HIDE DEF listed, output
<1>3. Present(in) \subseteq Controls
  BY PresentIs
<1>4. ASSUME NEW c \in Controls, Is(c, "date")
      PROVE  /\ in[c] = [part \in page.parts |-> in[c][part]]
             /\ NoAnswer(c) = [part \in page.parts |-> Blank]
             /\ {"month", "year"} \subseteq page.parts /\ page.parts \subseteq {"day", "month", "year"}
  <2>1. in[c] = [part \in page.parts |-> in[c][part]]
    BY <1>4 DEF IsAnswer
  <2>2. NoAnswer(c) = [part \in page.parts |-> Blank]
    BY <1>4 DEF NoAnswer, Is
  <2>3. c \in Range(page.controls) /\ page.kind[c] = "date"
    BY <1>4 DEF Controls, Is
  <2>4. QED
    BY <2>1, <2>2, <2>3 DEF IsPage
<1>5. ASSUME NEW c \in DOMAIN output \cap Present(in)
      PROVE  c \in DOMAIN listed
  <2>1. c \in Controls /\ in[c] # NoAnswer(c)
    BY <1>2
  <2>2. ~Hidden(in, c)
    BY <2>1 DEF Unset
  <2>3. QED
    BY <1>1, <2>2
<1>6. ASSUME NEW c \in DOMAIN output \cap Present(in), Is(c, "date") => InEveryMonth(output[c])
      PROVE  listed[c] = output[c]
  <2>1. /\ c \in Controls /\ c \in Present(in) /\ in[c] # NoAnswer(c) /\ output[c] = in[c]
        /\ listed[c] = DisplayValue(in, c)
    BY <1>1, <1>2, <1>5
  <2>2. CASE ~Is(c, "date")
    BY <2>1, <2>2 DEF DisplayValue
  <2>3. CASE Is(c, "date")
    <3>1. Blank \notin Range(in[c]) /\ Real(in[c])
      BY <2>1, <2>3 DEF Complete
    <3>2. DOMAIN in[c] = page.parts
      BY <1>4, <2>1, <2>3
    <3>3. ~\E part \in page.parts : in[c][part] = Blank
      BY <3>1, <3>2 DEF Range
    <3>4. DisplayValue(in, c) = DateShown(in[c])
      BY <2>3, <3>3 DEF DisplayValue
    <3>5. DateShown(in[c]) = in[c]
      <4> DEFINE v == in[c]
      <4>1. v = [part \in page.parts |-> v[part]] /\ Real(v) /\ InEveryMonth(v)
        BY <1>4, <1>6, <2>1, <2>3, <3>1
      <4>2. {"month", "year"} \subseteq page.parts /\ page.parts \subseteq {"day", "month", "year"}
        BY <1>4, <2>1, <2>3
      <4> HIDE DEF v
      <4>3. DateShown(v) = v
        BY <4>1, <4>2, DateShownIs
      <4>4. QED
        BY <4>3 DEF v
    <3>6. QED
      BY <2>1, <3>4, <3>5
  <2>4. QED
    BY <2>2, <2>3
<1>7. ASSUME NEW c \in DOMAIN listed, c \notin DOMAIN output
      PROVE  listed[c] = NoAnswer(c)
  <2>1. c \in Controls /\ in[c] = NoAnswer(c) /\ listed[c] = DisplayValue(in, c)
    BY <1>1, <1>2, <1>3, <1>7
  <2>2. CASE ~Is(c, "date")
    BY <2>1, <2>2 DEF DisplayValue
  <2>3. CASE Is(c, "date")
    <3>1. "month" \in page.parts /\ in[c]["month"] = Blank
      <4>1. "month" \in page.parts /\ NoAnswer(c) = [part \in page.parts |-> Blank]
        BY <1>4, <2>1, <2>3
      <4>2. NoAnswer(c)["month"] = Blank
        BY <4>1
      <4>3. QED
        BY <2>1, <4>1, <4>2
    <3>2. QED
      BY <2>1, <2>3, <3>1 DEF DisplayValue
  <2>4. QED
    BY <2>2, <2>3
<1>8. QED
  BY <1>1, <1>5, <1>6, <1>7 DEF listed, output

\* What is posted of a form: what it shows or a choice.
LEMMA TypedIs ==
  ASSUME IsPage(page), NEW f, IsForm(f), NEW fields \in Typed(f)
  PROVE  /\ DOMAIN fields = DOMAIN f
         /\ \A c \in DOMAIN f : fields[c] = f[c] \/ fields[c] \in page.choices[c]
         /\ \A c \in DOMAIN f : IsAnswer(c, fields[c])
<1>1. DOMAIN fields = DOMAIN f /\ \A c \in DOMAIN f : fields[c] = f[c] \/ fields[c] \in page.choices[c]
  <2>1. CASE fields = f
    BY <2>1
  <2>2. CASE fields # f
    <3>1. PICK c \in DOMAIN f : fields \in {[f EXCEPT ![c] = v] : v \in page.choices[c]}
      BY <2>2 DEF Typed
    <3>2. PICK v \in page.choices[c] : fields = [f EXCEPT ![c] = v]
      BY <3>1
    <3>3. QED
      BY <3>2 DEF IsForm
  <2>3. QED
    BY <2>1, <2>2
<1>2. ASSUME NEW c \in DOMAIN f
      PROVE  IsAnswer(c, fields[c])
  <2>1. c \in Controls /\ IsAnswer(c, f[c])
    BY DEF IsForm
  <2>2. QED
    BY <1>1, <2>1, AnswersAre
<1>3. QED
  BY <1>1, <1>2

\* What the answers are after a post of a form.
LEMMA PostStores ==
  ASSUME IsPage(page), form # None, IsTyped(input, form), Unset(input), Shows(oldForms, input, form),
         NEW fields \in Typed(form)
  PROVE  LET cs == Present(input)
             stored == ProcessInput(input, cs, fields)
         IN  /\ stored = [c \in Controls \cup {Outside} |-> stored[c]]
             /\ \A c \in Controls : IsAnswer(c, stored[c])
             /\ Unset(stored)
             /\ ~oldForms =>
                  \A c \in cs :
                    stored[c] = IF Hidden(stored, c) \/ c \notin DOMAIN form THEN NoAnswer(c)
                                ELSE Meant(form, fields)[c]
<1> DEFINE cs == Present(input)
           stored == ProcessInput(input, cs, fields)
           posted == Posted(cs, fields)
           A == Controls \cup {Outside}
           D == {input[c] : c \in A} \cup {posted[c] : c \in cs} \cup {NoAnswer(c) : c \in cs}
<1>1. /\ DOMAIN fields = DOMAIN form
      /\ \A c \in DOMAIN form : fields[c] = form[c] \/ fields[c] \in page.choices[c]
      /\ \A c \in DOMAIN form : IsAnswer(c, fields[c])
  BY TypedIs DEF IsTyped
<1>2. cs \in SUBSET Controls /\ Controls \subseteq A
  BY PresentIs
<1>3. input \in [A -> D] /\ posted \in [cs -> D] /\ \A c \in cs : NoAnswer(c) \in D
  <2>1. input = [c \in A |-> input[c]]
    BY DEF IsTyped
  <2>2. posted = [c \in cs |-> posted[c]]
    BY DEF Posted
  <2>3. (\A c \in A : input[c] \in D) /\ (\A c \in cs : posted[c] \in D) /\ \A c \in cs : NoAnswer(c) \in D
    OBVIOUS
  <2> HIDE DEF D, posted, A
  <2>4. QED
    BY <2>1, <2>2, <2>3
<1>4. /\ \A c \in cs : posted[c] = IF c \in DOMAIN form THEN fields[c] ELSE NoAnswer(c)
      /\ \A c \in cs : IsAnswer(c, posted[c]) /\ IsAnswer(c, NoAnswer(c))
  <2>1. \A c \in cs : posted[c] = IF c \in DOMAIN form THEN fields[c] ELSE NoAnswer(c)
    BY <1>1 DEF Posted
  <2>2. \A c \in cs : IsAnswer(c, NoAnswer(c))
    BY <1>2, AnswersAre
  <2> HIDE DEF posted, cs
  <2>3. QED
    BY <1>1, <2>1, <2>2
<1>5. /\ stored \in [A -> D]
      /\ \A d \in A \ cs : stored[d] = input[d]
      /\ \A c \in cs : stored[c] = Updated(c, input[c], Kept(stored, c, posted))
  <2> HIDE DEF A, D, cs
  <2>1. QED
    BY <1>2, <1>3, ProcessIs
<1> HIDE DEF cs, stored, posted, D
<1>6. ASSUME NEW c \in Controls
      PROVE  IsAnswer(c, stored[c])
  <2>1. IsAnswer(c, input[c])
    BY DEF IsTyped
  <2>2. CASE c \in cs
    <3>1. IsAnswer(c, Kept(stored, c, posted))
      BY <1>4, <2>2 DEF Kept
    <3>2. stored[c] = input[c] \/ stored[c] = Kept(stored, c, posted)
      BY <1>5, <2>2 DEF Updated
    <3>3. QED
      BY <2>1, <3>1, <3>2
  <2>3. CASE c \notin cs
    BY <1>5, <2>1, <2>3
  <2>4. QED
    BY <2>2, <2>3
<1>7. ASSUME NEW c \in cs, Kept(stored, c, posted) = NoAnswer(c)
      PROVE  stored[c] = NoAnswer(c)
  <2>1. stored[c] = Updated(c, input[c], NoAnswer(c))
    BY <1>5, <1>7
  <2>2. c \in page.redacted => NoAnswer(c) = Blank
    BY <1>2, AnswersAre
  <2>3. QED
    BY <2>1, <2>2 DEF Updated
<1>8. ASSUME NEW c \in cs, Hidden(stored, c)
      PROVE  stored[c] = NoAnswer(c)
  BY <1>7, <1>8 DEF Kept
<1>9. ASSUME NEW c \in Controls, c \notin cs
      PROVE  stored[c] = input[c] /\ (Hidden(stored, c) <=> Hidden(input, c))
  <2>1. stored[c] = input[c]
    BY <1>5, <1>9
  <2>2. ASSUME page.when[c] # None
        PROVE  stored[page.when[c].of] = input[page.when[c].of]
    <3>1. page.show[c] = None /\ page.when[c].of \in Controls
      BY <2>2, PageOrder
    <3>2. c \in cs <=> Holds(input, page.show[c]) /\ page.when[c].of \in cs
      BY <2>2, PresentIs DEF cs
    <3>3. page.when[c].of \notin cs
      BY <1>9, <3>1, <3>2 DEF Holds
    <3>4. QED
      BY <1>5, <3>1, <3>3
  <2>3. QED
    BY <2>1, <2>2, HiddenSame
<1>10. Unset(stored)
  BY <1>8, <1>9 DEF Unset
<1>11. ASSUME ~oldForms, NEW c \in cs
       PROVE  stored[c] = IF Hidden(stored, c) \/ c \notin DOMAIN form THEN NoAnswer(c)
                          ELSE Meant(form, fields)[c]
  <2>1. CASE Hidden(stored, c)
    BY <1>8, <2>1
  <2>2. CASE c \notin DOMAIN form
    <3>1. Kept(stored, c, posted) = NoAnswer(c)
      BY <1>4, <2>2 DEF Kept
    <3>2. QED
      BY <1>7, <2>2, <3>1
  <2>3. CASE ~Hidden(stored, c) /\ c \in DOMAIN form
    <3> DEFINE old == input[c]
               v == fields[c]
    <3>1. stored[c] = Updated(c, old, v)
      BY <1>4, <1>5, <2>3 DEF Kept
    <3>2. Meant(form, fields)[c] = IF v = form[c] THEN old ELSE v
      BY <2>3 DEF Meant
    <3>3. /\ IsAnswer(c, old) /\ c \in Controls
          /\ v # form[c] => v \in page.choices[c]
          /\ form[c] = old \/ form[c] = Mask(c, old)
      BY <1>1, <1>2, <1>11, <2>3 DEF IsTyped, Shows
    <3>4. c \in page.redacted /\ page.mask[old] \in page.choices[c] \cup {Blank} => page.mask[old] = old
      BY <3>3, AnswersAre
    <3>5. Mask(c, old) = IF c \in page.redacted THEN page.mask[old] ELSE old
      BY DEF Mask
    <3> HIDE DEF old, v
    <3>6. Updated(c, old, v) = IF v = form[c] THEN old ELSE v
      <4>1. CASE c \notin page.redacted
        BY <3>3, <3>5, <4>1 DEF Updated
      <4>2. CASE c \in page.redacted /\ v = form[c]
        BY <3>3, <3>4, <3>5, <4>2 DEF Updated
      <4>3. CASE c \in page.redacted /\ v # form[c]
        BY <3>3, <3>4, <3>5, <4>3 DEF Updated
      <4>4. QED
        BY <4>1, <4>2, <4>3
    <3>7. QED
      BY <2>3, <3>1, <3>2, <3>6
  <2>4. QED
    BY <2>1, <2>2, <2>3
<1>12. stored = [c \in A |-> stored[c]]
  BY <1>5
<1>13. QED
  BY <1>6, <1>10, <1>11, <1>12 DEF stored, cs

\* What is said of a page whose hidden controls have no answers.
LEMMA SaidOfPage ==
  ASSUME IsPage(page), NEW ans, NEW cs \in SUBSET Controls, \A c \in Controls : IsAnswer(c, ans[c]), Unset(ans)
  PROVE  LET es == Validate(ans, cs)
             inline == ControlErrors(es)
             list == SummaryErrors(es, cs)
         IN  /\ es = <<>> <=> list = <<>>
             /\ \A c \in Controls :
                  /\ inline[c] = OfControl(list, c)
                  /\ inline[c] # <<>> => c \in cs /\ ~Hidden(ans, c) /\ OfControl(es, c) # <<>>
                  /\ Error(c, "required") \in Range(inline[c]) => Len(inline[c]) = 1
<1> DEFINE es == Validate(ans, cs)
           inline == ControlErrors(es)
           list == SummaryErrors(es, cs)
<1>1. /\ es \in Seq(AllErrors)
      /\ \A c \in Controls : OfControl(es, c) = IF c \in cs THEN Found(ans, c) ELSE <<>>
  BY ValidateIs
<1> HIDE DEF es
<1>2. /\ list = <<>> <=> es = <<>>
      /\ \A c \in Controls : OfControl(list, c) = OfControl(Displayed(es), c)
  BY <1>1, ListAgrees
<1>3. ASSUME NEW c \in Controls
      PROVE  inline[c] = OfControl(Displayed(es), c) /\ inline[c] = Displayed(OfControl(es, c))
  BY <1>1, ShownOfControl DEF ControlErrors
<1> HIDE DEF inline, list
<1>4. ASSUME NEW c \in Controls, inline[c] # <<>>
      PROVE  c \in cs /\ ~Hidden(ans, c) /\ OfControl(es, c) # <<>>
  <2>1. OfControl(es, c) # <<>>
    BY <1>3, <1>4, DisplayedEmpty
  <2>2. c \in cs /\ Found(ans, c) # <<>>
    BY <1>1, <2>1
  <2>3. ~Complete(ans, {c})
    BY <2>2, FoundNothing
  <2>4. ASSUME Hidden(ans, c)
        PROVE  Complete(ans, {c})
    <3>1. ans[c] = NoAnswer(c)
      BY <2>4 DEF Unset
    <3>2. page.kind[c] \in {"text", "radios"} => NoAnswer(c) = Blank
      BY DEF NoAnswer, Is
    <3>3. QED
      BY <2>4, <3>1, <3>2, BlankAssumption DEF Complete
  <2>5. QED
    BY <2>1, <2>2, <2>3, <2>4
<1>5. ASSUME NEW c \in Controls, Error(c, "required") \in Range(inline[c])
      PROVE  Len(inline[c]) = 1
  <2>1. inline[c] # <<>>
    BY <1>5 DEF Range
  <2>2. OfControl(es, c) = Found(ans, c) /\ Found(ans, c) \in Seq(AllErrors)
    <3>1. OfControl(es, c) = Found(ans, c)
      BY <1>1, <1>4, <2>1
    <3>2. OfControl(es, c) \in Seq(AllErrors)
      BY <1>1, OfControlIs
    <3>3. QED
      BY <3>1, <3>2
  <2>3. inline[c] = Displayed(Found(ans, c))
    BY <1>3, <2>2
  <2>4. Error(c, "required") \in ToSet(inline[c])
    BY <1>5 DEF Range, ToSet
  <2>5. QED
    BY <2>2, <2>3, <2>4, RequiredAlone
<1>6. QED
  BY <1>2, <1>3, <1>4, <1>5 DEF es, inline, list

-----------------------------------------------------------------------------
(* The requests *)

LEMMA InitInv ==
  ASSUME Init
  PROVE  PageInv
<1>1. page \in PageDefs /\ IsPage(page)
  BY PagesAssumption DEF Init
<1>2. today \in Days
  BY DaysAssumption DEF Init
<1>3. PICK out \in Outsides : input = NoAnswers(out)
  BY DEF Init
<1>4. form = None /\ summary = None /\ reply = None /\ sent = None /\ oldForms \in BOOLEAN
  BY DEF Init
<1>5. Outside \notin Controls
  BY <1>1, PageOrder
<1>6. \A c \in Controls : input[c] = NoAnswer(c)
  BY <1>3, <1>5 DEF NoAnswers
<1>7. IsTyped(input, form) /\ Unset(input)
  BY <1>1, <1>3, <1>4, <1>6, AnswersAre DEF IsTyped, NoAnswers, Unset
<1>8. QED
  BY <1>1, <1>2, <1>4, <1>7 DEF PageInv, Inv, Shows, SumsUp, Accepted, Obeyed, Agreed, SentListed

\* What is left of the form and of the summary page.
LEMMA Left ==
  ASSUME NEW in, IsTyped(in, form), oldForms \in BOOLEAN, NEW other
  PROVE  /\ IsTyped(in, LeavesForm)
         /\ Shows(oldForms, other, LeavesForm)
         /\ SumsUp(oldForms, other, LeavesSummary)
<1>1. CASE oldForms
  BY <1>1 DEF IsTyped, LeavesForm, Shows, SumsUp
<1>2. CASE ~oldForms
  BY <1>2 DEF IsTyped, LeavesForm, LeavesSummary, Shows, SumsUp
<1>3. QED
  BY <1>1, <1>2

LEMMA OpenedIs ==
  ASSUME IsPage(page), oldForms \in BOOLEAN, IsTyped(input, form), NEW in, IsTyped(in, None),
         NEW cs \in SUBSET Controls, NEW es, Opened(FormOf(in, cs, es))
  PROVE  /\ IsTyped(in, form') /\ Shows(oldForms, in, form')
         /\ ~oldForms => form' = FormOf(in, cs, es)
<1> DEFINE f == FormOf(in, cs, es)
<1>1. IsForm(f) /\ Shows(oldForms, in, f)
  <2>1. \A c \in cs : IsAnswer(c, in[c])
    BY DEF IsTyped
  <2>2. QED
    BY <2>1, FormIs
<1> HIDE DEF f
<1>2. form' = f \/ (oldForms /\ form # None /\ form' = form)
  BY DEF Opened, f
<1>3. CASE form' = f
  BY <1>1, <1>3 DEF IsTyped, f
<1>4. CASE oldForms /\ form # None /\ form' = form
  BY <1>4 DEF IsTyped, Shows
<1>5. QED
  BY <1>2, <1>3, <1>4 DEF f

LEMMA NothingSaid ==
  ASSUME NEW in, NEW f
  PROVE  /\ Accepted(in, None, None) /\ Obeyed(oldForms, in, None)
         /\ Agreed(oldForms, in, f, None) /\ SentListed(oldForms, None)
BY DEF Accepted, Obeyed, Agreed, SentListed

LEMMA InvNext ==
  ASSUME PageInv, [Next]_vars
  PROVE  PageInv'
<1>1. /\ page \in PageDefs /\ IsPage(page) /\ today \in Days /\ oldForms \in BOOLEAN
      /\ Inv(input, form, summary, reply, sent)
  BY PagesAssumption DEF PageInv
<1>2. /\ IsTyped(input, form) /\ Unset(input)
      /\ Shows(oldForms, input, form) /\ SumsUp(oldForms, input, summary)
  BY <1>1 DEF Inv
<1>3. (\A c \in Controls : IsAnswer(c, input[c])) /\ Outside \notin Controls /\ Present(input) \in SUBSET Controls
  BY <1>1, <1>2, PageOrder, PresentIs DEF IsTyped
<1>4. UNCHANGED <<page, today, oldForms>>
  BY DEF Next, View, AnswerOutside, Post, ViewSummary, Submit, vars
<1>5. SUFFICES Inv(input', form', summary', reply', sent')
  BY <1>1, <1>4, Carried DEF PageInv
<1>6. CASE UNCHANGED vars
  BY <1>1, <1>6 DEF vars
<1>7. CASE View
  <2>1. input' = input /\ summary' = LeavesSummary /\ reply' = None /\ sent' = None
    BY <1>7 DEF View
  <2>2. Opened(FormOf(input, Present(input), <<>>))
    BY <1>7 DEF View
  <2>3. IsTyped(input, None)
    BY <1>2 DEF IsTyped
  <2>4. IsTyped(input, form') /\ Shows(oldForms, input, form')
    BY <1>1, <1>2, <1>3, <2>2, <2>3, OpenedIs
  <2>5. SumsUp(oldForms, input, LeavesSummary)
    BY <1>1, <1>2, Left
  <2>6. QED
    BY <1>2, <2>1, <2>4, <2>5, NothingSaid DEF Inv
<1>8. ASSUME NEW out \in Outsides, AnswerOutside(out)
      PROVE  Inv(input', form', summary', reply', sent')
  <2>1. /\ input' = [input EXCEPT ![Outside] = out] /\ form' = LeavesForm
        /\ summary' = LeavesSummary /\ reply' = None /\ sent' = None
    BY <1>8 DEF AnswerOutside
  <2>2. (\A c \in Controls : input'[c] = input[c]) /\ input' = [c \in Controls \cup {Outside} |-> input'[c]]
    BY <1>2, <1>3, <2>1 DEF IsTyped
  <2>3. IsTyped(input', form)
    BY <1>2, <2>2 DEF IsTyped
  <2>4. IsTyped(input', LeavesForm) /\ Shows(oldForms, input', LeavesForm) /\ SumsUp(oldForms, input', LeavesSummary)
    BY <1>1, <2>3, Left
  <2>5. Unset(input')
    <3>1. ASSUME NEW c \in Controls, page.when[c] # None
          PROVE  input'[page.when[c].of] = input[page.when[c].of]
      BY <1>1, <2>2, <3>1, PageOrder
    <3>2. \A c \in Controls : Hidden(input', c) <=> Hidden(input, c)
      BY <3>1, HiddenSame
    <3>3. QED
      BY <1>2, <2>2, <3>2 DEF Unset
  <2>6. QED
    BY <2>1, <2>4, <2>5, NothingSaid DEF Inv
<1>9. ASSUME form # None, NEW fields \in Typed(form), Post(form, fields)
      PROVE  Inv(input', form', summary', reply', sent')
  <2> DEFINE cs == Present(input)
             stored == ProcessInput(input, cs, fields)
             es == Validate(stored, cs)
  <2>1. /\ stored = [c \in Controls \cup {Outside} |-> stored[c]]
        /\ \A c \in Controls : IsAnswer(c, stored[c])
        /\ Unset(stored)
        /\ ~oldForms =>
             \A c \in cs :
               stored[c] = IF Hidden(stored, c) \/ c \notin DOMAIN form THEN NoAnswer(c)
                           ELSE Meant(form, fields)[c]
    BY <1>1, <1>2, <1>9, PostStores
  <2>2. /\ input' = stored
        /\ reply' = [controls |-> cs, meant |-> Meant(form, fields), accepted |-> es = <<>>,
                     inline |-> ControlErrors(es), list |-> SummaryErrors(es, cs)]
        /\ IF es = <<>> THEN form' = LeavesForm ELSE Opened(FormOf(stored, cs \cap Present(stored), es))
        /\ summary' = LeavesSummary /\ sent' = None
    BY <1>9 DEF Post
  <2>3. es = <<>> <=> Complete(stored, cs)
    BY <1>1, <1>3, <2>1, ValidatedIs
  <2> HIDE DEF cs, stored, es
  <2>4. IsTyped(stored, form) /\ IsTyped(stored, None)
    BY <1>2, <2>1 DEF IsTyped
  <2>5. IsTyped(stored, form') /\ Shows(oldForms, stored, form')
    <3>1. CASE es = <<>>
      BY <1>1, <2>2, <2>4, <3>1, Left
    <3>2. CASE es # <<>>
      <4>1. cs \cap Present(stored) \in SUBSET Controls
        BY <1>3 DEF cs
      <4>2. Opened(FormOf(stored, cs \cap Present(stored), es))
        BY <2>2, <3>2
      <4>3. QED
        BY <1>1, <1>2, <2>4, <4>1, <4>2, OpenedIs
    <3>3. QED
      BY <3>1, <3>2
  <2>6. SumsUp(oldForms, stored, LeavesSummary)
    BY <1>1, <2>4, Left
  <2>7. Accepted(stored, reply', None)
    <3>1. reply'.controls = cs /\ (reply'.accepted <=> es = <<>>)
      BY <2>2
    <3>2. QED
      BY <2>3, <3>1 DEF Accepted
  <2>8. Obeyed(oldForms, stored, reply')
    <3>1. reply'.controls = cs /\ reply'.meant = Meant(form, fields)
      BY <2>2
    <3>2. DOMAIN Meant(form, fields) = DOMAIN form
      BY DEF Meant
    <3>3. QED
      BY <2>1, <3>1, <3>2 DEF Obeyed
  <2>9. SentListed(oldForms, None)
    BY NothingSaid
  <2>10. Agreed(oldForms, stored, form', reply')
    <3> DEFINE inline == ControlErrors(es)
               list == SummaryErrors(es, cs)
    <3>1. /\ reply'.controls = cs /\ (reply'.accepted <=> es = <<>>)
          /\ reply'.inline = inline /\ reply'.list = list
      BY <2>2
    <3>2. /\ es = <<>> <=> list = <<>>
          /\ \A c \in Controls :
               /\ inline[c] = OfControl(list, c)
               /\ inline[c] # <<>> => c \in cs /\ ~Hidden(stored, c) /\ OfControl(es, c) # <<>>
               /\ Error(c, "required") \in Range(inline[c]) => Len(inline[c]) = 1
      <4>1. cs \in SUBSET Controls
        BY <1>3 DEF cs
      <4>2. QED
        BY <1>1, <2>1, <4>1, SaidOfPage DEF es
    <3> HIDE DEF inline, list
    <3>3. ASSUME NEW c \in Controls, inline[c] # <<>>, ~oldForms, c \in DOMAIN form'
          PROVE  form'[c] = stored[c]
      <4>1. OfControl(es, c) # <<>>
        BY <3>2, <3>3
      <4>2. es # <<>>
        <5>1. <<>> \in Seq(AllErrors)
          OBVIOUS
        <5>2. OfControl(<<>>, c) = <<>>
          BY <5>1, OfControlIs, OnlyEmpty
        <5>3. QED
          BY <4>1, <5>2
      <4>3. cs \cap Present(stored) \in SUBSET Controls
        BY <1>3 DEF cs
      <4>4. Opened(FormOf(stored, cs \cap Present(stored), es))
        BY <2>2, <4>2
      <4>5. form' = FormOf(stored, cs \cap Present(stored), es)
        BY <1>1, <1>2, <2>4, <3>3, <4>3, <4>4, OpenedIs
      <4>6. form'[c] = ShownValue(stored, c, es)
        BY <3>3, <4>5 DEF FormOf
      <4>7. QED
        BY <4>1, <4>6 DEF ShownValue
    <3>4. QED
      BY <3>1, <3>2, <3>3 DEF Agreed
  <2>11. QED
    BY <2>1, <2>2, <2>5, <2>6, <2>7, <2>8, <2>9, <2>10 DEF Inv
<1>10. CASE ViewSummary
  <2>1. /\ input' = input /\ form' = LeavesForm /\ summary' = Listed(input)
        /\ reply' = None /\ sent' = None
    BY <1>10 DEF ViewSummary
  <2>2. IsTyped(input, LeavesForm) /\ Shows(oldForms, input, LeavesForm)
    BY <1>1, <1>2, Left
  <2>3. SumsUp(oldForms, input, Listed(input))
    BY DEF SumsUp
  <2>4. QED
    BY <1>2, <2>1, <2>2, <2>3, NothingSaid DEF Inv
<1>11. CASE Submit
  <2>1. /\ summary # None /\ Validated(input, Present(input))
        /\ sent' = [shown |-> summary, answers |-> input, listed |-> Listed(input),
                    output |-> OutputData(input)]
        /\ form' = None /\ summary' = None /\ reply' = None
    BY <1>11 DEF Submit
  <2>2. PICK out \in Outsides : input' = NoAnswers(out)
    BY <1>11 DEF Submit
  <2>3. \A c \in Controls : input'[c] = NoAnswer(c)
    BY <1>3, <2>2 DEF NoAnswers
  <2>4. IsTyped(input', None) /\ Unset(input')
    BY <1>1, <2>2, <2>3, AnswersAre DEF IsTyped, NoAnswers, Unset
  <2>5. Complete(input, Present(input))
    BY <1>1, <1>3, <2>1, ValidatedIs DEF Validated
  <2> DEFINE listed == Listed(input)
             output == OutputData(input)
  <2>6. /\ DOMAIN listed \subseteq Present(input)
        /\ \A c \in DOMAIN output \cap Present(input) :
             /\ c \in DOMAIN listed
             /\ (Is(c, "date") => InEveryMonth(output[c])) => listed[c] = output[c]
        /\ \A c \in DOMAIN listed : listed[c] # NoAnswer(c) => c \in DOMAIN output
    BY <1>1, <1>2, <1>3, <2>5, ListedIs
  <2>7. sent'.shown = summary /\ sent'.answers = input /\ sent'.listed = listed /\ sent'.output = output
    BY <2>1
  <2>8. ~oldForms => summary = listed
    BY <1>2, <2>1 DEF SumsUp
  <2> HIDE DEF listed, output
  <2>9. Complete(input, DOMAIN listed)
    BY <2>5, <2>6 DEF Complete
  <2>10. Accepted(input', None, sent')
    BY <2>7, <2>9 DEF Accepted
  <2>11. SentListed(oldForms, sent')
    BY <2>6, <2>7, <2>8 DEF SentListed
  <2>12. QED
    BY <2>1, <2>4, <2>10, <2>11 DEF Inv, Shows, SumsUp, Obeyed, Agreed
<1>12. QED
  BY <1>6, <1>7, <1>8, <1>9, <1>10, <1>11 DEF Next

LEMMA PageInvHolds == Spec => []PageInv
<1>1. Init => PageInv
  BY InitInv
<1>2. PageInv /\ [Next]_vars => PageInv'
  BY InvNext
<1>3. QED
  BY <1>1, <1>2, PTL DEF Spec

\* A post goes on exactly when the page is complete as it was when the post arrived, and
\* only complete answers are submitted: validateInput, and preFlight of the summary page,
\* find everything that is missing or wrong, and nothing else.
THEOREM OnlyCompleteGoesOn == Spec => []AcceptedIsComplete
<1>1. PageInv => AcceptedIsComplete
  BY DEF PageInv, Inv, Accepted, AcceptedIsComplete
<1>2. QED
  BY <1>1, PageInvHolds, PTL

\* The list of errors at the top and the messages beside the controls agree, whatever
\* errors there are and in whatever order the two are made (setErrors).
THEOREM MessagesAgree == Spec => []ErrorsAgree
<1>1. PageInv => ErrorsAgree
  BY DEF PageInv, Inv, Agreed, ErrorsAgree
<1>2. QED
  BY <1>1, PageInvHolds, PTL

\* A post of the last form stores what the user meant, masks and hidden controls included
\* (processInput).
THEOREM PostsAreObeyed == Spec => []PostIsObeyed
<1>1. PageInv => PostIsObeyed
  BY DEF PageInv, Inv, Obeyed, PostIsObeyed
<1>2. QED
  BY <1>1, PageInvHolds, PTL

\* What is submitted is what the summary lists of the answers.
THEOREM ListIsSent == Spec => []SentAsListed
<1>1. PageInv => SentAsListed
  BY DEF PageInv, Inv, SentListed, SentAsListed
<1>2. QED
  BY <1>1, PageInvHolds, PTL

\* A control that another answer hides has no answer, whatever was posted and whatever the
\* pages and the posts before: processControl unsets it (process-control.js).
THEOREM HiddenIsUnset == Spec => [](\A c \in Controls : Hidden(input, c) => input[c] = NoAnswer(c))
<1>1. PageInv => \A c \in Controls : Hidden(input, c) => input[c] = NoAnswer(c)
  BY DEF PageInv, Inv, Unset
<1>2. QED
  BY <1>1, PageInvHolds, PTL
=============================================================================
