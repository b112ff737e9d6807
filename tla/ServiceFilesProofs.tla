------------------------ MODULE ServiceFilesProofs ------------------------
(***************************************************************************)
(* Proofs about ServiceFiles and ShownService, and the load of Definition  *)
(* and the conditions of Conditions that they rest on.                     *)
(*                                                                         *)
(* The first part has what is needed of the recursive functions: over a    *)
(* relation that leads nowhere in a circle, what recurs exists and what    *)
(* passes from above holds everywhere.  The second is about lists, the     *)
(* third about what a load makes of sources and which edits leave a        *)
(* service that loads, then come the invariants of ServiceFiles.  The last *)
(* is about conditions: what a group means, what the load makes of those   *)
(* of a page, and when users are shown it.                                 *)
(***************************************************************************)
EXTENDS ShownService, FiniteSetTheorems, TLAPS

-----------------------------------------------------------------------------
(* Recursion *)

\* What passes to each id from the one above it holds of all.
LEMMA FoundedInduction ==
  ASSUME NEW above, Founded(above), NEW G \in SUBSET DOMAIN above,
         \A id \in DOMAIN above : (above[id] \in DOMAIN above => above[id] \in G) => id \in G
  PROVE  G = DOMAIN above
<1>1. SUFFICES ASSUME DOMAIN above \ G # {}
               PROVE  FALSE
  OBVIOUS
<1>2. PICK id \in DOMAIN above \ G : above[id] \notin DOMAIN above \ G
  BY <1>1 DEF Founded
<1>3. QED
  BY <1>2

\* f recurs from each id to the one above it, and has the value of base where there is none.
Recurs(f, above, V, base, G) ==
  /\ f \in [DOMAIN above -> V]
  /\ \A q \in DOMAIN above :
       f[q] = IF above[q] \in DOMAIN above THEN G[<<q, f[above[q]]>>] ELSE base[q]

\* A function that recurs exists.
LEMMA Recursion ==
  ASSUME NEW above, Founded(above), NEW V,
         NEW base \in [DOMAIN above -> V], NEW G \in [(DOMAIN above) \X V -> V]
  PROVE  \E f : Recurs(f, above, V, base, G)
<1> DEFINE S == DOMAIN above
           Stops(q) == above[q] \notin S
           Closed(R) == /\ \A q \in S : Stops(q) => <<q, base[q]>> \in R
                        /\ \A q \in S : ~Stops(q) => \A v \in V :
                             <<above[q], v>> \in R => <<q, G[<<q, v>>]>> \in R
           Graph == {x \in S \X V : \A R \in SUBSET (S \X V) : Closed(R) => x \in R}
           Single == {q \in S : \E v \in V : /\ <<q, v>> \in Graph
                                             /\ \A w \in V : <<q, w>> \in Graph => w = v}
<1>1. Closed(Graph)
  <2>1. \A q \in S : Stops(q) => <<q, base[q]>> \in Graph
    OBVIOUS
  <2>2. ASSUME NEW q \in S, ~Stops(q), NEW v \in V, <<above[q], v>> \in Graph
        PROVE  <<q, G[<<q, v>>]>> \in Graph
    <3>1. <<q, G[<<q, v>>]>> \in S \X V
      OBVIOUS
    <3>2. ASSUME NEW R \in SUBSET (S \X V), Closed(R)
          PROVE  <<q, G[<<q, v>>]>> \in R
      <4>1. <<above[q], v>> \in R
        BY <2>2, <3>2
      <4>2. QED
        BY <2>2, <3>2, <4>1
    <3>3. QED
      BY <3>1, <3>2
  <2> HIDE DEF Graph
  <2>3. QED
    BY <2>1, <2>2
<1>2. ASSUME NEW x \in Graph, ~ \E q \in S : Stops(q) /\ x = <<q, base[q]>>,
             ~ \E q \in S : ~Stops(q) /\ \E v \in V : <<above[q], v>> \in Graph /\ x = <<q, G[<<q, v>>]>>
      PROVE  FALSE
  <2> DEFINE R == Graph \ {x}
  <2>1. R \in SUBSET (S \X V)
    OBVIOUS
  <2>2. Closed(R)
    <3> HIDE DEF Graph
    <3>1. \A q \in S : Stops(q) => <<q, base[q]>> \in R
      BY <1>1, <1>2
    <3>2. ASSUME NEW q \in S, ~Stops(q), NEW v \in V, <<above[q], v>> \in R
          PROVE  <<q, G[<<q, v>>]>> \in R
      BY <1>1, <1>2, <3>2
    <3> HIDE DEF R
    <3>3. QED
      BY <3>1, <3>2
  <2>3. QED
    BY <2>1, <2>2
<1>3. \A q \in S : \A v \in V : <<q, v>> \in Graph =>
        IF Stops(q) THEN v = base[q]
        ELSE \E w \in V : <<above[q], w>> \in Graph /\ v = G[<<q, w>>]
  <2> HIDE DEF Graph
  <2>1. QED
    BY <1>2
<1>4. Single = S
  <2>1. ASSUME NEW q \in S, above[q] \in S => above[q] \in Single
        PROVE  q \in Single
    <3> HIDE DEF Graph
    <3>1. CASE Stops(q)
      <4>1. <<q, base[q]>> \in Graph /\ \A w \in V : <<q, w>> \in Graph => w = base[q]
        BY <1>1, <1>3, <3>1
      <4>2. QED
        BY <4>1
    <3>2. CASE ~Stops(q)
      <4>1. above[q] \in Single
        BY <2>1, <3>2
      <4>2. PICK v \in V : <<above[q], v>> \in Graph /\ \A w \in V : <<above[q], w>> \in Graph => w = v
        BY <4>1
      <4>3. <<q, G[<<q, v>>]>> \in Graph
        BY <1>1, <3>2, <4>2
      <4>4. \A w \in V : <<q, w>> \in Graph => w = G[<<q, v>>]
        BY <1>3, <3>2, <4>2
      <4>5. QED
        BY <4>3, <4>4
    <3>3. QED
      BY <3>1, <3>2
  <2>2. Single \in SUBSET S
    OBVIOUS
  <2> HIDE DEF Single
  <2>3. QED
    BY <2>1, <2>2, FoundedInduction
<1> DEFINE f == [q \in S |-> CHOOSE v \in V : <<q, v>> \in Graph]
<1>5. \A q \in S : f[q] \in V /\ <<q, f[q]>> \in Graph /\ \A w \in V : <<q, w>> \in Graph => w = f[q]
  <2> HIDE DEF Graph
  <2>1. QED
    BY <1>4
<1>6. ASSUME NEW q \in S
      PROVE  f[q] = IF above[q] \in S THEN G[<<q, f[above[q]]>>] ELSE base[q]
  <2> HIDE DEF Graph, f
  <2>1. CASE Stops(q)
    BY <1>3, <1>5, <2>1
  <2>2. CASE ~Stops(q)
    <3>1. PICK w \in V : <<above[q], w>> \in Graph /\ f[q] = G[<<q, w>>]
      BY <1>3, <1>5, <2>2
    <3>2. w = f[above[q]]
      BY <1>5, <2>2, <3>1
    <3>3. QED
      BY <2>2, <3>1, <3>2
  <2>3. QED
    BY <2>1, <2>2
<1>7. f \in [S -> V]
  BY <1>5
<1> HIDE DEF f
<1>8. QED
  BY <1>6, <1>7 DEF Recurs

\* A relation that leads less far does not lead in a circle either.
LEMMA FoundedLess ==
  ASSUME NEW above, Founded(above), NEW less, DOMAIN less \subseteq DOMAIN above,
         \A id \in DOMAIN less : less[id] = above[id] \/ less[id] \notin DOMAIN less
  PROVE  Founded(less)
BY DEF Founded

\* Nor does one with an id more that leads nowhere.
LEMMA FoundedMore ==
  ASSUME NEW above, Founded(above), NEW more, DOMAIN above \subseteq DOMAIN more,
         \A id \in DOMAIN above : more[id] = above[id] /\ (above[id] \in DOMAIN more => above[id] \in DOMAIN above),
         \A id \in DOMAIN more \ DOMAIN above : more[id] \notin DOMAIN more
  PROVE  Founded(more)
<1>1. SUFFICES ASSUME NEW S \in SUBSET DOMAIN more, S # {}
               PROVE  \E id \in S : more[id] \notin S
  BY DEF Founded
<1>2. CASE S \cap DOMAIN above = {}
  BY <1>1, <1>2
<1>3. CASE S \cap DOMAIN above # {}
  <2>1. PICK id \in S \cap DOMAIN above : above[id] \notin S \cap DOMAIN above
    BY <1>3 DEF Founded
  <2>2. QED
    BY <1>1, <2>1
<1>4. QED
  BY <1>2, <1>3

\* What Upward returns.
LEMMA UpwardIs ==
  ASSUME NEW above, Founded(above)
  PROVE  /\ Upward(above) \in [DOMAIN above -> SUBSET DOMAIN above]
         /\ \A id \in DOMAIN above :
              /\ id \in Upward(above)[id]
              /\ above[id] \in DOMAIN above => Upward(above)[above[id]] \subseteq Upward(above)[id]
              /\ \A x \in Upward(above)[id] : above[x] \in DOMAIN above => above[x] \in Upward(above)[id]
<1> DEFINE S == DOMAIN above
           V == SUBSET S
           base == [q \in S |-> {q}]
           G == [x \in S \X V |-> {x[1]} \cup x[2]]
           up == CHOOSE f : f = [q \in S |-> {q} \cup IF above[q] \in S THEN f[above[q]] ELSE {}]
<1>1. base \in [S -> V] /\ G \in [S \X V -> V]
  OBVIOUS
<1>2. PICK f : Recurs(f, above, V, base, G)
  <2> HIDE DEF V, base, G
  <2>1. QED
    BY <1>1, Recursion
<1>3. /\ f \in [S -> V]
      /\ \A q \in S : f[q] = {q} \cup IF above[q] \in S THEN f[above[q]] ELSE {}
  BY <1>2 DEF Recurs
<1>4. f = [q \in S |-> {q} \cup IF above[q] \in S THEN f[above[q]] ELSE {}]
  BY <1>3
<1>5. up = [q \in S |-> {q} \cup IF above[q] \in S THEN up[above[q]] ELSE {}]
  BY <1>4
<1>6. Upward(above) = up
  BY DEF Upward
<1> HIDE DEF up
<1> DEFINE Good == {q \in S : up[q] \subseteq S /\ \A x \in up[q] : above[x] \in S => above[x] \in up[q]}
<1>7. ASSUME NEW q \in S, above[q] \in S => above[q] \in Good
      PROVE  q \in Good
  <2>1. CASE above[q] \in S
    <3>1. up[q] = {q} \cup up[above[q]] /\ up[above[q]] = {above[q]} \cup IF above[above[q]] \in S THEN up[above[above[q]]] ELSE {}
      BY <1>5, <2>1
    <3>2. QED
      BY <1>7, <2>1, <3>1
  <2>2. CASE above[q] \notin S
    <3>1. up[q] = {q}
      BY <1>5, <2>2
    <3>2. QED
      BY <2>2, <3>1
  <2>3. QED
    BY <2>1, <2>2
<1>8. Good = S
  <2>1. Good \in SUBSET S
    OBVIOUS
  <2> HIDE DEF Good
  <2>2. QED
    BY <1>7, <2>1, FoundedInduction
<1>9. DOMAIN up = S /\ \A q \in S : up[q] = {q} \cup IF above[q] \in S THEN up[above[q]] ELSE {}
  BY <1>5
<1>10. up \in [S -> SUBSET S]
  BY <1>5, <1>8, <1>9
<1>11. QED
  BY <1>6, <1>8, <1>9, <1>10

\* Nothing leads to itself where there may be several above one.
Ranked(pre) == \A T \in SUBSET DOMAIN pre : T # {} => \E q \in T : pre[q] \cap T = {}

LEMMA RankedInduction ==
  ASSUME NEW S, NEW pre \in [S -> SUBSET S], Ranked(pre), NEW Good \in SUBSET S,
         \A q \in S : pre[q] \subseteq Good => q \in Good
  PROVE  Good = S
<1>1. SUFFICES ASSUME S \ Good # {}
               PROVE  FALSE
  OBVIOUS
<1>2. PICK q \in S \ Good : pre[q] \cap (S \ Good) = {}
  BY <1>1 DEF Ranked
<1>3. QED
  BY <1>2

\* What a function has for one depends on what it has for those above it only.
RecursOver(S, pre, V, G) ==
  /\ pre \in [S -> SUBSET S]
  /\ Ranked(pre)
  /\ V # {}
  /\ G \in [S \X [S -> V] -> V]
  /\ \A q \in S : \A f, g \in [S -> V] :
       (\A p \in pre[q] : f[p] = g[p]) => G[<<q, f>>] = G[<<q, g>>]

\* A function that recurs from each to those above it exists.
LEMMA RankedRecursion ==
  ASSUME NEW S, NEW pre, NEW V, NEW G, RecursOver(S, pre, V, G)
  PROVE  \E f \in [S -> V] : \A q \in S : f[q] = G[<<q, f>>]
<1> DEFINE Right(f, T) == \A q \in T : pre[q] \subseteq T /\ f[q] = G[<<q, f>>]
           H == {q \in S : \E f \in [S -> V] : \E T \in SUBSET S : q \in T /\ Right(f, T)}
           Value(q, w) == \E f \in [S -> V] : \E T \in SUBSET S : q \in T /\ Right(f, T) /\ w = f[q]
           F == [q \in S |-> IF q \in H THEN CHOOSE w \in V : Value(q, w) ELSE CHOOSE w \in V : TRUE]
<1>0. /\ pre \in [S -> SUBSET S]
      /\ Ranked(pre)
      /\ V # {}
      /\ G \in [S \X [S -> V] -> V]
      /\ \A q \in S : \A f, g \in [S -> V] :
           (\A p \in pre[q] : f[p] = g[p]) => G[<<q, f>>] = G[<<q, g>>]
  BY DEF RecursOver
<1> USE <1>0
<1>1. ASSUME NEW f \in [S -> V], NEW g \in [S -> V], NEW T \in SUBSET S, NEW U \in SUBSET S,
             Right(f, T), Right(g, U)
      PROVE  \A q \in T \cap U : f[q] = g[q]
  <2> DEFINE Good == {q \in S : q \in T \cap U => f[q] = g[q]}
  <2>1. ASSUME NEW q \in S, pre[q] \subseteq Good
        PROVE  q \in Good
    <3>1. SUFFICES ASSUME q \in T \cap U PROVE f[q] = g[q]
      OBVIOUS
    <3>2. pre[q] \subseteq T \cap U
      BY <1>1, <3>1
    <3>3. \A p \in pre[q] : f[p] = g[p]
      BY <2>1, <3>2
    <3>4. G[<<q, f>>] = G[<<q, g>>]
      BY <3>3
    <3>5. QED
      BY <1>1, <3>1, <3>4
  <2>2. Good \in SUBSET S
    OBVIOUS
  <2> HIDE DEF Good
  <2>3. Good = S
    BY <2>1, <2>2, RankedInduction
  <2>4. QED
    BY <2>3 DEF Good
<1>2. F \in [S -> V]
  <2>1. ASSUME NEW q \in S, q \in H
        PROVE  (CHOOSE w \in V : Value(q, w)) \in V
    <3>1. \E w \in V : Value(q, w)
      BY <2>1
    <3> HIDE DEF Value
    <3>2. QED
      BY <3>1
  <2>2. (CHOOSE w \in V : TRUE) \in V
    OBVIOUS
  <2> HIDE DEF H, Value
  <2>3. QED
    BY <2>1, <2>2
<1>3. ASSUME NEW f \in [S -> V], NEW T \in SUBSET S, Right(f, T), NEW q \in T
      PROVE  q \in H /\ F[q] = f[q]
  <2>1. q \in H /\ f[q] \in V /\ Value(q, f[q])
    BY <1>3
  <2>2. \A w \in V : Value(q, w) => w = f[q]
    <3> HIDE DEF Right
    <3>1. QED
      BY <1>1, <1>3
  <2> HIDE DEF H, Value, Right
  <2>3. (CHOOSE w \in V : Value(q, w)) = f[q]
    BY <2>1, <2>2
  <2>4. QED
    BY <2>1, <2>3
<1>4. Right(F, H)
  <2>1. ASSUME NEW q \in H
        PROVE  pre[q] \subseteq H /\ F[q] = G[<<q, F>>]
    <3>1. PICK f \in [S -> V], T \in SUBSET S : q \in T /\ Right(f, T)
      OBVIOUS
    <3>2. pre[q] \subseteq T /\ f[q] = G[<<q, f>>]
      BY <3>1
    <3> HIDE DEF Right, H, F
    <3>3. pre[q] \subseteq H /\ F[q] = f[q] /\ \A p \in pre[q] : F[p] = f[p]
      BY <1>3, <3>1, <3>2
    <3>4. q \in S
      BY <3>1
    <3>5. G[<<q, F>>] = G[<<q, f>>]
      BY <1>2, <3>3, <3>4
    <3>6. QED
      BY <3>2, <3>3, <3>5
  <2> HIDE DEF H, F
  <2>2. QED
    BY <2>1
<1>5. ASSUME NEW q \in S, pre[q] \subseteq H
      PROVE  q \in H
  <2>1. SUFFICES ASSUME q \notin H PROVE FALSE
    OBVIOUS
  <2> DEFINE E == [F EXCEPT ![q] = G[<<q, F>>]]
             T == H \cup {q}
  <2>2. H \in SUBSET S /\ T \in SUBSET S
    OBVIOUS
  <2> HIDE DEF H, F
  <2>3. G[<<q, F>>] \in V
    BY <1>2
  <2>4. E \in [S -> V] /\ E[q] = G[<<q, F>>] /\ \A p \in H : E[p] = F[p]
    BY <1>2, <2>1, <2>2, <2>3
  <2> HIDE DEF E
  <2>5. ASSUME NEW p \in T
        PROVE  pre[p] \subseteq H /\ E[p] = G[<<p, F>>]
    <3>1. CASE p \in H
      BY <1>4, <2>4, <3>1
    <3>2. CASE p = q
      BY <1>5, <2>4, <3>2
    <3>3. QED
      BY <3>1, <3>2
  <2>6. ASSUME NEW p \in T
        PROVE  pre[p] \subseteq T /\ E[p] = G[<<p, E>>]
    <3>1. p \in S /\ pre[p] \subseteq H /\ E[p] = G[<<p, F>>]
      BY <2>2, <2>5
    <3>2. G[<<p, E>>] = G[<<p, F>>]
      BY <1>2, <2>4, <3>1
    <3>3. QED
      BY <3>1, <3>2
  <2>7. Right(E, T)
    BY <2>6
  <2>8. q \in T
    OBVIOUS
  <2> HIDE DEF T, Right
  <2>9. QED
    BY <1>3, <2>1, <2>2, <2>4, <2>7, <2>8
<1>6. H = S
  <2>1. H \in SUBSET S
    OBVIOUS
  <2> HIDE DEF H
  <2>2. QED
    BY <1>5, <2>1, RankedInduction
<1>7. \A q \in S : F[q] = G[<<q, F>>]
  <2> HIDE DEF F, H
  <2>1. QED
    BY <1>4, <1>6
<1> HIDE DEF F
<1>8. QED
  BY <1>2, <1>7

-----------------------------------------------------------------------------
(* Lists *)

\* A set of natural numbers has a least element.
LEMMA Least ==
  ASSUME NEW A \in SUBSET Nat, A # {}
  PROVE  \E m \in A : \A n \in A : m <= n
<1>1. PICK a \in A : TRUE
  OBVIOUS
<1> DEFINE Upto(k) == A \cap (0..k)
           B == Upto(a)
           T == {Upto(k) : k \in B}
<1>2. IsWellFoundedOn(StrictSubsetOrdering(B), FiniteSubsetsOf(B))
  BY FS_StrictSubsetOrderingWellFounded
<1>3. T \subseteq FiniteSubsetsOf(B) /\ T # {}
  <2>1. IsFiniteSet(B)
    <3>1. IsFiniteSet(0..a) /\ B \subseteq 0..a
      BY FS_Interval
    <3> HIDE DEF B
    <3>2. QED
      BY <3>1, FS_Subset
  <2>2. a \in B /\ \A k \in B : Upto(k) \subseteq B
    OBVIOUS
  <2> HIDE DEF Upto, B
  <2>3. \A k \in B : Upto(k) \in FiniteSubsetsOf(B)
    BY <2>1, <2>2, FS_Subset DEF FiniteSubsetsOf
  <2>4. QED
    BY <2>2, <2>3
<1>4. PICK X \in T : \A Y \in T : <<Y, X>> \notin StrictSubsetOrdering(B)
  <2> HIDE DEF T
  <2>1. QED
    BY <1>2, <1>3, WFMin
<1>5. PICK m \in B : X = Upto(m)
  <2> HIDE DEF Upto, B
  <2>1. QED
    OBVIOUS
<1>6. ASSUME NEW n \in A, n < m
      PROVE  FALSE
  <2>1. n \in B /\ Upto(n) \subseteq Upto(m) /\ m \in Upto(m) /\ m \notin Upto(n)
    BY <1>6
  <2>2. \A k \in B : Upto(k) \subseteq B
    OBVIOUS
  <2> HIDE DEF Upto, B
  <2>3. <<Upto(n), Upto(m)>> \in StrictSubsetOrdering(B)
    BY <2>1, <2>2 DEF StrictSubsetOrdering
  <2>4. QED
    BY <1>4, <1>5, <2>1, <2>3
<1>7. QED
  BY <1>6

\* The places of a list lead down to zero.
LEMMA DownFounded ==
  ASSUME NEW n \in Nat
  PROVE  Founded([i \in 0..n |-> i - 1])
<1>1. SUFFICES ASSUME NEW S \in SUBSET (0..n), S # {}
               PROVE  \E i \in S : i - 1 \notin S
  BY DEF Founded
<1>2. PICK m \in S : \A i \in S : m <= i
  BY <1>1, Least
<1>3. QED
  BY <1>2

LEMMA DownInduction ==
  ASSUME NEW n \in Nat, NEW G \in SUBSET (0..n), 0 \in G, \A i \in 1..n : i - 1 \in G => i \in G
  PROVE  G = 0..n
<1> DEFINE down == [i \in 0..n |-> i - 1]
<1>1. Founded(down) /\ DOMAIN down = 0..n
  BY DownFounded
<1>2. \A i \in 0..n : (down[i] \in 0..n => down[i] \in G) => i \in G
  OBVIOUS
<1> HIDE DEF down
<1>3. QED
  BY <1>1, <1>2, FoundedInduction

Prefix(list, i) == [j \in 1..i |-> list[j]]

LEMMA PrefixIs ==
  ASSUME NEW T, NEW list \in Seq(T)
  PROVE  /\ Prefix(list, 0) = <<>>
         /\ Prefix(list, Len(list)) = list
         /\ \A i \in 0..Len(list) : Prefix(list, i) \in Seq(T) /\ Len(Prefix(list, i)) = i
         /\ \A i \in 1..Len(list) : Prefix(list, i) = Append(Prefix(list, i - 1), list[i])
<1> DEFINE n == Len(list)
<1>1. n \in Nat /\ list = [j \in 1..n |-> list[j]] /\ \A j \in 1..n : list[j] \in T
  OBVIOUS
<1>2. \A i \in 0..n : Prefix(list, i) \in Seq(T) /\ Len(Prefix(list, i)) = i
  BY <1>1 DEF Prefix
<1>3. ASSUME NEW i \in 1..n
      PROVE  Prefix(list, i) = Append(Prefix(list, i - 1), list[i])
  <2>1. Prefix(list, i - 1) \in Seq(T) /\ Len(Prefix(list, i - 1)) = i - 1
    BY <1>2
  <2>2. Append(Prefix(list, i - 1), list[i]) \in Seq(T) /\ Len(Append(Prefix(list, i - 1), list[i])) = i
    BY <1>1, <2>1
  <2>3. \A j \in 1..i : Append(Prefix(list, i - 1), list[i])[j] = list[j]
    BY <2>1 DEF Prefix
  <2>4. QED
    BY <1>2, <2>2, <2>3 DEF Prefix
<1>4. Prefix(list, 0) = <<>>
  BY DEF Prefix
<1>5. QED
  BY <1>1, <1>2, <1>3, <1>4 DEF Prefix

KeptBy(kept, list, set, T) ==
  /\ kept \in [0..Len(list) -> Seq(T)]
  /\ kept[0] = <<>>
  /\ \A i \in 1..Len(list) :
       kept[i] = IF list[i] \in set THEN Append(kept[i - 1], list[i]) ELSE kept[i - 1]
  /\ Only(list, set) = kept[Len(list)]

LEMMA OnlyRecurs ==
  ASSUME NEW T, NEW list \in Seq(T), NEW set
  PROVE  \E kept : KeptBy(kept, list, set, T)
<1> DEFINE n == Len(list)
           V == Seq(T)
           down == [i \in 0..n |-> i - 1]
           base == [i \in 0..n |-> <<>>]
           G == [x \in (0..n) \X V |->
                   IF x[1] # 0 /\ list[x[1]] \in set THEN Append(x[2], list[x[1]]) ELSE x[2]]
           kept == CHOOSE f : f = [i \in 0..n |->
                     IF i = 0 THEN <<>>
                     ELSE IF list[i] \in set THEN Append(f[i - 1], list[i]) ELSE f[i - 1]]
<1>1. n \in Nat /\ \A i \in 1..n : list[i] \in T
  OBVIOUS
<1>2. Founded(down) /\ DOMAIN down = 0..n
  BY <1>1, DownFounded
<1>3. base \in [0..n -> V]
  OBVIOUS
<1>4. G \in [(0..n) \X V -> V]
  <2>1. ASSUME NEW i \in 0..n, NEW v \in V, i # 0
        PROVE  Append(v, list[i]) \in V
    BY <1>1, <2>1
  <2>2. QED
    BY <2>1
<1>5. PICK f : Recurs(f, down, V, base, G)
  <2> HIDE DEF V, down, base, G
  <2>1. QED
    BY <1>2, <1>3, <1>4, Recursion
<1>6. /\ f \in [0..n -> V]
      /\ \A i \in 0..n : f[i] = IF down[i] \in 0..n THEN G[<<i, f[down[i]]>>] ELSE base[i]
  <2> HIDE DEF V, down, base, G
  <2>1. QED
    BY <1>2, <1>5 DEF Recurs
<1>7. f[0] = <<>>
  <2>1. 0 \in 0..n /\ down[0] \notin 0..n /\ base[0] = <<>>
    BY <1>1
  <2> HIDE DEF V, down, base, G
  <2>2. QED
    BY <1>6, <2>1
<1>8. ASSUME NEW i \in 1..n
      PROVE  f[i] = IF list[i] \in set THEN Append(f[i - 1], list[i]) ELSE f[i - 1]
  <2>1. i \in 0..n /\ i - 1 \in 0..n /\ i # 0 /\ down[i] = i - 1
    BY <1>1
  <2>2. f[i] = G[<<i, f[i - 1]>>] /\ f[i - 1] \in V
    BY <1>6, <2>1
  <2>3. QED
    BY <2>1, <2>2
<1>9. f = [i \in 0..n |-> IF i = 0 THEN <<>>
                          ELSE IF list[i] \in set THEN Append(f[i - 1], list[i]) ELSE f[i - 1]]
  <2>1. \A i \in 0..n : f[i] = IF i = 0 THEN <<>>
                               ELSE IF list[i] \in set THEN Append(f[i - 1], list[i]) ELSE f[i - 1]
    <3>1. \A i \in 0..n : i = 0 \/ i \in 1..n
      BY <1>1
    <3>2. QED
      BY <1>7, <1>8, <3>1
  <2>2. QED
    BY <1>6, <2>1
<1>10. kept = [i \in 0..n |-> IF i = 0 THEN <<>>
                              ELSE IF list[i] \in set THEN Append(kept[i - 1], list[i]) ELSE kept[i - 1]]
  BY <1>9
<1>11. Only(list, set) = kept[n]
  BY DEF Only
<1> HIDE DEF kept
<1>12. DOMAIN kept = 0..n /\ kept[0] = <<>>
  BY <1>1, <1>10
<1>13. \A i \in 1..n : kept[i] = IF list[i] \in set THEN Append(kept[i - 1], list[i]) ELSE kept[i - 1]
  <2>1. \A i \in 1..n : i \in 0..n /\ i # 0
    BY <1>1
  <2>2. QED
    BY <1>10, <2>1
<1>14. kept \in [0..n -> V]
  <2> DEFINE Good == {i \in 0..n : kept[i] \in V}
  <2>1. 0 \in Good
    BY <1>1, <1>12
  <2>2. ASSUME NEW i \in 1..n, i - 1 \in Good
        PROVE  i \in Good
    <3>1. i \in 0..n /\ list[i] \in T /\ kept[i - 1] \in Seq(T)
      BY <1>1, <2>2
    <3>2. Append(kept[i - 1], list[i]) \in Seq(T)
      BY <3>1
    <3>3. QED
      BY <1>13, <3>1, <3>2
  <2>3. Good \in SUBSET (0..n)
    OBVIOUS
  <2> HIDE DEF Good, n
  <2>4. Good = 0..n
    BY <1>1, <2>1, <2>2, <2>3, DownInduction
  <2>5. QED
    BY <1>10, <2>4 DEF Good
<1>15. KeptBy(kept, list, set, T)
  BY <1>11, <1>12, <1>13, <1>14 DEF KeptBy
<1>16. QED
  BY <1>15

LEMMA OnlyEmpty ==
  ASSUME NEW set
  PROVE  Only(<<>>, set) = <<>>
<1>1. <<>> \in Seq({})
  OBVIOUS
<1>2. PICK kept : KeptBy(kept, <<>>, set, {})
  BY <1>1, OnlyRecurs
<1>3. QED
  BY <1>2 DEF KeptBy

LEMMA OnlyAppend ==
  ASSUME NEW T, NEW list \in Seq(T), NEW x \in T, NEW set
  PROVE  Only(Append(list, x), set) = IF x \in set THEN Append(Only(list, set), x) ELSE Only(list, set)
<1> DEFINE n == Len(list)
           longer == Append(list, x)
<1>1. n \in Nat /\ longer \in Seq(T) /\ Len(longer) = n + 1 /\ longer[n + 1] = x
      /\ \A i \in 1..n : longer[i] = list[i]
  OBVIOUS
<1>2. PICK kept : KeptBy(kept, list, set, T)
  BY OnlyRecurs
<1>3. PICK more : KeptBy(more, longer, set, T)
  BY <1>1, OnlyRecurs
<1> DEFINE Good == {i \in 0..n : more[i] = kept[i]}
<1>4. 0 \in Good
  BY <1>1, <1>2, <1>3 DEF KeptBy
<1>5. ASSUME NEW i \in 1..n, i - 1 \in Good
      PROVE  i \in Good
  <2>1. i \in 1..Len(longer)
    BY <1>1
  <2>2. more[i] = IF longer[i] \in set THEN Append(more[i - 1], longer[i]) ELSE more[i - 1]
    BY <1>3, <2>1 DEF KeptBy
  <2>3. kept[i] = IF list[i] \in set THEN Append(kept[i - 1], list[i]) ELSE kept[i - 1]
    BY <1>2 DEF KeptBy
  <2>4. QED
    BY <1>1, <1>5, <2>2, <2>3
<1>6. Good = 0..n
  <2>1. Good \in SUBSET (0..n)
    OBVIOUS
  <2> HIDE DEF Good, n
  <2>2. QED
    BY <1>1, <1>4, <1>5, <2>1, DownInduction
<1>7. more[n] = Only(list, set)
  <2>1. n \in Good
    BY <1>1, <1>6
  <2>2. QED
    BY <1>2, <2>1 DEF KeptBy
<1>8. Only(longer, set) = IF x \in set THEN Append(more[n], x) ELSE more[n]
  <2>1. n + 1 \in 1..Len(longer) /\ (n + 1) - 1 = n
    BY <1>1
  <2>2. Only(longer, set) = more[n + 1]
    BY <1>1, <1>3 DEF KeptBy
  <2>3. more[n + 1] = IF longer[n + 1] \in set THEN Append(more[(n + 1) - 1], longer[n + 1]) ELSE more[(n + 1) - 1]
    BY <1>3, <2>1 DEF KeptBy
  <2>4. QED
    BY <1>1, <2>1, <2>2, <2>3
<1>9. QED
  BY <1>7, <1>8

LEMMA OnlyPrefix ==
  ASSUME NEW T, NEW list \in Seq(T), NEW set, NEW i \in 1..Len(list)
  PROVE  /\ Prefix(list, i) = Append(Prefix(list, i - 1), list[i])
         /\ Prefix(list, i - 1) \in Seq(T) /\ Len(Prefix(list, i - 1)) = i - 1 /\ list[i] \in T
         /\ Only(Prefix(list, i), set) =
              IF list[i] \in set THEN Append(Only(Prefix(list, i - 1), set), list[i])
              ELSE Only(Prefix(list, i - 1), set)
<1> DEFINE front == Prefix(list, i - 1)
           x == list[i]
<1>1. i - 1 \in 0..Len(list) /\ x \in T
  OBVIOUS
<1>2. Prefix(list, i) = Append(front, x) /\ front \in Seq(T) /\ Len(front) = i - 1
  BY <1>1, PrefixIs
<1> HIDE DEF front, x
<1>3. Only(Append(front, x), set) = IF x \in set THEN Append(Only(front, set), x) ELSE Only(front, set)
  BY <1>1, <1>2, OnlyAppend
<1>4. QED
  BY <1>1, <1>2, <1>3 DEF front, x

LEMMA AppendRange ==
  ASSUME NEW T, NEW list \in Seq(T), NEW x
  PROVE  ToSet(Append(list, x)) = ToSet(list) \cup {x}
<1>1. PICK n \in Nat : n = Len(list)
  OBVIOUS
<1>2. DOMAIN Append(list, x) = 1..(n + 1) /\ DOMAIN list = 1..n
  BY <1>1
<1>3. \A i \in 1..n : Append(list, x)[i] = list[i]
  BY <1>1
<1>4. Append(list, x)[n + 1] = x
  BY <1>1
<1>5. \A i \in 1..(n + 1) : i \in 1..n \/ i = n + 1
  OBVIOUS
<1>6. n + 1 \in 1..(n + 1) /\ 1..n \subseteq 1..(n + 1)
  OBVIOUS
<1>7. QED
  BY <1>2, <1>3, <1>4, <1>5, <1>6 DEF ToSet

LEMMA OnlyIs ==
  ASSUME NEW T, NEW list \in Seq(T), NEW set
  PROVE  Only(list, set) \in Seq(T) /\ ToSet(Only(list, set)) = ToSet(list) \cap set
<1> DEFINE n == Len(list)
           part(i) == Prefix(list, i)
           Good == {i \in 0..n : Only(part(i), set) \in Seq(T)
                                 /\ ToSet(Only(part(i), set)) = ToSet(part(i)) \cap set}
<1>1. n \in Nat /\ part(0) = <<>> /\ part(n) = list
  BY PrefixIs
<1>2. 0 \in Good
  <2>1. <<>> \in Seq(T) /\ ToSet(<<>>) = {}
    BY DEF ToSet
  <2>2. Only(<<>>, set) = <<>>
    BY OnlyEmpty
  <2> HIDE DEF part
  <2>3. Only(part(0), set) \in Seq(T)
    BY <1>1, <2>1, <2>2
  <2>4. ToSet(Only(part(0), set)) = ToSet(part(0)) \cap set
    BY <1>1, <2>1, <2>2, Zenon
  <2>5. QED
    BY <1>1, <2>3, <2>4
<1>3. ASSUME NEW i \in 1..n, i - 1 \in Good
      PROVE  i \in Good
  <2>1. /\ part(i) = Append(part(i - 1), list[i]) /\ part(i - 1) \in Seq(T) /\ list[i] \in T
        /\ Only(part(i), set) = IF list[i] \in set THEN Append(Only(part(i - 1), set), list[i])
                                ELSE Only(part(i - 1), set)
    BY OnlyPrefix
  <2>2. ToSet(part(i)) = ToSet(part(i - 1)) \cup {list[i]}
    BY <2>1, AppendRange
  <2>3. Only(part(i - 1), set) \in Seq(T) /\ ToSet(Only(part(i - 1), set)) = ToSet(part(i - 1)) \cap set
    BY <1>3
  <2>4. /\ Append(Only(part(i - 1), set), list[i]) \in Seq(T)
        /\ ToSet(Append(Only(part(i - 1), set), list[i])) = ToSet(Only(part(i - 1), set)) \cup {list[i]}
    BY <2>1, <2>3, AppendRange
  <2>5. i \in 0..n
    BY <1>1
  <2> HIDE DEF part, n
  <2>6. Only(part(i), set) \in Seq(T) /\ ToSet(Only(part(i), set)) = ToSet(part(i)) \cap set
    BY <2>1, <2>2, <2>3, <2>4
  <2>7. QED
    BY <2>5, <2>6
<1>4. Good = 0..n
  <2>1. Good \in SUBSET (0..n)
    OBVIOUS
  <2> HIDE DEF Good, n
  <2>2. QED
    BY <1>1, <1>2, <1>3, <2>1, DownInduction
<1>5. n \in Good
  BY <1>1, <1>4
<1>6. QED
  BY <1>1, <1>5

\* A list has no member twice.
Distinct(list) == \A i, j \in DOMAIN list : list[i] = list[j] => i = j

LEMMA AppendDistinct ==
  ASSUME NEW T, NEW list \in Seq(T), NEW x, x \notin ToSet(list), Distinct(list)
  PROVE  Distinct(Append(list, x))
<1>1. PICK n \in Nat : n = Len(list)
  OBVIOUS
<1>2. DOMAIN Append(list, x) = 1..(n + 1) /\ DOMAIN list = 1..n /\ Append(list, x)[n + 1] = x
      /\ \A i \in 1..n : Append(list, x)[i] = list[i]
  BY <1>1
<1>3. \A i \in 1..(n + 1) : i \in 1..n \/ i = n + 1
  OBVIOUS
<1>4. \A i \in 1..n : list[i] # x
  BY <1>2 DEF ToSet
<1>5. QED
  BY <1>2, <1>3, <1>4 DEF Distinct

LEMMA OnlyDistinct ==
  ASSUME NEW T, NEW list \in Seq(T), NEW set, Distinct(list)
  PROVE  Distinct(Only(list, set))
<1> DEFINE n == Len(list)
           part(i) == Prefix(list, i)
           Good == {i \in 0..n : Distinct(Only(part(i), set))}
<1>1. n \in Nat /\ part(0) = <<>> /\ part(n) = list
  BY PrefixIs
<1>2. 0 \in Good
  <2>1. Only(part(0), set) = <<>> /\ Distinct(<<>>)
    BY <1>1, OnlyEmpty DEF Distinct
  <2>2. QED
    BY <1>1, <2>1
<1>3. ASSUME NEW i \in 1..n, i - 1 \in Good
      PROVE  i \in Good
  <2>1. /\ part(i - 1) \in Seq(T) /\ Len(part(i - 1)) = i - 1 /\ list[i] \in T
        /\ Only(part(i), set) = IF list[i] \in set THEN Append(Only(part(i - 1), set), list[i])
                                ELSE Only(part(i - 1), set)
    BY OnlyPrefix
  <2>2. Only(part(i - 1), set) \in Seq(T) /\ ToSet(Only(part(i - 1), set)) = ToSet(part(i - 1)) \cap set
    BY <2>1, OnlyIs
  <2>3. list[i] \notin ToSet(part(i - 1))
    <3>1. \A j \in 1..(i - 1) : j \in DOMAIN list /\ i \in DOMAIN list /\ j # i
      OBVIOUS
    <3>2. \A j \in 1..(i - 1) : list[j] # list[i]
      BY <3>1 DEF Distinct
    <3>3. QED
      BY <3>2 DEF ToSet, Prefix
  <2>4. Distinct(Only(part(i - 1), set))
    BY <1>3
  <2>5. i \in 0..n
    BY <1>1
  <2> HIDE DEF part, n
  <2>6. Distinct(Append(Only(part(i - 1), set), list[i]))
    BY <2>2, <2>3, <2>4, AppendDistinct
  <2>7. QED
    BY <2>1, <2>4, <2>5, <2>6
<1>4. Good = 0..n
  <2>1. Good \in SUBSET (0..n)
    OBVIOUS
  <2> HIDE DEF Good, n
  <2>2. QED
    BY <1>1, <1>2, <1>3, <2>1, DownInduction
<1>5. n \in Good
  BY <1>1, <1>4
<1>6. QED
  BY <1>1, <1>5

\* Selecting twice is selecting what is in both sets.
LEMMA OnlyOnly ==
  ASSUME NEW T, NEW list \in Seq(T), NEW A, NEW B, B \subseteq A
  PROVE  Only(Only(list, A), B) = Only(list, B)
<1> DEFINE n == Len(list)
           part(i) == Prefix(list, i)
           Good == {i \in 0..n : Only(Only(part(i), A), B) = Only(part(i), B)}
<1>1. n \in Nat /\ part(0) = <<>> /\ part(n) = list
  BY PrefixIs
<1>2. 0 \in Good
  <2>1. Only(<<>>, A) = <<>> /\ Only(<<>>, B) = <<>>
    BY OnlyEmpty
  <2>2. QED
    BY <1>1, <2>1
<1>3. ASSUME NEW i \in 1..n, i - 1 \in Good
      PROVE  i \in Good
  <2>1. /\ part(i - 1) \in Seq(T) /\ list[i] \in T
        /\ Only(part(i), A) = IF list[i] \in A THEN Append(Only(part(i - 1), A), list[i]) ELSE Only(part(i - 1), A)
        /\ Only(part(i), B) = IF list[i] \in B THEN Append(Only(part(i - 1), B), list[i]) ELSE Only(part(i - 1), B)
    BY OnlyPrefix
  <2>2. Only(part(i - 1), A) \in Seq(T)
    BY <2>1, OnlyIs
  <2>3. ASSUME NEW front \in Seq(T), NEW x \in T
        PROVE  Only(Append(front, x), B) = IF x \in B THEN Append(Only(front, B), x) ELSE Only(front, B)
    BY OnlyAppend
  <2>4. Only(Only(part(i - 1), A), B) = Only(part(i - 1), B)
    BY <1>3
  <2>5. i \in 0..n
    BY <1>1
  <2> HIDE DEF part, n
  <2>6. Only(Append(Only(part(i - 1), A), list[i]), B) =
          IF list[i] \in B THEN Append(Only(Only(part(i - 1), A), B), list[i])
          ELSE Only(Only(part(i - 1), A), B)
    BY <2>1, <2>2, <2>3
  <2>7. Only(Only(part(i), A), B) = Only(part(i), B)
    BY <2>1, <2>4, <2>6
  <2>8. QED
    BY <2>5, <2>7
<1>4. Good = 0..n
  <2>1. Good \in SUBSET (0..n)
    OBVIOUS
  <2> HIDE DEF Good, n
  <2>2. QED
    BY <1>1, <1>2, <1>3, <2>1, DownInduction
<1>5. n \in Good
  BY <1>1, <1>4
<1>6. QED
  BY <1>1, <1>5

\* Sets that agree on the members of a list select the same.
LEMMA OnlySame ==
  ASSUME NEW T, NEW list \in Seq(T), NEW A, NEW B, ToSet(list) \cap A = ToSet(list) \cap B
  PROVE  Only(list, A) = Only(list, B)
<1> DEFINE n == Len(list)
           part(i) == Prefix(list, i)
           Good == {i \in 0..n : Only(part(i), A) = Only(part(i), B)}
<1>1. n \in Nat /\ part(0) = <<>> /\ part(n) = list
  BY PrefixIs
<1>2. 0 \in Good
  BY <1>1, OnlyEmpty
<1>3. ASSUME NEW i \in 1..n, i - 1 \in Good
      PROVE  i \in Good
  <2>1. /\ Only(part(i), A) = IF list[i] \in A THEN Append(Only(part(i - 1), A), list[i]) ELSE Only(part(i - 1), A)
        /\ Only(part(i), B) = IF list[i] \in B THEN Append(Only(part(i - 1), B), list[i]) ELSE Only(part(i - 1), B)
    <3>1. \A set : Only(Prefix(list, i), set) =
                     IF list[i] \in set THEN Append(Only(Prefix(list, i - 1), set), list[i])
                     ELSE Only(Prefix(list, i - 1), set)
      BY OnlyPrefix
    <3>2. QED
      BY <3>1
  <2>2. list[i] \in ToSet(list)
    BY DEF ToSet
  <2>3. Only(part(i - 1), A) = Only(part(i - 1), B)
    BY <1>3
  <2>4. i \in 0..n
    BY <1>1
  <2> HIDE DEF part, n
  <2>5. Only(part(i), A) = Only(part(i), B)
    BY <2>1, <2>2, <2>3
  <2>6. QED
    BY <2>4, <2>5
<1>4. Good = 0..n
  <2>1. Good \in SUBSET (0..n)
    OBVIOUS
  <2> HIDE DEF Good, n
  <2>2. QED
    BY <1>1, <1>2, <1>3, <2>1, DownInduction
<1>5. n \in Good
  BY <1>1, <1>4
<1>6. QED
  BY <1>1, <1>5

\* A list is as long as its members in a set only when they all are.
LEMMA OnlyLen ==
  ASSUME NEW T, NEW list \in Seq(T), NEW set
  PROVE  /\ ToSet(list) \subseteq set => Only(list, set) = list
         /\ Len(Only(list, set)) = Len(list) => ToSet(list) \subseteq set
<1> DEFINE n == Len(list)
           part(i) == Prefix(list, i)
           Among(i) == \A j \in 1..i : list[j] \in set
           Good == {i \in 0..n : /\ Len(Only(part(i), set)) <= i
                                 /\ Among(i) => Only(part(i), set) = part(i)
                                 /\ ~Among(i) => Len(Only(part(i), set)) < i}
<1>1. n \in Nat /\ part(0) = <<>> /\ part(n) = list
  BY PrefixIs
<1>2. 0 \in Good
  <2>1. Only(<<>>, set) = <<>> /\ Len(<<>>) = 0
    BY OnlyEmpty
  <2>2. Among(0) /\ 0 \in 0..n
    BY <1>1
  <2> HIDE DEF part, Among, n
  <2>3. QED
    BY <1>1, <2>1, <2>2
<1>3. ASSUME NEW i \in 1..n, i - 1 \in Good
      PROVE  i \in Good
  <2>1. /\ part(i) = Append(part(i - 1), list[i]) /\ part(i - 1) \in Seq(T) /\ list[i] \in T
        /\ Only(part(i), set) = IF list[i] \in set THEN Append(Only(part(i - 1), set), list[i])
                                ELSE Only(part(i - 1), set)
    BY OnlyPrefix
  <2>2. Only(part(i - 1), set) \in Seq(T)
    BY <2>1, OnlyIs
  <2>3. Among(i) <=> Among(i - 1) /\ list[i] \in set
    <3>1. \A j \in 1..i : j \in 1..(i - 1) \/ j = i
      BY <1>1
    <3>2. 1..(i - 1) \subseteq 1..i /\ i \in 1..i
      BY <1>1
    <3>3. QED
      BY <3>1, <3>2
  <2>4. i \in 0..n /\ i \in Nat
    BY <1>1
  <2>5. /\ Len(Only(part(i - 1), set)) <= i - 1
        /\ Among(i - 1) => Only(part(i - 1), set) = part(i - 1)
        /\ ~Among(i - 1) => Len(Only(part(i - 1), set)) < i - 1
    BY <1>3
  <2>6. /\ Len(Only(part(i - 1), set)) \in Nat
        /\ Len(Append(Only(part(i - 1), set), list[i])) = Len(Only(part(i - 1), set)) + 1
    BY <2>2
  <2> HIDE DEF part, Among, n
  <2>7. /\ Len(Only(part(i), set)) <= i
        /\ Among(i) => Only(part(i), set) = part(i)
        /\ ~Among(i) => Len(Only(part(i), set)) < i
    <3>1. CASE list[i] \in set
      BY <2>1, <2>3, <2>4, <2>5, <2>6, <3>1
    <3>2. CASE list[i] \notin set
      BY <2>1, <2>3, <2>4, <2>5, <2>6, <3>2
    <3>3. QED
      BY <3>1, <3>2
  <2>8. QED
    BY <2>4, <2>7
<1>4. Good = 0..n
  <2>1. Good \in SUBSET (0..n)
    OBVIOUS
  <2> HIDE DEF Good, n
  <2>2. QED
    BY <1>1, <1>2, <1>3, <2>1, DownInduction
<1>5. n \in Good
  BY <1>1, <1>4
<1>6. Among(n) <=> ToSet(list) \subseteq set
  BY DEF ToSet
<1> HIDE DEF Among, part
<1>7. QED
  BY <1>1, <1>5, <1>6

LEMMA ConcatRange ==
  ASSUME NEW T, NEW s \in Seq(T), NEW t \in Seq(T)
  PROVE  s \o t \in Seq(T) /\ ToSet(s \o t) = ToSet(s) \cup ToSet(t)
<1>1. PICK m \in Nat, n \in Nat : m = Len(s) /\ n = Len(t)
  OBVIOUS
<1>2. s \o t \in Seq(T) /\ DOMAIN (s \o t) = 1..(m + n) /\ DOMAIN s = 1..m /\ DOMAIN t = 1..n
  BY <1>1
<1>3. \A i \in 1..m : i \in 1..(m + n) /\ (s \o t)[i] = s[i]
  BY <1>1
<1>4. \A i \in 1..n : m + i \in 1..(m + n) /\ (s \o t)[m + i] = t[i]
  BY <1>1
<1>5. \A i \in 1..(m + n) : i \in 1..m \/ (i - m \in 1..n /\ m + (i - m) = i)
  OBVIOUS
<1>6. ToSet(s) \cup ToSet(t) \subseteq ToSet(s \o t)
  BY <1>2, <1>3, <1>4 DEF ToSet
<1>7. ASSUME NEW i \in 1..(m + n)
      PROVE  (s \o t)[i] \in ToSet(s) \cup ToSet(t)
  <2>1. CASE i \in 1..m
    BY <1>2, <1>3, <2>1 DEF ToSet
  <2>2. CASE i - m \in 1..n /\ m + (i - m) = i
    <3>1. (s \o t)[i] = t[i - m]
      BY <1>4, <2>2
    <3>2. t[i - m] \in ToSet(t)
      BY <1>2, <2>2 DEF ToSet
    <3>3. QED
      BY <3>1, <3>2
  <2>3. QED
    BY <1>5, <2>1, <2>2
<1>8. ToSet(s \o t) \subseteq ToSet(s) \cup ToSet(t)
  <2>1. ToSet(s \o t) = {(s \o t)[i] : i \in 1..(m + n)}
    BY <1>2 DEF ToSet
  <2> HIDE DEF ToSet
  <2>2. QED
    BY <1>7, <2>1
<1>9. QED
  BY <1>2, <1>6, <1>8

\* A list of lists flattened has the members of all of them.
LEMMA FlattenIs ==
  ASSUME NEW T, NEW lists \in Seq(Seq(T)), Len(lists) # 0
  PROVE  /\ FlattenSeq(lists) \in Seq(T)
         /\ ToSet(FlattenSeq(lists)) = UNION {ToSet(lists[i]) : i \in DOMAIN lists}
<1> DEFINE n == Len(lists) - 1
           V == Seq(T)
           down == [i \in 0..n |-> i - 1]
           base == [i \in 0..n |-> lists[1]]
           G == [x \in (0..n) \X V |-> x[2] \o lists[x[1] + 1]]
           flatten == CHOOSE f : f = [i \in 1..Len(lists) |->
                                       IF i = 1 THEN lists[i] ELSE f[i - 1] \o lists[i]]
<1>1. n \in Nat /\ Len(lists) = n + 1 /\ DOMAIN lists = 1..(n + 1) /\ \A i \in 1..(n + 1) : lists[i] \in V
  OBVIOUS
<1>2. DOMAIN down = 0..n /\ Founded(down) /\ \A i \in 0..n : down[i] = i - 1
  BY <1>1, DownFounded
<1>3. base \in [0..n -> V] /\ \A i \in 0..n : base[i] = lists[1]
  BY <1>1
<1>4. G \in [(0..n) \X V -> V] /\ \A i \in 0..n : \A v \in V : G[<<i, v>>] = v \o lists[i + 1]
  <2>1. ASSUME NEW i \in 0..n, NEW v \in V
        PROVE  v \o lists[i + 1] \in V
    <3>1. lists[i + 1] \in V
      BY <1>1
    <3>2. QED
      BY <3>1
  <2> HIDE DEF V, n
  <2>2. QED
    BY <2>1
<1> HIDE DEF down, base, G
<1>5. PICK kept : Recurs(kept, down, V, base, G)
  <2>1. base \in [DOMAIN down -> V] /\ G \in [(DOMAIN down) \X V -> V]
    BY <1>2, <1>3, <1>4
  <2> HIDE DEF V, n
  <2>2. QED
    BY <1>2, <2>1, Recursion
<1>6. \A i \in 0..n : /\ kept[i] \in V
                      /\ kept[i] = IF i = 0 THEN lists[1] ELSE kept[i - 1] \o lists[i + 1]
  <2>1. \A i \in 0..n : i - 1 \in 0..n <=> i # 0
    BY <1>1
  <2> HIDE DEF V, n
  <2>2. ASSUME NEW i \in 0..n
        PROVE  /\ kept[i] \in V
               /\ kept[i] = IF i - 1 \in 0..n THEN G[<<i, kept[i - 1]>>] ELSE lists[1]
    BY <1>2, <1>3, <1>5 DEF Recurs
  <2>3. ASSUME NEW i \in 0..n, i # 0
        PROVE  G[<<i, kept[i - 1]>>] = kept[i - 1] \o lists[i + 1]
    <3>1. kept[i - 1] \in V
      BY <2>1, <2>2, <2>3
    <3>2. QED
      BY <1>4, <3>1
  <2>4. QED
    BY <2>1, <2>2, <2>3
<1> DEFINE g == [i \in 1..Len(lists) |-> kept[i - 1]]
<1>7. g = [i \in 1..Len(lists) |-> IF i = 1 THEN lists[i] ELSE g[i - 1] \o lists[i]]
  <2>1. ASSUME NEW i \in 1..(n + 1)
        PROVE  kept[i - 1] = IF i = 1 THEN lists[i] ELSE kept[(i - 1) - 1] \o lists[i]
    <3>1. i - 1 \in 0..n /\ (i - 1) + 1 = i /\ (i - 1 = 0 <=> i = 1)
      BY <1>1
    <3>2. QED
      BY <1>6, <3>1
  <2>2. \A i \in 1..(n + 1) : i # 1 => i - 1 \in 1..(n + 1)
    BY <1>1
  <2> HIDE DEF n
  <2>3. QED
    BY <1>1, <2>1, <2>2
<1>8. flatten = [i \in 1..Len(lists) |-> IF i = 1 THEN lists[i] ELSE flatten[i - 1] \o lists[i]]
  <2> HIDE DEF g
  <2>1. QED
    BY <1>7
<1>9. FlattenSeq(lists) = flatten[Len(lists)]
  BY DEF FlattenSeq
<1> HIDE DEF flatten
<1> DEFINE Good == {i \in 0..n : /\ flatten[i + 1] \in V
                                 /\ ToSet(flatten[i + 1]) = UNION {ToSet(lists[j]) : j \in 1..(i + 1)}}
<1>10. 0 \in Good
  <2>1. flatten[1] = lists[1] /\ 1..(0 + 1) = {1} /\ 0 \in 0..n /\ 0 + 1 = 1
    BY <1>1, <1>8
  <2>2. flatten[1] \in V
    BY <1>1, <2>1
  <2>3. UNION {ToSet(lists[j]) : j \in {1}} = ToSet(lists[1])
    OBVIOUS
  <2> HIDE DEF V, n
  <2>4. QED
    BY <2>1, <2>2, <2>3
<1>11. ASSUME NEW i \in 1..n, i - 1 \in Good
       PROVE  i \in Good
  <2>1. i \in 0..n /\ i + 1 \in 1..(n + 1) /\ (i + 1) - 1 = i /\ (i - 1) + 1 = i /\ i + 1 # 1
    BY <1>1
  <2>2. flatten[i + 1] = flatten[i] \o lists[i + 1]
    <3> HIDE DEF n
    <3>1. QED
      BY <1>1, <1>8, <2>1
  <2>3. flatten[i] \in V /\ ToSet(flatten[i]) = UNION {ToSet(lists[j]) : j \in 1..i}
    BY <1>11, <2>1
  <2>4. lists[i + 1] \in V
    BY <1>1, <2>1
  <2>5. flatten[i] \o lists[i + 1] \in V
        /\ ToSet(flatten[i] \o lists[i + 1]) = ToSet(flatten[i]) \cup ToSet(lists[i + 1])
    BY <2>3, <2>4, ConcatRange
  <2>6. 1..(i + 1) = 1..i \cup {i + 1}
    BY <2>1
  <2>7. UNION {ToSet(lists[j]) : j \in 1..(i + 1)} =
          (UNION {ToSet(lists[j]) : j \in 1..i}) \cup ToSet(lists[i + 1])
    BY <2>6
  <2> HIDE DEF V, n
  <2>8. QED
    BY <2>1, <2>2, <2>3, <2>5, <2>7
<1>12. Good = 0..n
  <2>1. Good \in SUBSET (0..n)
    OBVIOUS
  <2> HIDE DEF Good, n
  <2>2. QED
    BY <1>1, <1>10, <1>11, <2>1, DownInduction
<1>13. n \in Good
  <2> HIDE DEF Good, n
  <2>1. QED
    BY <1>1, <1>12
<1> HIDE DEF n, V
<1>14. flatten[n + 1] \in V /\ ToSet(flatten[n + 1]) = UNION {ToSet(lists[j]) : j \in 1..(n + 1)}
  BY <1>13
<1>15. FlattenSeq(lists) = flatten[n + 1] /\ DOMAIN lists = 1..(n + 1)
  BY <1>1, <1>9
<1>16. FlattenSeq(lists) \in Seq(T)
  BY <1>14, <1>15 DEF V
<1>17. ToSet(FlattenSeq(lists)) = UNION {ToSet(lists[i]) : i \in DOMAIN lists}
  <2>1. ToSet(flatten[n + 1]) = UNION {ToSet(lists[j]) : j \in DOMAIN lists}
    BY <1>14, <1>15, Zenon
  <2> HIDE DEF ToSet
  <2>2. QED
    BY <1>15, <2>1, Zenon
<1>18. QED
  BY <1>16, <1>17

-----------------------------------------------------------------------------
(* What a load makes of a service *)

\* The places where a page is a step.
LEMMA StepPlacesIs ==
  ASSUME NEW pages, NEW id, NEW place
  PROVE  place \in StepPlaces(pages, id) <=>
           \E p \in DOMAIN pages : \E i \in DOMAIN StepsOf(pages[p]) :
             place = <<p, i>> /\ StepsOf(pages[p])[i] = id
BY DEF StepPlaces

\* The parent of a page has it among its steps.
LEMMA ParentIs ==
  ASSUME NEW pages, None \notin DOMAIN pages, NEW id
  PROVE  \/ Parent(pages, id) = None /\ StepPlaces(pages, id) = {}
         \/ /\ Parent(pages, id) \in DOMAIN pages /\ Parent(pages, id) # None
            /\ \E i \in DOMAIN StepsOf(pages[Parent(pages, id)]) :
                 StepsOf(pages[Parent(pages, id)])[i] = id /\ <<Parent(pages, id), i>> \in StepPlaces(pages, id)
<1> DEFINE parents == {p \in DOMAIN pages : id \in ToSet(StepsOf(pages[p]))}
<1>1. Parent(pages, id) = IF parents = {} THEN None ELSE CHOOSE p \in parents : TRUE
  BY DEF Parent
<1>2. \A p \in DOMAIN pages :
        id \in ToSet(StepsOf(pages[p])) <=> \E i \in DOMAIN StepsOf(pages[p]) : StepsOf(pages[p])[i] = id
  BY DEF ToSet
<1>3. CASE parents = {}
  <2>1. StepPlaces(pages, id) = {}
    BY <1>2, <1>3, StepPlacesIs
  <2>2. QED
    BY <1>1, <1>3, <2>1
<1>4. CASE parents # {}
  <2>1. Parent(pages, id) \in parents
    BY <1>1, <1>4
  <2>2. PICK i \in DOMAIN StepsOf(pages[Parent(pages, id)]) : StepsOf(pages[Parent(pages, id)])[i] = id
    BY <1>2, <2>1
  <2>3. <<Parent(pages, id), i>> \in StepPlaces(pages, id)
    BY <2>1, <2>2, StepPlacesIs
  <2>4. QED
    BY <2>1, <2>2, <2>3
<1>5. QED
  BY <1>3, <1>4

\* What the load of a service asks of its merged pages once it has found their parents.
Propagated(pages) ==
  Referring(pages) /\ Founded([id \in DOMAIN pages |-> Above(pages, id)])

LEMMA AboveIs ==
  ASSUME NEW pages, None \notin DOMAIN pages, Propagated(pages), NEW id \in DOMAIN pages
  PROVE  /\ Above(pages, id) \in DOMAIN pages \cup {None}
         /\ Parent(pages, id) \in {Above(pages, id), None}
BY ParentIs DEF Above, Propagated, Referring

\* An instance as the process has it: edits of a page with repeatable steps write their
\* summaries among the steps.
Written(page) ==
  /\ page = [property \in DOMAIN Page |-> page[property]]
  /\ page.steps \in Seq(Listed) \cup {None}
  /\ page.repeatable \in BOOLEAN

IsSource(pages) ==
  /\ IsFiniteSet(DOMAIN pages)
  /\ DOMAIN pages \subseteq Names
  /\ pages = [id \in DOMAIN pages |-> pages[id]]
  /\ \A id \in DOMAIN pages : Written(pages[id])

IsService(service) ==
  /\ service = [source \in {1, 2, 3} |-> service[source]]
  /\ \A source \in {1, 2, 3} : IsSource(service[source])

\* Where an id is taken from.
LEMMA WinnerIs ==
  ASSUME NEW service, IsService(service)
  PROVE  /\ Ids(service) = DOMAIN service[1] \cup DOMAIN service[2] \cup DOMAIN service[3]
         /\ \A id \in Ids(service) :
              /\ SourceOf(service, id) =
                   IF id \in DOMAIN service[3] THEN 3 ELSE IF id \in DOMAIN service[2] THEN 2 ELSE 1
              /\ Winner(service, id) = service[SourceOf(service, id)][id]
<1>1. DOMAIN service = 1..3 /\ Len(service) = 3
  <2>1. service = [source \in 1..3 |-> service[source]]
    <3>1. {1, 2, 3} = 1..3
      OBVIOUS
    <3>2. QED
      BY <3>1 DEF IsService
  <2> DEFINE values == {service[source] : source \in 1..3}
  <2>2. service \in [1..3 -> values]
    BY <2>1
  <2> HIDE DEF values
  <2>3. service \in Seq(values)
    <3>1. \A n \in Nat : service \in [1..n -> values] => service \in Seq(values)
      OBVIOUS
    <3>2. QED
      BY <2>2, <3>1
  <2>4. QED
    BY <2>1, <2>3
<1>2. Ids(service) = DOMAIN service[1] \cup DOMAIN service[2] \cup DOMAIN service[3]
  <2>1. \A i \in 1..3 : i = 1 \/ i = 2 \/ i = 3
    OBVIOUS
  <2>2. 1 \in 1..3 /\ 2 \in 1..3 /\ 3 \in 1..3
    OBVIOUS
  <2>3. \A id : id \in Ids(service) <=> \E i \in 1..3 : id \in DOMAIN service[i]
    BY <1>1 DEF Ids
  <2>4. QED
    BY <2>1, <2>2, <2>3
<1>3. ASSUME NEW id \in Ids(service)
      PROVE  SourceOf(service, id) =
               IF id \in DOMAIN service[3] THEN 3 ELSE IF id \in DOMAIN service[2] THEN 2 ELSE 1
  <2> DEFINE Is(i) == id \in DOMAIN service[i] /\ \A j \in (i + 1)..3 : id \notin DOMAIN service[j]
  <2>1. SourceOf(service, id) = CHOOSE i \in 1..3 : Is(i)
    BY <1>1 DEF SourceOf
  <2>2. CASE id \in DOMAIN service[3]
    <3>1. Is(3) /\ \A i \in 1..3 : Is(i) => i = 3
      BY <2>2
    <3> HIDE DEF Is
    <3>2. QED
      BY <2>1, <2>2, <3>1
  <2>3. CASE id \notin DOMAIN service[3] /\ id \in DOMAIN service[2]
    <3>1. Is(2) /\ \A i \in 1..3 : Is(i) => i = 2
      BY <2>3
    <3> HIDE DEF Is
    <3>2. QED
      BY <2>1, <2>3, <3>1
  <2>4. CASE id \notin DOMAIN service[3] /\ id \notin DOMAIN service[2]
    <3>1. Is(1) /\ \A i \in 1..3 : Is(i) => i = 1
      BY <1>2, <2>4
    <3> HIDE DEF Is
    <3>2. QED
      BY <2>1, <2>4, <3>1
  <2>5. QED
    BY <2>2, <2>3, <2>4
<1>4. QED
  BY <1>2, <1>3 DEF Winner

LEMMA WinnerWritten ==
  ASSUME NEW service, IsService(service)
  PROVE  /\ Ids(service) \subseteq Names /\ IsFiniteSet(Ids(service))
         /\ \A id \in Ids(service) :
              /\ SourceOf(service, id) \in {1, 2, 3}
              /\ id \in DOMAIN service[SourceOf(service, id)]
              /\ Written(Winner(service, id))
<1>1. \A i \in {1, 2, 3} : IsSource(service[i])
  BY DEF IsService
<1>2. IsFiniteSet(Ids(service))
  <2>1. IsFiniteSet(DOMAIN service[1]) /\ IsFiniteSet(DOMAIN service[2]) /\ IsFiniteSet(DOMAIN service[3])
    BY <1>1 DEF IsSource
  <2>2. IsFiniteSet(DOMAIN service[1] \cup DOMAIN service[2])
    BY <2>1, FS_Union
  <2>3. IsFiniteSet((DOMAIN service[1] \cup DOMAIN service[2]) \cup DOMAIN service[3])
    BY <2>1, <2>2, FS_Union
  <2>4. QED
    BY <2>3, WinnerIs
<1>3. QED
  BY <1>1, <1>2, WinnerIs DEF IsSource

LEMMA InheritIs ==
  ASSUME NEW page, Written(page), NEW isa, isa.steps \in Seq(Listed) \cup {None}, isa.repeatable \in BOOLEAN
  PROVE  /\ Written(Inherit(page, isa))
         /\ Inherit(page, isa).type = page.type
         /\ Inherit(page, isa).steps = IF page.steps = None THEN isa.steps ELSE page.steps
         /\ Inherit(page, isa).repeatable = (page.repeatable \/ isa.repeatable)
         /\ Inherit(page, isa).namespace = IF page.namespace = None THEN isa.namespace ELSE page.namespace
         /\ Inherit(page, isa).mount = IF page.mount = None THEN isa.mount ELSE page.mount
<1>1. DOMAIN page = DOMAIN Page
  BY DEF Written
<1> DEFINE F == DOMAIN Page
<1>2. "type" \in F /\ "steps" \in F /\ "repeatable" \in F /\ "namespace" \in F /\ "mount" \in F
  BY DEF Page
<1>3. Page.steps = None /\ Page.repeatable = FALSE /\ Page.namespace = None /\ Page.mount = None
  BY DEF Page
<1>4. Inherit(page, isa) = [f \in F |-> IF f # "type" /\ page[f] = Page[f] THEN isa[f] ELSE page[f]]
  BY <1>1 DEF Inherit
<1>5. page.steps \in Seq(Listed) \cup {None} /\ page.repeatable \in BOOLEAN
  BY DEF Written
<1> HIDE DEF F
<1>6. Inherit(page, isa).repeatable = IF page.repeatable = FALSE THEN isa.repeatable ELSE page.repeatable
  BY <1>2, <1>3, <1>4
<1>7. Inherit(page, isa).steps = IF page.steps = None THEN isa.steps ELSE page.steps
  BY <1>2, <1>3, <1>4
<1>8. Inherit(page, isa) = [f \in F |-> Inherit(page, isa)[f]]
  BY <1>4
<1>9. Written(Inherit(page, isa))
  BY <1>5, <1>6, <1>7, <1>8 DEF Written, F
<1>10. QED
  BY <1>2, <1>3, <1>4, <1>5, <1>6, <1>7, <1>9

IsaOf(service) == [id \in Ids(service) |-> Winner(service, id).isa]

IsaFound(service) ==
  /\ \A id \in Ids(service) : IsaOf(service)[id] \in Ids(service) \cup {None}
  /\ Founded(IsaOf(service))

\* What a merge makes of a service.
LEMMA MergeIs ==
  ASSUME NEW service, IsService(service), IsaFound(service)
  PROVE  /\ DOMAIN Merge(service) = Ids(service)
         /\ \A id \in Ids(service) :
              /\ Written(Merge(service)[id])
              /\ Merge(service)[id] =
                   IF Winner(service, id).isa = None THEN Winner(service, id)
                   ELSE Inherit(Winner(service, id), Merge(service)[Winner(service, id).isa])
<1> DEFINE S == Ids(service)
           F == DOMAIN Page
           W(id) == Winner(service, id)
           above == IsaOf(service)
           U == UNION {{W(id)[f] : f \in F} : id \in S}
           V == [F -> U]
           base == [id \in S |-> W(id)]
           G == [x \in S \X V |-> Inherit(W(x[1]), x[2])]
           merge == CHOOSE m : m = [id \in S |->
                      LET page == W(id) IN IF page.isa = None THEN page ELSE Inherit(page, m[page.isa])]
<1>1. /\ Founded(above) /\ DOMAIN above = S
      /\ \A id \in S : above[id] = W(id).isa /\ (above[id] \in S <=> above[id] # None)
  <2>1. None \notin S
    <3>1. S \subseteq Names
      BY WinnerWritten
    <3>2. QED
      BY <3>1, NamesAssumption DEF Listed
  <2>2. DOMAIN above = S /\ \A id \in S : above[id] = W(id).isa
    BY DEF IsaOf
  <2>3. Founded(above) /\ \A id \in S : above[id] \in S \cup {None}
    BY DEF IsaFound
  <2> HIDE DEF S, above, W
  <2>4. QED
    BY <2>1, <2>2, <2>3
<1>2. \A id \in S : Written(W(id)) /\ W(id) \in V /\ DOMAIN W(id) = F
  <2>1. \A id \in S : Written(W(id))
    BY WinnerWritten
  <2>2. ASSUME NEW id \in S
        PROVE  W(id) \in V /\ DOMAIN W(id) = F
    <3>1. W(id) = [f \in F |-> W(id)[f]]
      BY <2>1 DEF Written
    <3>2. \A f \in F : W(id)[f] \in U
      OBVIOUS
    <3> HIDE DEF U, W, F
    <3>3. QED
      BY <3>1, <3>2
  <2>3. QED
    BY <2>1, <2>2
<1>3. base \in [S -> V] /\ G \in [S \X V -> V]
  <2>1. ASSUME NEW id \in S, NEW v \in V
        PROVE  Inherit(W(id), v) \in V
    <3>1. Inherit(W(id), v) = [f \in F |-> IF f # "type" /\ W(id)[f] = Page[f] THEN v[f] ELSE W(id)[f]]
      BY <1>2 DEF Inherit
    <3>2. \A f \in F : v[f] \in U /\ W(id)[f] \in U
      BY <1>2
    <3> HIDE DEF F, U, W
    <3>3. QED
      BY <3>1, <3>2
  <2> HIDE DEF V, W
  <2>2. QED
    BY <1>2, <2>1
<1>4. PICK m : Recurs(m, above, V, base, G)
  <2> HIDE DEF V, base, G, above
  <2>1. QED
    BY <1>1, <1>3, Recursion
<1>5. m \in [S -> V] /\ \A id \in S : m[id] = IF W(id).isa = None THEN W(id) ELSE Inherit(W(id), m[W(id).isa])
  <2>1. m \in [S -> V] /\ \A id \in S : m[id] = IF above[id] \in S THEN G[<<id, m[above[id]]>>] ELSE base[id]
    BY <1>1, <1>4 DEF Recurs
  <2>2. \A id \in S : \A v \in V : G[<<id, v>>] = Inherit(W(id), v)
    <3> HIDE DEF V, W, S
    <3>1. QED
      OBVIOUS
  <2>3. \A id \in S : base[id] = W(id)
    OBVIOUS
  <2> HIDE DEF V, base, G, above, W, S
  <2>4. ASSUME NEW id \in S
        PROVE  m[id] = IF W(id).isa = None THEN W(id) ELSE Inherit(W(id), m[W(id).isa])
    <3>1. CASE W(id).isa = None
      BY <1>1, <2>1, <2>3, <3>1
    <3>2. CASE W(id).isa # None
      <4>1. above[id] \in S /\ above[id] = W(id).isa /\ m[above[id]] \in V
        BY <1>1, <2>1, <3>2
      <4>2. m[id] = G[<<id, m[above[id]]>>]
        BY <2>1, <4>1
      <4>3. QED
        BY <2>2, <3>2, <4>1, <4>2
    <3>3. QED
      BY <3>1, <3>2
  <2>5. QED
    BY <2>1, <2>4
<1>6. m = [id \in S |-> LET page == W(id) IN IF page.isa = None THEN page ELSE Inherit(page, m[page.isa])]
  <2> HIDE DEF V, W
  <2>1. QED
    BY <1>5
<1>7. merge = [id \in S |-> LET page == W(id) IN IF page.isa = None THEN page ELSE Inherit(page, merge[page.isa])]
  <2> HIDE DEF V, W
  <2>1. QED
    BY <1>6
<1>8. Merge(service) = [id \in S |-> merge[id]]
  BY DEF Merge
<1> HIDE DEF merge
<1>9. /\ DOMAIN merge = S
      /\ \A id \in S : merge[id] = IF W(id).isa = None THEN W(id) ELSE Inherit(W(id), merge[W(id).isa])
  <2> HIDE DEF W
  <2>1. QED
    BY <1>7
<1> DEFINE Good == {id \in S : Written(merge[id])}
<1>10. ASSUME NEW id \in S, above[id] \in S => above[id] \in Good
       PROVE  id \in Good
  <2> HIDE DEF W, above
  <2>1. CASE W(id).isa = None
    BY <1>2, <1>9, <2>1
  <2>2. CASE W(id).isa # None
    <3>1. Written(merge[above[id]]) /\ merge[id] = Inherit(W(id), merge[above[id]])
      BY <1>1, <1>9, <1>10, <2>2
    <3>2. merge[above[id]].steps \in Seq(Listed) \cup {None} /\ merge[above[id]].repeatable \in BOOLEAN
      BY <3>1 DEF Written
    <3>3. Written(W(id))
      BY <1>2
    <3>4. Written(Inherit(W(id), merge[above[id]]))
      BY <3>2, <3>3, InheritIs
    <3>5. QED
      BY <3>1, <3>4
  <2>3. QED
    BY <2>1, <2>2
<1>11. Good = S
  <2>1. Good \in SUBSET S
    OBVIOUS
  <2> HIDE DEF Good, above
  <2>2. QED
    BY <1>1, <1>10, <2>1, FoundedInduction
<1>12. \A id \in S : Written(merge[id])
  BY <1>11
<1>13. DOMAIN Merge(service) = S /\ \A id \in S : Merge(service)[id] = merge[id]
  <2> HIDE DEF S
  <2>1. QED
    BY <1>8
<1>14. ASSUME NEW id \in S
       PROVE  Merge(service)[id] = IF W(id).isa = None THEN W(id) ELSE Inherit(W(id), Merge(service)[W(id).isa])
  <2> HIDE DEF W
  <2>1. W(id).isa # None => W(id).isa \in S
    BY <1>1
  <2> HIDE DEF S
  <2>2. QED
    BY <1>9, <1>13, <2>1
<1> HIDE DEF Good, W
<1>15. \A id \in S : Written(Merge(service)[id])
  BY <1>12, <1>13
<1>16. QED
  BY <1>13, <1>14, <1>15 DEF W

\* The steps of a page with the summaries among them.
LEMMA InjectedIs ==
  ASSUME NEW pages, DOMAIN pages \subseteq Names, NEW id \in DOMAIN pages,
         StepsOf(pages[id]) \in Seq(DOMAIN pages)
  PROVE  /\ InjectedSteps(pages, id) \in Seq(Listed)
         /\ ToSet(InjectedSteps(pages, id)) \subseteq DOMAIN pages \cup Summaries(pages)
         /\ ToSet(InjectedSteps(pages, id)) \cap Names = ToSet(StepsOf(pages[id]))
         /\ Distinct(StepsOf(pages[id])) => Distinct(InjectedSteps(pages, id))
<1> DEFINE steps == StepsOf(pages[id])
           n == Len(steps)
           doubled == [k \in 1..(2 * Len(steps)) |->
                         IF k % 2 = 1 THEN steps[(k + 1) \div 2] ELSE SummaryOf(steps[k \div 2])]
           shown == DOMAIN pages \cup Summaries(pages)
<1>1. n \in Nat /\ \A i \in 1..n : steps[i] \in DOMAIN pages /\ steps[i] \in Names
  OBVIOUS
<1>2. \A i \in 1..n : SummaryOf(steps[i]) \in Listed /\ steps[i] \in Listed /\ SummaryOf(steps[i]) \notin Names
  BY <1>1, NamesAssumption DEF Listed
<1>3. \A k \in 1..(2 * n) : \E i \in 1..n : \/ k = 2 * i - 1 /\ k % 2 = 1 /\ (k + 1) \div 2 = i
                                            \/ k = 2 * i /\ k % 2 # 1 /\ k \div 2 = i
  <2> HIDE DEF n
  <2>1. QED
    BY <1>1
<1>4. \A i \in 1..n : /\ 2 * i - 1 \in 1..(2 * n) /\ (2 * i - 1) % 2 = 1 /\ ((2 * i - 1) + 1) \div 2 = i
                      /\ 2 * i \in 1..(2 * n) /\ (2 * i) % 2 # 1 /\ (2 * i) \div 2 = i
  <2> HIDE DEF n
  <2>1. QED
    BY <1>1
<1>5. /\ DOMAIN doubled = 1..(2 * n)
      /\ \A i \in 1..n : doubled[2 * i - 1] = steps[i] /\ doubled[2 * i] = SummaryOf(steps[i])
  <2> HIDE DEF n
  <2>1. QED
    BY <1>4 DEF n
<1>6. \A k \in 1..(2 * n) : \E i \in 1..n : \/ k = 2 * i - 1 /\ doubled[k] = steps[i]
                                            \/ k = 2 * i /\ doubled[k] = SummaryOf(steps[i])
  <2> HIDE DEF n, doubled
  <2>1. QED
    BY <1>3, <1>5
<1>7. doubled \in Seq(Listed) /\ Len(doubled) = 2 * n
  <2>1. \A k \in 1..(2 * n) : doubled[k] \in Listed
    <3> HIDE DEF n, doubled
    <3>1. QED
      BY <1>2, <1>6
  <2>2. doubled \in [1..(2 * n) -> Listed]
    BY <1>5, <2>1
  <2>3. 2 * n \in Nat
    BY <1>1
  <2> HIDE DEF n, doubled
  <2>4. QED
    BY <2>2, <2>3
<1>8. InjectedSteps(pages, id) = Only(doubled, shown)
  BY DEF InjectedSteps
<1> HIDE DEF doubled
<1>9. InjectedSteps(pages, id) \in Seq(Listed)
      /\ ToSet(InjectedSteps(pages, id)) = ToSet(doubled) \cap shown
  <2> HIDE DEF shown
  <2>1. QED
    BY <1>7, <1>8, OnlyIs
<1>10. ToSet(doubled) \cap Names = ToSet(steps)
  <2>1. ASSUME NEW x \in ToSet(doubled), x \in Names
        PROVE  x \in ToSet(steps)
    <3>1. PICK k \in 1..(2 * n) : doubled[k] = x
      BY <1>5 DEF ToSet
    <3>2. PICK i \in 1..n : doubled[k] = steps[i] \/ doubled[k] = SummaryOf(steps[i])
      <4> HIDE DEF n
      <4>1. QED
        BY <1>6
    <3>3. x = steps[i]
      BY <1>2, <2>1, <3>1, <3>2
    <3>4. QED
      BY <3>3 DEF ToSet
  <2>2. ASSUME NEW x \in ToSet(steps)
        PROVE  x \in ToSet(doubled) /\ x \in Names
    <3>1. PICK i \in 1..n : steps[i] = x
      BY DEF ToSet
    <3>2. 2 * i - 1 \in DOMAIN doubled /\ doubled[2 * i - 1] = x
      BY <1>4, <1>5, <3>1
    <3>3. QED
      BY <1>1, <3>1, <3>2 DEF ToSet
  <2>3. QED
    BY <2>1, <2>2
<1>11. ToSet(InjectedSteps(pages, id)) \cap Names = ToSet(steps)
  <2>1. ToSet(steps) \subseteq DOMAIN pages
    BY <1>1 DEF ToSet
  <2> HIDE DEF steps
  <2>2. QED
    BY <1>9, <1>10, <2>1
<1>12. ASSUME Distinct(steps)
       PROVE  Distinct(InjectedSteps(pages, id))
  <2>1. ASSUME NEW k \in 1..(2 * n), NEW l \in 1..(2 * n), doubled[k] = doubled[l]
        PROVE  k = l
    <3>1. PICK i \in 1..n : \/ k = 2 * i - 1 /\ doubled[k] = steps[i]
                            \/ k = 2 * i /\ doubled[k] = SummaryOf(steps[i])
      <4> HIDE DEF n
      <4>1. QED
        BY <1>6
    <3>2. PICK j \in 1..n : \/ l = 2 * j - 1 /\ doubled[l] = steps[j]
                            \/ l = 2 * j /\ doubled[l] = SummaryOf(steps[j])
      <4> HIDE DEF n
      <4>1. QED
        BY <1>6
    <3>3. steps[i] # SummaryOf(steps[j]) /\ steps[j] # SummaryOf(steps[i])
      BY <1>1, <1>2
    <3>4. SummaryOf(steps[i]) = SummaryOf(steps[j]) => steps[i] = steps[j]
      BY DEF SummaryOf
    <3>5. steps[i] = steps[j] => i = j
      BY <1>12 DEF Distinct
    <3> HIDE DEF n
    <3>6. QED
      BY <2>1, <3>1, <3>2, <3>3, <3>4, <3>5
  <2>2. Distinct(doubled)
    BY <1>5, <2>1 DEF Distinct
  <2> HIDE DEF shown
  <2>3. QED
    BY <1>7, <1>8, <2>2, OnlyDistinct
<1>13. QED
  BY <1>9, <1>11, <1>12

\* The pages among the steps are the steps, in their order.
LEMMA InjectedOnly ==
  ASSUME NEW pages, DOMAIN pages \subseteq Names, NEW id \in DOMAIN pages,
         StepsOf(pages[id]) \in Seq(DOMAIN pages)
  PROVE  Only(InjectedSteps(pages, id), Names) = StepsOf(pages[id])
<1> DEFINE steps == StepsOf(pages[id])
           D == DOMAIN pages
           n == Len(steps)
           doubled == [k \in 1..(2 * Len(steps)) |->
                         IF k % 2 = 1 THEN steps[(k + 1) \div 2] ELSE SummaryOf(steps[k \div 2])]
           shown == DOMAIN pages \cup Summaries(pages)
<1>1. n \in Nat /\ steps \in Seq(D) /\ \A i \in 1..n : steps[i] \in D /\ steps[i] \in Names
  OBVIOUS
<1>2. \A i \in 1..n : SummaryOf(steps[i]) \in Listed /\ steps[i] \in Listed /\ SummaryOf(steps[i]) \notin D
  BY <1>1, NamesAssumption DEF Listed
<1>3. ASSUME NEW k \in 1..(2 * n)
      PROVE  \E i \in 1..n : k = 2 * i - 1 \/ k = 2 * i
  <2> HIDE DEF n
  <2>1. (k + 1) \div 2 \in 1..n /\ (k = 2 * ((k + 1) \div 2) - 1 \/ k = 2 * ((k + 1) \div 2))
    BY <1>1
  <2>2. QED
    BY <2>1
<1>4. \A i \in 1..n : /\ 2 * i - 1 \in 1..(2 * n) /\ (2 * i - 1) % 2 = 1 /\ ((2 * i - 1) + 1) \div 2 = i
                      /\ 2 * i \in 1..(2 * n) /\ (2 * i) % 2 # 1 /\ (2 * i) \div 2 = i
  <2> HIDE DEF n
  <2>1. QED
    BY <1>1
<1>5. /\ DOMAIN doubled = 1..(2 * n)
      /\ \A i \in 1..n : doubled[2 * i - 1] = steps[i] /\ doubled[2 * i] = SummaryOf(steps[i])
  <2> HIDE DEF n
  <2>1. QED
    BY <1>4 DEF n
<1>6. doubled \in Seq(Listed) /\ Len(doubled) = 2 * n
  <2>1. \A k \in 1..(2 * n) : doubled[k] \in Listed
    <3> HIDE DEF n, doubled, steps
    <3>1. QED
      BY <1>2, <1>3, <1>5
  <2>2. doubled \in [1..(2 * n) -> Listed]
    BY <1>5, <2>1
  <2>3. 2 * n \in Nat
    BY <1>1
  <2> HIDE DEF n, doubled
  <2>4. QED
    BY <2>2, <2>3
<1>7. InjectedSteps(pages, id) = Only(doubled, shown)
  BY DEF InjectedSteps
<1> DEFINE Good == {i \in 0..n : Only(Prefix(doubled, 2 * i), D) = Prefix(steps, i)}
<1> HIDE DEF doubled, steps, D
<1>8. Prefix(doubled, 0) = <<>> /\ Prefix(doubled, 2 * n) = doubled
      /\ Prefix(steps, 0) = <<>> /\ Prefix(steps, n) = steps
  BY <1>1, <1>6, PrefixIs
<1>9. 0 \in Good
  BY <1>1, <1>8, OnlyEmpty
<1> DEFINE Taken(k) == Only(Prefix(doubled, k), D) =
                        IF doubled[k] \in D THEN Append(Only(Prefix(doubled, k - 1), D), doubled[k])
                        ELSE Only(Prefix(doubled, k - 1), D)
<1>10. ASSUME NEW k \in 1..Len(doubled)
        PROVE  Taken(k)
  <2>1. doubled \in Seq(Listed)
    BY <1>6
  <2>2. QED
    BY <2>1, OnlyPrefix
<1>11. ASSUME NEW i \in 1..n, i - 1 \in Good
       PROVE  i \in Good
  <2>1. i \in 0..n /\ 2 * i \in 1..Len(doubled) /\ 2 * i - 1 \in 1..Len(doubled)
        /\ 2 * i - 1 - 1 = 2 * (i - 1)
    BY <1>1, <1>6
  <2>2. Only(Prefix(doubled, 2 * i), D) = Only(Prefix(doubled, 2 * i - 1), D)
    <3>1. doubled[2 * i] \notin D
      BY <1>2, <1>5
    <3>2. Taken(2 * i)
      BY <1>10, <2>1
    <3>3. QED
      BY <3>1, <3>2
  <2>3. Only(Prefix(doubled, 2 * i - 1), D) = Append(Only(Prefix(doubled, 2 * (i - 1)), D), steps[i])
    <3>1. doubled[2 * i - 1] = steps[i] /\ steps[i] \in D
      BY <1>1, <1>5
    <3>2. Taken(2 * i - 1)
      BY <1>10, <2>1
    <3>3. QED
      BY <2>1, <3>1, <3>2
  <2>4. Prefix(steps, i) = Append(Prefix(steps, i - 1), steps[i])
    BY <1>1, PrefixIs
  <2>5. QED
    BY <1>11, <2>1, <2>2, <2>3, <2>4
<1>12. Good = 0..n
  <2>1. Good \in SUBSET (0..n)
    OBVIOUS
  <2> HIDE DEF Good, n
  <2>2. QED
    BY <1>1, <1>9, <1>11, <2>1, DownInduction
<1>13. Only(doubled, D) = steps
  BY <1>1, <1>8, <1>12
<1> DEFINE injected == Only(doubled, shown)
<1>14. Only(injected, D) = steps
  BY <1>6, <1>13, OnlyOnly DEF D
<1>15. injected \in Seq(Listed) /\ ToSet(injected) \cap Names = ToSet(injected) \cap D
  <2>1. injected \in Seq(Listed) /\ ToSet(injected) = ToSet(doubled) \cap shown
    <3> HIDE DEF shown
    <3>1. QED
      BY <1>6, OnlyIs
  <2>2. shown \cap Names = D
    BY NamesAssumption DEF Summaries, D
  <2> HIDE DEF shown, injected
  <2>3. D \subseteq Names
    BY DEF D
  <2>4. QED
    BY <2>1, <2>2, <2>3
<1> HIDE DEF injected, shown
<1>16. Only(injected, Names) = Only(injected, D)
  BY <1>15, OnlySame
<1>17. QED
  BY <1>7, <1>14, <1>16 DEF injected, steps

\* The ids that a process has an instance of.
Has(running) == {id \in DOMAIN running.source : running.source[id] # None}

\* What a process has that was loaded from the sources that it has in memory.
Running(running, sources) ==
  /\ running = [source |-> running.source, steps |-> running.steps, namespace |-> running.namespace,
                namespaces |-> running.namespaces, before |-> running.before, at |-> running.at]
  /\ DOMAIN running.source \subseteq Listed /\ DOMAIN running.steps = DOMAIN running.source
  /\ IsFiniteSet(Has(running))
  /\ \A id \in Has(running) :
       /\ id \in Names
       /\ running.source[id] \in {1, 2, 3}
       /\ id \in DOMAIN sources[running.source[id]]
  /\ \A id \in DOMAIN running.steps : running.steps[id] \in Seq(Listed)
  /\ running.before \subseteq Names
  /\ running.at \in Nat

LEMMA ParentedIs ==
  ASSUME NEW service, IsService(service), Parented(service)
  PROVE  /\ IsaFound(service)
         /\ DOMAIN Merge(service) = Ids(service) /\ None \notin Ids(service)
         /\ \A id \in Ids(service) :
              /\ StepsOf(Merge(service)[id]) \in Seq(Ids(service))
              /\ Cardinality(StepPlaces(Merge(service), id)) <= 1
<1>2. IsaFound(service)
  BY DEF Parented, IsaFound, IsaOf
<1>3. /\ DOMAIN Merge(service) = Ids(service)
      /\ \A id \in Ids(service) : Written(Merge(service)[id])
  BY <1>2, MergeIs
<1>4. \A id \in Ids(service) :
        /\ ToSet(StepsOf(Merge(service)[id])) \subseteq Ids(service)
        /\ Cardinality(StepPlaces(Merge(service), id)) <= 1
  BY <1>3 DEF Parented
<1>5. ASSUME NEW id \in Ids(service)
      PROVE  StepsOf(Merge(service)[id]) \in Seq(Ids(service))
  <2> DEFINE list == StepsOf(Merge(service)[id])
  <2>1. list \in Seq(Listed)
    <3>1. Written(Merge(service)[id])
      BY <1>3
    <3>2. <<>> \in Seq(Listed)
      OBVIOUS
    <3>3. QED
      BY <3>1, <3>2 DEF Written, StepsOf
  <2>2. ToSet(list) \subseteq Ids(service)
    BY <1>4
  <2> HIDE DEF list
  <2>3. Len(list) \in Nat /\ DOMAIN list = 1..Len(list) /\ \A i \in 1..Len(list) : list[i] \in Ids(service)
    BY <2>1, <2>2 DEF ToSet
  <2>4. list = [i \in 1..Len(list) |-> list[i]]
    BY <2>1
  <2>5. list \in Seq(Ids(service))
    BY <2>3, <2>4
  <2>6. QED
    BY <2>5 DEF list
<1>6. None \notin Ids(service)
  <2>1. Ids(service) \subseteq Names
    BY WinnerWritten
  <2>2. QED
    BY <2>1, NamesAssumption DEF Listed
<1>7. QED
  BY <1>2, <1>3, <1>4, <1>5, <1>6

LEMMA LoadsIs ==
  ASSUME NEW service, IsService(service), Loads(service)
  PROVE  /\ Parented(service) /\ IsaFound(service)
         /\ Propagated(Merge(service))
         /\ DOMAIN Merge(service) = Ids(service) /\ None \notin Ids(service)
         /\ \A id \in Ids(service) :
              /\ StepsOf(Merge(service)[id]) \in Seq(Ids(service))
              /\ Cardinality(StepPlaces(Merge(service), id)) <= 1
<1>1. Parented(service) /\ Propagated(Merge(service))
  BY DEF Loads, Propagated
<1>2. QED
  BY <1>1, ParentedIs

\* What a load leaves the process with.
LEMMA RuntimeIs ==
  ASSUME NEW service, IsService(service), Parented(service), NEW before, before \subseteq Names, edits \in Nat
  PROVE  /\ Running(Runtime(service, before), service)
         /\ Has(Runtime(service, before)) = Ids(service)
         /\ \A id \in Ids(service) :
              /\ Runtime(service, before).source[id] = SourceOf(service, id)
              /\ Runtime(service, before).steps[id] = InjectedSteps(Merge(service), id)
         /\ Runtime(service, before).namespaces = Namespaces(Merge(service), Order(service), before)
         /\ Runtime(service, before).before = before
         /\ Runtime(service, before).at = edits
<1> DEFINE pages == Merge(service)
           ids == DOMAIN pages \cup Summaries(pages)
           running == Runtime(service, before)
<1>1. DOMAIN pages = Ids(service) /\ None \notin Ids(service)
      /\ \A id \in Ids(service) : StepsOf(pages[id]) \in Seq(DOMAIN pages)
  BY ParentedIs
<1>2. Ids(service) \subseteq Names /\ IsFiniteSet(Ids(service))
      /\ \A id \in Ids(service) : SourceOf(service, id) \in {1, 2, 3} /\ id \in DOMAIN service[SourceOf(service, id)]
  BY WinnerWritten
<1>3. Ids(service) \subseteq ids /\ ids \subseteq Listed /\ ids \cap Names = Ids(service)
  BY <1>1, <1>2, NamesAssumption DEF Summaries, Listed
<1>4. /\ DOMAIN RuntimeData(service, before).type = ids
      /\ RuntimeData(service, before).steps =
           [id \in ids |-> IF id \in DOMAIN pages THEN InjectedSteps(pages, id) ELSE <<>>]
      /\ RuntimeData(service, before).namespaces = Namespaces(pages, Order(service), before)
  BY DEF RuntimeData
<1>5. /\ running.source = [id \in ids |-> IF id \in Ids(service) THEN SourceOf(service, id) ELSE None]
      /\ running.steps = [id \in ids |-> IF id \in DOMAIN pages THEN InjectedSteps(pages, id) ELSE <<>>]
      /\ running.namespaces = Namespaces(pages, Order(service), before)
      /\ running.before = before
      /\ running.at = edits
      /\ running = [source |-> running.source, steps |-> running.steps, namespace |-> running.namespace,
                    namespaces |-> running.namespaces, before |-> running.before, at |-> running.at]
  <2> HIDE DEF pages, ids
  <2>1. QED
    BY <1>4 DEF Runtime, pages, ids
<1>6. \A id \in Ids(service) : InjectedSteps(pages, id) \in Seq(Listed)
  <2> HIDE DEF pages
  <2>1. QED
    BY <1>1, <1>2, InjectedIs
<1> HIDE DEF running, pages, ids
<1>7. Has(running) = Ids(service)
  <2>1. \A id \in Ids(service) : SourceOf(service, id) # None
    BY <1>2, NamesAssumption
  <2>2. QED
    BY <1>3, <1>5, <2>1 DEF Has
<1>8. \A id \in DOMAIN running.steps : running.steps[id] \in Seq(Listed)
  BY <1>1, <1>5, <1>6
<1>9. Running(running, service)
  <2>1. \A id \in Has(running) : /\ id \in Names
                                 /\ running.source[id] \in {1, 2, 3}
                                 /\ id \in DOMAIN service[running.source[id]]
    BY <1>2, <1>3, <1>5, <1>7
  <2>2. QED
    BY <1>2, <1>3, <1>5, <1>7, <1>8, <2>1 DEF Running
<1>10. QED
  BY <1>1, <1>3, <1>5, <1>7, <1>9 DEF running, pages

-----------------------------------------------------------------------------
(* Edits of instances and of sources *)

\* An instance of which a property is changed.
LEMMA EditedIs ==
  ASSUME NEW page, Written(page), NEW cond, NEW list \in Seq(Listed) \cup {None}, NEW name
  PROVE  /\ Written([page EXCEPT !.show = cond])
         /\ \A f \in DOMAIN Page : [page EXCEPT !.show = cond][f] = IF f = "show" THEN cond ELSE page[f]
         /\ Written([page EXCEPT !.steps = list])
         /\ \A f \in DOMAIN Page : [page EXCEPT !.steps = list][f] = IF f = "steps" THEN list ELSE page[f]
         /\ Written([page EXCEPT !.repeatable = TRUE, !.namespace = name])
         /\ \A f \in DOMAIN Page : [page EXCEPT !.repeatable = TRUE, !.namespace = name][f] =
              CASE f = "repeatable" -> TRUE [] f = "namespace" -> name [] OTHER -> page[f]
<1> DEFINE F == DOMAIN Page
<1>1. "show" \in F /\ "steps" \in F /\ "repeatable" \in F /\ "namespace" \in F
  BY DEF Page
<1>2. DOMAIN page = F /\ page.steps \in Seq(Listed) \cup {None} /\ page.repeatable \in BOOLEAN
  BY DEF Written
<1> HIDE DEF F
<1>3. Written([page EXCEPT !.show = cond])
  BY <1>1, <1>2 DEF Written, F
<1>4. Written([page EXCEPT !.steps = list])
  BY <1>1, <1>2 DEF Written, F
<1>5. Written([page EXCEPT !.repeatable = TRUE, !.namespace = name])
  BY <1>1, <1>2 DEF Written, F
<1>6. QED
  BY <1>1, <1>2, <1>3, <1>4, <1>5 DEF F

LEMMA PageWritten ==
  Written(Page)
BY DEF Written, Page

\* A source with an instance that is new or changed.
LEMMA GetsIs ==
  ASSUME NEW pages, IsSource(pages), NEW id \in Names, NEW page, Written(page)
  PROVE  /\ IsSource(Gets(pages, id, page))
         /\ DOMAIN Gets(pages, id, page) = DOMAIN pages \cup {id}
         /\ Gets(pages, id, page)[id] = page
         /\ \A p \in DOMAIN pages \ {id} : Gets(pages, id, page)[p] = pages[p]
         /\ id \in DOMAIN pages => Gets(pages, id, page) = [pages EXCEPT ![id] = page]
<1>1. IsFiniteSet(DOMAIN pages \cup {id})
  BY FS_AddElement DEF IsSource
<1>2. QED
  BY <1>1 DEF IsSource, Gets

\* A service of which an instance is written.
Saved(service, source, id, page) == [service EXCEPT ![source] = Gets(@, id, page)]

LEMMA SavedIs ==
  ASSUME NEW service, IsService(service), NEW source \in {1, 2, 3}, NEW id \in Names, NEW page, Written(page)
  PROVE  /\ IsService(Saved(service, source, id, page))
         /\ Saved(service, source, id, page)[source] = Gets(service[source], id, page)
         /\ \A i \in {1, 2, 3} \ {source} : Saved(service, source, id, page)[i] = service[i]
<1>1. \A i \in {1, 2, 3} : IsSource(service[i])
  BY DEF IsService
<1>2. DOMAIN service = {1, 2, 3}
  BY DEF IsService
<1>3. IsSource(Gets(service[source], id, page))
  BY <1>1, GetsIs
<1>4. QED
  BY <1>1, <1>2, <1>3 DEF IsService, Saved

\* A source of which a page is deleted.
LEMMA RestrictIs ==
  ASSUME NEW pages, IsSource(pages), NEW id
  PROVE  /\ IsSource(Restrict(pages, DOMAIN pages \ {id}))
         /\ DOMAIN Restrict(pages, DOMAIN pages \ {id}) = DOMAIN pages \ {id}
         /\ \A p \in DOMAIN pages \ {id} : Restrict(pages, DOMAIN pages \ {id})[p] = pages[p]
<1>1. IsFiniteSet(DOMAIN pages \ {id})
  BY FS_Subset DEF IsSource
<1>2. QED
  BY <1>1 DEF IsSource, Restrict

-----------------------------------------------------------------------------
(* Type correctness *)

TypeOK ==
  /\ IsService(files) /\ IsService(memory)
  /\ edits \in Nat
  /\ careless \in BOOLEAN
  /\ doomed \in Names \cup {None}
  /\ seen \subseteq Names
  /\ IsSource(intended) /\ DOMAIN intended = DOMAIN files[Service]
  /\ undone \subseteq Names \X (Listed \cup {"show"})
  /\ runtime # None => Running(runtime, memory) /\ runtime.at <= edits

LEMMA LoadedIs ==
  ASSUME TypeOK, runtime # None
  PROVE  /\ Loaded = Has(runtime)
         /\ \A id \in Loaded :
              /\ id \in Names
              /\ runtime.source[id] \in {1, 2, 3} /\ id \in DOMAIN memory[runtime.source[id]]
              /\ Written(SourceInstance(id)) /\ Written(Intended(id))
              /\ id \in DOMAIN runtime.steps /\ runtime.steps[id] \in Seq(Listed)
<1>1. Loaded = Has(runtime)
  BY DEF Loaded, Has
<1>2. ASSUME NEW id \in Has(runtime)
      PROVE  /\ id \in Names
             /\ runtime.source[id] \in {1, 2, 3} /\ id \in DOMAIN memory[runtime.source[id]]
             /\ id \in DOMAIN runtime.steps /\ runtime.steps[id] \in Seq(Listed)
  BY DEF TypeOK, Running, Has
<1>3. ASSUME NEW id \in Has(runtime)
      PROVE  Written(SourceInstance(id)) /\ Written(Intended(id))
  <2>1. \A i \in {1, 2, 3} : IsSource(memory[i])
    BY DEF TypeOK, IsService
  <2>2. Written(SourceInstance(id))
    BY <1>2, <2>1 DEF IsSource, SourceInstance
  <2>3. \A p \in DOMAIN intended : Written(intended[p])
    BY DEF TypeOK, IsSource
  <2>4. QED
    BY <2>2, <2>3 DEF Intended
<1>4. QED
  BY <1>1, <1>2, <1>3

\* What is saved.
LEMMA SaveIs ==
  ASSUME TypeOK, NEW id \in Names, NEW page, Written(page), Save(id, page)
  PROVE  /\ IsService(files')
         /\ files'[Service] = Gets(files[Service], id, page)
         /\ files'[App] = files[App] /\ files'[Modules] = files[Modules]
         /\ DOMAIN files'[Service] = DOMAIN files[Service] \cup {id}
<1>1. files' = Saved(files, Service, id, page) /\ IsService(files)
  BY DEF Save, Saved, TypeOK
<1>2. Service \in {1, 2, 3} /\ Service = 2 /\ App = 1 /\ Modules = 3
  BY DEF Service, App, Modules
<1> HIDE DEF Service, App, Modules
<1>3. /\ IsService(files') /\ files'[Service] = Gets(files[Service], id, page)
      /\ files'[App] = files[App] /\ files'[Modules] = files[Modules]
  BY <1>1, <1>2, SavedIs
<1>4. QED
  BY <1>3 DEF Gets

\* What an edit writes.
LEMMA WriteIs ==
  ASSUME TypeOK, runtime # None, NEW id \in Loaded, NEW page, Written(page), Write(id, page)
  PROVE  /\ IsService(files') /\ IsService(memory')
         /\ files'[Service] = Gets(files[Service], id, page)
         /\ files'[App] = files[App] /\ files'[Modules] = files[Modules]
         /\ \A i \in {1, 2, 3} :
              /\ DOMAIN memory'[i] = DOMAIN memory[i]
              /\ \A p \in DOMAIN memory[i] :
                   memory'[i][p] = IF i = runtime.source[id] /\ p = id THEN page ELSE memory[i][p]
         /\ Running(runtime, memory')
<1>1. IsService(files) /\ IsService(memory) /\ Running(runtime, memory)
  BY DEF TypeOK
<1>2. id \in Names /\ runtime.source[id] \in {1, 2, 3} /\ id \in DOMAIN memory[runtime.source[id]]
  BY LoadedIs
<1>4. IsService(files') /\ files'[Service] = Gets(files[Service], id, page)
      /\ files'[App] = files[App] /\ files'[Modules] = files[Modules]
  BY <1>2, SaveIs DEF Write
<1> DEFINE s == runtime.source[id]
<1>5. memory' = Saved(memory, s, id, page)
  <2>1. memory' = [memory EXCEPT ![s][id] = page]
    BY DEF Write
  <2>2. IsSource(memory[s])
    BY <1>1, <1>2 DEF IsService
  <2>3. Gets(memory[s], id, page) = [memory[s] EXCEPT ![id] = page]
    BY <1>2, <2>2, GetsIs
  <2> HIDE DEF s
  <2>4. QED
    BY <2>1, <2>3 DEF Saved
<1>6. /\ IsService(memory') /\ memory'[s] = Gets(memory[s], id, page)
      /\ \A i \in {1, 2, 3} \ {s} : memory'[i] = memory[i]
  <2> HIDE DEF s
  <2>1. s \in {1, 2, 3}
    BY <1>2 DEF s
  <2>2. QED
    BY <1>1, <1>2, <1>5, <2>1, SavedIs
<1>7. \A i \in {1, 2, 3} :
        /\ DOMAIN memory'[i] = DOMAIN memory[i]
        /\ \A p \in DOMAIN memory[i] : memory'[i][p] = IF i = s /\ p = id THEN page ELSE memory[i][p]
  <2>1. DOMAIN memory'[s] = DOMAIN memory[s]
        /\ \A p \in DOMAIN memory[s] : memory'[s][p] = IF p = id THEN page ELSE memory[s][p]
    BY <1>2, <1>6 DEF Gets
  <2> HIDE DEF s
  <2>2. QED
    BY <1>6, <2>1
<1>8. Running(runtime, memory')
  BY <1>1, <1>7 DEF Running
<1>9. QED
  BY <1>4, <1>6, <1>7, <1>8

LEMMA IntendIs ==
  ASSUME TypeOK, NEW id \in Names, NEW page, Written(page), Intend(id, page),
         DOMAIN files'[Service] = DOMAIN files[Service] \cup {id}
  PROVE  /\ IsSource(intended') /\ DOMAIN intended' = DOMAIN files'[Service]
         /\ intended'[id] = page
         /\ \A p \in DOMAIN intended \ {id} : intended'[p] = intended[p]
<1>1. IsSource(intended) /\ DOMAIN intended = DOMAIN files[Service]
  BY DEF TypeOK
<1>2. intended' = Gets(intended, id, page)
  BY DEF Intend
<1>3. IsSource(Gets(intended, id, page))
  BY <1>1, GetsIs
<1>4. DOMAIN Gets(intended, id, page) = DOMAIN intended \cup {id} /\ Gets(intended, id, page)[id] = page
  BY DEF Gets
<1>5. \A p \in DOMAIN intended \ {id} : Gets(intended, id, page)[p] = intended[p]
  BY DEF Gets
<1>6. QED
  BY <1>1, <1>2, <1>3, <1>4, <1>5

\* An edit of an instance keeps the types.
LEMMA EditTyped ==
  ASSUME TypeOK, runtime # None, NEW id \in Loaded, NEW page, Written(page), NEW meant, Written(meant),
         Write(id, page), Intend(id, meant), edits' = edits + 1, careless' \in BOOLEAN,
         undone' \subseteq Names \X (Listed \cup {"show"}),
         doomed' \in Names \cup {None}, seen' = seen, runtime' = runtime
  PROVE  TypeOK'
<1>1. /\ IsService(files') /\ IsService(memory') /\ Running(runtime, memory')
      /\ files'[Service] = Gets(files[Service], id, page)
  BY WriteIs
<1>2. id \in Names /\ IsSource(files[Service])
  BY LoadedIs DEF TypeOK, IsService, Service
<1>3. DOMAIN files'[Service] = DOMAIN files[Service] \cup {id}
  BY <1>1 DEF Gets
<1>4. IsSource(intended') /\ DOMAIN intended' = DOMAIN files'[Service]
  BY <1>2, <1>3, IntendIs
<1>5. edits' \in Nat /\ runtime.at <= edits'
  BY DEF TypeOK, Running
<1>6. seen \subseteq Names
  BY DEF TypeOK
<1>7. QED
  BY <1>1, <1>4, <1>5, <1>6 DEF TypeOK

\* What an edit undoes is of a page that the process has.
LEMMA UnreadIs ==
  ASSUME TypeOK, runtime # None, NEW id \in Loaded
  PROVE  Unread(id) \subseteq Names \X (Listed \cup {"show"})
BY LoadedIs DEF Unread

LEMMA TypeInit ==
  Init => TypeOK
<1> SUFFICES ASSUME Init PROVE TypeOK
  OBVIOUS
<1>1. files \in Services /\ Parented(files)
  BY ServicesAssumption DEF Init, Loads
<1>2. IsService(files)
  <2>1. \A i \in {1, 2, 3} : DOMAIN files[i] \subseteq Ids(files)
    BY <1>1, ServicesAssumption DEF Ids
  <2>2. Ids(files) \subseteq Names
    BY <1>1 DEF Names
  <2>3. ASSUME NEW i \in {1, 2, 3}
        PROVE  IsSource(files[i])
    <3>1. /\ IsFiniteSet(DOMAIN files[i]) /\ DOMAIN files[i] \subseteq Names
          /\ files[i] = [id \in DOMAIN files[i] |-> files[i][id]]
          /\ \A id \in DOMAIN files[i] : Instance(files[i][id])
      BY <1>1, <2>1, <2>2, ServicesAssumption
    <3>2. Seq(Names) \subseteq Seq(Listed)
      BY DEF Listed
    <3>3. \A page : Instance(page) => Written(page)
      BY <3>2 DEF Instance, Written
    <3>4. QED
      BY <3>1, <3>3 DEF IsSource
  <2>4. files = [i \in {1, 2, 3} |-> files[i]]
    BY <1>1, ServicesAssumption
  <2>5. QED
    BY <2>3, <2>4 DEF IsService
<1>3. edits \in Nat /\ edits = 0
  BY DEF Init
<1>4. Running(runtime, memory) /\ runtime.at = 0
  BY <1>1, <1>2, <1>3, RuntimeIs DEF Init
<1>5. Ids(files) \subseteq Names /\ IsSource(files[Service])
  BY <1>2, WinnerWritten DEF IsService, Service
<1>6. /\ memory = files /\ seen = Ids(files) /\ doomed = None /\ careless = FALSE
      /\ intended = files[Service] /\ undone = {}
  BY DEF Init
<1>7. IsService(memory) /\ (runtime # None => Running(runtime, memory) /\ runtime.at <= edits)
  BY <1>2, <1>3, <1>4, <1>6
<1>8. IsSource(intended) /\ DOMAIN intended = DOMAIN files[Service] /\ seen \subseteq Names
  BY <1>5, <1>6
<1>9. QED
  BY <1>2, <1>3, <1>6, <1>7, <1>8 DEF TypeOK

LEMMA TypeNext ==
  TypeOK /\ [Next]_vars => TypeOK'
<1> SUFFICES ASSUME TypeOK, [Next]_vars PROVE TypeOK'
  OBVIOUS
<1>1. CASE Restart
  <2>1. CASE Loads(files)
    <3>1. runtime' = Runtime(files, {}) /\ memory' = files /\ seen' = Ids(files)
      BY <1>1, <2>1 DEF Restart
    <3>2. Running(runtime', memory') /\ runtime'.at = edits
      BY <2>1, <3>1, LoadsIs, RuntimeIs DEF TypeOK
    <3>3. Ids(files) \subseteq Names
      BY WinnerWritten DEF TypeOK
    <3>4. QED
      BY <1>1, <3>1, <3>2, <3>3 DEF TypeOK, Restart
  <2>2. CASE ~Loads(files)
    BY <1>1, <2>2 DEF TypeOK, Restart
  <2>3. QED
    BY <2>1, <2>2
<1>2. CASE Reload
  <2>1. CASE LoadsAgain(files, seen)
    <3>1. runtime' = Runtime(files, seen) /\ memory' = files /\ seen' = seen \cup Ids(files) /\ Parented(files)
      BY <1>2, <2>1 DEF Reload, LoadsAgain
    <3>2. Running(runtime', memory') /\ runtime'.at = edits
      BY <3>1, RuntimeIs DEF TypeOK
    <3>3. Ids(files) \subseteq Names
      BY WinnerWritten DEF TypeOK
    <3>4. QED
      BY <1>2, <3>1, <3>2, <3>3 DEF TypeOK, Reload
  <2>2. CASE ~LoadsAgain(files, seen)
    <3>1. seen' \subseteq seen \cup Ids(files)
      BY <1>2, <2>2 DEF Reload
    <3>2. Ids(files) \subseteq Names
      BY WinnerWritten DEF TypeOK
    <3>3. QED
      BY <1>2, <2>2, <3>1, <3>2 DEF TypeOK, Reload
  <2>3. QED
    BY <2>1, <2>2
<1>3. CASE DeleteFile
  <2>1. /\ IsSource(files[Service]) /\ Service \in {1, 2, 3}
        /\ DOMAIN files = {1, 2, 3} /\ \A i \in {1, 2, 3} : IsSource(files[i])
    BY DEF TypeOK, IsService, Service
  <2> DEFINE rest(pages) == Restrict(pages, DOMAIN pages \ {doomed})
  <2>2. files' = [files EXCEPT ![Service] = rest(files[Service])] /\ intended' = rest(intended)
    BY <1>3 DEF DeleteFile
  <2>3. IsSource(intended) /\ DOMAIN intended = DOMAIN files[Service]
    BY DEF TypeOK
  <2>4. \A pages : IsSource(pages) => IsSource(rest(pages)) /\ DOMAIN rest(pages) = DOMAIN pages \ {doomed}
    BY RestrictIs
  <2> HIDE DEF rest
  <2>5. IsService(files') /\ DOMAIN files'[Service] = DOMAIN files[Service] \ {doomed}
    <3> HIDE DEF Service
    <3>1. QED
      BY <2>1, <2>2, <2>4 DEF IsService
  <2>6. IsSource(intended') /\ DOMAIN intended' = DOMAIN files'[Service]
    BY <2>2, <2>3, <2>4, <2>5
  <2>7. undone' \subseteq Names \X (Listed \cup {"show"})
    BY <1>3 DEF TypeOK, DeleteFile
  <2>8. QED
    BY <1>3, <2>5, <2>6, <2>7 DEF TypeOK, DeleteFile
<1>4. ASSUME NEW id \in NewPages, NEW cond, CreateInstance(id, cond)
      PROVE  TypeOK'
  <2> DEFINE page == [Page EXCEPT !.show = cond]
  <2>1. id \in Names /\ Written(page)
    <3>1. None \in Seq(Listed) \cup {None}
      OBVIOUS
    <3>2. QED
      BY <3>1, PageWritten, EditedIs DEF Names
  <2>2. Save(id, page)
    BY <1>4 DEF CreateInstance
  <2>3. IF id \in DOMAIN intended
        THEN undone' = undone \cup {<<id, "show">>} /\ intended' = intended
        ELSE Intend(id, page) /\ undone' = undone
    BY <1>4 DEF CreateInstance
  <2>4. /\ edits' = edits + 1
        /\ UNCHANGED <<memory, runtime, seen, doomed, careless>>
    BY <1>4 DEF CreateInstance, Editing
  <2> HIDE DEF page
  <2>5. IsService(files') /\ DOMAIN files'[Service] = DOMAIN files[Service] \cup {id}
    BY <2>1, <2>2, SaveIs
  <2>6. IsSource(intended') /\ DOMAIN intended' = DOMAIN files'[Service]
    <3>1. CASE id \in DOMAIN intended
      BY <2>3, <2>5, <3>1 DEF TypeOK
    <3>2. CASE id \notin DOMAIN intended
      BY <2>1, <2>3, <2>5, <3>2, IntendIs
    <3>3. QED
      BY <3>1, <3>2
  <2>7. undone' \subseteq Names \X (Listed \cup {"show"})
    BY <2>1, <2>3 DEF TypeOK
  <2>8. edits' \in Nat /\ (runtime # None => runtime.at <= edits')
    BY <2>4 DEF TypeOK, Running
  <2>9. QED
    BY <2>4, <2>5, <2>6, <2>7, <2>8 DEF TypeOK
<1>5. ASSUME NEW id, NEW cond, SetShow(id, cond)
      PROVE  TypeOK'
  <2>1. runtime # None /\ id \in Loaded /\ edits' = edits + 1
    BY <1>5 DEF SetShow, Editing
  <2>2. Written([SourceInstance(id) EXCEPT !.show = cond]) /\ Written([Intended(id) EXCEPT !.show = cond])
    <3>1. None \in Seq(Listed) \cup {None}
      OBVIOUS
    <3>2. QED
      BY <2>1, <3>1, LoadedIs, EditedIs
  <2>3. /\ careless' \in BOOLEAN /\ doomed' \in Names \cup {None} /\ seen' = seen /\ runtime' = runtime
        /\ undone' \subseteq Names \X (Listed \cup {"show"})
    BY <1>5 DEF SetShow, TypeOK
  <2>4. Write(id, [SourceInstance(id) EXCEPT !.show = cond]) /\ Intend(id, [Intended(id) EXCEPT !.show = cond])
    BY <1>5 DEF SetShow
  <2>5. QED
    BY <2>1, <2>2, <2>3, <2>4, EditTyped
<1>11. ASSUME NEW id, NEW cond, SetInstance(id, cond)
      PROVE  TypeOK'
  <2>1. runtime # None /\ id \in Loaded /\ edits' = edits + 1
    BY <1>11 DEF SetInstance, Editing
  <2>2. id \in Names /\ Written([SourceInstance(id) EXCEPT !.show = cond]) /\ Written([Intended(id) EXCEPT !.show = cond])
    <3>1. None \in Seq(Listed) \cup {None}
      OBVIOUS
    <3>2. QED
      BY <2>1, <3>1, LoadedIs, EditedIs
  <2>3. /\ careless' \in BOOLEAN /\ UNCHANGED <<memory, runtime, seen, doomed>>
        /\ undone' \subseteq Names \X (Listed \cup {"show"})
    BY <1>11 DEF SetInstance, TypeOK
  <2>4. Save(id, [SourceInstance(id) EXCEPT !.show = cond]) /\ Intend(id, [Intended(id) EXCEPT !.show = cond])
    BY <1>11 DEF SetInstance
  <2>5. IsService(files') /\ DOMAIN files'[Service] = DOMAIN files[Service] \cup {id}
    BY <2>2, <2>4, SaveIs
  <2>6. IsSource(intended') /\ DOMAIN intended' = DOMAIN files'[Service]
    BY <2>2, <2>4, <2>5, IntendIs
  <2>7. edits' \in Nat /\ runtime.at <= edits'
    BY <2>1 DEF TypeOK, Running
  <2>8. QED
    BY <2>3, <2>5, <2>6, <2>7 DEF TypeOK
<1>6. ASSUME NEW id, NEW step, AddStep(id, step)
      PROVE  TypeOK'
  <2>1. runtime # None /\ id \in Loaded /\ edits' = edits + 1 /\ step \in Ids(files)
    BY <1>6 DEF AddStep, Editing
  <2> DEFINE Appended(page, steps) == [page EXCEPT !.steps = Append(steps, step)]
             others == {s \in Listed : <<id, s>> \notin undone \/ s # step}
  <2>2. ASSUME NEW page, Written(page), NEW steps \in Seq(Listed)
        PROVE  Written(Appended(page, steps))
    <3>1. step \in Listed
      BY <2>1, WinnerWritten DEF TypeOK, Listed
    <3>2. Append(steps, step) \in Seq(Listed) \cup {None}
      BY <3>1
    <3>3. QED
      BY <2>2, <3>2, EditedIs
  <2>3. /\ careless' \in BOOLEAN /\ doomed' \in Names \cup {None} /\ seen' = seen /\ runtime' = runtime
        /\ undone' \subseteq Names \X (Listed \cup {"show"})
    <3>1. careless' \in BOOLEAN /\ doomed' = doomed /\ seen' = seen /\ runtime' = runtime
          /\ undone' \subseteq undone \cup Unread(id)
      BY <1>6 DEF AddStep, TypeOK
    <3>2. QED
      BY <2>1, <3>1, UnreadIs DEF TypeOK
  <2>4. /\ Write(id, Appended(SourceInstance(id), StepsOf(SourceInstance(id))))
        /\ Intend(id, Appended(Intended(id), Only(StepsOf(Intended(id)), others)))
    BY <1>6 DEF AddStep
  <2>5. /\ Written(SourceInstance(id)) /\ Written(Intended(id))
        /\ StepsOf(SourceInstance(id)) \in Seq(Listed) /\ StepsOf(Intended(id)) \in Seq(Listed)
    BY <2>1, LoadedIs DEF Written, StepsOf
  <2> HIDE DEF Appended, others
  <2>6. Only(StepsOf(Intended(id)), others) \in Seq(Listed)
    BY <2>5, OnlyIs
  <2>7. /\ Written(Appended(SourceInstance(id), StepsOf(SourceInstance(id))))
        /\ Written(Appended(Intended(id), Only(StepsOf(Intended(id)), others)))
    BY <2>2, <2>5, <2>6
  <2>8. QED
    BY <2>1, <2>3, <2>4, <2>7, EditTyped
<1>7. ASSUME NEW id, SetRepeatable(id)
      PROVE  TypeOK'
  <2>1. runtime # None /\ id \in Loaded /\ edits' = edits + 1
    BY <1>7 DEF SetRepeatable, Editing
  <2> DEFINE Repeated(page) == [page EXCEPT !.repeatable = TRUE, !.namespace = AutoNamespace(id)]
  <2>2. Written(Repeated(SourceInstance(id))) /\ Written(Repeated(Intended(id)))
    <3>1. None \in Seq(Listed) \cup {None}
      OBVIOUS
    <3>2. QED
      BY <2>1, <3>1, LoadedIs, EditedIs
  <2>3. /\ careless' \in BOOLEAN /\ doomed' \in Names \cup {None} /\ seen' = seen /\ runtime' = runtime
        /\ undone' \subseteq Names \X (Listed \cup {"show"})
    BY <1>7, <2>1, UnreadIs DEF SetRepeatable, TypeOK
  <2>4. Write(id, Repeated(SourceInstance(id))) /\ Intend(id, Repeated(Intended(id)))
    BY <1>7 DEF SetRepeatable
  <2> HIDE DEF Repeated
  <2>5. QED
    BY <2>1, <2>2, <2>3, <2>4, EditTyped
<1>8. ASSUME NEW id, DeleteInstance(id)
      PROVE  TypeOK'
  <2>1. /\ runtime # None /\ id \in Loaded /\ edits' = edits + 1
        /\ doomed' = id /\ seen' = seen /\ careless' \in BOOLEAN
    BY <1>8 DEF DeleteInstance, Editing
  <2>2. id \in Names
    BY <2>1, LoadedIs
  <2>3. CASE StepsOwner(id) = {}
    <3>1. UNCHANGED <<files, memory, runtime, intended, undone>>
      BY <1>8, <2>3 DEF DeleteInstance, RemoveStep, RemoveNoStep
    <3>2. runtime.at \in Nat /\ edits \in Nat /\ runtime.at <= edits
      BY <2>1 DEF TypeOK, Running
    <3>3. QED
      BY <2>1, <2>2, <3>1, <3>2 DEF TypeOK
  <2>4. CASE StepsOwner(id) # {}
    <3>1. RemoveStep(id)
      BY <1>8 DEF DeleteInstance
    <3> DEFINE steps(p) == Only(runtime.steps[p], ToSet(runtime.steps[p]) \ {id})
               before(p) == IF Intended(p).steps = None THEN runtime.steps[p] ELSE Intended(p).steps
               rest(p) == Only(before(p), Names \ {id})
    <3>2. PICK p \in StepsOwner(id) :
            /\ runtime' = [runtime EXCEPT !.steps[p] = steps(p)]
            /\ Write(p, [SourceInstance(p) EXCEPT !.steps = steps(p)])
            /\ Intend(p, [Intended(p) EXCEPT !.steps = rest(p)])
            /\ undone' = undone \cup Unread(p) \cup {<<p, step>> : step \in ToSet(before(p)) \ ToSet(runtime.steps[p])}
      BY <2>4, <3>1 DEF RemoveStep
    <3>3. p \in Loaded
      BY DEF StepsOwner
    <3>4. p \in Names /\ p \in DOMAIN runtime.steps /\ runtime.steps[p] \in Seq(Listed)
          /\ Written(SourceInstance(p)) /\ Written(Intended(p))
      BY <2>1, <3>3, LoadedIs
    <3>14. before(p) \in Seq(Listed)
      BY <3>4 DEF Written
    <3>15. undone' \subseteq Names \X (Listed \cup {"show"})
      <4>1. ToSet(before(p)) \subseteq Listed
        <5> HIDE DEF before
        <5>1. QED
          BY <3>14 DEF ToSet
      <4>2. Unread(p) \subseteq Names \X (Listed \cup {"show"})
        BY <2>1, <3>3, UnreadIs
      <4> HIDE DEF before
      <4>3. QED
        BY <3>2, <3>4, <4>1, <4>2 DEF TypeOK
    <3>5. steps(p) \in Seq(Listed) /\ rest(p) \in Seq(Listed)
      <4> HIDE DEF before
      <4>1. QED
        BY <3>4, <3>14, OnlyIs
    <3> HIDE DEF steps, rest, before
    <3>6. Written([SourceInstance(p) EXCEPT !.steps = steps(p)])
          /\ Written([Intended(p) EXCEPT !.steps = rest(p)])
      BY <3>4, <3>5, EditedIs
    <3>7. /\ IsService(files') /\ IsService(memory') /\ Running(runtime, memory')
          /\ files'[Service] = Gets(files[Service], p, [SourceInstance(p) EXCEPT !.steps = steps(p)])
      BY <2>1, <3>2, <3>3, <3>6, WriteIs
    <3>8. DOMAIN files'[Service] = DOMAIN files[Service] \cup {p}
      BY <3>7 DEF Gets
    <3>9. IsSource(intended') /\ DOMAIN intended' = DOMAIN files'[Service]
      BY <3>2, <3>4, <3>6, <3>8, IntendIs
    <3>10. Running(runtime', memory') /\ runtime'.at = runtime.at
      <4>1. runtime' = [source |-> runtime.source, steps |-> [runtime.steps EXCEPT ![p] = steps(p)],
                        namespace |-> runtime.namespace, namespaces |-> runtime.namespaces,
                        before |-> runtime.before, at |-> runtime.at]
        BY <3>2, <3>7 DEF Running
      <4>2. Has(runtime') = Has(runtime) /\ runtime'.source = runtime.source
        BY <4>1 DEF Has
      <4>3. DOMAIN runtime'.steps = DOMAIN runtime.steps
            /\ \A q \in DOMAIN runtime.steps : runtime'.steps[q] \in Seq(Listed)
        BY <3>4, <3>5, <3>7, <4>1 DEF Running
      <4>4. QED
        BY <3>7, <4>1, <4>2, <4>3 DEF Running
    <3>11. edits' \in Nat /\ runtime.at <= edits'
      BY <2>1 DEF TypeOK, Running
    <3>12. seen \subseteq Names
      BY DEF TypeOK
    <3>13. QED
      BY <2>1, <2>2, <3>7, <3>9, <3>10, <3>11, <3>12, <3>15 DEF TypeOK
  <2>5. QED
    BY <2>3, <2>4
<1>9. CASE UNCHANGED vars
  BY <1>9 DEF vars, TypeOK
<1>10. QED
  BY <1>1, <1>2, <1>3, <1>4, <1>5, <1>6, <1>7, <1>8, <1>9, <1>11 DEF Next

\* The sources on disk and in the memory of the process are sources of pages, the edits
\* that were intended are of the pages that have files, and the process has instances of
\* what it has in memory.
THEOREM ServiceTypeOK == Spec => []TypeOK
<1>1. QED
  BY TypeInit, TypeNext, PTL DEF Spec

-----------------------------------------------------------------------------
(* Services that load *)

\* A set with one member at most.
LEMMA OneAtMost ==
  ASSUME NEW A, IsFiniteSet(A)
  PROVE  Cardinality(A) <= 1 <=> \A x, y \in A : x = y
<1>1. ASSUME Cardinality(A) <= 1, NEW x \in A, NEW y \in A, x # y
      PROVE  FALSE
  <2>1. IsFiniteSet({x}) /\ Cardinality({x}) = 1
    BY FS_Singleton
  <2>2. Cardinality({x} \cup {y}) = 2
    <3>1. y \notin {x} /\ IsFiniteSet({x})
      BY <1>1, <2>1
    <3>2. Cardinality({x} \cup {y}) = IF y \in {x} THEN Cardinality({x}) ELSE Cardinality({x}) + 1
      BY <3>1, FS_AddElement
    <3>3. QED
      BY <2>1, <3>1, <3>2
  <2>3. {x} \cup {y} \subseteq A
    BY <1>1
  <2>4. Cardinality({x} \cup {y}) <= Cardinality(A)
    BY <2>3, FS_Subset
  <2>5. Cardinality(A) \in Nat
    BY FS_CardinalityType
  <2>6. QED
    BY <1>1, <2>2, <2>4, <2>5
<1>2. ASSUME \A x, y \in A : x = y
      PROVE  Cardinality(A) <= 1
  <2>1. CASE A = {}
    BY <2>1, FS_EmptySet
  <2>2. CASE A # {}
    <3>1. PICK x \in A : TRUE
      BY <2>2
    <3>2. A = {x}
      BY <1>2, <3>1
    <3>3. QED
      BY <3>2, FS_Singleton
  <2>3. QED
    BY <2>1, <2>2
<1>3. QED
  BY <1>1, <1>2

\* A function with a finite domain has a finite range.
LEMMA RangeFinite ==
  ASSUME NEW f, IsFiniteSet(DOMAIN f)
  PROVE  IsFiniteSet({f[x] : x \in DOMAIN f})
<1> DEFINE S == DOMAIN f
           T == {f[x] : x \in S}
           g == [x \in S |-> f[x]]
<1>1. g \in Surjection(S, T)
  BY DEF Surjection
<1> HIDE DEF g
<1>2. IsFiniteSet(T)
  BY <1>1, FS_Surjection
<1>3. QED
  BY <1>2

LEMMA PlacesFinite ==
  ASSUME NEW pages, IsFiniteSet(DOMAIN pages), NEW T,
         \A p \in DOMAIN pages : StepsOf(pages[p]) \in Seq(T), NEW id
  PROVE  IsFiniteSet(StepPlaces(pages, id))
<1> DEFINE at(p) == {<<p, i>> : i \in {j \in DOMAIN StepsOf(pages[p]) : StepsOf(pages[p])[j] = id}}
           all == {at(p) : p \in DOMAIN pages}
<1>1. ASSUME NEW p \in DOMAIN pages
      PROVE  IsFiniteSet(at(p))
  <2> DEFINE S == {j \in DOMAIN StepsOf(pages[p]) : StepsOf(pages[p])[j] = id}
  <2>1. PICK n \in Nat : DOMAIN StepsOf(pages[p]) = 1..n
    OBVIOUS
  <2>2. IsFiniteSet(1..n) /\ S \subseteq 1..n
    BY <2>1, FS_Interval
  <2> HIDE DEF S
  <2>3. IsFiniteSet(S)
    BY <2>2, FS_Subset
  <2> DEFINE f == [i \in S |-> <<p, i>>]
  <2>4. IsFiniteSet({f[i] : i \in DOMAIN f})
    <3>1. IsFiniteSet(DOMAIN f)
      BY <2>3
    <3> HIDE DEF f
    <3>2. QED
      BY <3>1, RangeFinite
  <2>5. {f[i] : i \in DOMAIN f} = {<<p, i>> : i \in S}
    OBVIOUS
  <2>6. QED
    BY <2>4, <2>5 DEF S
<1> HIDE DEF at
<1>2. IsFiniteSet(all)
  <2> DEFINE f == [p \in DOMAIN pages |-> at(p)]
  <2>1. IsFiniteSet({f[p] : p \in DOMAIN f})
    <3>1. IsFiniteSet(DOMAIN f)
      OBVIOUS
    <3> HIDE DEF f
    <3>2. QED
      BY <3>1, RangeFinite
  <2>2. {f[p] : p \in DOMAIN f} = all
    OBVIOUS
  <2>3. QED
    BY <2>1, <2>2
<1>3. IsFiniteSet(UNION all)
  <2>1. \A B \in all : IsFiniteSet(B)
    BY <1>1
  <2> HIDE DEF all
  <2>2. QED
    BY <1>2, <2>1, FS_UNION
<1>4. StepPlaces(pages, id) = UNION all
  BY DEF StepPlaces, at
<1>5. QED
  BY <1>3, <1>4

\* What the steps of the instances in the files have to be for a load not to fail on them.
Laid(service) ==
  /\ IsaFound(service)
  /\ \A p \in Ids(service) :
       /\ ToSet(StepsOf(Winner(service, p))) \subseteq Ids(service)
       /\ Distinct(StepsOf(Winner(service, p)))
       /\ Winner(service, p).steps = None /\ Winner(service, p).isa # None =>
            StepsOf(Winner(service, Winner(service, p).isa)) = <<>>
  /\ \A p, q \in Ids(service) :
       p # q => ToSet(StepsOf(Winner(service, p))) \cap ToSet(StepsOf(Winner(service, q))) = {}

LEMMA WinnerSteps ==
  ASSUME NEW service, IsService(service), NEW p \in Ids(service)
  PROVE  /\ StepsOf(Winner(service, p)) \in Seq(Listed)
         /\ DOMAIN StepsOf(Winner(service, p)) = 1..Len(StepsOf(Winner(service, p)))
         /\ Len(StepsOf(Winner(service, p))) \in Nat
<1>1. Winner(service, p).steps \in Seq(Listed) \cup {None} /\ <<>> \in Seq(Listed)
  BY WinnerWritten DEF Written
<1>2. StepsOf(Winner(service, p)) \in Seq(Listed)
  BY <1>1 DEF StepsOf
<1>3. QED
  BY <1>2

\* What the steps of a merged instance are.
LEMMA MergeSteps ==
  ASSUME NEW service, IsService(service), IsaFound(service), NEW p \in Ids(service)
  PROVE  Merge(service)[p].steps =
           IF Winner(service, p).isa = None \/ Winner(service, p).steps # None THEN Winner(service, p).steps
           ELSE Merge(service)[Winner(service, p).isa].steps
<1> DEFINE isa == Winner(service, p).isa
<1>1. CASE isa = None
  BY <1>1, MergeIs
<1>2. CASE isa # None
  <2>1. isa \in Ids(service)
    BY <1>2 DEF IsaFound, IsaOf
  <2>2. Merge(service)[p] = Inherit(Winner(service, p), Merge(service)[isa])
    BY <1>2, MergeIs
  <2>3. Written(Winner(service, p))
    BY WinnerWritten
  <2>4. Merge(service)[isa].steps \in Seq(Listed) \cup {None} /\ Merge(service)[isa].repeatable \in BOOLEAN
    BY <2>1, MergeIs DEF Written
  <2>5. QED
    BY <1>2, <2>2, <2>3, <2>4, InheritIs
<1>3. QED
  BY <1>1, <1>2

\* Where files load, or their steps are laid out so, a merged instance has its own steps.
LEMMA OwnSteps ==
  ASSUME NEW service, IsService(service), Laid(service)
  PROVE  \A p \in Ids(service) : StepsOf(Merge(service)[p]) = StepsOf(Winner(service, p))
<1> DEFINE S == Ids(service)
           W(p) == Winner(service, p)
           M == Merge(service)
           above == IsaOf(service)
           Good == {p \in S : StepsOf(M[p]) = StepsOf(W(p))}
<1>1. Founded(above) /\ DOMAIN above = S /\ \A p \in S : above[p] = W(p).isa /\ above[p] \in S \cup {None}
  BY DEF Laid, IsaFound, IsaOf
<1>2. ASSUME NEW p \in S, above[p] \in S => above[p] \in Good
      PROVE  p \in Good
  <2>1. M[p].steps = IF W(p).isa = None \/ W(p).steps # None THEN W(p).steps ELSE M[W(p).isa].steps
    BY MergeSteps DEF Laid
  <2>2. CASE W(p).isa = None \/ W(p).steps # None
    BY <2>1, <2>2 DEF StepsOf
  <2>3. CASE W(p).isa # None /\ W(p).steps = None
    <3>1. above[p] \in S /\ above[p] = W(p).isa
      BY <1>1, <2>3
    <3>2. StepsOf(M[W(p).isa]) = StepsOf(W(W(p).isa)) /\ StepsOf(W(W(p).isa)) = <<>>
      BY <1>2, <2>3, <3>1 DEF Laid
    <3>3. StepsOf(M[p]) = StepsOf(M[W(p).isa]) /\ StepsOf(W(p)) = <<>>
      BY <2>1, <2>3 DEF StepsOf
    <3>4. QED
      BY <3>2, <3>3
  <2>4. QED
    BY <2>2, <2>3
<1>3. Good = S
  <2>1. Good \in SUBSET S
    OBVIOUS
  <2> HIDE DEF Good, above, S
  <2>2. QED
    BY <1>1, <1>2, <2>1, FoundedInduction
<1>4. QED
  BY <1>3

\* The first of the two checks of a load finds nothing just when the steps are laid out so.
LEMMA LaidParents ==
  ASSUME NEW service, IsService(service), Laid(service)
  PROVE  Parented(service)
<1> DEFINE M == Merge(service)
<1>1. IsaFound(service) /\ DOMAIN M = Ids(service) /\ IsFiniteSet(DOMAIN M)
  BY MergeIs, WinnerWritten DEF Laid
<1>2. \A p \in DOMAIN M : StepsOf(M[p]) = StepsOf(Winner(service, p))
  BY <1>1, OwnSteps
<1>3. \A p \in DOMAIN M : StepsOf(M[p]) \in Seq(Listed)
  BY <1>1, <1>2, WinnerSteps
<1>4. \A p \in DOMAIN M : ToSet(StepsOf(M[p])) \subseteq DOMAIN M
  BY <1>1, <1>2 DEF Laid
<1> HIDE DEF M
<1>5. ASSUME NEW id \in DOMAIN M
      PROVE  Cardinality(StepPlaces(M, id)) <= 1
  <2>1. IsFiniteSet(StepPlaces(M, id))
    BY <1>1, <1>3, PlacesFinite
  <2>2. ASSUME NEW x \in StepPlaces(M, id), NEW y \in StepPlaces(M, id)
        PROVE  x = y
    <3>1. PICK p \in DOMAIN M : \E i \in DOMAIN StepsOf(M[p]) : x = <<p, i>> /\ StepsOf(M[p])[i] = id
      BY StepPlacesIs
    <3>2. PICK i \in DOMAIN StepsOf(M[p]) : x = <<p, i>> /\ StepsOf(M[p])[i] = id
      BY <3>1
    <3>3. PICK q \in DOMAIN M : \E j \in DOMAIN StepsOf(M[q]) : y = <<q, j>> /\ StepsOf(M[q])[j] = id
      BY StepPlacesIs
    <3>4. PICK j \in DOMAIN StepsOf(M[q]) : y = <<q, j>> /\ StepsOf(M[q])[j] = id
      BY <3>3
    <3>5. p = q
      <4>1. id \in ToSet(StepsOf(Winner(service, p))) /\ id \in ToSet(StepsOf(Winner(service, q)))
        BY <1>2, <3>2, <3>4 DEF ToSet
      <4>2. QED
        BY <1>1, <4>1 DEF Laid
    <3>6. i = j
      <4>1. Distinct(StepsOf(M[p]))
        BY <1>1, <1>2 DEF Laid
      <4>2. QED
        BY <3>2, <3>4, <3>5, <4>1 DEF Distinct
    <3>7. QED
      BY <3>2, <3>4, <3>5, <3>6
  <2>3. QED
    BY <2>1, <2>2, OneAtMost
<1>6. QED
  BY <1>1, <1>4, <1>5 DEF Parented, IsaFound, IsaOf, M

LEMMA ParentsLaid ==
  ASSUME NEW service, IsService(service), Parented(service)
  PROVE  Laid(service)
<1> DEFINE M == Merge(service)
           S == Ids(service)
           W(p) == Winner(service, p)
<1>1. IsaFound(service)
  BY DEF Parented, IsaFound, IsaOf
<1>2. DOMAIN M = S /\ IsFiniteSet(DOMAIN M)
  BY <1>1, MergeIs, WinnerWritten
<1>3. \A p \in S : ToSet(StepsOf(M[p])) \subseteq S /\ Cardinality(StepPlaces(M, p)) <= 1
  BY <1>2 DEF Parented
<1>4. \A p \in S : StepsOf(M[p]) \in Seq(Listed)
  <2>1. <<>> \in Seq(Listed)
    OBVIOUS
  <2>2. QED
    BY <1>1, <2>1, MergeIs DEF Written, StepsOf
<1>5. \A p \in S : M[p].steps = IF W(p).isa = None \/ W(p).steps # None THEN W(p).steps ELSE M[W(p).isa].steps
  BY <1>1, MergeSteps
<1>6. Founded(IsaOf(service)) /\ DOMAIN IsaOf(service) = S /\ \A p \in S : IsaOf(service)[p] = W(p).isa
      /\ W(p).isa \in S \cup {None}
  BY <1>1 DEF IsaFound, IsaOf
<1> HIDE DEF M, S, W
<1>7. ASSUME NEW p \in S, NEW q \in S, NEW i \in DOMAIN StepsOf(M[p]), NEW j \in DOMAIN StepsOf(M[q]),
             StepsOf(M[p])[i] = StepsOf(M[q])[j]
      PROVE  p = q /\ i = j
  <2> DEFINE id == StepsOf(M[p])[i]
  <2>1. id \in S
    BY <1>3 DEF ToSet
  <2>2. <<p, i>> \in StepPlaces(M, id) /\ <<q, j>> \in StepPlaces(M, id)
    BY <1>2, <1>7, StepPlacesIs
  <2> HIDE DEF id
  <2>3. IsFiniteSet(StepPlaces(M, id))
    BY <1>2, <1>4, PlacesFinite
  <2>4. Cardinality(StepPlaces(M, id)) <= 1
    BY <1>3, <2>1
  <2>5. <<p, i>> = <<q, j>>
    BY <2>2, <2>3, <2>4, OneAtMost
  <2>6. QED
    BY <2>5
<1>8. ASSUME NEW p \in S, W(p).isa # None, W(p).steps = None
      PROVE  StepsOf(M[W(p).isa]) = <<>>
  <2> DEFINE q == W(p).isa
  <2>1. q \in S
    BY <1>6, <1>8
  <2>2. q # p
    <3>1. {p} \in SUBSET DOMAIN IsaOf(service) /\ {p} # {}
      BY <1>6
    <3>2. IsaOf(service)[p] \notin {p}
      BY <1>6, <3>1 DEF Founded
    <3>3. QED
      BY <1>6, <3>2
  <2>3. M[p].steps = M[q].steps
    BY <1>5, <1>8
  <2>4. StepsOf(M[p]) = StepsOf(M[q])
    BY <2>3 DEF StepsOf
  <2>5. DOMAIN StepsOf(M[q]) = {}
    BY <1>7, <2>1, <2>2, <2>4
  <2>6. StepsOf(M[q]) \in Seq(Listed)
    BY <1>4, <2>1
  <2>7. QED
    BY <2>5, <2>6
<1>9. \A p \in S : StepsOf(M[p]) = StepsOf(W(p))
  <2> TAKE p \in S
  <2>1. CASE W(p).isa = None \/ W(p).steps # None
    BY <1>5, <2>1 DEF StepsOf
  <2>2. CASE W(p).isa # None /\ W(p).steps = None
    <3>1. StepsOf(M[p]) = StepsOf(M[W(p).isa])
      BY <1>5, <2>2 DEF StepsOf
    <3>2. StepsOf(W(p)) = <<>>
      BY <2>2 DEF StepsOf
    <3>3. QED
      BY <1>8, <2>2, <3>1, <3>2
  <2>3. QED
    BY <2>1, <2>2
<1>10. \A p \in S : /\ ToSet(StepsOf(W(p))) \subseteq S
                    /\ Distinct(StepsOf(W(p)))
                    /\ W(p).steps = None /\ W(p).isa # None => StepsOf(W(W(p).isa)) = <<>>
  <2> TAKE p \in S
  <2>1. Distinct(StepsOf(W(p)))
    BY <1>7, <1>9 DEF Distinct
  <2>2. W(p).steps = None /\ W(p).isa # None => StepsOf(W(W(p).isa)) = <<>>
    BY <1>6, <1>8, <1>9
  <2>3. QED
    BY <1>3, <1>9, <2>1, <2>2
<1>11. \A p, q \in S : p # q => ToSet(StepsOf(W(p))) \cap ToSet(StepsOf(W(q))) = {}
  <2>1. ASSUME NEW p \in S, NEW q \in S, NEW x \in ToSet(StepsOf(M[p])), x \in ToSet(StepsOf(M[q]))
        PROVE  p = q
    BY <1>7, <2>1 DEF ToSet
  <2>2. QED
    BY <1>9, <2>1
<1>12. QED
  BY <1>1, <1>10, <1>11 DEF Laid, S, W

\* What is above a page where the steps are laid out.
LEMMA AboveLaid ==
  ASSUME NEW service, IsService(service), Laid(service), NEW x \in Ids(service)
  PROVE  /\ \A p \in Ids(service) : x \in ToSet(StepsOf(Winner(service, p))) =>
              Above(Merge(service), x) = p
         /\ (\A p \in Ids(service) : x \notin ToSet(StepsOf(Winner(service, p)))) =>
              Above(Merge(service), x) = Merge(service)[x].mount
<1> DEFINE M == Merge(service)
           S == Ids(service)
           W(p) == Winner(service, p)
<1>1. DOMAIN M = S /\ None \notin S
  <2>1. S \subseteq Names
    BY WinnerWritten
  <2>2. QED
    BY <2>1, MergeIs, NamesAssumption DEF Laid, Listed
<1>2. \A p \in S : StepsOf(M[p]) = StepsOf(W(p))
  BY OwnSteps
<1>3. \/ Parent(M, x) = None /\ StepPlaces(M, x) = {}
      \/ /\ Parent(M, x) \in S /\ Parent(M, x) # None
         /\ \E i \in DOMAIN StepsOf(M[Parent(M, x)]) : StepsOf(M[Parent(M, x)])[i] = x
  <2> HIDE DEF M, S
  <2>1. QED
    BY <1>1, ParentIs
<1>4. ASSUME NEW p \in S, x \in ToSet(StepsOf(W(p)))
      PROVE  Above(M, x) = p
  <2>1. PICK i \in DOMAIN StepsOf(M[p]) : StepsOf(M[p])[i] = x
    BY <1>2, <1>4 DEF ToSet
  <2>2. <<p, i>> \in StepPlaces(M, x)
    <3> HIDE DEF M, S
    <3>1. QED
      BY <1>1, <2>1, StepPlacesIs
  <2>3. Parent(M, x) \in S /\ Parent(M, x) # None /\ x \in ToSet(StepsOf(W(Parent(M, x))))
    BY <1>2, <1>3, <2>2 DEF ToSet
  <2>4. Parent(M, x) = p
    BY <1>4, <2>3 DEF Laid
  <2>5. QED
    BY <2>3, <2>4 DEF Above
<1>5. ASSUME \A p \in S : x \notin ToSet(StepsOf(W(p)))
      PROVE  Above(M, x) = M[x].mount
  <2>1. Parent(M, x) = None
    BY <1>2, <1>3, <1>5 DEF ToSet
  <2>2. QED
    BY <2>1 DEF Above
<1>6. QED
  BY <1>4, <1>5

\* A property that the instances of some files have alike, they have alike when merged.
LEMMA MergeSame ==
  ASSUME NEW s, IsService(s), IsaFound(s), NEW t, IsService(t), IsaFound(t), Ids(t) \subseteq Ids(s),
         NEW f \in DOMAIN Page,
         \A p \in Ids(t) : Winner(t, p).isa = Winner(s, p).isa /\ Winner(t, p)[f] = Winner(s, p)[f]
  PROVE  \A p \in Ids(t) : Merge(t)[p][f] = Merge(s)[p][f]
<1> DEFINE S == Ids(t)
           above == IsaOf(t)
           Good == {p \in S : Merge(t)[p][f] = Merge(s)[p][f]}
<1>1. Founded(above) /\ DOMAIN above = S /\ \A p \in S : above[p] = Winner(t, p).isa /\ above[p] \in S \cup {None}
  BY DEF IsaFound, IsaOf
<1>2. ASSUME NEW p \in S, above[p] \in S => above[p] \in Good
      PROVE  p \in Good
  <2>1. /\ Merge(t)[p] = IF above[p] = None THEN Winner(t, p) ELSE Inherit(Winner(t, p), Merge(t)[above[p]])
        /\ Merge(s)[p] = IF above[p] = None THEN Winner(s, p) ELSE Inherit(Winner(s, p), Merge(s)[above[p]])
    BY <1>1, MergeIs
  <2>2. DOMAIN Winner(t, p) = DOMAIN Page /\ DOMAIN Winner(s, p) = DOMAIN Page
    BY WinnerWritten DEF Written
  <2>3. CASE above[p] = None
    BY <2>1, <2>3
  <2>4. CASE above[p] # None
    <3>1. Merge(t)[above[p]][f] = Merge(s)[above[p]][f]
      BY <1>1, <1>2, <2>4
    <3>2. \A page, isa : DOMAIN page = DOMAIN Page =>
            Inherit(page, isa)[f] = IF f # "type" /\ page[f] = Page[f] THEN isa[f] ELSE page[f]
      BY DEF Inherit
    <3> HIDE DEF above
    <3>3. QED
      BY <2>1, <2>2, <2>4, <3>1, <3>2
  <2>5. QED
    BY <2>3, <2>4
<1>3. Good = S
  <2>1. Good \in SUBSET S
    OBVIOUS
  <2> HIDE DEF Good, above, S
  <2>2. QED
    BY <1>1, <1>2, <2>1, FoundedInduction
<1>4. QED
  BY <1>3

\* What a page gets above it makes no circle unless it is above the page that it gets.
LEMMA FoundedGraft ==
  ASSUME NEW above, Founded(above), NEW id \in DOMAIN above, NEW step \in DOMAIN above,
         step \notin Upward(above)[id],
         NEW more, DOMAIN more = DOMAIN above, more[step] = id,
         \A x \in DOMAIN above \ {step} : more[x] = above[x]
  PROVE  Founded(more)
<1> DEFINE up == Upward(above)[id]
<1>1. id \in up /\ up \subseteq DOMAIN above /\ \A x \in up : above[x] \in DOMAIN above => above[x] \in up
  BY UpwardIs
<1> HIDE DEF up
<1>2. SUFFICES ASSUME NEW S \in SUBSET DOMAIN above, S # {}, \A x \in S : more[x] \in S
               PROVE  FALSE
  BY DEF Founded
<1>3. S \cap up = {}
  <2>1. SUFFICES ASSUME S \cap up # {}
                 PROVE  FALSE
    OBVIOUS
  <2>2. PICK x \in S \cap up : above[x] \notin S \cap up
    BY <1>1, <2>1 DEF Founded
  <2>3. more[x] = above[x] /\ above[x] \in S
    BY <1>2 DEF up
  <2>4. QED
    BY <1>1, <2>2, <2>3
<1>4. step \notin S
  BY <1>1, <1>2, <1>3
<1>5. PICK x \in S : above[x] \notin S
  BY <1>2 DEF Founded
<1>6. QED
  BY <1>2, <1>4, <1>5

\* Files that differ in an instance, whose _isa and mount point are as they were.
Edited(s, t, id, page) ==
  /\ IsService(s) /\ IsService(t)
  /\ id \in Ids(s) /\ Ids(t) = Ids(s)
  /\ \A p \in Ids(s) : Winner(t, p) = IF p = id THEN page ELSE Winner(s, p)
  /\ page.isa = Winner(s, id).isa /\ page.mount = Winner(s, id).mount

LEMMA EditedIsa ==
  ASSUME NEW s, NEW t, NEW id, NEW page, Edited(s, t, id, page), IsaFound(s)
  PROVE  /\ IsaFound(t) /\ IsaOf(t) = IsaOf(s)
         /\ DOMAIN Merge(s) = Ids(s) /\ DOMAIN Merge(t) = Ids(s)
         /\ \A p \in Ids(s) : Winner(t, p).isa = Winner(s, p).isa
         /\ \A p \in Ids(s) : Merge(t)[p].mount = Merge(s)[p].mount
<1>1. IsService(s) /\ IsService(t) /\ Ids(t) = Ids(s)
      /\ \A p \in Ids(s) : Winner(t, p).isa = Winner(s, p).isa /\ Winner(t, p).mount = Winner(s, p).mount
  BY DEF Edited
<1>2. IsaOf(t) = IsaOf(s)
  BY <1>1 DEF IsaOf
<1>3. IsaFound(t)
  BY <1>1, <1>2 DEF IsaFound
<1>4. "mount" \in DOMAIN Page
  BY DEF Page
<1>5. \A p \in Ids(s) : Merge(t)[p]["mount"] = Merge(s)[p]["mount"]
  BY <1>1, <1>3, <1>4, MergeSame
<1>6. QED
  BY <1>1, <1>2, <1>3, <1>5, MergeIs

\* Repeatable pages keep a namespace, or get one.
KeepsName(page, other) ==
  \/ page.repeatable = other.repeatable /\ page.namespace = other.namespace
  \/ page.namespace # None

Named(service) ==
  \A p \in Ids(service) : Merge(service)[p].repeatable => Merge(service)[p].namespace # None

LEMMA EditedNamespaces ==
  ASSUME NEW s, NEW t, NEW id, NEW page, Edited(s, t, id, page), IsaFound(s),
         KeepsName(page, Winner(s, id)), Named(s)
  PROVE  Named(t)
<1> DEFINE S == Ids(s)
           above == IsaOf(s)
           M == Merge(s)
           N == Merge(t)
           W(p) == Winner(s, p)
           Good == {p \in S : /\ N[p].repeatable => N[p].namespace # None
                              /\ M[p].namespace # None => N[p].namespace # None}
<1>1. /\ IsService(s) /\ IsService(t) /\ Ids(t) = S /\ IsaFound(t) /\ IsaOf(t) = above
      /\ \A p \in S : Winner(t, p) = IF p = id THEN page ELSE W(p)
      /\ \A p \in S : Winner(t, p).isa = W(p).isa
  <2>1. IsService(s) /\ IsService(t) /\ Ids(t) = S
        /\ \A p \in S : Winner(t, p) = IF p = id THEN page ELSE W(p)
    BY DEF Edited
  <2>2. IsaFound(t) /\ IsaOf(t) = IsaOf(s) /\ \A p \in Ids(s) : Winner(t, p).isa = Winner(s, p).isa
    BY EditedIsa
  <2>3. QED
    BY <2>1, <2>2
<1>2. Founded(above) /\ DOMAIN above = S /\ \A p \in S : above[p] = W(p).isa /\ above[p] \in S \cup {None}
  BY DEF IsaFound, IsaOf
<1>3. ASSUME NEW p \in S, above[p] \in S => above[p] \in Good
      PROVE  p \in Good
  <2> DEFINE V == Winner(t, p)
             U == W(p)
  <2>1. /\ \A q \in S : Written(M[q])
        /\ M[p] = IF U.isa = None THEN U ELSE Inherit(U, M[U.isa])
    BY <1>1, MergeIs
  <2>2. /\ \A q \in S : Written(N[q])
        /\ N[p] = IF V.isa = None THEN V ELSE Inherit(V, N[V.isa])
    BY <1>1, MergeIs
  <2>3. above[p] = U.isa /\ V.isa = U.isa
    BY <1>1, <1>2
  <2>4. Written(U) /\ Written(V)
    BY <1>1, WinnerWritten
  <2>5. V = IF p = id THEN page ELSE U
    BY <1>1
  <2>6. KeepsName(V, U)
    <3>1. CASE p = id
      BY <2>5, <3>1
    <3>2. CASE p # id
      BY <2>5, <3>2 DEF KeepsName
    <3>3. QED
      BY <3>1, <3>2
  <2>7. M[p].repeatable => M[p].namespace # None
    BY DEF Named
  <2> HIDE DEF U, V, M, N, above, W
  <2>8. CASE above[p] = None
    BY <2>1, <2>2, <2>3, <2>6, <2>7, <2>8 DEF KeepsName
  <2>9. CASE above[p] # None
    <3> DEFINE q == above[p]
    <3>1. q \in S /\ q \in Good
      BY <1>2, <1>3, <2>9
    <3>2. /\ M[q].steps \in Seq(Listed) \cup {None} /\ M[q].repeatable \in BOOLEAN
          /\ N[q].steps \in Seq(Listed) \cup {None} /\ N[q].repeatable \in BOOLEAN
      BY <2>1, <2>2, <3>1 DEF Written
    <3>3. /\ M[p].repeatable = (U.repeatable \/ M[q].repeatable)
          /\ M[p].namespace = IF U.namespace = None THEN M[q].namespace ELSE U.namespace
      BY <2>1, <2>2, <2>3, <2>4, <2>9, <3>2, InheritIs
    <3>4. /\ N[p].repeatable = (V.repeatable \/ N[q].repeatable)
          /\ N[p].namespace = IF V.namespace = None THEN N[q].namespace ELSE V.namespace
      BY <2>1, <2>2, <2>3, <2>4, <2>9, <3>2, InheritIs
    <3>5. /\ N[q].repeatable => N[q].namespace # None
          /\ M[q].namespace # None => N[q].namespace # None
      BY <3>1
    <3>6. U.repeatable \in BOOLEAN /\ V.repeatable \in BOOLEAN
      BY <2>4 DEF Written
    <3> HIDE DEF q
    <3>7. (N[p].repeatable => N[p].namespace # None) /\ (M[p].namespace # None => N[p].namespace # None)
      BY <2>6, <2>7, <3>2, <3>3, <3>4, <3>5, <3>6 DEF KeepsName
    <3>8. QED
      BY <3>7
  <2>10. QED
    BY <2>8, <2>9
<1>4. Good = S
  <2>1. Good \in SUBSET S
    OBVIOUS
  <2> HIDE DEF Good, above, S
  <2>2. QED
    BY <1>2, <1>3, <2>1, FoundedInduction
<1>5. QED
  BY <1>1, <1>4 DEF Named

AboveOf(service) == [x \in Ids(service) |-> Above(Merge(service), x)]

LEMMA LoadsLaid ==
  ASSUME NEW service, IsService(service)
  PROVE  Loads(service) <=>
           /\ Laid(service)
           /\ \A x \in Ids(service) : Merge(service)[x].mount \in Ids(service) \cup {None}
           /\ Named(service)
           /\ Founded(AboveOf(service))
<1>1. ASSUME Laid(service)
      PROVE  DOMAIN Merge(service) = Ids(service)
  BY <1>1, MergeIs DEF Laid
<1>2. QED
  BY <1>1, LaidParents, ParentsLaid DEF Loads, Referring, AboveOf, Named

\* What is above the pages when the steps of an instance are changed.
LEMMA EditedAbove ==
  ASSUME NEW s, NEW t, NEW id, NEW page, Edited(s, t, id, page), Laid(s), Laid(t), NEW x \in Ids(s)
  PROVE  /\ x \in ToSet(StepsOf(page)) => AboveOf(t)[x] = id
         /\ x \in ToSet(StepsOf(Winner(s, id))) => AboveOf(s)[x] = id
         /\ x \notin ToSet(StepsOf(page)) /\ x \in ToSet(StepsOf(Winner(s, id))) =>
              AboveOf(t)[x] = Merge(s)[x].mount
         /\ x \notin ToSet(StepsOf(page)) /\ x \notin ToSet(StepsOf(Winner(s, id))) =>
              AboveOf(t)[x] = AboveOf(s)[x]
<1>1. /\ IsService(s) /\ IsService(t) /\ id \in Ids(s) /\ Ids(t) = Ids(s)
      /\ \A p \in Ids(s) : Winner(t, p) = IF p = id THEN page ELSE Winner(s, p)
  BY DEF Edited
<1>2. Merge(t)[x].mount = Merge(s)[x].mount
  BY EditedIsa DEF Laid
<1>3. /\ \A p \in Ids(s) : x \in ToSet(StepsOf(Winner(s, p))) => AboveOf(s)[x] = p
      /\ (\A p \in Ids(s) : x \notin ToSet(StepsOf(Winner(s, p)))) => AboveOf(s)[x] = Merge(s)[x].mount
  BY <1>1, AboveLaid DEF AboveOf
<1>4. /\ \A p \in Ids(s) : x \in ToSet(StepsOf(Winner(t, p))) => AboveOf(t)[x] = p
      /\ (\A p \in Ids(s) : x \notin ToSet(StepsOf(Winner(t, p)))) => AboveOf(t)[x] = Merge(t)[x].mount
  BY <1>1, AboveLaid DEF AboveOf
<1>5. x \in ToSet(StepsOf(page)) => AboveOf(t)[x] = id
  BY <1>1, <1>4
<1>6. x \in ToSet(StepsOf(Winner(s, id))) => AboveOf(s)[x] = id
  BY <1>1, <1>3
<1>7. \A p \in Ids(s) : p # id /\ x \in ToSet(StepsOf(Winner(s, id))) => x \notin ToSet(StepsOf(Winner(s, p)))
  BY <1>1 DEF Laid
<1>8. ASSUME x \notin ToSet(StepsOf(page)), x \in ToSet(StepsOf(Winner(s, id)))
      PROVE  AboveOf(t)[x] = Merge(s)[x].mount
  <2>1. \A p \in Ids(s) : x \notin ToSet(StepsOf(Winner(t, p)))
    BY <1>1, <1>7, <1>8
  <2>2. QED
    BY <1>2, <1>4, <2>1
<1>9. ASSUME x \notin ToSet(StepsOf(page)), x \notin ToSet(StepsOf(Winner(s, id)))
      PROVE  AboveOf(t)[x] = AboveOf(s)[x]
  <2>1. CASE \E p \in Ids(s) : x \in ToSet(StepsOf(Winner(s, p)))
    <3>1. PICK p \in Ids(s) : x \in ToSet(StepsOf(Winner(s, p)))
      BY <2>1
    <3>2. p # id
      BY <1>9, <3>1
    <3>3. x \in ToSet(StepsOf(Winner(t, p)))
      BY <1>1, <3>1, <3>2
    <3>4. QED
      BY <1>3, <1>4, <3>1, <3>3
  <2>2. CASE \A p \in Ids(s) : x \notin ToSet(StepsOf(Winner(s, p)))
    <3>1. \A p \in Ids(s) : x \notin ToSet(StepsOf(Winner(t, p)))
      BY <1>1, <1>9, <2>2
    <3>2. QED
      BY <1>2, <1>3, <1>4, <2>2, <3>1
  <2>3. QED
    BY <2>1, <2>2
<1>10. QED
  BY <1>5, <1>6, <1>8, <1>9

\* Files load after an edit when the steps are still laid out so and no page gets above itself.
LEMMA LoadsEdited ==
  ASSUME NEW s, NEW t, NEW id, NEW page, Edited(s, t, id, page), Loads(s), KeepsName(page, Winner(s, id)),
         Laid(s) => Laid(t), Laid(t) /\ Founded(AboveOf(s)) => Founded(AboveOf(t))
  PROVE  Loads(t)
<1>1. IsService(s) /\ IsService(t) /\ Ids(t) = Ids(s)
  BY DEF Edited
<1>2. /\ Laid(s) /\ Named(s) /\ Founded(AboveOf(s))
      /\ \A x \in Ids(s) : Merge(s)[x].mount \in Ids(s) \cup {None}
  BY <1>1, LoadsLaid
<1>3. IsaFound(s)
  BY <1>2 DEF Laid
<1>4. \A x \in Ids(t) : Merge(t)[x].mount \in Ids(t) \cup {None}
  <2>1. \A x \in Ids(s) : Merge(t)[x].mount = Merge(s)[x].mount
    BY <1>3, EditedIsa
  <2>2. QED
    BY <1>1, <1>2, <2>1
<1>5. Named(t)
  BY <1>2, <1>3, EditedNamespaces
<1>6. QED
  BY <1>1, <1>2, <1>4, <1>5, LoadsLaid

\* An edit that leaves the steps as they are.
LEMMA SameStepsLoad ==
  ASSUME NEW s, NEW t, NEW id, NEW page, Edited(s, t, id, page), Loads(s), KeepsName(page, Winner(s, id)),
         page.steps = Winner(s, id).steps
  PROVE  Loads(t)
<1>1. /\ IsService(s) /\ IsService(t) /\ id \in Ids(s) /\ Ids(t) = Ids(s)
      /\ \A p \in Ids(s) : Winner(t, p) = IF p = id THEN page ELSE Winner(s, p)
  BY DEF Edited
<1>2. \A p \in Ids(s) : Winner(t, p).steps = Winner(s, p).steps /\ StepsOf(Winner(t, p)) = StepsOf(Winner(s, p))
  BY <1>1 DEF StepsOf
<1>3. ASSUME Laid(s)
      PROVE  Laid(t)
  <2>1. IsaFound(t) /\ \A p \in Ids(s) : Winner(t, p).isa = Winner(s, p).isa
    BY <1>3, EditedIsa DEF Laid
  <2>2. \A p \in Ids(s) : Winner(s, p).isa \in Ids(s) \cup {None}
    BY <1>3 DEF Laid, IsaFound, IsaOf
  <2>3. QED
    BY <1>1, <1>2, <1>3, <2>1, <2>2 DEF Laid
<1>4. Laid(s)
  BY <1>1, LoadsLaid
<1>5. AboveOf(t) = AboveOf(s)
  <2>1. \A x \in Ids(s) : AboveOf(t)[x] = AboveOf(s)[x]
    <3>1. StepsOf(page) = StepsOf(Winner(s, id))
      BY DEF StepsOf
    <3>2. Laid(t)
      BY <1>3, <1>4
    <3>3. QED
      BY <1>4, <3>1, <3>2, EditedAbove
  <2>2. QED
    BY <1>1, <2>1 DEF AboveOf
<1>6. QED
  BY <1>3, <1>5, LoadsEdited

\* A step more, of a page that nothing extends and that is not below the step.
LEMMA MoreStepsLoad ==
  ASSUME NEW s, NEW t, NEW id, NEW page, Edited(s, t, id, page), Loads(s), KeepsName(page, Winner(s, id)),
         NEW step \in Ids(s), page.steps = Append(StepsOf(Winner(s, id)), step),
         \A p \in Ids(s) : Winner(s, p).isa # id /\ step \notin ToSet(StepsOf(Winner(s, p))),
         step \notin Upward(AboveOf(s))[id]
  PROVE  Loads(t)
<1> DEFINE old == StepsOf(Winner(s, id))
           new == StepsOf(page)
<1>1. /\ IsService(s) /\ IsService(t) /\ id \in Ids(s) /\ Ids(t) = Ids(s)
      /\ \A p \in Ids(s) : Winner(t, p) = IF p = id THEN page ELSE Winner(s, p)
  BY DEF Edited
<1>2. old \in Seq(Listed)
  BY <1>1, WinnerSteps
<1>3. step \in Listed
  BY <1>1, WinnerWritten DEF Listed
<1>4. page.steps # None /\ new = Append(old, step)
  <2>1. Append(old, step) \in Seq(Listed)
    BY <1>2, <1>3
  <2> HIDE DEF old
  <2>2. page.steps = Append(old, step)
    BY DEF old
  <2>3. QED
    BY <2>1, <2>2, NamesAssumption DEF StepsOf
<1> HIDE DEF old, new
<1>5. ToSet(new) = ToSet(old) \cup {step}
  BY <1>2, <1>4, AppendRange
<1>6. Laid(s) /\ Founded(AboveOf(s))
  BY <1>1, LoadsLaid
<1>7. /\ ToSet(old) \subseteq Ids(s) /\ Distinct(old) /\ step \notin ToSet(old)
      /\ \A p \in Ids(s) \ {id} : ToSet(old) \cap ToSet(StepsOf(Winner(s, p))) = {}
  BY <1>1, <1>6 DEF Laid, old
<1>8. Distinct(new)
  BY <1>2, <1>4, <1>7, AppendDistinct
<1>9. \A p \in Ids(s) \ {id} : ToSet(new) \cap ToSet(StepsOf(Winner(s, p))) = {}
  BY <1>5, <1>7
<1>10. StepsOf(Winner(t, id)) = new /\ Winner(t, id).steps # None
       /\ \A p \in Ids(s) \ {id} : Winner(t, p) = Winner(s, p)
  BY <1>1, <1>4 DEF new
<1>11. Laid(t)
  <2>1. IsaFound(t) /\ \A p \in Ids(s) : Winner(t, p).isa = Winner(s, p).isa
    BY <1>6, EditedIsa DEF Laid
  <2>2. \A p \in Ids(s) : ToSet(StepsOf(Winner(t, p))) \subseteq Ids(s) /\ Distinct(StepsOf(Winner(t, p)))
    BY <1>5, <1>6, <1>7, <1>8, <1>10 DEF Laid
  <2>3. ASSUME NEW p \in Ids(s), Winner(t, p).steps = None, Winner(t, p).isa # None
        PROVE  StepsOf(Winner(t, Winner(t, p).isa)) = <<>>
    <3>1. p # id /\ Winner(s, p).isa \in Ids(s) \ {id}
      BY <1>6, <1>10, <2>1, <2>3 DEF Laid, IsaFound, IsaOf
    <3>2. QED
      BY <1>6, <1>10, <2>3, <3>1 DEF Laid
  <2>4. \A p, q \in Ids(s) : p # q => ToSet(StepsOf(Winner(t, p))) \cap ToSet(StepsOf(Winner(t, q))) = {}
    <3>1. \A p, q \in Ids(s) \ {id} : p # q => ToSet(StepsOf(Winner(s, p))) \cap ToSet(StepsOf(Winner(s, q))) = {}
      BY <1>6 DEF Laid
    <3>2. QED
      BY <1>9, <1>10, <3>1
  <2>5. QED
    BY <1>1, <2>1, <2>2, <2>3, <2>4 DEF Laid
<1>12. AboveOf(t)[step] = id
       /\ \A x \in Ids(s) \ {step} : AboveOf(t)[x] = AboveOf(s)[x]
  <2>1. AboveOf(t)[step] = id
    BY <1>5, <1>6, <1>11, EditedAbove DEF new
  <2>2. ASSUME NEW x \in Ids(s) \ {step}
        PROVE  AboveOf(t)[x] = AboveOf(s)[x]
    <3>1. x \in ToSet(new) <=> x \in ToSet(old)
      BY <1>5
    <3>2. QED
      BY <1>6, <1>11, <3>1, EditedAbove DEF new, old
  <2>3. QED
    BY <2>1, <2>2
<1>13. Founded(AboveOf(t))
  <2>1. DOMAIN AboveOf(s) = Ids(s) /\ DOMAIN AboveOf(t) = Ids(s)
    BY <1>1 DEF AboveOf
  <2>2. QED
    BY <1>1, <1>6, <1>12, <2>1, FoundedGraft
<1>14. QED
  BY <1>11, <1>13, LoadsEdited

\* Fewer steps, where none that goes is mounted.
LEMMA FewerStepsLoad ==
  ASSUME NEW s, NEW t, NEW id, NEW page, Edited(s, t, id, page), Loads(s), KeepsName(page, Winner(s, id)),
         page.steps # None, ToSet(StepsOf(page)) \subseteq ToSet(StepsOf(Winner(s, id))), Distinct(StepsOf(page)),
         StepsOf(Winner(s, id)) # <<>>,
         \A step \in ToSet(StepsOf(Winner(s, id))) : Merge(s)[step].mount = None
  PROVE  Loads(t)
<1> DEFINE old == StepsOf(Winner(s, id))
           new == StepsOf(page)
<1>1. /\ IsService(s) /\ IsService(t) /\ id \in Ids(s) /\ Ids(t) = Ids(s)
      /\ \A p \in Ids(s) : Winner(t, p) = IF p = id THEN page ELSE Winner(s, p)
  BY DEF Edited
<1>2. Laid(s) /\ Founded(AboveOf(s)) /\ None \notin Ids(s)
  BY <1>1, LoadsLaid, LoadsIs
<1>3. /\ ToSet(new) \subseteq ToSet(old) /\ Distinct(new) /\ ToSet(old) \subseteq Ids(s) /\ old # <<>>
      /\ \A p \in Ids(s) \ {id} : ToSet(old) \cap ToSet(StepsOf(Winner(s, p))) = {}
  BY <1>1, <1>2 DEF Laid
<1> HIDE DEF old, new
<1>4. StepsOf(Winner(t, id)) = new /\ Winner(t, id).steps # None
      /\ \A p \in Ids(s) \ {id} : Winner(t, p) = Winner(s, p)
  BY <1>1 DEF new
<1>5. Laid(t)
  <2>1. IsaFound(t) /\ \A p \in Ids(s) : Winner(t, p).isa = Winner(s, p).isa
    BY <1>2, EditedIsa DEF Laid
  <2>2. \A p \in Ids(s) : ToSet(StepsOf(Winner(t, p))) \subseteq Ids(s) /\ Distinct(StepsOf(Winner(t, p)))
    BY <1>2, <1>3, <1>4 DEF Laid
  <2>3. ASSUME NEW p \in Ids(s), Winner(t, p).steps = None, Winner(t, p).isa # None
        PROVE  StepsOf(Winner(t, Winner(t, p).isa)) = <<>>
    <3>1. p # id /\ Winner(s, p).isa \in Ids(s)
      BY <1>2, <1>4, <2>1, <2>3 DEF Laid, IsaFound, IsaOf
    <3>2. StepsOf(Winner(s, Winner(s, p).isa)) = <<>>
      BY <1>2, <1>4, <2>3, <3>1 DEF Laid
    <3>3. Winner(s, p).isa # id
      BY <1>3, <3>2 DEF old
    <3>4. QED
      BY <1>4, <3>1, <3>2, <3>3
  <2>4. \A p, q \in Ids(s) : p # q => ToSet(StepsOf(Winner(t, p))) \cap ToSet(StepsOf(Winner(t, q))) = {}
    <3>1. \A p, q \in Ids(s) \ {id} : p # q => ToSet(StepsOf(Winner(s, p))) \cap ToSet(StepsOf(Winner(s, q))) = {}
      BY <1>2 DEF Laid
    <3>2. QED
      BY <1>3, <1>4, <3>1
  <2>5. QED
    BY <1>1, <2>1, <2>2, <2>3, <2>4 DEF Laid
<1>6. Founded(AboveOf(t))
  <2>1. DOMAIN AboveOf(s) = Ids(s) /\ DOMAIN AboveOf(t) = Ids(s)
    BY <1>1 DEF AboveOf
  <2>2. ASSUME NEW x \in Ids(s)
        PROVE  AboveOf(t)[x] = AboveOf(s)[x] \/ AboveOf(t)[x] \notin Ids(s)
    <3>1. CASE x \in ToSet(new)
      BY <1>2, <1>3, <1>5, <3>1, EditedAbove DEF new, old
    <3>2. CASE x \notin ToSet(new) /\ x \in ToSet(old)
      BY <1>2, <1>5, <3>2, EditedAbove DEF new, old
    <3>3. CASE x \notin ToSet(new) /\ x \notin ToSet(old)
      BY <1>2, <1>5, <3>3, EditedAbove DEF new, old
    <3>4. QED
      BY <3>1, <3>2, <3>3
  <2>3. QED
    BY <1>2, <2>1, <2>2, FoundedLess
<1>7. QED
  BY <1>5, <1>6, LoadsEdited

\* Files of which one has a page more than the other, that nothing refers to.
Larger(s, t, id) ==
  /\ IsService(s) /\ IsService(t)
  /\ id \notin Ids(s) /\ Ids(t) = Ids(s) \cup {id}
  /\ \A p \in Ids(s) : Winner(t, p) = Winner(s, p)
  /\ \A p \in Ids(s) : /\ Winner(s, p).isa # id /\ Winner(s, p).mount # id
                       /\ id \notin ToSet(StepsOf(Winner(s, p)))

LEMMA LargerMerge ==
  ASSUME NEW s, NEW t, NEW id, Larger(s, t, id), IsaFound(s), IsaFound(t)
  PROVE  \A p \in Ids(s) : /\ Merge(t)[p].mount = Merge(s)[p].mount
                           /\ Merge(t)[p].repeatable = Merge(s)[p].repeatable
                           /\ Merge(t)[p].namespace = Merge(s)[p].namespace
<1>1. /\ IsService(s) /\ IsService(t) /\ Ids(s) \subseteq Ids(t)
      /\ \A p \in Ids(s) : Winner(t, p) = Winner(s, p)
  BY DEF Larger
<1>2. "mount" \in DOMAIN Page /\ "repeatable" \in DOMAIN Page /\ "namespace" \in DOMAIN Page
  BY DEF Page
<1>3. ASSUME NEW f \in DOMAIN Page
      PROVE  \A p \in Ids(s) : Merge(s)[p][f] = Merge(t)[p][f]
  BY <1>1, MergeSame
<1>4. QED
  BY <1>2, <1>3

LEMMA LargerAbove ==
  ASSUME NEW s, NEW t, NEW id, Larger(s, t, id), Laid(s), Laid(t), NEW x \in Ids(s)
  PROVE  \/ AboveOf(t)[x] = AboveOf(s)[x]
         \/ /\ x \in ToSet(StepsOf(Winner(t, id)))
            /\ AboveOf(s)[x] = Merge(s)[x].mount
<1>1. /\ IsService(s) /\ IsService(t) /\ Ids(t) = Ids(s) \cup {id}
      /\ \A p \in Ids(s) : Winner(t, p) = Winner(s, p)
  BY DEF Larger
<1>2. Merge(t)[x].mount = Merge(s)[x].mount
  BY LargerMerge DEF Laid
<1>3. /\ \A p \in Ids(s) : x \in ToSet(StepsOf(Winner(s, p))) => AboveOf(s)[x] = p
      /\ (\A p \in Ids(s) : x \notin ToSet(StepsOf(Winner(s, p)))) => AboveOf(s)[x] = Merge(s)[x].mount
  BY <1>1, AboveLaid DEF AboveOf
<1>4. /\ \A p \in Ids(t) : x \in ToSet(StepsOf(Winner(t, p))) => AboveOf(t)[x] = p
      /\ (\A p \in Ids(t) : x \notin ToSet(StepsOf(Winner(t, p)))) => AboveOf(t)[x] = Merge(t)[x].mount
  BY <1>1, AboveLaid DEF AboveOf
<1>5. CASE \E p \in Ids(s) : x \in ToSet(StepsOf(Winner(s, p)))
  <2>1. PICK p \in Ids(s) : x \in ToSet(StepsOf(Winner(s, p)))
    BY <1>5
  <2>2. x \in ToSet(StepsOf(Winner(t, p))) /\ p \in Ids(t)
    BY <1>1, <2>1
  <2>3. QED
    BY <1>3, <1>4, <2>1, <2>2
<1>6. CASE \A p \in Ids(s) : x \notin ToSet(StepsOf(Winner(s, p)))
  <2>1. CASE x \in ToSet(StepsOf(Winner(t, id)))
    BY <1>3, <1>6, <2>1
  <2>2. CASE x \notin ToSet(StepsOf(Winner(t, id)))
    <3>1. \A p \in Ids(t) : x \notin ToSet(StepsOf(Winner(t, p)))
      BY <1>1, <1>6, <2>2
    <3>2. QED
      BY <1>2, <1>3, <1>4, <1>6, <3>1
  <2>3. QED
    BY <2>1, <2>2
<1>7. QED
  BY <1>5, <1>6

\* A page that is created.
LEMMA CreatedLoads ==
  ASSUME NEW s, NEW t, NEW id, Larger(s, t, id), Loads(s), NEW page, Winner(t, id) = page,
         page.isa = None, page.mount = None, page.steps = None, page.repeatable = FALSE
  PROVE  Loads(t)
<1>1. /\ IsService(s) /\ IsService(t) /\ id \notin Ids(s) /\ Ids(t) = Ids(s) \cup {id}
      /\ \A p \in Ids(s) : Winner(t, p) = Winner(s, p)
  BY DEF Larger
<1>2. /\ Laid(s) /\ Named(s) /\ Founded(AboveOf(s)) /\ IsaFound(s)
      /\ \A x \in Ids(s) : Merge(s)[x].mount \in Ids(s) \cup {None}
  BY <1>1, LoadsLaid DEF Laid
<1>3. page.isa = None /\ page.steps = None /\ StepsOf(page) = <<>> /\ page.mount = None /\ page.repeatable = FALSE
  BY DEF StepsOf
<1>4. Ids(t) \subseteq Names /\ None \notin Ids(t)
  <2>1. Ids(t) \subseteq Names
    BY <1>1, WinnerWritten
  <2>2. QED
    BY <2>1, NamesAssumption DEF Listed
<1>5. IsaFound(t)
  <2>1. /\ DOMAIN IsaOf(s) = Ids(s) /\ DOMAIN IsaOf(t) = Ids(t)
        /\ \A p \in Ids(s) : IsaOf(t)[p] = IsaOf(s)[p] /\ IsaOf(s)[p] \in Ids(s) \cup {None}
        /\ IsaOf(t)[id] = None /\ Founded(IsaOf(s))
    BY <1>1, <1>2, <1>3 DEF IsaOf, IsaFound
  <2>2. Founded(IsaOf(t))
    BY <1>1, <1>4, <2>1, FoundedMore
  <2>3. QED
    BY <1>1, <2>1, <2>2 DEF IsaFound
<1>6. Laid(t)
  <2>1. \A p \in Ids(t) : p \in Ids(s) \/ Winner(t, p) = page
    BY <1>1
  <2>2. ToSet(<<>>) = {} /\ Distinct(<<>>)
    BY DEF ToSet, Distinct
  <2>3. \A p \in Ids(t) : ToSet(StepsOf(Winner(t, p))) \subseteq Ids(t) /\ Distinct(StepsOf(Winner(t, p)))
    BY <1>1, <1>2, <1>3, <2>1, <2>2 DEF Laid
  <2>4. ASSUME NEW p \in Ids(t), Winner(t, p).steps = None, Winner(t, p).isa # None
        PROVE  StepsOf(Winner(t, Winner(t, p).isa)) = <<>>
    <3>1. p \in Ids(s) /\ Winner(s, p).isa \in Ids(s)
      BY <1>1, <1>2, <1>3, <2>1, <2>4 DEF IsaFound, IsaOf
    <3>2. QED
      BY <1>1, <1>2, <2>4, <3>1 DEF Laid
  <2>5. \A p, q \in Ids(t) : p # q => ToSet(StepsOf(Winner(t, p))) \cap ToSet(StepsOf(Winner(t, q))) = {}
    <3>1. \A p, q \in Ids(s) : p # q => ToSet(StepsOf(Winner(s, p))) \cap ToSet(StepsOf(Winner(s, q))) = {}
      BY <1>2 DEF Laid
    <3>2. \A p \in Ids(t) \ Ids(s) : ToSet(StepsOf(Winner(t, p))) = {}
      BY <1>3, <2>1, <2>2
    <3>3. QED
      BY <1>1, <3>1, <3>2
  <2>6. QED
    BY <1>5, <2>3, <2>4, <2>5 DEF Laid
<1>7. Merge(t)[id] = page
  BY <1>1, <1>3, <1>5, MergeIs
<1>8. \A p \in Ids(s) : /\ Merge(t)[p].mount = Merge(s)[p].mount
                        /\ Merge(t)[p].repeatable = Merge(s)[p].repeatable
                        /\ Merge(t)[p].namespace = Merge(s)[p].namespace
  BY <1>2, <1>5, LargerMerge
<1>9. Founded(AboveOf(t))
  <2>1. DOMAIN AboveOf(s) = Ids(s) /\ DOMAIN AboveOf(t) = Ids(t)
    BY DEF AboveOf
  <2>2. ToSet(StepsOf(Winner(t, id))) = {}
    BY <1>3 DEF ToSet
  <2>3. \A x \in Ids(s) : AboveOf(t)[x] = AboveOf(s)[x]
    BY <1>2, <1>6, <2>2, LargerAbove
  <2>4. AboveOf(t)[id] = None
    <3>1. \A p \in Ids(t) : id \notin ToSet(StepsOf(Winner(t, p)))
      BY <1>1, <2>2 DEF Larger
    <3>2. id \in Ids(t)
      BY <1>1
    <3>3. Above(Merge(t), id) = Merge(t)[id].mount
      BY <1>1, <1>6, <3>1, <3>2, AboveLaid
    <3>4. QED
      BY <1>3, <1>7, <3>2, <3>3 DEF AboveOf
  <2>5. \A x \in Ids(s) : AboveOf(s)[x] # id
    <3>1. ASSUME NEW x \in Ids(s)
          PROVE  AboveOf(s)[x] \in Ids(s) \cup {None}
      <4>1. /\ \A p \in Ids(s) : x \in ToSet(StepsOf(Winner(s, p))) => AboveOf(s)[x] = p
            /\ (\A p \in Ids(s) : x \notin ToSet(StepsOf(Winner(s, p)))) => AboveOf(s)[x] = Merge(s)[x].mount
        BY <1>1, <1>2, AboveLaid DEF AboveOf
      <4>2. QED
        BY <1>2, <4>1
    <3>2. QED
      BY <1>1, <1>4, <3>1
  <2>6. QED
    BY <1>1, <1>2, <1>4, <2>1, <2>3, <2>4, <2>5, FoundedMore
<1>10. Named(t)
  <2>1. ~Merge(t)[id].repeatable
    BY <1>3, <1>7
  <2>2. QED
    BY <1>1, <1>2, <1>8, <2>1 DEF Named
<1>11. \A x \in Ids(t) : Merge(t)[x].mount \in Ids(t) \cup {None}
  BY <1>1, <1>2, <1>3, <1>7, <1>8
<1>12. QED
  BY <1>1, <1>6, <1>9, <1>10, <1>11, LoadsLaid

\* A page that is deleted.
LEMMA DeletedLoads ==
  ASSUME NEW s, NEW t, NEW id, Larger(t, s, id), Loads(s),
         Winner(s, id).isa # id, Winner(s, id).mount # id, id \notin ToSet(StepsOf(Winner(s, id))),
         \A step \in ToSet(StepsOf(Winner(s, id))) : Merge(s)[step].mount = None
  PROVE  Loads(t)
<1>1. /\ IsService(s) /\ IsService(t) /\ id \notin Ids(t) /\ Ids(s) = Ids(t) \cup {id}
      /\ \A p \in Ids(t) : Winner(s, p) = Winner(t, p)
      /\ \A p \in Ids(s) : /\ Winner(s, p).isa # id /\ Winner(s, p).mount # id
                           /\ id \notin ToSet(StepsOf(Winner(s, p)))
  BY DEF Larger
<1>2. /\ Laid(s) /\ Named(s) /\ Founded(AboveOf(s)) /\ IsaFound(s) /\ None \notin Ids(s)
      /\ \A x \in Ids(s) : Merge(s)[x].mount \in Ids(s) \cup {None}
  BY <1>1, LoadsLaid, LoadsIs DEF Laid
<1>3. IsaFound(t)
  <2>1. /\ DOMAIN IsaOf(s) = Ids(s) /\ DOMAIN IsaOf(t) = Ids(t)
        /\ \A p \in Ids(t) : IsaOf(t)[p] = IsaOf(s)[p] /\ IsaOf(t)[p] \in Ids(t) \cup {None}
        /\ Founded(IsaOf(s))
    BY <1>1, <1>2 DEF IsaOf, IsaFound
  <2>2. Founded(IsaOf(t))
    BY <1>1, <2>1, FoundedLess
  <2>3. QED
    BY <2>1, <2>2 DEF IsaFound
<1>4. Laid(t)
  <2>1. \A p \in Ids(t) : ToSet(StepsOf(Winner(t, p))) \subseteq Ids(t) /\ Distinct(StepsOf(Winner(t, p)))
    BY <1>1, <1>2 DEF Laid
  <2>2. ASSUME NEW p \in Ids(t), Winner(t, p).steps = None, Winner(t, p).isa # None
        PROVE  StepsOf(Winner(t, Winner(t, p).isa)) = <<>>
    <3>1. Winner(t, p).isa \in Ids(t)
      BY <1>3, <2>2 DEF IsaFound, IsaOf
    <3>2. QED
      BY <1>1, <1>2, <2>2, <3>1 DEF Laid
  <2>3. \A p, q \in Ids(t) : p # q => ToSet(StepsOf(Winner(t, p))) \cap ToSet(StepsOf(Winner(t, q))) = {}
    BY <1>1, <1>2 DEF Laid
  <2>4. QED
    BY <1>3, <2>1, <2>2, <2>3 DEF Laid
<1>5. \A p \in Ids(t) : /\ Merge(s)[p].mount = Merge(t)[p].mount
                        /\ Merge(s)[p].repeatable = Merge(t)[p].repeatable
                        /\ Merge(s)[p].namespace = Merge(t)[p].namespace
  BY <1>2, <1>3, LargerMerge
<1>6. \A p \in Ids(s) : Merge(s)[p].mount # id
  <2> DEFINE above == IsaOf(s)
             Good == {p \in Ids(s) : Merge(s)[p].mount # id}
  <2>1. Founded(above) /\ DOMAIN above = Ids(s)
        /\ \A p \in Ids(s) : above[p] = Winner(s, p).isa /\ above[p] \in Ids(s) \cup {None}
    BY <1>2 DEF IsaFound, IsaOf
  <2>2. ASSUME NEW p \in Ids(s), above[p] \in Ids(s) => above[p] \in Good
        PROVE  p \in Good
    <3>1. Merge(s)[p] = IF Winner(s, p).isa = None THEN Winner(s, p) ELSE Inherit(Winner(s, p), Merge(s)[Winner(s, p).isa])
      BY <1>1, <1>2, MergeIs
    <3>2. CASE above[p] = None
      BY <1>1, <2>1, <3>1, <3>2
    <3>3. CASE above[p] # None
      <4> DEFINE q == above[p]
      <4>1. q \in Ids(s) /\ Merge(s)[q].mount # id
        BY <2>1, <2>2, <3>3
      <4>2. Merge(s)[q].steps \in Seq(Listed) \cup {None} /\ Merge(s)[q].repeatable \in BOOLEAN
        BY <1>1, <1>2, <4>1, MergeIs DEF Written
      <4>3. Written(Winner(s, p))
        BY <1>1, WinnerWritten
      <4>4. Merge(s)[p] = Inherit(Winner(s, p), Merge(s)[q])
        BY <2>1, <3>1, <3>3
      <4> HIDE DEF q
      <4>5. Merge(s)[p].mount = IF Winner(s, p).mount = None THEN Merge(s)[q].mount ELSE Winner(s, p).mount
        BY <4>2, <4>3, <4>4, InheritIs
      <4>6. QED
        BY <1>1, <4>1, <4>5
    <3>4. QED
      BY <3>2, <3>3
  <2>3. Good = Ids(s)
    <3>1. Good \in SUBSET Ids(s)
      OBVIOUS
    <3> HIDE DEF Good, above
    <3>2. QED
      BY <2>1, <2>2, <3>1, FoundedInduction
  <2>4. QED
    BY <2>3
<1>7. \A x \in Ids(t) : Merge(t)[x].mount \in Ids(t) \cup {None}
  BY <1>1, <1>2, <1>5, <1>6
<1>8. Named(t)
  BY <1>1, <1>2, <1>5 DEF Named
<1>9. Founded(AboveOf(t))
  <2>1. DOMAIN AboveOf(s) = Ids(s) /\ DOMAIN AboveOf(t) = Ids(t)
    BY DEF AboveOf
  <2>2. ASSUME NEW x \in Ids(t)
        PROVE  AboveOf(t)[x] = AboveOf(s)[x] \/ AboveOf(t)[x] \notin Ids(t)
    <3>1. \/ AboveOf(s)[x] = AboveOf(t)[x]
          \/ x \in ToSet(StepsOf(Winner(s, id))) /\ AboveOf(t)[x] = Merge(t)[x].mount
      BY <1>2, <1>4, LargerAbove
    <3>2. QED
      BY <1>1, <1>2, <1>5, <3>1
  <2>3. QED
    BY <1>1, <1>2, <2>1, <2>2, FoundedLess
<1>10. QED
  BY <1>1, <1>4, <1>7, <1>8, <1>9, LoadsLaid

-----------------------------------------------------------------------------
(* What the process knows of the files *)

\* What a process that has loaded a service goes by.
Knows(running, service) ==
  /\ Has(running) = Ids(service)
  /\ \A id \in Ids(service) :
       /\ running.source[id] = SourceOf(service, id)
       /\ service[running.source[id]][id] = Winner(service, id)
       /\ ToSet(running.steps[id]) \cap Names = ToSet(StepsOf(Winner(service, id)))
       /\ ToSet(StepsOf(Winner(service, id))) \subseteq Ids(service)
       /\ Only(StepsOf(Winner(service, id)), ToSet(running.steps[id]) \cap Names) =
            Only(running.steps[id], Names)

LEMMA RunningIs ==
  ASSUME NEW service, IsService(service), Parented(service), NEW before, before \subseteq Names, edits \in Nat,
         NEW running, running = Runtime(service, before)
  PROVE  Knows(running, service)
<1> DEFINE pages == Merge(service)
<1>1. Has(running) = Ids(service)
      /\ \A id \in Ids(service) :
           running.source[id] = SourceOf(service, id) /\ running.steps[id] = InjectedSteps(pages, id)
  BY RuntimeIs
<1>2. DOMAIN pages = Ids(service) /\ \A id \in Ids(service) : StepsOf(pages[id]) \in Seq(Ids(service))
  BY ParentedIs
<1>3. \A id \in Ids(service) : StepsOf(pages[id]) = StepsOf(Winner(service, id))
  BY ParentsLaid, OwnSteps
<1>4. Ids(service) \subseteq Names /\ \A id \in Ids(service) : service[SourceOf(service, id)][id] = Winner(service, id)
  BY WinnerWritten, WinnerIs
<1> HIDE DEF pages
<1>5. ASSUME NEW id \in Ids(service)
      PROVE  /\ ToSet(running.steps[id]) \cap Names = ToSet(StepsOf(Winner(service, id)))
             /\ ToSet(StepsOf(Winner(service, id))) \subseteq Ids(service)
             /\ Only(StepsOf(Winner(service, id)), ToSet(running.steps[id]) \cap Names) = Only(running.steps[id], Names)
  <2> DEFINE steps == StepsOf(pages[id])
  <2>1. steps \in Seq(DOMAIN pages) /\ DOMAIN pages \subseteq Names /\ id \in DOMAIN pages
    BY <1>2, <1>4
  <2>2. /\ ToSet(InjectedSteps(pages, id)) \cap Names = ToSet(steps)
        /\ Only(InjectedSteps(pages, id), Names) = steps
    BY <2>1, InjectedIs, InjectedOnly
  <2>3. ToSet(steps) \subseteq Ids(service)
    BY <1>2, <2>1 DEF ToSet
  <2>4. Only(steps, ToSet(steps)) = steps
    <3> HIDE DEF steps
    <3>1. QED
      BY <2>1, OnlyLen
  <2>5. steps = StepsOf(Winner(service, id)) /\ running.steps[id] = InjectedSteps(pages, id)
    BY <1>1, <1>3
  <2> HIDE DEF steps
  <2>6. QED
    BY <2>2, <2>3, <2>4, <2>5
<1>6. QED
  BY <1>1, <1>4, <1>5 DEF Knows

\* A load succeeds, and the process has what it has loaded, or it has what it had, or none.
LEMMA LoadIs ==
  ASSUME TypeOK, Restart \/ Reload
  PROVE  /\ UNCHANGED <<files, edits, intended, undone, careless>>
         /\ doomed' \in {None, doomed}
         /\ \/ /\ Parented(files) /\ memory' = files
               /\ \E before \in SUBSET Names : runtime' = Runtime(files, before)
            \/ memory' = memory /\ runtime' \in {None, runtime}
<1>1. seen \in SUBSET Names /\ {} \in SUBSET Names
  BY DEF TypeOK
<1>2. CASE Restart
  BY <1>1, <1>2, LoadsIs DEF Restart, TypeOK
<1>3. CASE Reload
  BY <1>1, <1>3 DEF Reload, LoadsAgain
<1>4. QED
  BY <1>2, <1>3

\* A service that loads when the process starts also loads later.
LEMMA LoadsStill ==
  ASSUME NEW service, Loads(service), NEW before
  PROVE  LoadsAgain(service, before)
<1> DEFINE above == [id \in DOMAIN Merge(service) |-> Above(Merge(service), id)]
<1>1. Parented(service) /\ Referring(Merge(service)) /\ Founded(above)
  BY DEF Loads
<1>2. ASSUME NEW circle \in SUBSET DOMAIN above, \A id \in circle : above[id] \in circle
      PROVE  circle = {}
  <2> HIDE DEF above
  <2>1. QED
    BY <1>1, <1>2 DEF Founded
<1>3. QED
  BY <1>1, <1>2 DEF LoadsAgain

\* Instances that differ in their show condition at most.
Alike(page, other) == \A f \in DOMAIN Page \ {"show"} : page[f] = other[f]

\* Of a page that has a file, the process has what is in it, but for a condition that
\* setInstance has put there.  The steps that the process goes by are pages that it has, or
\* summaries, and the pages are steps that the instance has, in its order.
Known ==
  runtime # None =>
    \A id \in Loaded :
      /\ id \in DOMAIN files[Service] \ DOMAIN files[Modules] => Alike(SourceInstance(id), files[Service][id])
      /\ ToSet(runtime.steps[id]) \cap Names \subseteq Loaded
      /\ Only(StepsOf(SourceInstance(id)), ToSet(runtime.steps[id]) \cap Names) = Only(runtime.steps[id], Names)

\* What the process knows after an edit.
LEMMA EditKnown ==
  ASSUME TypeOK, Known, runtime # None, NEW id \in Loaded, NEW page, Written(page), Write(id, page),
         runtime'.source = runtime.source,
         \A p \in Loaded \ {id} : runtime'.steps[p] = runtime.steps[p],
         ToSet(runtime'.steps[id]) \subseteq ToSet(runtime.steps[id]),
         Only(StepsOf(page), ToSet(runtime'.steps[id]) \cap Names) = Only(runtime'.steps[id], Names)
  PROVE  Known'
<1>1. /\ files'[Service] = Gets(files[Service], id, page)
      /\ files'[Modules] = files[Modules]
      /\ \A i \in {1, 2, 3} : \A p \in DOMAIN memory[i] :
           memory'[i][p] = IF i = runtime.source[id] /\ p = id THEN page ELSE memory[i][p]
  BY WriteIs
<1>2. \A p \in Loaded : runtime.source[p] \in {1, 2, 3} /\ p \in DOMAIN memory[runtime.source[p]]
  BY LoadedIs
<1>3. Loaded' = Loaded
  BY DEF Loaded
<1>4. /\ DOMAIN files'[Service] = DOMAIN files[Service] \cup {id}
      /\ files'[Service][id] = page
      /\ \A p \in DOMAIN files[Service] \ {id} : files'[Service][p] = files[Service][p]
  BY <1>1 DEF Gets
<1>5. \A p \in Loaded : SourceInstance(p)' = IF p = id THEN page ELSE SourceInstance(p)
  BY <1>1, <1>2 DEF SourceInstance
<1>6. ASSUME NEW p \in Loaded
      PROVE  /\ p \in DOMAIN files'[Service] \ DOMAIN files'[Modules] => Alike(SourceInstance(p)', files'[Service][p])
             /\ ToSet(runtime'.steps[p]) \cap Names \subseteq Loaded
             /\ Only(StepsOf(SourceInstance(p)'), ToSet(runtime'.steps[p]) \cap Names) = Only(runtime'.steps[p], Names)
  <2>1. CASE p = id
    <3>1. Alike(page, page)
      BY DEF Alike
    <3>2. ToSet(runtime.steps[id]) \cap Names \subseteq Loaded
      BY DEF Known
    <3>3. QED
      BY <1>4, <1>5, <2>1, <3>1, <3>2
  <2>2. CASE p # id
    <3>1. SourceInstance(p)' = SourceInstance(p) /\ runtime'.steps[p] = runtime.steps[p]
      BY <1>5, <2>2
    <3>2. p \in DOMAIN files'[Service] => p \in DOMAIN files[Service] /\ files'[Service][p] = files[Service][p]
      BY <1>4, <2>2
    <3>3. /\ p \in DOMAIN files[Service] \ DOMAIN files[Modules] => Alike(SourceInstance(p), files[Service][p])
          /\ ToSet(runtime.steps[p]) \cap Names \subseteq Loaded
          /\ Only(StepsOf(SourceInstance(p)), ToSet(runtime.steps[p]) \cap Names) = Only(runtime.steps[p], Names)
      BY DEF Known
    <3>4. QED
      BY <1>1, <3>1, <3>2, <3>3
  <2>3. QED
    BY <2>1, <2>2
<1>7. QED
  BY <1>3, <1>6 DEF Known

\* The namespace that a page is given.
LEMMA AutoNamespaceIs ==
  ASSUME TypeOK, runtime # None, NEW id \in Loaded
  PROVE  AutoNamespace(id) # None
<1> DEFINE f == [p \in Loaded |-> runtime.namespace[p]]
           taken == {runtime.namespace[p] : p \in Loaded}
           k == Cardinality(taken)
           Free(n) == n \notin taken /\ \A m \in 1..(n - 1) : m \in taken
<1>1. IsFiniteSet(taken)
  <2>1. IsFiniteSet(Loaded)
    BY LoadedIs DEF TypeOK, Running
  <2>2. {f[p] : p \in DOMAIN f} = taken
    OBVIOUS
  <2>3. IsFiniteSet({f[p] : p \in DOMAIN f})
    <3>1. IsFiniteSet(DOMAIN f)
      BY <2>1
    <3> HIDE DEF f
    <3>2. QED
      BY <3>1, RangeFinite
  <2>4. QED
    BY <2>2, <2>3
<1> HIDE DEF taken
<1>2. k \in Nat
  BY <1>1, FS_CardinalityType
<1>3. ~(1..(k + 1) \subseteq taken)
  <2>1. SUFFICES ASSUME 1..(k + 1) \subseteq taken
                 PROVE  FALSE
    OBVIOUS
  <2>2. Cardinality(1..(k + 1)) <= k
    BY <1>1, <2>1, FS_Subset
  <2>3. Cardinality(1..(k + 1)) = k + 1
    <3> HIDE DEF k
    <3>1. 1 \in Int /\ k + 1 \in Int /\ ~(1 > k + 1)
      BY <1>2
    <3>2. Cardinality(1..(k + 1)) = (k + 1) - 1 + 1
      BY <3>1, FS_Interval
    <3>3. QED
      BY <1>2, <3>2
  <2>4. QED
    BY <1>2, <2>2, <2>3
<1> HIDE DEF k
<1>4. \E n \in 1..(k + 1) : Free(n)
  <2> DEFINE A == (1..(k + 1)) \ taken
  <2>1. A \in SUBSET Nat /\ A # {}
    BY <1>2, <1>3
  <2>2. PICK n \in A : \A m \in A : n <= m
    <3> HIDE DEF A
    <3>1. QED
      BY <2>1, Least
  <2>3. \A m \in 1..(n - 1) : m \in 1..(k + 1) /\ ~(n <= m)
    BY <1>2, <2>2
  <2>4. QED
    BY <2>2, <2>3
<1> DEFINE name == CHOOSE n \in 1..(k + 1) : Free(n)
<1>5. name \in 1..(k + 1)
  <2> HIDE DEF Free
  <2>1. QED
    BY <1>4
<1>6. name # None
  <2>1. name \in Nat
    BY <1>2, <1>5
  <2> HIDE DEF name
  <2>2. QED
    BY <2>1, NamesAssumption
<1>7. AutoNamespace(id) = IF SourceInstance(id).namespace # None THEN SourceInstance(id).namespace ELSE name
  BY DEF AutoNamespace, taken, k
<1>8. QED
  <2> HIDE DEF name
  <2>1. QED
    BY <1>6, <1>7

\* What the edits make of an instance.
LEMMA ShowEdited ==
  ASSUME NEW page, Written(page), NEW cond
  PROVE  LET new == [page EXCEPT !.show = cond]
         IN  /\ Written(new) /\ new.steps = page.steps /\ StepsOf(new) = StepsOf(page)
             /\ new.isa = page.isa /\ new.mount = page.mount /\ KeepsName(new, page)
<1> DEFINE new == [page EXCEPT !.show = cond]
<1>1. None \in Seq(Listed) \cup {None}
  OBVIOUS
<1>2. Written(new)
  BY <1>1, EditedIs
<1>3. \A f \in DOMAIN Page : new[f] = IF f = "show" THEN cond ELSE page[f]
  BY DEF Written
<1>4. new.steps = page.steps /\ new.isa = page.isa /\ new.mount = page.mount
      /\ new.repeatable = page.repeatable /\ new.namespace = page.namespace
  <2> HIDE DEF new
  <2>1. QED
    BY <1>3 DEF Page
<1> HIDE DEF new
<1>5. QED
  BY <1>2, <1>4 DEF StepsOf, KeepsName, new

LEMMA StepsEdited ==
  ASSUME NEW page, Written(page), NEW list \in Seq(Listed)
  PROVE  LET new == [page EXCEPT !.steps = list]
         IN  /\ Written(new) /\ new.steps = list /\ list # None /\ StepsOf(new) = list
             /\ new.isa = page.isa /\ new.mount = page.mount /\ KeepsName(new, page)
<1> DEFINE new == [page EXCEPT !.steps = list]
<1>1. list \in Seq(Listed) \cup {None} /\ list # None
  BY NamesAssumption
<1>2. Written(new)
  BY <1>1, EditedIs
<1>3. \A f \in DOMAIN Page : new[f] = IF f = "steps" THEN list ELSE page[f]
  BY DEF Written
<1>4. new.steps = list /\ new.isa = page.isa /\ new.mount = page.mount
      /\ new.repeatable = page.repeatable /\ new.namespace = page.namespace
  <2> HIDE DEF new
  <2>1. QED
    BY <1>3 DEF Page
<1> HIDE DEF new
<1>5. QED
  BY <1>1, <1>2, <1>4 DEF StepsOf, KeepsName, new

LEMMA RepeatEdited ==
  ASSUME NEW page, Written(page), NEW name, name # None
  PROVE  LET new == [page EXCEPT !.repeatable = TRUE, !.namespace = name]
         IN  /\ Written(new) /\ new.steps = page.steps /\ StepsOf(new) = StepsOf(page)
             /\ new.isa = page.isa /\ new.mount = page.mount /\ KeepsName(new, page)
<1> DEFINE new == [page EXCEPT !.repeatable = TRUE, !.namespace = name]
<1>1. None \in Seq(Listed) \cup {None}
  OBVIOUS
<1>2. Written(new)
  BY <1>1, EditedIs
<1>3. \A f \in DOMAIN Page : new[f] = CASE f = "repeatable" -> TRUE [] f = "namespace" -> name [] OTHER -> page[f]
  BY DEF Written
<1>4. new.steps = page.steps /\ new.isa = page.isa /\ new.mount = page.mount /\ new.namespace = name
  <2> HIDE DEF new
  <2>1. QED
    BY <1>3 DEF Page
<1> HIDE DEF new
<1>5. QED
  BY <1>2, <1>4 DEF StepsOf, KeepsName, new

LEMMA KnownInit ==
  Init => Known
<1> SUFFICES ASSUME Init PROVE Known
  OBVIOUS
<1>1. TypeOK /\ Loads(files) /\ runtime = Runtime(files, {}) /\ memory = files
  BY TypeInit, ServicesAssumption DEF Init
<1>2. IsService(files) /\ edits \in Nat /\ Parented(files)
  BY <1>1, LoadsIs DEF TypeOK
<1>3. Knows(runtime, files)
  BY <1>1, <1>2, RunningIs
<1>4. Loaded = Ids(files)
  BY <1>3 DEF Loaded, Has, Knows
<1>5. \A id \in Ids(files) : SourceInstance(id) = Winner(files, id)
  BY <1>1, <1>3 DEF SourceInstance, Knows
<1>6. \A id \in DOMAIN files[Service] \ DOMAIN files[Modules] : Winner(files, id) = files[Service][id]
  BY <1>2, WinnerIs DEF Service, Modules, Ids
<1>7. \A id : Alike(files[Service][id], files[Service][id])
  BY DEF Alike
<1>8. QED
  BY <1>3, <1>4, <1>5, <1>6, <1>7 DEF Known, Knows

\* What the process knows after a load.
LEMMA LoadKnown ==
  ASSUME TypeOK, Known, Restart \/ Reload
  PROVE  Known'
<1>1. files' = files
  BY LoadIs
<1>2. CASE memory' = memory /\ runtime' \in {None, runtime}
  BY <1>1, <1>2 DEF Known, Loaded, SourceInstance
<1>3. CASE /\ Parented(files) /\ memory' = files
           /\ \E before \in SUBSET Names : runtime' = Runtime(files, before)
  <2>1. PICK before \in SUBSET Names : runtime' = Runtime(files, before)
    BY <1>3
  <2>2. IsService(files) /\ edits \in Nat
    BY DEF TypeOK
  <2>3. Knows(runtime', files)
    BY <1>3, <2>1, <2>2, RunningIs
  <2>4. Loaded' = Ids(files)
    BY <2>3 DEF Loaded, Has, Knows
  <2>5. \A id \in Ids(files) : SourceInstance(id)' = Winner(files, id)
    BY <1>3, <2>3 DEF SourceInstance, Knows
  <2>6. \A id \in DOMAIN files[Service] \ DOMAIN files[Modules] : Winner(files, id) = files[Service][id]
    BY <2>2, WinnerIs DEF Service, Modules, Ids
  <2>7. \A id : Alike(files[Service][id], files[Service][id])
    BY DEF Alike
  <2>8. QED
    BY <1>1, <2>3, <2>4, <2>5, <2>6, <2>7 DEF Known, Knows
<1>4. QED
  BY <1>2, <1>3, LoadIs

LEMMA KnownNext ==
  TypeOK /\ Known /\ [Next]_vars => Known'
<1> SUFFICES ASSUME TypeOK, Known, [Next]_vars PROVE Known'
  OBVIOUS
<1>1. CASE Restart \/ Reload
  BY <1>1, LoadKnown
<1>2. CASE DeleteFile
  <2>1. UNCHANGED <<memory, runtime>>
    BY <1>2 DEF DeleteFile
  <2>2. /\ DOMAIN files'[Service] = DOMAIN files[Service] \ {doomed}
        /\ \A p \in DOMAIN files[Service] \ {doomed} : files'[Service][p] = files[Service][p]
        /\ files'[Modules] = files[Modules]
    <3>1. DOMAIN files = {1, 2, 3}
      BY DEF TypeOK, IsService
    <3>2. QED
      BY <1>2, <3>1 DEF DeleteFile, Restrict, Service, Modules
  <2>3. Loaded' = Loaded /\ \A id : SourceInstance(id)' = SourceInstance(id)
    BY <2>1 DEF Loaded, SourceInstance
  <2>4. QED
    BY <2>1, <2>2, <2>3 DEF Known
<1>3. ASSUME NEW id \in NewPages, NEW cond, CreateInstance(id, cond)
      PROVE  Known'
  <2> DEFINE page == [Page EXCEPT !.show = cond]
  <2>1. id \notin Loaded /\ UNCHANGED <<memory, runtime>> /\ Save(id, page)
    BY <1>3 DEF CreateInstance
  <2>2. /\ DOMAIN files'[Service] = DOMAIN files[Service] \cup {id}
        /\ \A p \in DOMAIN files[Service] \ {id} : files'[Service][p] = files[Service][p]
        /\ files'[Modules] = files[Modules]
    <3>1. DOMAIN files = {1, 2, 3}
      BY DEF TypeOK, IsService
    <3> HIDE DEF page
    <3>2. QED
      BY <2>1, <3>1 DEF Save, Gets, Service, Modules
  <2>3. Loaded' = Loaded /\ \A p : SourceInstance(p)' = SourceInstance(p)
    BY <2>1 DEF Loaded, SourceInstance
  <2>4. QED
    BY <2>1, <2>2, <2>3 DEF Known
<1>4. ASSUME NEW id, NEW cond, SetInstance(id, cond)
      PROVE  Known'
  <2> DEFINE page == [SourceInstance(id) EXCEPT !.show = cond]
  <2>1. runtime # None /\ id \in Loaded /\ UNCHANGED <<memory, runtime>> /\ Save(id, page)
    BY <1>4 DEF SetInstance, Editing
  <2>2. Alike(SourceInstance(id), page)
    <3>1. DOMAIN SourceInstance(id) = DOMAIN Page
      BY <2>1, LoadedIs DEF Written
    <3>2. QED
      BY <3>1 DEF Alike
  <2>3. /\ DOMAIN files'[Service] = DOMAIN files[Service] \cup {id}
        /\ files'[Service][id] = page
        /\ \A p \in DOMAIN files[Service] \ {id} : files'[Service][p] = files[Service][p]
        /\ files'[Modules] = files[Modules]
    <3>1. DOMAIN files = {1, 2, 3}
      BY DEF TypeOK, IsService
    <3> HIDE DEF page
    <3>2. QED
      BY <2>1, <3>1 DEF Save, Gets, Service, Modules
  <2>4. Loaded' = Loaded /\ \A p : SourceInstance(p)' = SourceInstance(p)
    BY <2>1 DEF Loaded, SourceInstance
  <2> HIDE DEF page
  <2>5. QED
    BY <2>1, <2>2, <2>3, <2>4 DEF Known
<1>5. ASSUME NEW id, NEW cond, SetShow(id, cond)
      PROVE  Known'
  <2> DEFINE old == SourceInstance(id)
             page == [old EXCEPT !.show = cond]
  <2>1. runtime # None /\ id \in Loaded /\ runtime' = runtime /\ Write(id, page)
    BY <1>5 DEF SetShow, Editing
  <2>2. Written(old)
    BY <2>1, LoadedIs
  <2> HIDE DEF old
  <2>3. Written(page) /\ StepsOf(page) = StepsOf(old)
    BY <2>2, ShowEdited
  <2> HIDE DEF page
  <2>4. QED
    BY <2>1, <2>3, EditKnown DEF Known, old
<1>6. ASSUME NEW id, SetRepeatable(id)
      PROVE  Known'
  <2> DEFINE old == SourceInstance(id)
             name == AutoNamespace(id)
             page == [old EXCEPT !.repeatable = TRUE, !.namespace = name]
  <2>1. runtime # None /\ id \in Loaded /\ runtime' = runtime /\ Write(id, page)
    BY <1>6 DEF SetRepeatable, Editing
  <2>2. Written(old) /\ name # None
    BY <2>1, LoadedIs, AutoNamespaceIs
  <2> HIDE DEF old, name
  <2>3. Written(page) /\ StepsOf(page) = StepsOf(old)
    BY <2>2, RepeatEdited
  <2> HIDE DEF page
  <2>4. QED
    BY <2>1, <2>3, EditKnown DEF Known, old
<1>7. ASSUME NEW id, NEW step, AddStep(id, step)
      PROVE  Known'
  <2> DEFINE old == SourceInstance(id)
             list == Append(StepsOf(old), step)
             page == [old EXCEPT !.steps = list]
             shown == ToSet(runtime.steps[id]) \cap Names
  <2>1. runtime # None /\ id \in Loaded /\ runtime' = runtime /\ Write(id, page)
        /\ step \in Ids(files) /\ step \notin ToSet(StepsOf(old))
    BY <1>7 DEF AddStep, Editing
  <2>2. Written(old) /\ step \in Listed /\ runtime.steps[id] \in Seq(Listed)
    BY <2>1, LoadedIs, WinnerWritten DEF TypeOK, Listed
  <2>3. StepsOf(old) \in Seq(Listed)
    BY <2>2 DEF Written, StepsOf
  <2>4. Only(StepsOf(old), shown) = Only(runtime.steps[id], Names)
    BY <2>1 DEF Known
  <2> HIDE DEF old, shown
  <2>5. list \in Seq(Listed)
    BY <2>2, <2>3
  <2>6. step \notin shown
    <3>1. ToSet(Only(runtime.steps[id], Names)) = ToSet(runtime.steps[id]) \cap Names
      BY <2>2, OnlyIs
    <3>2. ToSet(Only(StepsOf(old), shown)) = ToSet(StepsOf(old)) \cap shown
      BY <2>3, OnlyIs
    <3>3. QED
      BY <2>1, <2>4, <3>1, <3>2 DEF shown
  <2>7. Only(list, shown) = Only(StepsOf(old), shown)
    BY <2>2, <2>3, <2>6, OnlyAppend
  <2> HIDE DEF list
  <2>8. Written(page) /\ StepsOf(page) = list
    BY <2>2, <2>5, StepsEdited
  <2> HIDE DEF page
  <2>9. QED
    BY <2>1, <2>4, <2>7, <2>8, EditKnown DEF shown
<1>8. ASSUME NEW id, DeleteInstance(id)
      PROVE  Known'
  <2>1. runtime # None
    BY <1>8 DEF DeleteInstance, Editing
  <2>2. CASE StepsOwner(id) = {}
    <3>1. UNCHANGED <<files, memory, runtime>>
      BY <1>8, <2>2 DEF DeleteInstance, RemoveStep, RemoveNoStep
    <3>2. QED
      BY <3>1 DEF Known, Loaded, SourceInstance
  <2>3. CASE StepsOwner(id) # {}
    <3> DEFINE steps(p) == Only(runtime.steps[p], ToSet(runtime.steps[p]) \ {id})
    <3>1. PICK p \in StepsOwner(id) :
            /\ runtime' = [runtime EXCEPT !.steps[p] = steps(p)]
            /\ Write(p, [SourceInstance(p) EXCEPT !.steps = steps(p)])
      BY <1>8, <2>3 DEF DeleteInstance, RemoveStep
    <3>2. p \in Loaded
      BY DEF StepsOwner
    <3>3. p \in DOMAIN runtime.steps /\ runtime.steps[p] \in Seq(Listed) /\ Written(SourceInstance(p))
      BY <2>1, <3>2, LoadedIs
    <3>4. /\ steps(p) \in Seq(Listed) /\ ToSet(steps(p)) \subseteq ToSet(runtime.steps[p])
      BY <3>3, OnlyIs
    <3>5. runtime' = [source |-> runtime.source, steps |-> [runtime.steps EXCEPT ![p] = steps(p)],
                      namespace |-> runtime.namespace, namespaces |-> runtime.namespaces,
                      before |-> runtime.before, at |-> runtime.at]
      BY <2>1, <3>1 DEF TypeOK, Running
    <3> DEFINE list == steps(p)
               page == [SourceInstance(p) EXCEPT !.steps = list]
    <3> HIDE DEF steps
    <3>6. Write(p, page) /\ list \in Seq(Listed) /\ ToSet(list) \subseteq ToSet(runtime.steps[p])
      BY <3>1, <3>4
    <3>7. Written(page) /\ StepsOf(page) = list
      <4> HIDE DEF list
      <4>1. QED
        BY <3>3, <3>6, StepsEdited
    <3>8. runtime'.source = runtime.source /\ runtime'.steps[p] = list
          /\ \A q \in Loaded \ {p} : runtime'.steps[q] = runtime.steps[q]
      <4>1. \A q \in Loaded : q \in DOMAIN runtime.steps
        BY <2>1, LoadedIs
      <4>2. QED
        BY <3>3, <3>5, <4>1
    <3> HIDE DEF list, page
    <3>9. Only(list, ToSet(list) \cap Names) = Only(list, Names)
      BY <3>6, OnlySame
    <3>10. QED
      BY <2>1, <3>2, <3>6, <3>7, <3>8, <3>9, EditKnown
  <2>4. QED
    BY <2>2, <2>3
<1>9. CASE UNCHANGED vars
  BY <1>9 DEF vars, Known, Loaded, SourceInstance
<1>10. QED
  BY <1>1, <1>2, <1>3, <1>4, <1>5, <1>6, <1>7, <1>8, <1>9 DEF Next

-----------------------------------------------------------------------------
(* Edits that leave a service that loads *)

\* Where the process has its instances from, and what it makes of the steps.  A page that
\* it does not have has been created since it loaded.
Placed ==
  runtime # None =>
    /\ DOMAIN memory[App] = DOMAIN files[App]
    /\ \A id \in Loaded :
         /\ runtime.source[id] = Modules <=> id \in DOMAIN files[Modules]
         /\ ToSet(runtime.steps[id]) \cap Names \subseteq ToSet(StepsOf(SourceInstance(id)))
         /\ Distinct(runtime.steps[id])
    /\ \A id \in Ids(files) \ Loaded :
         id \notin DOMAIN files[App] \cup DOMAIN files[Modules] /\ Alike(files[Service][id], Page)

\* A page that has only a file of the service, that nothing refers to, and none of whose
\* steps is mounted.
Unreferred(service, id) ==
  /\ id \notin DOMAIN service[App] \cup DOMAIN service[Modules]
  /\ \A p \in Ids(service) : /\ Winner(service, p).isa # id /\ Winner(service, p).mount # id
                             /\ id \notin ToSet(StepsOf(Winner(service, p)))
  /\ id \in Ids(service) =>
       \A step \in ToSet(StepsOf(Winner(service, id))) : Merge(service)[step].mount = None

\* Of the pages of the app that have not been edited the process has what is on disk.
AsApp ==
  runtime # None =>
    \A id \in Loaded : runtime.source[id] = App /\ id \notin DOMAIN files[Service] =>
      SourceInstance(id) = files[App][id]

Careful ==
  ~careless => /\ Loads(files)
               /\ AsApp
               /\ doomed # None => Unreferred(files, doomed)

LEMMA AlikeIs ==
  ASSUME NEW page, NEW other, Alike(page, other)
  PROVE  /\ page.steps = other.steps /\ StepsOf(page) = StepsOf(other)
         /\ page.isa = other.isa /\ page.mount = other.mount
         /\ page.repeatable = other.repeatable /\ page.namespace = other.namespace
         /\ \A new : KeepsName(new, page) => KeepsName(new, other)
<1>1. {"steps", "isa", "mount", "repeatable", "namespace"} \subseteq DOMAIN Page \ {"show"}
  BY DEF Page
<1>2. /\ page.steps = other.steps /\ page.isa = other.isa /\ page.mount = other.mount
      /\ page.repeatable = other.repeatable /\ page.namespace = other.namespace
  BY <1>1 DEF Alike
<1>3. QED
  BY <1>2 DEF KeepsName, StepsOf

\* What the process has of a page that has not been deleted since it loaded is what would
\* be loaded, but for a condition.
LEMMA Current ==
  ASSUME TypeOK, Known, Placed, AsApp, runtime # None, NEW id \in Loaded, ~Revived(id)
  PROVE  /\ id \in Ids(files)
         /\ id \notin DOMAIN files[Modules] => Alike(SourceInstance(id), Winner(files, id))
<1>1. IsService(files) /\ runtime.source[id] \in {1, 2, 3} /\ id \in DOMAIN memory[runtime.source[id]]
  BY LoadedIs DEF TypeOK
<1>2. Ids(files) = DOMAIN files[App] \cup DOMAIN files[Service] \cup DOMAIN files[Modules]
  BY <1>1, WinnerIs DEF App, Service, Modules
<1>3. runtime.source[id] = App \/ runtime.source[id] = Service \/ runtime.source[id] = Modules
  BY <1>1 DEF App, Service, Modules
<1>4. id \in Ids(files)
  <2>1. CASE runtime.source[id] = App
    BY <1>1, <1>2, <2>1 DEF Placed
  <2>2. CASE runtime.source[id] = Service
    BY <1>2, <2>2 DEF Revived
  <2>3. CASE runtime.source[id] = Modules
    BY <1>2, <2>3 DEF Placed
  <2>4. QED
    BY <1>3, <2>1, <2>2, <2>3
<1>5. ASSUME id \notin DOMAIN files[Modules]
      PROVE  Alike(SourceInstance(id), Winner(files, id))
  <2>1. Winner(files, id) = IF id \in DOMAIN files[Service] THEN files[Service][id] ELSE files[App][id]
    BY <1>1, <1>4, <1>5, WinnerIs DEF App, Service, Modules
  <2>2. CASE id \in DOMAIN files[Service]
    BY <1>5, <2>1, <2>2 DEF Known
  <2>3. CASE id \notin DOMAIN files[Service]
    <3>1. runtime.source[id] = App
      BY <1>3, <1>5, <2>3 DEF Placed, Revived
    <3>2. QED
      BY <2>1, <2>3, <3>1 DEF AsApp, Alike
  <2>4. QED
    BY <2>2, <2>3
<1>6. QED
  BY <1>4, <1>5

\* Of a page that a module has, the instance of the module is loaded, whatever is written.
Wins(service, id, page) == IF id \in DOMAIN service[Modules] THEN Winner(service, id) ELSE page

\* Writing a source instance saves it.
LEMMA WriteSaves ==
  ASSUME TypeOK, runtime # None, NEW id \in Loaded, NEW page, Written(page), Write(id, page),
         runtime'.source = runtime.source
  PROVE  /\ Save(id, page) /\ Loaded' = Loaded
         /\ \A p \in Loaded : SourceInstance(p)' = IF p = id THEN page ELSE SourceInstance(p)
         /\ DOMAIN memory'[App] = DOMAIN memory[App]
<1>1. \A i \in {1, 2, 3} :
        /\ DOMAIN memory'[i] = DOMAIN memory[i]
        /\ \A p \in DOMAIN memory[i] :
             memory'[i][p] = IF i = runtime.source[id] /\ p = id THEN page ELSE memory[i][p]
  BY WriteIs
<1>2. \A p \in Loaded : runtime.source[p] \in {1, 2, 3} /\ p \in DOMAIN memory[runtime.source[p]]
  BY LoadedIs
<1>3. \A p \in Loaded : SourceInstance(p)' = IF p = id THEN page ELSE SourceInstance(p)
  BY <1>1, <1>2 DEF SourceInstance
<1>4. Save(id, page) /\ Loaded' = Loaded
  BY DEF Write, Loaded
<1>5. QED
  BY <1>1, <1>3, <1>4 DEF App

\* An edit of an instance edits the files.
LEMMA SaveEdits ==
  ASSUME TypeOK, Known, Placed, AsApp, runtime # None, NEW id \in Loaded, ~Revived(id),
         NEW page, Written(page), Save(id, page),
         page.isa = SourceInstance(id).isa, page.mount = SourceInstance(id).mount
  PROVE  Edited(files, files', id, Wins(files, id, page))
<1>1. /\ IsService(files) /\ IsService(files')
      /\ files'[Service] = Gets(files[Service], id, page)
      /\ files'[App] = files[App] /\ files'[Modules] = files[Modules]
  BY SaveIs, LoadedIs DEF TypeOK
<1>2. /\ id \in Ids(files)
      /\ id \notin DOMAIN files[Modules] => SourceInstance(id).isa = Winner(files, id).isa
                                           /\ SourceInstance(id).mount = Winner(files, id).mount
  BY Current, AlikeIs
<1>3. /\ DOMAIN files'[Service] = DOMAIN files[Service] \cup {id} /\ files'[Service][id] = page
      /\ \A p \in DOMAIN files[Service] \ {id} : files'[Service][p] = files[Service][p]
  BY <1>1 DEF Gets
<1>4. /\ Ids(files) = DOMAIN files[App] \cup DOMAIN files[Service] \cup DOMAIN files[Modules]
      /\ \A p \in Ids(files) : Winner(files, p) =
           IF p \in DOMAIN files[Modules] THEN files[Modules][p]
           ELSE IF p \in DOMAIN files[Service] THEN files[Service][p] ELSE files[App][p]
  BY <1>1, WinnerIs DEF App, Service, Modules
<1>5. /\ Ids(files') = DOMAIN files'[App] \cup DOMAIN files'[Service] \cup DOMAIN files'[Modules]
      /\ \A p \in Ids(files') : Winner(files', p) =
           IF p \in DOMAIN files'[Modules] THEN files'[Modules][p]
           ELSE IF p \in DOMAIN files'[Service] THEN files'[Service][p] ELSE files'[App][p]
  BY <1>1, WinnerIs DEF App, Service, Modules
<1>6. Ids(files') = Ids(files)
  BY <1>1, <1>2, <1>3, <1>4, <1>5
<1>7. \A p \in Ids(files) : Winner(files', p) = IF p = id THEN Wins(files, id, page) ELSE Winner(files, p)
  BY <1>1, <1>3, <1>4, <1>5, <1>6 DEF Wins
<1>8. Wins(files, id, page).isa = Winner(files, id).isa /\ Wins(files, id, page).mount = Winner(files, id).mount
  BY <1>2 DEF Wins
<1>9. QED
  BY <1>1, <1>2, <1>6, <1>7, <1>8 DEF Edited

\* A page stays unreferred when no step is added that is the page, or mounted.
LEMMA UnreferredEdited ==
  ASSUME NEW s, NEW t, NEW id, NEW page, Edited(s, t, id, page), Laid(s), NEW x, Unreferred(s, x),
         DOMAIN t[App] = DOMAIN s[App], DOMAIN t[Modules] = DOMAIN s[Modules],
         \A step \in ToSet(StepsOf(page)) :
           \/ step \in ToSet(StepsOf(Winner(s, id)))
           \/ step \in Ids(s) /\ step # x /\ Merge(s)[step].mount = None
  PROVE  Unreferred(t, x)
<1>1. /\ IsService(s) /\ IsService(t) /\ id \in Ids(s) /\ Ids(t) = Ids(s)
      /\ \A p \in Ids(s) : Winner(t, p) = IF p = id THEN page ELSE Winner(s, p)
      /\ page.isa = Winner(s, id).isa /\ page.mount = Winner(s, id).mount
  BY DEF Edited
<1>2. \A p \in Ids(s) : Merge(t)[p].mount = Merge(s)[p].mount
  BY EditedIsa DEF Laid
<1>3. \A p \in Ids(s) : /\ Winner(s, p).isa # x /\ Winner(s, p).mount # x
                        /\ x \notin ToSet(StepsOf(Winner(s, p)))
  BY DEF Unreferred
<1>4. \A p \in Ids(s) : /\ Winner(t, p).isa # x /\ Winner(t, p).mount # x
                        /\ x \notin ToSet(StepsOf(Winner(t, p)))
  <2>1. x \notin ToSet(StepsOf(page))
    BY <1>1, <1>3
  <2>2. QED
    BY <1>1, <1>3, <2>1
<1>5. ASSUME x \in Ids(s), NEW step \in ToSet(StepsOf(Winner(t, x)))
      PROVE  Merge(t)[step].mount = None
  <2>1. step \in ToSet(StepsOf(Winner(s, x))) \/ (step \in Ids(s) /\ Merge(s)[step].mount = None)
    <3>1. CASE x = id
      <4>1. step \in ToSet(StepsOf(page))
        BY <1>1, <1>5, <3>1
      <4>2. QED
        BY <3>1, <4>1
    <3>2. CASE x # id
      BY <1>1, <1>5, <3>2
    <3>3. QED
      BY <3>1, <3>2
  <2>2. step \in ToSet(StepsOf(Winner(s, x))) => step \in Ids(s) /\ Merge(s)[step].mount = None
    BY <1>5 DEF Laid, Unreferred
  <2>3. QED
    BY <1>2, <2>1, <2>2
<1>6. QED
  BY <1>1, <1>4, <1>5 DEF Unreferred

\* An edit that keeps a service loadable leaves it so with what the process goes by.
LEMMA EditCareful ==
  ASSUME TypeOK, Known, Placed, Careful, ~careless, runtime # None, NEW id \in Loaded, ~Revived(id),
         NEW page, Written(page), Save(id, page),
         page.isa = SourceInstance(id).isa, page.mount = SourceInstance(id).mount,
         runtime'.source = runtime.source, Loaded' = Loaded,
         \A p \in Loaded \ {id} : SourceInstance(p)' = SourceInstance(p),
         id \notin DOMAIN files[Modules] /\ Edited(files, files', id, page) => Loads(files'),
         \A step \in ToSet(StepsOf(page)) :
           \/ step \in ToSet(StepsOf(SourceInstance(id)))
           \/ step \in Ids(files) /\ step # doomed /\ Merge(files)[step].mount = None
  PROVE  /\ Edited(files, files', id, Wins(files, id, page))
         /\ Loads(files')
         /\ AsApp'
         /\ doomed # None => Unreferred(files', doomed)
<1>1. Loads(files) /\ AsApp /\ (doomed # None => Unreferred(files, doomed))
  BY DEF Careful
<1>2. Edited(files, files', id, Wins(files, id, page))
  BY <1>1, SaveEdits
<1>3. id \in Ids(files) /\ (id \notin DOMAIN files[Modules] => StepsOf(SourceInstance(id)) = StepsOf(Winner(files, id)))
  BY <1>1, Current, AlikeIs
<1>4. Loads(files')
  <2>1. CASE id \in DOMAIN files[Modules]
    <3>1. Wins(files, id, page) = Winner(files, id)
      BY <2>1 DEF Wins
    <3>2. KeepsName(Winner(files, id), Winner(files, id))
      BY DEF KeepsName
    <3>3. QED
      BY <1>1, <1>2, <3>1, <3>2, SameStepsLoad
  <2>2. CASE id \notin DOMAIN files[Modules]
    BY <1>2, <2>2 DEF Wins
  <2>3. QED
    BY <2>1, <2>2
<1>5. /\ DOMAIN files'[Service] = DOMAIN files[Service] \cup {id}
      /\ files'[App] = files[App] /\ files'[Modules] = files[Modules]
  BY SaveIs, LoadedIs
<1>6. AsApp'
  <2>2. ASSUME NEW p \in Loaded, runtime.source[p] = App, p \notin DOMAIN files'[Service]
        PROVE  SourceInstance(p)' = files[App][p]
    <3>1. p # id /\ p \notin DOMAIN files[Service]
      BY <1>5, <2>2
    <3>3. SourceInstance(p)' = SourceInstance(p)
      BY <3>1
    <3>4. QED
      BY <1>1, <2>2, <3>1, <3>3 DEF AsApp
  <2>3. QED
    BY <1>5, <2>2 DEF AsApp
<1>7. ASSUME doomed # None
      PROVE  Unreferred(files', doomed)
  <2>1. Unreferred(files, doomed)
    BY <1>1, <1>7
  <2>2. \A step \in ToSet(StepsOf(Wins(files, id, page))) :
          \/ step \in ToSet(StepsOf(Winner(files, id)))
          \/ step \in Ids(files) /\ step # doomed /\ Merge(files)[step].mount = None
    BY <1>3 DEF Wins
  <2>3. Laid(files)
    BY <1>1, LoadsLaid DEF TypeOK
  <2>4. QED
    BY <1>2, <1>5, <2>1, <2>2, <2>3, UnreferredEdited
<1>8. QED
  BY <1>2, <1>4, <1>6, <1>7

\* What the process goes by after an edit.
LEMMA EditPlaced ==
  ASSUME TypeOK, Placed, runtime # None, NEW id \in Loaded, NEW page, Written(page), Save(id, page),
         runtime'.source = runtime.source, Loaded' = Loaded, DOMAIN memory'[App] = DOMAIN memory[App],
         \A p \in Loaded \ {id} : runtime'.steps[p] = runtime.steps[p] /\ SourceInstance(p)' = SourceInstance(p),
         ToSet(runtime'.steps[id]) \cap Names \subseteq ToSet(StepsOf(SourceInstance(id)')),
         Distinct(runtime'.steps[id])
  PROVE  Placed'
<1>1. /\ IsService(files) /\ IsService(files')
      /\ files'[Service] = Gets(files[Service], id, page)
      /\ files'[App] = files[App] /\ files'[Modules] = files[Modules]
  BY SaveIs, LoadedIs DEF TypeOK
<1>3. /\ DOMAIN files'[Service] = DOMAIN files[Service] \cup {id}
      /\ \A p \in DOMAIN files[Service] \ {id} : files'[Service][p] = files[Service][p]
  BY <1>1 DEF Gets
<1>4. /\ Ids(files) = DOMAIN files[App] \cup DOMAIN files[Service] \cup DOMAIN files[Modules]
      /\ Ids(files') = DOMAIN files'[App] \cup DOMAIN files'[Service] \cup DOMAIN files'[Modules]
  BY <1>1, WinnerIs DEF App, Service, Modules
<1>5. DOMAIN memory'[App] = DOMAIN files'[App]
  BY <1>1 DEF Placed, App
<1>6. ASSUME NEW p \in Loaded
      PROVE  /\ runtime'.source[p] = Modules <=> p \in DOMAIN files'[Modules]
             /\ ToSet(runtime'.steps[p]) \cap Names \subseteq ToSet(StepsOf(SourceInstance(p)'))
             /\ Distinct(runtime'.steps[p])
  <2>1. runtime'.source[p] = Modules <=> p \in DOMAIN files'[Modules]
    BY <1>1 DEF Placed
  <2>4. CASE p = id
    BY <2>1, <2>4
  <2>5. CASE p # id
    BY <2>1, <2>5 DEF Placed
  <2>6. QED
    BY <2>4, <2>5
<1>7. ASSUME NEW p \in Ids(files') \ Loaded
      PROVE  p \notin DOMAIN files'[App] \cup DOMAIN files'[Modules] /\ Alike(files'[Service][p], Page)
  <2>1. p \in Ids(files) \ Loaded
    BY <1>1, <1>3, <1>4, <1>7
  <2>2. /\ p \notin DOMAIN files[App] \cup DOMAIN files[Modules] /\ Alike(files[Service][p], Page)
        /\ p \in DOMAIN files[Service]
    BY <1>4, <2>1 DEF Placed
  <2>3. QED
    BY <1>1, <1>3, <2>1, <2>2
<1>8. QED
  BY <1>5, <1>6, <1>7 DEF Placed

\* What a load leaves the process to go by.
LEMMA LoadedPlaces ==
  ASSUME IsService(files), Parented(files), edits \in Nat, NEW before, before \subseteq Names
  PROVE  \A id \in Ids(files) :
           LET running == Runtime(files, before)
           IN  /\ running.source[id] = Modules <=> id \in DOMAIN files[Modules]
               /\ ToSet(running.steps[id]) \cap Names \subseteq ToSet(StepsOf(files[running.source[id]][id]))
               /\ Distinct(running.steps[id])
<1> DEFINE pages == Merge(files)
<1> TAKE id \in Ids(files)
<1>1. /\ Runtime(files, before).source[id] = SourceOf(files, id)
      /\ Runtime(files, before).steps[id] = InjectedSteps(pages, id)
  BY RuntimeIs
<1>2. SourceOf(files, id) = Modules <=> id \in DOMAIN files[Modules]
  BY WinnerIs DEF Modules
<1>3. Winner(files, id) = files[SourceOf(files, id)][id]
  BY WinnerIs
<1>4. Laid(files) /\ StepsOf(pages[id]) = StepsOf(Winner(files, id)) /\ Distinct(StepsOf(Winner(files, id)))
  BY ParentsLaid, OwnSteps DEF Laid
<1>5. DOMAIN pages = Ids(files) /\ StepsOf(pages[id]) \in Seq(DOMAIN pages) /\ Ids(files) \subseteq Names
  BY ParentedIs, WinnerWritten
<1> HIDE DEF pages
<1>6. /\ ToSet(InjectedSteps(pages, id)) \cap Names = ToSet(StepsOf(pages[id]))
      /\ Distinct(StepsOf(pages[id])) => Distinct(InjectedSteps(pages, id))
  BY <1>5, InjectedIs
<1>7. QED
  BY <1>1, <1>2, <1>3, <1>4, <1>6

LEMMA PlacedInit ==
  Init => Placed
<1> SUFFICES ASSUME Init PROVE Placed
  OBVIOUS
<1>1. TypeOK /\ Loads(files) /\ runtime = Runtime(files, {}) /\ memory = files
  BY TypeInit, ServicesAssumption DEF Init
<1>2. IsService(files) /\ edits \in Nat /\ Parented(files)
  BY <1>1, LoadsIs DEF TypeOK
<1>3. PICK before \in SUBSET Names : runtime = Runtime(files, before)
  BY <1>1
<1>4. Loaded = Ids(files)
  BY <1>2, <1>3, RuntimeIs DEF Loaded, Has
<1>5. \A id \in Ids(files) :
        /\ runtime.source[id] = Modules <=> id \in DOMAIN files[Modules]
        /\ ToSet(runtime.steps[id]) \cap Names \subseteq ToSet(StepsOf(files[runtime.source[id]][id]))
        /\ Distinct(runtime.steps[id])
  BY <1>2, <1>3, LoadedPlaces
<1>6. QED
  BY <1>1, <1>4, <1>5 DEF Placed, SourceInstance

LEMMA PlacedNext ==
  TypeOK /\ Placed /\ [Next]_vars => Placed'
<1> SUFFICES ASSUME TypeOK, Placed, [Next]_vars PROVE Placed'
  OBVIOUS
<1>1. CASE Restart \/ Reload
  <2>1. CASE /\ Parented(files) /\ memory' = files
             /\ \E before \in SUBSET Names : runtime' = Runtime(files, before)
    <3>1. PICK before \in SUBSET Names : runtime' = Runtime(files, before) /\ memory' = files
      BY <2>1
    <3>2. files' = files /\ IsService(files) /\ edits \in Nat
      BY <1>1, LoadIs DEF TypeOK
    <3>3. Loaded' = Ids(files)
      BY <2>1, <3>1, <3>2, RuntimeIs DEF Loaded, Has
    <3>4. \A id \in Ids(files) :
            /\ runtime'.source[id] = Modules <=> id \in DOMAIN files[Modules]
            /\ ToSet(runtime'.steps[id]) \cap Names \subseteq ToSet(StepsOf(files[runtime'.source[id]][id]))
            /\ Distinct(runtime'.steps[id])
      BY <2>1, <3>1, <3>2, LoadedPlaces
    <3>5. QED
      BY <3>1, <3>2, <3>3, <3>4 DEF Placed, SourceInstance
  <2>2. CASE memory' = memory /\ runtime' \in {None, runtime}
    <3>1. files' = files
      BY <1>1, LoadIs
    <3>2. QED
      BY <2>2, <3>1 DEF Placed, Loaded, SourceInstance
  <2>3. QED
    BY <1>1, <2>1, <2>2, LoadIs
<1>2. CASE DeleteFile
  <2>1. UNCHANGED <<memory, runtime>>
    BY <1>2 DEF DeleteFile
  <2>2. /\ DOMAIN files'[Service] = DOMAIN files[Service] \ {doomed}
        /\ \A p \in DOMAIN files[Service] \ {doomed} : files'[Service][p] = files[Service][p]
        /\ files'[App] = files[App] /\ files'[Modules] = files[Modules]
    <3>1. DOMAIN files = {1, 2, 3}
      BY DEF TypeOK, IsService
    <3>2. QED
      BY <1>2, <3>1 DEF DeleteFile, Restrict, App, Service, Modules
  <2>3. IsService(files) /\ IsService(files')
    BY TypeNext DEF TypeOK
  <2>4. /\ Ids(files) = DOMAIN files[App] \cup DOMAIN files[Service] \cup DOMAIN files[Modules]
        /\ Ids(files') = DOMAIN files'[App] \cup DOMAIN files'[Service] \cup DOMAIN files'[Modules]
    BY <2>3, WinnerIs DEF App, Service, Modules
  <2>5. Loaded' = Loaded /\ \A id \in Loaded : SourceInstance(id)' = SourceInstance(id)
    BY <2>1 DEF Loaded, SourceInstance
  <2>6. ASSUME runtime # None, NEW p \in Ids(files') \ Loaded
        PROVE  p \notin DOMAIN files'[App] \cup DOMAIN files'[Modules] /\ Alike(files'[Service][p], Page)
    <3>1. p \notin DOMAIN files[App] \cup DOMAIN files[Modules] /\ Alike(files[Service][p], Page)
      BY <2>2, <2>4, <2>6 DEF Placed
    <3>2. p \in DOMAIN files'[Service]
      BY <2>2, <2>4, <2>6, <3>1
    <3>3. QED
      BY <2>2, <3>1, <3>2
  <2>7. QED
    BY <2>1, <2>2, <2>5, <2>6 DEF Placed
<1>3. ASSUME NEW id \in NewPages, NEW cond, CreateInstance(id, cond)
      PROVE  Placed'
  <2> DEFINE page == [Page EXCEPT !.show = cond]
  <2>0. Alike(page, Page)
    BY DEF Alike, Page
  <2>1. UNCHANGED <<memory, runtime>> /\ id \notin Loaded /\ files' = Saved(files, Service, id, page)
    BY <1>3 DEF CreateInstance, Save, Saved
  <2> HIDE DEF page
  <2>2. id \in Names /\ IsService(files) /\ IsService(files')
    BY TypeNext DEF Names, TypeOK
  <2>3. /\ DOMAIN files'[Service] = DOMAIN files[Service] \cup {id} /\ files'[Service][id] = page
        /\ \A p \in DOMAIN files[Service] \ {id} : files'[Service][p] = files[Service][p]
        /\ files'[App] = files[App] /\ files'[Modules] = files[Modules]
    <3>1. DOMAIN files = {1, 2, 3}
      BY <2>2 DEF IsService
    <3>2. QED
      BY <2>1, <3>1 DEF Saved, Gets, App, Service, Modules
  <2>4. /\ Ids(files) = DOMAIN files[App] \cup DOMAIN files[Service] \cup DOMAIN files[Modules]
        /\ Ids(files') = DOMAIN files'[App] \cup DOMAIN files'[Service] \cup DOMAIN files'[Modules]
    BY <2>2, WinnerIs DEF App, Service, Modules
  <2>5. Loaded' = Loaded /\ \A p \in Loaded : SourceInstance(p)' = SourceInstance(p)
    BY <2>1 DEF Loaded, SourceInstance
  <2>6. ASSUME runtime # None, NEW p \in Ids(files') \ Loaded
        PROVE  p \notin DOMAIN files'[App] \cup DOMAIN files'[Modules] /\ Alike(files'[Service][p], Page)
    <3>1. \A q \in Ids(files) \ Loaded :
            q \notin DOMAIN files[App] \cup DOMAIN files[Modules] /\ Alike(files[Service][q], Page)
      BY <2>6 DEF Placed
    <3>2. CASE p \in Ids(files)
      BY <2>0, <2>3, <2>4, <2>6, <3>1, <3>2
    <3>3. CASE p \notin Ids(files)
      BY <2>0, <2>3, <2>4, <2>6, <3>3
    <3>4. QED
      BY <3>2, <3>3
  <2>7. QED
    BY <2>1, <2>3, <2>5, <2>6 DEF Placed
<1>4. ASSUME NEW id, \/ \E cond : SetShow(id, cond)
                     \/ \E step : AddStep(id, step)
                     \/ SetRepeatable(id)
      PROVE  Placed'
  <2>1. runtime # None /\ id \in Loaded /\ runtime' = runtime
    BY <1>4 DEF SetShow, AddStep, SetRepeatable, Editing
  <2>2. Written(SourceInstance(id)) /\ ToSet(runtime.steps[id]) \cap Names \subseteq ToSet(StepsOf(SourceInstance(id)))
        /\ Distinct(runtime.steps[id])
    BY <2>1, LoadedIs DEF Placed
  <2>3. PICK page : /\ Written(page) /\ Write(id, page)
                    /\ ToSet(StepsOf(SourceInstance(id))) \subseteq ToSet(StepsOf(page))
    <3> DEFINE old == SourceInstance(id)
    <3>1. CASE \E cond : SetShow(id, cond)
      <4>1. PICK cond : SetShow(id, cond)
        BY <3>1
      <4> DEFINE page == [old EXCEPT !.show = cond]
      <4>2. Write(id, page)
        BY <4>1 DEF SetShow
      <4> HIDE DEF old
      <4>3. Written(page) /\ StepsOf(page) = StepsOf(old)
        BY <2>2, ShowEdited DEF old
      <4>4. QED
        BY <4>2, <4>3 DEF old
    <3>2. CASE \E step : AddStep(id, step)
      <4>1. PICK step : AddStep(id, step)
        BY <3>2
      <4> DEFINE list == Append(StepsOf(old), step)
                 page == [old EXCEPT !.steps = list]
      <4>2. Write(id, page) /\ step \in Ids(files)
        BY <4>1 DEF AddStep
      <4>3. step \in Listed
        BY <4>2, WinnerWritten DEF TypeOK, Listed
      <4>4. StepsOf(old) \in Seq(Listed)
        BY <2>2 DEF Written, StepsOf
      <4> HIDE DEF old
      <4>5. list \in Seq(Listed) /\ ToSet(list) = ToSet(StepsOf(old)) \cup {step}
        BY <4>3, <4>4, AppendRange
      <4> HIDE DEF list
      <4>6. Written(page) /\ StepsOf(page) = list
        BY <2>2, <4>5, StepsEdited DEF old
      <4>7. QED
        BY <4>2, <4>5, <4>6 DEF old
    <3>3. CASE SetRepeatable(id)
      <4> DEFINE page == [old EXCEPT !.repeatable = TRUE, !.namespace = AutoNamespace(id)]
      <4>1. Write(id, page)
        BY <3>3 DEF SetRepeatable
      <4> HIDE DEF old
      <4>2. Written(page) /\ StepsOf(page) = StepsOf(old)
        BY <2>2, AutoNamespaceIs, RepeatEdited, <2>1 DEF old
      <4>3. QED
        BY <4>1, <4>2 DEF old
    <3>4. QED
      BY <1>4, <3>1, <3>2, <3>3
  <2>4. /\ Save(id, page) /\ Loaded' = Loaded /\ DOMAIN memory'[App] = DOMAIN memory[App]
        /\ \A p \in Loaded : SourceInstance(p)' = IF p = id THEN page ELSE SourceInstance(p)
    BY <2>1, <2>3, WriteSaves
  <2>5. QED
    BY <2>1, <2>2, <2>3, <2>4, EditPlaced
<1>4a. ASSUME NEW id, NEW cond, SetInstance(id, cond)
       PROVE  Placed'
  <2> DEFINE old == SourceInstance(id)
             page == [old EXCEPT !.show = cond]
  <2>1. runtime # None /\ id \in Loaded /\ UNCHANGED <<memory, runtime>> /\ Save(id, page)
    BY <1>4a DEF SetInstance, Editing
  <2>2. /\ Written(old) /\ ToSet(runtime.steps[id]) \cap Names \subseteq ToSet(StepsOf(old))
        /\ Distinct(runtime.steps[id])
    BY <2>1, LoadedIs DEF Placed
  <2>3. Loaded' = Loaded /\ \A p : SourceInstance(p)' = SourceInstance(p)
    BY <2>1 DEF Loaded, SourceInstance
  <2> HIDE DEF old
  <2>4. Written(page)
    BY <2>2, ShowEdited
  <2> HIDE DEF page
  <2>5. QED
    BY <2>1, <2>2, <2>3, <2>4, EditPlaced DEF old
<1>5. ASSUME NEW id, DeleteInstance(id)
      PROVE  Placed'
  <2>1. runtime # None
    BY <1>5 DEF DeleteInstance, Editing
  <2>2. CASE StepsOwner(id) = {}
    <3>1. UNCHANGED <<files, memory, runtime>>
      BY <1>5, <2>2 DEF DeleteInstance, RemoveStep, RemoveNoStep
    <3>2. QED
      BY <3>1 DEF Placed, Loaded, SourceInstance
  <2>3. CASE StepsOwner(id) # {}
    <3> DEFINE steps(p) == Only(runtime.steps[p], ToSet(runtime.steps[p]) \ {id})
    <3>1. PICK p \in StepsOwner(id) :
            /\ runtime' = [runtime EXCEPT !.steps[p] = steps(p)]
            /\ Write(p, [SourceInstance(p) EXCEPT !.steps = steps(p)])
      BY <1>5, <2>3 DEF DeleteInstance, RemoveStep
    <3>2. p \in Loaded
      BY DEF StepsOwner
    <3>3. p \in DOMAIN runtime.steps /\ runtime.steps[p] \in Seq(Listed) /\ Written(SourceInstance(p))
      BY <2>1, <3>2, LoadedIs
    <3>4. /\ steps(p) \in Seq(Listed) /\ ToSet(steps(p)) = ToSet(runtime.steps[p]) \cap (ToSet(runtime.steps[p]) \ {id})
          /\ Distinct(steps(p))
      <4>1. Distinct(runtime.steps[p])
        BY <2>1, <3>2 DEF Placed
      <4>2. QED
        BY <3>3, <4>1, OnlyIs, OnlyDistinct
    <3>5. runtime' = [source |-> runtime.source, steps |-> [runtime.steps EXCEPT ![p] = steps(p)],
                      namespace |-> runtime.namespace, namespaces |-> runtime.namespaces,
                      before |-> runtime.before, at |-> runtime.at]
      BY <2>1, <3>1 DEF TypeOK, Running
    <3> DEFINE list == steps(p)
               page == [SourceInstance(p) EXCEPT !.steps = list]
    <3> HIDE DEF steps
    <3>6. Write(p, page) /\ list \in Seq(Listed) /\ Distinct(list)
      BY <3>1, <3>4
    <3>7. Written(page) /\ StepsOf(page) = list
      <4> HIDE DEF list
      <4>1. QED
        BY <3>3, <3>6, StepsEdited
    <3>8. runtime'.source = runtime.source /\ runtime'.steps[p] = list
          /\ \A q \in Loaded \ {p} : runtime'.steps[q] = runtime.steps[q]
      <4>1. \A q \in Loaded : q \in DOMAIN runtime.steps
        BY <2>1, LoadedIs
      <4>2. QED
        BY <3>3, <3>5, <4>1
    <3>9. ToSet(list) \cap Names \subseteq ToSet(list)
      OBVIOUS
    <3> HIDE DEF list, page
    <3>10. /\ Save(p, page) /\ Loaded' = Loaded /\ DOMAIN memory'[App] = DOMAIN memory[App]
           /\ \A q \in Loaded : SourceInstance(q)' = IF q = p THEN page ELSE SourceInstance(q)
      BY <2>1, <3>2, <3>6, <3>7, <3>8, WriteSaves
    <3>11. QED
      BY <2>1, <3>2, <3>6, <3>7, <3>8, <3>9, <3>10, EditPlaced
  <2>4. QED
    BY <2>2, <2>3
<1>6. CASE UNCHANGED vars
  BY <1>6 DEF vars, Placed, Loaded, SourceInstance
<1>7. QED
  BY <1>1, <1>2, <1>3, <1>4, <1>4a, <1>5, <1>6 DEF Next

LEMMA CarefulInit ==
  Init => Careful
<1> SUFFICES ASSUME Init PROVE Careful
  OBVIOUS
<1>1. TypeOK /\ Loads(files) /\ runtime = Runtime(files, {}) /\ memory = files /\ doomed = None
  BY TypeInit, ServicesAssumption DEF Init
<1>2. IsService(files) /\ edits \in Nat /\ Parented(files)
  BY <1>1, LoadsIs DEF TypeOK
<1>2a. PICK before \in SUBSET Names : runtime = Runtime(files, before)
  BY <1>1
<1>3. Loaded = Ids(files)
  BY <1>2, <1>2a, RuntimeIs DEF Loaded, Has
<1>4. AsApp
  BY <1>1, <1>3 DEF AsApp, SourceInstance
<1>5. QED
  BY <1>1, <1>4 DEF Careful

LEMMA CarefulLoad ==
  ASSUME TypeOK, Careful, Restart \/ Reload
  PROVE  Careful'
<1>1. files' = files /\ careless' = careless /\ (doomed' = None \/ doomed' = doomed)
  BY LoadIs
<1>2. SUFFICES ASSUME ~careless
               PROVE  AsApp'
  BY <1>1 DEF Careful
<1>3. Loads(files) /\ LoadsAgain(files, seen)
  BY <1>2, LoadsStill DEF Careful
<1>4. PICK before \in SUBSET Names : runtime' = Runtime(files, before) /\ memory' = files
  BY <1>3 DEF Restart, Reload, TypeOK
<1>5. IsService(files) /\ edits \in Nat /\ Parented(files)
  BY <1>3, LoadsIs DEF TypeOK
<1>6. Loaded' = Ids(files)
  BY <1>4, <1>5, RuntimeIs DEF Loaded, Has
<1>7. QED
  BY <1>1, <1>4 DEF AsApp, SourceInstance, App

\* An edit that keeps the steps of an instance and its name.
LEMMA SameEditLoads ==
  ASSUME TypeOK, Known, Placed, AsApp, Loads(files), runtime # None, NEW id \in Loaded, ~Revived(id),
         id \notin DOMAIN files[Modules], NEW page, page.steps = SourceInstance(id).steps,
         KeepsName(page, SourceInstance(id)), Edited(files, files', id, page)
  PROVE  Loads(files')
<1>1. Alike(SourceInstance(id), Winner(files, id))
  BY Current
<1>2. page.steps = Winner(files, id).steps /\ KeepsName(page, Winner(files, id))
  BY <1>1, AlikeIs
<1>3. QED
  BY <1>2, SameStepsLoad

LEMMA CarefulShow ==
  ASSUME TypeOK, Known, Placed, Careful, NEW id, NEW cond, SetShow(id, cond)
  PROVE  Careful'
<1> DEFINE old == SourceInstance(id)
           page == [old EXCEPT !.show = cond]
<1>1. /\ runtime # None /\ id \in Loaded /\ Write(id, page)
      /\ careless' = (careless \/ Revived(id)) /\ runtime' = runtime /\ doomed' = doomed
  BY DEF SetShow, Editing
<1>2. SUFFICES ASSUME ~careless, ~Revived(id)
               PROVE  Careful'
  BY <1>1 DEF Careful
<1>3. Written(old) /\ Loads(files) /\ AsApp
  BY <1>1, <1>2, LoadedIs DEF Careful
<1> HIDE DEF old
<1>4. /\ Written(page) /\ page.steps = old.steps /\ StepsOf(page) = StepsOf(old)
      /\ page.isa = old.isa /\ page.mount = old.mount /\ KeepsName(page, old)
  BY <1>3, ShowEdited
<1> HIDE DEF page
<1>4a. /\ Save(id, page) /\ Loaded' = Loaded
       /\ \A p \in Loaded : SourceInstance(p)' = IF p = id THEN page ELSE SourceInstance(p)
  BY <1>1, <1>4, WriteSaves
<1>5. id \notin DOMAIN files[Modules] /\ Edited(files, files', id, page) => Loads(files')
  BY <1>1, <1>2, <1>3, <1>4, SameEditLoads DEF old
<1>6. Loads(files') /\ AsApp' /\ (doomed # None => Unreferred(files', doomed))
  BY <1>1, <1>2, <1>4, <1>4a, <1>5, EditCareful DEF old
<1>7. QED
  BY <1>1, <1>6 DEF Careful

LEMMA CarefulSetInstance ==
  ASSUME TypeOK, Known, Placed, Careful, NEW id, NEW cond, SetInstance(id, cond)
  PROVE  Careful'
<1> DEFINE old == SourceInstance(id)
           page == [old EXCEPT !.show = cond]
<1>1. /\ runtime # None /\ id \in Loaded /\ Save(id, page) /\ memory' = memory
      /\ careless' = (careless \/ Revived(id)) /\ runtime' = runtime /\ doomed' = doomed
  BY DEF SetInstance, Editing
<1>2. SUFFICES ASSUME ~careless, ~Revived(id)
               PROVE  Careful'
  BY <1>1 DEF Careful
<1>3. Written(old) /\ Loads(files) /\ AsApp
  BY <1>1, <1>2, LoadedIs DEF Careful
<1> HIDE DEF old
<1>4. /\ Written(page) /\ page.steps = old.steps /\ StepsOf(page) = StepsOf(old)
      /\ page.isa = old.isa /\ page.mount = old.mount /\ KeepsName(page, old)
  BY <1>3, ShowEdited
<1> HIDE DEF page
<1>4a. Loaded' = Loaded /\ \A p \in Loaded : SourceInstance(p)' = SourceInstance(p)
  BY <1>1 DEF Loaded, SourceInstance
<1>5. id \notin DOMAIN files[Modules] /\ Edited(files, files', id, page) => Loads(files')
  BY <1>1, <1>2, <1>3, <1>4, SameEditLoads DEF old
<1>6. Loads(files') /\ AsApp' /\ (doomed # None => Unreferred(files', doomed))
  BY <1>1, <1>2, <1>4, <1>4a, <1>5, EditCareful DEF old
<1>7. QED
  BY <1>1, <1>6 DEF Careful

LEMMA CarefulRepeat ==
  ASSUME TypeOK, Known, Placed, Careful, NEW id, SetRepeatable(id)
  PROVE  Careful'
<1> DEFINE old == SourceInstance(id)
           name == AutoNamespace(id)
           page == [old EXCEPT !.repeatable = TRUE, !.namespace = name]
<1>1. /\ runtime # None /\ id \in Loaded /\ Write(id, page)
      /\ careless' = (careless \/ Revived(id)) /\ runtime' = runtime /\ doomed' = doomed
  BY DEF SetRepeatable, Editing
<1>2. SUFFICES ASSUME ~careless, ~Revived(id)
               PROVE  Careful'
  BY <1>1 DEF Careful
<1>3. Written(old) /\ Loads(files) /\ AsApp /\ name # None
  BY <1>1, <1>2, LoadedIs, AutoNamespaceIs DEF Careful
<1> HIDE DEF old, name
<1>4. /\ Written(page) /\ page.steps = old.steps /\ StepsOf(page) = StepsOf(old)
      /\ page.isa = old.isa /\ page.mount = old.mount /\ KeepsName(page, old)
  BY <1>3, RepeatEdited
<1> HIDE DEF page
<1>4a. /\ Save(id, page) /\ Loaded' = Loaded
       /\ \A p \in Loaded : SourceInstance(p)' = IF p = id THEN page ELSE SourceInstance(p)
  BY <1>1, <1>4, WriteSaves
<1>5. id \notin DOMAIN files[Modules] /\ Edited(files, files', id, page) => Loads(files')
  BY <1>1, <1>2, <1>3, <1>4, SameEditLoads DEF old
<1>6. Loads(files') /\ AsApp' /\ (doomed # None => Unreferred(files', doomed))
  BY <1>1, <1>2, <1>4, <1>4a, <1>5, EditCareful DEF old
<1>7. QED
  BY <1>1, <1>6 DEF Careful

LEMMA CarefulAdd ==
  ASSUME TypeOK, Known, Placed, Careful, NEW id, NEW step, AddStep(id, step)
  PROVE  Careful'
<1> DEFINE old == SourceInstance(id)
           list == Append(StepsOf(old), step)
           page == [old EXCEPT !.steps = list]
<1>1. /\ runtime # None /\ id \in Loaded /\ Write(id, page)
      /\ step \in Ids(files)
      /\ careless' = (careless \/ Revived(id) \/ Tangles(id, step)) /\ runtime' = runtime /\ doomed' = doomed
  BY DEF AddStep, Editing
<1>2. SUFFICES ASSUME ~careless, ~Revived(id), ~Tangles(id, step)
               PROVE  Careful'
  BY <1>1 DEF Careful
<1>4. Written(old) /\ Loads(files) /\ AsApp /\ IsService(files)
  BY <1>1, <1>2, LoadedIs DEF Careful, TypeOK
<1>3. /\ step # doomed /\ Merge(files)[step].mount = None
      /\ \A p \in Ids(files) : Winner(files, p).isa # id
      /\ id \in Ids(files) => step \notin Lineages(Merge(files))[id]
  <2>1. DOMAIN Merge(files) = Ids(files)
    BY <1>4, LoadsIs
  <2>2. QED
    BY <1>2, <2>1 DEF Tangles
<1>5. \A p \in Ids(files) : step \notin ToSet(StepsOf(Winner(files, p)))
  BY DEF AddStep
<1> HIDE DEF old
<1>6. step \in Listed
  BY <1>1, <1>4, WinnerWritten DEF Listed
<1>7. StepsOf(old) \in Seq(Listed)
  BY <1>4 DEF Written, StepsOf
<1>8. list \in Seq(Listed) /\ ToSet(list) = ToSet(StepsOf(old)) \cup {step}
  BY <1>6, <1>7, AppendRange
<1>9. list = Append(StepsOf(old), step)
  OBVIOUS
<1> HIDE DEF list
<1>10. /\ Written(page) /\ page.steps = list /\ StepsOf(page) = list
       /\ page.isa = old.isa /\ page.mount = old.mount /\ KeepsName(page, old)
  BY <1>4, <1>8, StepsEdited
<1> HIDE DEF page
<1>11. ASSUME id \notin DOMAIN files[Modules], Edited(files, files', id, page)
       PROVE  Loads(files')
  <2>1. id \in Ids(files) /\ Alike(old, Winner(files, id))
    BY <1>1, <1>2, <1>4, <1>11, Current DEF old
  <2>2. step \notin Upward(AboveOf(files))[id]
    <3>1. DOMAIN Merge(files) = Ids(files)
      BY <1>4, LoadsIs
    <3>2. Lineages(Merge(files)) = Upward(AboveOf(files))
      BY <3>1 DEF Lineages, AboveOf
    <3>3. QED
      BY <1>3, <2>1, <3>2
  <2>3. page.steps = Append(StepsOf(Winner(files, id)), step) /\ KeepsName(page, Winner(files, id))
    BY <1>9, <1>10, <2>1, AlikeIs
  <2>4. QED
    BY <1>1, <1>3, <1>4, <1>5, <1>11, <2>2, <2>3, MoreStepsLoad
<1>12. \A x \in ToSet(StepsOf(page)) :
         \/ x \in ToSet(StepsOf(old))
         \/ x \in Ids(files) /\ x # doomed /\ Merge(files)[x].mount = None
  BY <1>1, <1>3, <1>8, <1>10
<1>12a. /\ Save(id, page) /\ Loaded' = Loaded
        /\ \A p \in Loaded : SourceInstance(p)' = IF p = id THEN page ELSE SourceInstance(p)
  BY <1>1, <1>10, WriteSaves
<1>13. Loads(files') /\ AsApp' /\ (doomed # None => Unreferred(files', doomed))
  BY <1>1, <1>2, <1>10, <1>11, <1>12, <1>12a, EditCareful DEF old
<1>14. QED
  BY <1>1, <1>13 DEF Careful

\* What the instances of files that load refer to.
LEMMA RefersTo ==
  ASSUME NEW service, IsService(service), Loads(service), NEW p \in Ids(service)
  PROVE  /\ Winner(service, p).isa \in Ids(service) \cup {None}
         /\ Winner(service, p).mount \in Ids(service) \cup {None}
         /\ ToSet(StepsOf(Winner(service, p))) \subseteq Ids(service)
<1>1. Laid(service) /\ IsaFound(service) /\ Merge(service)[p].mount \in Ids(service) \cup {None}
  BY LoadsLaid DEF Laid
<1>2. Winner(service, p).isa \in Ids(service) \cup {None}
  BY <1>1 DEF IsaFound, IsaOf
<1>3. Winner(service, p).mount # None => Merge(service)[p].mount = Winner(service, p).mount
  <2>1. Merge(service)[p] = IF Winner(service, p).isa = None THEN Winner(service, p)
                            ELSE Inherit(Winner(service, p), Merge(service)[Winner(service, p).isa])
    BY <1>1, MergeIs
  <2>2. CASE Winner(service, p).isa = None
    BY <2>1, <2>2
  <2>3. CASE Winner(service, p).isa # None
    <3>1. Winner(service, p).isa \in Ids(service)
      BY <1>2, <2>3
    <3>2. /\ Merge(service)[Winner(service, p).isa].steps \in Seq(Listed) \cup {None}
          /\ Merge(service)[Winner(service, p).isa].repeatable \in BOOLEAN
      BY <1>1, <3>1, MergeIs DEF Written
    <3>3. Written(Winner(service, p))
      BY WinnerWritten
    <3>4. QED
      BY <2>1, <2>3, <3>2, <3>3, InheritIs
  <2>4. QED
    BY <2>2, <2>3
<1>4. QED
  BY <1>1, <1>2, <1>3 DEF Laid

LEMMA CarefulCreate ==
  ASSUME TypeOK, Known, Placed, Careful, NEW id \in NewPages, NEW cond \in Conds \cup {Always}, CreateInstance(id, cond)
  PROVE  Careful'
<1> DEFINE page == [Page EXCEPT !.show = cond]
<1>0. Alike(page, Page)
  BY DEF Alike, Page
<1>1. /\ runtime # None /\ id \notin Loaded
      /\ UNCHANGED <<memory, runtime, doomed, careless>>
      /\ files' = Saved(files, Service, id, page)
  BY DEF CreateInstance, Editing, Save, Saved
<1>2. SUFFICES ASSUME ~careless
               PROVE  Careful'
  BY <1>1 DEF Careful
<1>3. id \in Names /\ IsService(files) /\ IsService(files')
  BY TypeNext DEF Names, TypeOK, Next
<1>4. Loads(files) /\ AsApp /\ (doomed # None => Unreferred(files, doomed))
  BY <1>2 DEF Careful
<1> HIDE DEF page
<1>5. /\ files'[Service] = Gets(files[Service], id, page)
      /\ files'[App] = files[App] /\ files'[Modules] = files[Modules]
  BY <1>1, <1>3 DEF IsService, Saved, App, Service, Modules
<1>6. /\ DOMAIN files'[Service] = DOMAIN files[Service] \cup {id} /\ files'[Service][id] = page
      /\ \A p \in DOMAIN files[Service] \ {id} : files'[Service][p] = files[Service][p]
  BY <1>5 DEF Gets
<1>7. AsApp'
  <2>1. Loaded' = Loaded /\ \A p \in Loaded : SourceInstance(p)' = SourceInstance(p)
    BY <1>1 DEF Loaded, SourceInstance
  <2>2. QED
    BY <1>1, <1>4, <1>5, <1>6, <2>1 DEF AsApp
<1>8. /\ Ids(files) = DOMAIN files[App] \cup DOMAIN files[Service] \cup DOMAIN files[Modules]
      /\ \A p \in Ids(files) : Winner(files, p) =
           IF p \in DOMAIN files[Modules] THEN files[Modules][p]
           ELSE IF p \in DOMAIN files[Service] THEN files[Service][p] ELSE files[App][p]
  BY <1>3, WinnerIs DEF App, Service, Modules
<1>9. /\ Ids(files') = DOMAIN files'[App] \cup DOMAIN files'[Service] \cup DOMAIN files'[Modules]
      /\ \A p \in Ids(files') : Winner(files', p) =
           IF p \in DOMAIN files'[Modules] THEN files'[Modules][p]
           ELSE IF p \in DOMAIN files'[Service] THEN files'[Service][p] ELSE files'[App][p]
  BY <1>3, WinnerIs DEF App, Service, Modules
<1>10. CASE id \in Ids(files)
  <2>1. /\ id \in DOMAIN files[Service] /\ Alike(files[Service][id], Page)
        /\ id \notin DOMAIN files[App] \cup DOMAIN files[Modules]
    BY <1>1, <1>8, <1>10 DEF Placed
  <2>2. Winner(files, id) = files[Service][id]
    BY <1>8, <1>10, <2>1
  <2>3. Alike(page, Winner(files, id))
    BY <1>0, <2>1, <2>2 DEF Alike
  <2>4. /\ page.isa = Winner(files, id).isa /\ page.mount = Winner(files, id).mount
        /\ page.steps = Winner(files, id).steps /\ StepsOf(page) = StepsOf(Winner(files, id))
        /\ KeepsName(page, Winner(files, id))
    BY <2>3, AlikeIs DEF KeepsName
  <2>5. Ids(files') = Ids(files)
    BY <1>5, <1>6, <1>8, <1>9, <1>10
  <2>6. \A p \in Ids(files) : Winner(files', p) = IF p = id THEN page ELSE Winner(files, p)
    BY <1>5, <1>6, <1>8, <1>9, <2>1, <2>5
  <2>7. Edited(files, files', id, page)
    BY <1>3, <1>10, <2>4, <2>5, <2>6 DEF Edited
  <2>8. Loads(files')
    BY <1>4, <2>4, <2>7, SameStepsLoad
  <2>9. doomed # None => Unreferred(files', doomed)
    <3>1. Laid(files)
      BY <1>3, <1>4, LoadsLaid
    <3>2. \A step \in ToSet(StepsOf(page)) : step \in ToSet(StepsOf(Winner(files, id)))
      BY <2>4
    <3>3. QED
      BY <1>4, <1>5, <2>7, <3>1, <3>2, UnreferredEdited
  <2>10. QED
    BY <1>1, <1>7, <2>8, <2>9 DEF Careful
<1>11. CASE id \notin Ids(files)
  <2>1. Ids(files') = Ids(files) \cup {id}
    BY <1>5, <1>6, <1>8, <1>9
  <2>2. Winner(files', id) = page
    BY <1>5, <1>6, <1>8, <1>9, <1>11, <2>1
  <2>2a. page.isa = None /\ page.mount = None /\ StepsOf(page) = <<>> /\ page.steps = None /\ page.repeatable = FALSE
    <3>1. Page.isa = None /\ Page.mount = None /\ Page.steps = None /\ Page.repeatable = FALSE
      BY DEF Page
    <3>2. QED
      BY <1>0, <3>1, AlikeIs DEF StepsOf
  <2>3. \A p \in Ids(files) : Winner(files', p) = Winner(files, p)
    BY <1>5, <1>6, <1>8, <1>9, <1>11, <2>1
  <2>4. id # None
    BY <1>3, NamesAssumption DEF Listed
  <2>5. Larger(files, files', id)
    <3>1. \A p \in Ids(files) : /\ Winner(files, p).isa # id /\ Winner(files, p).mount # id
                                /\ id \notin ToSet(StepsOf(Winner(files, p)))
      BY <1>3, <1>4, <1>11, <2>4, RefersTo
    <3>2. QED
      BY <1>3, <1>11, <2>1, <2>3, <3>1 DEF Larger
  <2>6. Loads(files')
    BY <1>4, <2>2, <2>2a, <2>5, CreatedLoads
  <2>7. ASSUME doomed # None
        PROVE  Unreferred(files', doomed)
    <3>1. Unreferred(files, doomed)
      BY <1>4, <2>7
    <3>2. page.isa = None /\ page.mount = None /\ ToSet(StepsOf(page)) = {}
      BY <2>2a DEF ToSet
    <3>3. doomed \notin DOMAIN files'[App] \cup DOMAIN files'[Modules]
      BY <1>5, <3>1 DEF Unreferred
    <3>4. \A p \in Ids(files') : /\ Winner(files', p).isa # doomed /\ Winner(files', p).mount # doomed
                                 /\ doomed \notin ToSet(StepsOf(Winner(files', p)))
      BY <2>1, <2>2, <2>3, <2>7, <3>1, <3>2 DEF Unreferred
    <3>5. ASSUME doomed \in Ids(files'), NEW step \in ToSet(StepsOf(Winner(files', doomed)))
          PROVE  Merge(files')[step].mount = None
      <4>1. doomed \in Ids(files) /\ step \in ToSet(StepsOf(Winner(files, doomed)))
        BY <2>1, <2>2, <2>3, <3>2, <3>5
      <4>2. Merge(files)[step].mount = None /\ step \in Ids(files)
        BY <1>3, <1>4, <3>1, <4>1, RefersTo DEF Unreferred
      <4>3. IsaFound(files) /\ IsaFound(files')
        BY <1>3, <1>4, <2>6, LoadsIs
      <4>4. QED
        BY <2>5, <4>2, <4>3, LargerMerge
    <3>6. QED
      BY <3>3, <3>4, <3>5 DEF Unreferred
  <2>8. QED
    BY <1>1, <1>7, <2>6, <2>7 DEF Careful
<1>12. QED
  BY <1>10, <1>11

LEMMA CarefulDeleteFile ==
  ASSUME TypeOK, Known, Placed, Careful, DeleteFile
  PROVE  Careful'
<1>1. doomed # None /\ doomed' = None /\ UNCHANGED <<memory, runtime, careless>>
  BY DEF DeleteFile
<1>2. SUFFICES ASSUME ~careless
               PROVE  Careful'
  BY <1>1 DEF Careful
<1>3. Loads(files) /\ AsApp /\ Unreferred(files, doomed)
  BY <1>1, <1>2 DEF Careful
<1>4. IsService(files) /\ IsService(files')
  BY TypeNext DEF TypeOK, Next
<1>5. /\ DOMAIN files'[Service] = DOMAIN files[Service] \ {doomed}
      /\ \A p \in DOMAIN files[Service] \ {doomed} : files'[Service][p] = files[Service][p]
      /\ files'[App] = files[App] /\ files'[Modules] = files[Modules]
  <2>1. DOMAIN files = {1, 2, 3}
    BY <1>4 DEF IsService
  <2>2. QED
    BY <2>1 DEF DeleteFile, Restrict, App, Service, Modules
<1>6. AsApp'
  <2>1. Loaded' = Loaded /\ \A p \in Loaded : SourceInstance(p)' = SourceInstance(p)
    BY <1>1 DEF Loaded, SourceInstance
  <2>2. ASSUME runtime # None, NEW p \in Loaded, runtime.source[p] = App, p \notin DOMAIN files'[Service]
        PROVE  SourceInstance(p) = files[App][p]
    <3>1. p \in DOMAIN memory[App]
      BY <2>2, LoadedIs
    <3>2. p \in DOMAIN files[App]
      BY <2>2, <3>1 DEF Placed
    <3>3. p # doomed
      BY <1>3, <3>2 DEF Unreferred
    <3>4. QED
      BY <1>3, <1>5, <2>2, <3>3 DEF AsApp
  <2>3. QED
    BY <1>1, <1>5, <2>1, <2>2 DEF AsApp
<1>7. /\ Ids(files) = DOMAIN files[App] \cup DOMAIN files[Service] \cup DOMAIN files[Modules]
      /\ \A p \in Ids(files) : Winner(files, p) =
           IF p \in DOMAIN files[Modules] THEN files[Modules][p]
           ELSE IF p \in DOMAIN files[Service] THEN files[Service][p] ELSE files[App][p]
  BY <1>4, WinnerIs DEF App, Service, Modules
<1>8. /\ Ids(files') = DOMAIN files'[App] \cup DOMAIN files'[Service] \cup DOMAIN files'[Modules]
      /\ \A p \in Ids(files') : Winner(files', p) =
           IF p \in DOMAIN files'[Modules] THEN files'[Modules][p]
           ELSE IF p \in DOMAIN files'[Service] THEN files'[Service][p] ELSE files'[App][p]
  BY <1>4, WinnerIs DEF App, Service, Modules
<1>9. doomed \notin DOMAIN files[App] \cup DOMAIN files[Modules]
  BY <1>3 DEF Unreferred
<1>10. Loads(files')
  <2>1. CASE doomed \notin DOMAIN files[Service]
    <3>1. files[Service] = [p \in DOMAIN files[Service] |-> files[Service][p]]
          /\ files'[Service] = [p \in DOMAIN files'[Service] |-> files'[Service][p]]
      BY <1>4 DEF IsService, IsSource, Service
    <3>2. files'[Service] = files[Service]
      BY <1>5, <2>1, <3>1
    <3>3. files = [i \in {1, 2, 3} |-> files[i]] /\ files' = [i \in {1, 2, 3} |-> files'[i]]
      BY <1>4 DEF IsService
    <3>4. \A i \in {1, 2, 3} : files'[i] = files[i]
      BY <1>5, <3>2 DEF App, Service, Modules
    <3>5. QED
      BY <1>3, <3>3, <3>4
  <2>2. CASE doomed \in DOMAIN files[Service]
    <3>1. Ids(files) = Ids(files') \cup {doomed} /\ doomed \notin Ids(files')
      BY <1>5, <1>7, <1>8, <1>9, <2>2
    <3>2. \A p \in Ids(files') : Winner(files, p) = Winner(files', p)
      BY <1>5, <1>7, <1>8, <3>1
    <3>3. \A p \in Ids(files) : /\ Winner(files, p).isa # doomed /\ Winner(files, p).mount # doomed
                                /\ doomed \notin ToSet(StepsOf(Winner(files, p)))
      BY <1>3 DEF Unreferred
    <3>4. Larger(files', files, doomed)
      BY <1>4, <3>1, <3>2, <3>3 DEF Larger
    <3>5. \A step \in ToSet(StepsOf(Winner(files, doomed))) : Merge(files)[step].mount = None
      BY <1>3, <3>1 DEF Unreferred
    <3>6. QED
      BY <1>3, <3>1, <3>3, <3>4, <3>5, DeletedLoads
  <2>3. QED
    BY <2>1, <2>2
<1>11. QED
  BY <1>1, <1>6, <1>10 DEF Careful

LEMMA CarefulDelete ==
  ASSUME TypeOK, Known, Placed, Careful, NEW id, DeleteInstance(id)
  PROVE  Careful'
<1>1. /\ runtime # None /\ doomed = None /\ id \in Loaded /\ runtime.source[id] = Service
      /\ careless' = (careless \/ LeavesReferences(id)) /\ RemoveStep(id) /\ doomed' = id
  BY DEF DeleteInstance, Editing
<1>2. SUFFICES ASSUME ~careless, ~LeavesReferences(id)
               PROVE  Careful'
  BY <1>1 DEF Careful
<1>3. Loads(files) /\ AsApp /\ IsService(files)
  BY <1>2 DEF Careful, TypeOK
<1>4. /\ id \notin DOMAIN files[App]
      /\ \A p \in Ids(files) : id # Winner(files, p).isa /\ id # Winner(files, p).mount
      /\ \A p \in Ids(files) \ StepsOwner(id) : id \notin ToSet(StepsOf(Winner(files, p)))
      /\ \A p \in StepsOwner(id) :
           runtime.source[p] # Modules /\ ~Revived(p) /\ ToSet(runtime.steps[p]) \subseteq Loaded
      /\ \A p \in (StepsOwner(id) \cup {id}) \cap Ids(files) :
           \A step \in ToSet(StepsOf(Winner(files, p))) : Merge(files)[step].mount = None
  BY <1>2 DEF LeavesReferences
<1>5. id \notin DOMAIN files[App] \cup DOMAIN files[Modules]
  BY <1>1, <1>4 DEF Placed, Service, Modules
<1>6. Laid(files)
  BY <1>3, LoadsLaid
<1>7. CASE StepsOwner(id) = {}
  <2>1. UNCHANGED <<files, memory, runtime>>
    BY <1>1, <1>7 DEF RemoveStep, RemoveNoStep
  <2>2. Unreferred(files, id)
    BY <1>4, <1>5, <1>7 DEF Unreferred
  <2>3. AsApp'
    BY <1>3, <2>1 DEF AsApp, Loaded, SourceInstance
  <2>4. QED
    BY <1>1, <1>3, <2>1, <2>2, <2>3 DEF Careful
<1>8. CASE StepsOwner(id) # {}
  <2> DEFINE rest(p) == Only(runtime.steps[p], ToSet(runtime.steps[p]) \ {id})
  <2>1. PICK p \in StepsOwner(id) :
          /\ runtime' = [runtime EXCEPT !.steps[p] = rest(p)]
          /\ Write(p, [SourceInstance(p) EXCEPT !.steps = rest(p)])
    BY <1>1, <1>8 DEF RemoveStep
  <2>2. \A q \in StepsOwner(id) : /\ q \in Loaded /\ id \in ToSet(runtime.steps[q])
                                  /\ q \notin DOMAIN files[Modules] /\ ~Revived(q)
    BY <1>1, <1>4 DEF StepsOwner, Placed
  <2>3. id \in Names /\ Loaded \subseteq Names
    BY <1>1, LoadedIs
  <2>4. \A q \in StepsOwner(id) : /\ q \in Ids(files) /\ Alike(SourceInstance(q), Winner(files, q))
                                  /\ id \in ToSet(StepsOf(Winner(files, q)))
                                  /\ ToSet(runtime.steps[q]) \subseteq ToSet(StepsOf(Winner(files, q)))
    <3> TAKE q \in StepsOwner(id)
    <3>1. q \in Ids(files) /\ Alike(SourceInstance(q), Winner(files, q))
      BY <1>1, <1>3, <2>2, Current
    <3>1a. StepsOf(SourceInstance(q)) = StepsOf(Winner(files, q))
      BY <3>1, AlikeIs
    <3>2. ToSet(runtime.steps[q]) \cap Names \subseteq ToSet(StepsOf(SourceInstance(q)))
      BY <1>1, <2>2 DEF Placed
    <3>3. ToSet(runtime.steps[q]) \subseteq Names
      BY <1>4, <2>3
    <3>4. QED
      BY <2>2, <3>1, <3>1a, <3>2, <3>3
  <2>5. \A q \in StepsOwner(id) : q = p
    BY <1>6, <2>4 DEF Laid
  <2> DEFINE old == SourceInstance(p)
             list == rest(p)
             page == [old EXCEPT !.steps = list]
  <2>6. p \in DOMAIN runtime.steps /\ runtime.steps[p] \in Seq(Listed) /\ Written(old)
    BY <1>1, <2>2, LoadedIs
  <2>7. /\ list \in Seq(Listed) /\ ToSet(list) = ToSet(runtime.steps[p]) \ {id} /\ Distinct(list)
    <3>1. Distinct(runtime.steps[p])
      BY <1>1, <2>2 DEF Placed
    <3>2. list \in Seq(Listed) /\ ToSet(list) = ToSet(runtime.steps[p]) \cap (ToSet(runtime.steps[p]) \ {id})
      BY <2>6, OnlyIs
    <3>3. Distinct(list)
      BY <2>6, <3>1, OnlyDistinct
    <3>4. QED
      BY <3>2, <3>3
  <2>8. runtime'.source = runtime.source /\ Write(p, page)
    BY <1>1, <2>1 DEF TypeOK, Running
  <2> HIDE DEF rest, list, old
  <2>9. /\ Written(page) /\ page.steps # None /\ StepsOf(page) = list
        /\ page.isa = old.isa /\ page.mount = old.mount /\ KeepsName(page, old)
    BY <2>6, <2>7, StepsEdited
  <2> HIDE DEF page
  <2>10. /\ StepsOf(old) = StepsOf(Winner(files, p)) /\ old.isa = Winner(files, p).isa /\ old.mount = Winner(files, p).mount
         /\ ToSet(list) \subseteq ToSet(StepsOf(old)) /\ KeepsName(page, Winner(files, p))
    <3>1. Alike(old, Winner(files, p))
      BY <2>4 DEF old
    <3>2. QED
      BY <2>4, <2>7, <2>9, <3>1, AlikeIs
  <2>11. ASSUME Edited(files, files', p, page)
         PROVE  Loads(files')
    <3>1. StepsOf(Winner(files, p)) # <<>>
      <4>1. id \in ToSet(StepsOf(Winner(files, p)))
        BY <2>4
      <4>2. ToSet(<<>>) = {}
        BY DEF ToSet
      <4>3. QED
        BY <4>1, <4>2
    <3>2. \A step \in ToSet(StepsOf(Winner(files, p))) : Merge(files)[step].mount = None
      BY <1>4, <2>4
    <3>3. ToSet(StepsOf(page)) \subseteq ToSet(StepsOf(Winner(files, p))) /\ Distinct(StepsOf(page))
          /\ KeepsName(page, Winner(files, p))
      BY <2>7, <2>9, <2>10
    <3>4. QED
      BY <1>3, <2>9, <2>11, <3>1, <3>2, <3>3, FewerStepsLoad
  <2>12. /\ Edited(files, files', p, Wins(files, p, page)) /\ Loads(files') /\ AsApp'
    <3>1. p \in Loaded /\ ~Revived(p)
      BY <2>2
    <3>2. \A step \in ToSet(StepsOf(page)) : step \in ToSet(StepsOf(old))
      BY <2>9, <2>10
    <3>3. /\ Save(p, page) /\ Loaded' = Loaded
          /\ \A q \in Loaded : SourceInstance(q)' = IF q = p THEN page ELSE SourceInstance(q)
      BY <1>1, <2>8, <2>9, <3>1, WriteSaves
    <3>4. QED
      BY <1>1, <1>2, <2>8, <2>9, <2>11, <3>1, <3>2, <3>3, EditCareful DEF old
  <2>13. Edited(files, files', p, page)
    BY <2>2, <2>12 DEF Wins
  <2>14. Unreferred(files', id)
    <3>1. /\ Ids(files') = Ids(files) /\ IsService(files) /\ IsService(files')
          /\ \A q \in Ids(files) : Winner(files', q) = IF q = p THEN page ELSE Winner(files, q)
      BY <2>13 DEF Edited
    <3>2. id \notin DOMAIN files'[App] \cup DOMAIN files'[Modules]
      <4>1. files'[App] = files[App] /\ files'[Modules] = files[Modules]
        BY <1>1, <2>2, <2>8, <2>9, WriteIs
      <4>2. QED
        BY <1>5, <4>1
    <3>3. \A q \in Ids(files) : Winner(files', q).isa = Winner(files, q).isa /\ Winner(files', q).mount = Winner(files, q).mount
      BY <2>9, <2>10, <3>1
    <3>4. \A q \in Ids(files) : id \notin ToSet(StepsOf(Winner(files', q)))
      <4>1. id \notin ToSet(StepsOf(page))
        BY <2>7, <2>9
      <4>2. QED
        BY <1>4, <2>5, <3>1, <4>1
    <3>5. ASSUME id \in Ids(files'), NEW step \in ToSet(StepsOf(Winner(files', id)))
          PROVE  Merge(files')[step].mount = None
      <4>1. step \in ToSet(StepsOf(Winner(files, id)))
        <5>1. CASE id = p
          BY <2>9, <2>10, <3>1, <3>5, <5>1
        <5>2. CASE id # p
          BY <3>1, <3>5, <5>2
        <5>3. QED
          BY <5>1, <5>2
      <4>2. step \in Ids(files) /\ Merge(files)[step].mount = None
        BY <1>4, <1>6, <3>1, <3>5, <4>1 DEF Laid
      <4>3. \A x \in Ids(files) : Merge(files')[x].mount = Merge(files)[x].mount
        BY <1>6, <2>13, EditedIsa DEF Laid
      <4>4. QED
        BY <4>2, <4>3
    <3>6. QED
      BY <1>4, <3>1, <3>2, <3>3, <3>4, <3>5 DEF Unreferred
  <2>15. QED
    BY <1>1, <2>12, <2>14 DEF Careful
<1>9. QED
  BY <1>7, <1>8

LEMMA CarefulNext ==
  TypeOK /\ Known /\ Placed /\ Careful /\ [Next]_vars => Careful'
<1> SUFFICES ASSUME TypeOK, Known, Placed, Careful, [Next]_vars PROVE Careful'
  OBVIOUS
<1>1. CASE Restart \/ Reload
  BY <1>1, CarefulLoad
<1>2. CASE DeleteFile
  BY <1>2, CarefulDeleteFile
<1>3. ASSUME NEW id \in NewPages, NEW cond \in Conds \cup {Always}, CreateInstance(id, cond)
      PROVE  Careful'
  BY <1>3, CarefulCreate
<1>4a. ASSUME NEW id, NEW cond, SetInstance(id, cond)
       PROVE  Careful'
  BY <1>4a, CarefulSetInstance
<1>4. ASSUME NEW id, NEW cond, SetShow(id, cond)
      PROVE  Careful'
  BY <1>4, CarefulShow
<1>5. ASSUME NEW id, NEW step, AddStep(id, step)
      PROVE  Careful'
  BY <1>5, CarefulAdd
<1>6. ASSUME NEW id, SetRepeatable(id)
      PROVE  Careful'
  BY <1>6, CarefulRepeat
<1>7. ASSUME NEW id, DeleteInstance(id)
      PROVE  Careful'
  BY <1>7, CarefulDelete
<1>8. CASE UNCHANGED vars
  BY <1>8 DEF vars, Careful, AsApp, Loaded, SourceInstance
<1>9. QED
  BY <1>1, <1>2, <1>3, <1>4, <1>4a, <1>5, <1>6, <1>7, <1>8 DEF Next

\* In whatever order edits, restarts and loads are made, as long as each edit takes the care
\* that is noted in careless, a service that loads is never made one that does not.
THEOREM StaysLoaded == Spec => []StaysLoadable
<1>1. Careful => StaysLoadable
  BY DEF Careful, StaysLoadable
<1>2. QED
  BY <1>1, TypeInit, TypeNext, KnownInit, KnownNext, PlacedInit, PlacedNext, CarefulInit, CarefulNext, PTL DEF Spec
-----------------------------------------------------------------------------
(* What the edits have made *)

\* The steps of a page that have not been undone.
Free(id, gone) == {step \in Names : <<id, step>> \notin gone}

\* An instance has what it is meant to have, but for what is gone.
Agree(id, page, meant, gone) ==
  /\ \A f \in DOMAIN Page \ {"show", "steps"} : page[f] = meant[f]
  /\ <<id, "show">> \in gone \/ page.show = meant.show
  /\ page.steps = None <=> meant.steps = None
  /\ Only(StepsOf(page), Free(id, gone)) = Only(StepsOf(meant), Free(id, gone))

\* The files have what the edits should have made, but for what is undone.
Agreed ==
  /\ \A part \in undone : part[1] \in DOMAIN intended
  /\ \A id \in DOMAIN intended \ DOMAIN files[Modules] : Agree(id, files[Service][id], intended[id], undone)

LEMMA AgreeAlike ==
  ASSUME NEW id, NEW page, NEW other, Alike(page, other), NEW meant, NEW gone, NEW more,
         Agree(id, other, meant, gone), gone \subseteq more, Free(id, more) = Free(id, gone),
         <<id, "show">> \in more \/ page.show = other.show
  PROVE  Agree(id, page, meant, more)
<1>1. page.steps = other.steps /\ StepsOf(page) = StepsOf(other)
  BY AlikeIs
<1>2. \A f \in DOMAIN Page \ {"show", "steps"} : page[f] = meant[f]
  BY DEF Agree, Alike
<1>3. QED
  BY <1>1, <1>2 DEF Agree

\* What edits make of an instance that agrees with what is meant.
LEMMA AgreeEdited ==
  ASSUME NEW id, NEW page, Written(page), NEW meant, Written(meant), NEW gone, Agree(id, page, meant, gone)
  PROVE  /\ \A cond, other : Free(id, other) = Free(id, gone) =>
              Agree(id, [page EXCEPT !.show = cond], [meant EXCEPT !.show = cond], other)
         /\ \A name : Agree(id, [page EXCEPT !.repeatable = TRUE, !.namespace = name],
                                [meant EXCEPT !.repeatable = TRUE, !.namespace = name], gone)
         /\ \A list, steps \in Seq(Listed) : \A other :
              /\ Only(list, Free(id, other)) = Only(steps, Free(id, other))
              /\ <<id, "show">> \in gone => <<id, "show">> \in other
              => Agree(id, [page EXCEPT !.steps = list], [meant EXCEPT !.steps = steps], other)
<1>1. /\ page = [property \in DOMAIN Page |-> page[property]]
      /\ meant = [property \in DOMAIN Page |-> meant[property]]
  BY DEF Written
<1>2. {"steps", "show", "repeatable", "namespace"} \subseteq DOMAIN Page
  BY DEF Page
<1>3. ASSUME NEW cond, NEW other, Free(id, other) = Free(id, gone)
      PROVE  Agree(id, [page EXCEPT !.show = cond], [meant EXCEPT !.show = cond], other)
  <2> DEFINE new == [page EXCEPT !.show = cond]
             means == [meant EXCEPT !.show = cond]
  <2>1. /\ new.show = cond /\ means.show = cond
        /\ \A f \in DOMAIN Page \ {"show"} : new[f] = page[f] /\ means[f] = meant[f]
    BY <1>1, <1>2
  <2> HIDE DEF new, means
  <2>2. new.steps = page.steps /\ means.steps = meant.steps
    BY <1>2, <2>1
  <2>3. Agree(id, new, means, other)
    BY <1>3, <2>1, <2>2 DEF Agree, StepsOf
  <2>4. QED
    BY <2>3 DEF new, means
<1>4. ASSUME NEW name
      PROVE  Agree(id, [page EXCEPT !.repeatable = TRUE, !.namespace = name],
                       [meant EXCEPT !.repeatable = TRUE, !.namespace = name], gone)
  <2> DEFINE new == [page EXCEPT !.repeatable = TRUE, !.namespace = name]
             means == [meant EXCEPT !.repeatable = TRUE, !.namespace = name]
  <2>1. /\ new.repeatable = TRUE /\ means.repeatable = TRUE /\ new.namespace = name /\ means.namespace = name
        /\ \A f \in DOMAIN Page \ {"repeatable", "namespace"} : new[f] = page[f] /\ means[f] = meant[f]
    BY <1>1, <1>2
  <2> HIDE DEF new, means
  <2>2. new.steps = page.steps /\ means.steps = meant.steps /\ new.show = page.show /\ means.show = meant.show
    BY <1>2, <2>1
  <2>3. \A f \in DOMAIN Page \ {"show", "steps"} : new[f] = means[f]
    BY <2>1 DEF Agree
  <2>4. Agree(id, new, means, gone)
    BY <2>2, <2>3 DEF Agree, StepsOf
  <2>5. QED
    BY <2>4 DEF new, means
<1>5. ASSUME NEW list \in Seq(Listed), NEW steps \in Seq(Listed), NEW other,
             Only(list, Free(id, other)) = Only(steps, Free(id, other)),
             <<id, "show">> \in gone => <<id, "show">> \in other
      PROVE  Agree(id, [page EXCEPT !.steps = list], [meant EXCEPT !.steps = steps], other)
  <2> DEFINE new == [page EXCEPT !.steps = list]
             means == [meant EXCEPT !.steps = steps]
  <2>1. /\ new.steps = list /\ means.steps = steps
        /\ \A f \in DOMAIN Page \ {"steps"} : new[f] = page[f] /\ means[f] = meant[f]
    BY <1>1, <1>2
  <2>2. list # None /\ steps # None
    BY NamesAssumption
  <2> HIDE DEF new, means
  <2>3. new.show = page.show /\ means.show = meant.show
    BY <1>2, <2>1
  <2>4. \A f \in DOMAIN Page \ {"show", "steps"} : new[f] = means[f]
    BY <2>1 DEF Agree
  <2>5. StepsOf(new) = list /\ StepsOf(means) = steps
    BY <2>1, <2>2 DEF StepsOf
  <2>6. Agree(id, new, means, other)
    BY <1>5, <2>1, <2>2, <2>3, <2>4, <2>5 DEF Agree
  <2>7. QED
    BY <2>6 DEF new, means
<1>6. QED
  BY <1>3, <1>4, <1>5

\* The instance that the process has of a page, and what it is meant to be.
LEMMA SourceAgrees ==
  ASSUME TypeOK, Known, Agreed, runtime # None, NEW id \in Loaded, id \notin DOMAIN files[Modules]
  PROVE  Agree(id, SourceInstance(id), Intended(id), undone \cup Unread(id))
<1>1. Free(id, undone \cup Unread(id)) = Free(id, undone)
  BY NamesAssumption DEF Free, Unread
<1>2. CASE id \in DOMAIN intended
  <2>1. id \in DOMAIN files[Service]
    BY <1>2 DEF TypeOK
  <2>2. Alike(SourceInstance(id), files[Service][id])
    BY <2>1 DEF Known
  <2>3. Agree(id, files[Service][id], intended[id], undone) /\ Intended(id) = intended[id]
    BY <1>2 DEF Agreed, Intended
  <2>4. <<id, "show">> \in undone \cup Unread(id) \/ SourceInstance(id).show = files[Service][id].show
    BY <2>1 DEF Unread
  <2>5. QED
    BY <1>1, <2>2, <2>3, <2>4, AgreeAlike
<1>3. CASE id \notin DOMAIN intended
  BY <1>3 DEF Intended, Agree
<1>4. QED
  BY <1>2, <1>3

\* An edit that makes of an instance what is meant.
LEMMA SaveAgrees ==
  ASSUME TypeOK, TypeOK', Agreed, NEW id \in Names, NEW page, Written(page), Save(id, page),
         NEW meant, Written(meant), Intend(id, meant),
         \A part : part[1] # id => (part \in undone' <=> part \in undone),
         id \notin DOMAIN files[Modules] => Agree(id, page, meant, undone')
  PROVE  Agreed'
<1>1. /\ files'[Service] = Gets(files[Service], id, page) /\ files'[Modules] = files[Modules]
      /\ DOMAIN files'[Service] = DOMAIN files[Service] \cup {id}
  BY SaveIs
<1>2. files'[Service][id] = page /\ \A p \in DOMAIN files[Service] \ {id} : files'[Service][p] = files[Service][p]
  BY <1>1 DEF Gets
<1>3. /\ DOMAIN intended' = DOMAIN intended \cup {id} /\ DOMAIN intended = DOMAIN files[Service]
      /\ intended'[id] = meant
      /\ \A p \in DOMAIN intended \ {id} : intended'[p] = intended[p]
  BY <1>1, IntendIs DEF TypeOK
<1>4. \A part \in undone' : part[1] \in DOMAIN intended'
  BY <1>3 DEF Agreed
<1>5. ASSUME NEW p \in DOMAIN intended' \ DOMAIN files'[Modules]
      PROVE  Agree(p, files'[Service][p], intended'[p], undone')
  <2>1. CASE p = id
    BY <1>1, <1>2, <1>3, <1>5, <2>1
  <2>2. CASE p # id
    <3>1. p \in DOMAIN intended \ DOMAIN files[Modules]
      BY <1>1, <1>3, <1>5, <2>2
    <3>2. \A x : <<p, x>> \in undone' <=> <<p, x>> \in undone
      BY <2>2
    <3>3. Free(p, undone') = Free(p, undone)
      BY <3>2 DEF Free
    <3>4. Agree(p, files[Service][p], intended[p], undone)
      BY <3>1 DEF Agreed
    <3>5. Agree(p, files[Service][p], intended[p], undone')
      BY <3>2, <3>3, <3>4 DEF Agree
    <3>6. files'[Service][p] = files[Service][p] /\ intended'[p] = intended[p]
      BY <1>2, <1>3, <2>2, <3>1
    <3>7. QED
      BY <3>5, <3>6
  <2>3. QED
    BY <2>1, <2>2
<1>6. QED
  BY <1>4, <1>5 DEF Agreed

LEMMA AgreedInit ==
  Init => Agreed
BY DEF Init, Agreed, Agree

LEMMA AgreedAdd ==
  ASSUME TypeOK, TypeOK', Known, Agreed, NEW id, NEW step, AddStep(id, step)
  PROVE  Agreed'
<1> DEFINE old == SourceInstance(id)
           was == Intended(id)
           list == StepsOf(old)
           means == StepsOf(was)
           rest == Only(means, {s \in Listed : <<id, s>> \notin undone \/ s # step})
           gone == undone \cup Unread(id)
           page == [old EXCEPT !.steps = Append(list, step)]
           meant == [was EXCEPT !.steps = Append(rest, step)]
<1>1. /\ runtime # None /\ id \in Loaded /\ step \in Ids(files) /\ step \notin ToSet(list)
      /\ Write(id, page) /\ Intend(id, meant)
      /\ undone' = gone \ {<<id, step>>}
  BY DEF AddStep, Editing
<1>2. id \in Names /\ Written(old) /\ Written(was) /\ step \in Listed /\ step \in Names
  BY <1>1, LoadedIs, WinnerWritten DEF TypeOK, Listed
<1>3. list \in Seq(Listed) /\ means \in Seq(Listed)
  BY <1>2 DEF Written, StepsOf
<1>4. rest \in Seq(Listed) /\ Append(list, step) \in Seq(Listed)
  BY <1>2, <1>3, OnlyIs
<1>5. Append(rest, step) \in Seq(Listed)
  BY <1>2, <1>4
<1>6. \A part : part[1] # id => (part \in undone' <=> part \in undone)
  BY <1>1 DEF Unread
<1> DEFINE F == Free(id, gone)
           G == Free(id, undone')
<1>7. G = F \cup {step} /\ F \subseteq Listed
  BY <1>1, <1>2 DEF Free, Listed
<1>8. ASSUME id \notin DOMAIN files[Modules]
      PROVE  Agree(id, page, meant, undone')
  <2>1. Agree(id, old, was, gone)
    BY <1>1, <1>8, SourceAgrees
  <2>2. Only(list, F) = Only(means, F)
    BY <2>1 DEF Agree
  <2>3. Only(Append(list, step), G) = Append(Only(list, F), step)
    <3>1. Only(Append(list, step), G) = Append(Only(list, G), step)
      <4> HIDE DEF list, G
      <4>1. step \in G
        BY <1>7
      <4>2. QED
        BY <1>2, <1>3, <4>1, OnlyAppend
    <3>2. ToSet(list) \cap G = ToSet(list) \cap F
      BY <1>1, <1>7
    <3> HIDE DEF list, F, G
    <3>3. Only(list, G) = Only(list, F)
      BY <1>3, <3>2, OnlySame
    <3>4. QED
      BY <3>1, <3>3
  <2>4. Only(Append(rest, step), G) = Append(Only(means, F), step)
    <3>1. Only(Append(rest, step), G) = Append(Only(rest, G), step)
      <4> HIDE DEF rest, G
      <4>1. step \in G
        BY <1>7
      <4>2. QED
        BY <1>2, <1>4, <4>1, OnlyAppend
    <3>2. Only(rest, G) = Only(means, F)
      <4> DEFINE X == {s \in Listed : <<id, s>> \notin undone \/ s # step}
      <4>1. CASE <<id, step>> \in undone
        <5>1. X = Listed \ {step} /\ step \notin F /\ F \subseteq X
          BY <1>2, <1>7, <4>1 DEF Free
        <5>2. rest = Only(means, X)
          OBVIOUS
        <5> HIDE DEF X, F, G, means, rest
        <5>3. ToSet(rest) = ToSet(means) \cap X
          BY <1>3, <5>2, OnlyIs
        <5>4. ToSet(rest) \cap G = ToSet(rest) \cap F
          BY <1>7, <5>1, <5>3
        <5>5. Only(rest, G) = Only(rest, F)
          BY <1>4, <5>4, OnlySame
        <5>6. Only(rest, F) = Only(means, F)
          BY <1>3, <5>1, <5>2, OnlyOnly
        <5>7. QED
          BY <5>5, <5>6
      <4>2. CASE <<id, step>> \notin undone
        <5>1. X = Listed
          BY <4>2
        <5>2. G = F
          <6>1. <<id, step>> \notin Unread(id)
            BY <1>2, NamesAssumption DEF Unread
          <6>2. step \in F
            BY <1>2, <4>2, <6>1 DEF Free
          <6>3. QED
            BY <1>7, <6>2
        <5>3. rest = Only(means, X)
          OBVIOUS
        <5>4. ToSet(means) \subseteq Listed
          BY <1>3 DEF ToSet
        <5> HIDE DEF X, F, G, means, rest
        <5>5. rest = means
          BY <1>3, <5>1, <5>3, <5>4, OnlyLen
        <5>6. QED
          BY <5>2, <5>5
      <4>3. QED
        BY <4>1, <4>2
    <3>3. QED
      BY <3>1, <3>2
  <2>5. Only(Append(list, step), G) = Only(Append(rest, step), G)
    BY <2>2, <2>3, <2>4
  <2>6. <<id, "show">> \in gone => <<id, "show">> \in undone'
    <3>1. <<id, "show">> # <<id, step>>
      BY <1>2, NamesAssumption
    <3>2. QED
      BY <1>1, <3>1
  <2> HIDE DEF old, was, gone, rest, list
  <2>7. QED
    BY <1>2, <1>4, <1>5, <2>1, <2>5, <2>6, AgreeEdited
<1>9. Written(page) /\ Written(meant)
  <2> HIDE DEF old, was, rest, list
  <2>1. QED
    BY <1>2, <1>4, <1>5, StepsEdited
<1>10. Save(id, page)
  BY <1>1 DEF Write
<1> HIDE DEF page, meant
<1>11. QED
  BY <1>1, <1>2, <1>6, <1>8, <1>9, <1>10, SaveAgrees

LEMMA AgreedDelete ==
  ASSUME TypeOK, TypeOK', Known, Agreed, NEW id, DeleteInstance(id)
  PROVE  Agreed'
<1>1. runtime # None /\ RemoveStep(id)
  BY DEF DeleteInstance, Editing
<1>2. CASE StepsOwner(id) = {}
  BY <1>1, <1>2 DEF RemoveStep, RemoveNoStep, Agreed
<1>3. CASE StepsOwner(id) # {}
  <2> DEFINE R(p) == runtime.steps[p]
             left(p) == Only(R(p), ToSet(R(p)) \ {id})
             was(p) == IF Intended(p).steps = None THEN R(p) ELSE Intended(p).steps
             lost(p) == {<<p, step>> : step \in ToSet(was(p)) \ ToSet(R(p))}
  <2>1. PICK p \in StepsOwner(id) :
          /\ Write(p, [SourceInstance(p) EXCEPT !.steps = left(p)])
          /\ Intend(p, [Intended(p) EXCEPT !.steps = Only(was(p), Names \ {id})])
          /\ undone' = undone \cup Unread(p) \cup lost(p)
    BY <1>1, <1>3 DEF RemoveStep
  <2>2. p \in Loaded
    BY DEF StepsOwner
  <2> DEFINE old == SourceInstance(p)
             means == Intended(p)
             steps == R(p)
             before == was(p)
             gone == undone \cup Unread(p)
             list == left(p)
             rest == Only(before, Names \ {id})
             G == Free(p, undone')
             F == Free(p, gone)
             page == [old EXCEPT !.steps = list]
             meant == [means EXCEPT !.steps = rest]
  <2>3. p \in Names /\ Written(old) /\ Written(means) /\ steps \in Seq(Listed)
    BY <1>1, <2>2, LoadedIs
  <2>4. before \in Seq(Listed)
    BY <2>3 DEF Written
  <2>5. list \in Seq(Listed) /\ rest \in Seq(Listed)
    <3>1. list = Only(steps, ToSet(steps) \ {id})
      OBVIOUS
    <3> HIDE DEF list, before, steps
    <3>2. QED
      BY <2>3, <2>4, <3>1, OnlyIs
  <2>6. Written(page) /\ Written(meant)
    <3> HIDE DEF old, means, list, rest
    <3>1. QED
      BY <2>3, <2>5, StepsEdited
  <2>7. \A part : part[1] # p => (part \in undone' <=> part \in undone)
    BY <2>1 DEF Unread
  <2>8. \A step \in ToSet(before) \ ToSet(steps) : <<p, step>> \in undone'
    BY <2>1
  <2>9. gone \subseteq undone'
    BY <2>1
  <2>10. ASSUME p \notin DOMAIN files[Modules]
         PROVE  Agree(p, page, meant, undone')
    <3>1. Agree(p, old, means, gone)
      BY <1>1, <2>2, <2>10, SourceAgrees
    <3>2. G \subseteq F /\ G \subseteq Names /\ ToSet(before) \cap G \subseteq ToSet(steps)
      BY <2>8, <2>9 DEF Free
    <3>3. Only(before, G) = Only(steps, G)
      <4>1. CASE means.steps = None
        BY <4>1
      <4>2. CASE means.steps # None
        <5>1. before = StepsOf(means) /\ Only(StepsOf(old), F) = Only(before, F)
          BY <3>1, <4>2 DEF Agree, StepsOf
        <5>2. Only(StepsOf(old), ToSet(steps) \cap Names) = Only(steps, Names)
          BY <1>1, <2>2 DEF Known
        <5>3. StepsOf(old) \in Seq(Listed)
          BY <2>3 DEF Written, StepsOf
        <5> DEFINE H == G \cap ToSet(steps)
                   own == StepsOf(old)
        <5> HIDE DEF before, own, F, G, steps
        <5>4. Only(before, G) = Only(before, H)
          <6>1. ToSet(before) \cap G = ToSet(before) \cap H
            BY <3>2
          <6> HIDE DEF H
          <6>2. QED
            BY <2>4, <6>1, OnlySame
        <5>5. Only(before, H) = Only(own, H)
          <6>1. H \subseteq F
            BY <3>2
          <6> HIDE DEF H
          <6>2. Only(Only(before, F), H) = Only(before, H)
            BY <2>4, <6>1, OnlyOnly
          <6>3. Only(Only(own, F), H) = Only(own, H)
            BY <5>3, <6>1, OnlyOnly DEF own
          <6>4. QED
            BY <5>1, <6>2, <6>3 DEF own
        <5>6. Only(own, H) = Only(steps, H)
          <6>1. H \subseteq ToSet(steps) \cap Names /\ H \subseteq Names
            BY <3>2
          <6> HIDE DEF H
          <6>2. Only(Only(own, ToSet(steps) \cap Names), H) = Only(own, H)
            BY <5>3, <6>1, OnlyOnly DEF own
          <6>3. Only(Only(steps, Names), H) = Only(steps, H)
            BY <2>3, <6>1, OnlyOnly
          <6>4. QED
            BY <5>2, <6>2, <6>3 DEF own
        <5>7. Only(steps, H) = Only(steps, G)
          <6>1. ToSet(steps) \cap H = ToSet(steps) \cap G
            OBVIOUS
          <6> HIDE DEF H
          <6>2. QED
            BY <2>3, <6>1, OnlySame
        <5>8. QED
          BY <5>4, <5>5, <5>6, <5>7
      <4>3. QED
        BY <4>1, <4>2
    <3>4. Only(list, G) = Only(steps, G \ {id})
      <4>1. list = Only(steps, ToSet(steps) \ {id})
        OBVIOUS
      <4> HIDE DEF list, G, steps
      <4>2. ToSet(list) = ToSet(steps) \cap (ToSet(steps) \ {id})
        BY <2>3, <4>1, OnlyIs
      <4>3. Only(list, G) = Only(list, ToSet(list) \cap G)
        BY <2>5, OnlySame
      <4>4. Only(list, ToSet(list) \cap G) = Only(steps, ToSet(list) \cap G)
        <5>1. \A A, B : B \subseteq A => Only(Only(steps, A), B) = Only(steps, B)
          BY <2>3, OnlyOnly
        <5>2. ToSet(list) \cap G \subseteq ToSet(steps) \ {id}
          BY <4>2
        <5>3. QED
          BY <4>1, <5>1, <5>2
      <4>5. ToSet(steps) \cap (ToSet(list) \cap G) = ToSet(steps) \cap (G \ {id})
        BY <4>2
      <4>6. Only(steps, ToSet(list) \cap G) = Only(steps, G \ {id})
        BY <2>3, <4>5, OnlySame
      <4>7. QED
        BY <4>3, <4>4, <4>6
    <3>5. Only(rest, G) = Only(before, G \ {id})
      <4>1. rest = Only(before, Names \ {id})
        OBVIOUS
      <4> HIDE DEF rest, G, before
      <4>2. ToSet(rest) = ToSet(before) \cap (Names \ {id})
        BY <2>4, <4>1, OnlyIs
      <4>3. Only(rest, G) = Only(rest, G \ {id})
        <5>1. ToSet(rest) \cap G = ToSet(rest) \cap (G \ {id})
          BY <4>2
        <5>2. QED
          BY <2>5, <5>1, OnlySame
      <4>4. Only(rest, G \ {id}) = Only(before, G \ {id})
        <5>1. G \ {id} \subseteq Names \ {id}
          BY <3>2
        <5>2. QED
          BY <2>4, <4>1, <5>1, OnlyOnly
      <4>5. QED
        BY <4>3, <4>4
    <3>6. Only(steps, G \ {id}) = Only(before, G \ {id})
      <4>1. G \ {id} \subseteq G
        OBVIOUS
      <4> HIDE DEF G, steps, before
      <4>2. Only(Only(steps, G), G \ {id}) = Only(steps, G \ {id})
        BY <2>3, <4>1, OnlyOnly
      <4>3. Only(Only(before, G), G \ {id}) = Only(before, G \ {id})
        BY <2>4, <4>1, OnlyOnly
      <4>4. QED
        BY <3>3, <4>2, <4>3
    <3>7. Only(list, G) = Only(rest, G) /\ (<<p, "show">> \in gone => <<p, "show">> \in undone')
      BY <2>9, <3>4, <3>5, <3>6
    <3> HIDE DEF old, means, list, rest, gone
    <3>8. QED
      BY <2>3, <2>5, <3>1, <3>7, AgreeEdited
  <2>11. Save(p, page) /\ Intend(p, meant)
    BY <2>1 DEF Write
  <2> HIDE DEF page, meant
  <2>12. QED
    BY <2>3, <2>6, <2>7, <2>10, <2>11, SaveAgrees
<1>4. QED
  BY <1>2, <1>3

LEMMA AgreedNext ==
  TypeOK /\ Known /\ Placed /\ Agreed /\ [Next]_vars => Agreed'
<1> SUFFICES ASSUME TypeOK, Known, Placed, Agreed, [Next]_vars PROVE Agreed'
  OBVIOUS
<1>0. TypeOK'
  BY TypeNext
<1>1. CASE Restart \/ Reload
  BY <1>1, LoadIs DEF Agreed
<1>2. CASE DeleteFile
  <2>1. /\ intended' = Restrict(intended, DOMAIN intended \ {doomed})
        /\ undone' = {part \in undone : part[1] # doomed}
    BY <1>2 DEF DeleteFile
  <2>2. /\ DOMAIN files'[Service] = DOMAIN files[Service] \ {doomed}
        /\ \A p \in DOMAIN files[Service] \ {doomed} : files'[Service][p] = files[Service][p]
        /\ files'[Modules] = files[Modules]
    <3>1. DOMAIN files = {1, 2, 3}
      BY DEF TypeOK, IsService
    <3>2. QED
      BY <1>2, <3>1 DEF DeleteFile, Restrict, Service, Modules
  <2>3. /\ DOMAIN intended' = DOMAIN intended \ {doomed}
        /\ \A p \in DOMAIN intended \ {doomed} : intended'[p] = intended[p]
    BY <2>1 DEF Restrict
  <2>4. ASSUME NEW p \in DOMAIN intended' \ DOMAIN files'[Modules]
        PROVE  Agree(p, files'[Service][p], intended'[p], undone')
    <3>1. p \in DOMAIN intended \ DOMAIN files[Modules] /\ p # doomed /\ p \in DOMAIN files[Service]
      BY <2>2, <2>3, <2>4 DEF TypeOK
    <3>2. \A x : <<p, x>> \in undone' <=> <<p, x>> \in undone
      BY <2>1, <3>1
    <3>3. Free(p, undone') = Free(p, undone)
      BY <3>2 DEF Free
    <3>4. Agree(p, files[Service][p], intended[p], undone)
      BY <3>1 DEF Agreed
    <3>5. Agree(p, files[Service][p], intended[p], undone')
      BY <3>2, <3>3, <3>4 DEF Agree
    <3>6. files'[Service][p] = files[Service][p] /\ intended'[p] = intended[p]
      BY <2>2, <2>3, <3>1
    <3>7. QED
      BY <3>5, <3>6
  <2>5. \A part \in undone' : part[1] \in DOMAIN intended'
    BY <2>1, <2>3 DEF Agreed
  <2>6. QED
    BY <2>4, <2>5 DEF Agreed
<1>3. ASSUME NEW id \in NewPages, NEW cond \in Conds \cup {Always}, CreateInstance(id, cond)
      PROVE  Agreed'
  <2> DEFINE page == [Page EXCEPT !.show = cond]
  <2>1. runtime # None /\ id \notin Loaded /\ Save(id, page) /\ id \in Names
    BY <1>3 DEF CreateInstance, Editing, Names
  <2>2. Alike(page, Page)
    BY DEF Alike, Page
  <2>3. Written(page)
    BY PageWritten, ShowEdited
  <2>4. CASE id \notin DOMAIN intended
    <3>1. Intend(id, page) /\ undone' = undone
      BY <1>3, <2>4 DEF CreateInstance
    <3>2. Agree(id, page, page, undone)
      BY DEF Agree
    <3> HIDE DEF page
    <3>3. QED
      BY <1>0, <2>1, <2>3, <3>1, <3>2, SaveAgrees
  <2>5. CASE id \in DOMAIN intended
    <3> HIDE DEF page
    <3>1. intended' = intended /\ undone' = undone \cup {<<id, "show">>}
      BY <1>3, <2>5 DEF CreateInstance
    <3>2. /\ files'[Service] = Gets(files[Service], id, page) /\ files'[Modules] = files[Modules]
      BY <2>1, <2>3, SaveIs
    <3>3. files'[Service][id] = page /\ \A p \in DOMAIN files[Service] \ {id} : files'[Service][p] = files[Service][p]
      BY <3>2 DEF Gets
    <3>4. id \in DOMAIN files[Service]
      BY <2>5 DEF TypeOK
    <3>5. Alike(files[Service][id], Page)
      <4>1. id \in Ids(files)
        BY <3>4, WinnerIs DEF TypeOK, Service
      <4>2. QED
        BY <2>1, <4>1 DEF Placed
    <3>6. Alike(page, files[Service][id])
      BY <2>2, <3>5 DEF Alike
    <3>7. ASSUME NEW p \in DOMAIN intended' \ DOMAIN files'[Modules]
          PROVE  Agree(p, files'[Service][p], intended'[p], undone')
      <4>1. Agree(p, files[Service][p], intended[p], undone) /\ p \in DOMAIN files[Service]
        BY <3>1, <3>2, <3>7 DEF Agreed, TypeOK
      <4>2. Free(p, undone') = Free(p, undone) /\ undone \subseteq undone'
        BY <3>1, NamesAssumption DEF Free
      <4>3. CASE p = id
        <5>1. Agree(id, files[Service][id], intended[id], undone) /\ Free(id, undone') = Free(id, undone)
          BY <4>1, <4>2, <4>3
        <5>2. undone \subseteq undone' /\ <<id, "show">> \in undone'
          BY <3>1
        <5>3. Agree(id, page, intended[id], undone')
          BY <3>6, <5>1, <5>2, AgreeAlike
        <5>4. QED
          BY <3>1, <3>3, <4>3, <5>3
      <4>4. CASE p # id
        <5>1. Alike(files[Service][p], files[Service][p])
          BY DEF Alike
        <5>2. Agree(p, files[Service][p], intended[p], undone')
          BY <4>1, <4>2, <5>1, AgreeAlike
        <5>3. QED
          BY <3>1, <3>3, <4>1, <4>4, <5>2
      <4>5. QED
        BY <4>3, <4>4
    <3>8. \A part \in undone' : part[1] \in DOMAIN intended'
      BY <2>5, <3>1 DEF Agreed
    <3>9. QED
      BY <3>7, <3>8 DEF Agreed
  <2>6. QED
    BY <2>4, <2>5
<1>4. ASSUME NEW id, NEW cond, SetShow(id, cond) \/ SetInstance(id, cond)
      PROVE  Agreed'
  <2> DEFINE old == SourceInstance(id)
             was == Intended(id)
             page == [old EXCEPT !.show = cond]
             meant == [was EXCEPT !.show = cond]
             gone == undone \cup Unread(id)
  <2>1. /\ runtime # None /\ id \in Loaded /\ Save(id, page) /\ Intend(id, meant)
        /\ undone' = undone \ {<<id, "show">>}
    BY <1>4 DEF SetShow, SetInstance, Editing, Write
  <2>2. id \in Names /\ Written(old) /\ Written(was)
    BY <2>1, LoadedIs
  <2>3. Written(page) /\ Written(meant)
    <3> HIDE DEF old, was
    <3>1. QED
      BY <2>2, ShowEdited
  <2>4. ASSUME id \notin DOMAIN files[Modules]
        PROVE  Agree(id, page, meant, undone')
    <3>1. Agree(id, old, was, gone)
      BY <2>1, <2>4, SourceAgrees
    <3>2. Free(id, undone') = Free(id, gone)
      BY <2>1, NamesAssumption DEF Free, Unread
    <3> HIDE DEF old, was, gone
    <3>3. QED
      BY <2>2, <3>1, <3>2, AgreeEdited
  <2>5. \A part : part[1] # id => (part \in undone' <=> part \in undone)
    BY <2>1
  <2> HIDE DEF page, meant
  <2>6. QED
    BY <1>0, <2>1, <2>2, <2>3, <2>4, <2>5, SaveAgrees
<1>5. ASSUME NEW id, SetRepeatable(id)
      PROVE  Agreed'
  <2> DEFINE old == SourceInstance(id)
             was == Intended(id)
             name == AutoNamespace(id)
             page == [old EXCEPT !.repeatable = TRUE, !.namespace = name]
             meant == [was EXCEPT !.repeatable = TRUE, !.namespace = name]
  <2>1. /\ runtime # None /\ id \in Loaded /\ Save(id, page) /\ Intend(id, meant)
        /\ undone' = undone \cup Unread(id)
    BY <1>5 DEF SetRepeatable, Editing, Write
  <2>2. id \in Names /\ Written(old) /\ Written(was) /\ name # None
    BY <2>1, LoadedIs, AutoNamespaceIs
  <2>3. Written(page) /\ Written(meant)
    <3> HIDE DEF old, was, name
    <3>1. QED
      BY <2>2, RepeatEdited
  <2>4. ASSUME id \notin DOMAIN files[Modules]
        PROVE  Agree(id, page, meant, undone')
    <3>1. Agree(id, old, was, undone')
      BY <2>1, <2>4, SourceAgrees
    <3> HIDE DEF old, was, name
    <3>2. QED
      BY <2>2, <3>1, AgreeEdited
  <2>5. \A part : part[1] # id => (part \in undone' <=> part \in undone)
    BY <2>1 DEF Unread
  <2> HIDE DEF page, meant
  <2>6. QED
    BY <1>0, <2>1, <2>2, <2>3, <2>4, <2>5, SaveAgrees
<1>6. ASSUME NEW id, NEW step, AddStep(id, step)
      PROVE  Agreed'
  BY <1>0, <1>6, AgreedAdd
<1>7. ASSUME NEW id, DeleteInstance(id)
      PROVE  Agreed'
  BY <1>0, <1>7, AgreedDelete
<1>8. CASE UNCHANGED vars
  BY <1>8 DEF vars, Agreed
<1>9. QED
  BY <1>1, <1>2, <1>3, <1>4, <1>5, <1>6, <1>7, <1>8 DEF Next

\* Whatever edits are made, in whatever order with restarts and loads, the file of a page is
\* what they should have made of it, but for what undone says (service-data.js).
THEOREM EditsAreKept == Spec => []EditsKept
<1>1. TypeOK /\ Agreed => EditsKept
  <2> SUFFICES ASSUME TypeOK, Agreed, NEW id \in DOMAIN intended \ DOMAIN files[Modules]
               PROVE  LET Kept(page) ==
                            [page EXCEPT !.show = IF <<id, "show">> \in undone THEN Always ELSE @,
                                         !.steps = IF @ = None THEN None
                                                   ELSE Only(@, {step \in Names : <<id, step>> \notin undone})]
                      IN  Kept(Winner(files, id)) = Kept(intended[id])
    BY DEF EditsKept
  <2> DEFINE page == files[Service][id]
             meant == intended[id]
             F == Free(id, undone)
             show(any) == IF <<id, "show">> \in undone THEN Always ELSE any.show
             steps(any) == IF any.steps = None THEN None ELSE Only(any.steps, F)
  <2>1. Agree(id, page, meant, undone) /\ id \in DOMAIN files[Service]
    BY DEF Agreed, TypeOK
  <2>2. Winner(files, id) = page
    BY <2>1, WinnerIs DEF TypeOK, Service, Modules
  <2>3. Written(page) /\ Written(meant)
    BY <2>1 DEF TypeOK, IsService, IsSource, Service
  <2>4. show(page) = show(meant) /\ steps(page) = steps(meant)
    BY <2>1 DEF Agree, StepsOf
  <2>5. /\ page = [f \in DOMAIN Page |-> page[f]] /\ meant = [f \in DOMAIN Page |-> meant[f]]
        /\ "show" \in DOMAIN Page /\ "steps" \in DOMAIN Page
    BY <2>3 DEF Written, Page
  <2>6. \A f \in DOMAIN Page \ {"show", "steps"} : page[f] = meant[f]
    BY <2>1 DEF Agree
  <2>7. F = {step \in Names : <<id, step>> \notin undone}
    BY DEF Free
  <2> DEFINE Kept(any) == [any EXCEPT !.show = show(any), !.steps = steps(any)]
  <2>8. Kept(page) = Kept(meant)
    <3> HIDE DEF page, meant, show, steps
    <3>1. \A f \in DOMAIN Page : Kept(page)[f] = Kept(meant)[f]
      BY <2>4, <2>5, <2>6
    <3>2. Kept(page) = [f \in DOMAIN Page |-> Kept(page)[f]] /\ Kept(meant) = [f \in DOMAIN Page |-> Kept(meant)[f]]
      BY <2>5
    <3> HIDE DEF Kept
    <3>3. QED
      BY <3>1, <3>2
  <2>9. QED
    BY <2>2, <2>7, <2>8
<1>2. QED
  BY <1>1, TypeInit, TypeNext, KnownInit, KnownNext, PlacedInit, PlacedNext, AgreedInit, AgreedNext, PTL DEF Spec


-----------------------------------------------------------------------------
(* Conditions within conditions *)

\* Conditions that are nested no deeper than a number, as the definition says.
LEMMA NestedIs ==
  ASSUME NEW n \in Nat
  PROVE  Nested[n] = IF n = 0 THEN Simple ELSE Grouped(Nested[n - 1])
<1> DEFINE Is(f, m) == \A i \in 0..m : f[i] = IF i = 0 THEN Simple ELSE Grouped(f[i - 1])
           has(m) == CHOOSE f : Is(f, m)
           F == [i \in Nat |-> has(i)[i]]
           nested == CHOOSE f : f = [i \in Nat |-> IF i = 0 THEN Simple ELSE Grouped(f[i - 1])]
<1>1. ASSUME NEW f, NEW g, NEW k \in Nat, Is(f, k), Is(g, k)
      PROVE  f[k] = g[k]
  <2> DEFINE Good == {i \in 0..k : f[i] = g[i]}
  <2>1. 0 \in Good
    BY <1>1
  <2>2. ASSUME NEW i \in 1..k, i - 1 \in Good
        PROVE  i \in Good
    <3>1. f[i] = Grouped(f[i - 1]) /\ g[i] = Grouped(g[i - 1])
      BY <1>1
    <3>2. f[i - 1] = g[i - 1]
      BY <2>2
    <3>3. QED
      BY <3>1, <3>2
  <2>3. Good \in SUBSET (0..k)
    OBVIOUS
  <2> HIDE DEF Good
  <2>4. Good = 0..k
    BY <2>1, <2>2, <2>3, DownInduction
  <2>5. QED
    BY <2>4 DEF Good
<1>2. ASSUME NEW k \in Nat
      PROVE  \E f : Is(f, k)
  <2> DEFINE Good == {i \in 0..k : \E f : Is(f, i)}
  <2>1. 0 \in Good
    <3> DEFINE g == [i \in {0} |-> Simple]
    <3>1. \A i \in 0..0 : i = 0 /\ g[i] = Simple
      OBVIOUS
    <3> HIDE DEF g
    <3>2. Is(g, 0)
      BY <3>1
    <3>3. QED
      BY <3>2
  <2>2. ASSUME NEW i \in 1..k, i - 1 \in Good
        PROVE  i \in Good
    <3>1. PICK f : Is(f, i - 1)
      BY <2>2
    <3> DEFINE g == [j \in 0..i |-> IF j = i THEN Grouped(f[i - 1]) ELSE f[j]]
    <3>2. ASSUME NEW j \in 0..i
          PROVE  g[j] = IF j = 0 THEN Simple ELSE Grouped(g[j - 1])
      <4>1. CASE j = i
        <5>1. g[j] = Grouped(f[i - 1]) /\ g[i - 1] = f[i - 1]
          BY <4>1
        <5> HIDE DEF g
        <5>2. QED
          BY <4>1, <5>1
      <4>2. CASE j # i
        <5>1. j \in 0..(i - 1) /\ g[j] = f[j] /\ (j # 0 => g[j - 1] = f[j - 1])
          BY <4>2
        <5> HIDE DEF g
        <5>2. QED
          BY <3>1, <5>1
      <4>3. QED
        BY <4>1, <4>2
    <3> HIDE DEF g
    <3>3. Is(g, i)
      BY <3>2
    <3>4. QED
      BY <3>3
  <2>3. Good \in SUBSET (0..k)
    OBVIOUS
  <2> HIDE DEF Good
  <2>4. Good = 0..k
    BY <2>1, <2>2, <2>3, DownInduction
  <2>5. QED
    BY <2>4 DEF Good
<1>3. \A k \in Nat : Is(has(k), k)
  <2> HIDE DEF Is
  <2>1. QED
    BY <1>2
<1>4. ASSUME NEW i \in Nat
      PROVE  F[i] = IF i = 0 THEN Simple ELSE Grouped(F[i - 1])
  <2>1. CASE i = 0
    <3>1. has(0)[0] = Simple
      <4> HIDE DEF has
      <4>1. QED
        BY <1>3
    <3>2. QED
      BY <2>1, <3>1
  <2>2. CASE i # 0
    <3>1. has(i)[i] = Grouped(has(i)[i - 1])
      <4> HIDE DEF has
      <4>1. QED
        BY <1>3, <2>2
    <3>2. Is(has(i), i - 1) /\ Is(has(i - 1), i - 1)
      <4> HIDE DEF has
      <4>1. QED
        BY <1>3, <2>2
    <3>3. has(i)[i - 1] = has(i - 1)[i - 1]
      <4> HIDE DEF has, Is
      <4>1. QED
        BY <1>1, <2>2, <3>2
    <3>4. QED
      BY <2>2, <3>1, <3>3
  <2>3. QED
    BY <2>1, <2>2
<1>5. F = [i \in Nat |-> IF i = 0 THEN Simple ELSE Grouped(F[i - 1])]
  <2>1. F = [i \in Nat |-> F[i]]
    OBVIOUS
  <2> HIDE DEF F
  <2>2. QED
    BY <1>4, <2>1
<1>6. nested = [i \in Nat |-> IF i = 0 THEN Simple ELSE Grouped(nested[i - 1])]
  <2> HIDE DEF F
  <2>1. QED
    BY <1>5
<1>7. Nested = nested
  BY DEF Nested
<1> HIDE DEF nested
<1>8. QED
  BY <1>6, <1>7

LEMMA GroupsGrow ==
  ASSUME NEW S, NEW T, S \subseteq T
  PROVE  Groups(S) \subseteq Groups(T)
BY DEF Groups

LEMMA NestedGrows ==
  ASSUME NEW n \in Nat, NEW m \in 0..n
  PROVE  Nested[m] \subseteq Nested[n]
<1>1. ASSUME NEW k \in Nat
      PROVE  Nested[k] \subseteq Nested[k + 1]
  <2> DEFINE Good == {i \in 0..k : Nested[i] \subseteq Nested[i + 1]}
  <2>1. 0 \in Good
    <3>1. Nested[0] = Simple /\ Nested[0 + 1] = Grouped(Nested[0])
      BY NestedIs
    <3>2. QED
      BY <3>1 DEF Grouped
  <2>2. ASSUME NEW i \in 1..k, i - 1 \in Good
        PROVE  i \in Good
    <3>1. Nested[i] = Grouped(Nested[i - 1]) /\ Nested[i + 1] = Grouped(Nested[i])
      BY NestedIs
    <3>2. Nested[i - 1] \subseteq Nested[i]
      BY <2>2
    <3>3. Groups(Nested[i - 1]) \subseteq Groups(Nested[i])
      BY <3>2, GroupsGrow
    <3>3a. Grouped(Nested[i - 1]) \subseteq Grouped(Nested[i])
      BY <3>3 DEF Grouped
    <3>4. QED
      BY <3>1, <3>3a
  <2>3. Good \in SUBSET (0..k)
    OBVIOUS
  <2> HIDE DEF Good
  <2>4. Good = 0..k
    BY <2>1, <2>2, <2>3, DownInduction
  <2>5. QED
    BY <2>4 DEF Good
<1> DEFINE Good == {i \in 0..(n - m) : Nested[m] \subseteq Nested[m + i]}
<1>2. 0 \in Good
  OBVIOUS
<1>3. ASSUME NEW i \in 1..(n - m), i - 1 \in Good
      PROVE  i \in Good
  <2>1. m + (i - 1) \in Nat /\ (m + (i - 1)) + 1 = m + i
    OBVIOUS
  <2>2. Nested[m + (i - 1)] \subseteq Nested[m + i]
    BY <1>1, <2>1
  <2>3. QED
    BY <1>3, <2>2
<1>4. Good \in SUBSET (0..(n - m)) /\ n - m \in Nat /\ m + (n - m) = n
  OBVIOUS
<1> HIDE DEF Good
<1>5. Good = 0..(n - m)
  BY <1>2, <1>3, <1>4, DownInduction
<1>6. n - m \in Good
  BY <1>4, <1>5
<1>7. QED
  BY <1>4, <1>6 DEF Good

\* The members of a condition are nested less deep than it.
LEMMA MembersIs ==
  ASSUME NEW n \in 0..Nesting, NEW cond \in Nested[n]
  PROVE  /\ Members(cond) \in Seq(Nested[IF n = 0 THEN 0 ELSE n - 1])
         /\ n = 0 => Members(cond) = <<>>
         /\ Members(cond) # <<>> => Members(cond) = cond.conditions
<1>1. n \in Nat /\ Nesting \in Nat
  BY SimpleAssumption
<1>2. Nested[n] = IF n = 0 THEN Simple ELSE Grouped(Nested[n - 1])
  BY <1>1, NestedIs
<1>3. CASE cond \in Simple
  <2>1. Members(cond) = <<>>
    BY <1>3, SimpleAssumption DEF Members
  <2>2. QED
    BY <2>1
<1>4. CASE cond \notin Simple
  <2>1. n # 0 /\ cond \in Groups(Nested[n - 1])
    BY <1>2, <1>4 DEF Grouped
  <2>2. cond \notin {Always, Never}
    BY <1>4, SimpleAssumption
  <2>3. cond.kind # "expression" /\ cond.conditions \in Seq(Nested[n - 1])
    BY <2>1 DEF Groups
  <2>4. QED
    BY <2>1, <2>2, <2>3 DEF Members
<1>5. QED
  BY <1>3, <1>4

LEMMA NestedRanked ==
  LET pre == [cond \in Nested[Nesting] |-> ToSet(Members(cond))]
  IN  pre \in [Nested[Nesting] -> SUBSET Nested[Nesting]] /\ Ranked(pre)
<1> DEFINE All_ == Nested[Nesting]
           pre == [cond \in All_ |-> ToSet(Members(cond))]
<1>1. Nesting \in Nat
  BY SimpleAssumption
<1>2. ASSUME NEW n \in 0..Nesting, NEW cond \in Nested[n]
      PROVE  /\ cond \in All_
             /\ IF n = 0 THEN pre[cond] = {} ELSE pre[cond] \subseteq Nested[n - 1]
  <2>1. cond \in All_
    BY <1>1, NestedGrows
  <2> HIDE DEF All_
  <2>2. pre[cond] = ToSet(Members(cond))
    BY <2>1
  <2>3. CASE n = 0
    <3>1. Members(cond) = <<>>
      BY <2>3, MembersIs
    <3>2. QED
      BY <2>1, <2>2, <2>3, <3>1 DEF ToSet
  <2>4. CASE n # 0
    <3>1. Members(cond) \in Seq(Nested[n - 1])
      BY <2>4, MembersIs
    <3>2. ToSet(Members(cond)) \subseteq Nested[n - 1]
      BY <3>1 DEF ToSet
    <3>3. QED
      BY <2>1, <2>2, <2>4, <3>2
  <2>5. QED
    BY <2>3, <2>4
<1>3. pre \in [All_ -> SUBSET All_]
  <2>1. ASSUME NEW cond \in All_
        PROVE  pre[cond] \subseteq All_
    <3>1. Nesting \in 0..Nesting /\ (Nesting # 0 => Nesting - 1 \in 0..Nesting)
      BY <1>1
    <3>2. IF Nesting = 0 THEN pre[cond] = {} ELSE pre[cond] \subseteq Nested[Nesting - 1]
      BY <1>2, <3>1
    <3>3. Nesting # 0 => Nested[Nesting - 1] \subseteq All_
      BY <1>1, <3>1, NestedGrows
    <3> HIDE DEF All_, pre
    <3>4. QED
      BY <3>2, <3>3
  <2>2. pre = [cond \in All_ |-> pre[cond]]
    OBVIOUS
  <2> HIDE DEF All_, pre
  <2>3. QED
    BY <2>1, <2>2
<1>4. ASSUME NEW T \in SUBSET All_, T # {}
      PROVE  \E q \in T : pre[q] \cap T = {}
  <2> DEFINE A == {n \in 0..Nesting : T \cap Nested[n] # {}}
  <2>1. A \in SUBSET Nat /\ Nesting \in A
    BY <1>1, <1>4
  <2>2. PICK m \in A : \A n \in A : m <= n
    <3> HIDE DEF A
    <3>1. QED
      BY <2>1, Least
  <2>3. PICK q \in T : q \in Nested[m]
    OBVIOUS
  <2>4. CASE m = 0
    <3>1. pre[q] = {}
      <4> HIDE DEF pre
      <4>1. QED
        BY <1>2, <2>3, <2>4
    <3> HIDE DEF pre
    <3>2. QED
      BY <3>1
  <2>5. CASE m # 0
    <3>1. m \in 0..Nesting /\ m \in Nat
      BY <1>1
    <3>2. pre[q] \subseteq Nested[m - 1]
      <4> HIDE DEF pre
      <4>1. QED
        BY <1>2, <2>3, <2>5, <3>1
    <3>3. m - 1 \notin A /\ m - 1 \in 0..Nesting
      <4>1. m - 1 \in 0..Nesting /\ ~(m <= m - 1)
        BY <1>1, <2>5, <3>1
      <4> HIDE DEF A
      <4>2. QED
        BY <2>2, <4>1
    <3>4. T \cap Nested[m - 1] = {}
      BY <3>3
    <3> HIDE DEF pre
    <3>5. QED
      BY <3>2, <3>4
  <2>6. QED
    BY <2>4, <2>5
<1>5. DOMAIN pre = All_
  OBVIOUS
<1> HIDE DEF pre, All_
<1>6. Ranked(pre)
  BY <1>4, <1>5 DEF Ranked
<1>7. QED
  BY <1>3, <1>6 DEF pre, All_

\* The places of the members of a condition that a function of conditions is true of.
TrueOf(f, cond) == {i \in DOMAIN Members(cond) : f[Members(cond)[i]]}

LEMMA NestedPlaces ==
  ASSUME NEW cond \in Nested[Nesting]
  PROVE  /\ DOMAIN Members(cond) \in SUBSET Nat /\ IsFiniteSet(DOMAIN Members(cond))
         /\ \A i \in DOMAIN Members(cond) : Members(cond)[i] \in Nested[Nesting]
<1>1. Nesting \in Nat /\ Nesting \in 0..Nesting
  BY SimpleAssumption
<1>2. PICK n \in 0..Nesting : Members(cond) \in Seq(Nested[n])
  BY <1>1, MembersIs
<1>3. Nested[n] \subseteq Nested[Nesting]
  BY <1>1, NestedGrows
<1>4. DOMAIN Members(cond) = 1..Len(Members(cond)) /\ Len(Members(cond)) \in Nat
  BY <1>2
<1>5. IsFiniteSet(1..Len(Members(cond)))
  BY <1>4, FS_Interval
<1>6. QED
  BY <1>2, <1>3, <1>4, <1>5

LEMMA TrueRecurs ==
  ASSUME NEW G \in [Nested[Nesting] \X SUBSET Nat -> BOOLEAN]
  PROVE  \E f \in [Nested[Nesting] -> BOOLEAN] :
           \A cond \in Nested[Nesting] : f[cond] = G[<<cond, TrueOf(f, cond)>>]
<1> DEFINE S == Nested[Nesting]
           pre == [cond \in S |-> ToSet(Members(cond))]
           H == [x \in S \X [S -> BOOLEAN] |-> G[<<x[1], TrueOf(x[2], x[1])>>]]
<1>1. pre \in [S -> SUBSET S] /\ Ranked(pre)
  BY NestedRanked
<1>2. \A cond \in S : pre[cond] = ToSet(Members(cond)) /\ DOMAIN Members(cond) \in SUBSET Nat
  BY NestedPlaces
<1>3. \A cond \in S : \A f \in [S -> BOOLEAN] : TrueOf(f, cond) \in SUBSET Nat
  BY <1>2 DEF TrueOf
<1> HIDE DEF S, pre
<1>4. \A cond \in S : \A f \in [S -> BOOLEAN] : H[<<cond, f>>] = G[<<cond, TrueOf(f, cond)>>]
  OBVIOUS
<1>5. H \in [S \X [S -> BOOLEAN] -> BOOLEAN]
  BY <1>3 DEF S
<1>6. ASSUME NEW cond \in S, NEW f \in [S -> BOOLEAN], NEW g \in [S -> BOOLEAN],
             \A p \in pre[cond] : f[p] = g[p]
      PROVE  H[<<cond, f>>] = H[<<cond, g>>]
  <2>1. \A i \in DOMAIN Members(cond) : Members(cond)[i] \in pre[cond]
    BY <1>2 DEF ToSet
  <2>2. TrueOf(f, cond) = TrueOf(g, cond)
    BY <1>6, <2>1 DEF TrueOf
  <2> HIDE DEF H
  <2>3. QED
    BY <1>4, <2>2
<1>6a. \A cond \in S : \A f, g \in [S -> BOOLEAN] :
         (\A p \in pre[cond] : f[p] = g[p]) => H[<<cond, f>>] = H[<<cond, g>>]
  <2> HIDE DEF H
  <2>1. QED
    BY <1>6
<1> HIDE DEF H
<1>7. RecursOver(S, pre, BOOLEAN, H)
  BY <1>1, <1>5, <1>6a DEF RecursOver
<1>7a. \E f \in [S -> BOOLEAN] : \A cond \in S : f[cond] = H[<<cond, f>>]
  BY <1>7, RankedRecursion
<1>7b. PICK f \in [S -> BOOLEAN] : \A cond \in S : f[cond] = H[<<cond, f>>]
  BY <1>7a
<1>8. QED
  BY <1>4, <1>7b DEF S

LEMMA ExpressedIs ==
  ASSUME NEW cond, NEW data, NEW scope
  PROVE  Expressed(cond, data, scope) \in BOOLEAN
BY DEF Expressed, Passes

LEMMA HoldsIs ==
  ASSUME NEW cond, NEW met, NEW data, NEW scope
  PROVE  Holds(cond, met, data, scope) \in BOOLEAN
BY DEF Holds

LEMMA SaysIs ==
  ASSUME NEW cond, NEW met, NEW data, NEW scope
  PROVE  Says(cond, met, data, scope) \in BOOLEAN
BY DEF Says

\* What a condition evaluates to in terms of its members.
LEMMA EvaluateIs ==
  ASSUME NEW cond \in Nested[Nesting], NEW data, NEW scope
  PROVE  /\ Evaluate(cond, data, scope) \in BOOLEAN
         /\ Evaluate(cond, data, scope) =
              Holds(cond, {i \in DOMAIN Members(cond) : Evaluate(Members(cond)[i], data, scope)}, data, scope)
<1> DEFINE S == Nested[Nesting]
           G == [x \in S \X SUBSET Nat |-> Holds(x[1], x[2], data, scope)]
           holds == CHOOSE f : f = [c \in S |-> Holds(c, TrueOf(f, c), data, scope)]
<1>1. G \in [S \X SUBSET Nat -> BOOLEAN]
  BY HoldsIs
<1>2. \A c \in S : \A met \in SUBSET Nat : G[<<c, met>>] = Holds(c, met, data, scope)
  <2> HIDE DEF S
  <2>1. QED
    OBVIOUS
<1>3. \A c \in S : \A f : TrueOf(f, c) \in SUBSET Nat
  BY NestedPlaces DEF TrueOf
<1> HIDE DEF G
<1>4. PICK f \in [S -> BOOLEAN] : \A c \in S : f[c] = G[<<c, TrueOf(f, c)>>]
  BY <1>1, TrueRecurs
<1>5. f = [c \in S |-> Holds(c, TrueOf(f, c), data, scope)]
  <2> HIDE DEF S
  <2>1. QED
    BY <1>2, <1>3, <1>4
<1>6. holds = [c \in S |-> Holds(c, TrueOf(holds, c), data, scope)]
  <2> HIDE DEF S
  <2>1. QED
    BY <1>5
<1>7. \A c : Evaluate(c, data, scope) = holds[c]
  BY DEF Evaluate, TrueOf
<1> HIDE DEF holds
<1>8. {i \in DOMAIN Members(cond) : Evaluate(Members(cond)[i], data, scope)} = TrueOf(holds, cond)
  BY <1>7 DEF TrueOf
<1>9. holds[cond] = Holds(cond, TrueOf(holds, cond), data, scope)
  <2> HIDE DEF S
  <2>1. cond \in S
    BY DEF S
  <2>2. QED
    BY <1>6, <2>1
<1>10. QED
  BY <1>7, <1>8, <1>9, HoldsIs

\* What the documentation says of a condition in terms of its members.
LEMMA DocumentedIs ==
  ASSUME NEW cond \in Nested[Nesting], NEW data, NEW scope
  PROVE  /\ Documented(cond, data, scope) \in BOOLEAN
         /\ Documented(cond, data, scope) =
              Says(cond, {i \in DOMAIN Members(cond) : Documented(Members(cond)[i], data, scope)}, data, scope)
<1> DEFINE S == Nested[Nesting]
           G == [x \in S \X SUBSET Nat |-> Says(x[1], x[2], data, scope)]
           means == CHOOSE f : f = [c \in S |-> Says(c, TrueOf(f, c), data, scope)]
<1>1. G \in [S \X SUBSET Nat -> BOOLEAN]
  BY SaysIs
<1>2. \A c \in S : \A met \in SUBSET Nat : G[<<c, met>>] = Says(c, met, data, scope)
  <2> HIDE DEF S
  <2>1. QED
    OBVIOUS
<1>3. \A c \in S : \A f : TrueOf(f, c) \in SUBSET Nat
  BY NestedPlaces DEF TrueOf
<1> HIDE DEF G
<1>4. PICK f \in [S -> BOOLEAN] : \A c \in S : f[c] = G[<<c, TrueOf(f, c)>>]
  BY <1>1, TrueRecurs
<1>5. f = [c \in S |-> Says(c, TrueOf(f, c), data, scope)]
  <2> HIDE DEF S
  <2>1. QED
    BY <1>2, <1>3, <1>4
<1>6. means = [c \in S |-> Says(c, TrueOf(means, c), data, scope)]
  <2> HIDE DEF S
  <2>1. QED
    BY <1>5
<1>7. \A c : Documented(c, data, scope) = means[c]
  BY DEF Documented, TrueOf
<1> HIDE DEF means
<1>8. {i \in DOMAIN Members(cond) : Documented(Members(cond)[i], data, scope)} = TrueOf(means, cond)
  BY <1>7 DEF TrueOf
<1>9. means[cond] = Says(cond, TrueOf(means, cond), data, scope)
  <2> HIDE DEF S
  <2>1. cond \in S
    BY DEF S
  <2>2. QED
    BY <1>6, <2>1
<1>10. QED
  BY <1>7, <1>8, <1>9, SaysIs

\* A group evaluates to what the documentation says of the members that do.
LEMMA HoldsAsSays ==
  ASSUME NEW cond \in Nested[Nesting], NEW met \in SUBSET DOMAIN Members(cond), NEW data, NEW scope
  PROVE  Holds(cond, met, data, scope) = Says(cond, met, data, scope)
<1>1. CASE cond \in {Always, Never}
  BY <1>1, SimpleAssumption DEF Holds, Says
<1>2. CASE cond \in Simple \ {Always, Never}
  <2>1. cond.kind = "expression" /\ cond.negated \in BOOLEAN
    BY <1>2, SimpleAssumption
  <2>2. QED
    BY <1>2, <2>1, ExpressedIs DEF Holds, Says
<1>3. CASE cond \notin Simple
  <2>1. PICK T : cond \in Groups(T) /\ cond \notin {Always, Never}
    BY <1>3, NestedIs, SimpleAssumption DEF Grouped
  <2>2. /\ cond.kind \in {"all", "any", "exactly"} /\ cond.met \in Nat /\ cond.negated \in BOOLEAN
        /\ Members(cond) = cond.conditions
    BY <2>1 DEF Groups, Members
  <2>3. IsFiniteSet(met)
    BY NestedPlaces, FS_Subset
  <2>4. Cardinality(met) \in Nat /\ (Cardinality(met) = 0 <=> met = {})
    BY <2>3, FS_CardinalityType, FS_EmptySet
  <2>5. Cardinality(met) = 1 <=> \E i \in DOMAIN Members(cond) : met = {i}
    <3>1. Cardinality(met) = 1 <=> \E i : met = {i}
      BY <2>3, FS_Singleton
    <3>2. QED
      BY <3>1
  <2>6. Cardinality(met) >= 1 <=> \E i \in DOMAIN Members(cond) : i \in met
    BY <2>4
  <2>7. met = DOMAIN Members(cond) <=> \A i \in DOMAIN Members(cond) : i \in met
    OBVIOUS
  <2>8. CASE cond.kind = "all"
    BY <2>1, <2>2, <2>7, <2>8 DEF Holds, Says
  <2>9. CASE cond.kind = "any"
    <3>1. CASE cond.met = 0
      <4>1. Holds(cond, met, data, scope) = ((Cardinality(met) >= 1) # cond.negated)
        BY <2>1, <2>2, <2>9, <3>1 DEF Holds
      <4>2. Says(cond, met, data, scope) =
              ((\E i \in DOMAIN Members(cond) : i \in met) <=> ~cond.negated)
        BY <2>1, <2>2, <2>9, <3>1 DEF Says
      <4>3. QED
        BY <2>2, <2>6, <4>1, <4>2
    <3>2. CASE cond.met # 0
      BY <2>1, <2>2, <2>9, <3>2 DEF Holds, Says
    <3>3. QED
      BY <3>1, <3>2
  <2>10. CASE cond.kind = "exactly"
    BY <2>1, <2>2, <2>4, <2>5, <2>10 DEF Holds, Says
  <2>11. QED
    BY <2>2, <2>8, <2>9, <2>10
<1>4. QED
  BY <1>1, <1>2, <1>3

\* Every condition, however deep its groups are nested, is evaluated (evaluate-condition.js)
\* to what the documentation says of it, for any data and scope.
THEOREM ConditionsAsDocumented ==
  ASSUME NEW cond \in Nested[Nesting], NEW data, NEW scope
  PROVE  Evaluate(cond, data, scope) = Documented(cond, data, scope)
<1> DEFINE S == Nested[Nesting]
           pre == [c \in S |-> ToSet(Members(c))]
           Good == {c \in S : Evaluate(c, data, scope) = Documented(c, data, scope)}
<1>1. pre \in [S -> SUBSET S] /\ Ranked(pre)
  BY NestedRanked
<1>2. ASSUME NEW c \in S, pre[c] \subseteq Good
      PROVE  c \in Good
  <2> DEFINE met == {i \in DOMAIN Members(c) : Evaluate(Members(c)[i], data, scope)}
  <2>1. \A i \in DOMAIN Members(c) :
          Evaluate(Members(c)[i], data, scope) = Documented(Members(c)[i], data, scope)
    BY <1>2 DEF ToSet
  <2>2. met = {i \in DOMAIN Members(c) : Documented(Members(c)[i], data, scope)}
    BY <2>1
  <2>3. Holds(c, met, data, scope) = Says(c, met, data, scope)
    BY HoldsAsSays
  <2>4. Evaluate(c, data, scope) = Holds(c, met, data, scope)
    BY EvaluateIs
  <2>5. Documented(c, data, scope) = Says(c, met, data, scope)
    BY <2>2, DocumentedIs
  <2>6. QED
    BY <2>3, <2>4, <2>5
<1>3. Good \in SUBSET S
  OBVIOUS
<1> HIDE DEF Good, pre
<1>4. Good = S
  BY <1>1, <1>2, <1>3, RankedInduction
<1>5. QED
  BY <1>4 DEF Good

-----------------------------------------------------------------------------
(* The conditions of a load *)

\* What the load makes of conditions: a group around the groups that it makes of those of
\* the components, which are around what the files have.
Laden == {cond \in Nested[Nesting] :
            cond \in Nested[Nesting - 1] \/ (cond \in Groups(Nested[Nesting - 1]) /\ cond.kind = "all")}

\* A condition that means the same when it is joined with others.
Plain(cond) == cond \in {Always, Never} \/ ~(cond.kind = "all" /\ cond.negated)

LEMMA NestingIs ==
  /\ Nesting \in Nat /\ Nesting - 1 \in 0..Nesting /\ Nesting - 2 \in 0..Nesting
  /\ Nesting \in 0..Nesting /\ (Nesting - 1) - 1 = Nesting - 2
  /\ Nesting # 0 /\ Nesting - 1 # 0 /\ Nesting - 1 \in Nat /\ Nesting - 2 \in Nat /\ Nesting - 2 \in 0..(Nesting - 1)
BY SimpleAssumption, ConditionsAssumption

LEMMA LadenIs ==
  /\ Filed \subseteq Nested[Nesting - 1] /\ Nested[Nesting - 1] \subseteq Laden /\ Laden \subseteq Nested[Nesting]
  /\ Groups(Filed) \subseteq Nested[Nesting - 1]
  /\ Groups(Nested[Nesting - 1]) \subseteq Nested[Nesting]
  /\ Always \in Filed /\ Never \in Filed
<1>1. Filed \subseteq Nested[Nesting - 1] /\ Nested[Nesting - 1] \subseteq Nested[Nesting]
  BY NestingIs, NestedGrows DEF Filed
<1>2. Nested[Nesting - 1] = Grouped(Filed) /\ Nested[Nesting] = Grouped(Nested[Nesting - 1])
  BY NestingIs, NestedIs DEF Filed
<1>3. Simple \subseteq Filed
  <2>1. Nested[0] = Simple
    BY NestedIs
  <2>2. 0 \in 0..(Nesting - 2)
    BY NestingIs
  <2>3. QED
    BY <2>1, <2>2, NestingIs, NestedGrows DEF Filed
<1>4. QED
  BY <1>1, <1>2, <1>3, SimpleAssumption DEF Laden, Grouped

\* What a group of one of the kinds that the load makes evaluates to.
LEMMA GroupIs ==
  ASSUME NEW n \in 0..(Nesting - 1), NEW cond \in Groups(Nested[n]), NEW data, NEW scope, cond.negated = FALSE
  PROVE  /\ cond \notin {Always, Never} /\ cond \in Nested[Nesting]
         /\ cond.kind = "all" =>
              (Evaluate(cond, data, scope) <=>
                 \A i \in DOMAIN cond.conditions : Evaluate(cond.conditions[i], data, scope))
         /\ cond.kind = "any" /\ cond.met = 0 =>
              (Evaluate(cond, data, scope) <=>
                 \E i \in DOMAIN cond.conditions : Evaluate(cond.conditions[i], data, scope))
<1>1. n \in Nat /\ n \in 0..Nesting /\ n + 1 \in 0..Nesting /\ (n + 1) - 1 = n /\ n + 1 # 0 /\ n + 1 \in Nat /\ Nesting \in Nat
  BY NestingIs
<1>2. cond \notin {Always, Never}
  BY <1>1, SimpleAssumption
<1>3. cond \in Nested[n + 1]
  BY <1>1, NestedIs DEF Grouped
<1>4. cond \in Nested[Nesting]
  BY <1>1, <1>3, NestedGrows
<1>5. Members(cond) = cond.conditions /\ cond.kind \in {"all", "any", "exactly"}
  BY <1>2 DEF Members, Groups
<1> DEFINE met == {i \in DOMAIN Members(cond) : Evaluate(Members(cond)[i], data, scope)}
<1>6. Evaluate(cond, data, scope) = Holds(cond, met, data, scope) /\ Evaluate(cond, data, scope) \in BOOLEAN
  BY <1>4, EvaluateIs
<1>7. Holds(cond, met, data, scope) = Says(cond, met, data, scope)
  <2>1. met \in SUBSET DOMAIN Members(cond)
    OBVIOUS
  <2> HIDE DEF met
  <2>2. QED
    BY <1>4, <2>1, HoldsAsSays
<1>8. /\ \A i \in DOMAIN Members(cond) : i \in met <=> Evaluate(Members(cond)[i], data, scope)
      /\ met \subseteq DOMAIN Members(cond)
  BY <1>6
<1> HIDE DEF met
<1>9. ASSUME cond.kind = "all"
      PROVE  Evaluate(cond, data, scope) <=>
               \A i \in DOMAIN cond.conditions : Evaluate(cond.conditions[i], data, scope)
  <2>1. Says(cond, met, data, scope) <=> \A i \in DOMAIN cond.conditions : i \in met
    BY <1>2, <1>9 DEF Says
  <2>2. QED
    BY <1>5, <1>6, <1>7, <1>8, <2>1
<1>10. ASSUME cond.kind = "any", cond.met = 0
       PROVE  Evaluate(cond, data, scope) <=>
                \E i \in DOMAIN cond.conditions : Evaluate(cond.conditions[i], data, scope)
  <2>1. Says(cond, met, data, scope) <=> \E i \in DOMAIN cond.conditions : i \in met
    BY <1>2, <1>10 DEF Says
  <2>2. QED
    BY <1>5, <1>6, <1>7, <1>8, <2>1
<1>11. QED
  BY <1>2, <1>4, <1>9, <1>10

LEMMA BooleansAre ==
  ASSUME NEW data, NEW scope
  PROVE  Evaluate(Always, data, scope) = TRUE /\ Evaluate(Never, data, scope) = FALSE
<1>1. Always \in Nested[Nesting] /\ Never \in Nested[Nesting]
  BY LadenIs
<1>2. \A met : Holds(Always, met, data, scope) = TRUE /\ Holds(Never, met, data, scope) = FALSE
  BY SimpleAssumption DEF Holds
<1>3. /\ Evaluate(Always, data, scope) =
           Holds(Always, {i \in DOMAIN Members(Always) : Evaluate(Members(Always)[i], data, scope)}, data, scope)
      /\ Evaluate(Never, data, scope) =
           Holds(Never, {i \in DOMAIN Members(Never) : Evaluate(Members(Never)[i], data, scope)}, data, scope)
  BY <1>1, EvaluateIs
<1>4. QED
  BY <1>2, <1>3, Zenon

\* The list of conditions that a condition stands for when it is joined with others.
Pieces(cond) == IF cond # Never /\ cond.kind = "all" THEN cond.conditions ELSE <<cond>>

LEMMA PiecesIs ==
  ASSUME NEW cond \in Laden, cond # Always, NEW data, NEW scope
  PROVE  /\ Pieces(cond) \in Seq(Nested[Nesting - 1])
         /\ Plain(cond) => (Evaluate(cond, data, scope) <=> \A c \in ToSet(Pieces(cond)) : Evaluate(c, data, scope))
<1>1. CASE cond = Never \/ cond.kind # "all"
  <2>1. cond \in Nested[Nesting - 1]
    BY <1>1, LadenIs DEF Laden
  <2>2. Pieces(cond) = <<cond>>
    BY <1>1 DEF Pieces
  <2>3. ToSet(<<cond>>) = {cond}
    BY DEF ToSet
  <2>4. \A S : cond \in S => <<cond>> \in Seq(S)
    OBVIOUS
  <2>5. Pieces(cond) \in Seq(Nested[Nesting - 1])
    BY <2>1, <2>2, <2>4, Zenon
  <2>6. \A c \in ToSet(Pieces(cond)) : c = cond
    BY <2>2, <2>3
  <2>7. cond \in ToSet(Pieces(cond))
    BY <2>2, <2>3
  <2>8. QED
    BY <2>5, <2>6, <2>7, Zenon
<1>2. CASE cond # Never /\ cond.kind = "all"
  <2>1. cond \notin Simple
    BY <1>2, SimpleAssumption
  <2>2. PICK n \in 0..(Nesting - 1) : cond \in Groups(Nested[n])
    <3>1. CASE cond \in Nested[Nesting - 1]
      <4>1. Nested[Nesting - 1] = Grouped(Nested[Nesting - 2])
        BY NestingIs, NestedIs
      <4>2. QED
        BY <2>1, <3>1, <4>1, NestingIs DEF Grouped
    <3>2. CASE cond \in Groups(Nested[Nesting - 1])
      BY <3>2, NestingIs
    <3>3. QED
      BY <3>1, <3>2 DEF Laden
  <2>3. Pieces(cond) = cond.conditions
    BY <1>2 DEF Pieces
  <2>4. cond.conditions \in Seq(Nested[n]) /\ cond.negated \in BOOLEAN
    BY <2>2 DEF Groups
  <2>5. Nested[n] \subseteq Nested[Nesting - 1]
    BY NestingIs, NestedGrows
  <2>6. cond.conditions \in Seq(Nested[Nesting - 1])
    BY <2>4, <2>5
  <2>7. ASSUME Plain(cond)
        PROVE  Evaluate(cond, data, scope) <=> \A c \in ToSet(Pieces(cond)) : Evaluate(c, data, scope)
    <3>1. cond.negated = FALSE
      BY <1>2, <2>4, <2>7 DEF Plain
    <3>2. Evaluate(cond, data, scope) <=>
            \A i \in DOMAIN cond.conditions : Evaluate(cond.conditions[i], data, scope)
      BY <1>2, <2>2, <3>1, GroupIs
    <3>3. (\A i \in DOMAIN cond.conditions : Evaluate(cond.conditions[i], data, scope)) <=>
            \A c \in ToSet(cond.conditions) : Evaluate(c, data, scope)
      BY DEF ToSet
    <3>4. QED
      BY <2>3, <3>2, <3>3
  <2>8. QED
    BY <2>3, <2>6, <2>7
<1>3. QED
  BY <1>1, <1>2

LEMMA AllIs ==
  ASSUME NEW conds \in Seq(Laden), NEW data, NEW scope
  PROVE  /\ All(conds) \in Laden
         /\ (\A i \in DOMAIN conds : Plain(conds[i])) =>
              /\ Plain(All(conds))
              /\ Evaluate(All(conds), data, scope) <=> \A i \in DOMAIN conds : Evaluate(conds[i], data, scope)
<1> DEFINE Ev(c) == Evaluate(c, data, scope)
           defined == Only(conds, ToSet(conds) \ {Always})
           pieces == [i \in DOMAIN defined |-> Pieces(defined[i])]
           flat == FlattenSeq(pieces)
           group == Group("all", flat)
           plain == \A i \in DOMAIN conds : Plain(conds[i])
<1>1. defined \in Seq(Laden) /\ ToSet(defined) = ToSet(conds) \ {Always}
  BY OnlyIs
<1>2. All(conds) = CASE Len(defined) = 0 -> Always
                     [] Len(defined) = 1 -> defined[1]
                     [] OTHER -> group
  BY DEF All, Pieces
<1>3. Always \in Laden /\ Plain(Always) /\ Ev(Always) = TRUE
  BY LadenIs, BooleansAre DEF Plain
<1>4. \A c : c \in ToSet(conds) <=> \E i \in DOMAIN conds : c = conds[i]
  BY DEF ToSet
<1>5. plain <=> \A c \in ToSet(conds) : Plain(c)
  BY <1>4
<1>6. (\A i \in DOMAIN conds : Ev(conds[i])) <=> \A c \in ToSet(conds) : Ev(c)
  BY <1>4
<1>7. (\A c \in ToSet(conds) : Ev(c)) <=> \A c \in ToSet(defined) : Ev(c)
  <2> HIDE DEF Ev, defined
  <2>1. QED
    BY <1>1, <1>3
<1>8. DOMAIN defined = 1..Len(defined) /\ Len(defined) \in Nat /\ \A i \in DOMAIN defined : defined[i] \in ToSet(defined)
  <2> HIDE DEF defined
  <2>1. DOMAIN defined = 1..Len(defined) /\ Len(defined) \in Nat
    BY <1>1
  <2>2. \A i \in DOMAIN defined : defined[i] \in ToSet(defined)
    BY DEF ToSet
  <2>3. QED
    BY <2>1, <2>2
<1>9. \A c \in ToSet(defined) : \E i \in DOMAIN defined : c = defined[i]
  BY DEF ToSet
<1>10. \A c \in ToSet(defined) : c \in Laden /\ c # Always /\ (plain => Plain(c))
  <2>1. \A c \in ToSet(conds) : c \in Laden
    BY DEF ToSet
  <2> HIDE DEF defined, plain
  <2>2. QED
    BY <1>1, <1>5, <2>1
<1>11. CASE Len(defined) = 0
  <2>1. All(conds) = Always
    BY <1>2, <1>11
  <2>2. \A c \in ToSet(defined) : Ev(c)
    <3> HIDE DEF defined, Ev
    <3>1. QED
      BY <1>8, <1>9, <1>11
  <2> HIDE DEF Ev, defined
  <2>3. QED
    BY <1>3, <1>6, <1>7, <2>1, <2>2 DEF Ev
<1>12. CASE Len(defined) = 1
  <2>1. All(conds) = defined[1]
    <3> HIDE DEF group, defined
    <3>1. QED
      BY <1>2, <1>12
  <2>2. 1 \in DOMAIN defined /\ \A c \in ToSet(defined) : c = defined[1]
    <3> HIDE DEF defined
    <3>1. QED
      BY <1>8, <1>9, <1>12
  <2>3. defined[1] \in ToSet(defined)
    <3> HIDE DEF defined
    <3>1. QED
      BY <1>8, <2>2
  <2>4. defined[1] \in Laden /\ (plain => Plain(defined[1]))
    <3> HIDE DEF defined, plain
    <3>1. QED
      BY <1>10, <2>3
  <2>5. (\A c \in ToSet(defined) : Ev(c)) <=> Ev(defined[1])
    <3>1. Ev(defined[1]) \in BOOLEAN
      <4> HIDE DEF defined
      <4>1. QED
        BY <2>4, LadenIs, EvaluateIs
    <3> HIDE DEF defined, Ev
    <3>2. QED
      BY <2>2, <2>3, <3>1
  <2>6. QED
    <3>1. Evaluate(All(conds), data, scope) <=> \A i \in DOMAIN conds : Evaluate(conds[i], data, scope)
      <4>1. Ev(All(conds)) <=> Ev(defined[1])
        BY <2>1
      <4> HIDE DEF Ev, defined
      <4>2. Ev(All(conds)) <=> \A i \in DOMAIN conds : Ev(conds[i])
        BY <1>6, <1>7, <2>5, <4>1
      <4>3. QED
        BY <4>2 DEF Ev
    <3> HIDE DEF defined
    <3>2. QED
      BY <2>1, <2>4, <3>1
<1>13. CASE Len(defined) # 0 /\ Len(defined) # 1
  <2>1. All(conds) = group
    <3> HIDE DEF group, defined
    <3>1. QED
      BY <1>2, <1>13
  <2>2. \A i \in DOMAIN defined : Pieces(defined[i]) \in Seq(Nested[Nesting - 1])
    <3> HIDE DEF defined
    <3>1. QED
      BY <1>8, <1>10, PiecesIs
  <2>3. /\ pieces \in Seq(Seq(Nested[Nesting - 1])) /\ Len(pieces) # 0
        /\ DOMAIN pieces = DOMAIN defined /\ \A i \in DOMAIN defined : pieces[i] = Pieces(defined[i])
    <3>1. \A i \in DOMAIN defined : pieces[i] = Pieces(defined[i])
      OBVIOUS
    <3>2. pieces = [i \in 1..Len(defined) |-> pieces[i]] /\ DOMAIN pieces = DOMAIN defined
      <4> HIDE DEF defined
      <4>1. QED
        BY <1>8
    <3> HIDE DEF defined, pieces
    <3>3. pieces \in [1..Len(defined) -> Seq(Nested[Nesting - 1])]
      BY <1>8, <2>2, <3>1, <3>2
    <3>4. Len(pieces) = Len(defined)
      BY <1>8, <3>2
    <3>5. pieces \in Seq(Seq(Nested[Nesting - 1]))
      <4>1. \A n \in Nat : \A V : [1..n -> V] \subseteq Seq(V)
        OBVIOUS
      <4>2. QED
        BY <1>8, <3>3, <4>1, Zenon
    <3>6. QED
      BY <1>8, <1>13, <3>1, <3>2, <3>4, <3>5
  <2> HIDE DEF pieces
  <2>4. flat \in Seq(Nested[Nesting - 1]) /\ ToSet(flat) = UNION {ToSet(pieces[i]) : i \in DOMAIN pieces}
    BY <2>3, FlattenIs
  <2> HIDE DEF flat, defined
  <2>5. /\ group \in Groups(Nested[Nesting - 1]) /\ group.kind = "all" /\ group.negated = FALSE
        /\ group.conditions = flat
    BY <2>4 DEF Groups, Group
  <2> HIDE DEF group
  <2>6. group \in Laden /\ Plain(group)
    BY <2>5, LadenIs DEF Laden, Plain
  <2>7. Ev(group) <=> \A i \in DOMAIN flat : Ev(flat[i])
    <3>1. Nesting - 1 \in 0..(Nesting - 1)
      BY NestingIs
    <3>2. QED
      BY <2>5, <3>1, GroupIs
  <2>8. (\A i \in DOMAIN flat : Ev(flat[i])) <=> \A c \in ToSet(flat) : Ev(c)
    BY DEF ToSet
  <2>9. (\A c \in ToSet(flat) : Ev(c)) <=>
          \A i \in DOMAIN defined : \A c \in ToSet(Pieces(defined[i])) : Ev(c)
    <3> HIDE DEF Ev
    <3>1. \A c : c \in ToSet(flat) <=> \E i \in DOMAIN defined : c \in ToSet(Pieces(defined[i]))
      BY <2>3, <2>4
    <3>2. QED
      BY <3>1
  <2>10. ASSUME plain
         PROVE  (\A i \in DOMAIN defined : \A c \in ToSet(Pieces(defined[i])) : Ev(c)) <=>
                  \A c \in ToSet(defined) : Ev(c)
    <3>1. \A i \in DOMAIN defined : Ev(defined[i]) <=> \A c \in ToSet(Pieces(defined[i])) : Ev(c)
      <4> HIDE DEF plain
      <4>1. QED
        BY <1>8, <1>10, <2>10, PiecesIs
    <3> HIDE DEF Ev
    <3>2. QED
      BY <1>8, <1>9, <3>1
  <2>11. ASSUME plain
         PROVE  Ev(group) <=> \A i \in DOMAIN conds : Ev(conds[i])
    <3> HIDE DEF Ev, plain
    <3>1. QED
      BY <1>6, <1>7, <2>7, <2>8, <2>9, <2>10, <2>11
  <2>12. QED
    BY <2>1, <2>6, <2>11
<1> HIDE DEF defined
<1>14. QED
  BY <1>11, <1>12, <1>13

\* The conditions of an instance as the files may have them.
Stated(page) == page.show \in Filed /\ page.showSteps \in Filed /\ page.parts \in Seq(Filed) \cup {None}

\* The condition of a page that its components have a say in.
LEMMA HoistedIs ==
  ASSUME NEW page, Stated(page), NEW data, NEW scope
  PROVE  /\ Hoisted(page) \in Laden
         /\ ~Misread(page) =>
              /\ Plain(Hoisted(page))
              /\ Evaluate(Hoisted(page), data, scope) <=>
                   /\ Evaluate(page.show, data, scope)
                   /\ page.parts = None \/ \E i \in DOMAIN page.parts : Evaluate(page.parts[i], data, scope)
<1> DEFINE Ev(c) == Evaluate(c, data, scope)
           parts == page.parts
           shows == Only(parts, ToSet(parts) \ {Always, Never})
           part == IF Len(shows) = 1 THEN shows[1] ELSE Group("any", shows)
<1>1. Hoisted(page) = IF parts = None \/ Len(shows) # Len(parts) THEN page.show ELSE All(<<page.show, part>>)
  BY DEF Hoisted
<1>2. page.show \in Filed /\ page.show \in Laden
  BY LadenIs DEF Stated
<1>3. ASSUME ~Misread(page)
      PROVE  Plain(page.show)
  BY <1>3 DEF Misread, Joined, Plain
<1>4. CASE parts = None
  BY <1>1, <1>2, <1>3, <1>4, LadenIs, EvaluateIs
<1>5. CASE parts # None
  <2>1. parts \in Seq(Filed)
    BY <1>5 DEF Stated
  <2>2. DOMAIN parts = 1..Len(parts) /\ Len(parts) \in Nat /\ \A i \in DOMAIN parts : parts[i] \in Filed /\ parts[i] \in ToSet(parts)
    BY <2>1 DEF ToSet
  <2>3. CASE Len(shows) # Len(parts)
    <3>1. Hoisted(page) = page.show
      BY <1>1, <2>3
    <3>2. ~(ToSet(parts) \subseteq ToSet(parts) \ {Always, Never})
      <4>1. ToSet(parts) \subseteq ToSet(parts) \ {Always, Never} => shows = parts
        BY <2>1, OnlyLen
      <4> HIDE DEF shows, parts
      <4>2. QED
        BY <2>3, <4>1
    <3>3. ASSUME ~Misread(page)
          PROVE  \E i \in DOMAIN parts : Ev(parts[i])
      <4>1. Never \notin ToSet(parts)
        BY <1>5, <3>3 DEF Misread
      <4>2. Always \in ToSet(parts)
        BY <3>2, <4>1
      <4>3. PICK i \in DOMAIN parts : parts[i] = Always
        BY <4>2 DEF ToSet
      <4>4. Ev(parts[i])
        BY <4>3, BooleansAre
      <4>5. QED
        BY <4>4
    <3>4. Ev(page.show) \in BOOLEAN
      BY <1>2, LadenIs, EvaluateIs
    <3> HIDE DEF shows
    <3>5. QED
      BY <1>2, <1>3, <3>1, <3>3, <3>4
  <2>4. CASE Len(shows) = Len(parts)
    <3>1. shows = parts /\ ToSet(parts) \cap {Always, Never} = {}
      <4>1. ToSet(parts) \subseteq ToSet(parts) \ {Always, Never}
        BY <2>1, <2>4, OnlyLen
      <4>2. shows = parts
        BY <2>1, <4>1, OnlyLen
      <4>3. QED
        BY <4>1, <4>2
    <3> DEFINE either == IF Len(parts) = 1 THEN parts[1] ELSE Group("any", parts)
    <3> HIDE DEF shows
    <3>2. Hoisted(page) = All(<<page.show, either>>)
      BY <1>1, <1>5, <2>4, <3>1
    <3>3. /\ either \in Nested[Nesting - 1]
          /\ ~Misread(page) => Plain(either)
          /\ Ev(either) <=> \E i \in DOMAIN parts : Ev(parts[i])
      <4>1. CASE Len(parts) = 1
        <5>1. either = parts[1] /\ 1 \in DOMAIN parts /\ \A i \in DOMAIN parts : i = 1
          BY <2>2, <4>1
        <5>2. parts[1] \in Filed /\ parts[1] \in ToSet(parts)
          BY <2>2, <5>1
        <5>3. parts[1] \in Nested[Nesting - 1] /\ Ev(parts[1]) \in BOOLEAN
          BY <5>2, LadenIs, EvaluateIs
        <5>4. ASSUME ~Misread(page)
              PROVE  Plain(parts[1])
          BY <1>5, <4>1, <5>2, <5>4 DEF Misread, Joined, Plain
        <5> HIDE DEF either, Ev, parts
        <5>5. QED
          BY <5>1, <5>3, <5>4
      <4>2. CASE Len(parts) # 1
        <5>1. either = Group("any", parts)
          BY <4>2
        <5> HIDE DEF parts, either, Ev
        <5>2. /\ either \in Groups(Filed) /\ either.kind = "any" /\ either.negated = FALSE /\ either.met = 0
              /\ either.conditions = parts
          BY <2>1, <5>1 DEF Groups, Group
        <5>3. Ev(either) <=> \E i \in DOMAIN parts : Ev(parts[i])
          <6>1. Nesting - 2 \in 0..(Nesting - 1) /\ Filed = Nested[Nesting - 2]
            BY NestingIs DEF Filed
          <6>2. QED
            BY <5>2, <6>1, GroupIs DEF Ev
        <5>4. QED
          BY <5>2, <5>3, LadenIs DEF Plain
      <4>3. QED
        BY <4>1, <4>2
    <3> HIDE DEF either, parts
    <3>4. <<page.show, either>> \in Seq(Laden)
      <4>1. either \in Laden
        BY <3>3, LadenIs
      <4>2. QED
        BY <1>2, <4>1
    <3>5. DOMAIN <<page.show, either>> = {1, 2} /\ <<page.show, either>>[1] = page.show
          /\ <<page.show, either>>[2] = either
      OBVIOUS
    <3>6. Hoisted(page) \in Laden
      BY <3>2, <3>4, AllIs
    <3>7. ASSUME ~Misread(page)
          PROVE  /\ Plain(Hoisted(page))
                 /\ Ev(Hoisted(page)) <=> Ev(page.show) /\ Ev(either)
      <4> DEFINE list == <<page.show, either>>
      <4>1. \A i \in DOMAIN list : Plain(list[i])
        BY <1>3, <3>3, <3>5, <3>7
      <4>2. (\A i \in DOMAIN list : Ev(list[i])) <=> Ev(page.show) /\ Ev(either)
        BY <3>5
      <4>3. list \in Seq(Laden)
        BY <3>4
      <4> HIDE DEF list
      <4>4. Plain(All(list)) /\ (Ev(All(list)) <=> \A i \in DOMAIN list : Ev(list[i]))
        BY <4>1, <4>3, AllIs
      <4>5. Hoisted(page) = All(list)
        BY <3>2 DEF list
      <4>6. QED
        BY <4>2, <4>4, <4>5
    <3>8. QED
      BY <1>5, <3>3, <3>6, <3>7 DEF parts
  <2>5. QED
    BY <2>3, <2>4
<1>6. QED
  BY <1>4, <1>5

-----------------------------------------------------------------------------
(* The pages that users are shown *)

\* Every instance on disk and in memory has the conditions that files may have.
AllStated(service) == \A source \in {1, 2, 3} : \A id \in DOMAIN service[source] : Stated(service[source][id])

Spoken == AllStated(files) /\ AllStated(memory)

LEMMA PageStated ==
  Stated(Page)
<1>1. Page.show = Always /\ Page.showSteps = Always /\ Page.parts = None
  BY DEF Page
<1>2. QED
  BY <1>1, LadenIs DEF Stated

LEMMA EditedStated ==
  ASSUME NEW page, Written(page), Stated(page)
  PROVE  /\ \A cond \in Filed : Stated([page EXCEPT !.show = cond])
         /\ \A list : Stated([page EXCEPT !.steps = list])
         /\ \A name : Stated([page EXCEPT !.repeatable = TRUE, !.namespace = name])
<1>1. page = [property \in DOMAIN Page |-> page[property]]
  BY DEF Written
<1>2. DOMAIN page = DOMAIN Page /\ {"steps", "show", "showSteps", "parts", "repeatable", "namespace"} \subseteq DOMAIN Page
  BY <1>1 DEF Page
<1>3. ASSUME NEW cond \in Filed
      PROVE  Stated([page EXCEPT !.show = cond])
  <2> DEFINE new == [page EXCEPT !.show = cond]
  <2>1. new.show = cond /\ new.showSteps = page.showSteps /\ new.parts = page.parts
    BY <1>1, <1>2
  <2> HIDE DEF new
  <2>2. Stated(new)
    BY <2>1 DEF Stated
  <2>3. QED
    BY <2>2 DEF new
<1>4. ASSUME NEW list
      PROVE  Stated([page EXCEPT !.steps = list])
  <2> DEFINE new == [page EXCEPT !.steps = list]
  <2>1. new.show = page.show /\ new.showSteps = page.showSteps /\ new.parts = page.parts
    BY <1>1, <1>2
  <2> HIDE DEF new
  <2>2. Stated(new)
    BY <2>1 DEF Stated
  <2>3. QED
    BY <2>2 DEF new
<1>5. ASSUME NEW name
      PROVE  Stated([page EXCEPT !.repeatable = TRUE, !.namespace = name])
  <2> DEFINE new == [page EXCEPT !.repeatable = TRUE, !.namespace = name]
  <2>1. new.show = page.show /\ new.showSteps = page.showSteps /\ new.parts = page.parts
    BY <1>1, <1>2
  <2> HIDE DEF new
  <2>2. Stated(new)
    BY <2>1 DEF Stated
  <2>3. QED
    BY <2>2 DEF new
<1>6. QED
  BY <1>3, <1>4, <1>5

LEMMA GetsEach ==
  ASSUME NEW pages, NEW id, NEW page, NEW p \in DOMAIN Gets(pages, id, page)
  PROVE  \/ Gets(pages, id, page)[p] = page
         \/ p \in DOMAIN pages /\ Gets(pages, id, page)[p] = pages[p]
BY DEF Gets

LEMMA SaveStated ==
  ASSUME TypeOK, Spoken, NEW id \in Names, NEW page, Written(page), Stated(page), Save(id, page)
  PROVE  AllStated(files')
<1>1. /\ files'[Service] = Gets(files[Service], id, page)
      /\ files'[App] = files[App] /\ files'[Modules] = files[Modules]
  BY SaveIs
<1>2. \A p \in DOMAIN files'[Service] :
        files'[Service][p] = page \/ (p \in DOMAIN files[Service] /\ files'[Service][p] = files[Service][p])
  BY <1>1, GetsEach
<1>3. ASSUME NEW i \in {1, 2, 3}, NEW p \in DOMAIN files'[i]
      PROVE  Stated(files'[i][p])
  <2>1. \A q \in DOMAIN files[i] : Stated(files[i][q])
    BY DEF Spoken, AllStated
  <2>2. CASE i = Service
    BY <1>2, <2>1, <2>2
  <2>3. CASE i # Service
    <3>1. files'[i] = files[i]
      BY <1>1, <2>3 DEF Service, App, Modules
    <3>2. QED
      BY <2>1, <3>1
  <2>4. QED
    BY <2>2, <2>3
<1>4. QED
  BY <1>3 DEF AllStated

LEMMA WriteStated ==
  ASSUME TypeOK, Spoken, runtime # None, NEW id \in Loaded, NEW page, Written(page), Stated(page), Write(id, page)
  PROVE  Spoken'
<1>1. \A i \in {1, 2, 3} :
        /\ DOMAIN memory'[i] = DOMAIN memory[i]
        /\ \A p \in DOMAIN memory[i] :
             memory'[i][p] = IF i = runtime.source[id] /\ p = id THEN page ELSE memory[i][p]
  BY WriteIs
<1>2. AllStated(memory')
  <2>1. ASSUME NEW i \in {1, 2, 3}, NEW p \in DOMAIN memory'[i]
        PROVE  Stated(memory'[i][p])
    <3>1. p \in DOMAIN memory[i] /\ Stated(memory[i][p])
      BY <1>1 DEF Spoken, AllStated
    <3>2. memory'[i][p] = page \/ memory'[i][p] = memory[i][p]
      BY <1>1, <3>1
    <3>3. QED
      BY <3>1, <3>2
  <2>2. QED
    BY <2>1 DEF AllStated
<1>3. AllStated(files')
  BY SaveStated, LoadedIs DEF Write
<1>4. QED
  BY <1>2, <1>3 DEF Spoken

LEMMA SpokenInit ==
  Init => Spoken
<1> SUFFICES ASSUME Init PROVE Spoken
  OBVIOUS
<1>1. files \in Services /\ memory = files
  BY DEF Init
<1>2. ASSUME NEW source \in {1, 2, 3}, NEW id \in DOMAIN files[source]
      PROVE  Stated(files[source][id])
  BY <1>1, ConditionsAssumption DEF Stated
<1>3. QED
  BY <1>1, <1>2 DEF Spoken, AllStated

LEMMA SourceStated ==
  ASSUME TypeOK, Spoken, runtime # None, NEW id \in Loaded
  PROVE  Written(SourceInstance(id)) /\ Stated(SourceInstance(id))
<1>1. /\ runtime.source[id] \in {1, 2, 3} /\ id \in DOMAIN memory[runtime.source[id]]
      /\ Written(SourceInstance(id))
  BY LoadedIs
<1>2. QED
  BY <1>1 DEF Spoken, AllStated, SourceInstance

LEMMA SpokenNext ==
  TypeOK /\ Spoken /\ [Next]_vars => Spoken'
<1> SUFFICES ASSUME TypeOK, Spoken, [Next]_vars PROVE Spoken'
  OBVIOUS
<1>1. CASE Restart \/ Reload
  <2>1. files' = files /\ memory' \in {files, memory}
    BY <1>1 DEF Restart, Reload
  <2>2. QED
    BY <2>1 DEF Spoken
<1>2. CASE DeleteFile
  <2> DEFINE rest(pages) == Restrict(pages, DOMAIN pages \ {doomed})
  <2>1. files' = [files EXCEPT ![Service] = rest(files[Service])] /\ memory' = memory
    BY <1>2 DEF DeleteFile
  <2>2. IsSource(files[Service]) /\ DOMAIN files = {1, 2, 3}
    BY DEF TypeOK, IsService, Service
  <2>3. DOMAIN rest(files[Service]) = DOMAIN files[Service] \ {doomed}
        /\ \A p \in DOMAIN files[Service] \ {doomed} : rest(files[Service])[p] = files[Service][p]
    BY <2>2, RestrictIs
  <2> HIDE DEF rest
  <2>4. \A i \in {1, 2, 3} : files'[i] = IF i = Service THEN rest(files[Service]) ELSE files[i]
    BY <2>1, <2>2
  <2>5. ASSUME NEW i \in {1, 2, 3}, NEW p \in DOMAIN files'[i]
        PROVE  Stated(files'[i][p])
    <3>1. p \in DOMAIN files[i] /\ files'[i][p] = files[i][p]
      BY <2>3, <2>4
    <3>2. QED
      BY <3>1 DEF Spoken, AllStated
  <2>6. QED
    BY <2>1, <2>5 DEF Spoken, AllStated
<1>3. ASSUME NEW id \in NewPages, NEW cond \in Conds \cup {Always}, CreateInstance(id, cond)
      PROVE  Spoken'
  <2>1. Save(id, [Page EXCEPT !.show = cond]) /\ memory' = memory /\ id \in Names
    BY <1>3 DEF CreateInstance, Names
  <2>2. cond \in Filed
    BY ConditionsAssumption, LadenIs
  <2>3. Written([Page EXCEPT !.show = cond]) /\ Stated([Page EXCEPT !.show = cond])
    BY <2>2, PageWritten, PageStated, ShowEdited, EditedStated
  <2>4. QED
    BY <2>1, <2>3, SaveStated DEF Spoken
<1>3a. ASSUME NEW id, NEW cond \in Conds, SetInstance(id, cond)
       PROVE  Spoken'
  <2>1. runtime # None /\ id \in Loaded /\ Save(id, [SourceInstance(id) EXCEPT !.show = cond]) /\ memory' = memory
    BY <1>3a DEF SetInstance, Editing
  <2>2. cond \in Filed
    BY ConditionsAssumption
  <2>3. Written([SourceInstance(id) EXCEPT !.show = cond])
    BY <2>1, SourceStated, ShowEdited
  <2>4. Stated([SourceInstance(id) EXCEPT !.show = cond])
    BY <2>1, <2>2, SourceStated, EditedStated
  <2>5. id \in Names
    BY <2>1, LoadedIs
  <2>6. QED
    BY <2>1, <2>3, <2>4, <2>5, SaveStated DEF Spoken
<1>4. ASSUME NEW id, NEW cond \in Conds, SetShow(id, cond)
      PROVE  Spoken'
  <2>1. runtime # None /\ id \in Loaded /\ Write(id, [SourceInstance(id) EXCEPT !.show = cond])
    BY <1>4 DEF SetShow, Editing
  <2>2. cond \in Filed
    BY ConditionsAssumption
  <2>3. Written([SourceInstance(id) EXCEPT !.show = cond])
    BY <2>1, SourceStated, ShowEdited
  <2>4. Stated([SourceInstance(id) EXCEPT !.show = cond])
    BY <2>1, <2>2, SourceStated, EditedStated
  <2>5. QED
    BY <2>1, <2>3, <2>4, WriteStated
<1>5. ASSUME NEW id, NEW step, AddStep(id, step)
      PROVE  Spoken'
  <2> DEFINE list == Append(StepsOf(SourceInstance(id)), step)
  <2>1. runtime # None /\ id \in Loaded /\ step \in Ids(files) /\ Write(id, [SourceInstance(id) EXCEPT !.steps = list])
    BY <1>5 DEF AddStep, Editing
  <2>2. list \in Seq(Listed)
    <3>1. step \in Listed
      BY <2>1, WinnerWritten DEF TypeOK, Listed
    <3>2. StepsOf(SourceInstance(id)) \in Seq(Listed)
      BY <2>1, SourceStated DEF Written, StepsOf
    <3>3. QED
      BY <3>1, <3>2
  <2> HIDE DEF list
  <2>3. Written([SourceInstance(id) EXCEPT !.steps = list])
    BY <2>1, <2>2, SourceStated, StepsEdited
  <2>4. Stated([SourceInstance(id) EXCEPT !.steps = list])
    BY <2>1, SourceStated, EditedStated
  <2>5. QED
    BY <2>1, <2>3, <2>4, WriteStated
<1>6. ASSUME NEW id, SetRepeatable(id)
      PROVE  Spoken'
  <2> DEFINE name == AutoNamespace(id)
  <2>1. runtime # None /\ id \in Loaded
        /\ Write(id, [SourceInstance(id) EXCEPT !.repeatable = TRUE, !.namespace = name])
    BY <1>6 DEF SetRepeatable, Editing
  <2>2. name # None
    BY <2>1, AutoNamespaceIs
  <2> HIDE DEF name
  <2>3. Written([SourceInstance(id) EXCEPT !.repeatable = TRUE, !.namespace = name])
    BY <2>1, <2>2, SourceStated, RepeatEdited
  <2>4. Stated([SourceInstance(id) EXCEPT !.repeatable = TRUE, !.namespace = name])
    BY <2>1, SourceStated, EditedStated
  <2>5. QED
    BY <2>1, <2>3, <2>4, WriteStated
<1>7. ASSUME NEW id, DeleteInstance(id)
      PROVE  Spoken'
  <2>1. runtime # None /\ RemoveStep(id)
    BY <1>7 DEF DeleteInstance, Editing
  <2>2. CASE StepsOwner(id) = {}
    BY <2>1, <2>2 DEF RemoveStep, RemoveNoStep, Spoken
  <2>3. CASE StepsOwner(id) # {}
    <3> DEFINE steps(p) == Only(runtime.steps[p], ToSet(runtime.steps[p]) \ {id})
    <3>1. PICK p \in StepsOwner(id) : Write(p, [SourceInstance(p) EXCEPT !.steps = steps(p)])
      BY <2>1, <2>3 DEF RemoveStep
    <3>2. p \in Loaded
      BY DEF StepsOwner
    <3>3. runtime.steps[p] \in Seq(Listed)
      BY <2>1, <3>2, LoadedIs
    <3>4. steps(p) \in Seq(Listed)
      BY <3>3, OnlyIs
    <3> HIDE DEF steps
    <3>5. Written([SourceInstance(p) EXCEPT !.steps = steps(p)])
      BY <2>1, <3>2, <3>4, SourceStated, StepsEdited
    <3>6. Stated([SourceInstance(p) EXCEPT !.steps = steps(p)])
      BY <2>1, <3>2, SourceStated, EditedStated
    <3>7. QED
      BY <2>1, <3>1, <3>2, <3>5, <3>6, WriteStated
  <2>4. QED
    BY <2>2, <2>3
<1>8. CASE UNCHANGED vars
  BY <1>8 DEF vars, Spoken
<1>9. QED
  BY <1>1, <1>2, <1>3, <1>3a, <1>4, <1>5, <1>6, <1>7, <1>8 DEF Next

\* The pages that extend others have the conditions that files may have as well.
LEMMA MergeStated ==
  ASSUME NEW service, IsService(service), AllStated(service), IsaFound(service)
  PROVE  \A id \in Ids(service) : Stated(Merge(service)[id])
<1> DEFINE above == IsaOf(service)
           S == Ids(service)
           Good == {id \in S : Stated(Merge(service)[id])}
<1>1. \A id \in S : Stated(Winner(service, id)) /\ Written(Winner(service, id))
  <2>1. \A id \in S : /\ SourceOf(service, id) \in {1, 2, 3} /\ id \in DOMAIN service[SourceOf(service, id)]
                      /\ Written(Winner(service, id))
    BY WinnerWritten
  <2>2. QED
    BY <2>1 DEF AllStated, Winner
<1>2. DOMAIN above = S /\ Founded(above) /\ \A id \in S : above[id] = Winner(service, id).isa /\ above[id] \in S \cup {None}
  BY DEF IsaOf, IsaFound
<1>3. ASSUME NEW id \in S, above[id] \in S => above[id] \in Good
      PROVE  id \in Good
  <2>1. CASE Winner(service, id).isa = None
    <3>1. Merge(service)[id] = Winner(service, id)
      BY <2>1, MergeIs
    <3>2. QED
      BY <1>1, <3>1
  <2>2. CASE Winner(service, id).isa # None
    <3> DEFINE page == Winner(service, id)
               isa == Merge(service)[page.isa]
    <3>1. Merge(service)[id] = Inherit(page, isa)
      BY <2>2, MergeIs
    <3>2. Stated(isa)
      BY <1>2, <1>3, <2>2
    <3>3. Stated(page) /\ DOMAIN page = DOMAIN Page
      BY <1>1 DEF Written
    <3> HIDE DEF page, isa
    <3>4. {"show", "showSteps", "parts"} \subseteq DOMAIN Page
      BY DEF Page
    <3>5. \A f \in {"show", "showSteps", "parts"} : Inherit(page, isa)[f] \in {page[f], isa[f]}
      BY <3>3, <3>4 DEF Inherit
    <3>6. Stated(Inherit(page, isa))
      BY <3>2, <3>3, <3>5 DEF Stated
    <3>7. QED
      BY <3>1, <3>6
  <2>3. QED
    BY <2>1, <2>2
<1>4. Good \in SUBSET S
  OBVIOUS
<1> HIDE DEF Good, above, S
<1>5. Good = S
  BY <1>2, <1>3, <1>4, FoundedInduction
<1>6. QED
  BY <1>5 DEF Good, S
=============================================================================
