--------------------------- MODULE JourneyProofs ---------------------------
(***************************************************************************)
(* Proofs about Journey and the order of pages that it rests on.           *)
(*                                                                         *)
(* The walks of PageFlow are recursive functions.  The first part proves,  *)
(* from the well-foundedness of the natural numbers alone, that a function *)
(* that recurs along falling ranks exists, and that what passes from all   *)
(* lower ranks to a rank holds everywhere.  The second part relates the    *)
(* tree of a service to its numbering; the third finds what each walk      *)
(* returns; the last has the properties of Journey.                        *)
(***************************************************************************)
EXTENDS Journey, FiniteSetTheorems, TLAPS

-----------------------------------------------------------------------------
(* Recursion *)

\* A set of natural numbers has a least element.
LEMMA Least ==
  ASSUME NEW A \in SUBSET Nat, A # {}
  PROVE  \E m \in A : \A n \in A : m <= n
<1> DEFINE Upto(k) == A \cap (0..k)
<1>1. PICK a \in A : TRUE
  OBVIOUS
<1> DEFINE B == Upto(a)
           T == {Upto(k) : k \in B}
<1>2. IsWellFoundedOn(StrictSubsetOrdering(B), FiniteSubsetsOf(B))
  BY FS_StrictSubsetOrderingWellFounded
<1>3. T \subseteq FiniteSubsetsOf(B) /\ T # {}
  <2>1. IsFiniteSet(B)
    <3>1. IsFiniteSet(0..a) /\ B \subseteq 0..a
      BY FS_Interval
    <3> HIDE DEF B
    <3>2. QED
      BY <3>1, FS_Subset
  <2>2. \A k \in B : Upto(k) \subseteq B
    OBVIOUS
  <2>3. a \in B
    OBVIOUS
  <2> HIDE DEF Upto, B
  <2>4. \A k \in B : Upto(k) \in FiniteSubsetsOf(B)
    BY <2>1, <2>2, FS_Subset DEF FiniteSubsetsOf
  <2>5. QED
    BY <2>3, <2>4
<1>4. PICK X \in T : \A Y \in T : <<Y, X>> \notin StrictSubsetOrdering(B)
  <2> HIDE DEF T
  <2>1. QED
    BY <1>2, <1>3, WFMin
<1>5. PICK m \in B : X = Upto(m)
  <2> HIDE DEF Upto, B
  <2>1. QED
    OBVIOUS
<1>6. ASSUME NEW n \in A, n < m
      PROVE  FALSE
  <2>1. n \in B /\ Upto(n) \subseteq Upto(m)
    BY <1>6
  <2>2. m \in Upto(m) /\ m \notin Upto(n)
    BY <1>6
  <2>3. \A k \in B : Upto(k) \subseteq B
    OBVIOUS
  <2> HIDE DEF Upto, B
  <2>4. <<Upto(n), Upto(m)>> \in StrictSubsetOrdering(B)
    BY <2>1, <2>2, <2>3 DEF StrictSubsetOrdering
  <2>5. Upto(n) \in T
    BY <2>1
  <2>6. QED
    BY <1>4, <1>5, <2>4, <2>5
<1>7. QED
  BY <1>6

\* What passes from every lower rank to a rank holds of all.
LEMMA RankInduction ==
  ASSUME NEW S, NEW rank \in [S -> Nat], NEW G \in SUBSET S,
         \A q \in S : (\A p \in S : rank[p] < rank[q] => p \in G) => q \in G
  PROVE  G = S
<1>1. SUFFICES ASSUME S \ G # {}
               PROVE  FALSE
  OBVIOUS
<1> DEFINE ranks == {rank[q] : q \in S \ G}
<1>2. ranks \in SUBSET Nat /\ ranks # {}
  BY <1>1
<1>3. PICK m \in ranks : \A n \in ranks : m <= n
  BY <1>2, Least
<1>4. PICK q \in S \ G : m = rank[q]
  BY <1>3
<1>5. \A p \in S : rank[p] < rank[q] => p \in G
  <2>1. SUFFICES ASSUME NEW p \in S, rank[p] < rank[q], p \notin G
                 PROVE  FALSE
    OBVIOUS
  <2>2. rank[p] \in ranks
    BY <2>1
  <2>3. rank[q] <= rank[p]
    BY <1>3, <1>4, <2>2
  <2>4. QED
    BY <2>1, <2>3
<1>6. QED
  BY <1>4, <1>5

\* f recurs from q to next[q], and has the values of result at the places to stop.
Recurs(f, S, V, stop, next, result, G) ==
  /\ f \in [S -> V]
  /\ \A q \in S : f[q] = IF q \in stop THEN result[q] ELSE G[<<q, f[next[q]]>>]

\* A function that recurs along falling ranks exists.
LEMMA Recursion ==
  ASSUME NEW S, NEW V, NEW rank \in [S -> Nat], NEW stop \in SUBSET S,
         NEW next \in [S -> S], NEW result \in [S -> V], NEW G \in [S \X V -> V],
         \A q \in S \ stop : rank[next[q]] < rank[q]
  PROVE  \E f : Recurs(f, S, V, stop, next, result, G)
<1> DEFINE Closed(R) == /\ \A q \in stop : <<q, result[q]>> \in R
                        /\ \A q \in S \ stop : \A v \in V :
                             <<next[q], v>> \in R => <<q, G[<<q, v>>]>> \in R
           Graph == {x \in S \X V : \A R \in SUBSET (S \X V) : Closed(R) => x \in R}
           Single == {q \in S : \E v \in V : /\ <<q, v>> \in Graph
                                             /\ \A w \in V : <<q, w>> \in Graph => w = v}
<1>1. Closed(Graph)
  <2>1. \A q \in stop : <<q, result[q]>> \in Graph
    OBVIOUS
  <2>2. ASSUME NEW q \in S \ stop, NEW v \in V, <<next[q], v>> \in Graph
        PROVE  <<q, G[<<q, v>>]>> \in Graph
    <3>1. <<q, G[<<q, v>>]>> \in S \X V
      OBVIOUS
    <3>2. ASSUME NEW R \in SUBSET (S \X V), Closed(R)
          PROVE  <<q, G[<<q, v>>]>> \in R
      <4>1. <<next[q], v>> \in R
        BY <2>2, <3>2
      <4>2. QED
        BY <3>2, <4>1
    <3>3. QED
      BY <3>1, <3>2
  <2> HIDE DEF Graph
  <2>3. QED
    BY <2>1, <2>2
<1>2. ASSUME NEW x \in Graph, ~ \E q \in stop : x = <<q, result[q]>>,
             ~ \E q \in S \ stop : \E v \in V : <<next[q], v>> \in Graph /\ x = <<q, G[<<q, v>>]>>
      PROVE  FALSE
  <2> DEFINE R == Graph \ {x}
  <2>1. R \in SUBSET (S \X V)
    OBVIOUS
  <2>2. Closed(R)
    <3> HIDE DEF Graph
    <3>1. \A q \in stop : <<q, result[q]>> \in R
      BY <1>1, <1>2
    <3>2. ASSUME NEW q \in S \ stop, NEW v \in V, <<next[q], v>> \in R
          PROVE  <<q, G[<<q, v>>]>> \in R
      BY <1>1, <1>2, <3>2
    <3> HIDE DEF R
    <3>3. QED
      BY <3>1, <3>2
  <2>3. QED
    BY <2>1, <2>2
<1>3. \A q \in S : \A v \in V : <<q, v>> \in Graph =>
        IF q \in stop THEN v = result[q]
        ELSE \E w \in V : <<next[q], w>> \in Graph /\ v = G[<<q, w>>]
  <2> HIDE DEF Graph
  <2>1. QED
    BY <1>2
<1>4. Single = S
  <2>1. ASSUME NEW q \in S, \A p \in S : rank[p] < rank[q] => p \in Single
        PROVE  q \in Single
    <3> HIDE DEF Graph
    <3>1. CASE q \in stop
      <4>1. <<q, result[q]>> \in Graph /\ \A w \in V : <<q, w>> \in Graph => w = result[q]
        BY <1>1, <1>3, <3>1
      <4>2. QED
        BY <4>1
    <3>2. CASE q \notin stop
      <4>1. next[q] \in Single
        BY <2>1, <3>2
      <4>2. PICK v \in V : <<next[q], v>> \in Graph /\ \A w \in V : <<next[q], w>> \in Graph => w = v
        BY <4>1
      <4>3. <<q, G[<<q, v>>]>> \in Graph
        BY <1>1, <3>2, <4>2
      <4>4. \A w \in V : <<q, w>> \in Graph => w = G[<<q, v>>]
        BY <1>3, <3>2, <4>2
      <4>5. QED
        BY <4>3, <4>4
    <3>3. QED
      BY <3>1, <3>2
  <2> HIDE DEF Single
  <2>2. Single \in SUBSET S
    BY DEF Single
  <2>3. QED
    BY <2>1, <2>2, RankInduction
<1> DEFINE f == [q \in S |-> CHOOSE v \in V : <<q, v>> \in Graph]
<1>5. \A q \in S : f[q] \in V /\ <<q, f[q]>> \in Graph /\ \A w \in V : <<q, w>> \in Graph => w = f[q]
  <2> HIDE DEF Graph
  <2>1. QED
    BY <1>4
<1>6. ASSUME NEW q \in S
      PROVE  f[q] = IF q \in stop THEN result[q] ELSE G[<<q, f[next[q]]>>]
  <2> HIDE DEF Graph, f
  <2>1. CASE q \in stop
    BY <1>3, <1>5, <2>1
  <2>2. CASE q \notin stop
    <3>1. PICK w \in V : <<next[q], w>> \in Graph /\ f[q] = G[<<q, w>>]
      BY <1>3, <1>5, <2>2
    <3>2. w = f[next[q]]
      BY <1>5, <3>1
    <3>3. QED
      BY <2>2, <3>1, <3>2
  <2>3. QED
    BY <2>1, <2>2
<1>7. f \in [S -> V]
  BY <1>5
<1> HIDE DEF f
<1>8. QED
  BY <1>6, <1>7 DEF Recurs

-----------------------------------------------------------------------------
(* The tree *)

LEMMA NumbersAre ==
  ASSUME NEW s, Tree(s)
  PROVE  /\ s.parent \in [Pages(s) -> Pages(s) \cup {None}]
         /\ s.from \in [Pages(s) -> Nat] /\ s.to \in [Pages(s) -> Nat]
         /\ \A p \in Pages(s) : s.from[p] \in Nat /\ s.to[p] \in Nat /\ s.from[p] < s.to[p]
         /\ \A p, q \in Pages(s) : p # q => s.from[p] # s.from[q]
<1>1. /\ s.parent \in [Pages(s) -> Pages(s) \cup {None}]
      /\ s.from \in [Pages(s) -> Nat] /\ s.to \in [Pages(s) -> Nat]
      /\ \A p, q \in Pages(s) : p # q => s.from[p] # s.from[q]
  BY DEF Tree
<1>2. \A p \in Pages(s) : s.from[p] < s.to[p]
  BY DEF Tree
<1>3. QED
  BY <1>1, <1>2

LEMMA StepsAre ==
  ASSUME NEW s, Tree(s), NEW p \in Pages(s)
  PROVE  LET steps == s.steps[p]
             n == Len(steps)
         IN  /\ n \in Nat /\ DOMAIN steps = 1..n
             /\ n = 0 => s.to[p] = s.from[p] + 1
             /\ n # 0 => s.from[steps[1]] = s.from[p] + 1 /\ s.to[steps[n]] = s.to[p]
             /\ \A i \in 1..n : steps[i] \in Pages(s) /\ s.parent[steps[i]] = p
             /\ \A i \in 1..n : i + 1 \in 1..n => s.from[steps[i + 1]] = s.to[steps[i]]
<1> DEFINE steps == s.steps[p]
           n == Len(steps)
<1>1. s.steps \in [Pages(s) -> Seq(Pages(s))]
  BY DEF Tree
<1>2. /\ s.steps[p] = <<>> => s.to[p] = s.from[p] + 1
      /\ s.steps[p] # <<>> => s.from[s.steps[p][1]] = s.from[p] + 1 /\ s.to[s.steps[p][Len(s.steps[p])]] = s.to[p]
      /\ \A i \in DOMAIN s.steps[p] : s.parent[s.steps[p][i]] = p
      /\ \A i, j \in DOMAIN s.steps[p] : j = i + 1 => s.from[s.steps[p][j]] = s.to[s.steps[p][i]]
  BY DEF Tree
<1>3. steps \in Seq(Pages(s)) /\ n \in Nat /\ DOMAIN steps = 1..n /\ (n = 0 <=> steps = <<>>)
  BY <1>1
<1>4. \A i \in 1..n : steps[i] \in Pages(s)
  BY <1>3
<1>5. QED
  BY <1>2, <1>3, <1>4

LEMMA StepIs ==
  ASSUME NEW s, Tree(s), NEW p \in Pages(s), NEW i \in DOMAIN s.steps[p]
  PROVE  s.steps[p][i] \in Pages(s) /\ s.parent[s.steps[p][i]] = p
<1>1. PICK steps, n : steps = s.steps[p] /\ n = Len(steps)
  OBVIOUS
<1>2. DOMAIN steps = 1..n /\ \A j \in 1..n : steps[j] \in Pages(s) /\ s.parent[steps[j]] = p
  BY <1>1, StepsAre
<1>3. QED
  BY <1>1, <1>2

\* The steps of a page come after it and their pages before the end of its own.
LEMMA StepsInside ==
  ASSUME NEW s, Tree(s), NEW p \in Pages(s), NEW i \in DOMAIN s.steps[p]
  PROVE  s.from[p] < s.from[s.steps[p][i]] /\ s.to[s.steps[p][i]] <= s.to[p]
<1>1. PICK steps, n : steps = s.steps[p] /\ n = Len(steps)
  OBVIOUS
<1>2. /\ n \in Nat /\ i \in 1..n
      /\ s.from[steps[1]] = s.from[p] + 1 /\ s.to[steps[n]] = s.to[p]
      /\ \A j \in 1..n : steps[j] \in Pages(s)
      /\ \A j \in 1..n : j + 1 \in 1..n => s.from[steps[j + 1]] = s.to[steps[j]]
  BY <1>1, StepsAre
<1>3. s.from[p] \in Nat /\ s.to[p] \in Nat
  BY NumbersAre
<1>4. \A j \in 1..n : /\ s.from[steps[j]] \in Nat /\ s.to[steps[j]] \in Nat
                     /\ s.from[steps[j]] < s.to[steps[j]]
  BY <1>2, NumbersAre
<1> DEFINE I == 1..n
           After == {j \in I : s.from[p] < s.from[steps[j]]}
           Within == {j \in I : s.to[steps[j]] <= s.to[p]}
           up == [j \in I |-> j]
           down == [j \in I |-> n - j]
<1>5. After = I
  <2>1. ASSUME NEW j \in I, \A k \in I : up[k] < up[j] => k \in After
        PROVE  j \in After
    <3>1. CASE j = 1
      BY <1>2, <1>3, <1>4, <3>1
    <3>2. CASE j # 1
      <4>1. j - 1 \in After
        BY <1>2, <2>1, <3>2
      <4>2. s.from[steps[j]] = s.to[steps[j - 1]]
        BY <1>2, <3>2
      <4>3. QED
        BY <1>3, <1>4, <4>1, <4>2
    <3>3. QED
      BY <3>1, <3>2
  <2>2. up \in [I -> Nat] /\ After \in SUBSET I
    OBVIOUS
  <2> HIDE DEF I, up, After
  <2>3. QED
    BY <2>1, <2>2, RankInduction
<1>6. Within = I
  <2>1. ASSUME NEW j \in I, \A k \in I : down[k] < down[j] => k \in Within
        PROVE  j \in Within
    <3>1. CASE j = n
      BY <1>2, <1>3, <1>4, <3>1
    <3>2. CASE j # n
      <4>1. j + 1 \in Within
        BY <1>2, <2>1, <3>2
      <4>2. s.from[steps[j + 1]] = s.to[steps[j]] /\ j + 1 \in I
        BY <1>2, <3>2
      <4>3. QED
        BY <1>3, <1>4, <4>1, <4>2
    <3>3. QED
      BY <3>1, <3>2
  <2>2. down \in [I -> Nat] /\ Within \in SUBSET I
    BY <1>2
  <2> HIDE DEF I, down, Within
  <2>3. QED
    BY <2>1, <2>2, RankInduction
<1>7. QED
  BY <1>1, <1>2, <1>5, <1>6

\* Later steps have later places.
LEMMA StepsOrdered ==
  ASSUME NEW s, Tree(s), NEW p \in Pages(s),
         NEW i \in DOMAIN s.steps[p], NEW j \in DOMAIN s.steps[p], ~(j < i)
  PROVE  s.from[s.steps[p][i]] <= s.from[s.steps[p][j]]
<1>1. PICK steps, n : steps = s.steps[p] /\ n = Len(steps)
  OBVIOUS
<1>2. /\ n \in Nat /\ DOMAIN steps = 1..n
      /\ \A k \in 1..n : steps[k] \in Pages(s)
      /\ \A k \in 1..n : k + 1 \in 1..n => s.from[steps[k + 1]] = s.to[steps[k]]
  BY <1>1, StepsAre
<1>3. i \in 1..n /\ j \in 1..n
  BY <1>1, <1>2
<1>4. \A k \in 1..n : /\ s.from[steps[k]] \in Nat /\ s.to[steps[k]] \in Nat
                     /\ s.from[steps[k]] < s.to[steps[k]]
  BY <1>2, NumbersAre
<1> DEFINE I == 1..n
           up == [k \in I |-> k]
           Later == {k \in I : i <= k => s.from[steps[i]] <= s.from[steps[k]]}
<1>5. ASSUME NEW k \in I, \A l \in I : up[l] < up[k] => l \in Later
      PROVE  k \in Later
  <2>1. CASE ~(i < k)
    BY <1>3, <1>4, <2>1
  <2>2. CASE i < k
    <3>1. k - 1 \in Later /\ k - 1 \in 1..n
      BY <1>2, <1>3, <1>5, <2>2
    <3>2. s.from[steps[k]] = s.to[steps[k - 1]] /\ s.from[steps[i]] <= s.from[steps[k - 1]]
      BY <1>2, <1>3, <2>2, <3>1
    <3>3. QED
      BY <1>3, <1>4, <3>1, <3>2
  <2>3. QED
    BY <2>1, <2>2
<1>6. up \in [I -> Nat] /\ Later \in SUBSET I
  OBVIOUS
<1>7. Later = I
  <2> HIDE DEF I, up, Later
  <2>1. QED
    BY <1>5, <1>6, RankInduction
<1>8. QED
  BY <1>1, <1>2, <1>3, <1>7

\* A page that is not the root is the step of its parent that Index finds.
LEMMA IndexIs ==
  ASSUME NEW s, Tree(s), NEW p \in Pages(s), s.parent[p] # None
  PROVE  /\ s.parent[p] \in Pages(s)
         /\ Index(s, p) \in DOMAIN s.steps[s.parent[p]]
         /\ s.steps[s.parent[p]][Index(s, p)] = p
         /\ s.from[s.parent[p]] < s.from[p]
         /\ s.to[p] <= s.to[s.parent[p]]
<1>1. s.parent[p] \in Pages(s)
  BY DEF Tree
<1>2. \E i \in DOMAIN s.steps[s.parent[p]] : s.steps[s.parent[p]][i] = p
  BY DEF Tree
<1>3. Index(s, p) \in DOMAIN s.steps[s.parent[p]] /\ s.steps[s.parent[p]][Index(s, p)] = p
  BY <1>2 DEF Index
<1>4. QED
  BY <1>1, <1>3, StepsInside

\* A page is in the interval of one of the steps of a page that it is in the interval of.
LEMMA StepCovers ==
  ASSUME NEW s, Tree(s), NEW p \in Pages(s), NEW q \in Pages(s),
         s.from[p] < s.from[q], s.from[q] < s.to[p]
  PROVE  \E i \in DOMAIN s.steps[p] : /\ s.from[s.steps[p][i]] <= s.from[q]
                                     /\ s.from[q] < s.to[s.steps[p][i]]
<1>1. PICK steps, n : steps = s.steps[p] /\ n = Len(steps)
  OBVIOUS
<1>2. s.from[p] \in Nat /\ s.to[p] \in Nat /\ s.from[q] \in Nat
  BY NumbersAre
<1>3. /\ n \in Nat /\ n # 0 /\ DOMAIN steps = 1..n
      /\ s.from[steps[1]] = s.from[p] + 1 /\ s.to[steps[n]] = s.to[p]
      /\ \A j \in 1..n : steps[j] \in Pages(s)
      /\ \A j \in 1..n : j + 1 \in 1..n => s.from[steps[j + 1]] = s.to[steps[j]]
  <2>1. n \in Nat /\ (n = 0 => s.to[p] = s.from[p] + 1)
    BY <1>1, StepsAre
  <2>2. n # 0
    BY <1>2, <2>1
  <2>3. DOMAIN steps = 1..n /\ s.from[steps[1]] = s.from[p] + 1 /\ s.to[steps[n]] = s.to[p]
    BY <1>1, <2>2, StepsAre
  <2>4. \A j \in 1..n : steps[j] \in Pages(s)
    BY <1>1, StepsAre
  <2>5. \A j \in 1..n : j + 1 \in 1..n => s.from[steps[j + 1]] = s.to[steps[j]]
    BY <1>1, StepsAre
  <2>6. QED
    BY <2>1, <2>2, <2>3, <2>4, <2>5
<1>4. \A j \in 1..n : s.from[steps[j]] \in Nat /\ s.to[steps[j]] \in Nat
  BY <1>3, NumbersAre
<1> DEFINE Ends == {j \in 1..n : s.from[q] < s.to[steps[j]]}
<1>5. n \in Ends
  BY <1>3
<1>6. PICK i \in Ends : \A j \in Ends : i <= j
  <2>1. Ends \in SUBSET Nat /\ Ends # {}
    BY <1>5
  <2> HIDE DEF Ends
  <2>2. QED
    BY <2>1, Least
<1>7. s.from[steps[i]] <= s.from[q]
  <2>1. CASE i = 1
    BY <1>2, <1>3, <2>1
  <2>2. CASE i # 1
    <3>1. i - 1 \in 1..n /\ i - 1 \notin Ends
      BY <1>3, <1>6, <2>2
    <3>2. s.from[steps[i]] = s.to[steps[i - 1]]
      BY <1>3, <3>1
    <3>3. QED
      BY <1>2, <1>4, <3>1, <3>2
  <2>3. QED
    BY <2>1, <2>2
<1>8. QED
  BY <1>1, <1>3, <1>7

LEMMA AboveIs ==
  ASSUME NEW s, Tree(s)
  PROVE  /\ \A p \in Pages(s) : Above(s, p) \in SUBSET Pages(s)
         /\ \A p \in Pages(s) :
              Above(s, p) = IF s.parent[p] = None THEN {p} ELSE {p} \cup Above(s, s.parent[p])
<1> DEFINE S == Pages(s)
           V == SUBSET S
           stop == {q \in S : s.parent[q] = None}
           next == [q \in S |-> IF s.parent[q] = None THEN q ELSE s.parent[q]]
           result == [q \in S |-> {q}]
           G == [x \in S \X V |-> {x[1]} \cup x[2]]
           above == CHOOSE f : f = [q \in S |->
                      IF s.parent[q] = None THEN {q} ELSE {q} \cup f[s.parent[q]]]
<1>1. s.from \in [S -> Nat] /\ s.parent \in [S -> S \cup {None}]
  BY NumbersAre
<1>2. next \in [S -> S] /\ result \in [S -> V] /\ G \in [S \X V -> V] /\ stop \in SUBSET S
  BY <1>1
<1>3. \A q \in S \ stop : s.from[next[q]] < s.from[q]
  BY IndexIs
<1>4. PICK f : Recurs(f, S, V, stop, next, result, G)
  <2> HIDE DEF S, V, stop, next, result, G
  <2>1. QED
    BY <1>1, <1>2, <1>3, Recursion
<1>5. f = [q \in S |-> IF s.parent[q] = None THEN {q} ELSE {q} \cup f[s.parent[q]]]
  <2>1. ASSUME NEW q \in S
        PROVE  f[q] = IF s.parent[q] = None THEN {q} ELSE {q} \cup f[s.parent[q]]
    <3>1. CASE s.parent[q] = None
      BY <1>4, <3>1 DEF Recurs
    <3>2. CASE s.parent[q] # None
      <4>1. f[s.parent[q]] \in V
        BY <1>1, <1>4, <3>2 DEF Recurs
      <4>2. f[q] = G[<<q, f[s.parent[q]]>>]
        BY <1>4, <3>2 DEF Recurs
      <4>3. QED
        BY <3>2, <4>1, <4>2
    <3>3. QED
      BY <3>1, <3>2
  <2>2. QED
    BY <1>4, <2>1 DEF Recurs
<1>6. above = [q \in S |-> IF s.parent[q] = None THEN {q} ELSE {q} \cup above[s.parent[q]]]
  <2> HIDE DEF S
  <2>1. QED
    BY <1>5
<1>7. \A p : Above(s, p) = above[p]
  BY DEF Above
<1>8. \A p \in S : above[p] \in V
  <2> DEFINE Good == {q \in S : above[q] \in V}
  <2> HIDE DEF above
  <2>1. ASSUME NEW q \in S, \A p \in S : s.from[p] < s.from[q] => p \in Good
        PROVE  q \in Good
    <3>1. CASE s.parent[q] = None
      BY <1>6, <3>1
    <3>2. CASE s.parent[q] # None
      <4>1. s.parent[q] \in Good
        BY <2>1, <3>2, IndexIs
      <4>2. QED
        BY <1>6, <3>2, <4>1
    <3>3. QED
      BY <3>1, <3>2
  <2>2. Good \in SUBSET S
    OBVIOUS
  <2> HIDE DEF Good, S
  <2>3. Good = S
    BY <1>1, <2>1, <2>2, RankInduction
  <2>4. QED
    BY <2>3 DEF Good
<1> HIDE DEF above
<1>9. QED
  BY <1>6, <1>7, <1>8

LEMMA RootIs ==
  ASSUME NEW s, Tree(s)
  PROVE  /\ Root(s) \in Pages(s) /\ s.parent[Root(s)] = None
         /\ \A p \in Pages(s) : p # Root(s) => s.parent[p] # None
<1>1. /\ \E p \in Pages(s) : s.parent[p] = None
      /\ \A p, q \in Pages(s) : s.parent[p] = None /\ s.parent[q] = None => p = q
  BY DEF Tree
<1>2. QED
  BY <1>1 DEF Root

\* The pages above q are those whose interval has q.
LEMMA AboveUp ==
  ASSUME NEW s, Tree(s)
  PROVE  \A q \in Pages(s) :
           /\ q \in Above(s, q) /\ Root(s) \in Above(s, q)
           /\ \A p \in Above(s, q) : /\ s.parent[p] # None => s.parent[p] \in Above(s, q)
                                     /\ s.from[p] <= s.from[q] /\ s.to[q] <= s.to[p]
<1> DEFINE S == Pages(s)
           Good == {q \in S : /\ q \in Above(s, q) /\ Root(s) \in Above(s, q)
                              /\ \A p \in Above(s, q) :
                                   /\ s.parent[p] # None => s.parent[p] \in Above(s, q)
                                   /\ s.from[p] <= s.from[q] /\ s.to[q] <= s.to[p]}
<1>1. ASSUME NEW q \in S, \A p \in S : s.from[p] < s.from[q] => p \in Good
      PROVE  q \in Good
  <2>1. CASE s.parent[q] = None
    <3>1. Above(s, q) = {q}
      BY <2>1, AboveIs
    <3>2. q = Root(s)
      BY <2>1, RootIs
    <3>3. QED
      BY <2>1, <3>1, <3>2, NumbersAre
  <2>2. CASE s.parent[q] # None
    <3>1. s.parent[q] \in Good /\ Above(s, q) = {q} \cup Above(s, s.parent[q])
      BY <1>1, <2>2, IndexIs, AboveIs
    <3>2. \A p \in Above(s, s.parent[q]) : p \in S
      BY <2>2, IndexIs, AboveIs
    <3>3. s.from[s.parent[q]] < s.from[q] /\ s.to[q] <= s.to[s.parent[q]] /\ s.parent[q] \in S
      BY <2>2, IndexIs
    <3>4. ASSUME NEW p \in Above(s, q)
          PROVE  /\ s.parent[p] # None => s.parent[p] \in Above(s, q)
                 /\ s.from[p] <= s.from[q] /\ s.to[q] <= s.to[p]
      <4>1. CASE p = q
        BY <3>1, <4>1, NumbersAre
      <4>2. CASE p # q
        <5>1. p \in Above(s, s.parent[q])
          BY <3>1, <4>2
        <5>2. /\ s.parent[p] # None => s.parent[p] \in Above(s, s.parent[q])
              /\ s.from[p] <= s.from[s.parent[q]] /\ s.to[s.parent[q]] <= s.to[p]
          BY <3>1, <5>1
        <5>3. s.from[p] \in Nat /\ s.to[p] \in Nat
          BY <3>2, <5>1, NumbersAre
        <5>4. s.from[q] \in Nat /\ s.to[q] \in Nat /\ s.from[s.parent[q]] \in Nat /\ s.to[s.parent[q]] \in Nat
          BY <3>3, NumbersAre
        <5>5. QED
          BY <3>1, <3>3, <5>2, <5>3, <5>4
      <4>3. QED
        BY <4>1, <4>2
    <3>5. q \in Above(s, q) /\ Root(s) \in Above(s, q)
      BY <3>1
    <3>6. QED
      BY <3>4, <3>5
  <2>3. QED
    BY <2>1, <2>2
<1>2. Good \in SUBSET S /\ s.from \in [S -> Nat]
  BY NumbersAre
<1> HIDE DEF Good, S
<1>3. Good = S
  BY <1>1, <1>2, RankInduction
<1>4. QED
  BY <1>3 DEF Good, S

LEMMA AboveInterval ==
  ASSUME NEW s, Tree(s), NEW p \in Pages(s), NEW q \in Pages(s)
  PROVE  p \in Above(s, q) <=> s.from[p] <= s.from[q] /\ s.from[q] < s.to[p]
<1>1. ASSUME p \in Above(s, q)
      PROVE  s.from[p] <= s.from[q] /\ s.from[q] < s.to[p]
  <2>1. s.from[p] <= s.from[q] /\ s.to[q] <= s.to[p]
    BY <1>1, AboveUp
  <2>2. s.from[q] < s.to[q] /\ s.from[q] \in Nat /\ s.to[q] \in Nat /\ s.to[p] \in Nat
    BY NumbersAre
  <2>3. QED
    BY <2>1, <2>2
<1> DEFINE S == Pages(s)
           width == [x \in S |-> s.to[x] - s.from[x]]
           Good == {x \in S : s.from[x] <= s.from[q] /\ s.from[q] < s.to[x] => x \in Above(s, q)}
<1>2. ASSUME NEW x \in S, \A y \in S : width[y] < width[x] => y \in Good
      PROVE  x \in Good
  <2>1. SUFFICES ASSUME s.from[x] <= s.from[q], s.from[q] < s.to[x], x # q
                 PROVE  x \in Above(s, q)
    BY AboveUp
  <2>2. s.from[x] < s.from[q]
    BY <2>1, NumbersAre
  <2>3. PICK i \in DOMAIN s.steps[x] : /\ s.from[s.steps[x][i]] <= s.from[q]
                                      /\ s.from[q] < s.to[s.steps[x][i]]
    BY <2>1, <2>2, StepCovers
  <2>4. PICK y : y = s.steps[x][i]
    OBVIOUS
  <2>5. y \in S /\ s.parent[y] = x
    BY <2>4, StepIs
  <2>6. s.from[x] < s.from[y] /\ s.to[y] <= s.to[x]
    BY <2>4, StepsInside
  <2>7. y \in Good
    <3>1. /\ s.from[x] \in Nat /\ s.to[x] \in Nat /\ s.from[y] \in Nat /\ s.to[y] \in Nat
          /\ s.from[y] < s.to[y]
      BY <2>5, NumbersAre
    <3>2. width[y] < width[x]
      BY <2>5, <2>6, <3>1
    <3>3. QED
      BY <1>2, <2>5, <3>2
  <2>8. y \in Above(s, q)
    BY <2>3, <2>4, <2>7
  <2>9. x # None
    BY DEF Tree
  <2>10. QED
    BY <2>5, <2>8, <2>9, AboveUp
<1>3. Good \in SUBSET S
  OBVIOUS
<1>4. width \in [S -> Nat]
  <2>1. \A x \in S : s.to[x] - s.from[x] \in Nat
    BY NumbersAre
  <2>2. QED
    BY <2>1
<1> HIDE DEF Good, S, width
<1>5. Good = S
  BY <1>2, <1>3, <1>4, RankInduction
<1>6. QED
  BY <1>1, <1>5 DEF Good, S

\* The pages above a page other than itself.
AboveOnly(s, p) == IF s.parent[p] = None THEN {} ELSE Above(s, s.parent[p])

LEMMA AboveOnlyIs ==
  ASSUME NEW s, Tree(s), NEW p \in Pages(s)
  PROVE  /\ AboveOnly(s, p) \in SUBSET Pages(s)
         /\ Above(s, p) = {p} \cup AboveOnly(s, p)
         /\ \A q \in AboveOnly(s, p) : s.from[q] < s.from[p] /\ s.to[p] <= s.to[q]
<1>1. CASE s.parent[p] = None
  BY <1>1, AboveIs DEF AboveOnly
<1>2. CASE s.parent[p] # None
  <2>1. PICK r : r = s.parent[p]
    OBVIOUS
  <2>2. r \in Pages(s) /\ s.from[r] < s.from[p] /\ s.to[p] <= s.to[r]
    BY <1>2, <2>1, IndexIs
  <2>3. AboveOnly(s, p) = Above(s, r) /\ Above(s, p) = {p} \cup Above(s, r)
    BY <1>2, <2>1, AboveIs DEF AboveOnly
  <2>4. Above(s, r) \in SUBSET Pages(s)
    BY <2>2, AboveIs
  <2>5. ASSUME NEW q \in Above(s, r)
        PROVE  s.from[q] < s.from[p] /\ s.to[p] <= s.to[q]
    <3>1. s.from[q] <= s.from[r] /\ s.to[r] <= s.to[q]
      BY <2>2, AboveUp
    <3>2. s.from[q] \in Nat /\ s.to[q] \in Nat
      BY <2>4, NumbersAre
    <3>3. s.from[r] \in Nat /\ s.to[r] \in Nat /\ s.from[p] \in Nat /\ s.to[p] \in Nat
      BY <2>2, NumbersAre
    <3>4. QED
      BY <2>2, <3>1, <3>2, <3>3
  <2>6. QED
    BY <2>3, <2>4, <2>5
<1>3. QED
  BY <1>1, <1>2

-----------------------------------------------------------------------------
(* The walks *)

\* checkNextInputPage finds the page whose place is the end of p, under a page that p
\* is under, or none when p ends where the service does.
LEMMA NextInputPageIs ==
  ASSUME NEW s, Tree(s)
  PROVE  \A p \in Pages(s) :
           \/ /\ NextInputPage(s, p) = None
              /\ \A x \in Pages(s) : s.from[x] < s.to[p]
           \/ /\ NextInputPage(s, p) \in Pages(s)
              /\ s.from[NextInputPage(s, p)] = s.to[p]
              /\ AboveOnly(s, NextInputPage(s, p)) \subseteq AboveOnly(s, p)
<1> DEFINE S == Pages(s)
           V == S \cup {None}
           steps(q) == s.steps[s.parent[q]]
           last(q) == ~(Index(s, q) < Len(steps(q)))
           stop == {q \in S : s.parent[q] = None \/ ~last(q)}
           next == [q \in S |-> IF s.parent[q] = None THEN q ELSE s.parent[q]]
           result == [q \in S |-> IF s.parent[q] = None THEN None
                                  ELSE IF last(q) THEN None ELSE steps(q)[Index(s, q) + 1]]
           G == [x \in S \X V |-> x[2]]
           after == CHOOSE f : f = [q \in S |->
                      IF s.parent[q] = None THEN None
                      ELSE IF Index(s, q) < Len(steps(q)) THEN steps(q)[Index(s, q) + 1]
                      ELSE f[s.parent[q]]]
<1>1. s.from \in [S -> Nat] /\ s.parent \in [S -> V]
  BY NumbersAre
<1>2. ASSUME NEW q \in S, s.parent[q] # None
      PROVE  /\ s.parent[q] \in S
             /\ Index(s, q) \in Nat /\ Index(s, q) <= Len(steps(q)) /\ Len(steps(q)) \in Nat
             /\ IF last(q) THEN s.to[q] = s.to[s.parent[q]]
                ELSE /\ steps(q)[Index(s, q) + 1] \in S
                     /\ s.parent[steps(q)[Index(s, q) + 1]] = s.parent[q]
                     /\ s.from[steps(q)[Index(s, q) + 1]] = s.to[q]
  <2>1. PICK r, st, n, i : r = s.parent[q] /\ st = s.steps[r] /\ n = Len(st) /\ i = Index(s, q)
    OBVIOUS
  <2>2. r \in S /\ i \in DOMAIN st /\ st[i] = q
    BY <1>2, <2>1, IndexIs
  <2>3. /\ n \in Nat /\ DOMAIN st = 1..n
        /\ n # 0 => s.to[st[n]] = s.to[r]
        /\ \A j \in 1..n : st[j] \in S /\ s.parent[st[j]] = r
        /\ \A j \in 1..n : j + 1 \in 1..n => s.from[st[j + 1]] = s.to[st[j]]
    <3> HIDE DEF steps, last, stop, next, result, G, V, after
    <3>1. r \in Pages(s) /\ st = s.steps[r] /\ n = Len(st)
      BY <2>1, <2>2
    <3>2. QED
      BY <3>1, StepsAre
  <2>4. i < n => i + 1 \in 1..n
    BY <2>2, <2>3
  <2>5. ~(i < n) => i = n /\ n # 0
    BY <2>2, <2>3
  <2>6. IF ~(i < n) THEN s.to[q] = s.to[r]
        ELSE st[i + 1] \in S /\ s.parent[st[i + 1]] = r /\ s.from[st[i + 1]] = s.to[q]
    BY <2>2, <2>3, <2>4, <2>5
  <2>7. i \in Nat /\ i <= n
    BY <2>2, <2>3
  <2>8. QED
    BY <2>1, <2>2, <2>3, <2>6, <2>7
<1>3. stop \in SUBSET S /\ next \in [S -> S] /\ G \in [S \X V -> V]
  BY <1>2
<1>4. result \in [S -> V]
  BY <1>2
<1>5. \A q \in S \ stop : s.from[next[q]] < s.from[q]
  BY IndexIs
<1>6. PICK f : Recurs(f, S, V, stop, next, result, G)
  <2> HIDE DEF S, V, stop, next, result, G
  <2>1. QED
    BY <1>1, <1>3, <1>4, <1>5, Recursion
<1>7. f = [q \in S |-> IF s.parent[q] = None THEN None
                       ELSE IF Index(s, q) < Len(steps(q)) THEN steps(q)[Index(s, q) + 1]
                       ELSE f[s.parent[q]]]
  <2>1. ASSUME NEW q \in S
        PROVE  f[q] = IF s.parent[q] = None THEN None
                      ELSE IF Index(s, q) < Len(steps(q)) THEN steps(q)[Index(s, q) + 1]
                      ELSE f[s.parent[q]]
    <3>1. CASE q \in stop
      <4>1. f[q] = result[q]
        BY <1>6, <3>1 DEF Recurs
      <4>2. QED
        BY <3>1, <4>1
    <3>2. CASE q \notin stop
      <4>1. f[s.parent[q]] \in V /\ f[q] = G[<<q, f[s.parent[q]]>>]
        BY <1>2, <1>6, <3>2 DEF Recurs
      <4>2. QED
        BY <3>2, <4>1
    <3>3. QED
      BY <3>1, <3>2
  <2>2. f \in [S -> V]
    BY <1>6 DEF Recurs
  <2> HIDE DEF S, V, steps
  <2>3. QED
    BY <2>1, <2>2
<1>8. after = [q \in S |-> IF s.parent[q] = None THEN None
                           ELSE IF Index(s, q) < Len(steps(q)) THEN steps(q)[Index(s, q) + 1]
                           ELSE after[s.parent[q]]]
  <2> HIDE DEF S, steps
  <2>1. QED
    BY <1>7
<1>9. \A p : NextInputPage(s, p) = after[p]
  BY DEF NextInputPage
<1> HIDE DEF after
<1> DEFINE Is(p) == \/ after[p] = None /\ \A x \in S : s.from[x] < s.to[p]
                    \/ /\ after[p] \in S /\ s.from[after[p]] = s.to[p]
                       /\ AboveOnly(s, after[p]) \subseteq AboveOnly(s, p)
           Good == {p \in S : Is(p)}
<1>10. ASSUME NEW q \in S, \A p \in S : s.from[p] < s.from[q] => p \in Good
       PROVE  Is(q)
  <2>1. CASE s.parent[q] = None
    <3>1. after[q] = None /\ q = Root(s)
      BY <1>8, <2>1, RootIs
    <3>2. \A x \in S : s.from[x] < s.to[q]
      BY <3>1, AboveUp, AboveInterval
    <3>3. QED
      BY <3>1, <3>2
  <2>2. CASE s.parent[q] # None /\ ~last(q)
    <3>1. after[q] = steps(q)[Index(s, q) + 1]
      BY <1>8, <2>2
    <3>2. after[q] \in S /\ s.parent[after[q]] = s.parent[q] /\ s.from[after[q]] = s.to[q]
      BY <1>2, <2>2, <3>1
    <3>3. AboveOnly(s, after[q]) = AboveOnly(s, q)
      BY <3>2 DEF AboveOnly
    <3>4. QED
      BY <3>2, <3>3
  <2>3. CASE s.parent[q] # None /\ last(q)
    <3>1. PICK r : r = s.parent[q]
      OBVIOUS
    <3>2. after[q] = after[r] /\ r \in S /\ s.to[q] = s.to[r]
      BY <1>2, <1>8, <2>3, <3>1
    <3>3. Is(r)
      BY <1>10, <2>3, <3>1, IndexIs
    <3>4. AboveOnly(s, r) \subseteq AboveOnly(s, q)
      <4>1. AboveOnly(s, q) = Above(s, r)
        BY <2>3, <3>1 DEF AboveOnly
      <4>2. QED
        BY <3>2, <4>1, AboveOnlyIs
    <3>5. QED
      BY <3>2, <3>3, <3>4
  <2>4. QED
    BY <2>1, <2>2, <2>3
<1>11. Good = S
  <2>1. Good \in SUBSET S
    OBVIOUS
  <2>2. ASSUME NEW q \in S, \A p \in S : s.from[p] < s.from[q] => p \in Good
        PROVE  q \in Good
    <3> HIDE DEF Is
    <3>1. QED
      BY <1>10, <2>2
  <2> HIDE DEF Good, S
  <2>3. QED
    BY <1>1, <2>1, <2>2, RankInduction
<1>12. ASSUME NEW p \in S
       PROVE  Is(p)
  <2> HIDE DEF Is
  <2>1. QED
    BY <1>11
<1>13. QED
  BY <1>9, <1>12

\* The first visible step, after hidden ones.
LEMMA FirstStepIs ==
  ASSUME NEW s, Tree(s), NEW as, NEW p \in Pages(s)
  PROVE  \/ /\ FirstStep(s, as, p) = None
            /\ \A j \in DOMAIN s.steps[p] : ~Visible(s, as, s.steps[p][j])
         \/ \E i \in DOMAIN s.steps[p] :
              /\ FirstStep(s, as, p) = s.steps[p][i]
              /\ Visible(s, as, s.steps[p][i])
              /\ \A j \in DOMAIN s.steps[p] : j < i => ~Visible(s, as, s.steps[p][j])
<1>1. PICK st, n : st = s.steps[p] /\ n = Len(st)
  OBVIOUS
<1>2. n \in Nat /\ DOMAIN st = 1..n
  BY <1>1, StepsAre
<1> DEFINE shown == {i \in DOMAIN st : Visible(s, as, st[i])}
<1>3. FirstStep(s, as, p) = IF shown = {} THEN None
                            ELSE st[CHOOSE i \in shown : \A j \in shown : i <= j]
  BY <1>1 DEF FirstStep
<1>4. CASE shown = {}
  BY <1>1, <1>3, <1>4
<1>5. CASE shown # {}
  <2>1. shown \in SUBSET Nat
    <3>1. shown \subseteq DOMAIN st
      OBVIOUS
    <3> HIDE DEF shown
    <3>2. QED
      BY <1>2, <3>1
  <2>2. \E i \in shown : \A j \in shown : i <= j
    <3> HIDE DEF shown
    <3>1. QED
      BY <1>5, <2>1, Least
  <2>3. PICK i \in shown : FirstStep(s, as, p) = st[i] /\ \A j \in shown : i <= j
    <3> HIDE DEF shown
    <3>1. QED
      BY <1>3, <1>5, <2>2
  <2>4. \A j \in DOMAIN st : j < i => j \notin shown
    <3>1. i \in Nat /\ DOMAIN st \subseteq Nat
      BY <1>2, <2>1
    <3> HIDE DEF shown
    <3>2. QED
      BY <2>3, <3>1
  <2>5. QED
    BY <1>1, <2>3, <2>4
<1>6. QED
  BY <1>4, <1>5

LEMMA FlowIs ==
  ASSUME NEW s, Tree(s), NEW as, NEW p \in Pages(s)
  PROVE  p \in Flow(s, as) <=> Visible(s, as, p) /\ \A q \in AboveOnly(s, p) : Visible(s, as, q)
BY AboveOnlyIs DEF Flow, InFlow

LEMMA UnderHidden ==
  ASSUME NEW s, Tree(s), NEW as, NEW p \in Pages(s), ~Visible(s, as, p),
         NEW x \in Flow(s, as), s.from[p] <= s.from[x]
  PROVE  ~(s.from[x] < s.to[p])
<1>1. x \in Pages(s)
  BY DEF Flow
<1>2. QED
  BY <1>1, AboveInterval DEF Flow, InFlow

\* No page of the flow is below p and before its first visible step.
LEMMA StepsHidden ==
  ASSUME NEW s, Tree(s), NEW as, NEW p \in Pages(s), NEW k \in Int,
         \A j \in DOMAIN s.steps[p] : j < k => ~Visible(s, as, s.steps[p][j]),
         NEW x \in Flow(s, as), s.from[p] < s.from[x], s.from[x] < s.to[p]
  PROVE  \E i \in DOMAIN s.steps[p] : /\ ~(i < k)
                                     /\ s.from[s.steps[p][i]] <= s.from[x]
<1>1. x \in Pages(s)
  BY DEF Flow
<1>2. PICK i \in DOMAIN s.steps[p] : /\ s.from[s.steps[p][i]] <= s.from[x]
                                     /\ s.from[x] < s.to[s.steps[p][i]]
  BY <1>1, StepCovers
<1>3. s.steps[p][i] \in Pages(s)
  BY StepIs
<1>4. ~(i < k)
  BY <1>2, <1>3, UnderHidden
<1>5. QED
  BY <1>2, <1>4

LEMMA NextPlaces ==
  ASSUME NEW s, Tree(s), NEW as, NEW p \in Pages(s)
  PROVE  /\ \/ NextInputPage(s, p) = None
            \/ NextInputPage(s, p) \in Pages(s) /\ s.from[NextInputPage(s, p)] = s.to[p]
         /\ FirstStep(s, as, p) \in Pages(s) \cup {None}
<1>1. \/ NextInputPage(s, p) = None
      \/ NextInputPage(s, p) \in Pages(s) /\ s.from[NextInputPage(s, p)] = s.to[p]
  BY NextInputPageIs
<1>2. CASE FirstStep(s, as, p) = None
  BY <1>1, <1>2
<1>3. CASE FirstStep(s, as, p) # None
  <2>1. PICK i \in DOMAIN s.steps[p] :
          /\ FirstStep(s, as, p) = s.steps[p][i] /\ Visible(s, as, s.steps[p][i])
          /\ \A j \in DOMAIN s.steps[p] : j < i => ~Visible(s, as, s.steps[p][j])
    BY <1>3, FirstStepIs
  <2>2. QED
    BY <1>1, <2>1, StepIs
<1>4. QED
  BY <1>2, <1>3

LEMMA NextInTreeStep ==
  ASSUME NEW s, Tree(s), NEW as
  PROVE  \A p \in Pages(s) :
           NextInTree(s, as, p) =
             IF Visible(s, as, p) /\ FirstStep(s, as, p) # None THEN FirstStep(s, as, p)
             ELSE IF NextInputPage(s, p) = None \/ Visible(s, as, NextInputPage(s, p))
             THEN NextInputPage(s, p)
             ELSE NextInTree(s, as, NextInputPage(s, p))
<1> DEFINE S == Pages(s)
           V == S \cup {None}
           in(q) == NextInputPage(s, q)
           first(q) == FirstStep(s, as, q)
           down(q) == Visible(s, as, q) /\ first(q) # None
           here(q) == in(q) = None \/ Visible(s, as, in(q))
           stop == {q \in S : down(q) \/ here(q)}
           next == [q \in S |-> IF q \in stop THEN q ELSE in(q)]
           result == [q \in S |-> IF down(q) THEN first(q) ELSE in(q)]
           G == [x \in S \X V |-> x[2]]
           rank == [q \in S |-> s.to[Root(s)] - s.from[q]]
           walk == CHOOSE f : f = [q \in S |->
                     IF down(q) THEN first(q) ELSE IF here(q) THEN in(q) ELSE f[in(q)]]
<1>1. \A q \in S : s.from[q] \in Nat /\ s.to[q] \in Nat /\ s.from[q] < s.to[q]
  BY NumbersAre
<1>2. rank \in [S -> Nat]
  <2>1. ASSUME NEW q \in S
        PROVE  s.to[Root(s)] - s.from[q] \in Nat
    <3>1. s.from[q] < s.to[Root(s)] /\ s.to[Root(s)] \in Nat
      BY AboveUp, RootIs, AboveInterval, <1>1
    <3>2. QED
      BY <1>1, <3>1
  <2>2. QED
    BY <2>1
<1>3. \A q \in S : in(q) = None \/ (in(q) \in S /\ s.from[in(q)] = s.to[q])
  BY NextPlaces
<1>4. \A q \in S : first(q) \in V
  BY NextPlaces
<1>5. stop \in SUBSET S /\ next \in [S -> S] /\ G \in [S \X V -> V] /\ result \in [S -> V]
  BY <1>3, <1>4
<1>6. \A q \in S \ stop : rank[next[q]] < rank[q]
  <2>1. ASSUME NEW q \in S \ stop
        PROVE  rank[next[q]] < rank[q]
    <3>1. next[q] = in(q) /\ in(q) \in S /\ s.from[in(q)] = s.to[q]
      BY <1>3
    <3>2. s.to[Root(s)] \in Nat
      BY <1>1, RootIs
    <3>3. /\ s.from[q] \in Nat /\ s.from[in(q)] \in Nat /\ s.from[q] < s.from[in(q)]
      BY <1>1, <3>1
    <3>4. rank[q] = s.to[Root(s)] - s.from[q] /\ rank[next[q]] = s.to[Root(s)] - s.from[in(q)]
      BY <3>1
    <3> HIDE DEF rank, next, in
    <3>5. QED
      BY <3>2, <3>3, <3>4
  <2>2. QED
    BY <2>1
<1>7. PICK f : Recurs(f, S, V, stop, next, result, G)
  <2> HIDE DEF S, V, stop, next, result, G, rank
  <2>1. QED
    BY <1>2, <1>5, <1>6, Recursion
<1>8. f = [q \in S |-> IF down(q) THEN first(q) ELSE IF here(q) THEN in(q) ELSE f[in(q)]]
  <2>1. ASSUME NEW q \in S
        PROVE  f[q] = IF down(q) THEN first(q) ELSE IF here(q) THEN in(q) ELSE f[in(q)]
    <3>1. CASE q \in stop
      <4>1. f[q] = result[q]
        BY <1>7, <3>1 DEF Recurs
      <4>2. QED
        BY <3>1, <4>1
    <3>2. CASE q \notin stop
      <4>1. in(q) \in S /\ next[q] = in(q)
        BY <1>3, <3>2
      <4>2. f[in(q)] \in V /\ f[q] = G[<<q, f[in(q)]>>]
        BY <1>7, <3>2, <4>1 DEF Recurs
      <4>3. QED
        BY <3>2, <4>2
    <3>3. QED
      BY <3>1, <3>2
  <2>2. f \in [S -> V]
    BY <1>7 DEF Recurs
  <2> HIDE DEF S, V, down, here, first, in
  <2>3. QED
    BY <2>1, <2>2
<1>9. walk = [q \in S |-> IF down(q) THEN first(q) ELSE IF here(q) THEN in(q) ELSE walk[in(q)]]
  <2> HIDE DEF S, down, here, first, in
  <2>1. QED
    BY <1>8
<1>10. \A p : NextInTree(s, as, p) = walk[p]
  BY DEF NextInTree
<1> HIDE DEF walk
<1>11. QED
  BY <1>9, <1>10

\* q is the page of the flow that comes next after p.
Follows(s, as, p, q) ==
  \/ q = None /\ \A x \in Flow(s, as) : ~Before(s, p, x)
  \/ /\ q \in Flow(s, as) /\ Before(s, p, q)
     /\ \A x \in Flow(s, as) : Before(s, p, x) => s.from[q] <= s.from[x]

\* getNextPage goes forward, and from a page that is not below a hidden one to the
\* page that follows it in the flow.
LEMMA NextInTreeIs ==
  ASSUME NEW s, Tree(s), NEW as
  PROVE  \A p \in Pages(s) :
           /\ NextInTree(s, as, p) \in Pages(s) \cup {None}
           /\ NextInTree(s, as, p) # None => Before(s, p, NextInTree(s, as, p))
           /\ (\A a \in AboveOnly(s, p) : Visible(s, as, a)) => Follows(s, as, p, NextInTree(s, as, p))
<1> DEFINE S == Pages(s)
           next(p) == NextInTree(s, as, p)
           Open(p) == \A a \in AboveOnly(s, p) : Visible(s, as, a)
           Is(p) == /\ next(p) \in S \cup {None}
                    /\ next(p) # None => Before(s, p, next(p))
                    /\ Open(p) => Follows(s, as, p, next(p))
           Good == {p \in S : Is(p)}
           rank == [q \in S |-> s.to[Root(s)] - s.from[q]]
<1>1. \A q \in S : s.from[q] \in Nat /\ s.to[q] \in Nat /\ s.from[q] < s.to[q]
  BY NumbersAre
<1>2. rank \in [S -> Nat]
  <2>1. ASSUME NEW q \in S
        PROVE  s.to[Root(s)] - s.from[q] \in Nat
    <3>1. s.from[q] < s.to[Root(s)] /\ s.to[Root(s)] \in Nat
      BY AboveUp, RootIs, AboveInterval, <1>1
    <3>2. QED
      BY <1>1, <3>1
  <2>2. QED
    BY <2>1
<1>3. Flow(s, as) \subseteq S /\ None \notin S
  BY DEF Flow, Tree
<1>4. ASSUME NEW p \in S, Visible(s, as, p), FirstStep(s, as, p) # None
      PROVE  Is(p)
  <2>1. PICK i \in DOMAIN s.steps[p] :
          /\ FirstStep(s, as, p) = s.steps[p][i] /\ Visible(s, as, s.steps[p][i])
          /\ \A j \in DOMAIN s.steps[p] : j < i => ~Visible(s, as, s.steps[p][j])
    BY <1>4, FirstStepIs
  <2>2. PICK q : q = s.steps[p][i]
    OBVIOUS
  <2>3. next(p) = q
    BY <1>4, <2>1, <2>2, NextInTreeStep
  <2>4. q \in S /\ s.parent[q] = p /\ s.from[p] < s.from[q]
    BY <2>2, StepIs, StepsInside
  <2>5. ASSUME Open(p)
        PROVE  Follows(s, as, p, q)
    <3>1. q \in Flow(s, as)
      <4>1. AboveOnly(s, q) = {p} \cup AboveOnly(s, p)
        BY <1>3, <2>4, AboveOnlyIs DEF AboveOnly
      <4>2. QED
        BY <1>4, <2>1, <2>2, <2>4, <2>5, <4>1, FlowIs
    <3>2. ASSUME NEW x \in Flow(s, as), s.from[p] < s.from[x]
          PROVE  s.from[q] <= s.from[x]
      <4>1. x \in S /\ s.from[x] \in Nat /\ s.to[p] \in Nat /\ s.from[q] \in Nat /\ s.from[q] < s.to[p]
        <5>1. s.to[q] <= s.to[p]
          BY <2>2, StepsInside
        <5>2. x \in S
          BY <1>3
        <5>3. s.from[q] < s.to[q] /\ s.from[q] \in Nat /\ s.to[q] \in Nat /\ s.to[p] \in Nat
          BY <1>1, <2>4
        <5>4. QED
          BY <1>1, <5>1, <5>2, <5>3
      <4>2. CASE s.from[x] < s.to[p]
        <5>1. PICK st, n : st = s.steps[p] /\ n = Len(st)
          OBVIOUS
        <5>2. DOMAIN st = 1..n /\ n \in Nat
          BY <5>1, StepsAre
        <5>3. i \in Int
          BY <5>1, <5>2
        <5>4. PICK k \in DOMAIN s.steps[p] : ~(k < i) /\ s.from[s.steps[p][k]] <= s.from[x]
          BY <2>1, <3>2, <4>2, <5>3, StepsHidden
        <5>5. s.from[q] <= s.from[s.steps[p][k]]
          BY <2>2, <5>1, <5>2, <5>4, StepsOrdered
        <5>6. s.steps[p][k] \in S
          BY StepIs
        <5>7. QED
          BY <1>1, <4>1, <5>4, <5>5, <5>6
      <4>3. CASE ~(s.from[x] < s.to[p])
        BY <4>1, <4>3
      <4>4. QED
        BY <4>2, <4>3
    <3>3. QED
      BY <2>4, <3>1, <3>2 DEF Follows, Before
  <2>6. QED
    BY <2>3, <2>4, <2>5 DEF Before
<1>5. ASSUME NEW p \in S, ~(Visible(s, as, p) /\ FirstStep(s, as, p) # None),
             \A q \in S : rank[q] < rank[p] => Is(q)
      PROVE  Is(p)
  <2> DEFINE q == NextInputPage(s, p)
  <2>1. ASSUME NEW x \in Flow(s, as), s.from[p] < s.from[x]
        PROVE  ~(s.from[x] < s.to[p])
    <3>1. CASE ~Visible(s, as, p)
      <4>1. s.from[p] <= s.from[x]
        <5>1. x \in S
          BY <1>3
        <5>2. s.from[p] \in Nat /\ s.from[x] \in Nat
          BY <1>1, <5>1
        <5>3. QED
          BY <2>1, <5>2
      <4>2. QED
        BY <3>1, <4>1, UnderHidden
    <3>2. CASE FirstStep(s, as, p) = None
      <4>1. PICK st, n : st = s.steps[p] /\ n = Len(st)
        OBVIOUS
      <4>2. DOMAIN st = 1..n /\ n \in Nat
        BY <4>1, StepsAre
      <4>3. \A j \in DOMAIN s.steps[p] : ~Visible(s, as, s.steps[p][j])
        <5>1. ASSUME NEW i \in DOMAIN s.steps[p]
              PROVE  FirstStep(s, as, p) # s.steps[p][i]
          <6>1. s.steps[p][i] \in S
            BY StepIs
          <6>2. QED
            BY <1>3, <3>2, <6>1
        <5>2. QED
          BY <5>1, FirstStepIs
      <4>4. SUFFICES ASSUME s.from[x] < s.to[p]
                     PROVE  FALSE
        OBVIOUS
      <4>5. PICK i \in DOMAIN s.steps[p] : ~(i < n + 1)
        <5>1. n + 1 \in Int
          BY <4>2
        <5>2. QED
          BY <2>1, <4>3, <4>4, <5>1, StepsHidden
      <4>6. QED
        BY <4>1, <4>2, <4>5
    <3>3. QED
      BY <1>5, <3>1, <3>2
  <2>2. CASE q = None
    <3>1. next(p) = None
      BY <1>5, <2>2, NextInTreeStep
    <3>2. \A x \in S : s.from[x] < s.to[p]
      BY <1>3, <2>2, NextInputPageIs
    <3>3. Follows(s, as, p, None)
      BY <1>3, <2>1, <3>2 DEF Follows, Before
    <3>4. QED
      BY <3>1, <3>3
  <2>3. CASE q # None
    <3>1. q \in S /\ s.from[q] = s.to[p] /\ AboveOnly(s, q) \subseteq AboveOnly(s, p)
      BY <2>3, NextInputPageIs
    <3>2. s.from[p] < s.from[q] /\ s.from[p] \in Nat /\ s.from[q] \in Nat
      BY <1>1, <3>1
    <3>3. Open(p) => Open(q)
      BY <3>1
    <3>4. ASSUME NEW x \in Flow(s, as), s.from[p] < s.from[x]
          PROVE  s.from[q] <= s.from[x]
      <4>1. ~(s.from[x] < s.from[q]) /\ x \in S
        BY <1>3, <2>1, <3>1, <3>4
      <4>2. s.from[x] \in Nat /\ s.from[q] \in Nat
        BY <1>1, <3>1, <4>1
      <4>3. QED
        BY <4>1, <4>2
    <3>5. CASE Visible(s, as, q)
      <4>1. next(p) = q
        BY <1>5, <3>5, NextInTreeStep
      <4>2. Open(p) => q \in Flow(s, as)
        BY <3>1, <3>3, <3>5, FlowIs
      <4>3. QED
        BY <3>1, <3>2, <3>4, <4>1, <4>2 DEF Follows, Before
    <3>6. CASE ~Visible(s, as, q)
      <4>1. next(p) = next(q)
        BY <1>5, <2>3, <3>6, NextInTreeStep
      <4>2. Is(q)
        <5>1. rank[q] < rank[p]
          <6>1. s.to[Root(s)] \in Nat
            BY <1>1, RootIs
          <6>2. QED
            BY <3>1, <3>2, <6>1
        <5> HIDE DEF Is
        <5>2. QED
          BY <1>5, <3>1, <5>1
      <4>3. q \notin Flow(s, as)
        BY <3>1, <3>6, FlowIs
      <4>4. ASSUME NEW x \in Flow(s, as), s.from[p] < s.from[x]
            PROVE  s.from[q] < s.from[x]
        <5>1. x \in S /\ x # q
          BY <1>3, <4>3
        <5>2. s.from[x] # s.from[q] /\ s.from[x] \in Nat
          BY <1>1, <3>1, <5>1, NumbersAre
        <5>3. s.from[q] <= s.from[x]
          BY <3>4, <4>4
        <5>4. QED
          BY <3>2, <5>2, <5>3
      <4>5. \A x \in S : s.from[q] < s.from[x] => s.from[p] < s.from[x]
        BY <1>1, <3>2
      <4>6. next(p) # None => Before(s, p, next(p))
        BY <4>1, <4>2, <4>5 DEF Before
      <4>7. Open(p) => Follows(s, as, p, next(p))
        BY <1>3, <3>3, <4>1, <4>2, <4>4, <4>5 DEF Follows, Before
      <4>8. QED
        BY <4>1, <4>2, <4>6, <4>7
    <3>7. QED
      BY <3>5, <3>6
  <2>4. QED
    BY <2>2, <2>3
<1>6. ASSUME NEW p \in S, \A q \in S : rank[q] < rank[p] => q \in Good
      PROVE  p \in Good
  <2> HIDE DEF Is
  <2>1. QED
    BY <1>4, <1>5, <1>6
<1>7. Good \in SUBSET S
  OBVIOUS
<1>8. Good = S
  <2> HIDE DEF Good, S, rank
  <2>1. QED
    BY <1>2, <1>6, <1>7, RankInduction
<1>9. ASSUME NEW p \in S
      PROVE  Is(p)
  <2> HIDE DEF Is
  <2>1. QED
    BY <1>8
<1>10. QED
  BY <1>9

LEMMA FirstIs ==
  ASSUME NEW s, Tree(s), NEW A \in SUBSET Pages(s), NEW q \in A,
         \A x \in A : s.from[q] <= s.from[x]
  PROVE  First(s, A) = q
<1>1. \A x, y \in A : x # y => /\ s.from[x] # s.from[y]
                               /\ s.from[x] \in Nat /\ s.from[y] \in Nat
  BY NumbersAre
<1>2. \A x \in A \ {q} : s.from[q] < s.from[x]
  BY <1>1
<1>3. \A p \in A : (\A x \in A \ {p} : s.from[p] < s.from[x]) => p = q
  BY <1>1, <1>2
<1>4. QED
  BY <1>2, <1>3 DEF First, Before

LEMMA FirstLeast ==
  ASSUME NEW s, Tree(s), NEW A \in SUBSET Pages(s), A # {}
  PROVE  First(s, A) \in A /\ \A x \in A : s.from[First(s, A)] <= s.from[x]
<1> DEFINE places == {s.from[x] : x \in A}
<1>1. places \in SUBSET Nat /\ places # {}
  BY NumbersAre
<1>2. PICK m \in places : \A n \in places : m <= n
  <2> HIDE DEF places
  <2>1. QED
    BY <1>1, Least
<1>3. PICK q \in A : m = s.from[q]
  OBVIOUS
<1>4. \A x \in A : s.from[q] <= s.from[x]
  BY <1>2, <1>3
<1>5. QED
  BY <1>4, FirstIs

LEMMA LastIs ==
  ASSUME NEW s, Tree(s), NEW A \in SUBSET Pages(s), NEW q \in A,
         \A x \in A : s.from[x] <= s.from[q]
  PROVE  Last(s, A) = q
<1>1. \A x, y \in A : x # y => /\ s.from[x] # s.from[y]
                               /\ s.from[x] \in Nat /\ s.from[y] \in Nat
  BY NumbersAre
<1>2. \A x \in A \ {q} : s.from[x] < s.from[q]
  BY <1>1
<1>3. \A p \in A : (\A x \in A \ {p} : s.from[x] < s.from[p]) => p = q
  BY <1>1, <1>2
<1>4. QED
  BY <1>2, <1>3 DEF Last, Before

LEMMA FlowPages ==
  ASSUME NEW s, Tree(s), NEW as
  PROVE  /\ Flow(s, as) \in SUBSET Pages(s) /\ None \notin Pages(s)
         /\ \A p \in Flow(s, as) : Visible(s, as, p) /\ \A a \in AboveOnly(s, p) : Visible(s, as, a)
<1>1. Flow(s, as) \in SUBSET Pages(s) /\ None \notin Pages(s)
  BY DEF Flow, Tree
<1>2. QED
  BY <1>1, FlowIs

LEMMA RootFirst ==
  ASSUME NEW s, Tree(s), NEW p \in Pages(s), p # Root(s)
  PROVE  s.from[Root(s)] < s.from[p]
<1>1. Root(s) \in Pages(s) /\ s.from[Root(s)] <= s.from[p]
  BY RootIs, AboveUp
<1>2. s.from[Root(s)] # s.from[p] /\ s.from[Root(s)] \in Nat /\ s.from[p] \in Nat
  BY <1>1, NumbersAre
<1>3. QED
  BY <1>1, <1>2

\* How far a page is from the end of the service.
LEMMA ToGo ==
  ASSUME NEW s, Tree(s), NEW p \in Pages(s)
  PROVE  s.to[Root(s)] - s.from[p] \in Nat /\ s.to[Root(s)] - s.from[p] # 0
<1>1. s.from[p] < s.to[Root(s)]
  BY AboveUp, RootIs, AboveInterval
<1>2. s.from[p] \in Nat /\ s.to[Root(s)] \in Nat
  BY NumbersAre, RootIs
<1>3. QED
  BY <1>1, <1>2

\* A page leads forward, in a plain service along the steps alone.
LEMMA NextPageIs ==
  ASSUME NEW s, Tree(s), Forward(s), NEW as, NEW p \in Pages(s)
  PROVE  /\ NextPage(s, as, p) \in Places(s)
         /\ NextPage(s, as, p) \notin {None, NoSuchPage} => Before(s, p, NextPage(s, as, p))
         /\ Plain(s) => NextPage(s, as, p) = NextInTree(s, as, p)
<1>1. /\ NextInTree(s, as, p) \in Pages(s) \cup {None}
      /\ NextInTree(s, as, p) # None => Before(s, p, NextInTree(s, as, p))
  BY NextInTreeIs
<1> DEFINE entries == s.next[p].entries
           taken == {i \in DOMAIN entries :
                       \/ entries[i].cond = None
                       \/ entries[i].cond # Always /\ Holds(as, entries[i].cond)}
<1>2. CASE s.next[p].string
  <2>1. ExplicitNext(s, as, p) = NoSuchPage
    BY <1>2 DEF ExplicitNext
  <2>2. ~Plain(s)
    BY <1>2 DEF Plain
  <2>3. QED
    BY <1>1, <2>1, <2>2 DEF NextPage, Places
<1>3. CASE ~s.next[p].string
  <2>1. ExplicitNext(s, as, p) = IF taken = {} THEN None
                                 ELSE entries[CHOOSE i \in taken : \A j \in taken : i <= j].page
    BY <1>3 DEF ExplicitNext
  <2>2. CASE taken = {}
    BY <1>1, <2>1, <2>2 DEF NextPage, Places
  <2>3. CASE taken # {}
    <3>1. taken \in SUBSET Nat
      <4>1. DOMAIN entries \subseteq Nat
        BY DEF Forward
      <4>2. taken \subseteq DOMAIN entries
        OBVIOUS
      <4> HIDE DEF taken
      <4>3. QED
        BY <4>1, <4>2
    <3>2. \E i \in taken : \A j \in taken : i <= j
      <4> HIDE DEF taken
      <4>1. QED
        BY <2>3, <3>1, Least
    <3>3. PICK i \in taken : ExplicitNext(s, as, p) = entries[i].page
      <4> HIDE DEF taken
      <4>1. QED
        BY <2>1, <2>3, <3>2
    <3>4. entries[i].page \in Pages(s) /\ Before(s, p, entries[i].page)
      BY DEF Forward
    <3>5. ~Plain(s)
      BY <2>3 DEF Plain
    <3>6. QED
      BY <1>1, <3>3, <3>4, <3>5 DEF NextPage, Places
  <2>4. QED
    BY <2>2, <2>3
<1>4. QED
  BY <1>2, <1>3

LEMMA PlainNext ==
  ASSUME NEW s, Tree(s), Forward(s), Plain(s), NEW as, NEW p \in Pages(s),
         \A a \in AboveOnly(s, p) : Visible(s, as, a)
  PROVE  Follows(s, as, p, NextPage(s, as, p))
<1>1. NextPage(s, as, p) = NextInTree(s, as, p)
  BY NextPageIs
<1>2. Follows(s, as, p, NextInTree(s, as, p))
  BY NextInTreeIs
<1>3. QED
  BY <1>1, <1>2

\* getPreviousPage finds the page of the flow before a page of the flow.
LEMMA PreviousPageIs ==
  ASSUME NEW s, Tree(s), NEW as, NEW page \in Pages(s)
  PROVE  PreviousPage(s, as, page) =
           IF page \in Flow(s, as) THEN Last(s, {q \in Flow(s, as) : Before(s, q, page)}) ELSE None
<1> DEFINE S == Pages(s)
           V == S \cup {None}
           F == Flow(s, as)
           go(q) == NextInTree(s, as, q)
           stop == {q \in S : go(q) = page \/ go(q) = None}
           next == [q \in S |-> IF q \in stop THEN q ELSE go(q)]
           result == [q \in S |-> IF go(q) = page THEN q ELSE None]
           G == [x \in S \X V |-> x[2]]
           rank == [q \in S |-> s.to[Root(s)] - s.from[q]]
           walk == CHOOSE f : f = [q \in S |-> IF go(q) = page THEN q
                                               ELSE IF go(q) = None THEN None ELSE f[go(q)]]
<1>1. F \in SUBSET S /\ None \notin S /\ \A q \in S : s.from[q] \in Nat
  BY FlowPages, NumbersAre
<1>2. \A q \in S : /\ go(q) \in S \cup {None}
                   /\ go(q) # None => s.from[q] < s.from[go(q)]
  BY NextInTreeIs DEF Before
<1>3. \A q \in S : (\A a \in AboveOnly(s, q) : Visible(s, as, a)) =>
        \/ go(q) = None /\ \A x \in F : ~(s.from[q] < s.from[x])
        \/ go(q) \in F /\ \A x \in F : s.from[q] < s.from[x] => s.from[go(q)] <= s.from[x]
  BY NextInTreeIs DEF Follows, Before
<1>4. stop \in SUBSET S /\ next \in [S -> S] /\ G \in [S \X V -> V] /\ result \in [S -> V]
  BY <1>2
<1>5. rank \in [S -> Nat]
  BY ToGo
<1>6. ASSUME NEW q \in S, NEW r \in S, s.from[q] < s.from[r]
      PROVE  rank[r] < rank[q]
  <2>1. s.from[q] \in Nat /\ s.from[r] \in Nat /\ s.to[Root(s)] \in Nat
    BY NumbersAre, RootIs
  <2>2. QED
    BY <1>6, <2>1
<1>7. \A q \in S \ stop : rank[next[q]] < rank[q]
  <2>1. \A q \in S \ stop : next[q] = go(q) /\ go(q) \in S /\ s.from[q] < s.from[go(q)]
    BY <1>2
  <2> HIDE DEF rank, next, go, stop
  <2>2. QED
    BY <1>6, <2>1
<1>8. PICK f : Recurs(f, S, V, stop, next, result, G)
  <2> HIDE DEF S, V, stop, next, result, G, rank
  <2>1. QED
    BY <1>4, <1>5, <1>7, Recursion
<1>9. f = [q \in S |-> IF go(q) = page THEN q ELSE IF go(q) = None THEN None ELSE f[go(q)]]
  <2>1. ASSUME NEW q \in S
        PROVE  f[q] = IF go(q) = page THEN q ELSE IF go(q) = None THEN None ELSE f[go(q)]
    <3>1. CASE q \in stop
      <4>1. f[q] = result[q]
        BY <1>8, <3>1 DEF Recurs
      <4>2. QED
        BY <3>1, <4>1
    <3>2. CASE q \notin stop
      <4>1. go(q) \in S /\ next[q] = go(q)
        BY <1>2, <3>2
      <4>2. f[go(q)] \in V /\ f[q] = G[<<q, f[go(q)]>>]
        BY <1>8, <3>2, <4>1 DEF Recurs
      <4>3. QED
        BY <3>2, <4>2
    <3>3. QED
      BY <3>1, <3>2
  <2>2. f \in [S -> V]
    BY <1>8 DEF Recurs
  <2> HIDE DEF S, V, go
  <2>3. QED
    BY <2>1, <2>2
<1>10. walk = [q \in S |-> IF go(q) = page THEN q ELSE IF go(q) = None THEN None ELSE walk[go(q)]]
  <2> HIDE DEF S, go
  <2>1. QED
    BY <1>9
<1>11. PreviousPage(s, as, page) = IF page = Root(s) THEN None ELSE walk[Root(s)]
  BY DEF PreviousPage
<1> HIDE DEF walk, F
<1> DEFINE Is(q) == IF page \in F
                    THEN q \in F /\ s.from[q] < s.from[page] =>
                           /\ walk[q] \in F /\ s.from[walk[q]] < s.from[page]
                           /\ \A x \in F : s.from[x] < s.from[page] => s.from[x] <= s.from[walk[q]]
                    ELSE (\A a \in AboveOnly(s, q) : Visible(s, as, a)) => walk[q] = None
           Good == {q \in S : Is(q)}
<1>12. ASSUME NEW q \in S, \A r \in S : s.from[q] < s.from[r] => Is(r)
       PROVE  Is(q)
  <2>1. CASE page \in F
    <3>1. SUFFICES ASSUME q \in F, s.from[q] < s.from[page]
                   PROVE  /\ walk[q] \in F /\ s.from[walk[q]] < s.from[page]
                          /\ \A x \in F : s.from[x] < s.from[page] => s.from[x] <= s.from[walk[q]]
      BY <2>1
    <3>2. go(q) \in F /\ \A x \in F : s.from[q] < s.from[x] => s.from[go(q)] <= s.from[x]
      BY <1>3, <2>1, <3>1, FlowPages DEF F
    <3>3. go(q) \in S /\ s.from[q] < s.from[go(q)] /\ go(q) # None
      BY <1>1, <1>2, <3>2
    <3> HIDE DEF go
    <3>4. CASE go(q) = page
      <4>1. walk[q] = q
        BY <1>10, <3>4
      <4>2. ASSUME NEW x \in F, s.from[x] < s.from[page]
            PROVE  s.from[x] <= s.from[q]
        <5>1. ~(s.from[q] < s.from[x])
          BY <1>1, <3>2, <3>4, <4>2
        <5>2. QED
          BY <1>1, <5>1
      <4>3. QED
        BY <3>1, <4>1, <4>2
    <3>5. CASE go(q) # page
      <4>1. walk[q] = walk[go(q)]
        BY <1>10, <3>3, <3>5
      <4>2. s.from[go(q)] < s.from[page]
        <5>1. s.from[go(q)] # s.from[page]
          BY <3>3, <3>5, NumbersAre
        <5>2. s.from[go(q)] <= s.from[page]
          BY <2>1, <3>1, <3>2
        <5>3. QED
          BY <1>1, <3>3, <5>1, <5>2
      <4>3. Is(go(q))
        BY <1>12, <3>3
      <4>4. QED
        BY <2>1, <3>2, <4>1, <4>2, <4>3
    <3>6. QED
      BY <3>4, <3>5
  <2>2. CASE page \notin F
    <3>1. SUFFICES ASSUME \A a \in AboveOnly(s, q) : Visible(s, as, a)
                   PROVE  walk[q] = None
      BY <2>2
    <3>2. go(q) = None \/ go(q) \in F
      BY <1>3, <3>1
    <3>3. go(q) # page
      BY <1>1, <2>2, <3>2
    <3>4. CASE go(q) = None
      BY <1>10, <3>3, <3>4
    <3>5. CASE go(q) # None
      <4>1. go(q) \in S /\ s.from[q] < s.from[go(q)]
        BY <1>2, <3>5
      <4>2. \A a \in AboveOnly(s, go(q)) : Visible(s, as, a)
        BY <3>2, <3>5, FlowPages DEF F
      <4> HIDE DEF go
      <4>3. walk[q] = walk[go(q)]
        BY <1>10, <3>3, <3>5
      <4>4. QED
        BY <1>12, <2>2, <4>1, <4>2, <4>3
    <3>6. QED
      BY <3>4, <3>5
  <2>3. QED
    BY <2>1, <2>2
<1>13. Good = S
  <2>1. Good \in SUBSET S
    OBVIOUS
  <2>2. ASSUME NEW q \in S, \A r \in S : rank[r] < rank[q] => r \in Good
        PROVE  q \in Good
    <3>1. \A r \in S : s.from[q] < s.from[r] => r \in Good
      <4> HIDE DEF Good, rank
      <4>1. QED
        BY <1>6, <2>2
    <3> HIDE DEF Is
    <3>2. QED
      BY <1>12, <3>1
  <2> HIDE DEF Good, S, rank
  <2>3. QED
    BY <1>5, <2>1, <2>2, RankInduction
<1>14. Is(Root(s)) /\ Root(s) \in S
  <2> HIDE DEF Is
  <2>1. QED
    BY <1>13, RootIs
<1>15. AboveOnly(s, Root(s)) = {}
  BY RootIs DEF AboveOnly
<1>16. \A x \in S : x # Root(s) => s.from[Root(s)] < s.from[x]
  BY RootFirst
<1>17. CASE page \notin F
  BY <1>11, <1>14, <1>15, <1>17 DEF F
<1>18. CASE page \in F /\ page = Root(s)
  <2>1. {q \in F : Before(s, q, page)} = {}
    <3>1. ASSUME NEW q \in F, s.from[q] < s.from[page]
          PROVE  FALSE
      <4>1. q \in S /\ q # Root(s)
        BY <1>1, <1>18, <3>1
      <4>2. QED
        BY <1>1, <1>16, <1>18, <3>1, <4>1
    <3>2. QED
      BY <3>1 DEF Before
  <2>2. QED
    BY <1>11, <1>18, <2>1 DEF F, Last
<1>19. CASE page \in F /\ page # Root(s)
  <2> DEFINE A == {q \in F : Before(s, q, page)}
  <2>1. Root(s) \in F /\ s.from[Root(s)] < s.from[page]
    <3>1. Root(s) \in Above(s, page)
      BY AboveUp
    <3>2. Visible(s, as, Root(s))
      BY <1>19, <3>1 DEF F, Flow, InFlow
    <3>3. QED
      BY <1>14, <1>15, <1>16, <1>19, <3>2, FlowIs DEF F
  <2>2. walk[Root(s)] \in A /\ \A x \in A : s.from[x] <= s.from[walk[Root(s)]]
    BY <1>14, <1>19, <2>1 DEF Before
  <2>3. A \in SUBSET S
    BY <1>1
  <2>4. Last(s, A) = walk[Root(s)]
    <3> HIDE DEF A
    <3>1. QED
      BY <2>2, <2>3, LastIs
  <2>5. QED
    BY <1>11, <1>19, <2>4 DEF F
<1>20. QED
  BY <1>17, <1>18, <1>19

\* Where the walk to the page to return to stops.
Stops(s, as, change, q) == ~ValidPage(s, as, q) \/ q = change

\* checkNextPage arrives at a page or fails; in a plain service it stops at the first
\* page of the flow after p that is not valid or is the page to return to.
LEMMA CheckNextPageIs ==
  ASSUME NEW s, Tree(s), Forward(s), NEW as, NEW change, NEW p \in Pages(s), p # change,
         NoSuchPage \notin Pages(s),
         NEW A, A = {x \in Flow(s, as) : Before(s, p, x) /\ Stops(s, as, change, x)}
  PROVE  /\ CheckNextPage(s, as, change, p) \in Pages(s) \cup {Error}
         /\ Plain(s) /\ (\A a \in AboveOnly(s, p) : Visible(s, as, a)) =>
              CheckNextPage(s, as, change, p) = IF A = {} THEN Error ELSE First(s, A)
<1> DEFINE S == Places(s)
           P == Pages(s)
           V == P \cup {Error}
           F == Flow(s, as)
           go(q) == NextPage(s, as, q)
           off(q) == q \notin P \/ ~Visible(s, as, q)
           here(q) == ~ValidPage(s, as, q) \/ q = change
           stop == {q \in S : off(q) \/ here(q)}
           next == [q \in S |-> IF q \in stop THEN q ELSE go(q)]
           result == [q \in S |-> IF off(q) THEN Error ELSE q]
           G == [x \in S \X V |-> x[2]]
           rank == [q \in S |-> IF q \in P THEN s.to[Root(s)] - s.from[q] ELSE 0]
           arrive == CHOOSE f : f = [q \in S |-> IF off(q) THEN Error
                                                 ELSE IF here(q) THEN q ELSE f[go(q)]]
<1>1. F \in SUBSET P /\ None \notin P /\ P \subseteq S /\ \A q \in P : s.from[q] \in Nat
  BY FlowPages, NumbersAre DEF Places
<1>2. \A q \in P : /\ go(q) \in S
                   /\ go(q) \in P => s.from[q] < s.from[go(q)]
  BY NextPageIs, <1>1 DEF Before
<1>3. \A q \in P : Plain(s) /\ (\A a \in AboveOnly(s, q) : Visible(s, as, a)) =>
        \/ go(q) = None /\ \A x \in F : ~(s.from[q] < s.from[x])
        \/ /\ go(q) \in F /\ s.from[q] < s.from[go(q)]
           /\ \A x \in F : s.from[q] < s.from[x] => s.from[go(q)] <= s.from[x]
  BY PlainNext DEF Follows, Before
<1>4. stop \in SUBSET S /\ next \in [S -> S] /\ G \in [S \X V -> V] /\ result \in [S -> V]
  BY <1>1, <1>2
<1>5. rank \in [S -> Nat] /\ \A q \in P : rank[q] # 0
  BY <1>1, ToGo
<1>6. ASSUME NEW q \in P, NEW r \in S, r \in P => s.from[q] < s.from[r]
      PROVE  rank[r] < rank[q]
  <2>1. CASE r \in P
    <3>1. s.from[q] \in Nat /\ s.from[r] \in Nat /\ s.to[Root(s)] \in Nat
      BY <2>1, NumbersAre, RootIs
    <3>2. rank[q] = s.to[Root(s)] - s.from[q] /\ rank[r] = s.to[Root(s)] - s.from[r]
      BY <1>1, <2>1
    <3> HIDE DEF rank
    <3>3. QED
      BY <1>6, <2>1, <3>1, <3>2
  <2>2. CASE r \notin P
    <3>1. rank[r] = 0 /\ rank[q] \in Nat /\ rank[q] # 0
      BY <1>1, <1>5, <2>2
    <3> HIDE DEF rank
    <3>2. QED
      BY <3>1
  <2>3. QED
    BY <2>1, <2>2
<1>7. \A q \in S \ stop : rank[next[q]] < rank[q]
  <2>1. \A q \in S \ stop : q \in P /\ next[q] = go(q) /\ go(q) \in S /\ (go(q) \in P => s.from[q] < s.from[go(q)])
    BY <1>2
  <2> HIDE DEF rank, next, go, stop, P, S
  <2>2. QED
    BY <1>6, <2>1
<1>8. PICK f : Recurs(f, S, V, stop, next, result, G)
  <2> HIDE DEF S, V, stop, next, result, G, rank
  <2>1. QED
    BY <1>4, <1>5, <1>7, Recursion
<1>9. f = [q \in S |-> IF off(q) THEN Error ELSE IF here(q) THEN q ELSE f[go(q)]]
  <2>1. ASSUME NEW q \in S
        PROVE  f[q] = IF off(q) THEN Error ELSE IF here(q) THEN q ELSE f[go(q)]
    <3>1. CASE q \in stop
      <4>1. f[q] = result[q]
        BY <1>8, <3>1 DEF Recurs
      <4>2. QED
        BY <3>1, <4>1
    <3>2. CASE q \notin stop
      <4>1. go(q) \in S /\ next[q] = go(q)
        BY <1>2, <3>2
      <4>2. f[go(q)] \in V /\ f[q] = G[<<q, f[go(q)]>>]
        BY <1>8, <3>2, <4>1 DEF Recurs
      <4>3. QED
        BY <3>2, <4>2
    <3>3. QED
      BY <3>1, <3>2
  <2>2. f \in [S -> V]
    BY <1>8 DEF Recurs
  <2> HIDE DEF S, V, go, off, here
  <2>3. QED
    BY <2>1, <2>2
<1>10. arrive = [q \in S |-> IF off(q) THEN Error ELSE IF here(q) THEN q ELSE arrive[go(q)]]
  <2> HIDE DEF S, go, off, here
  <2>1. QED
    BY <1>9
<1>11. CheckNextPage(s, as, change, p) = arrive[go(p)]
  BY DEF CheckNextPage
<1> HIDE DEF arrive
<1> DEFINE Rest(q) == {x \in F : s.from[q] <= s.from[x] /\ here(x)}
           Is(q) == /\ arrive[q] \in V
                    /\ Plain(s) /\ q \in F =>
                         \/ arrive[q] = Error /\ Rest(q) = {}
                         \/ arrive[q] \in Rest(q) /\ \A x \in Rest(q) : s.from[arrive[q]] <= s.from[x]
           Good == {q \in S : Is(q)}
<1>12. ASSUME NEW q \in S, \A r \in S : rank[r] < rank[q] => Is(r)
       PROVE  Is(q)
  <2>1. CASE off(q)
    <3>1. arrive[q] = Error
      BY <1>10, <2>1
    <3>2. q \notin F
      BY <1>1, <2>1, FlowPages DEF F
    <3>3. QED
      BY <3>1, <3>2
  <2>2. CASE ~off(q) /\ here(q)
    <3>1. arrive[q] = q /\ q \in P
      BY <1>10, <2>2
    <3>2. q \in F => q \in Rest(q) /\ \A x \in Rest(q) : s.from[q] <= s.from[x]
      <4>1. s.from[q] <= s.from[q]
        BY <1>1, <3>1
      <4>2. q \in F => q \in Rest(q)
        BY <2>2, <4>1
      <4>3. \A x \in Rest(q) : s.from[q] <= s.from[x]
        OBVIOUS
      <4> HIDE DEF Rest
      <4>4. QED
        BY <4>2, <4>3
    <3>3. QED
      BY <3>1, <3>2
  <2>3. CASE ~off(q) /\ ~here(q)
    <3>1. arrive[q] = arrive[go(q)] /\ q \in P
      BY <1>10, <2>3
    <3>2. Is(go(q))
      <4>1. rank[go(q)] < rank[q]
        <5> HIDE DEF rank, go, P, S
        <5>1. QED
          BY <1>2, <1>6, <3>1
      <4> HIDE DEF Is, rank
      <4>2. QED
        BY <1>2, <1>12, <3>1, <4>1
    <3>3. ASSUME Plain(s), q \in F
          PROVE  \/ arrive[q] = Error /\ Rest(q) = {}
                 \/ arrive[q] \in Rest(q) /\ \A x \in Rest(q) : s.from[arrive[q]] <= s.from[x]
      <4>1. ASSUME NEW x \in Rest(q)
            PROVE  s.from[q] < s.from[x]
        <5>1. x # q /\ x \in P /\ s.from[q] <= s.from[x]
          BY <1>1, <2>3
        <5>2. s.from[x] # s.from[q]
          BY <3>1, <5>1, NumbersAre
        <5>3. QED
          BY <1>1, <3>1, <5>1, <5>2
      <4>2. \A a \in AboveOnly(s, q) : Visible(s, as, a)
        BY <3>3, FlowPages DEF F
      <4>3. CASE go(q) = None
        <5>1. \A x \in F : ~(s.from[q] < s.from[x])
          BY <1>1, <1>3, <3>1, <3>3, <4>2, <4>3
        <5>2. Rest(q) = {}
          <6>1. \A x \in Rest(q) : x \in F
            OBVIOUS
          <6> HIDE DEF Rest
          <6>2. QED
            BY <4>1, <5>1, <6>1
        <5>3. arrive[go(q)] = Error
          BY <1>1, <1>2, <1>10, <3>1, <4>3
        <5>4. QED
          BY <3>1, <5>2, <5>3
      <4>4. CASE go(q) # None
        <5>1. /\ go(q) \in F /\ s.from[q] < s.from[go(q)]
              /\ \A x \in F : s.from[q] < s.from[x] => s.from[go(q)] <= s.from[x]
          BY <1>3, <3>1, <3>3, <4>2, <4>4
        <5>2. Rest(q) = Rest(go(q))
          <6>1. \A x \in F : s.from[x] \in Nat /\ s.from[q] \in Nat /\ s.from[go(q)] \in Nat
            BY <1>1, <3>1, <5>1
          <6>2. \A x \in F : x \in Rest(q) <=> s.from[q] <= s.from[x] /\ here(x)
            OBVIOUS
          <6>3. \A x \in F : x \in Rest(go(q)) <=> s.from[go(q)] <= s.from[x] /\ here(x)
            OBVIOUS
          <6>4. Rest(q) \subseteq F /\ Rest(go(q)) \subseteq F
            OBVIOUS
          <6> HIDE DEF Rest, here, go, F
          <6>5. \A x \in F : x \in Rest(q) <=> x \in Rest(go(q))
            BY <4>1, <5>1, <6>1, <6>2, <6>3
          <6>6. QED
            BY <6>4, <6>5
        <5>3. QED
          BY <3>1, <3>2, <3>3, <5>1, <5>2
      <4>5. QED
        BY <4>3, <4>4
    <3>4. QED
      BY <3>1, <3>2, <3>3
  <2>4. QED
    BY <2>1, <2>2, <2>3
<1>13. Good = S
  <2>1. Good \in SUBSET S
    OBVIOUS
  <2>2. ASSUME NEW q \in S, \A r \in S : rank[r] < rank[q] => r \in Good
        PROVE  q \in Good
    <3> HIDE DEF Is, rank
    <3>1. QED
      BY <1>12, <2>2
  <2> HIDE DEF Good, S, rank
  <2>3. QED
    BY <1>5, <2>1, <2>2, RankInduction
<1>14. Is(go(p))
  <2> HIDE DEF Is
  <2>1. QED
    BY <1>2, <1>13
<1>15. ASSUME Plain(s), \A a \in AboveOnly(s, p) : Visible(s, as, a)
       PROVE  arrive[go(p)] = IF A = {} THEN Error ELSE First(s, A)
  <2>1. \A x \in F : x \in A <=> s.from[p] < s.from[x] /\ here(x)
    BY DEF Before, Stops
  <2>2. A \in SUBSET F
    OBVIOUS
  <2>3. CASE go(p) = None
    <3>1. arrive[go(p)] = Error
      BY <1>1, <1>2, <1>10, <2>3
    <3>2. A = {}
      BY <1>1, <1>3, <1>15, <2>1, <2>2, <2>3
    <3>3. QED
      BY <3>1, <3>2
  <2>4. CASE go(p) # None
    <3>1. /\ go(p) \in F /\ s.from[p] < s.from[go(p)]
          /\ \A x \in F : s.from[p] < s.from[x] => s.from[go(p)] <= s.from[x]
      BY <1>3, <1>15, <2>4
    <3>2. A = Rest(go(p))
      <4>1. \A x \in F : s.from[x] \in Nat /\ s.from[p] \in Nat /\ s.from[go(p)] \in Nat
        BY <1>1, <3>1
      <4>2. \A x \in F : x \in Rest(go(p)) <=> s.from[go(p)] <= s.from[x] /\ here(x)
        OBVIOUS
      <4>3. Rest(go(p)) \subseteq F
        OBVIOUS
      <4> HIDE DEF Rest, here, go, F
      <4>4. ASSUME NEW x \in F
            PROVE  x \in A <=> x \in Rest(go(p))
        <5>1. s.from[p] < s.from[x] <=> s.from[go(p)] <= s.from[x]
          BY <3>1, <4>1
        <5>2. QED
          BY <2>1, <4>2, <5>1
      <4>5. QED
        BY <2>2, <4>3, <4>4
    <3>3. \/ arrive[go(p)] = Error /\ A = {}
          \/ arrive[go(p)] \in A /\ \A x \in A : s.from[arrive[go(p)]] <= s.from[x]
      BY <1>14, <1>15, <3>1, <3>2
    <3>4. A \in SUBSET P
      BY <1>1, <2>2
    <3> HIDE DEF Rest, here, go, F, P
    <3>5. QED
      BY <3>3, <3>4, FirstIs DEF P
  <2>5. QED
    BY <2>3, <2>4
<1>16. QED
  BY <1>11, <1>14, <1>15

-----------------------------------------------------------------------------
(* The journey *)

TypeOK ==
  /\ svc \in Services
  /\ ans \in Answers(svc)
  /\ fresh \in BOOLEAN /\ sent \in BOOLEAN
  /\ tab \in [Tabs -> [loading : BOOLEAN, page : Pages(svc) \cup {None, Error},
                       change : Summaries(svc) \cup {None}]]
  /\ \A t \in Tabs : tab[t].loading => tab[t].page \in Pages(svc)

LEMMA ServiceIs ==
  ASSUME NEW s \in Services
  PROVE  /\ Tree(s) /\ Forward(s) /\ SummaryAtTheEnd(s) /\ Unconditional(s, Answers(s))
         /\ None \notin Pages(s) /\ NoSuchPage \notin Pages(s) /\ Error \notin Pages(s)
         /\ Root(s) \in Pages(s) /\ s.parent[Root(s)] = None
<1>1. Tree(s) /\ Forward(s) /\ SummaryAtTheEnd(s) /\ Unconditional(s, Answers(s))
  BY TreeAssumption, ForwardAssumption, SummaryAssumption, UnconditionalAssumption
<1>2. None \notin Pages(s)
  BY <1>1 DEF Tree
<1>3. QED
  BY <1>1, <1>2, NamesAssumption, RootIs

\* Where a redirect can lead.
Targets(s) == [page : Pages(s), change : Summaries(s) \cup {None}] \cup {Nowhere, Failure}

LEMMA RedirectIs ==
  ASSUME NEW s \in Services, NEW as, NEW p \in Pages(s), NEW change \in Summaries(s) \cup {None}
  PROVE  RedirectForNextPage(s, as, p, change) \in Targets(s)
<1> DEFINE checked == IF change = None THEN None ELSE CheckNextPage(s, as, change, p)
           next == NextPage(s, as, p)
<1>1. change \in Pages(s) \cup {None}
  BY DEF Summaries
<1>2. next \in Places(s)
  BY NextPageIs, ServiceIs
<1>3. checked # change => checked \in Pages(s) \cup {Error}
  <2>1. CASE p = change
    BY <2>1 DEF CheckNextPage
  <2>2. CASE p # change
    BY <2>2, CheckNextPageIs, ServiceIs
  <2>3. QED
    BY <2>1, <2>2
<1>4. RedirectForNextPage(s, as, p, change) =
        IF checked = change THEN Onward(s, as, next, change)
        ELSE To(checked, IF checked = Error THEN None ELSE change)
  BY DEF RedirectForNextPage
<1> HIDE DEF checked, next
<1>5. Onward(s, as, next, change) \in Targets(s)
  BY <1>1, <1>2, ServiceIs DEF Onward, Targets, To, Failure, Nowhere, Places, Summaries
<1>6. checked \in Pages(s) \cup {Error} =>
        To(checked, IF checked = Error THEN None ELSE change) \in Targets(s)
  BY DEF Targets, To, Failure
<1>7. QED
  BY <1>3, <1>4, <1>5, <1>6

LEMMA GateIs ==
  ASSUME svc \in Services, NEW p \in Pages(svc), NEW change \in Summaries(svc) \cup {None}
  PROVE  Gate(To(p, change)) \in Targets(svc)
<1> DEFINE at == To(p, change)
<1>1. at.page = p
  BY DEF To
<1>2. PreFlight(at) \in Targets(svc)
  <2>1. CASE svc.type[p] # "summary"
    BY <1>1, <2>1 DEF PreFlight, Targets
  <2>2. CASE svc.type[p] = "summary"
    <3>1. p \in Summaries(svc) /\ svc.parent[p] \in Pages(svc)
      BY <2>2, ServiceIs DEF Summaries, SummaryAtTheEnd
    <3>2. RedirectForNextPage(svc, ans, svc.parent[p], p) \in Targets(svc)
      BY <3>1, RedirectIs
    <3>3. QED
      BY <1>1, <3>2 DEF PreFlight, Targets
  <2>3. QED
    BY <2>1, <2>2
<1>3. SkipPage(at) \in Targets(svc)
  <2>1. NextPage(svc, ans, p) \in Places(svc)
    BY NextPageIs, ServiceIs
  <2>2. QED
    BY <1>1, <2>1 DEF SkipPage, Targets, Places, To
<1>4. To(Root(svc), None) \in Targets(svc)
  BY ServiceIs DEF Targets, To
<1>5. QED
  BY <1>2, <1>3, <1>4 DEF Gate

\* What a response does to the tab.
LEMMA RespondIs ==
  ASSUME TypeOK, NEW t \in Tabs, NEW to \in Targets(svc), Respond(t, to)
  PROVE  /\ tab' \in [Tabs -> [loading : BOOLEAN, page : Pages(svc) \cup {None, Error},
                               change : Summaries(svc) \cup {None}]]
         /\ \A u \in Tabs : u # t => tab'[u] = tab[u]
         /\ tab'[t].loading => tab'[t].page \in Pages(svc)
         /\ tab'[t] = IF to = Nowhere THEN Reading(Place(t))
                      ELSE IF to = Failure THEN Reading(Failure)
                      ELSE Loading(to)
<1> DEFINE new == IF to = Nowhere THEN Reading(Place(t))
                  ELSE IF to = Failure THEN Reading(Failure)
                  ELSE Loading(to)
           State == [loading : BOOLEAN, page : Pages(svc) \cup {None, Error},
                     change : Summaries(svc) \cup {None}]
<1>1. tab \in [Tabs -> State]
  BY DEF TypeOK
<1>2. new \in State /\ (new.loading => new.page \in Pages(svc))
  <2>1. Reading(Place(t)) \in State /\ Reading(Place(t)).loading = FALSE
    BY <1>1 DEF Reading, Place, To
  <2>2. Reading(Failure) \in State /\ Reading(Failure).loading = FALSE
    BY DEF Reading, Failure, To
  <2>3. to \notin {Nowhere, Failure} => Loading(to) \in State /\ Loading(to).page \in Pages(svc)
    BY DEF Loading, Targets
  <2> HIDE DEF State
  <2>4. QED
    BY <2>1, <2>2, <2>3
<1>3. tab' = [tab EXCEPT ![t] = new]
  BY DEF Respond
<1> HIDE DEF new, State
<1>4. tab' \in [Tabs -> State] /\ tab'[t] = new /\ \A u \in Tabs : u # t => tab'[u] = tab[u]
  BY <1>1, <1>2, <1>3
<1>5. QED
  BY <1>2, <1>4 DEF new, State

\* Every page that a tab shows or asks for is one of the service, and it only ever
\* returns to a summary: the walks and redirects lead to no other place.
THEOREM JourneyTypeOK == Spec => []TypeOK
<1>1. Init => TypeOK
  <2>1. SUFFICES ASSUME Init
                 PROVE  TypeOK
    OBVIOUS
  <2>2. svc \in Services /\ ans \in Answers(svc)
    BY <2>1 DEF Init, NoAnswers, Answers
  <2>3. Reading(Nowhere) = [loading |-> FALSE, page |-> None, change |-> None]
    BY DEF Reading, Nowhere, To
  <2>4. tab = [t \in Tabs |-> [loading |-> FALSE, page |-> None, change |-> None]]
    BY <2>1, <2>3 DEF Init
  <2>5. fresh = TRUE /\ sent = FALSE
    BY <2>1 DEF Init
  <2>6. QED
    BY <2>2, <2>4, <2>5 DEF TypeOK
<1>2. TypeOK /\ [Next]_vars => TypeOK'
  <2> SUFFICES ASSUME TypeOK, [Next]_vars
               PROVE  TypeOK'
    OBVIOUS
  <2>0. \A t \in Tabs : /\ tab[t].page \in Pages(svc) \cup {None, Error}
                        /\ tab[t].change \in Summaries(svc) \cup {None}
    BY DEF TypeOK
  <2>1. CASE UNCHANGED vars
    BY <2>1 DEF vars, TypeOK
  <2>2. ASSUME NEW t \in Tabs, NEW p \in Pages(svc), NEW change \in {None} \cup Pages(svc),
               Visit(t, p, change)
        PROVE  TypeOK'
    <3>1. change \in Summaries(svc) \cup {None}
      BY <2>2 DEF Visit, Summaries
    <3>2. Loading(To(p, change)) = [loading |-> TRUE, page |-> p, change |-> change]
      BY DEF Loading, To
    <3>3. svc' = svc /\ ans' = ans /\ fresh' = fresh /\ sent' = FALSE
          /\ tab' = [tab EXCEPT ![t] = [loading |-> TRUE, page |-> p, change |-> change]]
      BY <2>2, <3>2 DEF Visit
    <3>4. QED
      BY <3>1, <3>3 DEF TypeOK
  <2>3. ASSUME NEW t \in Tabs, NEW to \in Targets(svc), Respond(t, to),
               svc' = svc, ans' \in Answers(svc), fresh' \in BOOLEAN, sent' \in BOOLEAN
        PROVE  TypeOK'
    <3>1. /\ tab' \in [Tabs -> [loading : BOOLEAN, page : Pages(svc) \cup {None, Error},
                                change : Summaries(svc) \cup {None}]]
          /\ \A u \in Tabs : u # t => tab'[u] = tab[u]
          /\ tab'[t].loading => tab'[t].page \in Pages(svc)
      BY <2>3, RespondIs
    <3>2. \A u \in Tabs : tab'[u].loading => tab'[u].page \in Pages(svc)
      BY <3>1 DEF TypeOK
    <3>3. QED
      BY <2>3, <3>1, <3>2 DEF TypeOK
  <2>4. ASSUME NEW t \in Tabs, tab[t].page \in Pages(svc)
        PROVE  Gate(Place(t)) \in Targets(svc)
    BY <2>0, <2>4, GateIs DEF TypeOK, Place
  <2>5. ASSUME NEW t \in Tabs, Load(t)
        PROVE  TypeOK'
    <3>1. Gate(Place(t)) \in Targets(svc)
      BY <2>4, <2>5 DEF Load, TypeOK
    <3>2. /\ Respond(t, Gate(Place(t))) /\ svc' = svc /\ fresh' \in BOOLEAN /\ sent' \in BOOLEAN
          /\ ans' \in {ans, NoAnswers}
      BY <2>5 DEF Load
    <3>3. ans' \in Answers(svc)
      BY <3>2 DEF TypeOK, NoAnswers, Answers
    <3>4. QED
      BY <2>3, <3>1, <3>2, <3>3
  <2>6. ASSUME NEW t \in Tabs, Turned(t)
        PROVE  TypeOK'
    <3>1. Gate(Place(t)) \in Targets(svc)
      BY <2>4, <2>6 DEF Turned
    <3>2. QED
      BY <2>3, <2>6, <3>1 DEF Turned, TypeOK
  <2>7. ASSUME NEW t \in Tabs, NEW v \in Values \cup {Blank}, Post(t, v)
        PROVE  TypeOK'
    <3>1. PICK p : p = tab[t].page
      OBVIOUS
    <3>2. p \in Questions(svc) /\ p \in Pages(svc)
      BY <2>7, <3>1 DEF Post, Passes, Questions
    <3>3. ans' = [ans EXCEPT ![p] = v]
      BY <2>7, <3>1 DEF Post
    <3>4. ans' \in Answers(svc)
      BY <3>2, <3>3 DEF TypeOK, Answers
    <3>5. RedirectForNextPage(svc, ans', p, tab[t].change) \in Targets(svc)
      BY <2>0, <3>2, RedirectIs DEF TypeOK
    <3>6. PICK to \in Targets(svc) : Respond(t, to)
      BY <2>7, <3>1, <3>5 DEF Post, Targets
    <3>7. svc' = svc /\ fresh' = FALSE /\ sent' = FALSE
      BY <2>7 DEF Post
    <3>8. QED
      BY <2>3, <3>4, <3>6, <3>7
  <2>8. ASSUME NEW t \in Tabs, Submit(t)
        PROVE  TypeOK'
    <3>1. tab[t].page \in Pages(svc)
      BY <2>8 DEF Submit, Passes
    <3>2. RedirectForNextPage(svc, ans, tab[t].page, tab[t].change) \in Targets(svc)
      BY <2>0, <3>1, RedirectIs DEF TypeOK
    <3>3. sent' \in BOOLEAN
      BY <2>8 DEF Submit, Submits
    <3>4. QED
      BY <2>3, <2>8, <3>2, <3>3 DEF Submit, TypeOK
  <2>9. QED
    BY <2>1, <2>2, <2>5, <2>6, <2>7, <2>8 DEF Next
<1>3. QED
  BY <1>1, <1>2, PTL DEF Spec

\* Whatever the answers: without nextPage properties each page of the flow leads to
\* the one after it, and the back link to the one before it.
THEOREM NeighboursOfFlow == Spec => []NeighboursAreFlow
<1>1. TypeOK => NeighboursAreFlow
  <2> SUFFICES ASSUME TypeOK
               PROVE  NeighboursAreFlow
    OBVIOUS
  <2> DEFINE flow == Flow(svc, ans)
  <2>1. Tree(svc) /\ Forward(svc) /\ svc \in Services
    BY ServiceIs DEF TypeOK
  <2>2. \A p \in Pages(svc) :
          PreviousPage(svc, ans, p) =
            IF p \in flow THEN Last(svc, {q \in flow : Before(svc, q, p)}) ELSE None
    BY <2>1, PreviousPageIs
  <2>3. ASSUME Plain(svc), NEW p \in flow
        PROVE  NextPage(svc, ans, p) = First(svc, {q \in flow : Before(svc, p, q)})
    <3> DEFINE A == {q \in flow : Before(svc, p, q)}
               q == NextPage(svc, ans, p)
    <3>1. p \in Pages(svc) /\ flow \in SUBSET Pages(svc) /\ \A a \in AboveOnly(svc, p) : Visible(svc, ans, a)
      BY <2>1, FlowPages
    <3>2. Follows(svc, ans, p, q)
      BY <2>1, <2>3, <3>1, PlainNext
    <3>3. \/ q = None /\ A = {}
          \/ q \in A /\ \A x \in A : svc.from[q] <= svc.from[x]
      BY <3>2 DEF Follows
    <3>4. A \in SUBSET Pages(svc)
      BY <3>1
    <3> HIDE DEF A, q
    <3>5. First(svc, A) = q
      <4>1. CASE q = None /\ A = {}
        BY <4>1 DEF First
      <4>2. CASE q \in A /\ \A x \in A : svc.from[q] <= svc.from[x]
        BY <2>1, <3>4, <4>2, FirstIs
      <4>3. QED
        BY <3>3, <4>1, <4>2
    <3>6. QED
      BY <3>5 DEF A, q
  <2>4. QED
    BY <2>2, <2>3 DEF NeighboursAreFlow
<1>2. QED
  BY <1>1, JourneyTypeOK, PTL

\* A walk from the start page that reaches a summary has passed no question without
\* an answer.
LEMMA ReachedIsComplete ==
  ASSUME NEW s \in Services, NEW as, Plain(s), NEW p \in Summaries(s),
         RedirectForNextPage(s, as, Root(s), p) \in {To(p, None), Nowhere}
  PROVE  Complete(s, as)
<1> DEFINE root == Root(s)
           A == {x \in Flow(s, as) : Before(s, root, x) /\ Stops(s, as, p, x)}
           checked == CheckNextPage(s, as, p, root)
<1>1. /\ Tree(s) /\ Forward(s) /\ SummaryAtTheEnd(s)
      /\ None \notin Pages(s) /\ NoSuchPage \notin Pages(s) /\ Error \notin Pages(s)
      /\ root \in Pages(s) /\ s.parent[root] = None
  BY ServiceIs
<1>2. p \in Pages(s) /\ p # None /\ p # root
  BY <1>1 DEF Summaries, SummaryAtTheEnd
<1>3. checked \in Pages(s) \cup {Error}
  BY <1>1, <1>2, CheckNextPageIs
<1>4. checked = IF A = {} THEN Error ELSE First(s, A)
  <2>1. AboveOnly(s, root) = {}
    BY <1>1 DEF AboveOnly
  <2> HIDE DEF A
  <2>2. QED
    BY <1>1, <1>2, <2>1, CheckNextPageIs DEF A
<1>5. checked = p
  <2>1. SUFFICES ASSUME checked # p
                 PROVE  FALSE
    OBVIOUS
  <2>2. RedirectForNextPage(s, as, root, p) = To(checked, IF checked = Error THEN None ELSE p)
    BY <1>2, <2>1 DEF RedirectForNextPage
  <2>3. To(checked, IF checked = Error THEN None ELSE p) \in {To(p, None), Nowhere}
    BY <2>2
  <2>4. checked \in {p, None}
    <3> HIDE DEF checked
    <3>1. QED
      BY <2>3 DEF To, Nowhere
  <2>5. QED
    BY <1>1, <1>3, <2>1, <2>4, NamesAssumption
<1>6. A # {} /\ First(s, A) = p
  BY <1>1, <1>2, <1>4, <1>5
<1>7. \A x \in A : s.from[p] <= s.from[x]
  <2>1. A \in SUBSET Pages(s)
    BY DEF Flow
  <2> HIDE DEF A
  <2>2. QED
    BY <1>1, <1>6, <2>1, FirstLeast
<1>8. ASSUME NEW x \in Flow(s, as), ~ValidPage(s, as, x)
      PROVE  FALSE
  <2>1. x \in Questions(s) /\ x \in Pages(s)
    BY <1>8 DEF ValidPage, Questions, Flow
  <2>2. s.from[x] < s.from[p] /\ x # root
    BY <1>1, <2>1 DEF SummaryAtTheEnd, Before
  <2>3. s.from[root] < s.from[x]
    BY <1>1, <2>1, <2>2, RootFirst
  <2>4. x \in A
    BY <1>8, <2>3 DEF Before, Stops
  <2>5. QED
    <3>1. s.from[p] <= s.from[x]
      BY <1>7, <2>4
    <3>2. s.from[p] \in Nat /\ s.from[x] \in Nat
      BY <1>1, <1>2, <2>1, NumbersAre
    <3>3. QED
      BY <2>2, <3>1, <3>2
<1>9. QED
  BY <1>8 DEF Complete

\* Answers are only ever submitted when every page of the flow that they determine
\* has a valid one: the gate in front of the summary walks from the start page
\* whenever it is posted, so what another tab changed since it was shown is found.
THEOREM SubmitsComplete == Spec => SubmittedComplete
<1>1. TypeOK /\ [Next]_vars => [sent' /\ Plain(svc) => Complete(svc, ans)]_vars
  <2> SUFFICES ASSUME TypeOK, Next, sent', Plain(svc)
               PROVE  Complete(svc, ans)
    OBVIOUS
  <2>1. PICK t \in Tabs : Submit(t)
    BY DEF Next, Visit, Load, Turned, Post
  <2>2. PICK at : at = Place(t)
    OBVIOUS
  <2>3. at.page = tab[t].page /\ at.page \in Summaries(svc) /\ Submits(svc, ans, at.page) /\ Gate(at) = Nowhere
    BY <2>1, <2>2 DEF Submit, Passes, Summaries, Place, To
  <2>4. PreFlight(at) = Nowhere
    BY <2>3, ServiceIs DEF Gate, To, Nowhere, TypeOK
  <2>5. svc.type[at.page] = "summary" /\ svc.parent[at.page] = Root(svc)
    BY <2>3, ServiceIs DEF Summaries, SummaryAtTheEnd, TypeOK
  <2>6. RedirectForNextPage(svc, ans, Root(svc), at.page) \in {To(at.page, None), Nowhere}
    BY <2>3, <2>4, <2>5 DEF PreFlight
  <2>7. QED
    BY <2>3, <2>6, ReachedIsComplete DEF TypeOK
<1>2. QED
  BY <1>1, JourneyTypeOK, PTL DEF Spec, SubmittedComplete

\* Once every page of the flow is answered, the summary opens and sends the user
\* nowhere else.
THEOREM OpensWhenComplete == Spec => []CompleteOpens
<1>1. TypeOK => CompleteOpens
  <2> SUFFICES ASSUME TypeOK, NEW p \in Pages(svc), svc.type[p] = "summary", Plain(svc), Complete(svc, ans)
               PROVE  PreFlight(To(p, None)) = Nowhere
    BY DEF CompleteOpens
  <2> DEFINE root == Root(svc)
             A == {x \in Flow(svc, ans) : Before(svc, root, x) /\ Stops(svc, ans, p, x)}
             next == NextPage(svc, ans, root)
             at == To(p, None)
  <2>1. /\ Tree(svc) /\ Forward(svc) /\ SummaryAtTheEnd(svc) /\ Unconditional(svc, Answers(svc))
        /\ None \notin Pages(svc) /\ NoSuchPage \notin Pages(svc) /\ Error \notin Pages(svc)
        /\ root \in Pages(svc) /\ svc.parent[root] = None /\ ans \in Answers(svc)
    BY ServiceIs DEF TypeOK
  <2>2. p \in Summaries(svc) /\ svc.parent[p] = root /\ p # None /\ p # root
    BY <2>1 DEF Summaries, SummaryAtTheEnd
  <2>3. Visible(svc, ans, p) /\ Visible(svc, ans, root)
    BY <2>1, <2>2 DEF Unconditional
  <2>4. AboveOnly(svc, root) = {} /\ AboveOnly(svc, p) = {root}
    BY <2>1, <2>2, AboveOnlyIs DEF AboveOnly
  <2>5. p \in Flow(svc, ans)
    BY <2>1, <2>3, <2>4, FlowIs
  <2>6. svc.from[root] < svc.from[p]
    BY <2>1, <2>2, RootFirst
  <2>7. A = {p}
    BY <2>5, <2>6 DEF Before, Stops, Complete
  <2>8. CheckNextPage(svc, ans, p, root) = p
    <3>1. First(svc, A) = p
      <4>1. svc.from[p] <= svc.from[p]
        BY <2>1, NumbersAre
      <4>2. QED
        BY <2>1, <2>7, <4>1, FirstIs
    <3>2. CheckNextPage(svc, ans, p, root) = IF A = {} THEN Error ELSE First(svc, A)
      <4> HIDE DEF A
      <4>1. QED
        BY <2>1, <2>2, <2>4, CheckNextPageIs DEF A
    <3>3. QED
      BY <2>7, <3>1, <3>2
  <2>9. next \in Pages(svc) /\ svc.show[next] = Always
    <3>1. PICK st, n : st = svc.steps[root] /\ n = Len(st)
      OBVIOUS
    <3>2. \E i \in DOMAIN st : st[i] = p
      BY <2>1, <2>2, <3>1, IndexIs
    <3>3. n \in Nat /\ DOMAIN st = 1..n
      BY <2>1, <3>1, StepsAre
    <3>4. 1 \in DOMAIN st /\ st # <<>>
      BY <3>2, <3>3
    <3>5. svc.show[st[1]] = Always
      BY <2>1, <3>1, <3>4 DEF Unconditional
    <3>6. st[1] \in Pages(svc) /\ Visible(svc, ans, st[1])
      BY <2>1, <3>1, <3>4, <3>5, StepIs DEF Visible, Holds
    <3>7. FirstStep(svc, ans, root) = st[1]
      <4>1. PICK i \in DOMAIN st : /\ FirstStep(svc, ans, root) = st[i] /\ Visible(svc, ans, st[i])
                                   /\ \A j \in DOMAIN st : j < i => ~Visible(svc, ans, st[j])
        BY <2>1, <3>1, <3>4, <3>6, FirstStepIs
      <4>2. ~(1 < i)
        BY <3>4, <3>6, <4>1
      <4>3. i = 1
        BY <3>3, <4>2
      <4>4. QED
        BY <4>1, <4>3
    <3>8. NextInTree(svc, ans, root) = st[1]
      BY <2>1, <2>3, <3>6, <3>7, NextInTreeStep
    <3>9. QED
      BY <2>1, <3>5, <3>6, <3>8, NextPageIs
  <2>10. RedirectForNextPage(svc, ans, root, p) = To(p, None)
    <3>1. RedirectForNextPage(svc, ans, root, p) = Onward(svc, ans, next, p)
      BY <2>2, <2>8 DEF RedirectForNextPage
    <3>2. next # None
      BY <2>1, <2>9
    <3> HIDE DEF next
    <3>3. QED
      BY <2>2, <2>9, <3>1, <3>2 DEF Onward
  <2>11. at.page = p
    BY DEF To
  <2>12. QED
    BY <2>2, <2>10, <2>11 DEF PreFlight
<1>2. QED
  BY <1>1, JourneyTypeOK, PTL

\* A user who changes an answer from the summary is led to the first page without an
\* answer that the change opened, still on the way back; with none left, to the
\* summary or to the page that follows.
THEOREM ChangesFindGaps == Spec => ChangeFindsGap
<1> DEFINE Found(t) ==
      LET p == tab[t].page
          change == tab[t].change
          gaps == GapsAfter(ans', p, change)
      IN  (/\ ~tab[t].loading /\ tab'[t].loading
           /\ Plain(svc) /\ change # None /\ ans' # ans
           /\ p \in Questions(svc) \cap Flow(svc, ans'))
            => IF gaps # {}
               THEN tab'[t] = Loading(To(First(svc, gaps), change))
               ELSE tab'[t].page \in {change, NextPage(svc, ans', p)}
<1>1. ASSUME TypeOK, Next, NEW t \in Tabs
      PROVE  Found(t)
  <2> DEFINE p == tab[t].page
             change == tab[t].change
             gaps == GapsAfter(ans', p, change)
  <2> SUFFICES ASSUME ~tab[t].loading, tab'[t].loading, Plain(svc), change # None, ans' # ans,
                      p \in Questions(svc) \cap Flow(svc, ans')
               PROVE  IF gaps # {}
                      THEN tab'[t] = Loading(To(First(svc, gaps), change))
                      ELSE tab'[t].page \in {change, NextPage(svc, ans', p)}
    OBVIOUS
  <2>1. /\ Tree(svc) /\ Forward(svc) /\ SummaryAtTheEnd(svc)
        /\ None \notin Pages(svc) /\ NoSuchPage \notin Pages(svc) /\ Error \notin Pages(svc)
    BY <1>1, ServiceIs DEF TypeOK
  <2>2. /\ p \in Questions(svc) /\ p \in Pages(svc) /\ p \in Flow(svc, ans')
        /\ change \in Summaries(svc) /\ change \in Pages(svc) /\ p # change /\ change # Error
    BY <1>1, <2>1 DEF TypeOK, Summaries, Questions
  <2>3. \E v \in Values \cup {Blank} : Post(t, v)
    <3>1. PICK u \in Tabs : \/ Load(u)
                            \/ \E v \in Values \cup {Blank} : Post(u, v)
      BY <1>1 DEF Next, Visit, Turned, Submit
    <3>2. \E to \in Targets(svc) : Respond(u, to)
      <4>1. CASE Load(u)
        <5>1. Gate(Place(u)) \in Targets(svc)
          BY <1>1, <4>1, GateIs DEF Load, TypeOK, Place
        <5>2. QED
          BY <4>1, <5>1 DEF Load
      <4>2. ASSUME NEW v \in Values \cup {Blank}, Post(u, v)
            PROVE  \E to \in Targets(svc) : Respond(u, to)
        <5>1. tab[u].page \in Pages(svc) /\ tab[u].change \in Summaries(svc) \cup {None}
          BY <1>1, <4>2 DEF Post, Passes, TypeOK
        <5>2. RedirectForNextPage(svc, ans', tab[u].page, tab[u].change) \in Targets(svc)
          BY <1>1, <5>1, RedirectIs DEF TypeOK
        <5>3. QED
          BY <4>2, <5>2 DEF Post, Targets
      <4>3. QED
        BY <3>1, <4>1, <4>2
    <3>3. u = t
      BY <1>1, <3>2, RespondIs
    <3>4. QED
      BY <3>1, <3>3 DEF Load
  <2>4. PICK v \in Values \cup {Blank} : Post(t, v)
    BY <2>3
  <2>5. RedirectForNextPage(svc, ans', p, change) \in Targets(svc)
    BY <1>1, <2>2, RedirectIs DEF TypeOK
  <2>6. ValidPage(svc, ans', p) /\ Respond(t, RedirectForNextPage(svc, ans', p, change))
    <3>1. SUFFICES ASSUME ~ValidPage(svc, ans', p)
                   PROVE  FALSE
      BY <2>4 DEF Post
    <3>2. Respond(t, Nowhere)
      BY <2>4, <3>1 DEF Post
    <3>3. tab'[t] = Reading(Place(t))
      BY <1>1, <3>2, RespondIs DEF Targets
    <3>4. QED
      BY <3>3 DEF Reading
  <2>7. PICK to \in Targets(svc) : /\ to = RedirectForNextPage(svc, ans', p, change)
                                   /\ to \notin {Nowhere, Failure} /\ tab'[t] = Loading(to)
    <3>1. PICK to \in Targets(svc) : to = RedirectForNextPage(svc, ans', p, change)
      BY <2>5
    <3>2. tab'[t] = IF to = Nowhere THEN Reading(Place(t))
                    ELSE IF to = Failure THEN Reading(Failure)
                    ELSE Loading(to)
      BY <1>1, <2>6, <3>1, RespondIs
    <3>3. to \notin {Nowhere, Failure}
      BY <3>2 DEF Reading
    <3>4. QED
      BY <3>1, <3>2, <3>3
  <2> DEFINE checked == CheckNextPage(svc, ans', change, p)
             next == NextPage(svc, ans', p)
             A == {x \in Flow(svc, ans') : Before(svc, p, x) /\ Stops(svc, ans', change, x)}
  <2>8. checked = IF A = {} THEN Error ELSE First(svc, A)
    <3>1. \A a \in AboveOnly(svc, p) : Visible(svc, ans', a)
      BY <2>1, <2>2, FlowPages
    <3> HIDE DEF A
    <3>2. QED
      BY <2>1, <2>2, <3>1, CheckNextPageIs DEF A
  <2>9. A # {} /\ First(svc, A) \in A /\ \A x \in A : svc.from[First(svc, A)] <= svc.from[x]
    <3>1. A # {}
      <4>1. SUFFICES ASSUME checked = Error
                     PROVE  FALSE
        BY <2>8
      <4>2. to = Failure
        BY <2>2, <2>7, <4>1 DEF RedirectForNextPage, Failure
      <4>3. QED
        BY <2>7, <4>2
    <3>2. A \in SUBSET Pages(svc)
      BY DEF Flow
    <3> HIDE DEF A
    <3>3. QED
      BY <2>1, <3>1, <3>2, FirstLeast
  <2>10. \A x \in A : x \in Pages(svc) /\ svc.from[x] \in Nat /\ svc.from[change] \in Nat
    BY <2>1, <2>2, NumbersAre DEF Flow
  <2>11. svc.from[p] < svc.from[change]
    BY <2>1, <2>2 DEF SummaryAtTheEnd, Before
  <2>12. \A g \in gaps : g \in A /\ g # change
    BY <2>1, <2>2 DEF GapsAfter, Stops, ValidPage, Summaries
  <2>13. CASE First(svc, A) = change
    <3>1. change \in Flow(svc, ans')
      BY <2>9, <2>13
    <3>2. gaps = {}
      <4>1. ASSUME NEW g \in gaps
            PROVE  FALSE
        <5>1. svc.from[g] < svc.from[change]
          BY <3>1 DEF GapsAfter, Before
        <5>2. svc.from[change] <= svc.from[g]
          BY <2>9, <2>12, <2>13
        <5>3. QED
          BY <2>10, <2>12, <5>1, <5>2
      <4>2. QED
        BY <4>1
    <3>3. checked = change
      BY <2>8, <2>9, <2>13
    <3>4. to = Onward(svc, ans', next, change)
      BY <2>2, <2>7, <3>3 DEF RedirectForNextPage
    <3>5. to.page \in {change, next}
      BY <2>7, <3>4 DEF Onward, To
    <3>6. QED
      BY <2>7, <3>2, <3>5 DEF Loading
  <2>14. CASE First(svc, A) # change
    <3> DEFINE g == First(svc, A)
    <3>1. g \in A /\ g # change /\ ~ValidPage(svc, ans', g)
      BY <2>9, <2>14 DEF Stops
    <3>2. g \in gaps
      <4>1. change \in Flow(svc, ans') => svc.from[g] < svc.from[change]
        <5>1. SUFFICES ASSUME change \in Flow(svc, ans')
                       PROVE  svc.from[g] < svc.from[change]
          OBVIOUS
        <5>2. change \in A
          BY <2>11, <5>1 DEF Before, Stops
        <5>3. svc.from[g] <= svc.from[change] /\ svc.from[g] # svc.from[change]
          BY <2>1, <2>2, <2>9, <2>10, <3>1, <5>2, NumbersAre
        <5>4. QED
          BY <2>10, <3>1, <5>3
      <4>2. g \in Flow(svc, ans') /\ Before(svc, p, g)
        BY <3>1
      <4> HIDE DEF g, A
      <4>3. QED
        BY <3>1, <4>1, <4>2 DEF GapsAfter, Before
    <3>3. First(svc, gaps) = g
      <4>1. gaps \in SUBSET Pages(svc) /\ \A x \in gaps : svc.from[g] <= svc.from[x]
        BY <2>9, <2>10, <2>12
      <4> HIDE DEF gaps, g
      <4>2. QED
        BY <2>1, <3>2, <4>1, FirstIs
    <3>4. checked = g /\ checked # Error
      BY <2>1, <2>8, <2>9, <2>10
    <3>5. to = To(g, change)
      BY <2>2, <2>7, <3>1, <3>4 DEF RedirectForNextPage
    <3>6. QED
      BY <2>7, <3>2, <3>3, <3>5
  <2>15. QED
    BY <2>13, <2>14
<1>2. ASSUME TypeOK, UNCHANGED vars, NEW t \in Tabs
      PROVE  Found(t)
  BY <1>2 DEF vars
<1>3. TypeOK /\ [Next]_vars => [\A t \in Tabs : Found(t)]_vars
  <2> HIDE DEF Found
  <2>1. QED
    BY <1>1, <1>2
<1>4. QED
  BY <1>3, JourneyTypeOK, PTL DEF Spec, ChangeFindsGap

\* What the load of a service owes the gate (Definition): a page is shown for no
\* answers for which the page above it is hidden.
PassedDown(s, answers) ==
  \A p \in Pages(s), as \in answers :
    s.parent[p] # None /\ Visible(s, as, p) => Visible(s, as, s.parent[p])

LEMMA VisibleInFlow ==
  ASSUME NEW s, Tree(s), NEW as, NEW answers, as \in answers, PassedDown(s, answers)
  PROVE  \A p \in Pages(s) : Visible(s, as, p) => p \in Flow(s, as)
<1> DEFINE S == Pages(s)
           Good == {p \in S : Visible(s, as, p) => p \in Flow(s, as)}
<1>1. ASSUME NEW p \in S, \A q \in S : s.from[q] < s.from[p] => q \in Good
      PROVE  p \in Good
  <2>1. SUFFICES ASSUME Visible(s, as, p)
                 PROVE  p \in Flow(s, as)
    OBVIOUS
  <2>2. CASE s.parent[p] = None
    BY <2>1, <2>2, FlowIs DEF AboveOnly
  <2>3. CASE s.parent[p] # None
    <3>1. s.parent[p] \in Good /\ s.parent[p] \in S
      BY <1>1, <2>3, IndexIs
    <3>2. Visible(s, as, s.parent[p])
      BY <2>1, <2>3 DEF PassedDown
    <3>3. s.parent[p] \in Flow(s, as)
      BY <3>1, <3>2
    <3>4. \A q \in AboveOnly(s, p) : Visible(s, as, q)
      BY <2>3, <3>3 DEF AboveOnly, Flow, InFlow
    <3>5. QED
      BY <2>1, <3>4, FlowIs
  <2>4. QED
    BY <2>2, <2>3
<1>2. Good \in SUBSET S /\ s.from \in [S -> Nat]
  BY NumbersAre
<1> HIDE DEF Good, S
<1>3. Good = S
  BY <1>1, <1>2, RankInduction
<1>4. QED
  BY <1>3 DEF Good, S

\* The gate looks at the condition of a page alone: when the load has passed the
\* conditions down, no page is shown that is out of the flow.
THEOREM ShownPagesInFlow ==
  ASSUME \A s \in Services : PassedDown(s, Answers(s))
  PROVE  Spec => ShownInFlow
<1> DEFINE Shown(t) == tab[t].loading /\ ~tab'[t].loading /\ tab'[t].page # Error
                         => tab'[t].page \in Flow(svc, ans)
<1>1. ASSUME TypeOK, Next, NEW t \in Tabs
      PROVE  Shown(t)
  <2>1. SUFFICES ASSUME tab[t].loading, ~tab'[t].loading, tab'[t].page # Error
                 PROVE  tab'[t].page \in Flow(svc, ans)
    OBVIOUS
  <2>2. PICK u \in Tabs, to \in Targets(svc) : Respond(u, to) /\ (u = t => Load(t) /\ to = Gate(Place(t)))
    <3>1. PICK u \in Tabs : \/ \E p \in Pages(svc) : \E change \in {None} \cup Pages(svc) : Visit(u, p, change)
                            \/ Load(u)
                            \/ Turned(u)
                            \/ \E v \in Values \cup {Blank} : Post(u, v)
                            \/ Submit(u)
      BY <1>1 DEF Next
    <3>2. ASSUME NEW p \in Pages(svc), NEW change \in {None} \cup Pages(svc), Visit(u, p, change)
          PROVE  FALSE
      <4>1. tab'[t] \in {tab[t], Loading(To(p, change))}
        BY <1>1, <3>2 DEF Visit, TypeOK
      <4>2. QED
        BY <2>1, <4>1 DEF Loading
    <3>3. CASE Load(u)
      <4>1. Gate(Place(u)) \in Targets(svc)
        BY <1>1, <3>3, GateIs DEF Load, TypeOK, Place
      <4>2. QED
        BY <3>3, <4>1 DEF Load
    <3>4. CASE Turned(u)
      <4>1. Gate(Place(u)) \in Targets(svc)
        BY <1>1, <3>4, GateIs DEF Turned, TypeOK, Place
      <4>2. QED
        BY <2>1, <3>4, <4>1 DEF Turned
    <3>5. ASSUME NEW v \in Values \cup {Blank}, Post(u, v)
          PROVE  u # t /\ \E to \in Targets(svc) : Respond(u, to)
      <4>1. tab[u].page \in Pages(svc) /\ tab[u].change \in Summaries(svc) \cup {None}
        BY <1>1, <3>5 DEF Post, Passes, TypeOK
      <4>2. RedirectForNextPage(svc, ans', tab[u].page, tab[u].change) \in Targets(svc)
        BY <1>1, <4>1, RedirectIs DEF TypeOK
      <4>3. \E to \in Targets(svc) : Respond(u, to)
        BY <3>5, <4>2 DEF Post, Targets
      <4>4. QED
        BY <2>1, <3>5, <4>3 DEF Post, Passes
    <3>6. CASE Submit(u)
      <4>1. tab[u].page \in Pages(svc) /\ tab[u].change \in Summaries(svc) \cup {None} /\ u # t
        BY <1>1, <2>1, <3>6 DEF Submit, Passes, TypeOK
      <4>2. RedirectForNextPage(svc, ans, tab[u].page, tab[u].change) \in Targets(svc)
        BY <1>1, <4>1, RedirectIs DEF TypeOK
      <4>3. QED
        BY <3>6, <4>1, <4>2 DEF Submit
    <3>7. QED
      BY <3>1, <3>2, <3>3, <3>4, <3>5, <3>6
  <2>3. u = t /\ Load(t) /\ to = Gate(Place(t))
    BY <1>1, <2>1, <2>2, RespondIs
  <2>4. to = Nowhere /\ tab'[t].page = tab[t].page
    <3>1. tab'[t] = IF to = Nowhere THEN Reading(Place(t))
                    ELSE IF to = Failure THEN Reading(Failure)
                    ELSE Loading(to)
      BY <1>1, <2>2, <2>3, RespondIs
    <3>2. QED
      BY <2>1, <3>1 DEF Reading, Loading, Failure, Place, To
  <2>5. Visible(svc, ans, tab[t].page)
    <3>1. SkipPage(Place(t)) = Nowhere
      <4>1. To(Root(svc), None) # Nowhere
        BY <1>1, ServiceIs DEF To, Nowhere, TypeOK
      <4>2. Failure # Nowhere
        BY NamesAssumption DEF To, Nowhere, Failure
      <4>3. QED
        BY <2>3, <2>4, <4>1, <4>2 DEF Gate
    <3>2. QED
      BY <3>1, NamesAssumption DEF SkipPage, To, Nowhere, Failure, Place
  <2>6. tab[t].page \in Pages(svc) /\ Tree(svc) /\ ans \in Answers(svc) /\ PassedDown(svc, Answers(svc))
    BY <1>1, <2>1, ServiceIs DEF TypeOK
  <2>7. QED
    BY <2>4, <2>5, <2>6, VisibleInFlow
<1>2. ASSUME TypeOK, UNCHANGED vars, NEW t \in Tabs
      PROVE  Shown(t)
  BY <1>2 DEF vars
<1>3. TypeOK /\ [Next]_vars => [\A t \in Tabs : Shown(t)]_vars
  <2> HIDE DEF Shown
  <2>1. QED
    BY <1>1, <1>2
<1>4. QED
  BY <1>3, JourneyTypeOK, PTL DEF Spec, ShownInFlow
=============================================================================
