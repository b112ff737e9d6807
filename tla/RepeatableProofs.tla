-------------------------- MODULE RepeatableProofs --------------------------
(***************************************************************************)
(* What holds of Repeatable for every set of values and all bounds.        *)
(***************************************************************************)
EXTENDS Repeatable, FiniteSetTheorems, WellFoundedInduction, TLAPS

\* A sequence is what Rows reads from any array with the same items.
LEMMA RowsAre ==
  ASSUME NEW s, NEW t \in Seq(Items), \A i \in 1..Len(t) : Item(s, i) = t[i]
  PROVE  Rows(s, Len(t)) = t
<1>1. t = [i \in 1..Len(t) |-> t[i]]
  OBVIOUS
<1>2. QED
  BY <1>1 DEF Rows

LEMMA RowsType ==
  ASSUME NEW s \in Seq(Items), NEW n \in Nat
  PROVE  /\ Rows(s, n) \in Seq(Items)
         /\ Len(Rows(s, n)) = n
         /\ \A i \in 1..n : Rows(s, n)[i] = Item(s, i)
<1>1. \A i \in 1..n : Item(s, i) \in Items
  BY DEF Item, Items
<1>2. QED
  BY <1>1 DEF Rows

LEMMA WithoutType ==
  ASSUME NEW s \in Seq(Items), NEW k \in Nat
  PROVE  /\ Without(s, k) \in Seq(Items)
         /\ Len(Without(s, k)) = IF k \in 1..Len(s) THEN Len(s) - 1 ELSE Len(s)
<1>1. CASE k \in 1..Len(s)
  <2>1. \A i \in 1..(Len(s) - 1) : (IF i < k THEN s[i] ELSE s[i + 1]) \in Items
    OBVIOUS
  <2>2. Len(s) - 1 \in Nat
    BY <1>1
  <2>3. QED
    BY <1>1, <2>1, <2>2 DEF Without
<1>2. CASE k \notin 1..Len(s)
  BY <1>2 DEF Without
<1>3. QED
  BY <1>1, <1>2

\* The items after the one that is removed move up.
LEMMA WithoutItem ==
  ASSUME NEW s \in Seq(Items), NEW k \in Nat \ {0}, NEW i \in Nat \ {0}
  PROVE  Item(Without(s, k), i) = IF i < k THEN Item(s, i) ELSE Item(s, i + 1)
<1>1. CASE k \in 1..Len(s)
  <2>1. Without(s, k) = [j \in 1..(Len(s) - 1) |-> IF j < k THEN s[j] ELSE s[j + 1]]
    BY <1>1 DEF Without
  <2>2. CASE i \in 1..(Len(s) - 1)
    <3>1. Item(Without(s, k), i) = IF i < k THEN s[i] ELSE s[i + 1]
      BY <2>1, <2>2 DEF Item
    <3>2. i \in 1..Len(s) /\ i + 1 \in 1..Len(s)
      BY <2>2
    <3>3. Item(s, i) = s[i] /\ Item(s, i + 1) = s[i + 1]
      BY <3>2 DEF Item
    <3>4. QED
      BY <3>1, <3>3
  <2>3. CASE i \notin 1..(Len(s) - 1)
    <3>1. Item(Without(s, k), i) = Empty
      BY <2>1, <2>3 DEF Item
    <3>2. ~(i < k) /\ i + 1 \notin 1..Len(s)
      BY <1>1, <2>3
    <3>3. Item(s, i + 1) = Empty
      BY <3>2 DEF Item
    <3>4. QED
      BY <3>1, <3>2, <3>3
  <2>4. QED
    BY <2>2, <2>3
<1>2. CASE k \notin 1..Len(s)
  <2>1. Without(s, k) = s /\ Len(s) < k
    BY <1>2 DEF Without
  <2>2. ~(i < k) => i \notin 1..Len(s) /\ i + 1 \notin 1..Len(s)
    BY <2>1
  <2>3. QED
    BY <2>1, <2>2 DEF Item
<1>3. QED
  BY <1>1, <1>2

\* A set of natural numbers has a least element.
LEMMA Least ==
  ASSUME NEW A \in SUBSET Nat, A # {}
  PROVE  \E m \in A : \A n \in A : m <= n
<1>1. PICK a \in A : TRUE
  OBVIOUS
<1> DEFINE Upto(k) == A \cap (0..k)
           B == Upto(a)
           T == {Upto(k) : k \in B}
<1>2. IsWellFoundedOn(StrictSubsetOrdering(B), FiniteSubsetsOf(B))
  BY FS_StrictSubsetOrderingWellFounded
<1>3. T \subseteq FiniteSubsetsOf(B) /\ T # {}
  <2>1. IsFiniteSet(B)
    <3>1. IsFiniteSet(0..a) /\ B \subseteq 0..a
      BY FS_Interval
    <3> HIDE DEF B
    <3>2. QED
      BY <3>1, FS_Subset
  <2>2. a \in B /\ \A k \in B : Upto(k) \subseteq B
    OBVIOUS
  <2> HIDE DEF Upto, B
  <2>3. \A k \in B : Upto(k) \in FiniteSubsetsOf(B)
    BY <2>1, <2>2, FS_Subset DEF FiniteSubsetsOf
  <2>4. QED
    BY <2>2, <2>3
<1>4. PICK X \in T : \A Y \in T : <<Y, X>> \notin StrictSubsetOrdering(B)
  <2> HIDE DEF T
  <2>1. QED
    BY <1>2, <1>3, WFMin
<1>5. PICK m \in B : X = Upto(m)
  <2> HIDE DEF Upto, B
  <2>1. QED
    OBVIOUS
<1>6. ASSUME NEW n \in A, n < m
      PROVE  FALSE
  <2>1. n \in B /\ Upto(n) \subseteq Upto(m) /\ m \in Upto(m) /\ m \notin Upto(n)
    BY <1>6
  <2>2. \A k \in B : Upto(k) \subseteq B
    OBVIOUS
  <2> HIDE DEF Upto, B
  <2>3. <<Upto(n), Upto(m)>> \in StrictSubsetOrdering(B)
    BY <2>1, <2>2 DEF StrictSubsetOrdering
  <2>4. QED
    BY <1>4, <1>5, <2>1, <2>3
<1>7. QED
  BY <1>6

LEMMA MaxIs ==
  ASSUME NEW A \in SUBSET Nat, A # {}, NEW b \in Nat, \A x \in A : x <= b
  PROVE  Max(A) \in A /\ \A x \in A : x <= Max(A)
<1> DEFINE Down == {b - x : x \in A}
<1>1. Down \in SUBSET Nat /\ Down # {}
  <2>1. \A x \in A : b - x \in Nat
    OBVIOUS
  <2>2. QED
    BY <2>1
<1>2. PICK m \in Down : \A d \in Down : m <= d
  <2> HIDE DEF Down
  <2>1. QED
    BY <1>1, Least
<1>3. PICK a \in A : m = b - a
  OBVIOUS
<1>4. \A x \in A : a >= x
  <2>1. SUFFICES ASSUME NEW x \in A PROVE a >= x
    OBVIOUS
  <2>2. b - x \in Down /\ a \in Nat /\ x \in Nat
    OBVIOUS
  <2>3. b - a <= b - x
    BY <1>2, <1>3, <2>2
  <2>4. QED
    BY <2>2, <2>3
<1>5. Max(A) \in A /\ \A x \in A : Max(A) >= x
  BY <1>4 DEF Max
<1>6. QED
  BY <1>5

LEMMA ProcessInputType ==
  ASSUME NEW s \in Seq(Items), NEW n \in Nat, NEW fields \in Seq(Items)
  PROVE  /\ ProcessInput(s, n, fields) \in Seq(Items)
         /\ Len(ProcessInput(s, n, fields)) <= IF Len(s) > n THEN Len(s) ELSE n
         /\ \A i \in 1..n : Item(ProcessInput(s, n, fields), i) = Item(fields, i)
<1> DEFINE A == {Len(s)} \cup {k \in 1..n : Item(fields, k) # Empty}
           most == IF Len(s) > n THEN Len(s) ELSE n
           len == Max(A)
           done == [i \in 1..len |-> IF i <= n THEN Item(fields, i) ELSE Item(s, i)]
<1>1. A \in SUBSET Nat /\ A # {} /\ most \in Nat /\ \A x \in A : x <= most
  <2>1. Len(s) \in Nat /\ Len(s) <= most /\ n <= most /\ most \in Nat
    OBVIOUS
  <2>2. \A x \in A : x = Len(s) \/ x \in 1..n
    OBVIOUS
  <2>3. A # {}
    OBVIOUS
  <2> HIDE DEF A, most
  <2>4. \A x \in A : x \in Nat /\ x <= most
    BY <2>1, <2>2
  <2>5. QED
    BY <2>1, <2>3, <2>4
<1>2. len \in A /\ \A x \in A : x <= len
  <2> HIDE DEF A, most
  <2>1. QED
    BY <1>1, MaxIs
<1>3. len \in Nat /\ len <= most
  <2> HIDE DEF A, most, len
  <2>1. QED
    BY <1>1, <1>2
<1>4. \A k \in 1..n : Item(fields, k) # Empty => k \in 1..len
  <2>1. \A k \in 1..n : Item(fields, k) # Empty => k \in A
    OBVIOUS
  <2> HIDE DEF A, len
  <2>2. QED
    BY <1>2, <1>3, <2>1
<1>5. ProcessInput(s, n, fields) = done
  BY DEF ProcessInput
<1> HIDE DEF A, most, len
<1>6. \A i \in 1..len : Item(s, i) \in Items /\ Item(fields, i) \in Items
  BY DEF Item, Items
<1>7. done \in Seq(Items) /\ Len(done) = len
  BY <1>3, <1>6
<1>8. ASSUME NEW i \in 1..n PROVE Item(done, i) = Item(fields, i)
  <2>1. CASE i \in 1..len
    BY <2>1 DEF Item
  <2>2. CASE i \notin 1..len
    BY <1>4, <2>2 DEF Item
  <2>3. QED
    BY <2>1, <2>2
<1>9. QED
  BY <1>3, <1>5, <1>7, <1>8 DEF most

-----------------------------------------------------------------------------
(* Types and bounds, for any browser                                       *)

IInv == TypeOK /\ CountWithinBounds

LEMMA SetRepeatableType ==
  ASSUME IInv
  PROVE  /\ SetRepeatable \in Nat
         /\ SetRepeatable >= Minimum
         /\ Maximum # 0 => SetRepeatable <= Maximum
BY RepeatableAssumption DEF IInv, TypeOK, CountWithinBounds, SetRepeatable

LEMMA TypedType ==
  ASSUME IInv, NEW f \in forms, NEW fields \in Typed(f)
  PROVE  /\ fields \in Seq(Items)
         /\ DOMAIN fields = DOMAIN f.rows
         /\ Processed(input, fields) \in Seq(Items)
         /\ Displayed(display, fields) \in Seq(Items)
<1>1. f.rows \in Seq(Items) /\ input \in Seq(Items) /\ display \in Seq(Items)
  BY DEF IInv, TypeOK, FormOK
<1>2. fields \in Seq(Items) /\ DOMAIN fields = DOMAIN f.rows
  BY <1>1 DEF Typed
<1>3. QED
  BY <1>1, <1>2, SetRepeatableType, ProcessInputType DEF Processed, Displayed

LEMMA FormType ==
  ASSUME NEW page \in BOOLEAN, NEW s \in Seq(Items), NEW n \in Nat
  PROVE  LET f == FormOf(page, s, n)
         IN  /\ f.page = page /\ f.rows = Rows(s, n)
             /\ f.removes = (page /\ Removable(n)) /\ f.adds = (page /\ ~Full(n))
             /\ FormOK(f)
BY RowsType DEF FormOf, FormOK, Removable, Full

LEMMA PostedType ==
  ASSUME IInv, NEW f \in forms, NEW fields \in Typed(f), NEW k \in Nat,
         NEW button \in Buttons, Posts(f, fields, button, k)
  PROVE  /\ posted'.button = button /\ posted'.button \in Buttons
         /\ posted'.fields = fields /\ posted'.fields \in Seq(Items)
         /\ posted'.item = k /\ posted'.item \in Nat
         /\ posted'.count = SetRepeatable /\ posted'.count \in Nat
         /\ oldForms' = oldForms /\ checked' = checked
BY TypedType, SetRepeatableType DEF Posts

LEMMA IndexType ==
  ASSUME IInv, NEW f \in forms
  PROVE  /\ \A k \in DOMAIN f.rows : k \in Nat /\ k # 0
         /\ \A k \in 0..Len(f.rows) : k \in Nat
<1>1. f.rows \in Seq(Items)
  BY DEF IInv, TypeOK, FormOK
<1>2. QED
  BY <1>1

LEMMA GoesOnType ==
  ASSUME IInv, NEW f \in forms, NEW fields \in Typed(f), NEW k \in 0..Len(f.rows),
         GoesOn(f, fields, k)
  PROVE  /\ posted'.button \in Buttons /\ posted'.button # "add"
         /\ posted'.fields = fields /\ posted'.fields \in Seq(Items)
         /\ posted'.item \in Nat /\ posted'.count \in Nat
         /\ oldForms' = oldForms /\ checked' = checked
         /\ posted'.button = "remove" => f.removes /\ ~Removable(SetRepeatable)
<1>1. k \in Nat
  BY IndexType
<1>2. CASE Posts(f, fields, "main", k)
  BY <1>1, <1>2, PostedType DEF Buttons
<1>3. CASE Posts(f, fields, "remove", k) /\ f.removes /\ ~Removable(SetRepeatable)
  BY <1>1, <1>3, PostedType DEF Buttons
<1>4. QED
  BY <1>2, <1>3 DEF GoesOn

LEMMA ViewTypes ==
  ASSUME IInv, NEW page \in BOOLEAN, View(page)
  PROVE  IInv'
<1> USE RepeatableAssumption
<1>1. forms' \subseteq {FormOf(page, input, SetRepeatable)} \cup forms
  BY DEF View
<1>2. input \in Seq(Items)
  BY DEF IInv, TypeOK
<1>3. \A f \in forms' : FormOK(f)
  BY <1>1, <1>2, SetRepeatableType, FormType DEF IInv, TypeOK
<1>4. QED
  BY <1>3, SetRepeatableType DEF View, IInv, TypeOK, CountWithinBounds

LEMMA RemoveTypes ==
  ASSUME IInv, NEW f \in forms, NEW fields \in Typed(f), NEW k \in DOMAIN f.rows,
         Remove(f, fields, k)
  PROVE  IInv'
<1> USE RepeatableAssumption
<1>1. k \in Nat
  BY IndexType
<1>2. input' \in Seq(Items) /\ display' \in Seq(Items)
  BY <1>1, TypedType, WithoutType DEF Remove, RemoveAnswer
<1>3. count' \in Nat /\ CountWithinBounds'
  BY SetRepeatableType DEF Remove, RemoveItem, Removable, CountWithinBounds
<1>4. \A g \in forms' : g \in forms
  BY DEF Remove, Leaves
<1>5. Posts(f, fields, "remove", k) /\ sent' = None /\ "remove" \in Buttons
  BY DEF Remove, Buttons
<1>6. QED
  BY <1>1, <1>2, <1>3, <1>4, <1>5, PostedType DEF IInv, TypeOK

LEMMA AddTypes ==
  ASSUME IInv, NEW f \in forms, NEW fields \in Typed(f), Add(f, fields)
  PROVE  IInv'
<1> USE RepeatableAssumption
<1>1. count' \in Nat /\ CountWithinBounds'
  BY SetRepeatableType DEF Add, AddItem, Full, CountWithinBounds
<1>2. \A g \in forms' : g \in forms
  BY DEF Add, Leaves
<1>3. Posts(f, fields, "add", 0) /\ sent' = None /\ "add" \in Buttons
  BY DEF Add, Buttons
<1>4. input' \in Seq(Items) /\ display' \in Seq(Items)
  BY TypedType DEF Add
<1>5. QED
  BY <1>1, <1>2, <1>3, <1>4, PostedType DEF IInv, TypeOK

LEMMA ContinueTypes ==
  ASSUME IInv, NEW f \in forms, NEW fields \in Typed(f), NEW k \in 0..Len(f.rows),
         Continue(f, fields, k)
  PROVE  IInv'
<1>1. input' \in Seq(Items) /\ display' \in Seq(Items) /\ count' \in Nat
  BY TypedType, SetRepeatableType DEF Continue
<1>2. \A g \in forms' : g \in forms \/ g = FormOf(TRUE, input', count')
  BY DEF Continue, Leaves
<1>3. \A g \in forms' : FormOK(g)
  BY <1>1, <1>2, FormType DEF IInv, TypeOK
<1>4. CountWithinBounds'
  BY SetRepeatableType DEF Continue, CountWithinBounds
<1>5. GoesOn(f, fields, k) /\ sent' = None
  BY DEF Continue
<1>6. QED
  BY <1>1, <1>3, <1>4, <1>5, GoesOnType DEF IInv, TypeOK

LEMMA SubmitTypes ==
  ASSUME IInv, NEW f \in forms, NEW fields \in Typed(f), NEW k \in 0..Len(f.rows),
         Submit(f, fields, k)
  PROVE  IInv'
BY GoesOnType DEF Submit, IInv, TypeOK, CountWithinBounds

LEMMA IInvNext ==
  ASSUME IInv, [Next]_vars
  PROVE  IInv'
<1>1. ASSUME NEW page \in BOOLEAN, View(page) PROVE IInv'
  BY <1>1, ViewTypes
<1>2. ASSUME NEW f \in forms, NEW fields \in Typed(f), NEW k \in DOMAIN f.rows,
             Remove(f, fields, k)
      PROVE IInv'
  BY <1>2, RemoveTypes
<1>3. ASSUME NEW f \in forms, NEW fields \in Typed(f), Add(f, fields) PROVE IInv'
  BY <1>3, AddTypes
<1>4. ASSUME NEW f \in forms, NEW fields \in Typed(f), NEW k \in 0..Len(f.rows),
             Continue(f, fields, k)
      PROVE IInv'
  BY <1>4, ContinueTypes
<1>5. ASSUME NEW f \in forms, NEW fields \in Typed(f), NEW k \in 0..Len(f.rows),
             Submit(f, fields, k)
      PROVE IInv'
  BY <1>5, SubmitTypes
<1>6. CASE UNCHANGED vars
  BY <1>6 DEF IInv, TypeOK, CountWithinBounds, vars
<1>7. QED
  BY <1>1, <1>2, <1>3, <1>4, <1>5, <1>6 DEF Next

LEMMA IInvInit ==
  ASSUME Init PROVE IInv
BY DEF Init, IInv, TypeOK, CountWithinBounds

LEMMA IInvAlways == Spec => []IInv
<1>1. Init => IInv
  BY IInvInit
<1>2. IInv /\ [Next]_vars => IInv'
  BY IInvNext
<1>3. QED
  BY <1>1, <1>2, PTL DEF Spec

\* Every variable keeps its type, whatever forms the browser posts.
THEOREM RepeatableTypeCorrect == Spec => []TypeOK
<1>1. IInv => TypeOK
  BY DEF IInv
<1>2. QED
  BY <1>1, IInvAlways, PTL

\* The number of items stays within the component's bounds, whatever forms the
\* browser posts and however often (set-repeatable, add-item, remove-item).
THEOREM RepeatableBounds == Spec => []CountWithinBounds
<1>1. IInv => CountWithinBounds
  BY DEF IInv
<1>2. QED
  BY <1>1, IInvAlways, PTL

-----------------------------------------------------------------------------
(* A browser that posts only the form it showed last.  That the form agrees  *)
(* with the document is what makes the properties inductive.                 *)

SInv ==
  /\ count = None => input = <<>> /\ forms = {}
  /\ count # None => Len(input) <= count
  /\ \A f \in forms : /\ f.rows = Rows(input, count)
                      /\ f.removes = (f.page /\ Removable(count))
                      /\ f.adds = (f.page /\ ~Full(count))
  /\ FormIsObeyed
  /\ SentAsShown

\* What a form says of the document it is posted to.
LEMMA FormFacts ==
  ASSUME IInv, SInv, NEW f \in forms, NEW fields \in Typed(f)
  PROVE  /\ count \in Nat /\ SetRepeatable = count
         /\ f.rows = Rows(input, count) /\ DOMAIN f.rows = 1..count
         /\ f.adds => ~Full(count)
         /\ f.removes => Removable(count)
         /\ fields \in Seq(Items) /\ Len(fields) = count
         /\ Len(input) <= count
<1>1. count \in Nat /\ input \in Seq(Items)
  BY RepeatableAssumption DEF IInv, TypeOK, SInv
<1>2. SetRepeatable = count
  BY <1>1, RepeatableAssumption DEF SetRepeatable
<1>3. f.rows = Rows(input, count) /\ DOMAIN f.rows = 1..count
  BY <1>1 DEF SInv, Rows
<1>4. fields \in Seq(Items) /\ DOMAIN fields = 1..count
  BY <1>3, TypedType
<1>5. Len(fields) = count
  BY <1>1, <1>4
<1>6. Len(input) <= count
  BY <1>1, RepeatableAssumption DEF SInv
<1>7. QED
  BY <1>1, <1>2, <1>3, <1>4, <1>5, <1>6 DEF SInv

\* Processing the controls of the form makes the items those that were typed.
LEMMA ProcessedItems ==
  ASSUME IInv, SInv, NEW f \in forms, NEW fields \in Typed(f)
  PROVE  LET s == Processed(input, fields)
         IN  s \in Seq(Items) /\ Len(s) <= count /\ \A i \in 1..count : Item(s, i) = fields[i]
<1>1. Processed(input, fields) = ProcessInput(input, count, fields)
  BY FormFacts DEF Processed
<1>2. input \in Seq(Items)
  BY DEF IInv, TypeOK
<1>3. \A i \in 1..count : Item(fields, i) = fields[i]
  BY FormFacts DEF Item
<1>4. count \in Nat /\ fields \in Seq(Items) /\ Len(input) <= count
  BY FormFacts
<1>5. QED
  BY <1>1, <1>2, <1>3, <1>4, ProcessInputType

LEMMA ViewKeeps ==
  ASSUME ~oldForms, IInv, SInv, NEW page \in BOOLEAN, View(page)
  PROVE  SInv'
<1>1. input \in Seq(Items) /\ SetRepeatable \in Nat
  BY SetRepeatableType DEF IInv, TypeOK
<1>2. count' \in Nat /\ input' = input /\ forms' = {FormOf(page, input', count')}
  BY <1>1 DEF View
<1>3. \A f \in forms' : /\ f.rows = Rows(input', count')
                       /\ f.removes = (f.page /\ Removable(count'))
                       /\ f.adds = (f.page /\ ~Full(count'))
  BY <1>1, <1>2, FormType
<1>4. Len(input') <= count'
  <2>1. CASE count = None
    BY <2>1, <1>2 DEF SInv
  <2>2. CASE count # None
    BY <2>2, <1>1, <1>2 DEF SInv, View, SetRepeatable
  <2>3. QED
    BY <2>1, <2>2
<1>5. FormIsObeyed' /\ SentAsShown'
  BY DEF View, FormIsObeyed, SentAsShown
<1>6. QED
  BY <1>2, <1>3, <1>4, <1>5, RepeatableAssumption DEF SInv

LEMMA AddKeeps ==
  ASSUME ~oldForms, IInv, SInv, NEW f \in forms, NEW fields \in Typed(f), Add(f, fields)
  PROVE  SInv'
<1> DEFINE s == Processed(input, fields)
<1>1. count \in Nat /\ fields \in Seq(Items) /\ Len(fields) = count /\ ~Full(count)
  BY FormFacts DEF Add
<1>2. count' = count + 1 /\ input' = s /\ sent' = None /\ forms' = {}
  BY <1>1, FormFacts DEF Add, AddItem, Leaves
<1>3. s \in Seq(Items) /\ Len(s) <= count /\ \A i \in 1..count : Item(s, i) = fields[i]
  BY ProcessedItems
<1>4. Item(s, count + 1) = Empty
  BY <1>1, <1>3 DEF Item
<1>5. Rows(s, count + 1) = Append(fields, Empty)
  <2>1. Empty \in Items
    BY DEF Items
  <2>2. Append(fields, Empty) \in Seq(Items) /\ Len(Append(fields, Empty)) = count + 1
    BY <1>1, <2>1
  <2>3. \A i \in 1..(count + 1) : Item(s, i) = Append(fields, Empty)[i]
    BY <1>1, <1>3, <1>4
  <2>4. QED
    BY <2>2, <2>3, RowsAre
<1>6. posted'.button = "add" /\ posted'.fields = fields
  BY DEF Add, Posts
<1>7. FormIsObeyed'
  BY <1>2, <1>5, <1>6 DEF FormIsObeyed
<1>8. SentAsShown'
  BY <1>2 DEF SentAsShown
<1>9. QED
  BY <1>1, <1>2, <1>3, <1>7, <1>8, RepeatableAssumption DEF SInv

LEMMA ContinueKeeps ==
  ASSUME ~oldForms, IInv, SInv, NEW f \in forms, NEW fields \in Typed(f),
         NEW k \in 0..Len(f.rows), Continue(f, fields, k)
  PROVE  SInv'
<1> DEFINE s == Processed(input, fields)
<1>1. count \in Nat /\ fields \in Seq(Items) /\ Len(fields) = count
  BY FormFacts
<1>2. count' = count /\ input' = s /\ sent' = None
  BY FormFacts DEF Continue
<1>3. s \in Seq(Items) /\ Len(s) <= count /\ \A i \in 1..count : Item(s, i) = fields[i]
  BY ProcessedItems
<1>4. Rows(s, count) = fields
  BY <1>1, <1>3, RowsAre
<1>5. posted'.button \notin {"add", "remove"} /\ posted'.fields = fields
  <2>1. GoesOn(f, fields, k)
    BY DEF Continue
  <2>2. f.removes => Removable(SetRepeatable)
    BY FormFacts
  <2>3. QED
    BY <2>1, <2>2, GoesOnType
<1>6. FormIsObeyed' /\ SentAsShown'
  BY <1>2, <1>4, <1>5 DEF FormIsObeyed, SentAsShown
<1>7. \A g \in forms' : g = FormOf(TRUE, input', count')
  BY DEF Continue, Leaves
<1>8. \A g \in forms' : /\ g.rows = Rows(input', count')
                       /\ g.removes = (g.page /\ Removable(count'))
                       /\ g.adds = (g.page /\ ~Full(count'))
  <2>1. input' \in Seq(Items) /\ count' \in Nat
    BY <1>1, <1>2, <1>3
  <2>2. LET g == FormOf(TRUE, input', count')
        IN  /\ g.rows = Rows(input', count')
            /\ g.removes = (g.page /\ Removable(count')) /\ g.adds = (g.page /\ ~Full(count'))
    BY <2>1, FormType
  <2>3. QED
    BY <1>7, <2>2
<1>9. QED
  BY <1>1, <1>2, <1>3, <1>6, <1>8, RepeatableAssumption DEF SInv

LEMMA RemoveKeeps ==
  ASSUME ~oldForms, IInv, SInv, NEW f \in forms, NEW fields \in Typed(f),
         NEW k \in DOMAIN f.rows, Remove(f, fields, k)
  PROVE  SInv'
<1> DEFINE s == Processed(input, fields)
           t == SubSeq(fields, 1, k - 1) \o SubSeq(fields, k + 1, Len(fields))
<1>1. count \in Nat /\ fields \in Seq(Items) /\ Len(fields) = count /\ k \in 1..count
  BY FormFacts
<1>2. /\ count' = count - 1 /\ input' = Without(s, k) /\ sent' = None /\ forms' = {}
  BY FormFacts DEF Remove, RemoveItem, RemoveAnswer, Leaves
<1>3. s \in Seq(Items) /\ Len(s) <= count /\ \A i \in 1..count : Item(s, i) = fields[i]
  BY ProcessedItems
<1>4. input' \in Seq(Items) /\ Len(input') <= count'
  BY <1>1, <1>2, <1>3, WithoutType
<1>5. t \in Seq(Items) /\ Len(t) = count'
  BY <1>1, <1>2
<1>6. \A i \in 1..Len(t) : t[i] = IF i < k THEN fields[i] ELSE fields[i + 1]
  <2>1. /\ SubSeq(fields, 1, k - 1) \in Seq(Items)
        /\ Len(SubSeq(fields, 1, k - 1)) = k - 1
        /\ \A i \in 1..(k - 1) : SubSeq(fields, 1, k - 1)[i] = fields[i]
    BY <1>1
  <2>2. /\ SubSeq(fields, k + 1, Len(fields)) \in Seq(Items)
        /\ Len(SubSeq(fields, k + 1, Len(fields))) = count - k
        /\ \A i \in 1..(count - k) : SubSeq(fields, k + 1, Len(fields))[i] = fields[i + k]
    BY <1>1
  <2> DEFINE front == SubSeq(fields, 1, k - 1)
             back == SubSeq(fields, k + 1, Len(fields))
  <2>3. \A i \in 1..(k - 1) : t[i] = fields[i]
    <3> HIDE DEF front, back
    <3>1. \A i \in 1..(k - 1) : (front \o back)[i] = front[i]
      BY <1>1, <2>1, <2>2 DEF front, back
    <3>2. QED
      BY <2>1, <3>1 DEF front, back
  <2>4. \A i \in k..(count - 1) : t[i] = fields[(i - (k - 1)) + k]
    <3>1. \A i \in k..(count - 1) : (front \o back)[i] = back[i - (k - 1)] /\ i - (k - 1) \in 1..(count - k)
      <4>1. /\ front \in Seq(Items) /\ Len(front) = k - 1
            /\ back \in Seq(Items) /\ Len(back) = count - k
        BY <2>1, <2>2
      <4> HIDE DEF front, back
      <4>2. QED
        BY <1>1, <4>1
    <3>2. QED
      BY <2>2, <3>1 DEF front, back
  <2>5. QED
    <3>1. SUFFICES ASSUME NEW i \in 1..(count - 1)
                   PROVE  t[i] = IF i < k THEN fields[i] ELSE fields[i + 1]
      BY <1>1, <1>2, <1>5
    <3>2. CASE i < k
      BY <1>1, <2>3, <3>2
    <3>3. CASE ~(i < k)
      <4>1. i \in k..(count - 1) /\ (i - (k - 1)) + k = i + 1
        BY <1>1, <3>3
      <4>2. QED
        BY <2>4, <3>3, <4>1
    <3>4. QED
      BY <3>2, <3>3
<1>7. \A i \in 1..Len(t) : Item(input', i) = IF i < k THEN Item(s, i) ELSE Item(s, i + 1)
  <2>1. k \in Nat \ {0} /\ \A i \in 1..Len(t) : i \in Nat \ {0}
    BY <1>1
  <2>2. QED
    BY <2>1, <1>2, <1>3, WithoutItem
<1>8. Rows(input', count') = t
  <2>1. \A i \in 1..Len(t) : Item(input', i) = t[i]
    <3>1. SUFFICES ASSUME NEW i \in 1..(count - 1)
                   PROVE  Item(input', i) = t[i]
      BY <1>1, <1>2, <1>5
    <3>2. i \in 1..count /\ i + 1 \in 1..count /\ i \in 1..Len(t)
      BY <1>1, <1>2, <1>5
    <3>3. QED
      BY <1>3, <1>6, <1>7, <3>2
  <2>2. QED
    BY <1>5, <2>1, RowsAre
<1>9. posted'.button = "remove" /\ posted'.item = k /\ posted'.fields = fields
  BY DEF Remove, Posts
<1>10. FormIsObeyed'
  BY <1>8, <1>9 DEF FormIsObeyed
<1>11. SentAsShown'
  BY <1>2 DEF SentAsShown
<1>12. QED
  BY <1>1, <1>2, <1>4, <1>10, <1>11, RepeatableAssumption DEF SInv

LEMMA SubmitKeeps ==
  ASSUME ~oldForms, IInv, SInv, NEW f \in forms, NEW fields \in Typed(f),
         NEW k \in 0..Len(f.rows), Submit(f, fields, k)
  PROVE  SInv'
<1>1. count \in Nat /\ input \in Seq(Items) /\ Len(input) <= count
  BY FormFacts DEF IInv, TypeOK
<1>2. fields = Rows(input, count)
  BY FormFacts DEF Submit, Typed
<1>3. sent' = input /\ posted'.fields = fields
  BY GoesOnType DEF Submit
<1>4. \A i \in DOMAIN input \cup DOMAIN fields : Item(input, i) = Item(fields, i)
  BY <1>1, <1>2 DEF Rows, Item
<1>5. SentAsShown'
  BY <1>3, <1>4 DEF SentAsShown
<1>6. QED
  BY <1>5 DEF SInv, Submit, FormIsObeyed

LEMMA SInvNext ==
  ASSUME ~oldForms, IInv, SInv, [Next]_vars
  PROVE  SInv'
<1>1. ASSUME NEW page \in BOOLEAN, View(page) PROVE SInv'
  BY <1>1, ViewKeeps
<1>2. ASSUME NEW f \in forms, NEW fields \in Typed(f), NEW k \in DOMAIN f.rows,
             Remove(f, fields, k)
      PROVE SInv'
  BY <1>2, RemoveKeeps
<1>3. ASSUME NEW f \in forms, NEW fields \in Typed(f), Add(f, fields) PROVE SInv'
  BY <1>3, AddKeeps
<1>4. ASSUME NEW f \in forms, NEW fields \in Typed(f), NEW k \in 0..Len(f.rows),
             Continue(f, fields, k)
      PROVE SInv'
  BY <1>4, ContinueKeeps
<1>5. ASSUME NEW f \in forms, NEW fields \in Typed(f), NEW k \in 0..Len(f.rows),
             Submit(f, fields, k)
      PROVE SInv'
  BY <1>5, SubmitKeeps
<1>6. CASE UNCHANGED vars
  BY <1>6 DEF SInv, FormIsObeyed, SentAsShown, vars
<1>7. QED
  BY <1>1, <1>2, <1>3, <1>4, <1>5, <1>6 DEF Next

LEMMA OldFormsKept ==
  ASSUME [Next]_vars PROVE oldForms' = oldForms
<1>1. ASSUME NEW f \in forms, NEW fields \in Typed(f), NEW button, NEW k, Posts(f, fields, button, k)
      PROVE oldForms' = oldForms
  BY <1>1 DEF Posts
<1>2. QED
  BY <1>1 DEF Next, View, Remove, Add, Continue, Submit, GoesOn, vars

LEMMA SInvAlways == Spec => [](~oldForms => SInv)
<1>1. Init => SInv
  BY DEF Init, SInv, FormIsObeyed, SentAsShown
<1>2. IInv /\ (~oldForms => SInv) /\ [Next]_vars => (~oldForms => SInv)'
  BY OldFormsKept, SInvNext
<1>3. QED
  BY <1>1, <1>2, IInvAlways, PTL DEF Spec

\* A browser that posts only the form it showed last gets exactly what it asked
\* for: the typed items, without the removed one or with an empty one added.
THEOREM RepeatableFormIsObeyed ==
  Spec => []FormIsObeyed
<1>1. (~oldForms => SInv) => FormIsObeyed
  BY DEF SInv, FormIsObeyed
<1>2. QED
  BY <1>1, SInvAlways, PTL

\* For such a browser no answer is stored beyond the items it is shown.
THEOREM RepeatableNothingHidden ==
  Spec => []NothingHidden
<1>1. IInv /\ (~oldForms => SInv) => NothingHidden
  BY RepeatableAssumption DEF IInv, TypeOK, SInv, NothingHidden
<1>2. QED
  BY <1>1, IInvAlways, SInvAlways, PTL

\* What such a browser submits is what the summary page showed.
THEOREM RepeatableSentAsShown ==
  Spec => []SentAsShown
<1>1. (~oldForms => SInv) => SentAsShown
  BY DEF SInv, SentAsShown
<1>2. QED
  BY <1>1, SInvAlways, PTL

-----------------------------------------------------------------------------
(* The text that quotes the answers.                                         *)

LEMMA DisplayContinues ==
  ASSUME IInv, NEW f \in forms, NEW fields \in Typed(f), NEW k \in 0..Len(f.rows),
         Continue(f, fields, k)
  PROVE  DisplayAgrees'
<1>1. /\ count' = SetRepeatable /\ count' \in Nat
      /\ input' = ProcessInput(input, count', fields)
      /\ display' = ProcessInput(display, count', fields)
  BY SetRepeatableType DEF Continue, Processed, Displayed
<1>2. fields \in Seq(Items) /\ input \in Seq(Items) /\ display \in Seq(Items)
  BY TypedType DEF IInv, TypeOK
<1>3. ASSUME NEW i \in 1..count' PROVE Item(display', i) = Item(input', i)
  <2>1. ASSUME NEW s \in Seq(Items)
        PROVE  Item(ProcessInput(s, count', fields), i) = Item(fields, i)
    BY <1>1, <1>2, <1>3, <2>1, ProcessInputType
  <2>2. QED
    BY <1>1, <1>2, <2>1
<1>4. QED
  BY <1>3 DEF DisplayAgrees

\* After a post of the page that goes on, the text that quotes the answers agrees
\* with them, however old the form.
THEOREM RepeatableDisplayAgrees == Spec => []DisplayAgrees
<1>1. Init => DisplayAgrees
  BY DEF Init, DisplayAgrees
<1>2. ASSUME IInv, DisplayAgrees, [Next]_vars
      PROVE  DisplayAgrees'
  <2>1. ASSUME NEW page \in BOOLEAN, View(page) PROVE DisplayAgrees'
    BY <2>1 DEF View, DisplayAgrees
  <2>2. ASSUME NEW f \in forms, NEW fields \in Typed(f), NEW k \in DOMAIN f.rows,
               Remove(f, fields, k)
        PROVE  DisplayAgrees'
    BY <2>2 DEF Remove, Posts, DisplayAgrees
  <2>3. ASSUME NEW f \in forms, NEW fields \in Typed(f), Add(f, fields)
        PROVE  DisplayAgrees'
    BY <2>3 DEF Add, Posts, DisplayAgrees
  <2>4. ASSUME NEW f \in forms, NEW fields \in Typed(f), NEW k \in 0..Len(f.rows),
               Submit(f, fields, k)
        PROVE  DisplayAgrees'
    BY <2>4 DEF Submit, DisplayAgrees
  <2>5. CASE UNCHANGED vars
    BY <1>2, <2>5 DEF vars, DisplayAgrees
  <2>6. QED
    BY <1>2, <2>1, <2>2, <2>3, <2>4, <2>5, DisplayContinues DEF Next
<1>3. QED
  BY <1>1, <1>2, IInvAlways, PTL DEF Spec

=============================================================================
