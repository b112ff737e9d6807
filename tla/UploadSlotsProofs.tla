-------------------------- MODULE UploadSlotsProofs --------------------------
(***************************************************************************)
(* What holds of UploadSlots for any number of tabs, pages, components and *)
(* files, and whichever old form is sent.                                  *)
(***************************************************************************)
EXTENDS UploadSlots, FiniteSetTheorems, TLAPS

Stored == [id : 1..uploads, slot : Slots]

TypeOK ==
  /\ uploads \in 0..MaxUploads
  /\ pending \subseteq Stored
  /\ accepted \subseteq Stored
  /\ gone \subseteq 1..uploads
  /\ page \in Pages \cup {None}
  /\ field \subseteq Slots
  /\ tab \in [Tabs -> [url : Url, form : Form \cup {None}]]

\* An upload form offers a slot, and a form that names files knows their page.
FormsOffer ==
  \A t \in Tabs : tab[t].form # None =>
    /\ tab[t].url.step = "upload" => Posted(t).fields # {}
    /\ Posted(t).asks \/ Posted(t).ids # {} => Posted(t).page \in Pages

\* The slots last posted are known as soon as there is a file.
FieldKnown == pending # {} \/ accepted # {} => field # {}

OnePerSlot(files) == \A f, g \in files : f.id = g.id \/ f.slot = g.slot => f = g

\* Each file is in one place only, and alone in its slot there.
Separate ==
  /\ OnePerSlot(pending)
  /\ OnePerSlot(accepted)
  /\ \A f \in pending, g \in accepted : f.id # g.id
  /\ \A f \in pending \cup accepted : f.id \notin gone

IInv == TypeOK /\ FormsOffer /\ FieldKnown /\ Separate

USE UploadAssumption

-----------------------------------------------------------------------------
(* Slots *)

LEMMA Least ==
  ASSUME NEW n \in Nat, NEW S \in SUBSET (1..n), S # {}
  PROVE  \E i \in S : \A j \in S : i <= j
<1> DEFINE Below(k) == S \intersect (1..k)
           Belows == {Below(k) : k \in S}
<1>1. IsFiniteSet(S)
  <2>1. IsFiniteSet(1..n)
    BY FS_Interval
  <2>2. QED
    BY <2>1, FS_Subset
<1>2. IsWellFoundedOn(StrictSubsetOrdering(S), FiniteSubsetsOf(S))
  BY FS_StrictSubsetOrderingWellFounded
<1>3. Belows \subseteq FiniteSubsetsOf(S) /\ Belows # {}
  <2>1. \A k \in S : Below(k) \in FiniteSubsetsOf(S)
    BY <1>1, FS_Subset DEF FiniteSubsetsOf
  <2> HIDE DEF Below
  <2>2. PICK k \in S : TRUE
    OBVIOUS
  <2>3. Below(k) \in Belows
    OBVIOUS
  <2>4. Belows \subseteq FiniteSubsetsOf(S)
    BY <2>1
  <2>5. QED
    BY <2>3, <2>4
<1>4. PICK X \in Belows : \A Y \in Belows : <<Y, X>> \notin StrictSubsetOrdering(S)
  <2> HIDE DEF Belows
  <2>1. QED
    BY <1>2, <1>3, WFMin
<1>5. PICK i \in S : X = Below(i)
  <2> HIDE DEF Below
  <2>1. QED
    OBVIOUS
<1>6. ASSUME NEW j \in S, j < i
      PROVE  FALSE
  <2>1. Below(j) \subseteq Below(i)
    BY <1>6
  <2>2. i \in Below(i) /\ i \notin Below(j)
    BY <1>6
  <2>3. <<Below(j), Below(i)>> \in StrictSubsetOrdering(S)
    <3>1. Below(j) # Below(i)
      BY <2>2
    <3> HIDE DEF Below
    <3>2. Below(j) \in SUBSET S /\ Below(i) \in SUBSET S
      BY DEF Below
    <3>3. QED
      BY <2>1, <3>1, <3>2 DEF StrictSubsetOrdering
  <2>4. QED
    BY <1>4, <1>5, <2>3
<1>7. QED
  BY <1>6

LEMMA SlotsType ==
  ASSUME NEW c \in Components
  PROVE  /\ SlotsOf(c) \subseteq Slots
         /\ \A s \in Slots : s[1] = c => s \in SlotsOf(c)
BY DEF Slots, SlotsOf

LEMMA FieldNameIs ==
  ASSUME NEW c \in Components
  PROVE  \E i \in 1..MaxFiles[c] :
           /\ FieldName(c) = <<c, i>>
           /\ <<c, i>> \in SlotsIn(accepted) => i = MaxFiles[c]
           /\ \A j \in 1..MaxFiles[c] : <<c, j>> \notin SlotsIn(accepted) => i <= j
<1> DEFINE Free == {i \in 1..MaxFiles[c] : <<c, i>> \notin SlotsIn(accepted)}
           Good(i) == /\ <<c, i>> \in SlotsIn(accepted) => i = MaxFiles[c]
                      /\ \A j \in 1..MaxFiles[c] : <<c, j>> \notin SlotsIn(accepted) => i <= j
<1>1. MaxFiles[c] \in Nat \ {0}
  OBVIOUS
<1>2. \E i \in 1..MaxFiles[c] : Good(i)
  <2>1. CASE Free = {}
    <3>1. Good(MaxFiles[c])
      BY <2>1
    <3>2. MaxFiles[c] \in 1..MaxFiles[c]
      BY <1>1
    <3>3. QED
      BY <3>1, <3>2
  <2>2. CASE Free # {}
    <3>1. Free \in SUBSET (1..MaxFiles[c])
      BY <1>1
    <3>2. PICK i \in Free : \A j \in Free : i <= j
      <4> HIDE DEF Free
      <4>1. QED
        BY <1>1, <2>2, <3>1, Least
    <3>3. QED
      BY <3>2
  <2>3. QED
    BY <2>1, <2>2
<1>3. FieldName(c) = <<c, CHOOSE i \in 1..MaxFiles[c] : Good(i)>>
  BY DEF FieldName
<1> HIDE DEF Good
<1>4. PICK i \in 1..MaxFiles[c] : Good(i) /\ FieldName(c) = <<c, i>>
  BY <1>2, <1>3
<1>5. QED
  BY <1>4 DEF Good

LEMMA FieldNamesType ==
  ASSUME NEW p \in Pages
  PROVE  FieldNames(p) \subseteq Slots /\ FieldNames(p) # {}
<1>1. ASSUME NEW c \in Components
      PROVE  FieldName(c) \in Slots
  <2>1. FieldName(c) \in SlotsOf(c)
    <3>1. PICK i \in 1..MaxFiles[c] : FieldName(c) = <<c, i>>
      BY FieldNameIs
    <3>2. QED
      BY <3>1 DEF SlotsOf
  <2>2. QED
    BY <2>1, SlotsType
<1>2. QED
  BY <1>1 DEF FieldNames, OnPage

LEMMA FilesCounted ==
  ASSUME NEW files, \A f \in files : f.slot \in Slots,
         \A f, g \in files : f.slot = g.slot => f = g,
         NEW c \in Components
  PROVE  /\ Cardinality(Of(files, c)) <= MaxFiles[c]
         /\ SlotsOf(c) \subseteq SlotsIn(files) => HasMax(files, c)
<1> DEFINE n == MaxFiles[c]
           F == [f \in Of(files, c) |-> f.slot[2]]
<1>1. n \in Nat /\ IsFiniteSet(1..n) /\ Cardinality(1..n) = n
  BY FS_Interval
<1>2. \A f \in Of(files, c) : f.slot = <<c, f.slot[2]>> /\ f.slot[2] \in 1..n
  <2>1. \A f \in Of(files, c) : f.slot \in SlotsOf(c)
    BY SlotsType DEF Of
  <2>2. QED
    BY <2>1 DEF SlotsOf
<1>3. F \in Injection(Of(files, c), 1..n)
  BY <1>2 DEF Injection, IsInjective, Of
<1>4. /\ Cardinality(Of(files, c)) <= Cardinality(1..n)
      /\ Cardinality(Of(files, c)) = Cardinality(1..n) <=> F \in Surjection(Of(files, c), 1..n)
  <2> HIDE DEF F
  <2>1. QED
    BY <1>1, <1>3, FS_Injection
<1>5. ASSUME SlotsOf(c) \subseteq SlotsIn(files)
      PROVE  F \in Surjection(Of(files, c), 1..n)
  <2>1. ASSUME NEW i \in 1..n
        PROVE  \E f \in Of(files, c) : F[f] = i
    <3>1. <<c, i>> \in SlotsIn(files)
      BY <1>5 DEF SlotsOf
    <3>2. PICK f \in files : f.slot = <<c, i>>
      BY <3>1 DEF SlotsIn
    <3>3. QED
      BY <3>2 DEF Of
  <2>2. QED
    BY <1>2, <2>1 DEF Surjection
<1>6. QED
  BY <1>1, <1>4, <1>5 DEF HasMax

LEMMA WithoutAllIs ==
  ASSUME NEW files, \A f, g \in files : f.slot = g.slot => f = g, NEW slots
  PROVE  WithoutAll(files, slots) = {f \in files : f.slot \notin slots}
<1>1. ASSUME NEW s
      PROVE  Without(files, s) = {f \in files : f.slot # s}
  <2>1. CASE s \in SlotsIn(files)
    <3>1. PICK g \in files : g.slot = s
      BY <2>1 DEF SlotsIn
    <3>2. (CHOOSE f \in files : f.slot = s) = g
      BY <3>1
    <3>3. QED
      BY <2>1, <3>1, <3>2 DEF Without
  <2>2. CASE s \notin SlotsIn(files)
    BY <2>2 DEF Without, SlotsIn
  <2>3. QED
    BY <2>1, <2>2
<1>2. QED
  BY <1>1 DEF WithoutAll

\* OnePlace is what Separate comes to when the files are counted.
LEMMA OnePlaceFrom == IInv => OnePlace
<1> SUFFICES ASSUME IInv PROVE OnePlace
  OBVIOUS
<1>1. /\ Ids(pending) \intersect Ids(accepted) = {}
      /\ gone \intersect Ids(pending \union accepted) = {}
  BY DEF IInv, Separate, Ids
<1>2. ASSUME NEW files \in {pending, accepted}
      PROVE  /\ \A f, g \in files : f.slot = g.slot => f = g
             /\ \A c \in Components : Cardinality(Of(files, c)) <= MaxFiles[c]
  <2>1. /\ \A f \in files : f.slot \in Slots
        /\ \A f, g \in files : f.slot = g.slot => f = g
    BY <1>2 DEF IInv, TypeOK, Stored, Separate, OnePerSlot
  <2>2. QED
    BY <2>1, FilesCounted
<1>3. QED
  BY <1>1, <1>2 DEF OnePlace

-----------------------------------------------------------------------------
(* Steps that only show a page *)

\* A tab that is sent somewhere, or shows a page.
LEMMA GoesType ==
  ASSUME IInv, NEW t \in Tabs, NEW u \in Url, Go(t, u)
  PROVE  /\ tab' \in [Tabs -> [url : Url, form : Form \cup {None}]]
         /\ FormsOffer'
<1>1. tab' \in [Tabs -> [url : Url, form : Form \cup {None}]]
  BY DEF Go, Sent, IInv, TypeOK
<1>2. ASSUME NEW s \in Tabs, tab'[s].form # None
      PROVE  tab'[s] = tab[s]
  BY <1>2 DEF Go, Sent, IInv, TypeOK
<1>3. QED
  BY <1>1, <1>2 DEF FormsOffer, Posted, IInv

LEMMA ShowsType ==
  ASSUME IInv, NEW t \in Tabs, NEW u \in Url, NEW f \in Form, Show(t, u, f),
         u.step = "upload" => f.fields # {},
         f.asks \/ f.ids # {} => f.page \in Pages
  PROVE  /\ tab' \in [Tabs -> [url : Url, form : Form \cup {None}]]
         /\ FormsOffer'
<1>1. tab' \in [Tabs -> [url : Url, form : Form \cup {None}]]
  BY DEF Show, Shown, IInv, TypeOK
<1>2. ASSUME NEW s \in Tabs
      PROVE  tab'[s] = IF s = t THEN [url |-> u, form |-> f] ELSE tab[s]
  BY DEF Show, Shown, IInv, TypeOK
<1>3. QED
  BY <1>1, <1>2 DEF FormsOffer, Posted, IInv

LEMMA UrlType ==
  ASSUME NEW p \in Pages
  PROVE  /\ \A step \in {"upload", "check", "summary"} : At(step, p) \in Url
         /\ Later(p) \in Url /\ AfterUpload(p) \in Url /\ AfterCheck(p) \in Url
<1>1. Answers \in Url
  BY DEF Url, Answers, At
<1>2. \A q \in Pages, step \in {"upload", "check", "summary"} : At(step, q) \in Url
  BY DEF Url, At
<1>3. Later(p) \in Url
  BY <1>1, <1>2 DEF Later
<1>4. QED
  BY <1>2, <1>3 DEF AfterUpload, AfterCheck

LEMMA UploadFormType ==
  ASSUME NEW p \in Pages
  PROVE  /\ UploadForm(p) \in Form
         /\ UploadForm(p).fields = FieldNames(p) /\ FieldNames(p) # {}
         /\ ~UploadForm(p).asks /\ UploadForm(p).ids = {}
BY FieldNamesType DEF UploadForm, Form, Blank

LEMMA IdsType ==
  ASSUME IInv
  PROVE  \A files \in (SUBSET pending) \cup (SUBSET accepted) : Ids(files) \subseteq 1..MaxUploads
BY DEF IInv, TypeOK, Stored, Ids

\* Files that go away leave the rest as it was.
LEMMA KeepsFiles ==
  ASSUME IInv, pending' \subseteq pending, UNCHANGED <<accepted, field, uploads, gone>>
  PROVE  /\ uploads' \in 0..MaxUploads
         /\ pending' \subseteq Stored' /\ accepted' \subseteq Stored'
         /\ gone' \subseteq 1..uploads' /\ field' \subseteq Slots
         /\ FieldKnown' /\ Separate'
BY DEF IInv, TypeOK, Stored, FieldKnown, Separate, OnePerSlot

-----------------------------------------------------------------------------
(* Pages asked for *)

LEMMA OpenUploadStep ==
  ASSUME IInv, NEW t \in Tabs, NEW p \in Pages, OpenUpload(t, p)
  PROVE  IInv'
<1>1. At("upload", p) \in Url
  BY UrlType
<1>2. tab' \in [Tabs -> [url : Url, form : Form \cup {None}]] /\ FormsOffer'
  BY <1>1, UploadFormType, ShowsType DEF OpenUpload
<1>3. QED
  BY <1>2, KeepsFiles DEF OpenUpload, Keep, IInv, TypeOK

LEMMA OpenCheckStep ==
  ASSUME IInv, NEW t \in Tabs, NEW p \in Pages, OpenCheck(t, p)
  PROVE  IInv'
<1>1. At("check", p) \in Url /\ At("check", p).step = "check"
  BY UrlType DEF At
<1>2. CASE page = None /\ Show(t, At("check", p), Blank)
  <2>1. Blank \in Form /\ ~Blank.asks /\ Blank.ids = {}
    BY DEF Blank, Form
  <2>2. QED
    BY <1>1, <1>2, <2>1, ShowsType, KeepsFiles DEF OpenCheck, data, IInv, TypeOK
<1> DEFINE f == [Blank EXCEPT !.page = page, !.ids = Ids(ToCheck(page)), !.asks = TRUE]
<1>3. CASE page # None /\ Show(t, At("check", p), f)
  <2>1. Ids(ToCheck(page)) \subseteq 1..MaxUploads
    BY IdsType DEF ToCheck, FilesOn
  <2>2. f \in Form /\ f.page = page
    BY <2>1 DEF Blank, Form, IInv, TypeOK
  <2>3. page \in Pages
    BY <1>3 DEF IInv, TypeOK
  <2> HIDE DEF f
  <2>4. QED
    BY <1>1, <1>3, <2>2, <2>3, ShowsType, KeepsFiles DEF OpenCheck, data, IInv, TypeOK
<1>4. CASE page # None /\ Go(t, At("upload", page))
  <2>1. At("upload", page) \in Url
    BY <1>4, UrlType DEF IInv, TypeOK
  <2>2. QED
    BY <1>4, <2>1, GoesType, KeepsFiles DEF OpenCheck, data, IInv, TypeOK
<1>5. QED
  BY <1>2, <1>3, <1>4 DEF OpenCheck

LEMMA OpenSummaryStep ==
  ASSUME IInv, NEW t \in Tabs, NEW p \in Pages, OpenSummary(t, p)
  PROVE  IInv'
<1>1. At("summary", p) \in Url /\ At("summary", p).step = "summary"
  BY UrlType DEF At
<1>2. CASE Go(t, IF page = None THEN At("summary", p) ELSE At("upload", page))
  <2>1. (IF page = None THEN At("summary", p) ELSE At("upload", page)) \in Url
    BY <1>1, UrlType DEF IInv, TypeOK
  <2>2. QED
    BY <1>2, <2>1, GoesType, KeepsFiles DEF OpenSummary, data, IInv, TypeOK
<1> DEFINE f == [Blank EXCEPT !.page = page, !.asks = Asks, !.ids = Ids(FilesOn(accepted, page))]
<1>3. CASE Show(t, At("summary", p), IF Lists THEN f ELSE Blank)
  <2>1. Ids(FilesOn(accepted, page)) \subseteq 1..MaxUploads
    BY IdsType DEF FilesOn
  <2>2. Asks \in BOOLEAN
    BY DEF Asks, Lists
  <2>3. f \in Form /\ f.page = page
    BY <2>1, <2>2 DEF Blank, Form, IInv, TypeOK
  <2>4. Lists => page \in Pages
    BY DEF Lists, IInv, TypeOK
  <2>5. Blank \in Form /\ ~Blank.asks /\ Blank.ids = {}
    BY DEF Blank, Form
  <2> HIDE DEF f
  <2>6. QED
    BY <1>1, <1>3, <2>3, <2>4, <2>5, ShowsType, KeepsFiles DEF OpenSummary, data, IInv, TypeOK
<1>4. QED
  BY <1>2, <1>3 DEF OpenSummary

LEMMA OpenStep ==
  ASSUME IInv, NEW t \in Tabs, NEW u \in Url, Open(t, u)
  PROVE  IInv'
<1>1. u.step # "answers" => u.at \in Pages
  BY DEF Url
<1>2. QED
  BY <1>1, OpenUploadStep, OpenCheckStep, OpenSummaryStep DEF Open

-----------------------------------------------------------------------------
(* Files sent *)

LEMMA SlotsFinite == IsFiniteSet(Slots)
<1>1. ASSUME NEW c \in Components
      PROVE  IsFiniteSet(SlotsOf(c))
  <2> DEFINE F == [s \in SlotsOf(c) |-> s[2]]
  <2>1. F \in Injection(SlotsOf(c), 1..MaxFiles[c])
    BY DEF Injection, IsInjective, SlotsOf
  <2>2. IsFiniteSet(1..MaxFiles[c])
    BY FS_Interval
  <2> HIDE DEF F
  <2>3. QED
    BY <2>1, <2>2, FS_Injection
<1> DEFINE S == {SlotsOf(c) : c \in Components}
           G == [c \in Components |-> SlotsOf(c)]
<1>2. G \in Surjection(Components, S)
  BY DEF Surjection
<1>3. IsFiniteSet(S)
  <2> HIDE DEF S, G
  <2>1. QED
    BY <1>2, FS_Surjection
<1>4. \A T \in S : IsFiniteSet(T)
  BY <1>1
<1>5. IsFiniteSet(UNION S)
  <2> HIDE DEF S
  <2>1. QED
    BY <1>3, <1>4, FS_UNION
<1>6. QED
  BY <1>5 DEF Slots

LEMMA NewFilesType ==
  ASSUME uploads \in Nat, NEW stored \in SUBSET Slots, NEW new, NewFiles(stored, new)
  PROVE  /\ Cardinality(new) \in Nat
         /\ \A f \in new : f.slot \in stored /\ f.id \in (uploads + 1)..(uploads + Cardinality(new))
         /\ OnePerSlot(new)
<1> DEFINE F == [f \in new |-> f.slot]
<1>1. F \in Injection(new, stored)
  BY DEF NewFiles, Injection, IsInjective
<1>2. IsFiniteSet(stored)
  BY SlotsFinite, FS_Subset
<1>3. IsFiniteSet(new)
  <2> HIDE DEF F
  <2>1. QED
    BY <1>1, <1>2, FS_Injection
<1>4. Cardinality(new) \in Nat
  BY <1>3, FS_CardinalityType
<1>5. QED
  BY <1>4 DEF NewFiles, Ids, OnePerSlot

LEMMA StoreStep ==
  ASSUME IInv, NEW stored \in SUBSET Slots, NEW new \in SUBSET [id : Nat, slot : stored],
         NewFiles(stored, new), uploads + Cardinality(new) <= MaxUploads,
         NEW kept \in SUBSET pending, Store(kept, stored, new), field' # {}, UNCHANGED <<accepted, gone>>
  PROVE  /\ uploads' \in 0..MaxUploads
         /\ pending' \subseteq Stored' /\ accepted' \subseteq Stored' /\ gone' \subseteq 1..uploads'
         /\ FieldKnown' /\ Separate'
<1> DEFINE n == Cardinality(new)
           old == {f \in kept : f.slot \notin stored}
<1>1. /\ n \in Nat
      /\ \A f \in new : f.slot \in stored /\ f.id \in (uploads + 1)..(uploads + n)
      /\ OnePerSlot(new)
  BY NewFilesType DEF IInv, TypeOK
<1>2. /\ uploads' = uploads + n
      /\ pending' = old \cup new
  BY DEF Store
<1> HIDE DEF n
<1>3. uploads \in Nat /\ uploads' \in 0..MaxUploads /\ 1..uploads \subseteq 1..uploads'
  BY <1>1, <1>2 DEF IInv, TypeOK, n
<1>4. Stored \subseteq Stored'
  BY <1>3 DEF Stored
<1>5. new \subseteq Stored'
  <2>1. ASSUME NEW f \in new
        PROVE  f \in Stored'
    <3>1. f.id \in 1..uploads' /\ f.slot \in Slots
      BY <1>1, <1>2, <1>3
    <3>2. QED
      BY <3>1 DEF Stored
  <2>2. QED
    BY <2>1
<1>6. \A f \in old : f \in pending /\ f.id \in 1..uploads /\ f.slot \notin stored
  BY DEF IInv, TypeOK, Stored
<1>7. \A f \in new : f.id \in Nat /\ f.id > uploads
  BY <1>1, <1>3
<1>8. OnePerSlot(pending')
  <2>1. ASSUME NEW f \in old, NEW g \in new
        PROVE  f.id # g.id /\ f.slot # g.slot
    BY <1>1, <1>3, <1>6, <1>7
  <2>2. OnePerSlot(old)
    BY <1>6 DEF OnePerSlot, IInv, Separate
  <2> HIDE DEF old
  <2>3. QED
    BY <1>1, <1>2, <2>1, <2>2 DEF OnePerSlot
<1>9. ASSUME NEW f \in new
      PROVE  f.id \notin gone /\ \A g \in accepted : f.id # g.id
  BY <1>3, <1>7 DEF IInv, TypeOK, Stored
<1>10. Separate'
  BY <1>2, <1>6, <1>8, <1>9 DEF IInv, Separate
<1>11. pending' \subseteq Stored'
  BY <1>2, <1>4, <1>5, <1>6 DEF IInv, TypeOK
<1>12. QED
  BY <1>3, <1>4, <1>10, <1>11 DEF IInv, TypeOK, FieldKnown

LEMMA UploadStep ==
  ASSUME IInv, NEW t \in Tabs, tab[t].form # None, Upload(t)
  PROVE  IInv'
<1>1. PICK sent, stored, broken \in SUBSET Posted(t).fields :
        \E new \in SUBSET [id : (uploads + 1)..(uploads + Cardinality(stored)), slot : stored] :
          PostUpload(t, sent, stored, broken, new)
  BY DEF Upload
<1>2. PICK new \in SUBSET [id : (uploads + 1)..(uploads + Cardinality(stored)), slot : stored] :
        PostUpload(t, sent, stored, broken, new)
  BY <1>1
<1> DEFINE p == Place(t)
<1>3. /\ tab[t].url \in Url /\ tab[t].url.step = "upload"
      /\ Posted(t) \in Form
      /\ Posted(t).fields # {}
  BY <1>2 DEF PostUpload, Shows, Posted, IInv, TypeOK, FormsOffer
<1>4. p \in Pages
  BY <1>3 DEF Url, Place
<1>5. Posted(t).fields \subseteq Slots
  BY <1>3 DEF Form
<1>6. new \in SUBSET [id : Nat, slot : stored]
  <2>1. \A f \in new : f \in [id : Nat, slot : stored]
    <3>1. uploads \in Nat /\ Cardinality(stored) \in Nat
      <4>1. IsFiniteSet(stored)
        BY <1>5, SlotsFinite, FS_Subset
      <4>2. QED
        BY <4>1, FS_CardinalityType DEF IInv, TypeOK
    <3>2. QED
      BY <3>1
  <2>2. QED
    BY <2>1
<1>7. /\ NewFiles(stored, new)
      /\ uploads + Cardinality(new) <= MaxUploads
      /\ Store(Kept(Posted(t).fields, sent), stored, new)
      /\ field' = Posted(t).fields /\ page' = p
      /\ Go(t, AfterUpload(p)) \/ Show(t, At("upload", p), UploadForm(p))
      /\ UNCHANGED <<accepted, listed, gone>>
  BY <1>2 DEF PostUpload
<1>8. tab' \in [Tabs -> [url : Url, form : Form \cup {None}]] /\ FormsOffer'
  <2>1. AfterUpload(p) \in Url /\ At("upload", p) \in Url
    BY <1>4, UrlType
  <2>2. CASE Go(t, AfterUpload(p))
    BY <2>1, <2>2, GoesType
  <2>3. CASE Show(t, At("upload", p), UploadForm(p))
    BY <1>4, <2>1, <2>3, UploadFormType, ShowsType
  <2>4. QED
    BY <1>7, <2>2, <2>3
<1>9. Kept(Posted(t).fields, sent) \in SUBSET pending
  BY DEF Kept
<1>10. /\ uploads' \in 0..MaxUploads
       /\ pending' \subseteq Stored' /\ accepted' \subseteq Stored' /\ gone' \subseteq 1..uploads'
       /\ FieldKnown' /\ Separate'
  BY <1>3, <1>5, <1>6, <1>7, <1>9, StoreStep
<1>11. QED
  BY <1>4, <1>5, <1>7, <1>8, <1>10 DEF IInv, TypeOK

-----------------------------------------------------------------------------
(* Decisions *)

\* What a form says that is posted.
LEMMA PostedType ==
  ASSUME IInv, NEW t \in Tabs, NEW step \in {"upload", "check", "summary"}, Shows(t, step)
  PROVE  /\ Place(t) \in Pages
         /\ Posted(t) \in Form
         /\ Posted(t).page \in Pages \cup {None}
         /\ Posted(t).asks \/ Posted(t).ids # {} => Posted(t).page \in Pages
<1>1. tab[t].url \in Url /\ tab[t].url.step = step /\ tab[t].form # None
  BY DEF Shows, IInv, TypeOK
<1>2. Place(t) \in Pages
  BY <1>1 DEF Url, Place
<1>3. Posted(t) \in Form
  BY <1>1 DEF Posted, IInv, TypeOK
<1>4. QED
  BY <1>1, <1>2, <1>3 DEF Form, IInv, FormsOffer

\* The accepted files but those in some slots.
LEMMA RemovedIs ==
  ASSUME IInv, NEW files
  PROVE  /\ RemoveFromAccepted(files) = {f \in accepted : f.slot \notin SlotsIn(files)}
         /\ AddToAccepted(files) = {f \in accepted : f.slot \notin SlotsIn(files)} \cup files
BY WithoutAllIs DEF RemoveFromAccepted, AddToAccepted, IInv, Separate, OnePerSlot

LEMMA SettledIs ==
  ASSUME IInv, NEW t \in Tabs, NEW files, Settle(t, files)
  PROVE  /\ files \subseteq pending
         /\ \A f \in files : f.id \in Posted(t).ids
         /\ pending' = pending \ files
         /\ page' \in Pages
         /\ UNCHANGED <<field, uploads>>
         /\ Shows(t, "check") /\ Place(t) \in Pages
BY PostedType DEF Settle, Decided, Keep

LEMMA AcceptStep ==
  ASSUME IInv, NEW t \in Tabs, NEW files, Accept(t, files)
  PROVE  IInv'
<1>1. /\ files \subseteq pending /\ pending' = pending \ files
      /\ page' \in Pages /\ Place(t) \in Pages /\ UNCHANGED <<field, uploads, gone>>
  BY SettledIs DEF Accept
<1>2. accepted' = {f \in accepted : f.slot \notin SlotsIn(files)} \cup files
  BY RemovedIs DEF Accept
<1>3. tab' \in [Tabs -> [url : Url, form : Form \cup {None}]] /\ FormsOffer'
  BY <1>1, UrlType, GoesType DEF Accept
<1>4. TypeOK'
  BY <1>1, <1>2, <1>3 DEF IInv, TypeOK, Stored
<1>5. FieldKnown'
  BY <1>1, <1>2 DEF IInv, FieldKnown
<1>6. OnePerSlot(accepted')
  <2>1. \A f \in accepted, g \in files : f.slot \notin SlotsIn(files) => f.slot # g.slot /\ f.id # g.id
    BY <1>1 DEF IInv, Separate, SlotsIn
  <2>2. OnePerSlot(accepted) /\ OnePerSlot(files)
    BY <1>1 DEF IInv, Separate, OnePerSlot
  <2>3. QED
    BY <1>2, <2>1, <2>2 DEF OnePerSlot
<1>7. \A f \in pending', g \in accepted' : f.id # g.id
  BY <1>1, <1>2 DEF IInv, Separate, OnePerSlot
<1>8. Separate'
  BY <1>1, <1>2, <1>6, <1>7 DEF IInv, Separate, OnePerSlot
<1>9. QED
  BY <1>3, <1>4, <1>5, <1>8 DEF IInv

LEMMA RejectStep ==
  ASSUME IInv, NEW t \in Tabs, NEW files, Reject(t, files)
  PROVE  IInv'
<1>1. /\ files \subseteq pending /\ pending' = pending \ files
      /\ page' \in Pages /\ Place(t) \in Pages /\ UNCHANGED <<field, uploads>>
  BY SettledIs DEF Reject
<1>2. accepted' \subseteq accepted /\ gone' = gone \cup Ids(files)
  BY RemovedIs DEF Reject
<1>3. tab' \in [Tabs -> [url : Url, form : Form \cup {None}]] /\ FormsOffer'
  BY <1>1, UrlType, GoesType DEF Reject
<1>4. TypeOK'
  <2>1. Ids(files) \subseteq 1..uploads
    BY <1>1 DEF IInv, TypeOK, Stored, Ids
  <2>2. QED
    BY <1>1, <1>2, <1>3, <2>1 DEF IInv, TypeOK, Stored
<1>5. FieldKnown'
  BY <1>1, <1>2 DEF IInv, FieldKnown
<1>6. \A f \in pending' \cup accepted' : f.id \notin Ids(files)
  BY <1>1, <1>2 DEF IInv, Separate, OnePerSlot, Ids
<1>7. Separate'
  BY <1>1, <1>2, <1>6 DEF IInv, Separate, OnePerSlot
<1>8. QED
  BY <1>3, <1>4, <1>5, <1>7 DEF IInv

\* A file found by its id takes only itself away.
LEMMA RemoveIs ==
  ASSUME IInv, NEW t \in Tabs, NEW id \in Posted(t).ids, Remove(t, id)
  PROVE  /\ accepted' \subseteq accepted
         /\ \A f \in accepted \ accepted' : f.id = id /\ gone' = gone \cup {id}
         /\ \/ UNCHANGED <<accepted, page, gone>>
            \/ /\ page' = Posted(t).page /\ gone' = gone \cup {id}
               /\ \A f \in accepted' : f.id # id
               /\ \E f \in accepted : f.id = id
<1> DEFINE was == {f \in accepted : f.id = id}
<1>1. CASE was = {}
  <2>1. UNCHANGED <<accepted, page, gone>>
    BY <1>1 DEF Remove
  <2>2. QED
    BY <2>1
<1>2. CASE was # {}
  <2>1. PICK g \in was : (CHOOSE f \in was : TRUE) = g
    BY <1>2
  <2>2. /\ accepted' = RemoveFromAccepted({g})
        /\ page' = Posted(t).page /\ gone' = gone \cup {id}
    BY <1>2, <2>1 DEF Remove
  <2>3. accepted' = {f \in accepted : f.slot # g.slot}
    BY <2>2, RemovedIs DEF SlotsIn
  <2>4. \A f \in accepted : f.slot = g.slot \/ f.id = g.id => f = g
    BY <2>1 DEF IInv, Separate, OnePerSlot
  <2>5. QED
    BY <2>1, <2>2, <2>3, <2>4
<1>3. QED
  BY <1>1, <1>2

LEMMA RemoveStep ==
  ASSUME IInv, NEW t \in Tabs, NEW id \in Posted(t).ids, Remove(t, id)
  PROVE  IInv'
<1> DEFINE u == IF HasMinFiles(accepted', Posted(t).page)
                THEN At("summary", Place(t)) ELSE At("upload", Posted(t).page)
<1>1. /\ Posted(t).page \in Pages /\ Place(t) \in Pages
  BY PostedType DEF Remove
<1>2. Go(t, u) /\ UNCHANGED <<pending, field, uploads>>
  BY DEF Remove
<1>3. u \in Url
  BY <1>1, UrlType
<1>4. tab' \in [Tabs -> [url : Url, form : Form \cup {None}]] /\ FormsOffer'
  <2> HIDE DEF u
  <2>1. QED
    BY <1>2, <1>3, GoesType
<1>5. accepted' \subseteq accepted
  BY RemoveIs
<1>6. CASE UNCHANGED <<accepted, page, gone>>
  BY <1>2, <1>4, <1>6, KeepsFiles DEF IInv, TypeOK
<1>7. CASE /\ page' = Posted(t).page /\ gone' = gone \cup {id}
           /\ \A f \in accepted' : f.id # id
           /\ \E f \in accepted : f.id = id
  <2>1. \A f \in pending' \cup accepted' : f.id # id
    BY <1>2, <1>7 DEF IInv, Separate
  <2>2. Separate'
    BY <1>2, <1>5, <1>7, <2>1 DEF IInv, Separate, OnePerSlot
  <2>3. id \in 1..uploads
    BY <1>7 DEF IInv, TypeOK, Stored
  <2>4. TypeOK'
    <3> HIDE DEF u
    <3>1. QED
      BY <1>1, <1>2, <1>4, <1>5, <1>7, <2>3 DEF IInv, TypeOK, Stored
  <2>5. QED
    BY <1>2, <1>4, <1>5, <2>2, <2>4 DEF IInv, FieldKnown
<1>8. QED
  BY <1>6, <1>7, RemoveIs

\* Posts after which no file is accepted that was not, or the other way round.
LEMMA PassStep ==
  ASSUME IInv, NEW t \in Tabs,
         NoDecision(t) \/ ConfirmAnother(t) \/ \E decided \in BOOLEAN : DeclineAnother(t, decided)
  PROVE  IInv'
<1>1. Place(t) \in Pages /\ Posted(t).page \in Pages \cup {None}
  BY PostedType DEF NoDecision, ConfirmAnother, DeclineAnother
<1>2. pending' \subseteq pending /\ UNCHANGED <<accepted, field, uploads, gone>>
  BY DEF NoDecision, ConfirmAnother, DeclineAnother, Keep, data
<1>3. page' \in Pages \cup {None}
  BY <1>1 DEF NoDecision, ConfirmAnother, DeclineAnother, data, IInv, TypeOK
<1>4. \E u \in Url : Go(t, u)
  <2>1. CASE NoDecision(t)
    BY <1>1, <2>1, UrlType DEF NoDecision
  <2>2. CASE ConfirmAnother(t)
    <3>1. Posted(t).page \in Pages
      BY <2>2, PostedType DEF ConfirmAnother
    <3>2. QED
      BY <2>2, <3>1, UrlType DEF ConfirmAnother
  <2>3. CASE \E decided \in BOOLEAN : DeclineAnother(t, decided)
    BY <1>1, <2>3, UrlType DEF DeclineAnother
  <2>4. QED
    BY <2>1, <2>2, <2>3
<1>5. tab' \in [Tabs -> [url : Url, form : Form \cup {None}]] /\ FormsOffer'
  BY <1>4, GoesType
<1>6. QED
  BY <1>2, <1>3, <1>5, KeepsFiles DEF IInv, TypeOK

LEMMA IInvInit == Init => IInv
BY DEF Init, IInv, TypeOK, FormsOffer, FieldKnown, Separate, OnePerSlot, Stored, Sent, Answers, At, Url

LEMMA IInvNext == IInv /\ [Next]_vars => IInv'
<1> SUFFICES ASSUME IInv, [Next]_vars PROVE IInv'
  OBVIOUS
<1>1. CASE Next
  <2>1. PICK t \in Tabs :
          \/ \E u \in Url : Open(t, u)
          \/ tab[t].form # None /\ (Upload(t) \/ Decide(t))
    BY <1>1 DEF Next
  <2>2. CASE \E u \in Url : Open(t, u)
    BY <2>2, OpenStep
  <2>3. CASE tab[t].form # None /\ Upload(t)
    BY <2>3, UploadStep
  <2>4. CASE Decide(t)
    BY <2>4, AcceptStep, RejectStep, RemoveStep, PassStep DEF Decide
  <2>5. QED
    BY <2>1, <2>2, <2>3, <2>4
<1>2. CASE UNCHANGED vars
  BY <1>2 DEF vars, IInv, TypeOK, FormsOffer, FieldKnown, Separate, OnePerSlot, Stored, Posted
<1>3. QED
  BY <1>1, <1>2

\* Whatever is opened in any tab and whichever old form is posted.
THEOREM IInvAlways == Spec => []IInv
BY IInvInit, IInvNext, PTL DEF Spec

\* A file is accepted or awaits a decision, alone in its slot and among no more than
\* its component may have, and does not come back once it was refused or removed
\* (storeUploadedFiles, addToComponentAcceptedFiles, postValidation).
THEOREM FilesInOnePlace == Spec => []OnePlace
BY IInvAlways, OnePlaceFrom, PTL

\* The accepted files of a component are in the answers sent, unless a later one
\* awaits a decision (removeUploadComponentValuesForJson).
THEOREM AcceptedAlwaysSent == Spec => []AcceptedAreSent
<1>1. IInv => AcceptedAreSent
  BY DEF IInv, FieldKnown, AcceptedAreSent, Answer, Of
<1>2. QED
  BY <1>1, IInvAlways, PTL

-----------------------------------------------------------------------------
(* Steps *)

\* What a step does to the accepted files.
LEMMA AcceptedChanges ==
  ASSUME IInv, [Next]_vars
  PROVE  \/ UNCHANGED accepted
         \/ \E t \in Tabs, files \in SUBSET pending : Accept(t, files) \/ Reject(t, files)
         \/ \E t \in Tabs : \E id \in Posted(t).ids : Remove(t, id)
<1>1. CASE UNCHANGED vars
  BY <1>1 DEF vars
<1>2. ASSUME NEW t \in Tabs, NEW u \in Url, Open(t, u)
      PROVE  UNCHANGED accepted
  BY <1>2 DEF Open, OpenUpload, OpenCheck, OpenSummary, data
<1>3. ASSUME NEW t \in Tabs, Upload(t)
      PROVE  UNCHANGED accepted
  BY <1>3 DEF Upload, PostUpload
<1>4. ASSUME NEW t \in Tabs, Decide(t)
      PROVE  \/ UNCHANGED accepted
             \/ \E files \in SUBSET pending : Accept(t, files) \/ Reject(t, files)
             \/ \E id \in Posted(t).ids : Remove(t, id)
  BY <1>4 DEF Decide, NoDecision, ConfirmAnother, DeclineAnother, data
<1>5. QED
  BY <1>1, <1>2, <1>3, <1>4 DEF Next

LEMMA AcceptedShownStep ==
  ASSUME IInv, [Next]_vars, NEW f \in accepted' \ accepted
  PROVE  f \in pending /\ \E t \in Tabs : Shows(t, "check") /\ f.id \in Posted(t).ids
<1>1. PICK t \in Tabs, files \in SUBSET pending : Accept(t, files)
  BY AcceptedChanges, RemovedIs, RemoveIs DEF Reject
<1>2. f \in files
  BY <1>1, RemovedIs DEF Accept
<1>3. f \in pending /\ f.id \in Posted(t).ids /\ Shows(t, "check")
  BY <1>1, <1>2, SettledIs DEF Accept
<1>4. QED
  BY <1>3

\* A file becomes accepted only by a form that shows it (postValidation of the check
\* page).
THEOREM OnlyShownAccepted == Spec => AcceptedWasShown
<1>1. IInv /\ [Next]_vars =>
        [\A f \in accepted' \ accepted :
           /\ f \in pending
           /\ \E t \in Tabs : Shows(t, "check") /\ f.id \in Posted(t).ids]_vars
  BY AcceptedShownStep
<1>2. QED
  BY <1>1, IInvAlways, PTL DEF Spec, AcceptedWasShown

LEMMA AcceptedLeavesStep ==
  ASSUME IInv, [Next]_vars, NEW f \in accepted \ accepted'
  PROVE  \/ f.slot \in SlotsIn(pending \ pending')
         \/ \E t \in Tabs : Shows(t, "summary") /\ f.id \in Posted(t).ids \intersect gone'
<1>1. ASSUME NEW t \in Tabs, NEW files \in SUBSET pending, Accept(t, files) \/ Reject(t, files)
      PROVE  f.slot \in SlotsIn(pending \ pending')
  <2>1. pending \ pending' = files
    BY <1>1, SettledIs DEF Accept, Reject
  <2>2. f.slot \in SlotsIn(files)
    BY <1>1, RemovedIs DEF Accept, Reject
  <2>3. QED
    BY <2>1, <2>2
<1>2. ASSUME NEW t \in Tabs, NEW id \in Posted(t).ids, Remove(t, id)
      PROVE  Shows(t, "summary") /\ f.id \in Posted(t).ids \intersect gone'
  BY <1>2, RemoveIs DEF Remove
<1>3. QED
  BY <1>1, <1>2, AcceptedChanges

\* An accepted file is lost only to a decision about a file in its slot, or because
\* the user asks for it to be removed (removeFromComponentAcceptedFiles).
THEOREM AcceptedLostForOne == Spec => AcceptedLeavesForOne
<1>1. IInv /\ [Next]_vars =>
        [\A f \in accepted \ accepted' :
           \/ f.slot \in SlotsIn(pending \ pending')
           \/ \E t \in Tabs : Shows(t, "summary") /\ f.id \in Posted(t).ids \intersect gone']_vars
  BY AcceptedLeavesStep
<1>2. QED
  BY <1>1, IInvAlways, PTL DEF Spec, AcceptedLeavesForOne

\* A slot that is offered and taken is the last one, with every other taken as well.
LEMMA OfferedIs ==
  ASSUME IInv, NEW p, NEW s \in FieldNames(p) \intersect SlotsIn(accepted)
  PROVE  HasMax(accepted, s[1])
<1>1. PICK c \in Components : s = FieldName(c)
  BY DEF FieldNames, OnPage
<1>2. PICK i \in 1..MaxFiles[c] :
        /\ s = <<c, i>>
        /\ <<c, i>> \in SlotsIn(accepted) => i = MaxFiles[c]
        /\ \A j \in 1..MaxFiles[c] : <<c, j>> \notin SlotsIn(accepted) => i <= j
  BY <1>1, FieldNameIs
<1>3. \A j \in 1..MaxFiles[c] : <<c, j>> \in SlotsIn(accepted)
  <2>1. i = MaxFiles[c] /\ <<c, i>> \in SlotsIn(accepted)
    BY <1>2
  <2>2. \A j \in 1..MaxFiles[c] : i <= j => j = i
    BY <2>1
  <2>3. QED
    BY <1>2, <2>1, <2>2
<1>4. SlotsOf(c) \subseteq SlotsIn(accepted)
  BY <1>3 DEF SlotsOf
<1>5. /\ \A f \in accepted : f.slot \in Slots
      /\ \A f, g \in accepted : f.slot = g.slot => f = g
  BY DEF IInv, TypeOK, Stored, Separate, OnePerSlot
<1>6. HasMax(accepted, c)
  BY <1>4, <1>5, FilesCounted
<1>7. QED
  BY <1>2, <1>6

\* The forms that a step can make.
LEMMA FormsMade ==
  ASSUME IInv, [Next]_vars, NEW t \in Tabs, tab'[t].form # None, tab'[t] # tab[t]
  PROVE  \/ tab'[t].form.fields = {}
         \/ /\ UNCHANGED accepted
            /\ \E p \in Pages : tab'[t].form.fields = FieldNames(p)
<1> DEFINE Made == \/ tab'[t].form.fields = {}
                   \/ /\ UNCHANGED accepted
                      /\ \E p \in Pages : tab'[t].form.fields = FieldNames(p)
<1>1. ASSUME NEW s \in Tabs, NEW u, Go(s, u)
      PROVE  FALSE
  BY <1>1 DEF Go, Sent, IInv, TypeOK
<1>2. ASSUME NEW s \in Tabs, NEW u, NEW f, Show(s, u, f)
      PROVE  tab'[t].form = f
  BY <1>2 DEF Show, Shown, IInv, TypeOK
<1>3. Blank.fields = {}
  BY DEF Blank
<1>4. ASSUME NEW s \in Tabs, NEW p \in Pages, OpenUpload(s, p)
      PROVE  Made
  <2>1. UNCHANGED accepted /\ Show(s, At("upload", p), UploadForm(p))
    BY <1>4 DEF OpenUpload
  <2>2. tab'[t].form = UploadForm(p)
    BY <1>2, <2>1
  <2>3. UploadForm(p).fields = FieldNames(p)
    BY UploadFormType
  <2>4. QED
    BY <2>1, <2>2, <2>3
<1>5. ASSUME NEW s \in Tabs, NEW p \in Pages, OpenCheck(s, p)
      PROVE  tab'[t].form.fields = {}
  <2> DEFINE f == [Blank EXCEPT !.page = page, !.ids = Ids(ToCheck(page)), !.asks = TRUE]
  <2>1. f.fields = {}
    BY <1>3 DEF Blank
  <2> HIDE DEF f
  <2>2. Show(s, At("check", p), Blank) \/ Show(s, At("check", p), f) \/ Go(s, At("upload", page))
    BY <1>5 DEF OpenCheck, f
  <2>3. QED
    BY <1>1, <1>2, <1>3, <2>1, <2>2
<1>6. ASSUME NEW s \in Tabs, NEW p \in Pages, OpenSummary(s, p)
      PROVE  tab'[t].form.fields = {}
  <2> DEFINE f == IF Lists THEN [Blank EXCEPT !.page = page, !.asks = Asks,
                                              !.ids = Ids(FilesOn(accepted, page))]
                           ELSE Blank
  <2>1. Show(s, At("summary", p), f)
    BY <1>1, <1>6 DEF OpenSummary
  <2>2. f.fields = {}
    BY <1>3 DEF Blank
  <2> HIDE DEF f
  <2>3. QED
    BY <1>2, <2>1, <2>2
<1>7. ASSUME NEW s \in Tabs, tab[s].form # None, Upload(s)
      PROVE  Made
  <2>1. Place(s) \in Pages
    BY <1>7, PostedType DEF Upload, PostUpload
  <2>2. Show(s, At("upload", Place(s)), UploadForm(Place(s))) /\ UNCHANGED accepted
    <3>1. \E sent, stored, broken \in SUBSET Posted(s).fields : \E now : PostUpload(s, sent, stored, broken, now)
      BY <1>7 DEF Upload
    <3>2. /\ UNCHANGED accepted
          /\ \/ Go(s, AfterUpload(Place(s)))
             \/ Show(s, At("upload", Place(s)), UploadForm(Place(s)))
      BY <3>1 DEF PostUpload
    <3>3. QED
      BY <1>1, <3>2
  <2>3. QED
    BY <1>2, <2>1, <2>2, UploadFormType
<1>8. ASSUME NEW s \in Tabs, Decide(s)
      PROVE  FALSE
  BY <1>1, <1>8 DEF Decide, Accept, Reject, NoDecision, Remove, ConfirmAnother, DeclineAnother
<1>9. ASSUME NEW s \in Tabs, NEW u \in Url, Open(s, u)
      PROVE  Made
  <2>1. u.step # "answers" => u.at \in Pages
    BY DEF Url
  <2>2. QED
    BY <1>4, <1>5, <1>6, <1>9, <2>1 DEF Open
<1>10. ~UNCHANGED vars
  BY DEF vars
<1>11. QED
  BY <1>7, <1>8, <1>9, <1>10 DEF Next

LEMMA RoomStep ==
  ASSUME IInv, [Next]_vars, NEW t \in Tabs, tab'[t].form # None, tab'[t] # tab[t],
         NEW s \in tab'[t].form.fields \intersect SlotsIn(accepted')
  PROVE  HasMax(accepted', s[1])
<1>1. UNCHANGED accepted /\ \E p \in Pages : tab'[t].form.fields = FieldNames(p)
  BY FormsMade
<1>2. QED
  BY <1>1, OfferedIs DEF HasMax

\* A new form offers a slot with an accepted file only when its component has all the
\* files it may have (getAcceptedFieldName).
THEOREM RoomIsOffered == Spec => RoomMeansNewSlot
<1>1. IInv /\ [Next]_vars =>
        [\A t \in Tabs : tab'[t].form # None /\ tab'[t] # tab[t] =>
           \A s \in tab'[t].form.fields \intersect SlotsIn(accepted') :
             HasMax(accepted', s[1])]_vars
  BY RoomStep
<1>2. QED
  BY <1>1, IInvAlways, PTL DEF Spec, RoomMeansNewSlot

=============================================================================
