----------------------------- MODULE Repeatable -----------------------------
(***************************************************************************)
(* One repeatable component: its count, its answers and the forms that     *)
(* edit them.                                                              *)
(*                                                                         *)
(* The page shows one control for each item, with buttons that remove that *)
(* item or add another; the summary page lists the items with nothing but  *)
(* its main button.  What is posted is applied to the document as it is    *)
(* when the request is handled (page/set-repeatable, process-input,        *)
(* remove-item, add-item), which may not be what the form showed: a button *)
(* is clicked twice, or an older page is still open in another tab.        *)
(*                                                                         *)
(* Requests are handled one at a time here; RunnerSession has the overlaps. *)
(***************************************************************************)
EXTENDS Naturals, Sequences, FiniteSetsExt

CONSTANTS Values,    \* what a user may type into one control
          Empty,     \* nothing typed, or no such item
          None,      \* the value of a variable that is not set
          Minimum,   \* repeatableMinimum, or 1 when it is not set
          Maximum,   \* repeatableMaximum; 0 when it is not set
          MaxItems   \* bound: no item is added to this many

ASSUME RepeatableAssumption ==
  /\ Empty \notin Values
  /\ None \notin Nat
  /\ Minimum \in Nat /\ Maximum \in Nat /\ MaxItems \in Nat
  /\ Maximum # 0 => Minimum <= Maximum

VARIABLES
  count,    \* the current count of the user's count property
  input,    \* the array of answers, without the hole at 0
  display,  \* the same array in the display scope
  oldForms, \* whether the browser may post a form that is not the last: never changes
  checked,  \* whether the component has more to validate than required: never changes
  forms,    \* the forms open in the browser
  posted,   \* what the last post asked for; history for the properties
  sent      \* the answers that post submitted, if it did

vars == <<count, input, display, oldForms, checked, forms, posted, sent>>

Items == Values \cup {Empty}
Buttons == {"main", "add", "remove"}

-----------------------------------------------------------------------------
(* Arrays of the user document.  A missing item and a hole read the same,  *)
(* but a hole is null once the document has been stored.                   *)

Item(s, i) == IF i \in DOMAIN s THEN s[i] ELSE Empty

\* mutant: delete s[k] in place of the splice
WithoutHole(s, k) == [i \in DOMAIN s |-> IF i = k THEN Empty ELSE s[i]]

\* splice(k, 1)
Without(s, k) ==
  IF k \in DOMAIN s
  THEN [i \in 1..(Len(s) - 1) |-> IF i < k THEN s[i] ELSE s[i + 1]]
  ELSE s

\* The items a page shows when the count is n.
Rows(s, n) == [i \in 1..n |-> Item(s, i)]

\* processInput for the controls 1..n: sets what was typed, unsets the others
\* and leaves the items after n alone.  An array gets longer, never shorter.
ProcessInput(s, n, fields) ==
  [i \in 1..Max({Len(s)} \cup {k \in 1..n : Item(fields, k) # Empty}) |->
     IF i <= n THEN Item(fields, i) ELSE Item(s, i)]

-----------------------------------------------------------------------------
(* The count                                                               *)

\* setRepeatable stores the default count the first time it meets the
\* component; its minimum and maximum are then those of the component.
SetRepeatable == IF count = None THEN Minimum ELSE count

Full(n) == Maximum # 0 /\ n >= Maximum
Removable(n) == n > Minimum

\* removeItem: the count and one of the arrays after "remove item k"
RemoveItem(n) == IF Removable(n) THEN n - 1 ELSE n
\* mutants: the index taken as 0-based; only the count goes down
RemoveAnswerNext(s, n, k) == IF Removable(n) THEN Without(s, k + 1) ELSE s
RemoveAnswerNot(s, n, k) == s
RemoveAnswer(s, n, k) == IF Removable(n) THEN Without(s, k) ELSE s

\* mutant: the maximum is left to the form
AddItemAlways(n) == n + 1

\* addItem: the count after "add"
AddItem(n) == IF Full(n) THEN n ELSE n + 1

\* Every item of several is required, a single one is optional.
Valid(s, n) == n > 1 => \A i \in 1..n : Item(s, i) # Empty

\* The stored items when the summary page looks at them.  A hole is null now, which is not
\* the undefined that a required item must not be, nor the text that others must be.
Passes(s, n) ==
  \A i \in 1..n : IF i \in DOMAIN s THEN s[i] # Empty \/ ~checked ELSE n = 1

\* The answers of a summary page are filtered (filterAnswers) until no button is left.
FormOf(page, s, n) ==
  [page |-> page, rows |-> Rows(s, n),
   removes |-> page /\ Removable(n), adds |-> page /\ ~Full(n)]

-----------------------------------------------------------------------------
Init ==
  /\ count = None
  /\ input = <<>>
  /\ display = <<>>
  /\ oldForms \in BOOLEAN
  /\ checked \in BOOLEAN
  /\ forms = {}
  /\ posted = None
  /\ sent = None

\* A GET of the page, or of the summary page, which redirects to the first page
\* that is not valid.
View(page) ==
  LET form == FormOf(page, input, SetRepeatable) IN
  /\ page \/ Passes(input, SetRepeatable)
  /\ count' = SetRepeatable
  /\ forms' \in {{form}} \cup IF oldForms THEN {{form, f} : f \in forms} ELSE {}
  /\ posted' = None
  /\ sent' = None
  /\ UNCHANGED <<input, display, oldForms, checked>>

\* What the user may have typed into a form; the summary page has no control.
Typed(f) == IF f.page THEN [DOMAIN f.rows -> Items] ELSE {f.rows}

\* The browser posts form f with a button of its own.  A summary page that
\* redirects away does so before it looks at the post.
Posts(f, fields, button, k) ==
  /\ f.page \/ Passes(input, SetRepeatable)
  /\ posted' = [button |-> button, item |-> k, fields |-> fields,
                  count |-> SetRepeatable]
  /\ UNCHANGED <<oldForms, checked>>

\* The forms left once f is posted: the browser may keep it open.
Leaves == IF oldForms THEN forms ELSE {}

\* The answers once the controls of the page are processed.
Processed(s, fields) == ProcessInput(s, SetRepeatable, fields)

\* mutant: an emptied control keeps its display value
DisplayedNotUnset(s, fields) ==
  Processed(s, [i \in DOMAIN fields |-> IF fields[i] = Empty THEN Item(s, i) ELSE fields[i]])

\* The display scope follows the same controls.
Displayed(s, fields) == Processed(s, fields)

\* A removal that the count allows; the page then redirects to itself.
Remove(f, fields, k) ==
  /\ f.removes
  /\ Posts(f, fields, "remove", k)
  /\ Removable(SetRepeatable)
  /\ count' = RemoveItem(SetRepeatable)
  /\ input' = RemoveAnswer(Processed(input, fields), SetRepeatable, k)
  /\ display' = Displayed(display, fields)
  /\ sent' = None
  /\ forms' = Leaves

\* "Add another": redirects to the page whether or not there was room.
Add(f, fields) ==
  /\ f.adds
  /\ Posts(f, fields, "add", 0)
  /\ SetRepeatable < MaxItems
  /\ count' = AddItem(SetRepeatable)
  /\ input' = Processed(input, fields)
  /\ display' = Displayed(display, fields)
  /\ sent' = None
  /\ forms' = Leaves

\* The main button, or a removal that the count refuses: neither redirects, and
\* the request goes on to validation.
GoesOn(f, fields, k) ==
  \/ k = 0 /\ Posts(f, fields, "main", k)
  \/ /\ k \in DOMAIN f.rows
     /\ f.removes
     /\ ~Removable(SetRepeatable)
     /\ Posts(f, fields, "remove", k)

\* The page stores its answers whether or not they are valid, and is shown again
\* when they are not.
Continue(f, fields, k) ==
  /\ f.page
  /\ GoesOn(f, fields, k)
  /\ count' = SetRepeatable
  /\ input' = Processed(input, fields)
  /\ display' = Displayed(display, fields)
  /\ sent' = None
  /\ forms' = IF Valid(input', count') THEN Leaves
              ELSE {FormOf(TRUE, input', count')}

\* The summary page submits the whole array, of which getOutputData drops the
\* holes, and the confirmation page ends the session.
Submit(f, fields, k) ==
  /\ ~f.page
  /\ GoesOn(f, fields, k)
  /\ sent' = input
  /\ count' = None
  /\ input' = <<>>
  /\ display' = <<>>
  /\ forms' = {}

Next ==
  \/ \E page \in BOOLEAN : View(page)
  \/ \E f \in forms : \E fields \in Typed(f) :
       \/ \E k \in DOMAIN f.rows : Remove(f, fields, k)
       \/ Add(f, fields)
       \/ \E k \in 0..Len(f.rows) : Continue(f, fields, k) \/ Submit(f, fields, k)

Spec == Init /\ [][Next]_vars

-----------------------------------------------------------------------------
(* Properties                                                              *)

FormOK(f) ==
  /\ f.page \in BOOLEAN
  /\ f.rows \in Seq(Items)
  /\ f.removes \in BOOLEAN
  /\ f.adds \in BOOLEAN

TypeOK ==
  /\ count \in Nat \cup {None}
  /\ input \in Seq(Items)
  /\ display \in Seq(Items)
  /\ {oldForms, checked} \subseteq BOOLEAN
  /\ \A f \in forms : FormOK(f)
  /\ posted # None => /\ posted.button \in Buttons
                      /\ posted.fields \in Seq(Items)
                      /\ posted.item \in Nat
                      /\ posted.count \in Nat
  /\ sent # None => sent \in Seq(Items)

\* However often a button is clicked and however old its form, the number of
\* items stays between the component's minimum and maximum.
CountWithinBounds ==
  count # None => /\ count >= Minimum
                  /\ Maximum # 0 => count <= Maximum

\* A browser that posts only the form it showed last gets what it asked for: all
\* that was typed is kept, without the item removed or with an empty item added.
FormIsObeyed ==
  ~oldForms /\ posted # None /\ count # None =>
    Rows(input, count) =
      CASE posted.button = "remove" ->
             SubSeq(posted.fields, 1, posted.item - 1)
               \o SubSeq(posted.fields, posted.item + 1, Len(posted.fields))
        [] posted.button = "add" -> Append(posted.fields, Empty)
        [] OTHER -> posted.fields

\* For such a browser no answer is stored beyond the items that are shown.
\* Submission sends the whole array, so such an answer would be sent without having
\* been shown.
NothingHidden ==
  ~oldForms => \A i \in DOMAIN input : input[i] # Empty => count # None /\ i <= count

\* What such a browser submits is what the summary page showed.
SentAsShown ==
  ~oldForms /\ sent # None =>
    \A i \in DOMAIN sent \cup DOMAIN posted.fields : Item(sent, i) = Item(posted.fields, i)

\* After a post of the page that goes on, the text that quotes the answers (the
\* display scope) agrees with them.
DisplayAgrees ==
  posted # None /\ posted.button = "main" /\ count # None =>
    \A i \in 1..count : Item(display, i) = Item(input, i)
=============================================================================
