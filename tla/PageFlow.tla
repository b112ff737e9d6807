------------------------------ MODULE PageFlow ------------------------------
(***************************************************************************)
(* The order of the pages of a service, as route/route.js computes it for  *)
(* one state of the user's answers: the page after a page, the page before *)
(* it, and the first page on the way to another that is not valid.         *)
(*                                                                         *)
(* A service is a record of functions over its pages: parent, steps, type, *)
(* show and next.  A condition is Always, or the set of the answers for      *)
(* which it holds, as Conditions evaluates it; show has what Definition      *)
(* makes of the conditions of a service.  Every page of type "page" asks     *)
(* one required question.  Repeatable pages and upload pages are left out.  *)
(* For the properties alone, a service numbers its pages in the order of   *)
(* the steps: from has the place of a page, to the place after the last     *)
(* page under it.                                                          *)
(***************************************************************************)
EXTENDS Naturals, Sequences

CONSTANTS None,    \* no page
          Blank,   \* no answer
          Always,  \* the condition of a page that has none
          NoSuchPage, \* an id that belongs to no page
          Error    \* an exception in place of a page

Pages(svc) == DOMAIN svc.steps
Questions(svc) == {p \in Pages(svc) : svc.type[p] = "page"}
Places(svc) == Pages(svc) \cup {None, NoSuchPage}
Root(svc) == CHOOSE p \in Pages(svc) : svc.parent[p] = None

Holds(ans, cond) == cond = Always \/ ans \in cond

\* checkPageVisibility
Visible(svc, ans, p) ==
  svc.type[p] = "confirmation" \/ Holds(ans, svc.show[p])

\* validateInput: the only control of the page is required.
ValidPage(svc, ans, p) == svc.type[p] = "page" => ans[p] # Blank

\* The place of p among the steps of the page above it.
Index(svc, p) ==
  CHOOSE i \in DOMAIN svc.steps[svc.parent[p]] : svc.steps[svc.parent[p]][i] = p

\* checkNextInputPage: the step after p, or after the nearest page above it that
\* has one.
NextInputPage(svc, page) ==
  LET after[p \in Pages(svc)] ==
        IF svc.parent[p] = None THEN None
        ELSE LET steps == svc.steps[svc.parent[p]]
                 i == Index(svc, p)
             IN  IF i < Len(steps) THEN steps[i + 1] ELSE after[svc.parent[p]]
  IN  after[page]

\* The first step of p that is visible.
FirstStep(svc, ans, p) ==
  LET shown == {i \in DOMAIN svc.steps[p] : Visible(svc, ans, svc.steps[p][i])}
  IN  IF shown = {} THEN None
      ELSE svc.steps[p][CHOOSE i \in shown : \A j \in shown : i <= j]

\* getNextPage with recurse: nextPage properties are ignored.  A page that is not
\* visible is passed over with its steps.
NextInTree(svc, ans, page) ==
  LET next[p \in Pages(svc)] ==
        IF Visible(svc, ans, p) /\ FirstStep(svc, ans, p) # None
        THEN FirstStep(svc, ans, p)
        ELSE LET q == NextInputPage(svc, p) IN
             IF q = None \/ Visible(svc, ans, q) THEN q ELSE next[q]
  IN  next[page]

\* The page that the nextPage property of p names: the first entry that is a page id
\* (a condition of None) or whose condition holds.  An entry whose condition is true
\* is passed over.  A nextPage that is a string is indexed like an array, and its
\* first letter is taken for the page.
ExplicitNext(svc, ans, p) ==
  LET entries == svc.next[p].entries
      taken == {i \in DOMAIN entries :
                  \/ entries[i].cond = None
                  \/ entries[i].cond # Always /\ Holds(ans, entries[i].cond)}
  IN  IF svc.next[p].string THEN NoSuchPage
      ELSE IF taken = {} THEN None
      ELSE entries[CHOOSE i \in taken : \A j \in taken : i <= j].page

\* getNextPage
NextPage(svc, ans, p) ==
  IF Visible(svc, ans, p) /\ ExplicitNext(svc, ans, p) # None
  THEN ExplicitNext(svc, ans, p)
  ELSE NextInTree(svc, ans, p)

\* mutant: the step before p, or the page above it, with neither conditions nor
\* the steps of the step before
PreviousStep(svc, ans, page) ==
  IF page = Root(svc) THEN None
  ELSE LET i == Index(svc, page)
       IN  IF i = 1 THEN svc.parent[page] ELSE svc.steps[svc.parent[page]][i - 1]

\* getPreviousPage: rewinds to the root and walks until the next page is this one.
PreviousPage(svc, ans, page) ==
  LET walk[p \in Pages(svc)] ==
        LET q == NextInTree(svc, ans, p) IN
        IF q = page THEN p ELSE IF q = None THEN None ELSE walk[q]
  IN  IF page = Root(svc) THEN None ELSE walk[Root(svc)]

\* mutant: the walk does not stop at the page to return to
CheckNextPageToTheEnd(svc, ans, change, page) ==
  LET arrive[q \in Places(svc)] ==
        IF q \notin Pages(svc) \/ ~Visible(svc, ans, q) THEN Error
        ELSE IF ~ValidPage(svc, ans, q) THEN q
        ELSE arrive[NextPage(svc, ans, q)]
  IN  arrive[NextPage(svc, ans, page)]

\* checkNextPage: walks from a page to the page that the user came to change an
\* answer from, and stops at the first page that is not valid.  Walking off the
\* end, to no page, or onto a page that is not visible (skipPage) throws.
CheckNextPage(svc, ans, change, page) ==
  LET arrive[q \in Places(svc)] ==
        IF q \notin Pages(svc) \/ ~Visible(svc, ans, q) THEN Error
        ELSE IF ~ValidPage(svc, ans, q) \/ q = change THEN q
        ELSE arrive[NextPage(svc, ans, q)]
  IN  IF page = change THEN page ELSE arrive[NextPage(svc, ans, page)]

To(page, change) == [page |-> page, change |-> change]
Nowhere == To(None, None)
Failure == To(Error, None)

\* Where a valid page leads that the user need not stop before.
Onward(svc, ans, next, change) ==
  IF next = None THEN Failure
  ELSE IF next \in Pages(svc) /\ svc.show[next] # Always /\ Holds(ans, svc.show[next])
       THEN To(next, None)
  ELSE IF change # None THEN To(change, None)
  ELSE IF next = NoSuchPage THEN Nowhere
  ELSE To(next, None)

\* mutant: the page to return to is dropped
RedirectLosesChange(svc, ans, page, change) ==
  LET checked == IF change = None THEN None ELSE CheckNextPage(svc, ans, change, page)
  IN  IF checked = change THEN Onward(svc, ans, NextPage(svc, ans, page), change)
      ELSE To(checked, None)

\* getRedirectForNextPage for a valid page: where to go, and whether the user is
\* still changing an answer.
RedirectForNextPage(svc, ans, page, change) ==
  LET checked == IF change = None THEN None ELSE CheckNextPage(svc, ans, change, page)
  IN  IF checked = change THEN Onward(svc, ans, NextPage(svc, ans, page), change)
      ELSE To(checked, IF checked = Error THEN None ELSE change)

\* checkSubmits
Submits(svc, ans, p) ==
  LET next == NextPage(svc, ans, p)
  IN  next \notin {None, NoSuchPage} /\ svc.type[next] = "confirmation"

-----------------------------------------------------------------------------
(* What the documentation promises of the flow (service-data/specification, *)
(* overview/flow): the pages from the entry point through its steps and     *)
(* theirs, without those that are skipped.                                  *)

Above(svc, p) ==
  LET above[q \in Pages(svc)] ==
        IF svc.parent[q] = None THEN {q} ELSE {q} \cup above[svc.parent[q]]
  IN  above[p]

InFlow(svc, ans, p) == \A q \in Above(svc, p) : Visible(svc, ans, q)

\* The pages that are not skipped.
Flow(svc, ans) == {p \in Pages(svc) : InFlow(svc, ans, p)}

\* In the order of the steps, each page before its own steps.
Before(svc, p, q) == svc.from[p] < svc.from[q]

First(svc, pages) ==
  IF pages = {} THEN None ELSE CHOOSE p \in pages : \A q \in pages \ {p} : Before(svc, p, q)

Last(svc, pages) ==
  IF pages = {} THEN None ELSE CHOOSE p \in pages : \A q \in pages \ {p} : Before(svc, q, p)

\* "Explicit nextPage": a page id, or the first entry whose condition holds.
NamedNext(svc, ans, p) ==
  LET entries == svc.next[p].entries
      named == {i \in DOMAIN entries : entries[i].cond = None \/ Holds(ans, entries[i].cond)}
  IN  IF named = {} THEN None ELSE entries[CHOOSE i \in named : \A j \in named : i <= j].page

Complete(svc, ans) == \A p \in Flow(svc, ans) : ValidPage(svc, ans, p)

-----------------------------------------------------------------------------
(* What is assumed of a service. *)

\* The pages are a tree: one root, and every other page is one step of one page.
\* The pages under a page follow it without a gap, each step with its own pages.
Tree(svc) ==
  LET from == svc.from
      to == svc.to
  IN  /\ None \notin Pages(svc)
      /\ svc.parent \in [Pages(svc) -> Pages(svc) \cup {None}]
      /\ svc.steps \in [Pages(svc) -> Seq(Pages(svc))]
      /\ \E p \in Pages(svc) : svc.parent[p] = None
      /\ \A p, q \in Pages(svc) : svc.parent[p] = None /\ svc.parent[q] = None => p = q
      /\ \A p \in Pages(svc) :
           svc.parent[p] # None =>
             \E i \in DOMAIN svc.steps[svc.parent[p]] : svc.steps[svc.parent[p]][i] = p
      /\ from \in [Pages(svc) -> Nat]
      /\ to \in [Pages(svc) -> Nat]
      /\ \A p, q \in Pages(svc) : p # q => from[p] # from[q]
      /\ \A p \in Pages(svc) :
           LET steps == svc.steps[p] IN
           /\ from[p] < to[p]
           /\ steps = <<>> => to[p] = from[p] + 1
           /\ steps # <<>> => from[steps[1]] = from[p] + 1 /\ to[steps[Len(steps)]] = to[p]
           /\ \A i \in DOMAIN steps : svc.parent[steps[i]] = p
           /\ \A i, j \in DOMAIN steps : j = i + 1 => from[steps[j]] = to[steps[i]]

\* A nextPage property leads to a later page: one that leads back would make the
\* walk of checkNextPage endless.
Forward(svc) ==
  \A p \in Pages(svc) :
    LET entries == svc.next[p].entries IN
    /\ DOMAIN entries \subseteq Nat
    /\ \A i \in DOMAIN entries : entries[i].page \in Pages(svc) /\ Before(svc, p, entries[i].page)

Summaries(svc) == {p \in Pages(svc) : svc.type[p] = "summary"}

\* A summary is a step of the start page, and comes after the questions.
SummaryAtTheEnd(svc) ==
  /\ Root(svc) \notin Questions(svc)
  /\ \A p \in Summaries(svc) :
       svc.parent[p] = Root(svc) /\ \A q \in Questions(svc) : Before(svc, q, p)

\* The summary is shown for all answers, and the first page after the start page has
\* no condition: one that has is taken for an exit page by Onward.
Unconditional(svc, answers) ==
  /\ \A p \in Summaries(svc) \cup {Root(svc)}, ans \in answers : Visible(svc, ans, p)
  /\ svc.steps[Root(svc)] # <<>> => svc.show[svc.steps[Root(svc)][1]] = Always
=============================================================================
