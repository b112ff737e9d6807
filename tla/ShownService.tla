---------------------------- MODULE ShownService ----------------------------
(***************************************************************************)
(* What the users of an edited service are shown.                          *)
(***************************************************************************)
EXTENDS ServiceFiles, Conditions

CONSTANT Answers \* the data of users to evaluate conditions with

\* The conditions of the instances in the files: a load puts up to two groups around them.
Filed == Nested[Nesting - 2]

ASSUME ConditionsAssumption ==
  /\ Nesting >= 2
  /\ Conds \subseteq Filed
  /\ \A service \in Services : \A source \in {1, 2, 3} : \A id \in DOMAIN service[source] :
       LET page == service[source][id]
       IN  {page.show, page.showSteps} \subseteq Filed /\ page.parts \in Seq(Filed) \cup {None}

-----------------------------------------------------------------------------

\* The pages that the condition of a page depends on: its parent and its mount point.
Uppers(pages, id) == {Parent(pages, id), pages[id].mount} \ {None}

\* No page is both a step and mounted.  Where one is, the order of the files says whether a
\* page has been given its condition before it gives it to its steps (Walk).
Treelike(pages) == \A id \in DOMAIN pages : Parent(pages, id) = None \/ pages[id].mount = None

\* The conditions of a page that are joined with others.
Joined(page) ==
  {page.show, page.showSteps} \cup
    IF page.parts # None /\ Len(page.parts) = 1 THEN ToSet(page.parts) ELSE {}

\* A negated group of kind all is not negated any more when it is joined with others, a
\* component that is never shown counts as one without a condition, and a page that is
\* never shown, or whose steps are not, does not tell its steps.
Misread(page) ==
  \/ Never \in {page.show, page.showSteps}
  \/ \E cond \in Joined(page) \ {Always, Never} : cond.kind = "all" /\ cond.negated
  \/ page.parts # None /\ Never \in ToSet(page.parts)

BelowMisread(pages) ==
  LET below[id \in DOMAIN pages] == Misread(pages[id]) \/ \E p \in Uppers(pages, id) : below[p]
  IN  below

\* "A page will be skipped [when] the page has a show property that evaluates to
\* false; all top-level components on the page have show properties and they all
\* evaluate to false; the page's parent page has a show property that evaluates to
\* false; the page's parent page has a stepShow property that evaluates to false":
\* for every answer, the condition that the load has given a page says just this.
Met(cond, answers) == Documented(cond, [input |-> answers], "input")

Skipped(pages, answers) ==
  LET skipped[id \in DOMAIN pages] ==
        LET page == pages[id]
            parent == Parent(pages, id)
        IN  \/ ~Met(page.show, answers)
            \/ page.parts # None /\ \A i \in DOMAIN page.parts : ~Met(page.parts[i], answers)
            \/ \E p \in Uppers(pages, id) : skipped[p]
            \/ parent # None /\ ~Met(pages[parent].showSteps, answers)
  IN  skipped

ShownAsDocumented ==
  LET pages == Merge(files)
      show == Shows(pages, Order(files))
      below == BelowMisread(pages)
      Shown(id, answers) == Evaluate(show[id], [input |-> answers], "input")
  IN  AsLoaded /\ Treelike(pages) =>
        \A answers \in Answers :
          LET skipped == Skipped(pages, answers)
          IN  \A id \in DOMAIN pages : below[id] \/ Shown(id, answers) = ~skipped[id]
=============================================================================
