-------------------------- MODULE MCServiceFiles --------------------------
(* A start page with two steps, one of which may be repeatable, an          *)
(* extension of a page of the app, or mounted on the other, a page of a     *)
(* module that is mounted on the service, and a page to create.             *)
EXTENDS ShownService, TLC

CONSTANTS start, a, b, c, base, extra, yes, no

Is(q) == Expression("is", q, yes)
Leads(page, steps) == [page EXCEPT !.steps = steps]
NotBoth == Not(Group("all", <<Is(a), Is(b)>>))
Showing(page, cond) == [page EXCEPT !.show = cond]

StartPage == Leads([Page EXCEPT !.type = "start"], <<a, b>>)

\* A page with components, in a section with a condition that is a group, beside a
\* step that extends a page of the app and is a page of the app as well.
Sections ==
  {<<base :> Showing(Page, Is(a)) @@ b :> Page,
     start :> Showing(StartPage, Group("any", <<Is(a), Is(b)>>))
       @@ a :> [Page EXCEPT !.parts = <<Is(a), Is(b)>>, !.show = Not(Is(a))]
       @@ b :> [Page EXCEPT !.isa = base, !.showSteps = Is(b)],
     <<>>>>}

\* A step that is repeatable, and a page of a module that is mounted.
Repeatables ==
  {<<<<>>,
     start :> [StartPage EXCEPT !.namespace = 9] @@ a :> [Page EXCEPT !.repeatable = TRUE, !.namespace = 1, !.show = NotBoth] @@ b :> Page,
     extra :> [Page EXCEPT !.mount = start]>>}

\* A step that is mounted on the step after it, which is visited before its parent has
\* given it a condition, and which takes no namespaces from above.
Mounted ==
  {<<<<>>,
     start :> Showing([StartPage EXCEPT !.namespace = 9], Is(a)) @@ a :> [Page EXCEPT !.mount = b]
       @@ b :> [Leads(Page, <<extra>>) EXCEPT !.namespaceProtect = TRUE, !.namespace = 1] @@ extra :> Page,
     <<>>>>}

SomeServices == Sections \cup Repeatables \cup Mounted
SomeOrder == <<a, b, base, c, extra, start>>
SomeConds == {Group("all", <<Not(Is(a)), Group("exactly", <<Is(a), Is(b)>>)>>)}
SimpleConds == {Always, Never} \cup {Is(q) : q \in {a, b}} \cup {Not(Is(q)) : q \in {a, b}}
SomeAnswers == [{a, b} -> {yes, no}] \cup {[q \in {} |-> no]}
=============================================================================
