----------------------------- MODULE MCJourney -----------------------------
(* Services of six pages: a start page, the questions a, b and c, a summary *)
(* and a confirmation page, with every way to show b and c.                *)
EXTENDS Journey, TLC

CONSTANTS start, a, b, c, sum, conf, yes, no, Never

Def == INSTANCE Definition WITH Undefined <- Blank, FileOrder <- <<start, a, b, c, sum, conf>>

Is(q) == Def!Expression("is", q, yes)

Cond == INSTANCE Conditions
          WITH Undefined <- Blank, Nesting <- 1,
               Simple <- {Always, Never} \cup {Is(q) : q \in {a, b}} \cup {Def!Not(Is(q)) : q \in {a, b}}

\* The answers for which a condition holds: an answer is looked at even when its
\* page is no longer part of the journey.
Meaning(cond) ==
  IF cond \in {Always, None} THEN cond
  ELSE {as \in [{a, b, c} -> Values \cup {Blank}] : Cond!Evaluate(cond, [input |-> as], "input")}

AllPages == {start, a, b, c, sum, conf}

\* The steps of the pages that have some.
Shapes ==
  [flat |-> start :> <<a, b, c, sum, conf>>,
   section |-> start :> <<a, b, sum, conf>> @@ b :> <<c>>,
   nested |-> start :> <<a, sum>> @@ a :> <<b>> @@ b :> <<c>> @@ sum :> <<conf>>]

Type(p) ==
  CASE p = start -> "start" [] p = sum -> "summary" [] p = conf -> "confirmation" [] OTHER -> "page"

NoJump == [string |-> FALSE, entries |-> <<>>]

\* Services are told apart by.
Named(shapes, showsB, showsC, nextsA) ==
  [shape : shapes, showB : showsB, showC : showsC, nextA : nextsA]

\* The place of a page in the order of the steps, or with "to" the place after the
\* pages under it.
Order(parent, steps) ==
  LET place[x \in AllPages \X {"from", "to"}] ==
        LET p == x[1]
            above == parent[p]
            i == CHOOSE j \in DOMAIN steps[above] : steps[above][j] = p
        IN  IF x[2] = "to"
            THEN IF steps[p] = <<>> THEN place[<<p, "from">>] + 1
                 ELSE place[<<steps[p][Len(steps[p])], "to">>]
            ELSE IF above = None THEN 0
            ELSE IF i = 1 THEN place[<<above, "from">>] + 1
            ELSE place[<<steps[above][i - 1], "to">>]
  IN  place

\* A service as the runner loads it.
Service(n) ==
  LET steps == Shapes[n.shape]
      pages == [p \in AllPages |->
                  [Def!Page EXCEPT !.type = Type(p),
                                   !.steps = IF p \in DOMAIN steps THEN steps[p] ELSE <<>>,
                                   !.show = CASE p = b -> n.showB [] p = c -> n.showC [] OTHER -> Always]]
      data == Def!RuntimeData(<<pages>>, {})
      place == Order(data.parent, data.steps)
  IN  [parent |-> data.parent, steps |-> data.steps, type |-> data.type, show |-> [p \in AllPages |-> Meaning(data.show[p])],
       from |-> [p \in AllPages |-> place[<<p, "from">>]],
       to |-> [p \in AllPages |-> place[<<p, "to">>]],
       next |-> [p \in AllPages |-> IF p = a THEN n.nextA ELSE NoJump]]

ConditionalNames ==
  Named(DOMAIN Shapes, {Is(a)}, {Always, Def!Not(Is(b))}, {NoJump})
    \cup Named(DOMAIN Shapes, {Always}, {Def!Not(Is(b))}, {NoJump})

\* Page a leads straight to c, which may be hidden.
Jump(entries) == [string |-> FALSE, entries |-> entries]
If(cond, p) == [page |-> p, cond |-> Meaning(cond)]

JumpingNames ==
  Named({"flat"}, {Always}, {Is(b), Def!Not(Is(a))}, {Jump(<<If(Is(a), c)>>)})

\* With and without nextPage properties.
Varied == {Service(n) : n \in ConditionalNames \cup JumpingNames}

\* Page a has the id of c as its nextPage, or b for an answer and c as the fallback.
Documented ==
  {Service(n) : n \in
     Named({"flat"}, {Always}, {Always},
           {[string |-> TRUE, entries |-> <<If(None, c)>>],
            Jump(<<If(Is(a), b), If(Always, c)>>)})}
=============================================================================
