------------------------------ MODULE Journey ------------------------------
(***************************************************************************)
(* A user moving through the pages of a service, in several tabs of one    *)
(* browser: the part of the page handler that decides, for each request,   *)
(* whether the page is shown, where the browser is sent instead, and       *)
(* whether the answers are submitted.  The requests of a session are       *)
(* handled one at a time here (RunnerSession has their interleaving); the  *)
(* tabs interleave between a redirect and the request that follows it.     *)
(***************************************************************************)
EXTENDS PageFlow

CONSTANTS Services, \* a set of services
          Tabs, Values

Answers(s) == [Questions(s) -> Values \cup {Blank}]

ASSUME NamesAssumption ==
  /\ None # NoSuchPage /\ None # Error /\ NoSuchPage # Error
  /\ \A s \in Services : NoSuchPage \notin Pages(s) /\ Error \notin Pages(s)
ASSUME TreeAssumption == \A s \in Services : Tree(s)
ASSUME ForwardAssumption == \A s \in Services : Forward(s)
ASSUME SummaryAssumption == \A s \in Services : SummaryAtTheEnd(s)
ASSUME UnconditionalAssumption == \A s \in Services : Unconditional(s, Answers(s))

VARIABLES
  svc,    \* the service that is running: never changes
  ans,    \* the answers of the session
  fresh,  \* the browser has no session: the next request starts one
  tab,    \* tab[t]: the page that a tab shows, or is asking for
  sent    \* the last step submitted the answers

vars == <<ans, fresh, tab, sent, svc>>

Reading(to) == [loading |-> FALSE, page |-> to.page, change |-> to.change]
Loading(to) == [loading |-> TRUE, page |-> to.page, change |-> to.change]
Place(t) == To(tab[t].page, tab[t].change)
NoAnswers == [p \in Questions(svc) |-> Blank]

\* What follows answers with the place that the browser is sent to, or Nowhere when
\* there is no redirect.

\* mutant: a redirect to the page itself is followed
PreFlightToItself(at) ==
  IF svc.type[at.page] = "summary" /\ Submits(svc, ans, at.page)
  THEN RedirectForNextPage(svc, ans, svc.parent[at.page], at.page)
  ELSE Nowhere

\* SummaryController.preFlight: a page that submits asks where the page above it
\* would lead a user who is changing an answer from here.
PreFlight(at) ==
  LET redirect == RedirectForNextPage(svc, ans, svc.parent[at.page], at.page)
  IN  IF \/ svc.type[at.page] # "summary"
         \/ ~Submits(svc, ans, at.page)
         \/ redirect = To(at.page, None)
      THEN Nowhere
      ELSE redirect

\* skipPage, where the page handler has worked out the next page.
SkipPage(at) ==
  LET next == NextPage(svc, ans, at.page)
  IN  IF Visible(svc, ans, at.page) THEN Nowhere
      ELSE IF next \in {None, NoSuchPage} THEN Failure
      ELSE To(next, None)

\* What the page handler does before it looks at the body: a request without a
\* session goes to the start page, then preFlight, then skipPage, whose redirect
\* replaces that of preFlight.
Gate(at) ==
  IF fresh /\ PreviousPage(svc, ans, at.page) # None THEN To(Root(svc), None)
  ELSE IF PreFlight(at) # Failure /\ SkipPage(at) # Nowhere THEN SkipPage(at)
  ELSE PreFlight(at)

\* The response: the browser follows a redirect, and shows anything else.
Respond(t, to) ==
  tab' = [tab EXCEPT ![t] = IF to = Nowhere THEN Reading(Place(t))
                            ELSE IF to = Failure THEN Reading(Failure)
                            ELSE Loading(to)]

Init ==
  /\ svc \in Services
  /\ ans = NoAnswers
  /\ fresh = TRUE
  /\ tab = [t \in Tabs |-> Reading(Nowhere)]
  /\ sent = FALSE

\* The user follows a link or types an address.  The summary links to the pages of
\* its answers with /change and its own address.
Visit(t, p, change) ==
  /\ ~tab[t].loading
  /\ change # None => svc.type[change] = "summary" /\ svc.type[p] = "page"
  /\ tab' = [tab EXCEPT ![t] = Loading(To(p, change))]
  /\ sent' = FALSE
  /\ UNCHANGED <<svc, ans, fresh>>

\* A GET: the confirmation page clears the session cookie.
Load(t) ==
  /\ tab[t].loading
  /\ \E to \in {Gate(Place(t))} :
       /\ Respond(t, to)
       /\ IF to = Nowhere /\ svc.type[tab[t].page] = "confirmation"
          THEN fresh' = TRUE /\ ans' = NoAnswers
          ELSE fresh' = FALSE /\ UNCHANGED ans
  /\ sent' = FALSE
  /\ UNCHANGED svc

\* A POST that does not get past the gate: the body is dropped.
Turned(t) ==
  /\ ~tab[t].loading
  /\ tab[t].page \in Pages(svc)
  /\ svc.type[tab[t].page] \in {"page", "summary"}
  /\ Gate(Place(t)) # Nowhere
  /\ Respond(t, Gate(Place(t)))
  /\ fresh' = FALSE
  /\ sent' = FALSE
  /\ UNCHANGED <<svc, ans>>

\* mutant: a post is taken without another look
PassesUngated(t, type) ==
  ~tab[t].loading /\ tab[t].page \in Pages(svc) /\ svc.type[tab[t].page] = type

\* A POST that does.
Passes(t, type) ==
  /\ ~tab[t].loading
  /\ tab[t].page \in Pages(svc)
  /\ svc.type[tab[t].page] = type
  /\ Gate(Place(t)) = Nowhere

\* A POST of a question: the answer is saved whether or not it is valid, and a
\* valid one leads on.
Post(t, v) ==
  LET p == tab[t].page
  IN  /\ Passes(t, "page")
      /\ ans' = [ans EXCEPT ![p] = v]
      /\ Respond(t, IF ValidPage(svc, ans', p)
                    THEN RedirectForNextPage(svc, ans', p, tab[t].change)
                    ELSE Nowhere)
      /\ fresh' = FALSE
      /\ sent' = FALSE
      /\ UNCHANGED svc

\* A POST of the summary: submits the answers and leads on.
Submit(t) ==
  /\ Passes(t, "summary")
  /\ sent' = Submits(svc, ans, tab[t].page)
  /\ Respond(t, RedirectForNextPage(svc, ans, tab[t].page, tab[t].change))
  /\ fresh' = FALSE
  /\ UNCHANGED <<svc, ans>>

Next ==
  \E t \in Tabs :
    \/ \E p \in Pages(svc) : \E change \in {None} \cup Pages(svc) : Visit(t, p, change)
    \/ Load(t)
    \/ Turned(t)
    \/ \E v \in Values \cup {Blank} : Post(t, v)
    \/ Submit(t)

Spec == Init /\ [][Next]_vars

\* The browser follows the redirects it is sent.
FairSpec == Spec /\ \A t \in Tabs : WF_vars(Load(t))

-----------------------------------------------------------------------------
(* Properties *)

\* No page names its next page: the steps alone make the flow.
Plain(s) == \A p \in Pages(s) : ~s.next[p].string /\ s.next[p].entries = <<>>

\* getNextPage and getPreviousPage against the documented flow: whatever the answers,
\* without nextPage properties each page of the flow leads to the one after it, and
\* the last one to none; the back link of a page leads to the page before it, and a
\* page that is out of the flow has none.
NeighboursAreFlow ==
  LET flow == Flow(svc, ans)
  IN  /\ Plain(svc) => \A p \in flow :
           NextPage(svc, ans, p) = First(svc, {q \in flow : Before(svc, p, q)})
      /\ \A p \in Pages(svc) :
           PreviousPage(svc, ans, p) =
             IF p \in flow THEN Last(svc, {q \in flow : Before(svc, q, p)}) ELSE None

\* Answers are only ever submitted when every page of the flow that they determine
\* has a valid one: whatever was answered before a change brought further pages
\* in, in whatever tab, and however the user came to the summary.
SubmittedComplete == [][sent' /\ Plain(svc) => Complete(svc, ans)]_vars

\* The other way round: once every page of the flow is answered, the summary opens
\* and does not send the user anywhere else.
CompleteOpens ==
  \A p \in Pages(svc) :
    svc.type[p] = "summary" /\ Plain(svc) /\ Complete(svc, ans) => PreFlight(To(p, None)) = Nowhere

\* The pages of the flow after p without a valid answer that come before the page to
\* return to, if that is in the flow.
GapsAfter(as, p, change) ==
  {q \in Flow(svc, as) :
     /\ ~ValidPage(svc, as, q)
     /\ Before(svc, p, q)
     /\ change \in Flow(svc, as) => Before(svc, q, change)}

\* A user who changes an answer from the summary and by it opens further questions
\* is led to the first of them without an answer, still on the way back to the
\* summary; with none left, to the summary or to the page that follows.
ChangeFindsGap ==
  [][\A t \in Tabs :
       LET p == tab[t].page
           change == tab[t].change
           gaps == GapsAfter(ans', p, change)
       IN  (/\ ~tab[t].loading /\ tab'[t].loading
            /\ Plain(svc) /\ change # None /\ ans' # ans
            /\ p \in Questions(svc) \cap Flow(svc, ans'))
             => IF gaps # {}
                THEN tab'[t] = Loading(To(First(svc, gaps), change))
                ELSE tab'[t].page \in {change, NextPage(svc, ans', p)}]_vars

\* A browser that follows redirects arrives at a page: the gate, the hidden pages
\* and the summary never send it round in a circle, unless another tab changes
\* the answers again and again.
RedirectsEnd == \A t \in Tabs : []<>(~tab[t].loading) \/ []<><<ans' # ans>>_ans

\* "A page will be skipped [when] the page's parent page has a show property that
\* evaluates to false": a page that is shown is part of the flow, although the gate
\* looks at the condition of the page alone.
ShownInFlow ==
  [][\A t \in Tabs :
       tab[t].loading /\ ~tab'[t].loading /\ tab'[t].page # Error
         => tab'[t].page \in Flow(svc, ans)]_vars

-----------------------------------------------------------------------------
(* What the documentation says of the flow, and the code does not do. *)

\* "This example will always redirect to pageA"; "provides a fallback to redirect to
\* pageB since the condition always evaluates to true": a valid answer to a page
\* whose nextPage names a page leads to that page.
ExplicitNextObeyed ==
  [][\A t \in Tabs :
       LET p == tab[t].page
       IN  (/\ ~tab[t].loading /\ p \in Questions(svc) /\ tab[t].change = None
            /\ NamedNext(svc, ans', p) # None
            /\ ans'[p] \notin {ans[p], Blank})
             => tab'[t].page = NamedNext(svc, ans', p)]_vars
=============================================================================
