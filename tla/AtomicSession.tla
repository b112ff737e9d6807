---------------------------- MODULE AtomicSession ----------------------------
(***************************************************************************)
(* What a user is promised: every stored document changes by one edit at a *)
(* time, and an edit leaves everything it is not about as it was.          *)
(* RunnerSession implements this when its browser is patient.              *)
(***************************************************************************)
EXTENDS Naturals

CONSTANTS Requests, Users, Pages, None, EmptyDoc

VARIABLES
  store,   \* the document of every user
  shown    \* the flash messages each response displayed

Init ==
  /\ store = [u \in Users |-> EmptyDoc]
  /\ shown = [r \in Requests |-> {}]

Edit(u, d) == store' = [store EXCEPT ![u] = d] /\ UNCHANGED shown

\* the document of a new session starts empty
Create(u) ==
  /\ store[u] = EmptyDoc
  /\ Edit(u, [EmptyDoc EXCEPT !.created = TRUE])

\* an answer replaces an older answer to the same page
Answer(u) == \E p \in Pages, r \in Requests :
  /\ store[u].answers[p] < r
  /\ Edit(u, [store[u] EXCEPT !.answers[p] = r])

Notify(u) == \E r \in Requests :
  Edit(u, [store[u] EXCEPT !.flash = @ \cup {r}])

Visit(u) == \E p \in Pages :
  Edit(u, [store[u] EXCEPT !.visited = @ \cup {p}])

\* flash messages go once a response has displayed them
Clear(u) ==
  /\ \A m \in store[u].flash : \E r \in Requests : m \in shown[r]
  /\ Edit(u, [store[u] EXCEPT !.flash = {}])

\* a response shows every message of the document it was made from; the visit
\* it records may be stored by the same step
Show(u) == \E r \in Requests :
  /\ shown[r] = {}
  /\ shown' = [shown EXCEPT ![r] = store[u].flash]
  /\ \/ UNCHANGED store
     \/ \E p \in Pages : store' = [store EXCEPT ![u].visited = @ \cup {p}]

Next == \E u \in Users : \/ Create(u) \/ Answer(u) \/ Notify(u)
                         \/ Visit(u) \/ Clear(u) \/ Show(u)

Spec == Init /\ [][Next]_<<store, shown>>
=============================================================================
