------------------------- MODULE RunnerSessionProofs -------------------------
(***************************************************************************)
(* Theorems of RunnerSession for every number of requests and every set of *)
(* pages.                                                                  *)
(***************************************************************************)
EXTENDS RunnerSession, TLAPS

(***************************************************************************)
(* Type correctness needs to know when a request has a user id.            *)
(***************************************************************************)
Numbered ==
  /\ \A r \in Requests : pc[r] = "unsent" <=> r > sent
  /\ \A r \in Requests : pc[r] # "unsent" => uid[r] \in Users
  /\ \A r \in putting : pc[r] \notin {"unsent", "loading"}
  /\ \A r \in Requests : reply[r] # "none" => pc[r] # "unsent"

TypeInv == TypeOK /\ Numbered

\* The operations on a document yield a document.
LEMMA DocumentOps ==
  ASSUME NEW d \in Document, NEW r \in Requests
  PROVE  /\ \A p \in Pages : Answered(d, p, r) \in Document
         /\ Notified(d, r) \in Document
         /\ FlashCleared(d) \in Document
         /\ \A p \in Pages : Visited(d, p) \in Document
  BY DEF Document, Answered, Notified, FlashCleared, Visited

LEMMA EmptyDocs == EmptyDoc \in Document /\ NewDoc \in Document
  BY DEF Document, EmptyDoc, NewDoc

\* A request that reads or answers a page names one.
LEMMA OpPages ==
  ASSUME NEW o \in Ops
  PROVE  o.kind \in {"view", "confirm", "answer"} => o.page \in Pages
  BY DEF Ops

LEMMA ResetIsOp == ResetOp \in Ops
  BY DEF ResetOp, Ops

LEMMA RequestsAreNumbers ==
  /\ Requests \subseteq Nat
  /\ \A r \in Requests : 0 < r /\ r <= MaxRequests /\ r # None
  /\ Users = Requests
  BY MaxRequestsAssumption DEF Requests, Users, None

LEMMA InitType == Init => TypeInv
<1> SUFFICES ASSUME Init PROVE TypeInv
  OBVIOUS
<1>1. EmptyDoc \in Document
  BY DEF EmptyDoc, Document
<1>2. [ResetOp EXCEPT !.kind = "start"] \in Ops
  BY DEF Ops, ResetOp
<1>3. TypeOK
  BY <1>1, <1>2, MaxRequestsAssumption DEF Init, TypeOK, Users, Requests
<1>4. Numbered
  BY RequestsAreNumbers DEF Init, Numbered
<1> QED BY <1>3, <1>4 DEF TypeInv

\* The browser's steps.
LEMMA ArriveType ==
  ASSUME TypeInv, NEW r \in Requests, NEW o \in Ops, NEW c \in {cookie, None},
         NEW c2 \in Users \cup {None},
         NEW p \in {"loading", "done"}, NEW how \in {"none", "skipped"},
         Arrive(r, o, c),
         pc' = [pc EXCEPT ![r] = p],
         reply' = [reply EXCEPT ![r] = how],
         cookie' = c2
  PROVE  TypeInv'
<1> USE RequestsAreNumbers
<1>1. TypeOK'
  BY DEF TypeInv, TypeOK, Arrive, history, None
<1>2. Numbered'
  BY DEF TypeInv, TypeOK, Numbered, Arrive, history, None
<1> QED BY <1>1, <1>2 DEF TypeInv

\* The server's steps and the failures: one request r moves on.
LEMMA ServerType ==
  ASSUME TypeInv, NEW r \in Requests, Server(r)
  PROVE  TypeInv'
<1> USE RequestsAreNumbers DEF TypeInv, None
<1> DEFINE Active == pc[r] \notin {"unsent", "done"} /\ uid[r] \in Users
<1> USE DEF history
<1>1. CASE Load(r)
  <2>1. Active BY <1>1 DEF Load, Numbered
  <2>2. NewDoc \in Document /\ store[uid[r]] \in Document
    BY <2>1, EmptyDocs DEF TypeOK
  <2>3. CASE fresh[r]
    <3>1. Wait(r, NewDoc, "creating")
      BY <1>1, <2>3 DEF Load
    <3>2. TypeOK' BY <1>1, <2>1, <2>2, <3>1 DEF Load, Wait, TypeOK
    <3>3. Numbered' BY <1>1, <2>1, <3>1 DEF Load, Wait, TypeOK, Numbered
    <3> QED BY <3>2, <3>3
  <2>4. CASE ~fresh[r]
    <3>1. /\ doc' = [doc EXCEPT ![r] = store[uid[r]]]
          /\ pc' = [pc EXCEPT ![r] = "handling"]
          /\ UNCHANGED putting
      BY <1>1, <2>4 DEF Load, Loads
    <3>2. TypeOK' BY <1>1, <2>1, <2>2, <3>1 DEF Load, TypeOK
    <3>3. Numbered' BY <1>1, <2>1, <3>1 DEF Load, TypeOK, Numbered
    <3> QED BY <3>2, <3>3
  <2> QED BY <2>3, <2>4
<1>2. CASE Csrf(r)
  <2>1. Active BY <1>2 DEF Csrf, Numbered
  <2>2. TypeOK' BY <1>2, <2>1 DEF Csrf, Finish, Respond, CookieAfter, TypeOK
  <2>3. Numbered' BY <1>2, <2>1 DEF Csrf, Finish, Respond, TypeOK, Numbered
  <2> QED BY <2>2, <2>3
<1>3. CASE Skip(r)
  <2>1. Active BY <1>3 DEF Skip, Numbered
  <2>2. TypeOK' BY <1>3, <2>1 DEF Skip, Finish, Respond, CookieAfter, TypeOK
  <2>3. Numbered' BY <1>3, <2>1 DEF Skip, Finish, Respond, TypeOK, Numbered
  <2> QED BY <2>2, <2>3
<1>4. CASE ShowStart(r)
  <2>1. Active BY <1>4 DEF ShowStart, Numbered
  <2>2. FlashCleared(doc[r]) \in Document /\ doc[r].flash \in SUBSET Requests
    BY DocumentOps DEF TypeOK, Document
  <2>3. TypeOK'
    BY <1>4, <2>1, <2>2 DEF ShowStart, Render, Respond, Wait, CookieAfter, TypeOK
  <2>4. Numbered'
    BY <1>4, <2>1 DEF ShowStart, Render, Respond, Wait, TypeOK, Numbered
  <2> QED BY <2>3, <2>4
<1>5. CASE View(r)
  <2>1. Active BY <1>5 DEF View, Numbered
  <2>2. Visited(doc[r], op[r].page) \in Document
    BY <1>5, DocumentOps, OpPages DEF View, TypeOK
  <2>3. TypeOK' BY <1>5, <2>1, <2>2 DEF View, Wait, TypeOK
  <2>4. Numbered' BY <1>5, <2>1 DEF View, Wait, TypeOK, Numbered
  <2> QED BY <2>3, <2>4
<1>6. CASE Post(r)
  <2>1. Active BY <1>6 DEF Post, Numbered
  <2>2. op[r].kind = "answer" => Answered(doc[r], op[r].page, r) \in Document
    BY DocumentOps, OpPages DEF TypeOK
  <2>3. Notified(doc[r], r) \in Document
    BY DocumentOps DEF TypeOK
  <2>4. TypeOK' BY <1>6, <2>1, <2>2, <2>3 DEF Post, Wait, TypeOK
  <2>5. Numbered' BY <1>6, <2>1 DEF Post, Wait, TypeOK, Numbered
  <2> QED BY <2>4, <2>5
<1>7. CASE PutCreated(r)
  <2>1. Active BY <1>7 DEF PutCreated, Numbered
  <2>2. TypeOK' BY <1>7, <2>1 DEF PutCreated, Put, TypeOK
  <2>3. Numbered' BY <1>7, <2>1 DEF PutCreated, Put, TypeOK, Numbered
  <2> QED BY <2>2, <2>3
<1>8. CASE PutRedirects(r)
  <2>1. Active BY <1>8 DEF PutRedirects, Numbered
  <2>2. TypeOK'
    BY <1>8, <2>1 DEF PutRedirects, Put, Finish, Respond, CookieAfter, TypeOK
  <2>3. Numbered'
    BY <1>8, <2>1 DEF PutRedirects, Put, Finish, Respond, TypeOK, Numbered
  <2> QED BY <2>2, <2>3
<1>9. CASE PutInvalid(r)
  <2>1. Active BY <1>9 DEF PutInvalid, Numbered
  <2>2. Visited(doc[r], op[r].page) \in Document
    BY <1>9, DocumentOps, OpPages DEF PutInvalid, TypeOK
  <2>3. TypeOK' BY <1>9, <2>1, <2>2 DEF PutInvalid, Put, Wait, TypeOK
  <2>4. Numbered' BY <1>9, <2>1 DEF PutInvalid, Put, Wait, TypeOK, Numbered
  <2> QED BY <2>3, <2>4
<1>10. CASE PutVisited(r)
  <2>1. Active BY <1>10 DEF PutVisited, Numbered
  <2>2. FlashCleared(doc[r]) \in Document /\ doc[r].flash \in SUBSET Requests
    BY DocumentOps DEF TypeOK, Document
  <2>3. TypeOK'
    BY <1>10, <2>1, <2>2
    DEF PutVisited, Put, Render, Respond, Wait, CookieAfter, TypeOK
  <2>4. Numbered'
    BY <1>10, <2>1 DEF PutVisited, Put, Render, Respond, Wait, TypeOK, Numbered
  <2> QED BY <2>3, <2>4
<1>11. CASE PutCleared(r)
  <2>1. Active BY <1>11 DEF PutCleared, Numbered
  <2>2. TypeOK' BY <1>11, <2>1 DEF PutCleared, Put, TypeOK
  <2>3. Numbered' BY <1>11, <2>1 DEF PutCleared, Put, TypeOK, Numbered
  <2> QED BY <2>2, <2>3
<1> QED
  BY <1>1, <1>2, <1>3, <1>4, <1>5, <1>6, <1>7, <1>8, <1>9, <1>10, <1>11
  DEF Server

LEMMA FailureType ==
  ASSUME TypeInv, NEW r \in Requests,
         Fail(r) \/ Stop(r) \/ OrphanLands(r) \/ OrphanLost(r)
  PROVE  TypeInv'
<1> USE RequestsAreNumbers DEF TypeInv, None, history
<1>0. pc[r] # "unsent" /\ uid[r] \in Users
  BY DEF Fail, Stop, Busy, OrphanLands, OrphanLost, Numbered
<1>1. CASE Fail(r)
  <2>1. TypeOK' BY <1>0, <1>1 DEF Fail, Abandoned, Respond, CookieAfter, TypeOK
  <2>2. Numbered' BY <1>0, <1>1 DEF Fail, Abandoned, Respond, TypeOK, Numbered
  <2> QED BY <2>1, <2>2
<1>2. CASE Stop(r)
  <2>1. TypeOK' BY <1>0, <1>2 DEF Stop, Abandoned, TypeOK
  <2>2. Numbered' BY <1>0, <1>2 DEF Stop, Abandoned, TypeOK, Numbered
  <2> QED BY <2>1, <2>2
<1>3. CASE OrphanLands(r)
  <2>1. TypeOK' BY <1>0, <1>3 DEF OrphanLands, Put, TypeOK
  <2>2. Numbered' BY <1>0, <1>3 DEF OrphanLands, Put, TypeOK, Numbered
  <2> QED BY <2>1, <2>2
<1>4. CASE OrphanLost(r)
  <2>1. TypeOK' BY <1>0, <1>4 DEF OrphanLost, TypeOK
  <2>2. Numbered' BY <1>0, <1>4 DEF OrphanLost, TypeOK, Numbered
  <2> QED BY <2>1, <2>2
<1> QED BY <1>1, <1>2, <1>3, <1>4

LEMMA BrowserType ==
  ASSUME TypeInv, NEW r \in Requests, Send(r) \/ BadCookie(r) \/ Reset(r)
  PROVE  TypeInv'
<1> USE RequestsAreNumbers
<1>0. cookie \in Users \cup {None}
  BY DEF TypeInv, TypeOK
<1>1. CASE Send(r)
  <2>1. PICK o \in Ops, c \in {cookie, None} :
          /\ Arrive(r, o, c)
          /\ pc' = [pc EXCEPT ![r] = "loading"]
          /\ cookie' = c
          /\ UNCHANGED reply
    BY <1>1 DEF Send
  <2>2. r > sent
    BY <2>1 DEF Arrive, TypeInv, TypeOK
  <2>3. reply' = [reply EXCEPT ![r] = "none"]
    BY <2>1, <2>2 DEF TypeInv, TypeOK, Numbered
  <2> QED BY <1>0, <2>1, <2>3, ArriveType
<1>2. CASE BadCookie(r)
  BY <1>0, <1>2, ArriveType, ResetIsOp DEF BadCookie, AnswerAtOnce
<1>3. CASE Reset(r)
  BY <1>0, <1>3, ArriveType, ResetIsOp DEF Reset, AnswerAtOnce
<1> QED BY <1>1, <1>2, <1>3

LEMMA NextType == TypeInv /\ [Next]_vars => TypeInv'
<1> SUFFICES ASSUME TypeInv, [Next]_vars PROVE TypeInv'
  OBVIOUS
<1>1. CASE Next
  BY <1>1, ServerType, FailureType, BrowserType DEF Next
<1>2. CASE UNCHANGED vars
  BY <1>2 DEF vars, TypeInv, TypeOK, Numbered
<1> QED BY <1>1, <1>2

\* Every behaviour of the runner keeps its types, for any number of requests.
THEOREM TypeCorrect == Spec => []TypeOK
<1>1. Spec => []TypeInv
  BY InitType, NextType, PTL DEF Spec
<1> QED BY <1>1, PTL DEF TypeInv

-----------------------------------------------------------------------------
(***************************************************************************)
(* Posts are stored before they are acknowledged.  The invariant follows a *)
(* post from its first PUT on.                                             *)
(***************************************************************************)
PostProgress(r) ==
  /\ pc[r] = "saving" => op[r].kind \in Posts /\ CarriesPost(r)
  /\ pc[r] \in {"visiting", "clearing"} /\ op[r].kind \in Posts => r \in saved
  /\ reply[r] \in {"redirect", "page"} /\ op[r].kind \in Posts => r \in saved

AckInv == \A r \in Requests : PostProgress(r)

\* A step of another request leaves a post where it was.
LEMMA PostProgressFrame ==
  ASSUME NEW r \in Requests, PostProgress(r),
         op'[r] = op[r], pc'[r] = pc[r], reply'[r] = reply[r],
         doc'[r] = doc[r], saved \subseteq saved'
  PROVE  PostProgress(r)'
  BY DEF PostProgress, CarriesPost

\* Every step concerns one request and leaves the others alone.
LEMMA OneRequestMoves ==
  ASSUME TypeInv, Next
  PROVE  /\ saved \subseteq saved'
         /\ \E r \in Requests :
              /\ \/ Send(r) \/ BadCookie(r) \/ Reset(r) \/ Server(r)
                 \/ Fail(r) \/ Stop(r) \/ OrphanLands(r) \/ OrphanLost(r)
              /\ \A q \in Requests \ {r} :
                   /\ op'[q] = op[q] /\ uid'[q] = uid[q] /\ pc'[q] = pc[q]
                   /\ reply'[q] = reply[q] /\ doc'[q] = doc[q]
                   /\ fresh'[q] = fresh[q] /\ shown'[q] = shown[q]
                   /\ q \in putting' <=> q \in putting
<1> USE DEF TypeInv, TypeOK, history
<1>1. PICK r \in Requests :
        \/ Send(r) \/ BadCookie(r) \/ Reset(r) \/ Server(r)
        \/ Fail(r) \/ Stop(r) \/ OrphanLands(r) \/ OrphanLost(r)
  BY DEF Next
<1> DEFINE Others ==
      /\ saved \subseteq saved'
      /\ \A q \in Requests \ {r} :
           /\ op'[q] = op[q] /\ uid'[q] = uid[q] /\ pc'[q] = pc[q]
           /\ reply'[q] = reply[q] /\ doc'[q] = doc[q]
           /\ fresh'[q] = fresh[q] /\ shown'[q] = shown[q]
           /\ q \in putting' <=> q \in putting
<1>2. ASSUME Send(r) \/ BadCookie(r) \/ Reset(r) PROVE Others
  BY <1>2 DEF Send, BadCookie, Reset, AnswerAtOnce, Arrive
<1>3. ASSUME Load(r) PROVE Others
  <2>1. CASE fresh[r] BY <1>3, <2>1 DEF Load, Wait
  <2>2. CASE ~fresh[r] BY <1>3, <2>2 DEF Load
  <2> QED BY <2>1, <2>2
<1>4. ASSUME Csrf(r) \/ Skip(r) PROVE Others
  BY <1>4 DEF Csrf, Skip, Finish, Respond
<1>5. ASSUME ShowStart(r) PROVE Others
  BY <1>5 DEF ShowStart, Render, Respond, Wait
<1>6. ASSUME View(r) \/ Post(r) PROVE Others
  BY <1>6 DEF View, Post, Wait
<1>7. ASSUME PutCreated(r) \/ PutCleared(r) PROVE Others
  BY <1>7 DEF PutCreated, PutCleared, Put
<1>8. ASSUME PutRedirects(r) PROVE Others
  BY <1>8 DEF PutRedirects, Put, Finish, Respond
<1>9. ASSUME PutInvalid(r) PROVE Others
  BY <1>9 DEF PutInvalid, Put, Wait
<1>10. ASSUME PutVisited(r) PROVE Others
  BY <1>10 DEF PutVisited, Put, Render, Respond, Wait
<1>11. ASSUME Fail(r) \/ Stop(r) PROVE Others
  BY <1>11 DEF Fail, Stop, Abandoned, Respond
<1>12. ASSUME OrphanLands(r) \/ OrphanLost(r) PROVE Others
  BY <1>12 DEF OrphanLands, OrphanLost, Put
<1>13. Others
  BY <1>1, <1>2, <1>3, <1>4, <1>5, <1>6, <1>7, <1>8, <1>9, <1>10, <1>11, <1>12
  DEF Server
<1> QED BY <1>1, <1>13

LEMMA PostCarries ==
  ASSUME NEW d \in Document, NEW r \in Requests
  PROVE  /\ \A p \in Pages : Answered(d, p, r).answers[p] = r
         /\ r \in Notified(d, r).flash
  BY DEF Document, Answered, Notified

LEMMA AckStep ==
  ASSUME TypeInv, AckInv, Next
  PROVE  AckInv'
<1> USE DEF TypeInv, TypeOK, history, Posts
<1>1. PICK r \in Requests :
        /\ \/ Send(r) \/ BadCookie(r) \/ Reset(r) \/ Server(r)
           \/ Fail(r) \/ Stop(r) \/ OrphanLands(r) \/ OrphanLost(r)
        /\ \A q \in Requests \ {r} :
             /\ op'[q] = op[q] /\ pc'[q] = pc[q]
             /\ reply'[q] = reply[q] /\ doc'[q] = doc[q]
        /\ saved \subseteq saved'
  BY OneRequestMoves
<1>2. ASSUME NEW q \in Requests \ {r} PROVE PostProgress(q)'
  BY <1>1, <1>2, PostProgressFrame DEF AckInv
<1>3. PostProgress(r)
  BY DEF AckInv
<1>4. ASSUME Send(r) \/ BadCookie(r) \/ Reset(r) PROVE PostProgress(r)'
  <2>1. reply[r] = "none"
    BY <1>4, RequestsAreNumbers
    DEF Send, BadCookie, Reset, Arrive, Numbered
  <2> QED
    BY <1>4, <2>1
    DEF Send, BadCookie, Reset, AnswerAtOnce, Arrive, PostProgress
<1>5. ASSUME Load(r) PROVE PostProgress(r)'
  <2>1. pc'[r] \in {"creating", "handling"} /\ UNCHANGED <<op, reply, saved>>
    <3>1. CASE fresh[r] BY <1>5, <3>1 DEF Load, Wait
    <3>2. CASE ~fresh[r] BY <1>5, <3>2 DEF Load
    <3> QED BY <3>1, <3>2
  <2> QED BY <1>3, <2>1 DEF PostProgress
<1>6. ASSUME Csrf(r) \/ Skip(r) PROVE PostProgress(r)'
  BY <1>6 DEF Csrf, Skip, Finish, Respond, PostProgress
<1>7. ASSUME ShowStart(r) PROVE PostProgress(r)'
  BY <1>7 DEF ShowStart, Render, Respond, Wait, PostProgress
<1>8. ASSUME View(r) PROVE PostProgress(r)'
  BY <1>3, <1>8 DEF View, Wait, PostProgress
<1>9. ASSUME Post(r) PROVE PostProgress(r)'
  <2>1. CarriesPost(r)'
    BY <1>9, PostCarries, OpPages DEF Post, Wait, CarriesPost
  <2> QED BY <1>3, <1>9, <2>1 DEF Post, Wait, PostProgress
<1>10. ASSUME PutCreated(r) \/ PutCleared(r) PROVE PostProgress(r)'
  BY <1>1, <1>3, <1>10 DEF PutCreated, PutCleared, PostProgress
<1>11. ASSUME PutRedirects(r) PROVE PostProgress(r)'
  BY <1>3, <1>11 DEF PutRedirects, Put, Finish, Respond, PostProgress
<1>12. ASSUME PutInvalid(r) PROVE PostProgress(r)'
  BY <1>3, <1>12 DEF PutInvalid, Put, Wait, PostProgress
<1>13. ASSUME PutVisited(r) PROVE PostProgress(r)'
  <2>1. op[r].kind \in Posts => r \in saved'
    BY <1>1, <1>3, <1>13 DEF PutVisited, PostProgress
  <2> QED
    BY <1>13, <2>1 DEF PutVisited, Render, Respond, Wait, PostProgress
<1>14. ASSUME Fail(r) \/ Stop(r) PROVE PostProgress(r)'
  BY <1>3, <1>14 DEF Fail, Stop, Abandoned, Respond, PostProgress
<1>15. ASSUME OrphanLands(r) \/ OrphanLost(r) PROVE PostProgress(r)'
  BY <1>1, <1>3, <1>15 DEF OrphanLands, OrphanLost, PostProgress
<1>16. PostProgress(r)'
  BY <1>1, <1>4, <1>5, <1>6, <1>7, <1>8, <1>9, <1>10, <1>11, <1>12, <1>13,
     <1>14, <1>15 DEF Server
<1> QED BY <1>2, <1>16 DEF AckInv

\* In every interleaving of tabs, failures and late PUTs, a post that was
\* answered by a redirect or a page had been stored.
THEOREM AcknowledgedPostsStored == Spec => []AcknowledgedPostWasStored
<1>1. Init => AckInv
  BY DEF Init, AckInv, PostProgress
<1>2. TypeInv /\ AckInv /\ [Next]_vars => AckInv'
  <2> SUFFICES ASSUME TypeInv, AckInv, [Next]_vars PROVE AckInv'
    OBVIOUS
  <2>1. CASE Next BY <2>1, AckStep
  <2>2. CASE UNCHANGED vars
    BY <2>2, PostProgressFrame DEF vars, AckInv
  <2> QED BY <2>1, <2>2
<1>3. AckInv => AcknowledgedPostWasStored
  BY DEF AckInv, PostProgress, AcknowledgedPostWasStored
<1> QED BY InitType, NextType, <1>1, <1>2, <1>3, PTL DEF Spec

-----------------------------------------------------------------------------
(***************************************************************************)
(* Whose posts a document holds.  Both the stored documents and the copies *)
(* the requests work on hold only earlier posts of their own user.         *)
(***************************************************************************)
Holds(d, e) == e \in d.flash \/ \E p \in Pages : d.answers[p] = e

Own(d, u) == \A e \in Requests :
  Holds(d, e) => e <= sent /\ uid[e] = u /\ (op[e].forwarded => op[e].token = u)

FormsInv ==
  /\ \A u \in Users : Own(store[u], u)
  /\ \A r \in Requests : Own(doc[r], uid[r])
  /\ \A r \in Requests : pc[r] \in {"unsent", "loading"} => doc[r] = EmptyDoc

LEMMA HoldsNothing == \A e \in Requests : ~Holds(EmptyDoc, e) /\ ~Holds(NewDoc, e)
  BY RequestsAreNumbers DEF Holds, EmptyDoc, NewDoc

LEMMA HoldsAfter ==
  ASSUME NEW d \in Document, NEW r \in Requests, NEW e \in Requests
  PROVE  /\ \A p \in Pages : Holds(Answered(d, p, r), e) => Holds(d, e) \/ e = r
         /\ Holds(Notified(d, r), e) => Holds(d, e) \/ e = r
         /\ Holds(FlashCleared(d), e) => Holds(d, e)
         /\ \A p \in Pages : Holds(Visited(d, p), e) => Holds(d, e)
  BY DEF Document, Holds, Answered, Notified, FlashCleared, Visited

\* What a server step of r makes of its copy and of the store.
ServerEffect(r) ==
  /\ UNCHANGED <<sent, op, uid, fresh>>
  /\ \/ UNCHANGED store
     \/ r \in putting /\ store' = [store EXCEPT ![uid[r]] = doc[r]]
  /\ pc[r] = "loading" => UNCHANGED <<store, shown>>
  /\ \/ UNCHANGED doc
     \/ \E d \in Document :
          /\ doc' = [doc EXCEPT ![r] = d]
          /\ \/ pc[r] = "loading" /\ fresh[r] /\ d = NewDoc
             \/ pc[r] = "loading" /\ ~fresh[r] /\ d = store[uid[r]]
             \/ /\ pc[r] = "handling"
                /\ CsrfHolds(r)
                /\ op[r].kind \in Posts
                /\ \/ op[r].kind = "answer" /\ d = Answered(doc[r], op[r].page, r)
                   \/ op[r].kind = "notify" /\ d = Notified(doc[r], r)
             \/ /\ pc[r] \in {"handling", "visiting"}
                /\ d = FlashCleared(doc[r])
                /\ shown' = [shown EXCEPT ![r] = doc[r].flash]
             \/ /\ pc[r] \in {"handling", "saving"}
                /\ op[r].page \in Pages
                /\ d = Visited(doc[r], op[r].page)
  /\ \/ UNCHANGED shown
     \/ /\ pc[r] \in {"handling", "visiting"}
        /\ shown' = [shown EXCEPT ![r] = doc[r].flash]
        /\ pc'[r] = "clearing"
  /\ pc'[r] \notin {"unsent", "loading"}
  /\ r \in putting' => r \in putting \/ pc'[r] \notin {"unsent", "loading", "done"}
  /\ r \in putting' \/ pc'[r] # "done" => r \in putting \/ pc[r] # "done"
  /\ \/ UNCHANGED saved
     \/ /\ saved' = saved \cup {r}
        /\ r \in putting
        /\ CarriesPost(r)
        /\ store' = [store EXCEPT ![uid[r]] = doc[r]]
  /\ cookie' \in {cookie, None, uid[r]}

LEMMA ServerEffects ==
  ASSUME TypeInv, NEW r \in Requests,
         Server(r) \/ Fail(r) \/ Stop(r) \/ OrphanLands(r) \/ OrphanLost(r)
  PROVE  ServerEffect(r)
<1> USE DEF TypeInv, TypeOK, history
<1>0. pc[r] # "unsent"
  BY DEF Server, Load, Csrf, Skip, ShowStart, View, Post, PutCreated,
         PutRedirects, PutInvalid, PutVisited, PutCleared, Fail, Stop, Busy,
         OrphanLands, OrphanLost
<1>1. ASSUME Load(r) PROVE ServerEffect(r)
  <2>0. NewDoc \in Document /\ store[uid[r]] \in Document
    BY <1>0, EmptyDocs DEF Numbered
  <2>1. CASE fresh[r] BY <1>1, <2>0, <2>1 DEF Load, Wait, ServerEffect
  <2>2. CASE ~fresh[r] BY <1>1, <2>0, <2>2 DEF Load, Loads, ServerEffect
  <2> QED BY <2>1, <2>2
<1>2. ASSUME Csrf(r) \/ Skip(r) PROVE ServerEffect(r)
  BY <1>2 DEF Csrf, Skip, Finish, Respond, CookieAfter, ServerEffect
<1>3. ASSUME ShowStart(r) PROVE ServerEffect(r)
  <2>1. FlashCleared(doc[r]) \in Document BY DocumentOps
  <2> QED BY <1>3, <2>1 DEF ShowStart, Render, Respond, Wait, CookieAfter, ServerEffect
<1>4. ASSUME View(r) PROVE ServerEffect(r)
  <2>1. op[r].page \in Pages BY <1>4, OpPages DEF View
  <2>2. Visited(doc[r], op[r].page) \in Document BY <2>1, DocumentOps
  <2> QED BY <1>4, <2>1, <2>2 DEF View, Wait, ServerEffect
<1>5. ASSUME Post(r) PROVE ServerEffect(r)
  <2>1. CASE op[r].kind = "answer"
    <3>1. Answered(doc[r], op[r].page, r) \in Document
      BY <2>1, OpPages, DocumentOps
    <3> QED BY <1>5, <2>1, <3>1 DEF Post, Posts, Wait, ServerEffect
  <2>2. CASE op[r].kind = "notify"
    <3>1. Notified(doc[r], r) \in Document BY DocumentOps
    <3> QED BY <1>5, <2>2, <3>1 DEF Post, Posts, Wait, ServerEffect
  <2> QED BY <1>5, <2>1, <2>2 DEF Post, Posts
<1>6. ASSUME PutCreated(r) \/ PutCleared(r) PROVE ServerEffect(r)
  BY <1>6 DEF PutCreated, PutCleared, Put, ServerEffect
<1>7. ASSUME PutRedirects(r) PROVE ServerEffect(r)
  BY <1>7 DEF PutRedirects, Put, Finish, Respond, CookieAfter, ServerEffect
<1>8. ASSUME PutInvalid(r) PROVE ServerEffect(r)
  <2>1. op[r].page \in Pages BY <1>8, OpPages DEF PutInvalid
  <2>2. Visited(doc[r], op[r].page) \in Document BY <2>1, DocumentOps
  <2> QED BY <1>8, <2>1, <2>2 DEF PutInvalid, Put, Wait, ServerEffect
<1>9. ASSUME PutVisited(r) PROVE ServerEffect(r)
  <2>1. FlashCleared(doc[r]) \in Document BY DocumentOps
  <2> QED BY <1>9, <2>1 DEF PutVisited, Put, Render, Respond, Wait, CookieAfter, ServerEffect
<1>10. ASSUME Fail(r) \/ Stop(r) PROVE ServerEffect(r)
  BY <1>0, <1>10 DEF Fail, Stop, Abandoned, Respond, CookieAfter, ServerEffect
<1>11. ASSUME OrphanLands(r) \/ OrphanLost(r) PROVE ServerEffect(r)
  BY <1>11 DEF OrphanLands, OrphanLost, Put, ServerEffect
<1> QED
  BY <1>1, <1>2, <1>3, <1>4, <1>5, <1>6, <1>7, <1>8, <1>9, <1>10, <1>11
  DEF Server

LEMMA FormsStep ==
  ASSUME TypeInv, FormsInv, Next
  PROVE  FormsInv'
<1> USE DEF TypeInv, TypeOK
<1>1. PICK r \in Requests :
        /\ \/ Send(r) \/ BadCookie(r) \/ Reset(r) \/ Server(r)
           \/ Fail(r) \/ Stop(r) \/ OrphanLands(r) \/ OrphanLost(r)
        /\ \A q \in Requests \ {r} :
             op'[q] = op[q] /\ uid'[q] = uid[q] /\ pc'[q] = pc[q] /\ doc'[q] = doc[q]
  BY OneRequestMoves
<1>2. ASSUME Send(r) \/ BadCookie(r) \/ Reset(r) PROVE FormsInv'
  <2>1. r = sent + 1 /\ sent' = r /\ UNCHANGED <<doc, store>>
    BY <1>2 DEF Send, BadCookie, Reset, Arrive
  <2>2. pc[r] = "unsent"
    BY <2>1, RequestsAreNumbers DEF Numbered
  <2>3. \A d, u, e : e \in Requests /\ Own(d, u) /\ Holds(d, e) =>
          e <= sent' /\ uid'[e] = u /\ (op'[e].forwarded => op'[e].token = u)
    BY <1>1, <2>1, RequestsAreNumbers DEF Own
  <2>4. \A u \in Users : Own(store[u], u)'
    <3>1. \A u \in Users, e \in Requests : Holds(store[u], e) =>
            e <= sent' /\ uid'[e] = u /\ (op'[e].forwarded => op'[e].token = u)
      BY <2>3 DEF FormsInv
    <3> QED BY <2>1, <3>1 DEF Own, Holds
  <2>5. Own(doc[r], uid[r])'
    BY <2>1, <2>2, HoldsNothing DEF FormsInv, Own, Holds
  <2>6. \A q \in Requests \ {r} : Own(doc[q], uid[q])'
    BY <1>1, <2>1, <2>3 DEF FormsInv, Own, Holds
  <2>7. \A q \in Requests : pc'[q] \in {"unsent", "loading"} => doc'[q] = EmptyDoc
    BY <1>1, <2>1, <2>2 DEF FormsInv
  <2> QED BY <2>4, <2>5, <2>6, <2>7 DEF FormsInv
<1>3. ASSUME Server(r) \/ Fail(r) \/ Stop(r) \/ OrphanLands(r) \/ OrphanLost(r)
      PROVE  FormsInv'
  <2>1. ServerEffect(r)
    BY <1>3, ServerEffects
  <2>2. UNCHANGED <<sent, op, uid>>
    BY <2>1 DEF ServerEffect
  <2>3. \A d, u : Own(d, u)' <=> Own(d, u)
    BY <2>2 DEF Own, Holds
  <2>4. \A u \in Users : Own(store'[u], u)
    BY <2>1 DEF ServerEffect, FormsInv
  <2>5. Own(doc'[r], uid[r])
    <3>1. CASE UNCHANGED doc BY <3>1 DEF FormsInv
    <3>2. CASE doc'[r] = NewDoc BY <3>2, HoldsNothing DEF Own
    <3>3. CASE doc'[r] = store[uid[r]] /\ pc[r] = "loading"
      BY <3>3 DEF FormsInv, Numbered
    <3>4. CASE /\ op[r].kind \in Posts /\ CsrfHolds(r) /\ pc[r] = "handling"
               /\ \/ op[r].kind = "answer" /\ doc'[r] = Answered(doc[r], op[r].page, r)
                  \/ op[r].kind = "notify" /\ doc'[r] = Notified(doc[r], r)
      <4>1. op[r].forwarded => op[r].token = uid[r] BY <3>4 DEF CsrfHolds
      <4>2. r <= sent BY <3>4, RequestsAreNumbers DEF Numbered
      <4>3. \A e \in Requests : Holds(doc'[r], e) => Holds(doc[r], e) \/ e = r
        BY <3>4, HoldsAfter, OpPages
      <4> QED BY <4>1, <4>2, <4>3 DEF Own, FormsInv
    <3>5. CASE \/ doc'[r] = FlashCleared(doc[r])
               \/ op[r].page \in Pages /\ doc'[r] = Visited(doc[r], op[r].page)
      <4>1. \A e \in Requests : Holds(doc'[r], e) => Holds(doc[r], e)
        BY <3>5, HoldsAfter
      <4> QED BY <4>1 DEF Own, FormsInv
    <3> QED BY <2>1, <3>1, <3>2, <3>3, <3>4, <3>5 DEF ServerEffect
  <2>6. \A q \in Requests \ {r} : Own(doc'[q], uid[q])
    BY <1>1 DEF FormsInv
  <2>7. \A q \in Requests : pc'[q] \in {"unsent", "loading"} => doc'[q] = EmptyDoc
    <3>1. ASSUME NEW q \in Requests \ {r}, pc'[q] \in {"unsent", "loading"}
          PROVE  doc'[q] = EmptyDoc
      BY <1>1, <3>1 DEF FormsInv
    <3>2. pc'[r] \notin {"unsent", "loading"}
      BY <2>1 DEF ServerEffect
    <3> QED BY <3>1, <3>2
  <2>8. /\ \A u \in Users : Own(store[u], u)'
        /\ \A q \in Requests : Own(doc[q], uid[q])'
    BY <2>2, <2>3, <2>4, <2>5, <2>6
  <2> QED BY <2>7, <2>8 DEF FormsInv
<1> QED BY <1>1, <1>2, <1>3

LEMMA FormsInit == Init => FormsInv
  BY HoldsNothing DEF Init, FormsInv, Own, Users

LEMMA FormsNext == TypeInv /\ FormsInv /\ [Next]_vars => FormsInv'
<1> SUFFICES ASSUME TypeInv, FormsInv, [Next]_vars PROVE FormsInv'
  OBVIOUS
<1>1. CASE Next BY <1>1, FormsStep
<1>2. CASE UNCHANGED vars BY <1>2 DEF vars, FormsInv, Own, Holds
<1> QED BY <1>1, <1>2

\* Whatever tabs, expired sessions and failed requests do, a document holds
\* only posts from forms rendered for its own user.
THEOREM FormsKeepToTheirSession == Spec => []FormsStayInTheirSession
<1>1. FormsInv => FormsStayInTheirSession
  BY DEF FormsInv, Own, Holds, FormsStayInTheirSession
<1> QED BY InitType, NextType, FormsInit, FormsNext, <1>1, PTL DEF Spec

-----------------------------------------------------------------------------
(***************************************************************************)
(* A patient browser.  Only the latest request is under way, and the copy  *)
(* it works on is ahead of the stored document: no answer in it is older,  *)
(* no flash message is missing from it that was not displayed.             *)
(***************************************************************************)
Displayed == UNION {shown[q] : q \in Requests}

Ahead(d, s, M) ==
  /\ \A p \in Pages : d.answers[p] >= s.answers[p]
  /\ s.flash \subseteq d.flash \cup M

Live(r) == r \in putting \/ pc[r] \notin {"unsent", "loading", "done"}

PatientInv ==
  /\ \A r \in Requests : r \in putting \/ pc[r] \notin {"unsent", "done"} => r = sent
  /\ \A r \in Requests : pc[r] # "unsent" => uid[r] <= sent
  /\ cookie # None => cookie <= sent
  /\ \A u \in Users : u > sent => store[u] = EmptyDoc
  /\ \A r \in Requests : fresh[r] /\ pc[r] = "loading" => store[uid[r]] = EmptyDoc
  /\ \A r \in Requests : pc[r] \notin {"clearing", "done"} => shown[r] = {}
  /\ \A r \in Requests : Live(r) => Ahead(doc[r], store[uid[r]], Displayed)
  /\ \A m \in saved : pc[m] # "unsent"
  /\ FlashKeptUntilShown

LEMMA AnswersAreNumbers ==
  ASSUME NEW d \in Document, NEW p \in Pages
  PROVE  d.answers[p] \in Nat
<1>1. d.answers[p] \in Requests \cup {None}
  BY DEF Document
<1> QED BY <1>1, MaxRequestsAssumption DEF None, Requests

\* Editing a copy keeps it ahead; clearing its messages does once they are shown.
LEMMA AheadAfter ==
  ASSUME NEW d \in Document, NEW s \in Document, NEW r \in Requests,
         NEW M, Ahead(d, s, M)
  PROVE  /\ \A p \in Pages : Ahead(Visited(d, p), s, M)
         /\ Ahead(Notified(d, r), s, M)
         /\ Ahead(FlashCleared(d), s, M \cup d.flash)
         /\ \A p \in Pages : s.answers[p] <= r => Ahead(Answered(d, p, r), s, M)
<1> USE RequestsAreNumbers DEF Document, Ahead
<1>1. \A p \in Pages : Ahead(Visited(d, p), s, M)
  BY DEF Visited
<1>2. Ahead(Notified(d, r), s, M)
  BY DEF Notified
<1>3. Ahead(FlashCleared(d), s, M \cup d.flash)
  BY DEF FlashCleared
<1>4. \A p \in Pages : s.answers[p] <= r => Ahead(Answered(d, p, r), s, M)
  BY AnswersAreNumbers DEF Answered
<1> QED BY <1>1, <1>2, <1>3, <1>4

LEMMA AheadOfItself ==
  ASSUME NEW d \in Document, NEW M
  PROVE  Ahead(d, d, M) /\ Ahead(NewDoc, EmptyDoc, M)
<1>1. Ahead(d, d, M)
  BY AnswersAreNumbers DEF Ahead
<1>2. NewDoc.answers = EmptyDoc.answers /\ NewDoc.flash = {} /\ EmptyDoc.flash = {}
  BY DEF NewDoc, EmptyDoc
<1>3. \A p \in Pages : EmptyDoc.answers[p] \in Nat
  BY EmptyDocs, AnswersAreNumbers
<1>4. Ahead(NewDoc, EmptyDoc, M)
  BY <1>2, <1>3 DEF Ahead
<1> QED BY <1>1, <1>4

\* No document holds an answer younger than the latest request.
LEMMA AnswersSent ==
  ASSUME TypeInv, NEW d \in Document, NEW u, Own(d, u), NEW p \in Pages
  PROVE  d.answers[p] <= sent
<1>1. d.answers[p] \in Requests \cup {None}
  BY DEF Document
<1>2. d.answers[p] \in Requests => d.answers[p] <= sent
  BY DEF Own, Holds
<1> QED BY <1>1, <1>2 DEF TypeInv, TypeOK, None

LEMMA PatientServerStep ==
  ASSUME TypeInv, FormsInv, PatientInv, NEW r \in Requests,
         Server(r) \/ Fail(r) \/ Stop(r) \/ OrphanLands(r) \/ OrphanLost(r),
         \A q \in Requests \ {r} :
           /\ op'[q] = op[q] /\ uid'[q] = uid[q] /\ pc'[q] = pc[q]
           /\ doc'[q] = doc[q] /\ fresh'[q] = fresh[q] /\ shown'[q] = shown[q]
           /\ q \in putting' <=> q \in putting,
         TypeInv'
  PROVE  /\ PatientInv'
         /\ \A u \in Users, p \in Pages :
              store'[u].answers[p] >= store[u].answers[p]
<1> USE RequestsAreNumbers
<1>1. ServerEffect(r)
  BY ServerEffects
<1>2. /\ UNCHANGED <<sent, op, uid, fresh>>
      /\ pc[r] # "unsent" /\ pc'[r] # "unsent"
  BY <1>1 DEF ServerEffect, Server, Load, Csrf, Skip, ShowStart, View, Post,
     PutCreated, PutRedirects, PutInvalid, PutVisited, PutCleared, Fail, Stop,
     Busy, OrphanLands, OrphanLost, TypeInv, Numbered
<1>3. uid[r] \in Users /\ store[uid[r]] \in Document /\ doc[r] \in Document
  BY <1>2 DEF TypeInv, TypeOK, Numbered
<1>4. r \in putting \/ pc[r] # "done" => r = sent
  BY <1>2 DEF PatientInv
<1>5. r = sent
  BY <1>4 DEF Server, Load, Csrf, Skip, ShowStart, View, Post,
     PutCreated, PutRedirects, PutInvalid, PutVisited, PutCleared, Fail, Stop,
     Busy, OrphanLands, OrphanLost, Put
<1>6. \A q \in Requests \ {r} : q \notin putting /\ pc[q] \in {"unsent", "done"}
  BY <1>5 DEF PatientInv
<1>7. Displayed \subseteq Displayed'
  <2>1. \A q \in Requests : shown[q] \subseteq shown'[q]
    BY <1>1 DEF ServerEffect, PatientInv, TypeInv, TypeOK
  <2> QED BY <2>1 DEF Displayed
<1>9. r \in putting => Ahead(doc[r], store[uid[r]], Displayed)
  BY DEF PatientInv, Live
<1>10. \A u \in Users, p \in Pages : store'[u].answers[p] >= store[u].answers[p]
  <2>1. \A u \in Users, p \in Pages : store[u].answers[p] \in Nat
    BY AnswersAreNumbers DEF TypeInv, TypeOK
  <2> QED BY <1>1, <1>3, <1>9, <2>1 DEF ServerEffect, Ahead, TypeInv, TypeOK
<1>11. \A q \in Requests : q \in putting' \/ pc'[q] \notin {"unsent", "done"} => q = sent'
  BY <1>2, <1>5, <1>6
<1>12. \A q \in Requests : pc'[q] # "unsent" => uid'[q] <= sent'
  BY <1>2 DEF PatientInv
<1>13. cookie' # None => cookie' <= sent'
  BY <1>1, <1>2 DEF PatientInv, ServerEffect
<1>14. \A u \in Users : u > sent' => store'[u] = EmptyDoc
  BY <1>1, <1>2, <1>3 DEF PatientInv, ServerEffect, TypeInv, TypeOK
<1>15. \A q \in Requests : fresh'[q] /\ pc'[q] = "loading" => store'[uid'[q]] = EmptyDoc
  BY <1>1, <1>2, <1>6 DEF ServerEffect
<1>16. \A q \in Requests : pc'[q] \notin {"clearing", "done"} => shown'[q] = {}
  <2>1. pc[r] \in {"clearing", "done"} => pc'[r] \in {"clearing", "done"}
    BY DEF Server, Load, Csrf, Skip, ShowStart, View, Post, PutCreated,
       PutRedirects, PutInvalid, PutVisited, PutCleared, Fail, Stop, Abandoned,
       OrphanLands, OrphanLost, TypeInv, TypeOK
  <2> QED BY <1>1, <2>1 DEF ServerEffect, PatientInv
<1>17. \A q \in Requests : Live(q)' => Ahead(doc[q], store[uid[q]], Displayed)'
  <2>1. \A q \in Requests \ {r} : ~Live(q)'
    BY <1>6 DEF Live
  <2>2. ASSUME Live(r)' PROVE Ahead(doc'[r], store'[uid[r]], Displayed')
    <3>1. pc[r] # "loading" => Ahead(doc[r], store[uid[r]], Displayed)
      BY <1>1, <1>2, <2>2 DEF ServerEffect, Live, PatientInv
    <3>2. store'[uid[r]] \in {store[uid[r]], doc[r]}
      BY <1>1, <1>3 DEF ServerEffect, TypeInv, TypeOK
    <3>3. pc[r] # "loading" => Ahead(doc[r], store'[uid[r]], Displayed)
      BY <1>3, <3>1, <3>2, AheadOfItself
    <3>4. store'[uid[r]] \in Document
      BY <1>3, <3>2
    <3>4a. \A M, N : Ahead(doc'[r], store'[uid[r]], M) /\ M \subseteq N
                      => Ahead(doc'[r], store'[uid[r]], N)
      BY DEF Ahead
    <3>4b. Ahead(doc'[r], store'[uid[r]], Displayed)
             => Ahead(doc'[r], store'[uid[r]], Displayed')
      BY <1>7, <3>4a
    <3>5. CASE UNCHANGED doc /\ pc[r] # "loading"
      BY <3>3, <3>4b, <3>5
    <3>6. CASE pc[r] = "loading"
      <4>1. UNCHANGED store
        BY <1>1, <3>6 DEF ServerEffect
      <4>2. CASE Load(r)
        <5>1. doc'[r] = IF fresh[r] THEN NewDoc ELSE store[uid[r]]
          <6>1. CASE fresh[r] BY <4>2, <6>1 DEF Load, Wait, TypeInv, TypeOK
          <6>2. CASE ~fresh[r] BY <4>2, <6>2 DEF Load, Loads, TypeInv, TypeOK
          <6> QED BY <6>1, <6>2
        <5>2. fresh[r] => store[uid[r]] = EmptyDoc
          BY <3>6 DEF PatientInv
        <5> QED BY <1>3, <4>1, <5>1, <5>2, AheadOfItself
      <4>3. CASE Fail(r) \/ Stop(r)
        <5>1. ~Live(r)'
          BY <3>6, <4>3 DEF Fail, Stop, Abandoned, Live, TypeInv, TypeOK, Numbered
        <5> QED BY <2>2, <5>1
      <4> QED
        BY <3>6, <4>2, <4>3 DEF Server, Csrf, Skip, ShowStart, View, Post,
           PutCreated, PutRedirects, PutInvalid, PutVisited, PutCleared,
           OrphanLands, OrphanLost
    <3>7. CASE /\ op[r].kind \in Posts /\ pc[r] = "handling"
               /\ \/ op[r].kind = "answer" /\ doc'[r] = Answered(doc[r], op[r].page, r)
                  \/ op[r].kind = "notify" /\ doc'[r] = Notified(doc[r], r)
      <4>1. \A p \in Pages : store'[uid[r]].answers[p] <= r
        BY <1>3, <1>5, <3>2, AnswersSent DEF FormsInv
      <4>2. op[r].kind = "answer" => op[r].page \in Pages
        BY OpPages DEF TypeInv, TypeOK
      <4>3. doc[r] \in Document /\ Ahead(doc[r], store'[uid[r]], Displayed)
        BY <1>3, <3>3, <3>7
      <4>4. Ahead(Notified(doc[r], r), store'[uid[r]], Displayed)
        BY <1>3, <3>4, <4>3, AheadAfter
      <4>5. op[r].kind = "answer"
              => Ahead(Answered(doc[r], op[r].page, r), store'[uid[r]], Displayed)
        BY <1>3, <3>4, <4>1, <4>2, <4>3, AheadAfter
      <4>6. Ahead(doc'[r], store'[uid[r]], Displayed)
        BY <3>7, <4>4, <4>5
      <4> QED BY <3>4b, <4>6
    <3>8. CASE op[r].page \in Pages /\ doc'[r] = Visited(doc[r], op[r].page)
               /\ pc[r] # "loading"
      <4>1. Ahead(doc'[r], store'[uid[r]], Displayed)
        BY <1>3, <3>3, <3>4, <3>8, AheadAfter
      <4> QED BY <3>4b, <4>1
    <3>9. CASE /\ doc'[r] = FlashCleared(doc[r]) /\ pc[r] # "loading"
               /\ shown' = [shown EXCEPT ![r] = doc[r].flash]
      <4>1. doc[r].flash \subseteq Displayed'
        BY <3>9 DEF Displayed, TypeInv, TypeOK
      <4>2. Ahead(doc'[r], store'[uid[r]], Displayed \cup doc[r].flash)
        BY <1>3, <3>3, <3>4, <3>9, AheadAfter
      <4> QED BY <1>7, <3>4a, <4>1, <4>2
    <3> QED BY <1>1, <1>3, <3>5, <3>6, <3>7, <3>8, <3>9
            DEF ServerEffect, TypeInv, TypeOK
  <2> QED BY <1>2, <2>1, <2>2
<1>18. \A m \in saved' : pc'[m] # "unsent"
  BY <1>1, <1>2 DEF ServerEffect, PatientInv, TypeInv, TypeOK
<1>19. FlashKeptUntilShown'
  <2>1. ASSUME NEW m \in saved, op[m].kind = "notify"
        PROVE  m \in store'[uid[m]].flash \/ m \in Displayed'
    <3>1. m \in store[uid[m]].flash \/ m \in Displayed
      BY <2>1 DEF PatientInv, FlashKeptUntilShown, Displayed
    <3>2. m \in Requests /\ uid[m] \in Users
      BY <2>1 DEF PatientInv, TypeInv, TypeOK, Numbered
    <3> QED
      BY <1>1, <1>3, <1>7, <1>9, <3>1, <3>2 DEF ServerEffect, Ahead, TypeInv, TypeOK
  <2>2. r \in saved' \ saved /\ op[r].kind = "notify" => r \in store'[uid[r]].flash
    BY <1>1, <1>3 DEF ServerEffect, CarriesPost, TypeInv, TypeOK
  <2>3. saved' \subseteq saved \cup {r}
    BY <1>1 DEF ServerEffect
  <2>4. \A m \in saved' : op[m].kind = "notify" =>
          m \in store'[uid[m]].flash \/ m \in Displayed'
    BY <2>1, <2>2, <2>3
  <2> QED
    BY <1>2, <2>4 DEF FlashKeptUntilShown, Displayed
<1> QED
  BY <1>10, <1>11, <1>12, <1>13, <1>14, <1>15, <1>16, <1>17, <1>18, <1>19
  DEF PatientInv

\* A patient browser sends the next request when nothing is under way.
LEMMA PatientBrowserStep ==
  ASSUME TypeInv, PatientInv, Client = "patient", NEW r \in Requests,
         Send(r) \/ BadCookie(r) \/ Reset(r),
         \A q \in Requests \ {r} :
           /\ op'[q] = op[q] /\ uid'[q] = uid[q] /\ pc'[q] = pc[q]
           /\ fresh'[q] = fresh[q]
  PROVE  PatientInv' /\ UNCHANGED store
<1> USE RequestsAreNumbers
<1>1. /\ r = sent + 1 /\ sent' = r
      /\ UNCHANGED <<doc, putting, store, shown, saved>>
      /\ MaySend
  BY DEF Send, BadCookie, Reset, Arrive, history
<1>2. Busy = {} /\ putting = {}
  BY <1>1 DEF MaySend
<1>3. pc[r] = "unsent"
  BY <1>1 DEF TypeInv, TypeOK, Numbered
<1>4. pc'[r] \in {"loading", "done"}
  BY DEF Send, BadCookie, Reset, AnswerAtOnce, TypeInv, TypeOK
<1>5. \A q \in Requests \ {r} : pc[q] \in {"unsent", "done"}
  BY <1>2 DEF Busy
<1>6. /\ uid'[r] <= sent'
      /\ fresh'[r] => uid'[r] = r
      /\ cookie' # None => cookie' <= sent'
  <2>1. cookie \in Users \cup {None} /\ (cookie # None => cookie < r)
    BY <1>1 DEF TypeInv, TypeOK, PatientInv
  <2>2. PICK o \in Ops, c \in {cookie, None} :
          Arrive(r, o, c) /\ cookie' \in {c, None, r}
    BY ResetIsOp DEF Send, BadCookie, Reset, AnswerAtOnce
  <2>3. /\ uid'[r] = IF c = None THEN r ELSE c
        /\ fresh'[r] => c = None
    BY <2>2 DEF Arrive, TypeInv, TypeOK
  <2>4. c = None \/ (c \in Users /\ c <= r)
    BY <2>1, <2>2 DEF None
  <2>5. CASE c = None
    BY <1>1, <2>2, <2>3, <2>5 DEF None
  <2>6. CASE c # None /\ c \in Users /\ c <= r
    <3>1. r <= sent' /\ uid'[r] = c /\ ~fresh'[r]
      BY <1>1, <2>3, <2>6
    <3> QED BY <1>1, <2>2, <2>6, <3>1
  <2> QED BY <2>4, <2>5, <2>6 DEF None
<1>7. \A q \in Requests : pc'[q] # "unsent" => uid'[q] <= sent'
  <2>1. \A q \in Requests \ {r} : pc'[q] # "unsent" => uid[q] \in Nat /\ uid[q] <= sent
    BY DEF PatientInv, TypeInv, Numbered
  <2> QED BY <1>1, <1>6, <2>1 DEF TypeInv, TypeOK
<1>8. \A u \in Users : u > sent' => store'[u] = EmptyDoc
  BY <1>1 DEF PatientInv, TypeInv, TypeOK
<1>9. \A q \in Requests : fresh'[q] /\ pc'[q] = "loading" => store'[uid'[q]] = EmptyDoc
  <2>1. store[r] = EmptyDoc
    BY <1>1 DEF PatientInv, TypeInv, TypeOK
  <2> QED BY <1>1, <1>5, <1>6, <2>1
<1>10. \A q \in Requests : pc'[q] \notin {"clearing", "done"} => shown'[q] = {}
  BY <1>1, <1>3 DEF PatientInv
<1>11. \A q \in Requests : ~Live(q)'
  BY <1>1, <1>2, <1>4, <1>5 DEF Live
<1>12. \A m \in saved' : pc'[m] # "unsent" /\ m # r
  BY <1>1, <1>3, <1>4 DEF PatientInv, TypeInv, TypeOK
<1>13. FlashKeptUntilShown'
  <2>1. \A m \in saved' : op'[m] = op[m] /\ uid'[m] = uid[m]
    BY <1>1, <1>12 DEF TypeInv, TypeOK
  <2> QED BY <1>1, <2>1 DEF FlashKeptUntilShown, PatientInv
<1>14. \A q \in Requests : q \in putting' \/ pc'[q] \notin {"unsent", "done"} => q = sent'
  BY <1>1, <1>2, <1>5
<1> QED
  BY <1>1, <1>6, <1>7, <1>8, <1>9, <1>10, <1>11, <1>12, <1>13, <1>14 DEF PatientInv

LEMMA PatientInit == Init => PatientInv
  BY RequestsAreNumbers DEF Init, PatientInv, Live, FlashKeptUntilShown

LEMMA PatientStep ==
  ASSUME Client = "patient"
  PROVE  TypeInv /\ FormsInv /\ PatientInv /\ [Next]_vars =>
           /\ PatientInv'
           /\ \A u \in Users, p \in Pages :
                store'[u].answers[p] >= store[u].answers[p]
<1> SUFFICES ASSUME TypeInv, FormsInv, PatientInv, [Next]_vars
             PROVE  /\ PatientInv'
                    /\ \A u \in Users, p \in Pages :
                         store'[u].answers[p] >= store[u].answers[p]
  OBVIOUS
<1>1. TypeInv'
  BY NextType
<1>2. \A u \in Users, p \in Pages : store[u].answers[p] >= store[u].answers[p]
  BY AnswersAreNumbers DEF TypeInv, TypeOK
<1>3. CASE Next
  <2>1. PICK r \in Requests :
          /\ \/ Send(r) \/ BadCookie(r) \/ Reset(r) \/ Server(r)
             \/ Fail(r) \/ Stop(r) \/ OrphanLands(r) \/ OrphanLost(r)
          /\ \A q \in Requests \ {r} :
               /\ op'[q] = op[q] /\ uid'[q] = uid[q] /\ pc'[q] = pc[q]
               /\ doc'[q] = doc[q] /\ fresh'[q] = fresh[q] /\ shown'[q] = shown[q]
               /\ q \in putting' <=> q \in putting
    BY <1>3, OneRequestMoves
  <2>2. CASE Send(r) \/ BadCookie(r) \/ Reset(r)
    BY <1>2, <2>1, <2>2, PatientBrowserStep
  <2>3. CASE Server(r) \/ Fail(r) \/ Stop(r) \/ OrphanLands(r) \/ OrphanLost(r)
    BY <1>1, <2>1, <2>3, PatientServerStep
  <2> QED BY <2>1, <2>2, <2>3
<1>4. CASE UNCHANGED vars
  BY <1>2, <1>4 DEF vars, PatientInv, FlashKeptUntilShown, Live, Displayed, Ahead
<1> QED BY <1>3, <1>4

\* Flash messages of a browser that waits survive until a response shows them,
\* through every failure and expired session.
THEOREM PatientFlashKept ==
  ASSUME Client = "patient"
  PROVE  Spec => []FlashKeptUntilShown
<1>1. Init => TypeInv /\ FormsInv /\ PatientInv
  BY InitType, FormsInit, PatientInit
<1>2. TypeInv /\ FormsInv /\ PatientInv /\ [Next]_vars
        => (TypeInv /\ FormsInv /\ PatientInv)'
  BY NextType, FormsNext, PatientStep
<1>3. PatientInv => FlashKeptUntilShown
  BY DEF PatientInv
<1> QED BY <1>1, <1>2, <1>3, PTL DEF Spec

\* The stored answers of a browser that waits are never replaced by older ones.
THEOREM PatientAnswersNeverRevert ==
  ASSUME Client = "patient"
  PROVE  Spec => AnswersNeverRevert
<1>1. Init => TypeInv /\ FormsInv /\ PatientInv
  BY InitType, FormsInit, PatientInit
<1>2. TypeInv /\ FormsInv /\ PatientInv /\ [Next]_vars
        => (TypeInv /\ FormsInv /\ PatientInv)'
  BY NextType, FormsNext, PatientStep
<1>3. TypeInv /\ FormsInv /\ PatientInv /\ [Next]_vars
        => [\A u \in Users, p \in Pages :
              store'[u].answers[p] >= store[u].answers[p]]_vars
  BY PatientStep
<1> QED BY <1>1, <1>2, <1>3, PTL DEF Spec, AnswersNeverRevert

-----------------------------------------------------------------------------
(***************************************************************************)
(* A patient browser.  The copy that is being PUT differs from the stored  *)
(* document by one edit.                                                   *)
(***************************************************************************)
OneEdit(d, s, r, M) ==
  \/ d = NewDoc /\ s = EmptyDoc
  \/ \E p \in Pages : d = Answered(s, p, r)
  \/ d = Notified(s, r)
  \/ \E p \in Pages : d = Visited(s, p)
  \/ d = FlashCleared(s) /\ s.flash \subseteq M

EditInv ==
  /\ \A r \in putting : OneEdit(doc[r], store[uid[r]], r, Displayed)
  /\ \A r \in Requests : pc[r] = "handling" => doc[r] = store[uid[r]] /\ r \notin putting
  /\ \A r \in Requests :
       pc[r] = "visiting" => \E p \in Pages : doc[r] = Visited(store[uid[r]], p)
  /\ \A r \in Requests : pc[r] = "clearing" => doc[r].flash = {}
  /\ \A r \in putting : pc[r] = "done" => r \in failed

\* EditInv of a single request.
EditOf(r) ==
  /\ r \in putting => OneEdit(doc[r], store[uid[r]], r, Displayed)
  /\ pc[r] = "handling" => doc[r] = store[uid[r]] /\ r \notin putting
  /\ pc[r] = "visiting" => \E p \in Pages : doc[r] = Visited(store[uid[r]], p)
  /\ pc[r] = "clearing" => doc[r].flash = {}
  /\ r \in putting /\ pc[r] = "done" => r \in failed

LEMMA EditOfAll == TypeInv => (EditInv <=> \A r \in Requests : EditOf(r))
  BY DEF EditInv, EditOf, TypeInv, TypeOK

\* A step in the service of r, or its failure.
Moves(r) == Server(r) \/ Fail(r) \/ Stop(r) \/ OrphanLands(r) \/ OrphanLost(r)

LEMMA EditOfMover ==
  ASSUME TypeInv, PatientInv, NEW r \in Requests, EditOf(r), Moves(r)
  PROVE  EditOf(r)'
<1> USE RequestsAreNumbers DEF TypeInv, TypeOK, history
<1>0. /\ pc[r] # "unsent" /\ uid[r] \in Users /\ UNCHANGED uid
      /\ doc[r] \in Document /\ store[uid[r]] \in Document
  <2>1. pc[r] # "unsent" /\ UNCHANGED uid
    BY ServerEffects DEF Moves, ServerEffect, Server, Load, Csrf, Skip, ShowStart, View, Post,
       PutCreated, PutRedirects, PutInvalid, PutVisited, PutCleared, Fail, Stop, Busy,
       OrphanLands, OrphanLost
  <2> QED BY <2>1 DEF Numbered
<1>1. CASE Load(r)
  <2>1. CASE fresh[r]
    <3>1. /\ doc'[r] = NewDoc /\ pc'[r] = "creating" /\ store' = store
      BY <1>1, <2>1 DEF Load, Wait
    <3>2. store[uid[r]] = EmptyDoc
      BY <1>1, <2>1 DEF Load, PatientInv
    <3> QED BY <1>0, <3>1, <3>2 DEF EditOf, OneEdit
  <2>2. CASE ~fresh[r]
    <3>1. /\ doc'[r] = store[uid[r]] /\ pc'[r] = "handling"
          /\ store' = store /\ putting' = putting
      BY <1>1, <2>2 DEF Load, Loads
    <3>2. r \notin putting
      BY <1>1 DEF Load, Numbered
    <3> QED BY <1>0, <3>1, <3>2 DEF EditOf
  <2> QED BY <2>1, <2>2
<1>2. CASE Csrf(r) \/ Skip(r)
  <2>1. pc'[r] = "done" /\ putting' = putting /\ r \notin putting
    BY <1>2 DEF Csrf, Skip, Finish, EditOf
  <2> QED BY <2>1 DEF EditOf
<1>3. CASE ShowStart(r)
  <2>1. /\ doc'[r] = FlashCleared(doc[r]) /\ pc'[r] = "clearing" /\ store' = store
        /\ doc[r] = store[uid[r]]
        /\ shown'[r] = doc[r].flash
    BY <1>3 DEF ShowStart, Render, Wait, EditOf
  <2>2. doc[r].flash \subseteq Displayed'
    BY <2>1 DEF Displayed
  <2>3. doc'[r].flash = {}
    BY <1>0, <2>1 DEF FlashCleared, Document
  <2> QED BY <1>0, <2>1, <2>2, <2>3 DEF EditOf, OneEdit
<1>4. CASE View(r)
  <2>1. /\ doc'[r] = Visited(doc[r], op[r].page) /\ pc'[r] = "visiting" /\ store' = store
        /\ doc[r] = store[uid[r]] /\ op[r].page \in Pages
    BY <1>4, OpPages DEF View, Wait, EditOf
  <2> QED BY <1>0, <2>1 DEF EditOf, OneEdit
<1>5. CASE Post(r)
  <2>1. /\ pc'[r] = "saving" /\ store' = store /\ doc[r] = store[uid[r]]
        /\ \/ op[r].page \in Pages /\ doc'[r] = Answered(doc[r], op[r].page, r)
           \/ doc'[r] = Notified(doc[r], r)
    BY <1>5, OpPages DEF Post, Posts, Wait, EditOf
  <2> QED BY <1>0, <2>1 DEF EditOf, OneEdit
<1>6. CASE PutCreated(r)
  <2>1. /\ pc'[r] = "handling" /\ r \notin putting'
        /\ doc' = doc /\ store'[uid[r]] = doc[r]
    BY <1>0, <1>6 DEF PutCreated, Put
  <2> QED BY <1>0, <2>1 DEF EditOf
<1>7. CASE PutRedirects(r) \/ PutCleared(r) \/ OrphanLands(r) \/ OrphanLost(r)
  <2>1. pc'[r] = "done" /\ r \notin putting'
    BY <1>7 DEF PutRedirects, Finish, PutCleared, OrphanLands, OrphanLost
  <2> QED BY <2>1 DEF EditOf
<1>8. CASE PutInvalid(r)
  <2>1. /\ pc'[r] = "visiting" /\ op[r].page \in Pages
        /\ doc'[r] = Visited(doc[r], op[r].page) /\ store'[uid[r]] = doc[r]
    BY <1>0, <1>8, OpPages DEF PutInvalid, Put, Wait
  <2> QED BY <1>0, <2>1 DEF EditOf, OneEdit
<1>9. CASE PutVisited(r)
  <2>1. /\ pc'[r] = "clearing" /\ shown'[r] = doc[r].flash
        /\ doc'[r] = FlashCleared(doc[r]) /\ store'[uid[r]] = doc[r]
    BY <1>0, <1>9 DEF PutVisited, Put, Render, Wait
  <2>2. doc[r].flash \subseteq Displayed'
    BY <2>1 DEF Displayed
  <2>3. doc'[r].flash = {}
    BY <1>0, <2>1 DEF FlashCleared, Document
  <2> QED BY <1>0, <2>1, <2>2, <2>3 DEF EditOf, OneEdit
<1>10. CASE Fail(r) \/ Stop(r)
  <2>1. /\ pc'[r] = "done" /\ putting' \subseteq putting /\ r \in failed'
        /\ UNCHANGED <<doc, store, shown>>
    BY <1>10 DEF Fail, Stop, Abandoned
  <2> QED BY <1>0, <2>1 DEF EditOf, OneEdit, Displayed
<1> QED
  BY <1>1, <1>2, <1>3, <1>4, <1>5, <1>6, <1>7, <1>8, <1>9, <1>10 DEF Moves, Server

\* Only the latest request of a patient browser is under way.
LEMMA OthersIdle ==
  ASSUME TypeInv, PatientInv, NEW r \in Requests, NEW q \in Requests \ {r},
         Moves(r)
  PROVE  q \notin putting /\ pc[q] \in {"unsent", "done"}
<1>1. r \in putting \/ pc[r] \notin {"unsent", "done"}
  <2>1. CASE Server(r)
    BY <2>1 DEF Server, Load, Csrf, Skip, ShowStart, View, Post, PutCreated, PutRedirects,
       PutInvalid, PutVisited, PutCleared
  <2> QED BY <2>1 DEF Moves, Fail, Stop, Busy, OrphanLands, OrphanLost, Put
<1>2. r = sent
  BY <1>1 DEF PatientInv
<1> QED BY <1>2 DEF PatientInv

\* A request that neither runs nor has a PUT under way is in order.
LEMMA EditOfIdle ==
  ASSUME NEW r \in Requests, r \notin putting, pc[r] \in {"unsent", "loading", "done"}
  PROVE  EditOf(r)
  BY DEF EditOf

LEMMA EditInit == Init => EditInv
  BY DEF Init, EditInv

LEMMA EditStep ==
  ASSUME Client = "patient", TypeInv, PatientInv, EditInv, [Next]_vars
  PROVE  EditInv'
<1>1. TypeInv'
  BY NextType
<1>2. CASE Next
  <2>1. PICK r \in Requests :
          /\ \/ Send(r) \/ BadCookie(r) \/ Reset(r) \/ Server(r)
             \/ Fail(r) \/ Stop(r) \/ OrphanLands(r) \/ OrphanLost(r)
          /\ \A q \in Requests \ {r} :
               pc'[q] = pc[q] /\ (q \in putting' <=> q \in putting)
    BY <1>2, OneRequestMoves
  <2>2. CASE Moves(r)
    <3>1. EditOf(r)'
      BY <2>2, EditOfAll, EditOfMover
    <3>2. ASSUME NEW q \in Requests \ {r} PROVE EditOf(q)'
      <4>1. q \notin putting' /\ pc'[q] \in {"unsent", "loading", "done"}
        BY <2>1, <2>2, OthersIdle
      <4> QED BY <4>1 DEF EditOf
    <3> QED BY <1>1, <3>1, <3>2 DEF EditInv, EditOf, TypeInv, TypeOK
  <2>3. CASE Send(r) \/ BadCookie(r) \/ Reset(r)
    <3>1. putting' = {} /\ pc'[r] \in {"loading", "done"} /\ Busy = {}
      BY <2>3 DEF Send, BadCookie, Reset, AnswerAtOnce, Arrive, MaySend, TypeInv, TypeOK
    <3>2. \A q \in Requests : pc'[q] \in {"unsent", "loading", "done"}
      BY <2>1, <3>1 DEF Busy
    <3> QED BY <3>1, <3>2 DEF EditInv
  <2> QED BY <2>1, <2>2, <2>3 DEF Moves
<1>3. CASE UNCHANGED vars
  BY <1>3 DEF vars, EditInv, OneEdit, Displayed
<1> QED BY <1>2, <1>3

-----------------------------------------------------------------------------
\* A PUT of a copy that is one edit ahead is a step of AtomicSession.
LEMMA EditIsAtomic ==
  ASSUME NEW u \in Users, NEW r \in Requests, store \in [Users -> Document],
         NEW d \in Document, OneEdit(d, store[u], r, Displayed),
         \A p \in Pages : store[u].answers[p] <= r,
         store' = [store EXCEPT ![u] = d], UNCHANGED shown
  PROVE  Atomic!Next \/ UNCHANGED <<store, shown>>
<1> USE RequestsAreNumbers
<1>0. store[u] \in Document
  OBVIOUS
<1>1. CASE d = NewDoc /\ store[u] = EmptyDoc
  BY <1>1 DEF Atomic!Next, Atomic!Create, Atomic!Edit, NewDoc
<1>2. ASSUME NEW p \in Pages, d = Answered(store[u], p, r)
      PROVE  Atomic!Next \/ UNCHANGED <<store, shown>>
  <2>1. store[u].answers[p] \in Nat /\ store[u].answers[p] <= r
    BY <1>0, AnswersAreNumbers
  <2>2. CASE store[u].answers[p] < r
    BY <1>2, <2>2 DEF Answered, Atomic!Next, Atomic!Answer, Atomic!Edit
  <2>3. CASE store[u].answers[p] = r
    <3>1. d = store[u]
      BY <1>0, <1>2, <2>3 DEF Answered, Document
    <3> QED BY <3>1
  <2> QED BY <2>1, <2>2, <2>3
<1>3. CASE d = Notified(store[u], r)
  BY <1>3 DEF Notified, Atomic!Next, Atomic!Notify, Atomic!Edit
<1>4. ASSUME NEW p \in Pages, d = Visited(store[u], p)
      PROVE  Atomic!Next
  BY <1>4 DEF Visited, Atomic!Next, Atomic!Visit, Atomic!Edit
<1>5. CASE d = FlashCleared(store[u]) /\ store[u].flash \subseteq Displayed
  <2>1. \A m \in store[u].flash : \E q \in Requests : m \in shown[q]
    BY <1>5 DEF Displayed
  <2>2. Atomic!Clear(u)
    BY <1>5, <2>1 DEF FlashCleared, Atomic!Clear, Atomic!Edit
  <2> QED BY <2>2 DEF Atomic!Next
<1> QED BY <1>1, <1>2, <1>3, <1>4, <1>5 DEF OneEdit

LEMMA AtomicStep ==
  ASSUME Client = "patient", TypeInv, FormsInv, PatientInv, EditInv, Next
  PROVE  Atomic!Next \/ UNCHANGED <<store, shown>>
<1> USE DEF history
<1>1. PICK r \in Requests :
        \/ Send(r) \/ BadCookie(r) \/ Reset(r) \/ Server(r)
        \/ Fail(r) \/ Stop(r) \/ OrphanLands(r) \/ OrphanLost(r)
  BY DEF Next
<1>2. EditOf(r) /\ store \in [Users -> Document] /\ doc[r] \in Document
  BY EditOfAll DEF TypeInv, TypeOK
<1>3. ASSUME Put(r), UNCHANGED shown
      PROVE  Atomic!Next \/ UNCHANGED <<store, shown>>
  <2>1. r \in putting /\ uid[r] \in Users /\ r = sent
    BY <1>3 DEF Put, PatientInv, TypeInv, Numbered
  <2>2. \A p \in Pages : store[uid[r]].answers[p] <= r
    BY <2>1, AnswersSent DEF FormsInv, TypeInv, TypeOK
  <2>3. /\ OneEdit(doc[r], store[uid[r]], r, Displayed)
        /\ store' = [store EXCEPT ![uid[r]] = doc[r]]
    BY <1>2, <1>3, <2>1 DEF EditOf, Put
  <2> QED BY <1>2, <1>3, <2>1, <2>2, <2>3, EditIsAtomic
<1>4. CASE PutVisited(r)
  <2>1. /\ pc[r] = "visiting" /\ uid[r] \in Users
        /\ store' = [store EXCEPT ![uid[r]] = doc[r]]
        /\ shown' = [shown EXCEPT ![r] = doc[r].flash]
    BY <1>4 DEF PutVisited, Put, Render, TypeInv, Numbered
  <2>2. shown[r] = {}
    BY <2>1 DEF PatientInv
  <2>3. PICK p \in Pages : doc[r] = Visited(store[uid[r]], p)
    BY <1>2, <2>1 DEF EditOf
  <2>4. doc[r].flash = store[uid[r]].flash
    BY <1>2, <2>1, <2>3 DEF Visited, Document
  <2>5. store' = [store EXCEPT ![uid[r]].visited = @ \cup {p}]
    BY <1>2, <2>1, <2>3 DEF Visited
  <2>6. Atomic!Show(uid[r])
    BY <2>1, <2>2, <2>4, <2>5 DEF Atomic!Show
  <2> QED BY <2>1, <2>6 DEF Atomic!Next
<1>5. CASE ShowStart(r)
  <2>1. /\ pc[r] = "handling" /\ uid[r] \in Users /\ UNCHANGED store
        /\ shown' = [shown EXCEPT ![r] = doc[r].flash]
    BY <1>5 DEF ShowStart, Render, TypeInv, Numbered
  <2>2. shown[r] = {} /\ doc[r] = store[uid[r]]
    BY <1>2, <2>1 DEF PatientInv, EditOf
  <2>3. Atomic!Show(uid[r])
    BY <2>1, <2>2 DEF Atomic!Show
  <2> QED BY <2>1, <2>3 DEF Atomic!Next
<1>6. CASE PutCreated(r) \/ PutRedirects(r) \/ PutInvalid(r) \/ PutCleared(r) \/ OrphanLands(r)
  BY <1>3, <1>6 DEF PutCreated, PutRedirects, PutInvalid, PutCleared, OrphanLands
<1>7. CASE \/ Send(r) \/ BadCookie(r) \/ Reset(r) \/ Load(r) \/ Csrf(r) \/ Skip(r)
           \/ View(r) \/ Post(r) \/ Fail(r) \/ Stop(r) \/ OrphanLost(r)
  BY <1>7 DEF Send, BadCookie, Reset, Arrive, Load, Csrf, Skip, View, Post,
     Fail, Stop, Abandoned, OrphanLost
<1> QED BY <1>1, <1>4, <1>5, <1>6, <1>7 DEF Server

\* To a browser that waits for each request, the service is one that edits a
\* stored document by one edit at a time: the one to three PUTs of a request,
\* its failures and its late PUTs change nothing else.
THEOREM PatientSeesEdits ==
  ASSUME Client = "patient"
  PROVE  Spec => ImplementsAtomic
<1> DEFINE Inv == TypeInv /\ FormsInv /\ PatientInv /\ EditInv
<1>1. Init => Inv
  BY InitType, FormsInit, PatientInit, EditInit
<1>2. Inv /\ [Next]_vars => Inv'
  BY NextType, FormsNext, PatientStep, EditStep
<1>3. Init => Atomic!Init
  BY DEF Init, Atomic!Init
<1>4. Inv /\ [Next]_vars => [Atomic!Next]_<<store, shown>>
  <2>1. CASE UNCHANGED vars
    BY <2>1 DEF vars
  <2> QED BY <2>1, AtomicStep
<1> HIDE DEF Inv
<1> QED BY <1>1, <1>2, <1>3, <1>4, PTL DEF Spec, ImplementsAtomic, Atomic!Spec

-----------------------------------------------------------------------------
(***************************************************************************)
(* A message that a response displayed is gone from the stored documents   *)
(* once that response's own clean-up is through.                           *)
(***************************************************************************)
Gone(m) == \A u \in Users : m \notin store[u].flash

Once(q) == \A m \in shown[q] :
  /\ m <= q
  /\ uid[m] = uid[q]
  /\ q \in failed \/ pc[q] = "clearing" \/ Gone(m)

OnceInv == (\A q \in Requests : Once(q)) /\ FlashShownOnce

\* The messages a response displays are its user's, and stored.
LEMMA DisplaysStored ==
  ASSUME TypeInv, FormsInv, EditInv, NEW r \in Requests,
         ShowStart(r) \/ PutVisited(r)
  PROVE  /\ shown' = [shown EXCEPT ![r] = doc[r].flash]
         /\ pc'[r] = "clearing" /\ uid[r] \in Users
         /\ \A m \in doc[r].flash :
              m \in Requests /\ m <= sent /\ uid[m] = uid[r] /\ m \in store[uid[r]].flash
<1> USE DEF TypeInv, TypeOK
<1>1. /\ shown' = [shown EXCEPT ![r] = doc[r].flash]
      /\ pc'[r] = "clearing" /\ uid[r] \in Users
  BY DEF ShowStart, PutVisited, Render, Wait, Numbered
<1>2. doc[r] \in Document /\ store[uid[r]] \in Document
  BY <1>1
<1>3. doc[r].flash = store[uid[r]].flash
  <2>1. CASE ShowStart(r)
    BY <2>1, EditOfAll DEF ShowStart, EditOf
  <2>2. CASE PutVisited(r)
    <3>1. PICK p \in Pages : doc[r] = Visited(store[uid[r]], p)
      BY <2>2, EditOfAll DEF PutVisited, EditOf
    <3> QED BY <1>2, <3>1 DEF Visited, Document
  <2> QED BY <2>1, <2>2
<1>4. \A m \in doc[r].flash : m \in Requests /\ Holds(doc[r], m)
  BY <1>2 DEF Document, Holds
<1>5. Own(doc[r], uid[r])
  BY DEF FormsInv
<1> QED BY <1>1, <1>3, <1>4, <1>5 DEF Own

\* A step never puts another request's message into a document.
LEMMA FlashAdded ==
  ASSUME TypeInv, EditInv, NEW r \in Requests, Moves(r),
         NEW u \in Users, NEW m \in Requests, m \in store'[u].flash
  PROVE  m \in store[u].flash \/ m = r
<1> USE DEF TypeInv, TypeOK
<1>1. \/ UNCHANGED store
      \/ r \in putting /\ store' = [store EXCEPT ![uid[r]] = doc[r]]
  BY ServerEffects DEF Moves, ServerEffect
<1>2. CASE r \in putting /\ store' = [store EXCEPT ![uid[r]] = doc[r]]
  <2>1. OneEdit(doc[r], store[uid[r]], r, Displayed)
    BY <1>2 DEF EditInv
  <2>2. uid[r] \in Users /\ store[uid[r]] \in Document
    BY <1>2 DEF Numbered
  <2>3. doc[r].flash \subseteq store[uid[r]].flash \cup {r}
    BY <2>1, <2>2 DEF OneEdit, NewDoc, EmptyDoc, Answered, Notified, Visited, FlashCleared, Document
  <2> QED BY <1>2, <2>2, <2>3
<1> QED BY <1>1, <1>2

LEMMA OnceInit == Init => OnceInv
  BY DEF Init, OnceInv, Once, FlashShownOnce

\* What a request of a patient browser displayed, after its own next step.
LEMMA OnceOfMover ==
  ASSUME TypeInv, FormsInv, PatientInv, EditInv, OnceInv,
         NEW r \in Requests, r = sent, Moves(r)
  PROVE  Once(r)'
<1> USE DEF TypeInv, TypeOK, history
<1>1. UNCHANGED uid
  BY ServerEffects DEF Moves, ServerEffect
<1>2. CASE ShowStart(r) \/ PutVisited(r)
  BY <1>1, <1>2, DisplaysStored DEF Once
<1>3. CASE PutCleared(r)
  <2>1. /\ UNCHANGED shown /\ uid[r] \in Users /\ doc[r].flash = {}
        /\ store' = [store EXCEPT ![uid[r]] = doc[r]]
    BY <1>3 DEF PutCleared, Put, EditInv, Numbered
  <2>2. ASSUME NEW m \in shown[r], NEW u \in Users PROVE m \notin store'[u].flash
    <3>1. uid[m] = uid[r] /\ m \in Requests
      BY <2>2 DEF OnceInv, Once
    <3>2. CASE u = uid[r]
      BY <2>1, <3>2
    <3>3. CASE u # uid[r]
      BY <2>1, <3>1, <3>3 DEF FormsInv, Own, Holds
    <3> QED BY <3>2, <3>3
  <2> QED BY <1>1, <2>1, <2>2 DEF OnceInv, Once, Gone
<1>4. CASE Fail(r) \/ Stop(r)
  BY <1>1, <1>4 DEF Fail, Stop, Abandoned, OnceInv, Once
<1>5. CASE OrphanLands(r) \/ OrphanLost(r)
  <2>1. r \in failed /\ UNCHANGED <<shown, failed>>
    BY <1>5 DEF OrphanLands, OrphanLost, Put, EditInv
  <2> QED BY <1>1, <2>1 DEF OnceInv, Once
<1>6. CASE \/ Load(r) \/ Csrf(r) \/ Skip(r) \/ View(r) \/ Post(r)
           \/ PutCreated(r) \/ PutRedirects(r) \/ PutInvalid(r)
  <2>1. shown[r] = {} /\ UNCHANGED shown
    BY <1>6 DEF Load, Csrf, Skip, View, Post, PutCreated, PutRedirects, PutInvalid, PatientInv
  <2> QED BY <2>1 DEF Once
<1> QED BY <1>2, <1>3, <1>4, <1>5, <1>6 DEF Moves, Server

LEMMA OnceStep ==
  ASSUME Client = "patient", TypeInv, FormsInv, PatientInv, EditInv, OnceInv, [Next]_vars
  PROVE  OnceInv'
<1> USE DEF TypeInv, TypeOK
<1>1. CASE UNCHANGED vars
  BY <1>1 DEF vars, OnceInv, Once, Gone, FlashShownOnce
<1>2. CASE Next
  <2>1. PICK r \in Requests :
          /\ \/ Send(r) \/ BadCookie(r) \/ Reset(r) \/ Server(r)
             \/ Fail(r) \/ Stop(r) \/ OrphanLands(r) \/ OrphanLost(r)
          /\ \A q \in Requests \ {r} :
               uid'[q] = uid[q] /\ pc'[q] = pc[q] /\ shown'[q] = shown[q]
    BY <1>2, OneRequestMoves
  <2>2. \A q \in Requests : shown[q] # {} => q \in Nat /\ q <= sent /\ sent \in Nat
    BY RequestsAreNumbers DEF PatientInv, Numbered
  <2>3. CASE Moves(r)
    <3>1. r = sent /\ failed \subseteq failed'
      <4>1. r \in putting \/ pc[r] \notin {"unsent", "done"}
        BY <2>3 DEF Moves, Server, Load, Csrf, Skip, ShowStart, View, Post, PutCreated,
           PutRedirects, PutInvalid, PutVisited, PutCleared, Fail, Stop, Busy, OrphanLands,
           OrphanLost, Put
      <4>2. r = sent
        BY <4>1 DEF PatientInv
      <4>3. failed \subseteq failed'
        BY <2>3 DEF Moves, Server, Load, Csrf, Skip, ShowStart, View, Post, PutCreated,
           PutRedirects, PutInvalid, PutVisited, PutCleared, Fail, Stop, Abandoned,
           OrphanLands, OrphanLost, history
      <4> QED BY <4>2, <4>3
    <3>2. Once(r)'
      BY <2>3, <3>1, OnceOfMover
    <3>3. ASSUME NEW q \in Requests \ {r} PROVE Once(q)'
      <4>1. ASSUME NEW m \in shown[q]
            PROVE  /\ m \in Requests /\ m <= q /\ m # r /\ uid'[m] = uid'[q]
                   /\ q \in failed' \/ pc'[q] = "clearing" \/ Gone(m)'
        <5>1. /\ m \in Requests /\ m <= q /\ uid[m] = uid[q]
              /\ q \in failed \/ pc[q] = "clearing" \/ Gone(m)
          BY <4>1 DEF OnceInv, Once
        <5>2. m # r
          BY <2>2, <3>1, <4>1, <5>1, RequestsAreNumbers
        <5>3. Gone(m) => Gone(m)'
          BY <2>3, <5>1, <5>2, FlashAdded DEF Gone
        <5> QED BY <2>1, <3>1, <5>1, <5>2, <5>3
      <4> QED BY <2>1, <4>1 DEF Once
    <3>4. ASSUME NEW m \in Requests, NEW q \in Requests, NEW p \in Requests,
                 m \in shown'[q], m \in shown'[p], q < p
          PROVE  q \in failed'
      <4>1. CASE q # r /\ p # r
        BY <2>1, <3>1, <3>4, <4>1 DEF OnceInv, FlashShownOnce
      <4>2. CASE q = r
        <5>1. shown[p] # {} /\ r < p
          BY <2>1, <3>4, <4>2, RequestsAreNumbers
        <5> QED BY <2>2, <3>1, <5>1, RequestsAreNumbers
      <4>3. CASE p = r /\ q # r
        <5>1. m \in shown[q]
          BY <2>1, <3>4, <4>3
        <5>2. pc[q] \in {"unsent", "done"}
          BY <2>3, <4>3, OthersIdle
        <5>3. CASE ShowStart(r) \/ PutVisited(r)
          <6>1. m \in store[uid[r]].flash /\ uid[r] \in Users
            BY <3>4, <4>3, <5>3, DisplaysStored
          <6> QED BY <3>1, <5>1, <5>2, <6>1 DEF OnceInv, Once, Gone
        <5>4. CASE ~ShowStart(r) /\ ~PutVisited(r)
          <6>1. UNCHANGED shown
            BY <2>3, <5>4 DEF Moves, Server, Load, Csrf, Skip, View, Post, PutCreated,
               PutRedirects, PutInvalid, PutCleared, Fail, Stop, Abandoned,
               OrphanLands, OrphanLost, history
          <6> QED BY <3>1, <3>4, <6>1 DEF OnceInv, FlashShownOnce
        <5> QED BY <5>3, <5>4
      <4> QED BY <4>1, <4>2, <4>3
    <3> QED BY <3>2, <3>3, <3>4 DEF OnceInv, FlashShownOnce
  <2>4. CASE Send(r) \/ BadCookie(r) \/ Reset(r)
    <3>1. r = sent + 1 /\ UNCHANGED <<store, shown, failed>>
      BY <2>4 DEF Send, BadCookie, Reset, Arrive, history
    <3>2. ASSUME NEW q \in Requests, NEW m \in shown[q]
          PROVE  /\ m <= q /\ uid'[m] = uid'[q]
                 /\ q \in failed' \/ pc'[q] = "clearing" \/ Gone(m)'
      <4>1. /\ m \in Requests /\ m <= q /\ uid[m] = uid[q]
            /\ q \in failed \/ pc[q] = "clearing" \/ Gone(m)
        BY <3>2 DEF OnceInv, Once
      <4>2. q # r /\ m # r
        BY <2>2, <3>1, <3>2, <4>1, RequestsAreNumbers
      <4> QED BY <2>1, <3>1, <4>1, <4>2 DEF Gone
    <3> QED BY <3>1, <3>2 DEF OnceInv, Once, FlashShownOnce
  <2> QED BY <2>1, <2>3, <2>4 DEF Moves
<1> QED BY <1>1, <1>2

\* A browser that waits is shown a message a second time only when the first
\* response's own clean-up failed.
THEOREM PatientFlashOnce ==
  ASSUME Client = "patient"
  PROVE  Spec => []FlashShownOnce
<1> DEFINE Inv == TypeInv /\ FormsInv /\ PatientInv /\ EditInv /\ OnceInv
<1>1. Init => Inv
  BY InitType, FormsInit, PatientInit, EditInit, OnceInit
<1>2. Inv /\ [Next]_vars => Inv'
  BY NextType, FormsNext, PatientStep, EditStep, OnceStep
<1>3. Inv => FlashShownOnce
  BY DEF OnceInv
<1> HIDE DEF Inv
<1> QED BY <1>1, <1>2, <1>3, PTL DEF Spec

-----------------------------------------------------------------------------
(***************************************************************************)
(* Sessions, whatever the browser does.  A user id is never younger than   *)
(* the latest request.                                                     *)
(***************************************************************************)
IdsSent ==
  /\ \A r \in Requests : pc[r] # "unsent" => uid[r] <= sent
  /\ cookie # None => cookie <= sent
  /\ \A u \in closed : u <= sent

LEMMA IdsInit == Init => IdsSent
  BY DEF Init, IdsSent

\* What the browser's own step makes of the user ids.
LEMMA BrowserIds ==
  ASSUME TypeInv, IdsSent, NEW r \in Requests, Send(r) \/ BadCookie(r) \/ Reset(r)
  PROVE  /\ r = sent + 1 /\ sent' = r /\ pc[r] = "unsent"
         /\ UNCHANGED <<doc, putting, store, closed>>
         /\ pc'[r] \in {"loading", "done"}
         /\ cookie' \in {cookie, None, r}
         /\ cookie' = r => pc'[r] = "done"
         /\ \/ uid'[r] = r
            \/ uid'[r] = cookie /\ cookie # None /\ ~fresh'[r]
<1> USE DEF TypeInv, TypeOK, history
<1>1. PICK o \in Ops, c \in {cookie, None} :
        Arrive(r, o, c) /\ \/ pc'[r] = "loading" /\ cookie' = c
                           \/ pc'[r] = "done" /\ cookie' \in {None, r}
  BY ResetIsOp DEF Send, BadCookie, Reset, AnswerAtOnce
<1>2. r = sent + 1 /\ sent' = r /\ UNCHANGED <<doc, putting, store, closed>>
  BY <1>1 DEF Arrive
<1>3. pc[r] = "unsent"
  BY <1>2, RequestsAreNumbers DEF Numbered
<1>4. \/ uid'[r] = r
      \/ uid'[r] = cookie /\ cookie # None /\ ~fresh'[r]
  BY <1>1 DEF Arrive
<1>5. cookie # r
  BY <1>2, RequestsAreNumbers DEF IdsSent, None
<1>6. cookie' \in {cookie, None, r} /\ (cookie' = r => pc'[r] = "done")
  BY <1>1, <1>5, RequestsAreNumbers
<1> QED BY <1>1, <1>2, <1>3, <1>4, <1>6

\* A response sets the cookie it was given or clears it.
LEMMA MoverCookie ==
  ASSUME TypeInv, NEW r \in Requests, Moves(r)
  PROVE  /\ UNCHANGED <<sent, uid, fresh>> /\ pc[r] # "unsent" /\ uid[r] \in Users
         /\ cookie' \in {cookie, None, uid[r]}
         /\ cookie' # cookie => r \in Busy
         /\ closed' # closed => closed' = closed \cup {uid[r]} /\ cookie' = None
<1> USE DEF TypeInv, TypeOK, history
<1>1. /\ UNCHANGED <<sent, uid, fresh>> /\ pc[r] # "unsent"
      /\ cookie' \in {cookie, None, uid[r]}
  BY ServerEffects DEF Moves, ServerEffect, Server, Load, Csrf, Skip, ShowStart, View, Post,
     PutCreated, PutRedirects, PutInvalid, PutVisited, PutCleared, Fail, Stop, Busy,
     OrphanLands, OrphanLost, Put, Numbered
<1>2. CASE \/ Load(r) \/ View(r) \/ Post(r) \/ PutCreated(r) \/ PutInvalid(r) \/ PutCleared(r)
           \/ Stop(r) \/ OrphanLands(r) \/ OrphanLost(r)
  BY <1>1, <1>2 DEF Load, View, Post, PutCreated, PutInvalid, PutCleared, Stop,
     OrphanLands, OrphanLost, Abandoned, Numbered
<1>3. CASE Csrf(r) \/ Skip(r) \/ PutRedirects(r) \/ Fail(r)
  BY <1>1, <1>3 DEF Csrf, Skip, PutRedirects, Fail, Abandoned, Finish, Respond, Busy, Numbered
<1>4. CASE ShowStart(r)
  BY <1>1, <1>4 DEF ShowStart, Render, Respond, Wait, Busy, Numbered
<1>5. CASE PutVisited(r)
  BY <1>1, <1>5 DEF PutVisited, Render, Respond, Wait, CookieAfter, Busy, Numbered
<1> QED BY <1>2, <1>3, <1>4, <1>5 DEF Moves, Server

LEMMA IdsStep ==
  ASSUME TypeInv, IdsSent, [Next]_vars
  PROVE  IdsSent'
<1> USE DEF TypeInv, TypeOK
<1>1. CASE UNCHANGED vars
  BY <1>1 DEF vars, IdsSent
<1>2. CASE Next
  <2>1. PICK r \in Requests :
          /\ \/ Send(r) \/ BadCookie(r) \/ Reset(r) \/ Server(r)
             \/ Fail(r) \/ Stop(r) \/ OrphanLands(r) \/ OrphanLost(r)
          /\ \A q \in Requests \ {r} : uid'[q] = uid[q] /\ pc'[q] = pc[q]
    BY <1>2, OneRequestMoves
  <2>2. CASE Send(r) \/ BadCookie(r) \/ Reset(r)
    <3>1. /\ r = sent + 1 /\ sent' = r /\ UNCHANGED closed
          /\ cookie' \in {cookie, None, r}
          /\ uid'[r] = r \/ (uid'[r] = cookie /\ cookie # None)
      BY <2>2, BrowserIds
    <3>2. /\ \A q \in Requests : pc[q] # "unsent" => uid[q] \in Nat /\ uid[q] <= sent
          /\ cookie # None => cookie \in Nat /\ cookie <= sent
          /\ \A u \in closed : u \in Nat /\ u <= sent
      BY RequestsAreNumbers DEF IdsSent, None, Numbered
    <3> QED BY <2>1, <3>1, <3>2 DEF IdsSent
  <2>3. CASE Moves(r)
    <3>1. /\ UNCHANGED <<sent, uid>> /\ pc[r] # "unsent"
          /\ cookie' \in {cookie, None, uid[r]} /\ closed' \subseteq closed \cup {uid[r]}
      BY <2>3, MoverCookie
    <3> QED BY <2>1, <3>1 DEF IdsSent
  <2> QED BY <2>1, <2>2, <2>3 DEF Moves
<1> QED BY <1>1, <1>2

LEMMA CloseStep ==
  ASSUME TypeInv, IdsSent, Next,
         NEW u \in closed', u \in closed => cookie # u /\ \A r \in Busy : uid[r] # u
  PROVE  cookie' # u
<1> USE RequestsAreNumbers DEF TypeInv, TypeOK
<1>1. PICK r \in Requests :
        \/ Send(r) \/ BadCookie(r) \/ Reset(r) \/ Server(r)
        \/ Fail(r) \/ Stop(r) \/ OrphanLands(r) \/ OrphanLost(r)
  BY DEF Next
<1>2. u \in Users /\ u # None
  <2>1. TypeOK'
    BY NextType
  <2> QED BY <2>1
<1>3. CASE Send(r) \/ BadCookie(r) \/ Reset(r)
  BY <1>2, <1>3, BrowserIds DEF IdsSent
<1>4. CASE Moves(r)
  BY <1>2, <1>4, MoverCookie
<1> QED BY <1>1, <1>3, <1>4 DEF Moves

\* With any number of tabs and failures: the confirmation page takes the session,
\* and only a request of that session still under way brings it back.
THEOREM ConfirmationEnds == Spec => ConfirmationEndsSession
<1>1. TypeInv /\ IdsSent /\ [Next]_vars => (TypeInv /\ IdsSent)'
  BY NextType, IdsStep
<1>2. TypeInv /\ IdsSent /\ [Next]_vars =>
        [\A u \in closed' :
           (u \in closed => cookie # u /\ \A r \in Busy : uid[r] # u) => cookie' # u]_vars
  BY CloseStep
<1> QED BY InitType, IdsInit, <1>1, <1>2, PTL DEF Spec, ConfirmationEndsSession

-----------------------------------------------------------------------------
(***************************************************************************)
(* The creation date, when no PUT outlives its request.  Until a new       *)
(* session's first PUT is over its user id is known to that request alone, *)
(* and from then on every copy agrees with the stored document.            *)
(***************************************************************************)
Beginning(r) == pc[r] \in {"loading", "creating"} /\ fresh[r]

Copied(r) == pc[r] \in {"handling", "saving", "visiting", "clearing"}

OwnCreated(r) ==
  /\ fresh[r] /\ pc[r] # "unsent" => uid[r] = r
  /\ pc[r] = "creating" => fresh[r] /\ doc[r].created
  /\ r \in putting => pc[r] \in {"creating", "saving", "visiting", "clearing"}
  /\ Copied(r) => doc[r].created = store[uid[r]].created

Unknown(r) == cookie # r /\ \A q \in Requests \ {r} : pc[q] # "unsent" => uid[q] # r

CreatedInv ==
  /\ \A r \in Requests : OwnCreated(r)
  /\ \A r \in Requests : Beginning(r) => Unknown(r)

LEMMA CreatedInit == Init => CreatedInv
  BY RequestsAreNumbers DEF Init, CreatedInv, OwnCreated, Beginning, Copied

\* The edits of a document leave its creation date alone.
LEMMA EditsKeepCreated ==
  ASSUME NEW d \in Document, NEW r \in Requests
  PROVE  /\ NewDoc.created
         /\ \A p \in Pages : /\ Answered(d, p, r).created = d.created
                             /\ Visited(d, p).created = d.created
         /\ Notified(d, r).created = d.created
         /\ FlashCleared(d).created = d.created
  BY DEF Document, NewDoc, EmptyDoc, Answered, Visited, Notified, FlashCleared

\* What a request does to its own copy and to the stored document.
LEMMA CreatedOfMover ==
  ASSUME ~Orphans, TypeInv, NEW r \in Requests, OwnCreated(r), Moves(r)
  PROVE  /\ OwnCreated(r)'
         /\ Beginning(r)' => Beginning(r) /\ UNCHANGED cookie
         /\ \/ \A u \in Users : store'[u].created = store[u].created
            \/ /\ Beginning(r) /\ uid[r] = r /\ store'[r].created
               /\ \A u \in Users \ {r} : store'[u] = store[u]
<1> USE DEF TypeInv, TypeOK, history
<1>0. /\ pc[r] # "unsent" /\ uid[r] \in Users /\ UNCHANGED <<uid, fresh>>
      /\ doc[r] \in Document /\ store[uid[r]] \in Document
  BY MoverCookie
<1> DEFINE Same == \A u \in Users : store'[u].created = store[u].created
<1>1. CASE Load(r)
  <2>1. CASE fresh[r]
    BY <1>0, <1>1, <2>1, EditsKeepCreated DEF Load, Wait, OwnCreated, Beginning, Copied
  <2>2. CASE ~fresh[r]
    BY <1>0, <1>1, <2>2 DEF Load, Loads, OwnCreated, Beginning, Copied
  <2> QED BY <2>1, <2>2
<1>2. CASE Csrf(r) \/ Skip(r)
  BY <1>0, <1>2 DEF Csrf, Skip, Finish, Respond, OwnCreated, Beginning, Copied
<1>3. CASE ShowStart(r)
  <2>1. /\ pc[r] = "handling" /\ pc'[r] = "clearing" /\ UNCHANGED store
        /\ doc'[r] = FlashCleared(doc[r])
    BY <1>3 DEF ShowStart, Render, Wait
  <2> QED BY <1>0, <2>1, EditsKeepCreated DEF OwnCreated, Beginning, Copied
<1>4. CASE View(r)
  <2>1. /\ pc[r] = "handling" /\ pc'[r] = "visiting" /\ UNCHANGED store
        /\ op[r].page \in Pages /\ doc'[r] = Visited(doc[r], op[r].page)
    BY <1>4, OpPages DEF View, Wait
  <2> QED BY <1>0, <2>1, EditsKeepCreated DEF OwnCreated, Beginning, Copied
<1>5. CASE Post(r)
  <2>1. /\ pc[r] = "handling" /\ pc'[r] = "saving" /\ UNCHANGED store
        /\ \/ op[r].page \in Pages /\ doc'[r] = Answered(doc[r], op[r].page, r)
           \/ doc'[r] = Notified(doc[r], r)
    BY <1>5, OpPages DEF Post, Posts, Wait
  <2> QED BY <1>0, <2>1, EditsKeepCreated DEF OwnCreated, Beginning, Copied
<1>6. CASE PutCreated(r)
  <2>1. /\ pc[r] = "creating" /\ pc'[r] = "handling" /\ UNCHANGED doc
        /\ putting' = putting \ {r}
        /\ store' = [store EXCEPT ![uid[r]] = doc[r]]
    BY <1>6 DEF PutCreated, Put
  <2>2. Beginning(r) /\ uid[r] = r /\ doc[r].created
    BY <1>0, <2>1 DEF OwnCreated, Beginning
  <2> QED BY <1>0, <2>1, <2>2 DEF OwnCreated, Beginning, Copied
<1>7. ASSUME Copied(r), store' = [store EXCEPT ![uid[r]] = doc[r]]
      PROVE  Same /\ store'[uid[r]] = doc[r]
  BY <1>0, <1>7 DEF OwnCreated
<1>8. CASE PutRedirects(r) \/ PutCleared(r)
  <2>1. /\ Copied(r) /\ pc'[r] = "done" /\ putting' = putting \ {r}
        /\ store' = [store EXCEPT ![uid[r]] = doc[r]]
    BY <1>8 DEF PutRedirects, PutCleared, Put, Finish, Copied
  <2> QED BY <1>0, <1>7, <2>1 DEF OwnCreated, Beginning, Copied
<1>9. CASE PutInvalid(r)
  <2>1. /\ Copied(r) /\ pc'[r] = "visiting" /\ op[r].page \in Pages
        /\ doc'[r] = Visited(doc[r], op[r].page)
        /\ store' = [store EXCEPT ![uid[r]] = doc[r]]
    BY <1>9, OpPages DEF PutInvalid, Put, Wait, Copied
  <2> QED BY <1>0, <1>7, <2>1, EditsKeepCreated DEF OwnCreated, Beginning, Copied
<1>10. CASE PutVisited(r)
  <2>1. /\ Copied(r) /\ pc'[r] = "clearing"
        /\ doc'[r] = FlashCleared(doc[r])
        /\ store' = [store EXCEPT ![uid[r]] = doc[r]]
    BY <1>10 DEF PutVisited, Put, Render, Wait, Copied
  <2> QED BY <1>0, <1>7, <2>1, EditsKeepCreated DEF OwnCreated, Beginning, Copied
<1>11. CASE Fail(r) \/ Stop(r)
  <2>1. pc'[r] = "done" /\ putting' = putting \ {r} /\ UNCHANGED <<doc, store>>
    BY <1>11 DEF Fail, Stop, Abandoned
  <2> QED BY <1>0, <2>1 DEF OwnCreated, Beginning, Copied
<1>12. CASE OrphanLands(r) \/ OrphanLost(r)
  BY <1>12 DEF OrphanLands, OrphanLost, Put, OwnCreated, Copied
<1> QED
  BY <1>1, <1>2, <1>3, <1>4, <1>5, <1>6, <1>8, <1>9, <1>10, <1>11, <1>12 DEF Moves, Server

LEMMA CreatedStep ==
  ASSUME ~Orphans, TypeInv, IdsSent, CreatedInv, [Next]_vars
  PROVE  /\ CreatedInv'
         /\ \A u \in Users : store[u].created => store'[u].created
<1> USE DEF TypeInv, TypeOK
<1>1. CASE UNCHANGED vars
  BY <1>1 DEF vars, CreatedInv, OwnCreated, Beginning, Copied, Unknown
<1>2. CASE Next
  <2>1. PICK r \in Requests :
          /\ \/ Send(r) \/ BadCookie(r) \/ Reset(r) \/ Server(r)
             \/ Fail(r) \/ Stop(r) \/ OrphanLands(r) \/ OrphanLost(r)
          /\ \A q \in Requests \ {r} :
               /\ uid'[q] = uid[q] /\ pc'[q] = pc[q] /\ doc'[q] = doc[q]
               /\ fresh'[q] = fresh[q] /\ (q \in putting' <=> q \in putting)
    BY <1>2, OneRequestMoves
  <2>2. CASE Send(r) \/ BadCookie(r) \/ Reset(r)
    <3>1. /\ r = sent + 1 /\ sent' = r /\ pc[r] = "unsent"
          /\ UNCHANGED <<doc, putting, store>>
          /\ pc'[r] \in {"loading", "done"}
          /\ cookie' \in {cookie, None, r}
          /\ cookie' = r => pc'[r] = "done"
          /\ uid'[r] = r \/ (uid'[r] = cookie /\ cookie # None /\ ~fresh'[r])
      BY <2>2, BrowserIds
    <3>2. OwnCreated(r)'
      BY <3>1 DEF CreatedInv, OwnCreated, Copied
    <3>3. ASSUME NEW q \in Requests \ {r} PROVE OwnCreated(q)'
      BY <2>1, <3>1 DEF CreatedInv, OwnCreated, Copied
    <3>4. Beginning(r)' => Unknown(r)'
      <4>1. ASSUME NEW q \in Requests \ {r}, pc'[q] # "unsent" PROVE uid'[q] # r
        <5>1. uid'[q] \in Nat /\ uid'[q] <= sent
          BY <2>1, <4>1, RequestsAreNumbers DEF IdsSent, Numbered
        <5> QED BY <3>1, <5>1, RequestsAreNumbers
      <4>2. pc'[r] = "loading" => cookie' # r
        BY <3>1
      <4> QED BY <3>1, <4>1, <4>2 DEF Beginning, Unknown
    <3>5. ASSUME NEW q \in Requests \ {r}, Beginning(q)' PROVE Unknown(q)'
      <4>1. Unknown(q)
        BY <2>1, <3>5 DEF CreatedInv, Beginning
      <4>2. cookie' # q /\ uid'[r] # q
        BY <3>1, <4>1, RequestsAreNumbers DEF Unknown
      <4> QED BY <2>1, <4>1, <4>2 DEF Unknown
    <3> QED BY <3>1, <3>2, <3>3, <3>4, <3>5 DEF CreatedInv
  <2>3. CASE Moves(r)
    <3>1. /\ OwnCreated(r)'
          /\ Beginning(r)' => Beginning(r) /\ UNCHANGED cookie
          /\ \/ \A u \in Users : store'[u].created = store[u].created
             \/ /\ Beginning(r) /\ uid[r] = r /\ store'[r].created
                /\ \A u \in Users \ {r} : store'[u] = store[u]
      BY <2>3, CreatedOfMover DEF CreatedInv
    <3>2. /\ pc[r] # "unsent" /\ uid[r] \in Users /\ UNCHANGED uid
          /\ cookie' \in {cookie, None, uid[r]}
      BY <2>3, MoverCookie
    <3>3. ASSUME NEW q \in Requests \ {r} PROVE OwnCreated(q)'
      <4>1. Copied(q) => uid[q] \in Users /\ store'[uid[q]].created = store[uid[q]].created
        <5>1. Copied(q) => pc[q] # "unsent" /\ uid[q] \in Users
          BY DEF Copied, Numbered
        <5>2. Beginning(r) /\ pc[q] # "unsent" => uid[q] # r
          BY DEF CreatedInv, Unknown
        <5> QED BY <3>1, <5>1, <5>2
      <4>2. OwnCreated(q)
        BY DEF CreatedInv
      <4> QED BY <2>1, <4>1, <4>2 DEF OwnCreated, Copied
    <3>4. Beginning(r)' => Unknown(r)'
      BY <2>1, <3>1, <3>2 DEF CreatedInv, Unknown
    <3>5. ASSUME NEW q \in Requests \ {r}, Beginning(q)' PROVE Unknown(q)'
      <4>1. Unknown(q)
        BY <2>1, <3>5 DEF CreatedInv, Beginning
      <4>2. uid[r] # q
        BY <3>2, <4>1 DEF Unknown
      <4> QED BY <2>1, <3>2, <4>1, <4>2, RequestsAreNumbers DEF Unknown
    <3>6. \A u \in Users : store[u].created => store'[u].created
      BY <3>1
    <3> QED BY <3>1, <3>3, <3>4, <3>5, <3>6 DEF CreatedInv
  <2> QED BY <2>1, <2>2, <2>3 DEF Moves
<1> QED BY <1>1, <1>2

\* With any number of tabs: no later PUT loses the creation date of a session's
\* document, as long as no PUT outlives its request.
THEOREM CreationDateKept ==
  ASSUME ~Orphans
  PROVE  Spec => CreatedKept
<1>1. Init => TypeInv /\ IdsSent /\ CreatedInv
  BY InitType, IdsInit, CreatedInit
<1>2. TypeInv /\ IdsSent /\ CreatedInv /\ [Next]_vars => (TypeInv /\ IdsSent /\ CreatedInv)'
  BY NextType, IdsStep, CreatedStep
<1>3. TypeInv /\ IdsSent /\ CreatedInv /\ [Next]_vars =>
        [\A u \in Users : store[u].created => store'[u].created]_vars
  BY CreatedStep
<1> QED BY <1>1, <1>2, <1>3, PTL DEF Spec, CreatedKept

=============================================================================
