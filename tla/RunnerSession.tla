---------------------------- MODULE RunnerSession ----------------------------
(***************************************************************************)
(* One browser, the runner and the user datastore (remote mode).           *)
(*                                                                         *)
(* The runner keeps no state between two requests: every request loads the *)
(* whole user document, works on its own copy and PUTs the whole copy back *)
(* one to three times, without a version.  The last PUT of a rendered page *)
(* is sent after the response (middleware/routes-metadata, pageHandler).   *)
(*                                                                         *)
(* Requests are numbered in the order the browser sends them.  An answer   *)
(* and a flash message are named by the request that posted them, a user   *)
(* id by the request whose session middleware created it.                  *)
(***************************************************************************)
EXTENDS Naturals

CONSTANTS
  MaxRequests,   \* bound: how many requests the browser sends
  Pages,         \* pages reached through another page (they have a previouspage)
  Kinds,         \* bound: the kinds of request the browser sends
  Forwarded,     \* whether posts come with an x-forwarded-host: TRUE, FALSE or both
  Client,        \* "patient", "singleTab" or "tabs": when the next request may be sent
  Orphans        \* whether a PUT may land after its request has failed

ASSUME MaxRequestsAssumption == MaxRequests \in Nat \ {0}
ASSUME KindsAssumption ==
  Kinds \subseteq {"start", "view", "confirm", "reset", "answer", "notify"}
ASSUME ForwardedAssumption == Forwarded \subseteq BOOLEAN
ASSUME ClientAssumption == Client \in {"patient", "singleTab", "tabs"}
ASSUME OrphansAssumption == Orphans \in BOOLEAN

Requests == 1..MaxRequests
Users    == Requests
None     == 0              \* no answer, no cookie, no user

VARIABLES
  sent,      \* the number of requests sent so far
  op,        \* what each request asks for
  uid,       \* the user id the session middleware gave the request
  fresh,     \* req.newSession
  pc,        \* what the request is waiting for
  doc,       \* the request's own copy of the user document
  putting,   \* requests with a PUT of their copy under way
  store,     \* the user datastore: the document of every user
  cookie,    \* the browser's session cookie
  reply,     \* the response to each request
  shown,     \* history: the flash messages each response displayed
  saved,     \* history: posts whose effect reached the datastore
  failed,    \* history: requests one of whose PUTs did not succeed
  closed     \* history: users who were shown the confirmation page

vars == <<sent, op, uid, fresh, pc, doc, putting, store, cookie, reply,
          shown, saved, failed, closed>>
history == <<shown, saved, failed, closed>>

(***************************************************************************)
(* The user document.  A missing document (404) reads as the empty one.    *)
(***************************************************************************)
Document == [answers : [Pages -> Requests \cup {None}],
             flash   : SUBSET Requests,
             visited : SUBSET Pages,
             created : BOOLEAN]

EmptyDoc == [answers |-> [p \in Pages |-> None], flash |-> {},
             visited |-> {}, created |-> FALSE]

NewDoc == [EmptyDoc EXCEPT !.created = TRUE]

\* mutant of Answered: the answer of another post
AnsweredByNext(d, p, r) == [d EXCEPT !.answers[p] = r + 1]
Answered(d, p, r)  == [d EXCEPT !.answers[p] = r]
Notified(d, r)     == [d EXCEPT !.flash = @ \cup {r}]
FlashCleared(d)    == [d EXCEPT !.flash = {}]
Visited(d, p)      == [d EXCEPT !.visited = @ \cup {p}]

(***************************************************************************)
(* The requests a browser makes: GET of the start page, of another page or *)
(* of the confirmation page, a form posted with answers or one that leaves *)
(* a flash message, and /reset.  A form carries the CSRF token of the user *)
(* it was rendered for, and a post is forwarded when validateCsrf finds    *)
(* the x-forwarded-host header of the proxy in front of the runner.        *)
(***************************************************************************)
Ops == [kind : {"start", "reset"}, page : {None}, token : {None}, forwarded : {TRUE}]
  \cup [kind : {"view", "confirm"}, page : Pages, token : {None}, forwarded : {TRUE}]
  \cup [kind : {"answer"}, page : Pages, token : Users, forwarded : Forwarded]
  \cup [kind : {"notify"}, page : {None}, token : Users, forwarded : Forwarded]

Posts == {"answer", "notify"}
ResetOp == [kind |-> "reset", page |-> None, token |-> None, forwarded |-> TRUE]

\* the users for whom the browser holds a rendered form
FormUsers == {uid[q] : q \in {x \in Requests : reply[x] = "page"}}

Busy == {r \in Requests : pc[r] \notin {"unsent", "done"}}

MaySend == CASE Client = "patient"   -> Busy = {} /\ putting = {}
             [] Client = "singleTab" -> Busy \subseteq {r \in Requests : reply[r] # "none"}
             [] OTHER                -> TRUE

Init ==
  /\ sent = 0
  /\ op = [r \in Requests |-> [ResetOp EXCEPT !.kind = "start"]]
  /\ uid = [r \in Requests |-> None]
  /\ fresh = [r \in Requests |-> FALSE]
  /\ pc = [r \in Requests |-> "unsent"]
  /\ doc = [r \in Requests |-> EmptyDoc]
  /\ putting = {}
  /\ store = [u \in Users |-> EmptyDoc]
  /\ cookie = None
  /\ reply = [r \in Requests |-> "none"]
  /\ shown = [r \in Requests |-> {}]
  /\ saved = {}
  /\ failed = {}
  /\ closed = {}

-----------------------------------------------------------------------------
(***************************************************************************)
(* Session middleware (middleware/user-session).  It runs in one turn when *)
(* a request arrives; every response carries the cookie it decided on.     *)
(***************************************************************************)
Arrive(r, o, c) ==
  /\ r = sent + 1
  /\ MaySend
  /\ o.kind \in Posts => o.token \in FormUsers
  /\ sent' = r
  /\ op' = [op EXCEPT ![r] = o]
  /\ uid' = [uid EXCEPT ![r] = IF c = None THEN r ELSE c]
  /\ fresh' = [fresh EXCEPT ![r] = (c = None)]
  /\ UNCHANGED <<doc, putting, store>>
  /\ UNCHANGED history

\* the cookie's maxAge may have run out in the browser since the last response
Send(r) == \E o \in Ops, c \in {cookie, None} :
  /\ o.kind \in Kinds \ {"reset"}
  /\ Arrive(r, o, c)
  /\ pc' = [pc EXCEPT ![r] = "loading"]
  /\ cookie' = c
  /\ UNCHANGED reply

AnswerAtOnce(r, c) ==
  /\ pc' = [pc EXCEPT ![r] = "done"]
  /\ reply' = [reply EXCEPT ![r] = "skipped"]
  /\ cookie' = c

\* GET /reset is answered before the user document is loaded
Reset(r) ==
  /\ "reset" \in Kinds
  /\ Arrive(r, ResetOp, cookie)
  /\ AnswerAtOnce(r, None)

\* the cookie no longer decrypts: a new user id and a redirect, whatever was
\* asked for, and no document
BadCookie(r) ==
  /\ cookie # None
  /\ Arrive(r, ResetOp, None)
  /\ AnswerAtOnce(r, r)

-----------------------------------------------------------------------------
(***************************************************************************)
(* Steps of a request.  Wait(r, d, p) starts a PUT of d and waits for it.  *)
(***************************************************************************)
Wait(r, d, p) ==
  /\ doc' = [doc EXCEPT ![r] = d]
  /\ putting' = putting \cup {r}
  /\ pc' = [pc EXCEPT ![r] = p]

\* mutant of CookieAfter: the confirmation page leaves the cookie
CookieRolling(r) == uid[r]

\* pageHandler clears the cookie of a confirmation page before its first PUT
CookieAfter(r) ==
  IF op[r].kind = "confirm" /\ pc[r] = "visiting" THEN None ELSE uid[r]

Respond(r, how) ==
  /\ reply' = [reply EXCEPT ![r] = how]
  /\ cookie' = CookieAfter(r)

Finish(r, how) ==
  /\ Respond(r, how)
  /\ pc' = [pc EXCEPT ![r] = "done"]

\* mutant of Loads: every error is taken for a 404
LoadsAnyway(r) == {store[uid[r]], EmptyDoc}

\* what a load may return; a load that fails is Fail
Loads(r) == {store[uid[r]]}

\* loadUserData: a new session starts a document and PUTs it, any other
\* request takes the stored document as it is now
Load(r) ==
  /\ pc[r] = "loading"
  /\ IF fresh[r]
     THEN Wait(r, NewDoc, "creating")
     ELSE /\ \E d \in Loads(r) : doc' = [doc EXCEPT ![r] = d]
          /\ pc' = [pc EXCEPT ![r] = "handling"]
          /\ UNCHANGED putting
  /\ UNCHANGED <<sent, op, uid, fresh, store, cookie, reply>>
  /\ UNCHANGED history

\* mutant of Render: the cleared messages are not saved
RenderWithoutSave(r) ==
  /\ Finish(r, "page")
  /\ shown' = [shown EXCEPT ![r] = doc[r].flash]
  /\ doc' = [doc EXCEPT ![r] = FlashCleared(doc[r])]
  /\ putting' = putting \ {r}
  /\ closed' = IF op[r].kind = "confirm" THEN closed \cup {uid[r]} ELSE closed

\* the page is rendered and sent; then its flash messages are cleared and
\* the document is PUT once more
Render(r) ==
  /\ Respond(r, "page")
  /\ shown' = [shown EXCEPT ![r] = doc[r].flash]
  /\ Wait(r, FlashCleared(doc[r]), "clearing")
  /\ closed' = IF op[r].kind = "confirm" THEN closed \cup {uid[r]} ELSE closed

\* mutant of CsrfHolds: the token is not compared
CsrfUnchecked(r) == TRUE

\* validateCsrf looks at no token where the request has not been forwarded
CsrfHolds(r) == op[r].kind \in Posts /\ op[r].forwarded => op[r].token = uid[r]

\* mutant of Csrf: the rejection is not passed to the error handler
CsrfUnanswered(r) == FALSE
Csrf(r) ==
  /\ pc[r] = "handling"
  /\ ~CsrfHolds(r)
  /\ Finish(r, "error")
  /\ UNCHANGED <<sent, op, uid, fresh, doc, putting, store>>
  /\ UNCHANGED history

\* redirects that leave the document alone: a new session away from the start
\* page, a page whose show condition is false, a start page kept elsewhere
Skip(r) ==
  /\ pc[r] = "handling"
  /\ CsrfHolds(r)
  /\ \/ fresh[r] /\ op[r].kind \in {"view", "confirm"}
     \/ ~fresh[r] /\ op[r].kind \in {"view", "answer", "notify"}
     \/ op[r].kind = "start"
  /\ Finish(r, "skipped")
  /\ UNCHANGED <<sent, op, uid, fresh, doc, putting, store>>
  /\ UNCHANGED history

ShowStart(r) ==
  /\ pc[r] = "handling"
  /\ op[r].kind = "start"
  /\ Render(r)
  /\ UNCHANGED <<sent, op, uid, fresh, store, saved, failed>>

\* mutant of View: the messages are cleared before they are shown
ViewClearsFlash(r) ==
  /\ pc[r] = "handling"
  /\ op[r].kind \in {"view", "confirm"}
  /\ ~fresh[r]
  /\ Wait(r, FlashCleared(Visited(doc[r], op[r].page)), "visiting")
  /\ UNCHANGED <<sent, op, uid, fresh, store, cookie, reply>>
  /\ UNCHANGED history

\* a page with a previouspage is recorded as visited before it is rendered
View(r) ==
  /\ pc[r] = "handling"
  /\ op[r].kind \in {"view", "confirm"}
  /\ ~fresh[r]
  /\ Wait(r, Visited(doc[r], op[r].page), "visiting")
  /\ UNCHANGED <<sent, op, uid, fresh, store, cookie, reply>>
  /\ UNCHANGED history

\* mutant of Post: the PUT is not awaited
PostUnawaited(r) ==
  /\ pc[r] = "handling"
  /\ op[r].kind \in Posts
  /\ CsrfHolds(r)
  /\ Wait(r, IF op[r].kind = "answer" THEN Answered(doc[r], op[r].page, r)
                                      ELSE Notified(doc[r], r), "done")
  /\ Respond(r, "redirect")
  /\ UNCHANGED <<sent, op, uid, fresh, store>>
  /\ UNCHANGED history

Post(r) ==
  /\ pc[r] = "handling"
  /\ op[r].kind \in Posts
  /\ CsrfHolds(r)
  /\ Wait(r, IF op[r].kind = "answer" THEN Answered(doc[r], op[r].page, r)
                                      ELSE Notified(doc[r], r), "saving")
  /\ UNCHANGED <<sent, op, uid, fresh, store, cookie, reply>>
  /\ UNCHANGED history

-----------------------------------------------------------------------------
(***************************************************************************)
(* The datastore and the failures.  A PUT replaces the whole document.     *)
(***************************************************************************)
CarriesPost(r) ==
  \/ op[r].kind = "answer" /\ doc[r].answers[op[r].page] = r
  \/ op[r].kind = "notify" /\ r \in doc[r].flash

Put(r) ==
  /\ r \in putting
  /\ store' = [store EXCEPT ![uid[r]] = doc[r]]
  /\ saved' = IF CarriesPost(r) THEN saved \cup {r} ELSE saved

PutCreated(r) ==
  /\ pc[r] = "creating"
  /\ Put(r)
  /\ putting' = putting \ {r}
  /\ pc' = [pc EXCEPT ![r] = "handling"]
  /\ UNCHANGED <<sent, op, uid, fresh, doc, cookie, reply, shown, failed, closed>>

\* a valid form, a repeated item or an upload choice is answered by a redirect
PutRedirects(r) ==
  /\ pc[r] = "saving"
  /\ Put(r)
  /\ putting' = putting \ {r}
  /\ Finish(r, "redirect")
  /\ UNCHANGED <<sent, op, uid, fresh, doc, shown, failed, closed>>

\* an invalid form is saved too, then its page is shown again
PutInvalid(r) ==
  /\ pc[r] = "saving"
  /\ op[r].kind = "answer"
  /\ Put(r)
  /\ Wait(r, Visited(doc[r], op[r].page), "visiting")
  /\ UNCHANGED <<sent, op, uid, fresh, cookie, reply, shown, failed, closed>>

PutVisited(r) ==
  /\ pc[r] = "visiting"
  /\ Put(r)
  /\ Render(r)
  /\ UNCHANGED <<sent, op, uid, fresh, failed>>

PutCleared(r) ==
  /\ pc[r] = "clearing"
  /\ Put(r)
  /\ putting' = putting \ {r}
  /\ pc' = [pc EXCEPT ![r] = "done"]
  /\ UNCHANGED <<sent, op, uid, fresh, doc, cookie, reply, shown, failed, closed>>

Abandoned(r) ==
  /\ pc' = [pc EXCEPT ![r] = "done"]
  /\ putting' = IF Orphans THEN putting ELSE putting \ {r}
  /\ failed' = failed \cup {r}
  /\ UNCHANGED <<sent, op, uid, fresh, doc, store, shown, saved, closed>>

\* a load, a handler or a PUT throws before anything was sent
Fail(r) ==
  /\ pc[r] \in {"loading", "creating", "handling", "saving", "visiting"}
  /\ Respond(r, "error")
  /\ Abandoned(r)

\* the PUT after the response fails unseen, or the process goes down
Stop(r) ==
  /\ r \in Busy
  /\ Abandoned(r)
  /\ UNCHANGED <<cookie, reply>>

OrphanLands(r) ==
  /\ pc[r] = "done"
  /\ Put(r)
  /\ putting' = putting \ {r}
  /\ UNCHANGED <<sent, op, uid, fresh, pc, doc, cookie, reply, shown, failed, closed>>

OrphanLost(r) ==
  /\ pc[r] = "done"
  /\ r \in putting
  /\ putting' = putting \ {r}
  /\ UNCHANGED <<sent, op, uid, fresh, pc, doc, store, cookie, reply>>
  /\ UNCHANGED history

-----------------------------------------------------------------------------
Server(r) ==
  \/ Load(r) \/ Csrf(r) \/ Skip(r) \/ ShowStart(r) \/ View(r) \/ Post(r)
  \/ PutCreated(r) \/ PutRedirects(r) \/ PutInvalid(r) \/ PutVisited(r)
  \/ PutCleared(r)

Next == \E r \in Requests :
  \/ Send(r) \/ BadCookie(r) \/ Reset(r)
  \/ Server(r) \/ Fail(r) \/ Stop(r) \/ OrphanLands(r) \/ OrphanLost(r)

Spec == Init /\ [][Next]_vars

\* the runner goes on and the datastore answers; users and failures owe nothing
FairSpec == Spec /\ \A r \in Requests : WF_vars(Server(r))

-----------------------------------------------------------------------------
(***************************************************************************)
(* Properties.                                                             *)
(***************************************************************************)
\* Every variable keeps its type.
TypeOK ==
  /\ sent \in 0..MaxRequests
  /\ op \in [Requests -> Ops]
  /\ uid \in [Requests -> Users \cup {None}]
  /\ fresh \in [Requests -> BOOLEAN]
  /\ pc \in [Requests -> {"unsent", "loading", "creating", "handling",
                         "saving", "visiting", "clearing", "done"}]
  /\ doc \in [Requests -> Document]
  /\ putting \in SUBSET Requests
  /\ store \in [Users -> Document]
  /\ cookie \in Users \cup {None}
  /\ reply \in [Requests -> {"none", "redirect", "page", "skipped", "error"}]
  /\ shown \in [Requests -> SUBSET Requests]
  /\ saved \in SUBSET Requests
  /\ failed \in SUBSET Requests
  /\ closed \in SUBSET Users

\* A user who is sent on to the next page, or shown the form again, after a
\* post can rely on it: the post had reached the datastore before the response
\* (pageHandler awaits saveData before it redirects).
AcknowledgedPostWasStored ==
  \A r \in Requests :
    op[r].kind \in Posts /\ reply[r] \in {"redirect", "page"} => r \in saved

\* However the requests of several tabs, sessions and failures interleave, a
\* stored document holds only what requests of its own user posted, and of what
\* came through the proxy only what was posted from forms rendered for that user:
\* a form left open from an earlier session never writes into a later one.  A
\* post that was not forwarded does: its token is not looked at (csrf.js:40).
FormsStayInTheirSession ==
  \A u \in Users, r \in Requests :
    (r \in store[u].flash \/ \E p \in Pages : store[u].answers[p] = r)
      => uid[r] = u /\ (op[r].forwarded => op[r].token = u)

\* The creation date written with a new session's document is never lost again,
\* though every later PUT replaces the document (needs PUTs that do not outlive
\* their request).
CreatedKept ==
  [][\A u \in Users : store[u].created => store'[u].created]_vars

\* For a browser that waits until the runner has finished: a stored answer is
\* never replaced by an older one, nor dropped.
AnswersNeverRevert ==
  [][\A u \in Users, p \in Pages :
       store'[u].answers[p] >= store[u].answers[p]]_vars

\* "Store flash messages until such a time they can be displayed"
\* (middleware/user-data): a message that reached the datastore is still there
\* unless a response displayed it.
FlashKeptUntilShown ==
  \A m \in saved : op[m].kind = "notify" =>
    \/ m \in store[uid[m]].flash
    \/ \E r \in Requests : m \in shown[r]

\* For a browser that waits: a message is displayed a second time only if the
\* first response's own clean-up failed.
FlashShownOnce ==
  \A m, q, r \in Requests :
    m \in shown[q] /\ m \in shown[r] /\ q < r => q \in failed

\* The response with the confirmation page takes the session from the browser, and
\* only a request of that session that was still under way brings it back: once
\* those have ended, no rolling cookie, reset or error does.
ConfirmationEndsSession ==
  [][\A u \in closed' :
       (u \in closed => cookie # u /\ \A r \in Busy : uid[r] # u) => cookie' # u]_vars

\* Every request the browser sends comes to an end.
EveryRequestEnds == \A r \in Requests : pc[r] = "loading" ~> pc[r] = "done"

\* A patient browser sees one edit at a time.
Atomic == INSTANCE AtomicSession
            WITH Requests <- Requests, Users <- Users, Pages <- Pages, None <- None,
                 EmptyDoc <- EmptyDoc, store <- store, shown <- shown
ImplementsAtomic == Atomic!Spec
=============================================================================
