----------------------------- MODULE SaveReturn -----------------------------
(***************************************************************************)
(* Save and return: a user confirms an e-mail address (and a mobile) for   *)
(* the session that holds the answers, and comes back to that session      *)
(* later, in any browser, with a link (and a code).                        *)
(*                                                                         *)
(* The links, codes and records are kept by the save-and-return service,   *)
(* the answers by the user datastore.  A handler calls one after the other *)
(* and nothing is undone when a later call fails, so each action below     *)
(* stops after any of its calls.  Requests are handled one at a time here  *)
(* (RunnerSession has their interleaving).                                 *)
(***************************************************************************)
EXTENDS Naturals

CONSTANTS Browsers, Users, Emails,
          Values,   \* what may be answered
          None,     \* nothing: no cookie, no record, no e-mail, a user never made
          Gone      \* a document that the datastore has deleted

VARIABLES
  cookie,     \* cookie[b]: the session that browser b holds
  store,      \* store[u]: the stored document
  live,       \* the links and codes that were sent and are still valid
  records,    \* records[e]: what the service has for an e-mail address
  confirmed,  \* history: the addresses confirmed, with their sessions
  stranded,   \* history: addresses confirmed by a request that then failed
  told        \* history: what the last response said, if it promised anything

vars == <<cookie, store, live, records, confirmed, stranded, told>>

Document == [answers : Values \cup {None}, email : Emails \cup {None},
             mobile : BOOLEAN, authenticated : BOOLEAN]
EmptyDoc == [answers |-> None, email |-> None, mobile |-> FALSE, authenticated |-> FALSE]

\* loadData: a document that is not found is an empty one.
Doc(u) == IF store[u] \in {None, Gone} THEN EmptyDoc ELSE store[u]

Tells(b, page) == told' = IF page = None THEN None ELSE [browser |-> b, page |-> page]

\* How far a request with n calls gets: the calls that took effect, and whether
\* the runner has the answers to all of them.
Calls(n) == [made : 0..(n - 1), ended : {FALSE}] \cup [made : {n}, ended : BOOLEAN]

-----------------------------------------------------------------------------
(* The save-and-return service.  A token that was used, replaced or not sent *)
(* is the same as one that has expired: opening it shows a page that says so *)
(* and changes nothing.                                                      *)

Token == [kind : {"email", "mobile"}, email : Emails, user : Users]
           \cup [kind : {"magiclink", "code"}, email : Emails, user : {None}]

Record == [user : Users, mobile : BOOLEAN]

\* What a response may promise.
Told == [browser : Browsers, page : {"saved", "welcome", "answered"}]

ASSUME SaveReturnAssumption ==
  /\ None # Gone
  /\ {None, Gone} \cap Users = {}
  /\ {None, Gone} \cap Document = {}
  /\ None \notin Emails
  /\ None \notin Record
  /\ None \notin Told
  /\ None \notin {"saved", "welcome", "answered"}

\* A new token takes the place of the one for the same purpose.
Issue(tokens, kind, email, user, sent) ==
  {t \in tokens : t.kind # kind \/ t.email # email}
    \cup IF sent THEN {[kind |-> kind, email |-> email, user |-> user]} ELSE {}

\* What a valid token stands for: the details it was made with, or the record.
Details(t) ==
  IF t.kind \in {"email", "mobile"}
  THEN [email |-> t.email, user |-> t.user, mobile |-> t.kind = "mobile"]
  ELSE [email |-> t.email, user |-> records[t.email].user, mobile |-> records[t.email].mobile]

Expire(t) ==
  /\ live' = live \ {t}
  /\ told' = None
  /\ UNCHANGED <<cookie, store, records, confirmed, stranded>>

-----------------------------------------------------------------------------
(* Making links and codes *)

\* A post that has a token made, sends it and saves the user's document.
Send(b, kind, email, user, doc) ==
  \E c \in Calls(3) :
    /\ live' = IF c.made >= 1 THEN Issue(live, kind, email, user, c.made >= 2) ELSE live
    /\ store' = IF c.made = 3 THEN [store EXCEPT ![cookie[b]] = doc] ELSE store
    /\ told' = None
    /\ UNCHANGED <<cookie, records, confirmed, stranded>>

\* return.setup.email: a link that stands for the session it is asked from.
SetupEmail(b, email) ==
  /\ cookie[b] # None
  /\ Send(b, "email", email, cookie[b], [Doc(cookie[b]) EXCEPT !.email = email])

\* return.setup.mobile; without an e-mail address the client throws.
SetupMobile(b) ==
  LET u == cookie[b]
  IN  /\ u # None
      /\ Doc(u).email # None
      /\ Send(b, "mobile", Doc(u).email, u, [Doc(u) EXCEPT !.mobile = TRUE])

\* return.start, for an address the service knows.
Start(b, email) ==
  /\ cookie[b] # None
  /\ records[email] # None
  /\ Send(b, "magiclink", email, None, [Doc(cookie[b]) EXCEPT !.email = email])

\* For one it does not know the error is shown, and for none there is nothing to encrypt,
\* which is no error here: no link is made, and what was typed is saved.
StartUnknown(b, email) ==
  /\ cookie[b] # None
  /\ email # None => records[email] = None
  /\ store' = [store EXCEPT ![cookie[b]] = [Doc(cookie[b]) EXCEPT !.email = email]]
  /\ told' = None
  /\ UNCHANGED <<cookie, live, records, confirmed, stranded>>

-----------------------------------------------------------------------------
(* Using links and codes *)

\* mutant: the data of the session goes with it
ResetUserKeeping(b, d) ==
  [Doc(IF cookie[b] = None THEN d.user ELSE cookie[b]) EXCEPT !.email = d.email, !.mobile = @ \/ d.mobile]

\* resetUser: the document that the request goes on with.
ResetUser(b, d) == [Doc(d.user) EXCEPT !.email = d.email, !.mobile = @ \/ d.mobile]

Authenticated(doc) == [doc EXCEPT !.authenticated = TRUE]

\* The browser holds the new session once the token is known to be valid, whatever
\* comes after: the error page has the cookie as well.
Moves(b, user, made) ==
  LET moved == [cookie EXCEPT ![b] = user]
  IN  cookie' \in CASE made = 0 -> {cookie} [] made = 1 -> {cookie, moved} [] OTHER -> {moved}

\* The browser has a link, or a code that its session waits for.
Presents(b, t, kind) ==
  /\ t.kind = kind
  /\ kind \in {"mobile", "code"} => cookie[b] # None /\ Doc(cookie[b]).email = t.email

\* mutant: the record is that of the browser's session
CreateRecordOwn(b, d) ==
  [user |-> IF cookie[b] = None THEN d.user ELSE cookie[b], mobile |-> d.mobile]

\* createRecord: the record of the address, in place of an earlier one.
CreateRecord(b, d) == [user |-> d.user, mobile |-> d.mobile]

\* A link or code of the set-up: validate, createRecord, then a message and the save.
Confirm(b, t, page) ==
  LET d == Details(t)
  IN  \E c \in Calls(3) :
        /\ live' = IF c.made >= 1 THEN live \ {t} ELSE live
        /\ confirmed' = IF c.made >= 1 THEN confirmed \cup {<<d.email, d.user>>} ELSE confirmed
        /\ stranded' = CASE c.made = 0 -> stranded
                         [] c.ended -> stranded \ {d.email}
                         [] OTHER -> stranded \cup {d.email}
        /\ records' = IF c.made >= 2 THEN [records EXCEPT ![d.email] = CreateRecord(b, d)]
                      ELSE records
        /\ store' = IF c.made = 3 THEN [store EXCEPT ![d.user] = Authenticated(ResetUser(b, d))]
                    ELSE store
        /\ Moves(b, d.user, c.made)
        /\ Tells(b, IF c.ended THEN page ELSE None)

\* return.setup.email.token
SetupEmailToken(b, t) == Presents(b, t, "email") /\ Confirm(b, t, "saved")

\* return.setup.mobile.validate: the answers are saved, then the search for the next
\* page finds none and throws.
SetupMobileValidate(b, t) == Presents(b, t, "mobile") /\ Confirm(b, t, None)

\* mutant of Enter: the redirect does not wait for the save
EnterUnsaved(b, t, page) ==
  \E c \in Calls(2) :
    /\ live' = IF c.made >= 1 THEN live \ {t} ELSE live
    /\ Moves(b, Details(t).user, c.made)
    /\ Tells(b, IF c.ended THEN page ELSE None)
    /\ UNCHANGED <<store, records, confirmed, stranded>>

\* A link or code that signs in: validate, then a message and the save.
Enter(b, t, page) ==
  LET d == Details(t)
  IN  \E c \in Calls(2) :
        /\ live' = IF c.made >= 1 THEN live \ {t} ELSE live
        /\ store' = IF c.made = 2 THEN [store EXCEPT ![d.user] = Authenticated(ResetUser(b, d))]
                    ELSE store
        /\ Moves(b, d.user, c.made)
        /\ Tells(b, IF c.ended THEN page ELSE None)
        /\ UNCHANGED <<records, confirmed, stranded>>

\* return.signin.magiclink, without a mobile
SigninMagiclink(b, t) ==
  /\ Presents(b, t, "magiclink")
  /\ ~Details(t).mobile
  /\ Enter(b, t, "welcome")

\* With one: validate, a code and its message, and the save.
SigninSendsCode(b, t) ==
  LET d == Details(t)
  IN  /\ Presents(b, t, "magiclink")
      /\ d.mobile
      /\ \E c \in Calls(4) :
           /\ live' = CASE c.made = 0 -> live
                        [] c.made = 1 -> live \ {t}
                        [] OTHER -> Issue(live \ {t}, "code", d.email, None, c.made >= 3)
           /\ store' = IF c.made = 4 THEN [store EXCEPT ![d.user] = ResetUser(b, d)] ELSE store
           /\ Moves(b, d.user, c.made)
      /\ told' = None
      /\ UNCHANGED <<records, confirmed, stranded>>

\* return.signin.mobile.validate; the next page is not found here either.
SigninMobileValidate(b, t) == Presents(b, t, "code") /\ Enter(b, t, None)

-----------------------------------------------------------------------------
(* The rest of the session *)

\* The start page, in a browser without a session.
NewSession(b, u) ==
  /\ cookie[b] = None
  /\ store[u] = None
  /\ cookie' = [cookie EXCEPT ![b] = u]
  /\ store' = [store EXCEPT ![u] = EmptyDoc]
  /\ told' = None
  /\ UNCHANGED <<live, records, confirmed, stranded>>

\* Any page of the form.
Answer(b, v) ==
  /\ cookie[b] # None
  /\ store' = [store EXCEPT ![cookie[b]] = [Doc(cookie[b]) EXCEPT !.answers = v]]
  /\ Tells(b, "answered")
  /\ UNCHANGED <<cookie, live, records, confirmed, stranded>>

\* return.signout: the document is changed in memory, and stored only when there are
\* flash messages to clear after the response.
Signout(b) ==
  LET u == cookie[b]
  IN  /\ u # None
      /\ cookie' = [cookie EXCEPT ![b] = None]
      /\ store' \in {store, [store EXCEPT ![u] = [Doc(u) EXCEPT !.authenticated = FALSE, !.email = None]]}
      /\ told' = None
      /\ UNCHANGED <<live, records, confirmed, stranded>>

\* The session cookie ends.
Leave(b) ==
  /\ cookie[b] # None
  /\ cookie' = [cookie EXCEPT ![b] = None]
  /\ told' = None
  /\ UNCHANGED <<store, live, records, confirmed, stranded>>

\* The datastore deletes a document at the end of its retention.
Forget(u) ==
  /\ store[u] \notin {None, Gone}
  /\ store' = [store EXCEPT ![u] = Gone]
  /\ told' = None
  /\ UNCHANGED <<cookie, live, records, confirmed, stranded>>

Init ==
  /\ cookie = [b \in Browsers |-> None]
  /\ store = [u \in Users |-> None]
  /\ live = {}
  /\ records = [e \in Emails |-> None]
  /\ confirmed = {}
  /\ stranded = {}
  /\ told = None

Next ==
  \/ \E b \in Browsers :
       \/ \E u \in Users : NewSession(b, u)
       \/ \E v \in Values : Answer(b, v)
       \/ Signout(b)
       \/ Leave(b)
       \/ \E e \in Emails : SetupEmail(b, e) \/ Start(b, e)
       \/ \E e \in Emails \cup {None} : StartUnknown(b, e)
       \/ SetupMobile(b)
       \/ \E t \in live :
            \/ SetupEmailToken(b, t)
            \/ SetupMobileValidate(b, t)
            \/ SigninMagiclink(b, t)
            \/ SigninSendsCode(b, t)
            \/ SigninMobileValidate(b, t)
  \/ \E t \in live : Expire(t)
  \/ \E u \in Users : Forget(u)

Spec == Init /\ [][Next]_vars

-----------------------------------------------------------------------------
(* Properties *)

\* Setting up, signing in and signing out leave the answers of every user as they
\* are, whichever session the browser held before: answers are changed by posting
\* them, to the session that the browser holds.
AnswersStayTheirOwn ==
  [][\A u \in Users :
       store'[u] \in Document /\ store'[u].answers # Doc(u).answers =>
         told' # None /\ told'.page = "answered" /\ cookie[told'.browser] = u]_vars

\* A record leads to a session that its address was confirmed for, whatever session
\* the browser that opened the link had and however often it was set up.  A confirmed
\* address has a record, unless the request that confirmed it failed on the way: then
\* "you have already used this link, sign in to continue" is all that the user gets,
\* and signing in does not know them.
RecordsMatchConfirmed ==
  /\ \A e \in Emails : records[e] # None => <<e, records[e].user>> \in confirmed
  /\ \A c \in confirmed : c[1] \in stranded \/ records[c[1]] # None

\* A user who is told that the work is saved, or is welcomed back, holds the session
\* that the record of their address leads to, and its stored document says so.
SavedMeansRecord ==
  [][told' # None /\ told'.page \in {"saved", "welcome"} =>
       LET u == cookie'[told'.browser]
       IN  /\ store'[u] \in Document
           /\ store'[u].authenticated
           /\ store'[u].email \in Emails
           /\ records'[store'[u].email] # None
           /\ records'[store'[u].email].user = u]_vars
=============================================================================
