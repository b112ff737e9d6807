-------------------------- MODULE SaveReturnProofs --------------------------
(***************************************************************************)
(* What holds of SaveReturn for any number of browsers, users, addresses   *)
(* and values, wherever a request stops.                                   *)
(***************************************************************************)
EXTENDS SaveReturn, TLAPS

TypeOK ==
  /\ cookie \in [Browsers -> Users \cup {None}]
  /\ store \in [Users -> Document \cup {None, Gone}]
  /\ live \subseteq Token
  /\ records \in [Emails -> Record \cup {None}]
  /\ confirmed \subseteq Emails \X Users
  /\ stranded \subseteq Emails

\* A sign-in was asked for with an address that has a record, and no record goes away.
SignInsKnown == \A t \in live : t.kind \in {"magiclink", "code"} => records[t.email] # None

\* The records lead to confirmed sessions because they are made of a link that was sent
\* to confirm one.
IInv == TypeOK /\ SignInsKnown /\ RecordsMatchConfirmed

USE SaveReturnAssumption

LEMMA DocType ==
  ASSUME TypeOK, NEW u \in Users
  PROVE  /\ Doc(u) \in Document
         /\ store[u] \in Document => Doc(u) = store[u]
BY DEF TypeOK, Doc, Document, EmptyDoc

LEMMA CallsType ==
  ASSUME NEW n \in Nat, NEW c \in Calls(n)
  PROVE  c.made \in 0..n /\ c.ended \in BOOLEAN /\ (c.ended => c.made = n)
<1>1. CASE c \in [made : 0..(n - 1), ended : {FALSE}]
  <2>1. c.made \in 0..(n - 1) /\ c.ended = FALSE
    BY <1>1
  <2>2. c.made \in 0..n
    BY <2>1
  <2>3. QED
    BY <2>1, <2>2
<1>2. CASE c \in [made : {n}, ended : BOOLEAN]
  BY <1>2
<1>3. QED
  BY <1>1, <1>2 DEF Calls

LEMMA IssueType ==
  ASSUME NEW tokens \in SUBSET Token, NEW kind, NEW email, NEW user, NEW sent,
         [kind |-> kind, email |-> email, user |-> user] \in Token
  PROVE  /\ Issue(tokens, kind, email, user, sent) \subseteq Token
         /\ \A t \in Issue(tokens, kind, email, user, sent) :
              t \in tokens \/ t = [kind |-> kind, email |-> email, user |-> user]
BY DEF Issue

LEMMA DetailsType ==
  ASSUME IInv, NEW t \in live
  PROVE  /\ Details(t) \in [email : Emails, user : Users, mobile : BOOLEAN]
         /\ Details(t).email = t.email
         /\ t.kind \in {"magiclink", "code"} => records[t.email] # None /\ Details(t).user = records[t.email].user
<1>1. t \in Token /\ t.email \in Emails /\ records[t.email] \in Record \cup {None}
  BY DEF IInv, TypeOK, Token
<1>2. CASE t.kind \in {"email", "mobile"}
  <2>1. t.user \in Users
    BY <1>1, <1>2 DEF Token
  <2>2. QED
    BY <1>1, <1>2, <2>1 DEF Details
<1>3. CASE t.kind \in {"magiclink", "code"}
  <2>1. records[t.email] \in Record
    BY <1>1, <1>3 DEF IInv, SignInsKnown
  <2>2. QED
    BY <1>1, <1>3, <2>1 DEF Details, Record
<1>4. QED
  BY <1>1, <1>2, <1>3 DEF Token

LEMMA ResetUserType ==
  ASSUME TypeOK, NEW b, NEW d \in [email : Emails, user : Users, mobile : BOOLEAN]
  PROVE  /\ ResetUser(b, d) \in Document
         /\ ResetUser(b, d).email = d.email
         /\ ResetUser(b, d).answers = Doc(d.user).answers
         /\ Authenticated(ResetUser(b, d)) \in Document
         /\ Authenticated(ResetUser(b, d)).email = d.email
         /\ Authenticated(ResetUser(b, d)).answers = Doc(d.user).answers
         /\ Authenticated(ResetUser(b, d)).authenticated
BY DocType DEF ResetUser, Authenticated, Document

LEMMA MovesType ==
  ASSUME TypeOK, NEW b \in Browsers, NEW user \in Users, NEW made, Moves(b, user, made)
  PROVE  /\ cookie' \in [Browsers -> Users \cup {None}]
         /\ made \notin {0, 1} => cookie'[b] = user
BY DEF TypeOK, Moves

LEMMA StoreType ==
  ASSUME TypeOK, NEW u \in Users, NEW doc \in Document
  PROVE  [store EXCEPT ![u] = doc] \in [Users -> Document \cup {None, Gone}]
BY DEF TypeOK

-----------------------------------------------------------------------------
(* The requests *)

LEMMA SendStep ==
  ASSUME IInv, NEW b \in Browsers, cookie[b] # None, NEW kind, NEW email \in Emails, NEW user,
         NEW doc \in Document, [kind |-> kind, email |-> email, user |-> user] \in Token,
         kind \in {"magiclink", "code"} => records[email] # None,
         Send(b, kind, email, user, doc)
  PROVE  IInv'
<1>1. PICK c \in Calls(3) :
        /\ live' = IF c.made >= 1 THEN Issue(live, kind, email, user, c.made >= 2) ELSE live
        /\ store' = IF c.made = 3 THEN [store EXCEPT ![cookie[b]] = doc] ELSE store
        /\ UNCHANGED <<cookie, records, confirmed, stranded>>
  BY DEF Send
<1>2. cookie[b] \in Users
  BY DEF IInv, TypeOK
<1>3. store' \in [Users -> Document \cup {None, Gone}]
  BY <1>1, <1>2, StoreType DEF IInv, TypeOK
<1>4. /\ live' \subseteq Token
      /\ \A t \in live' : t \in live \/ t = [kind |-> kind, email |-> email, user |-> user]
  BY <1>1, IssueType DEF IInv, TypeOK
<1>5. SignInsKnown'
  BY <1>1, <1>4 DEF IInv, SignInsKnown
<1>6. QED
  BY <1>1, <1>3, <1>4, <1>5 DEF IInv, TypeOK, RecordsMatchConfirmed

LEMMA SetupStep ==
  ASSUME IInv, NEW b \in Browsers,
         \/ \E e \in Emails : SetupEmail(b, e) \/ Start(b, e)
         \/ \E e \in Emails \cup {None} : StartUnknown(b, e)
         \/ SetupMobile(b)
  PROVE  IInv'
<1>1. cookie[b] \in Users
  BY DEF IInv, TypeOK, SetupEmail, Start, StartUnknown, SetupMobile
<1>2. cookie[b] # None /\ Doc(cookie[b]) \in Document
  BY <1>1, DocType DEF IInv
<1>3. ASSUME NEW e \in Emails, SetupEmail(b, e)
      PROVE  IInv'
  <2>1. [kind |-> "email", email |-> e, user |-> cookie[b]] \in Token
    BY <1>1 DEF Token
  <2>2. [Doc(cookie[b]) EXCEPT !.email = e] \in Document
    BY <1>2 DEF Document
  <2>3. Send(b, "email", e, cookie[b], [Doc(cookie[b]) EXCEPT !.email = e])
    BY <1>3 DEF SetupEmail
  <2>4. QED
    BY <1>2, <2>1, <2>2, <2>3, SendStep
<1>4. ASSUME NEW e \in Emails, Start(b, e)
      PROVE  IInv'
  <2>1. [kind |-> "magiclink", email |-> e, user |-> None] \in Token
    BY DEF Token
  <2>2. [Doc(cookie[b]) EXCEPT !.email = e] \in Document
    BY <1>2 DEF Document
  <2>3. /\ records[e] # None
        /\ Send(b, "magiclink", e, None, [Doc(cookie[b]) EXCEPT !.email = e])
    BY <1>4 DEF Start
  <2>4. QED
    BY <1>2, <2>1, <2>2, <2>3, SendStep
<1>5. ASSUME NEW e \in Emails \cup {None}, StartUnknown(b, e)
      PROVE  IInv'
  <2>1. [Doc(cookie[b]) EXCEPT !.email = e] \in Document
    BY <1>2 DEF Document
  <2>2. store' \in [Users -> Document \cup {None, Gone}]
    BY <1>1, <1>5, <2>1, StoreType DEF IInv, StartUnknown
  <2>3. QED
    BY <1>5, <2>2 DEF StartUnknown, IInv, TypeOK, SignInsKnown, RecordsMatchConfirmed
<1>6. ASSUME SetupMobile(b)
      PROVE  IInv'
  <2>1. Doc(cookie[b]).email \in Emails
    BY <1>2, <1>6 DEF SetupMobile, Document
  <2>2. [kind |-> "mobile", email |-> Doc(cookie[b]).email, user |-> cookie[b]] \in Token
    BY <1>1, <2>1 DEF Token
  <2>3. [Doc(cookie[b]) EXCEPT !.mobile = TRUE] \in Document
    BY <1>2 DEF Document
  <2>4. Send(b, "mobile", Doc(cookie[b]).email, cookie[b], [Doc(cookie[b]) EXCEPT !.mobile = TRUE])
    BY <1>6 DEF SetupMobile
  <2>5. QED
    BY <1>2, <2>1, <2>2, <2>3, <2>4, SendStep
<1>7. QED
  BY <1>3, <1>4, <1>5, <1>6

LEMMA ConfirmStep ==
  ASSUME IInv, NEW b \in Browsers, NEW t \in live, NEW page, Confirm(b, t, page)
  PROVE  IInv'
<1> DEFINE d == Details(t)
<1>1. PICK c \in Calls(3) :
        /\ live' = IF c.made >= 1 THEN live \ {t} ELSE live
        /\ confirmed' = IF c.made >= 1 THEN confirmed \cup {<<d.email, d.user>>} ELSE confirmed
        /\ stranded' = CASE c.made = 0 -> stranded
                         [] c.ended -> stranded \ {d.email}
                         [] OTHER -> stranded \cup {d.email}
        /\ records' = IF c.made >= 2 THEN [records EXCEPT ![d.email] = CreateRecord(b, d)]
                      ELSE records
        /\ store' = IF c.made = 3 THEN [store EXCEPT ![d.user] = Authenticated(ResetUser(b, d))]
                    ELSE store
        /\ Moves(b, d.user, c.made)
  BY DEF Confirm
<1>2. d \in [email : Emails, user : Users, mobile : BOOLEAN]
  BY DetailsType
<1>3. c.made \in 0..3 /\ c.ended \in BOOLEAN /\ (c.ended => c.made = 3)
  BY CallsType
<1>4. CreateRecord(b, d) \in Record /\ CreateRecord(b, d) # None /\ CreateRecord(b, d).user = d.user
  BY <1>2 DEF CreateRecord, Record
<1>5. Authenticated(ResetUser(b, d)) \in Document
  BY <1>2, ResetUserType DEF IInv
<1> HIDE DEF d
<1>6. /\ cookie' \in [Browsers -> Users \cup {None}]
      /\ store' \in [Users -> Document \cup {None, Gone}]
  <2>1. cookie' \in [Browsers -> Users \cup {None}]
    BY <1>1, <1>2, MovesType DEF IInv
  <2>2. store' \in [Users -> Document \cup {None, Gone}]
    BY <1>1, <1>2, <1>5, StoreType DEF IInv, TypeOK
  <2>3. QED
    BY <2>1, <2>2
<1>7. /\ live' \subseteq live
      /\ records' \in [Emails -> Record \cup {None}]
      /\ confirmed' \subseteq Emails \X Users
      /\ stranded' \subseteq Emails
  BY <1>1, <1>2, <1>3, <1>4 DEF IInv, TypeOK
<1>8. \A e \in Emails : \/ records'[e] = records[e]
                         \/ /\ records'[e] # None
                            /\ <<e, records'[e].user>> \in confirmed'
  BY <1>1, <1>2, <1>3, <1>4 DEF IInv, TypeOK
<1>9. confirmed \subseteq confirmed'
  BY <1>1
<1>10. ASSUME NEW p \in confirmed'
       PROVE  p[1] \in stranded' \/ records'[p[1]] # None
  <2>1. p[1] \in Emails
    BY <1>7
  <2>2. CASE c.made = 0
    <3>1. confirmed' = confirmed /\ stranded' = stranded /\ records' = records
      BY <1>1, <1>3, <2>2
    <3>2. QED
      BY <3>1 DEF IInv, RecordsMatchConfirmed
  <2>3. CASE c.made # 0 /\ p[1] = d.email
    <3>1. CASE c.ended
      BY <1>1, <1>2, <1>3, <1>4, <3>1, <2>3 DEF IInv, TypeOK
    <3>2. CASE ~c.ended
      BY <1>1, <2>3, <3>2
    <3>3. QED
      BY <3>1, <3>2
  <2>4. CASE c.made # 0 /\ p[1] # d.email
    <3>1. p \in confirmed
      BY <1>1, <2>4
    <3>2. p[1] \in stranded \/ records[p[1]] # None
      BY <3>1 DEF IInv, RecordsMatchConfirmed
    <3>3. records'[p[1]] = records[p[1]]
      BY <1>1, <2>1, <2>4 DEF IInv, TypeOK
    <3>4. p[1] \in stranded => p[1] \in stranded'
      BY <1>1, <2>4
    <3>5. QED
      BY <3>2, <3>3, <3>4
  <2>5. QED
    BY <2>2, <2>3, <2>4
<1>11. TypeOK'
  BY <1>6, <1>7 DEF IInv, TypeOK
<1>12. SignInsKnown'
  <2>1. \A x \in live' : x \in Token /\ x.email \in Emails
    BY <1>7 DEF IInv, TypeOK, Token
  <2>2. QED
    BY <1>7, <1>8, <2>1 DEF IInv, SignInsKnown
<1>13. RecordsMatchConfirmed'
  BY <1>8, <1>9, <1>10 DEF IInv, RecordsMatchConfirmed
<1>14. QED
  BY <1>11, <1>12, <1>13 DEF IInv

LEMMA EnterStep ==
  ASSUME IInv, NEW b \in Browsers, NEW t \in live, NEW page, Enter(b, t, page)
  PROVE  IInv'
<1> DEFINE d == Details(t)
<1>1. PICK c \in Calls(2) :
        /\ live' = IF c.made >= 1 THEN live \ {t} ELSE live
        /\ store' = IF c.made = 2 THEN [store EXCEPT ![d.user] = Authenticated(ResetUser(b, d))]
                    ELSE store
        /\ Moves(b, d.user, c.made)
        /\ UNCHANGED <<records, confirmed, stranded>>
  BY DEF Enter
<1>2. d \in [email : Emails, user : Users, mobile : BOOLEAN]
  BY DetailsType
<1>3. Authenticated(ResetUser(b, d)) \in Document
  BY <1>2, ResetUserType DEF IInv
<1> HIDE DEF d
<1>4. cookie' \in [Browsers -> Users \cup {None}]
  BY <1>1, <1>2, MovesType DEF IInv
<1>5. store' \in [Users -> Document \cup {None, Gone}]
  BY <1>1, <1>2, <1>3, StoreType DEF IInv, TypeOK
<1>6. QED
  BY <1>1, <1>4, <1>5 DEF IInv, TypeOK, SignInsKnown, RecordsMatchConfirmed

LEMMA SendsCodeStep ==
  ASSUME IInv, NEW b \in Browsers, NEW t \in live, SigninSendsCode(b, t)
  PROVE  IInv'
<1> DEFINE d == Details(t)
<1>1. PICK c \in Calls(4) :
        /\ live' = CASE c.made = 0 -> live
                     [] c.made = 1 -> live \ {t}
                     [] OTHER -> Issue(live \ {t}, "code", d.email, None, c.made >= 3)
        /\ store' = IF c.made = 4 THEN [store EXCEPT ![d.user] = ResetUser(b, d)] ELSE store
        /\ Moves(b, d.user, c.made)
        /\ UNCHANGED <<records, confirmed, stranded>>
  BY DEF SigninSendsCode
<1>2. /\ d \in [email : Emails, user : Users, mobile : BOOLEAN]
      /\ records[d.email] # None
  BY DetailsType DEF SigninSendsCode, Presents
<1>3. ResetUser(b, d) \in Document
  BY <1>2, ResetUserType DEF IInv
<1> HIDE DEF d
<1>4. cookie' \in [Browsers -> Users \cup {None}]
  BY <1>1, <1>2, MovesType DEF IInv
<1>5. store' \in [Users -> Document \cup {None, Gone}]
  BY <1>1, <1>2, <1>3, StoreType DEF IInv, TypeOK
<1>6. [kind |-> "code", email |-> d.email, user |-> None] \in Token
  BY <1>2 DEF Token
<1>7. /\ Issue(live \ {t}, "code", d.email, None, c.made >= 3) \subseteq Token
      /\ \A x \in Issue(live \ {t}, "code", d.email, None, c.made >= 3) :
           x \in live \/ x = [kind |-> "code", email |-> d.email, user |-> None]
  BY <1>6, IssueType DEF IInv, TypeOK
<1>8. /\ live' \subseteq Token
      /\ \A x \in live' : x \in live \/ x = [kind |-> "code", email |-> d.email, user |-> None]
  <2>1. \/ live' \subseteq live
        \/ live' = Issue(live \ {t}, "code", d.email, None, c.made >= 3)
    BY <1>1
  <2>2. CASE live' \subseteq live
    BY <2>2 DEF IInv, TypeOK
  <2>3. CASE live' = Issue(live \ {t}, "code", d.email, None, c.made >= 3)
    BY <1>7, <2>3
  <2>4. QED
    BY <2>1, <2>2, <2>3
<1>9. SignInsKnown'
  <2>1. \A x \in live' : x \in live \/ x.email = d.email
    BY <1>8
  <2>2. QED
    BY <1>1, <1>2, <2>1 DEF IInv, SignInsKnown
<1>10. QED
  BY <1>1, <1>4, <1>5, <1>8, <1>9 DEF IInv, TypeOK, RecordsMatchConfirmed

LEMMA TokenStep ==
  ASSUME IInv, NEW b \in Browsers, NEW t \in live,
         \/ SetupEmailToken(b, t)
         \/ SetupMobileValidate(b, t)
         \/ SigninMagiclink(b, t)
         \/ SigninSendsCode(b, t)
         \/ SigninMobileValidate(b, t)
  PROVE  IInv'
BY ConfirmStep, EnterStep, SendsCodeStep
   DEF SetupEmailToken, SetupMobileValidate, SigninMagiclink, SigninMobileValidate

LEMMA SessionStep ==
  ASSUME IInv, NEW b \in Browsers,
         \/ \E u \in Users : NewSession(b, u)
         \/ \E v \in Values : Answer(b, v)
         \/ Signout(b)
         \/ Leave(b)
  PROVE  IInv'
<1>1. UNCHANGED <<live, records, confirmed, stranded>>
  BY DEF NewSession, Answer, Signout, Leave
<1>2. ASSUME NEW u \in Users, NewSession(b, u)
      PROVE  TypeOK'
  <2>1. EmptyDoc \in Document
    BY DEF EmptyDoc, Document
  <2>2. store' \in [Users -> Document \cup {None, Gone}]
    BY <1>2, <2>1, StoreType DEF NewSession, IInv
  <2>3. QED
    BY <1>1, <1>2, <2>2 DEF NewSession, IInv, TypeOK
<1>3. ASSUME NEW v \in Values, Answer(b, v)
      PROVE  TypeOK'
  <2>1. cookie[b] \in Users
    BY <1>3 DEF Answer, IInv, TypeOK
  <2>2. [Doc(cookie[b]) EXCEPT !.answers = v] \in Document
    BY <2>1, DocType DEF IInv, Document
  <2>3. store' \in [Users -> Document \cup {None, Gone}]
    BY <1>3, <2>1, <2>2, StoreType DEF Answer, IInv
  <2>4. QED
    BY <1>3, <2>3 DEF Answer, IInv, TypeOK
<1>4. ASSUME Signout(b)
      PROVE  TypeOK'
  <2>1. cookie[b] \in Users
    BY <1>4 DEF Signout, IInv, TypeOK
  <2>2. [Doc(cookie[b]) EXCEPT !.authenticated = FALSE, !.email = None] \in Document
    BY <2>1, DocType DEF IInv, Document
  <2>3. store' \in [Users -> Document \cup {None, Gone}]
    BY <1>4, <2>1, <2>2, StoreType DEF Signout, IInv, TypeOK
  <2>4. cookie' \in [Browsers -> Users \cup {None}]
    BY <1>4 DEF Signout, IInv, TypeOK
  <2>5. QED
    BY <1>1, <2>3, <2>4 DEF IInv, TypeOK
<1>5. ASSUME Leave(b)
      PROVE  TypeOK'
  BY <1>1, <1>5 DEF Leave, IInv, TypeOK
<1>6. TypeOK'
  BY <1>2, <1>3, <1>4, <1>5
<1>7. QED
  BY <1>1, <1>6 DEF IInv, SignInsKnown, RecordsMatchConfirmed

LEMMA ServiceStep ==
  ASSUME IInv, (\E t \in live : Expire(t)) \/ (\E u \in Users : Forget(u))
  PROVE  IInv'
BY DEF Expire, Forget, IInv, TypeOK, SignInsKnown, RecordsMatchConfirmed

LEMMA IInvInit == Init => IInv
BY DEF Init, IInv, TypeOK, SignInsKnown, RecordsMatchConfirmed

LEMMA IInvNext == IInv /\ [Next]_vars => IInv'
<1> SUFFICES ASSUME IInv, [Next]_vars PROVE IInv'
  OBVIOUS
<1>1. CASE Next
  BY <1>1, SetupStep, TokenStep, SessionStep, ServiceStep DEF Next
<1>2. CASE UNCHANGED vars
  BY <1>2 DEF vars, IInv, TypeOK, SignInsKnown, RecordsMatchConfirmed
<1>3. QED
  BY <1>1, <1>2

\* A request may stop after any of its calls to the service and the datastore.
THEOREM IInvAlways == Spec => []IInv
BY IInvInit, IInvNext, PTL DEF Spec

\* A record leads to a session that its address was confirmed for, and a confirmed
\* address has a record unless the request that confirmed it stopped on the way
\* (createRecord after validateSetupEmailToken).
THEOREM RecordsAlwaysMatch == Spec => []RecordsMatchConfirmed
<1>1. IInv => RecordsMatchConfirmed
  BY DEF IInv
<1>2. QED
  BY <1>1, IInvAlways, PTL

-----------------------------------------------------------------------------
(* Whose answers change *)

LEMMA AnswersKept ==
  ASSUME IInv, NEW v \in Users, NEW doc \in Document, doc.answers = Doc(v).answers,
         store' = store \/ store' = [store EXCEPT ![v] = doc],
         NEW u \in Users, store'[u] \in Document
  PROVE  store'[u].answers = Doc(u).answers
<1>1. CASE store'[u] = store[u]
  BY <1>1, DocType DEF IInv
<1>2. CASE u = v /\ store'[u] = doc
  BY <1>2
<1>3. QED
  BY <1>1, <1>2 DEF IInv, TypeOK

LEMMA SetupKeepsAnswers ==
  ASSUME IInv, NEW b \in Browsers, NEW u \in Users, store'[u] \in Document,
         \/ \E e \in Emails : SetupEmail(b, e) \/ Start(b, e)
         \/ \E e \in Emails \cup {None} : StartUnknown(b, e)
         \/ SetupMobile(b)
  PROVE  store'[u].answers = Doc(u).answers
<1>1. cookie[b] \in Users
  BY DEF IInv, TypeOK, SetupEmail, Start, StartUnknown, SetupMobile
<1> DEFINE old == Doc(cookie[b])
<1>2. old \in Document
  BY <1>1, DocType DEF IInv
<1> HIDE DEF old
<1>3. ASSUME NEW e \in Emails \cup {None}
      PROVE  [old EXCEPT !.email = e] \in Document /\ [old EXCEPT !.email = e].answers = old.answers
  BY <1>2 DEF Document
<1>4. [old EXCEPT !.mobile = TRUE] \in Document /\ [old EXCEPT !.mobile = TRUE].answers = old.answers
  BY <1>2 DEF Document
<1>5. \E doc \in Document :
        /\ doc.answers = old.answers
        /\ store' = store \/ store' = [store EXCEPT ![cookie[b]] = doc]
  <2>1. ASSUME NEW e \in Emails \cup {None}, SetupEmail(b, e) \/ Start(b, e) \/ StartUnknown(b, e)
        PROVE  store' = store \/ store' = [store EXCEPT ![cookie[b]] = [old EXCEPT !.email = e]]
    BY <2>1 DEF SetupEmail, Start, StartUnknown, Send, old
  <2>2. ASSUME SetupMobile(b)
        PROVE  store' = store \/ store' = [store EXCEPT ![cookie[b]] = [old EXCEPT !.mobile = TRUE]]
    BY <2>2 DEF SetupMobile, Send, old
  <2>3. QED
    BY <2>1, <2>2, <1>3, <1>4
<1>6. QED
  BY <1>1, <1>5, AnswersKept DEF old

LEMMA TokenKeepsAnswers ==
  ASSUME IInv, NEW b \in Browsers, NEW u \in Users, store'[u] \in Document, NEW t \in live,
         \/ SetupEmailToken(b, t)
         \/ SetupMobileValidate(b, t)
         \/ SigninMagiclink(b, t)
         \/ SigninSendsCode(b, t)
         \/ SigninMobileValidate(b, t)
  PROVE  store'[u].answers = Doc(u).answers
<1> DEFINE d == Details(t)
<1>1. d \in [email : Emails, user : Users, mobile : BOOLEAN]
  BY DetailsType
<1>2. /\ ResetUser(b, d) \in Document
      /\ ResetUser(b, d).answers = Doc(d.user).answers
      /\ Authenticated(ResetUser(b, d)) \in Document
      /\ Authenticated(ResetUser(b, d)).answers = Doc(d.user).answers
  BY <1>1, ResetUserType DEF IInv
<1>3. \/ store' = store
      \/ store' = [store EXCEPT ![d.user] = ResetUser(b, d)]
      \/ store' = [store EXCEPT ![d.user] = Authenticated(ResetUser(b, d))]
  <2>1. ASSUME NEW page, Confirm(b, t, page) \/ Enter(b, t, page)
        PROVE  store' = store \/ store' = [store EXCEPT ![d.user] = Authenticated(ResetUser(b, d))]
    BY <2>1 DEF Confirm, Enter
  <2>2. ASSUME SigninSendsCode(b, t)
        PROVE  store' = store \/ store' = [store EXCEPT ![d.user] = ResetUser(b, d)]
    BY <2>2 DEF SigninSendsCode
  <2>3. QED
    BY <2>1, <2>2 DEF SetupEmailToken, SetupMobileValidate, SigninMagiclink, SigninMobileValidate
<1> HIDE DEF d
<1>4. d.user \in Users
  BY <1>1
<1>5. QED
  BY <1>2, <1>3, <1>4, AnswersKept

LEMMA SessionKeepsAnswers ==
  ASSUME IInv, NEW b \in Browsers, NEW u \in Users, store'[u] \in Document,
         (\E v \in Users : NewSession(b, v)) \/ Signout(b) \/ Leave(b)
  PROVE  store'[u].answers = Doc(u).answers
<1>1. ASSUME NEW v \in Users, NewSession(b, v)
      PROVE  store'[u].answers = Doc(u).answers
  <2>1. EmptyDoc \in Document /\ EmptyDoc.answers = Doc(v).answers
    BY <1>1 DEF NewSession, EmptyDoc, Document, Doc
  <2>2. store' = [store EXCEPT ![v] = EmptyDoc]
    BY <1>1 DEF NewSession
  <2>3. QED
    BY <2>1, <2>2, AnswersKept
<1>2. ASSUME Signout(b)
      PROVE  store'[u].answers = Doc(u).answers
  <2> DEFINE doc == [Doc(cookie[b]) EXCEPT !.authenticated = FALSE, !.email = None]
  <2>1. cookie[b] \in Users
    BY <1>2 DEF Signout, IInv, TypeOK
  <2>2. doc \in Document /\ doc.answers = Doc(cookie[b]).answers
    BY <2>1, DocType DEF IInv, Document
  <2>3. store' = store \/ store' = [store EXCEPT ![cookie[b]] = doc]
    BY <1>2 DEF Signout
  <2> HIDE DEF doc
  <2>4. QED
    BY <2>1, <2>2, <2>3, AnswersKept
<1>3. ASSUME Leave(b)
      PROVE  store'[u].answers = Doc(u).answers
  BY <1>3, DocType DEF Leave, IInv
<1>4. QED
  BY <1>1, <1>2, <1>3

LEMMA AnswersStep ==
  ASSUME IInv, [Next]_vars, NEW u \in Users, store'[u] \in Document,
         store'[u].answers # Doc(u).answers
  PROVE  told' # None /\ told'.page = "answered" /\ cookie[told'.browser] = u
<1>1. ASSUME NEW b \in Browsers, NEW v \in Values, Answer(b, v)
      PROVE  told' # None /\ told'.page = "answered" /\ cookie[told'.browser] = u
  <2>1. told' = [browser |-> b, page |-> "answered"]
    BY <1>1 DEF Answer, Tells
  <2>2. told' \in Told
    BY <2>1 DEF Told
  <2>3. cookie[b] = u
    <3>1. CASE cookie[b] # u
      <4>1. store'[u] = store[u]
        BY <1>1, <3>1 DEF Answer, IInv, TypeOK
      <4>2. QED
        BY <4>1, DocType DEF IInv
    <3>2. QED
      BY <3>1
  <2>4. QED
    BY <2>1, <2>2, <2>3
<1>2. (\E t \in live : Expire(t)) \/ UNCHANGED vars => FALSE
  BY DocType DEF Expire, vars, IInv
<1>3. ASSUME NEW v \in Users, Forget(v)
      PROVE  FALSE
  <2>1. Gone \notin Document
    OBVIOUS
  <2>2. store'[u] = store[u]
    BY <1>3, <2>1 DEF Forget, IInv, TypeOK
  <2>3. QED
    BY <2>2, DocType DEF IInv
<1>4. ASSUME Next
      PROVE  told' # None /\ told'.page = "answered" /\ cookie[told'.browser] = u
  BY <1>1, <1>2, <1>3, <1>4, SetupKeepsAnswers, TokenKeepsAnswers, SessionKeepsAnswers DEF Next
<1>5. QED
  BY <1>2, <1>4

\* Only a post of answers, to the session that its browser holds, changes answers: not
\* setting up, signing in or signing out, whichever of their calls fail (resetUser).
THEOREM AnswersAreOwn == Spec => AnswersStayTheirOwn
<1>1. IInv /\ [Next]_vars =>
        [\A u \in Users :
           store'[u] \in Document /\ store'[u].answers # Doc(u).answers =>
             told' # None /\ told'.page = "answered" /\ cookie[told'.browser] = u]_vars
  BY AnswersStep
<1>2. QED
  BY <1>1, IInvAlways, PTL DEF Spec, AnswersStayTheirOwn

-----------------------------------------------------------------------------
(* What the user is told *)

\* What SavedMeansRecord says of a response to browser b.
Recorded(b) ==
  LET u == cookie'[b]
  IN  /\ store'[u] \in Document
      /\ store'[u].authenticated
      /\ store'[u].email \in Emails
      /\ records'[store'[u].email] # None
      /\ records'[store'[u].email].user = u

\* The responses that promise something are those of a request that was done.
LEMMA TellsDone ==
  ASSUME NEW b, NEW done \in BOOLEAN, NEW page \in {"saved", "welcome"},
         Tells(b, IF done THEN page ELSE None), told' # None
  PROVE  done /\ told'.browser = b
BY DEF Tells

LEMMA EntersRecorded ==
  ASSUME IInv, NEW b \in Browsers, NEW d \in [email : Emails, user : Users, mobile : BOOLEAN],
         cookie' \in [Browsers -> Users \cup {None}], cookie'[b] = d.user,
         store' = [store EXCEPT ![d.user] = Authenticated(ResetUser(b, d))],
         records'[d.email] # None, records'[d.email].user = d.user
  PROVE  Recorded(b)
<1>1. /\ Authenticated(ResetUser(b, d)) \in Document
      /\ Authenticated(ResetUser(b, d)).email = d.email
      /\ Authenticated(ResetUser(b, d)).authenticated
  BY ResetUserType DEF IInv
<1>2. d.user \in Users /\ d.email \in Emails
  OBVIOUS
<1>3. store'[d.user] = Authenticated(ResetUser(b, d))
  BY <1>2 DEF IInv, TypeOK
<1>4. QED
  BY <1>1, <1>2, <1>3 DEF Recorded

LEMMA ConfirmRecorded ==
  ASSUME IInv, NEW b \in Browsers, NEW t \in live, Confirm(b, t, "saved"), told' # None
  PROVE  told'.browser = b /\ Recorded(b)
<1> DEFINE d == Details(t)
<1>1. PICK c \in Calls(3) :
        /\ records' = IF c.made >= 2 THEN [records EXCEPT ![d.email] = CreateRecord(b, d)]
                      ELSE records
        /\ store' = IF c.made = 3 THEN [store EXCEPT ![d.user] = Authenticated(ResetUser(b, d))]
                    ELSE store
        /\ Moves(b, d.user, c.made)
        /\ Tells(b, IF c.ended THEN "saved" ELSE None)
  BY DEF Confirm
<1>2. d \in [email : Emails, user : Users, mobile : BOOLEAN]
  BY DetailsType
<1> HIDE DEF d
<1>3. c.ended \in BOOLEAN /\ (c.ended => c.made = 3)
  BY CallsType
<1>4. c.ended /\ told'.browser = b
  BY <1>1, <1>3, TellsDone
<1>5. c.made = 3
  BY <1>3, <1>4
<1>6. CreateRecord(b, d) # None /\ CreateRecord(b, d).user = d.user
  BY <1>2 DEF CreateRecord, Record
<1>7. records'[d.email] # None /\ records'[d.email].user = d.user
  BY <1>1, <1>2, <1>5, <1>6 DEF IInv, TypeOK
<1>8. cookie' \in [Browsers -> Users \cup {None}] /\ cookie'[b] = d.user
  BY <1>1, <1>2, <1>5, MovesType DEF IInv
<1>9. store' = [store EXCEPT ![d.user] = Authenticated(ResetUser(b, d))]
  BY <1>1, <1>5
<1>10. QED
  BY <1>2, <1>4, <1>7, <1>8, <1>9, EntersRecorded

LEMMA EnterRecorded ==
  ASSUME IInv, NEW b \in Browsers, NEW t \in live, t.kind = "magiclink",
         Enter(b, t, "welcome"), told' # None
  PROVE  told'.browser = b /\ Recorded(b)
<1> DEFINE d == Details(t)
<1>1. PICK c \in Calls(2) :
        /\ store' = IF c.made = 2 THEN [store EXCEPT ![d.user] = Authenticated(ResetUser(b, d))]
                    ELSE store
        /\ Moves(b, d.user, c.made)
        /\ Tells(b, IF c.ended THEN "welcome" ELSE None)
        /\ UNCHANGED records
  BY DEF Enter
<1>2. /\ d \in [email : Emails, user : Users, mobile : BOOLEAN]
      /\ records[d.email] # None
      /\ records[d.email].user = d.user
  BY DetailsType
<1> HIDE DEF d
<1>3. c.ended \in BOOLEAN /\ (c.ended => c.made = 2)
  BY CallsType
<1>4. c.ended /\ told'.browser = b
  BY <1>1, <1>3, TellsDone
<1>5. c.made = 2
  BY <1>3, <1>4
<1>6. cookie' \in [Browsers -> Users \cup {None}] /\ cookie'[b] = d.user
  BY <1>1, <1>2, <1>5, MovesType DEF IInv
<1>7. store' = [store EXCEPT ![d.user] = Authenticated(ResetUser(b, d))]
  BY <1>1, <1>5
<1>8. QED
  BY <1>1, <1>2, <1>4, <1>6, <1>7, EntersRecorded

LEMMA RecordedStep ==
  ASSUME IInv, Next, told' # None, told'.page \in {"saved", "welcome"}
  PROVE  Recorded(told'.browser)
<1>1. ASSUME NEW b \in Browsers, NEW t \in live, SetupEmailToken(b, t)
      PROVE  Recorded(told'.browser)
  BY <1>1, ConfirmRecorded DEF SetupEmailToken
<1>2. ASSUME NEW b \in Browsers, NEW t \in live, SigninMagiclink(b, t)
      PROVE  Recorded(told'.browser)
  BY <1>2, EnterRecorded DEF SigninMagiclink, Presents
<1>3. ASSUME NEW b \in Browsers, NEW t \in live,
             SetupMobileValidate(b, t) \/ SigninSendsCode(b, t) \/ SigninMobileValidate(b, t)
      PROVE  FALSE
  BY <1>3 DEF SetupMobileValidate, SigninSendsCode, SigninMobileValidate, Confirm, Enter, Tells
<1>4. ASSUME NEW b \in Browsers, NEW v \in Values, Answer(b, v)
      PROVE  FALSE
  BY <1>4 DEF Answer, Tells
<1>5. ASSUME NEW b \in Browsers,
             \/ (\E u \in Users : NewSession(b, u)) \/ Signout(b) \/ Leave(b) \/ SetupMobile(b)
             \/ \E e \in Emails : SetupEmail(b, e) \/ Start(b, e)
             \/ \E e \in Emails \cup {None} : StartUnknown(b, e)
      PROVE  FALSE
  BY <1>5 DEF NewSession, Signout, Leave, SetupMobile, SetupEmail, Start, StartUnknown, Send
<1>6. (\E t \in live : Expire(t)) \/ (\E u \in Users : Forget(u)) => FALSE
  BY DEF Expire, Forget
<1>7. QED
  BY <1>1, <1>2, <1>3, <1>4, <1>5, <1>6 DEF Next

\* Who is told that the work is saved, or is welcomed back, holds the session that the
\* record of their address leads to, and the document stored for it says so (the
\* set-up and sign-in controllers save before they redirect).
THEOREM SavedIsRecorded == Spec => SavedMeansRecord
<1>1. IInv /\ [Next]_vars =>
        [told' # None /\ told'.page \in {"saved", "welcome"} =>
           LET u == cookie'[told'.browser]
           IN  /\ store'[u] \in Document
               /\ store'[u].authenticated
               /\ store'[u].email \in Emails
               /\ records'[store'[u].email] # None
               /\ records'[store'[u].email].user = u]_vars
  BY RecordedStep DEF Recorded
<1>2. QED
  BY <1>1, IInvAlways, PTL DEF Spec, SavedMeansRecord

=============================================================================
