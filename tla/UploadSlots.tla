---------------------------- MODULE UploadSlots ----------------------------
(***************************************************************************)
(* Pages with upload components and the two pages that may follow them: on *)
(* the check page the user keeps or discards the files just uploaded, the  *)
(* summary page lists the files kept and lets the user remove one or go    *)
(* back for another.  One session, several tabs: a form posted may be any  *)
(* form a tab still shows, however old.                                    *)
(*                                                                         *)
(* A file is a number, in order of upload (its uuid and its timestamp), and *)
(* the slot it was sent in: the component and a position, the code's       *)
(* "name[1]".  A component's own property holds the files uploaded and not *)
(* accepted yet (pending), one list for all holds the accepted ones.  Both *)
(* are sets: nothing depends on their order but which of two files of one  *)
(* component, both named by the form, is taken first.                      *)
(***************************************************************************)
EXTENDS Naturals, FiniteSets

CONSTANTS
  Tabs, Pages, Components, None,
  PageOf,               \* the upload page of a component
  MaxFiles, MinFiles,   \* of a component
  Required,             \* the components that must hold a file to be valid
  Checked, Summarised,  \* the upload pages followed by a check, a summary page
  After,                \* the upload page after the steps of a page, or None
  MaxUploads            \* bound: the files stored in a session

ASSUME UploadAssumption ==
  /\ IsFiniteSet(Components)
  /\ PageOf \in [Components -> Pages] /\ None \notin Pages
  /\ \A p \in Pages : \E c \in Components : PageOf[c] = p
  /\ MaxFiles \in [Components -> Nat \ {0}] /\ MinFiles \in [Components -> Nat]
  /\ Required \subseteq Components
  /\ Checked \subseteq Pages /\ Summarised \subseteq Checked
  /\ After \in [Pages -> Pages \union {None}] /\ MaxUploads \in Nat

VARIABLES
  pending,   \* the files uploaded and not accepted yet
  accepted,  \* upload-component-accepted
  listed,    \* whether that property is there
  page,      \* upload-component-page-id
  field,     \* upload-component-field-name, as a set of slots
  late,      \* the components whose property comes after field's in the data
  uploads,   \* how many files have been stored
  tab,       \* what each tab shows, or where it has been sent
  gone       \* the files the user has rejected or removed

data == <<pending, accepted, listed, page, field, late, uploads, gone>>
vars == <<pending, accepted, listed, page, field, late, uploads, tab, gone>>

SlotsOf(c) == {c} \X (1..MaxFiles[c])
Slots == UNION {SlotsOf(c) : c \in Components}
Files == [id : 1..MaxUploads, slot : Slots]

Of(files, c) == {f \in files : f.slot[1] = c}
OnPage(p) == {c \in Components : PageOf[c] = p}
FilesOn(files, p) == {f \in files : PageOf[f.slot[1]] = p}
SlotsIn(files) == {f.slot : f \in files}
Ids(files) == {f.id : f \in files}

HasMax(files, c) == Cardinality(Of(files, c)) = MaxFiles[c]
HasMin(files, c) == Cardinality(Of(files, c)) >= MinFiles[c]
HasMaxFiles(files, p) == \A c \in OnPage(p) : HasMax(files, c)
HasMinFiles(files, p) == \A c \in OnPage(p) : HasMin(files, c)

\* mutant: the slot is counted
FieldNameByCount(c) ==
  LET n == Cardinality(Of(accepted, c)) + 1
  IN  <<c, IF n < MaxFiles[c] THEN n ELSE MaxFiles[c]>>

\* The slot a form offers: the first that is free, or else the last.
FieldName(c) ==
  LET Taken(i) == <<c, i>> \in SlotsIn(accepted)
  IN  <<c, CHOOSE i \in 1..MaxFiles[c] :
             /\ Taken(i) => i = MaxFiles[c]
             /\ \A j \in 1..MaxFiles[c] : ~Taken(j) => i <= j>>
FieldNames(p) == {FieldName(c) : c \in OnPage(p)}

----------------------------------------------------------------------------
(* Addresses and what a tab shows there *)

Url == [step : {"upload", "check", "summary"}, at : Pages]
         \union {[step |-> "answers", at |-> None]}
At(step, p) == [step |-> step, at |-> p]
Answers == At("answers", None)

Later(p) == IF After[p] = None THEN Answers ELSE At("upload", After[p])
AfterUpload(p) == IF p \in Checked THEN At("check", p) ELSE Later(p)
AfterCheck(p) == IF p \in Summarised THEN At("summary", p) ELSE Later(p)

\* What a page's form sends back: the slots it offers, the upload page it is
\* about, the files it names, and whether it asks for a decision.
Form == [fields : SUBSET Slots, page : Pages \union {None},
         ids : SUBSET (1..MaxUploads), asks : BOOLEAN]
Blank == [fields |-> {}, page |-> None, ids |-> {}, asks |-> FALSE]

Sent(u) == [url |-> u, form |-> None]
Shown(u, f) == [url |-> u, form |-> f]
Go(t, u) == tab' = [tab EXCEPT ![t] = Sent(u)]
Show(t, u, f) == tab' = [tab EXCEPT ![t] = Shown(u, f)]

Shows(t, step) == tab[t].url.step = step /\ tab[t].form # None
Posted(t) == tab[t].form
Place(t) == tab[t].url.at

UploadForm(p) == [Blank EXCEPT !.fields = FieldNames(p), !.page = p]

----------------------------------------------------------------------------
(* Pages asked for.  The user may open any page at any moment.            *)

Init ==
  /\ pending = {} /\ accepted = {} /\ listed = FALSE
  /\ page = None /\ field = {} /\ late = {} /\ uploads = 0 /\ gone = {}
  /\ tab = [t \in Tabs |-> Sent(Answers)]

\* A component's property that has no file left is unset.
Keep(files) ==
  /\ pending' = files
  /\ late' = {c \in late : Of(files, c) # {}}

\* The upload page offers its slots, and then drops what awaits a decision.
OpenUpload(t, p) ==
  /\ Keep(pending \ FilesOn(pending, p))
  /\ page' = p
  /\ Show(t, At("upload", p), UploadForm(p))
  /\ UNCHANGED <<accepted, listed, field, uploads, gone>>

\* The files a check page shows: the last uploaded, one for each field sent.
ToCheck(p) ==
  LET files == FilesOn(pending, p)
      count == IF Cardinality(field) > 1 THEN Cardinality(field) ELSE 1
  IN  {f \in files : Cardinality({g \in files : g.id > f.id}) < count}

\* It is about the upload page last opened, which may be that of another step.
OpenCheck(t, p) ==
  /\ \/ /\ page = None
        /\ Show(t, At("check", p), Blank)
     \/ /\ page # None
        /\ field \intersect SlotsIn(FilesOn(pending, page)) # {}
        /\ Show(t, At("check", p),
                [Blank EXCEPT !.page = page, !.ids = Ids(ToCheck(page)), !.asks = TRUE])
     \/ /\ page # None
        /\ field \intersect SlotsIn(FilesOn(pending, page)) = {}
        /\ Go(t, At("upload", page))
  /\ UNCHANGED data

\* Whether the summary page lists the files and asks for another.
Lists == page # None /\ HasMinFiles(accepted, page)
Asks == Lists /\ ~HasMaxFiles(accepted, page)

OpenSummary(t, p) ==
  /\ \/ ~listed /\ Go(t, IF page = None THEN At("summary", p) ELSE At("upload", page))
     \/ /\ listed
        /\ Show(t, At("summary", p),
                IF Lists THEN [Blank EXCEPT !.page = page, !.asks = Asks,
                                            !.ids = Ids(FilesOn(accepted, page))]
                         ELSE Blank)
  /\ UNCHANGED data

Open(t, u) ==
  \/ u.step = "upload" /\ OpenUpload(t, u.at)
  \/ u.step = "check" /\ u.at \in Checked /\ OpenCheck(t, u.at)
  \/ u.step = "summary" /\ u.at \in Summarised /\ OpenSummary(t, u.at)

----------------------------------------------------------------------------
(* Forms sent.  Of an upload form's slots, files arrive for sent; stored of *)
(* them are within their size and reach the file store; broken did not      *)
(* arrive whole.                                                            *)

\* A field sent without a file keeps the files of that slot and no others.
Kept(fields, sent) ==
  {f \in pending : \A s \in fields \ sent : s[1] = f.slot[1] => s = f.slot}

NewFiles(stored, new) ==
  /\ {f.slot : f \in new} = stored
  /\ \A f, g \in new : f # g => f.id # g.id /\ f.slot # g.slot
  /\ Ids(new) = (uploads + 1)..(uploads + Cardinality(new))

\* A file replaces the one of its slot, or is added.
Store(kept, stored, new) ==
  LET files == {f \in kept : f.slot \notin stored} \union new
  IN  /\ pending' = files
      /\ late' = {c \in Components :
                    /\ Of(files, c) # {}
                    /\ IF Of(kept, c) = {} THEN field # {} ELSE c \in late}
      /\ uploads' = uploads + Cardinality(new)

Valid(p) == \A c \in OnPage(p) \intersect Required : Of(pending', c) # {}

PostUpload(t, sent, stored, broken, new) ==
  LET p == Place(t)
  IN  /\ Shows(t, "upload")
      /\ sent \subseteq Posted(t).fields /\ stored \subseteq sent
      /\ broken \subseteq Posted(t).fields \ sent
      /\ NewFiles(stored, new) /\ uploads + Cardinality(new) <= MaxUploads
      /\ Store(Kept(Posted(t).fields, sent), stored, new)
      /\ field' = Posted(t).fields /\ page' = p
      /\ IF broken = {} /\ stored = sent /\ Valid(p)
         THEN Go(t, AfterUpload(p))
         ELSE Show(t, At("upload", p), UploadForm(p))
      /\ UNCHANGED <<accepted, listed, gone>>

\* mutant: every file of the component goes
WithoutComponent(files, slot) == {f \in files : f.slot[1] # slot[1]}

\* The accepted files without the first of a slot.
Without(files, slot) ==
  IF slot \in SlotsIn(files)
  THEN files \ {CHOOSE f \in files : f.slot = slot} ELSE files

\* mutant: the id sent is not looked at
DecidedByPage(form, files) ==
  /\ files \subseteq {f \in pending : form.page # None /\ PageOf[f.slot[1]] = form.page}
  /\ \A f, g \in files : f.slot[1] = g.slot[1] => f = g

\* Of each component of the form's page, a file the form names and that is
\* still pending, if there is one.
Decided(form, files) ==
  LET named == {f \in pending : f.id \in form.ids
                              /\ form.page # None /\ PageOf[f.slot[1]] = form.page}
  IN  /\ files \subseteq named
      /\ \A f \in named : \E g \in files : f.slot[1] = g.slot[1]
      /\ \A f, g \in files : f.slot[1] = g.slot[1] => f = g

WithoutAll(files, slots) ==
  {f \in files : \A s \in slots : f \in Without(files, s)}

\* mutant: a file is added beside the one of its slot
AddBeside(files) == accepted \union files

AddToAccepted(files) == WithoutAll(accepted, SlotsIn(files)) \union files
RemoveFromAccepted(files) == WithoutAll(accepted, SlotsIn(files))

\* mutant: the field name is unset with the decision
SettleUnset(t, files) ==
  /\ Shows(t, "check") /\ Posted(t).asks
  /\ Decided(Posted(t), files)
  /\ Keep(pending \ files)
  /\ listed' = (listed \/ files # {})
  /\ page' = Posted(t).page /\ field' = {}
  /\ UNCHANGED uploads

Settle(t, files) ==
  /\ Shows(t, "check") /\ Posted(t).asks
  /\ Decided(Posted(t), files)
  /\ Keep(pending \ files)
  /\ listed' = (listed \/ files # {})
  /\ page' = Posted(t).page
  /\ UNCHANGED <<field, uploads>>

Accept(t, files) ==
  /\ Settle(t, files)
  /\ accepted' = AddToAccepted(files)
  /\ Go(t, AfterCheck(Place(t)))
  /\ UNCHANGED gone

Reject(t, files) ==
  /\ Settle(t, files)
  /\ accepted' = RemoveFromAccepted(files)
  /\ gone' = gone \union Ids(files)
  /\ Go(t, At("upload", Place(t)))

NoDecision(t) ==
  /\ Shows(t, "check")
  /\ page' = Posted(t).page
  /\ Go(t, At("check", Place(t)))
  /\ UNCHANGED <<pending, accepted, listed, field, late, uploads, gone>>

\* A file is looked for by its id, and removed by its slot.  A file that is no
\* longer there leaves everything as it was, the page included.
Remove(t, id) ==
  LET was == {f \in accepted : f.id = id}
      p == Posted(t).page
  IN  /\ Shows(t, "summary") /\ id \in Posted(t).ids
      /\ \/ /\ was # {}
            /\ accepted' = RemoveFromAccepted({CHOOSE f \in was : TRUE})
            /\ page' = p /\ gone' = gone \union {id}
         \/ /\ was = {}
            /\ UNCHANGED <<accepted, page, gone>>
      /\ Go(t, IF HasMinFiles(accepted', p) THEN At("summary", Place(t)) ELSE At("upload", p))
      /\ UNCHANGED <<pending, listed, field, late, uploads>>

\* Asking for another file changes nothing until its page is opened.
ConfirmAnother(t) ==
  /\ Shows(t, "summary") /\ Posted(t).asks
  /\ Go(t, At("upload", Posted(t).page))
  /\ UNCHANGED data

\* The page goes on unless it now asks for a decision and none was sent.
DeclineAnother(t, decided) ==
  /\ Shows(t, "summary") /\ (decided => Posted(t).asks)
  /\ IF Posted(t).page = None
     THEN UNCHANGED <<pending, late, page>>
     ELSE Keep(pending \ FilesOn(pending, Posted(t).page)) /\ page' = Posted(t).page
  /\ Go(t, IF Asks /\ ~decided THEN At("summary", Place(t)) ELSE Later(Place(t)))
  /\ UNCHANGED <<accepted, listed, field, uploads, gone>>

Decide(t) ==
  \/ \E files \in SUBSET pending : Accept(t, files) \/ Reject(t, files)
  \/ NoDecision(t)
  \/ \E id \in Posted(t).ids : Remove(t, id)
  \/ ConfirmAnother(t)
  \/ \E decided \in BOOLEAN : DeclineAnother(t, decided)

Upload(t) ==
  \E sent, stored, broken \in SUBSET Posted(t).fields :
    \E new \in SUBSET [id : (uploads + 1)..(uploads + Cardinality(stored)), slot : stored] :
      PostUpload(t, sent, stored, broken, new)

Next ==
  \E t \in Tabs :
    \/ \E u \in Url : Open(t, u)
    \/ tab[t].form # None /\ (Upload(t) \/ Decide(t))

Spec == Init /\ [][Next]_vars

----------------------------------------------------------------------------
(* Properties *)

\* A file is accepted or awaits a decision, never both, alone in its slot and among
\* no more files than its component may have, whose number is compared with === and
\* would not be noticed when it is passed.  One that the user has rejected or removed
\* does not come back, whatever is sent twice or from an old form (storeUploadedFiles,
\* addToComponentAcceptedFiles, postValidation of the check and of the summary page).
OnePlace ==
  /\ Ids(pending) \intersect Ids(accepted) = {}
  /\ gone \intersect Ids(pending \union accepted) = {}
  /\ \A files \in {pending, accepted} :
       /\ \A f, g \in files : f.slot = g.slot => f = g
       /\ \A c \in Components : Cardinality(Of(files, c)) <= MaxFiles[c]

\* The answers sent for a component: the accepted files are merged at the place
\* of upload-component-field-name, over what comes before it and under what
\* comes after it (removeUploadComponentValuesForJson).
Answer(c) ==
  LET was == Of(pending, c)
      now == IF field = {} THEN {} ELSE Of(accepted, c)
  IN  IF now = {} \/ (was # {} /\ c \in late) THEN was ELSE now

\* Every accepted file is in the answers sent, unless a later file of its
\* component still awaits a decision.
AcceptedAreSent ==
  \A c \in Components : Of(pending, c) = {} => Answer(c) = Of(accepted, c)

\* A file becomes accepted only by a form that shows it (postValidation of the
\* check page takes the file by the id sent).
AcceptedWasShown ==
  [][\A f \in accepted' \ accepted :
       /\ f \in pending
       /\ \E t \in Tabs : Shows(t, "check") /\ f.id \in Posted(t).ids]_vars

\* An accepted file is lost only to a file the user decides about in the same
\* slot, or because the user asks for it to be removed.
AcceptedLeavesForOne ==
  [][\A f \in accepted \ accepted' :
       \/ f.slot \in SlotsIn(pending \ pending')
       \/ \E t \in Tabs : Shows(t, "summary") /\ f.id \in Posted(t).ids \intersect gone']_vars

\* A new form offers a slot that holds an accepted file only when the component
\* has all the files it may have (getAcceptedFieldName), also after a removal
\* has left a gap.
RoomMeansNewSlot ==
  [][\A t \in Tabs : tab'[t].form # None /\ tab'[t] # tab[t] =>
       \A s \in tab'[t].form.fields \intersect SlotsIn(accepted') :
         HasMax(accepted', s[1])]_vars

\* "A journey can't proceed beyond an upload step until it is valid": the summary
\* page leads on only with the files the components must have.
StepsNeedFiles ==
  [][\A t \in Tabs, decided \in BOOLEAN :
       DeclineAnother(t, decided) /\ tab'[t] = Sent(Later(Place(t)))
         => HasMinFiles(accepted', Place(t))]_vars
=============================================================================
