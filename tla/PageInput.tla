------------------------------ MODULE PageInput ------------------------------
(***************************************************************************)
(* The controls of one page: how a form is made from the stored answers    *)
(* and what a post of it stores, refuses and says (page/skip-components,   *)
(* process-input, validate-input, set-errors, update-control-names), and   *)
(* what the summary page lists and submits of it (component/type/answers). *)
(*                                                                         *)
(* A page definition is a record: controls (in the order of the page),     *)
(* kind, choices, when (the option that reveals a conditional control),    *)
(* show (the condition of a component), required, redacted, mask, and the  *)
(* parts and limits of its dates.  A checkboxes component is one control   *)
(* whose answer is the set of its checked items; a date's answer maps its  *)
(* parts to what was typed.                                                *)
(* Requests are handled one at a time: RunnerSession has the overlaps.     *)
(* Bounds: a browser keeps one old form, and changes one control per post. *)
(***************************************************************************)
EXTENDS Lists

CONSTANTS
  PageDefs,  \* the page definitions to look at
  Outside,   \* a question of another page
  Outsides,  \* the answers to it
  Days,      \* the days to look at
  Wrong,     \* the texts and parts of dates that are none
  Late,      \* the year beyond all limits of a date
  Blank,     \* nothing typed, or no answer
  None       \* no condition, or a variable that is not set

\* What is taken for granted of a page: the controls have names of their own, a control
\* that an option reveals comes after the question and has no `show` of its own, a date
\* has a month and a year, only texts and options are redacted, and nobody types the
\* mask of another answer.
IsPage(def) ==
  LET order == def.controls
      controls == Range(order)
  IN  /\ order \in Seq(controls)
      /\ \A i, j \in DOMAIN order : order[i] = order[j] => i = j
      /\ Outside \notin controls
      /\ \A c \in controls : def.kind[c] \in {"text", "radios", "checkboxes", "date"}
      /\ \A i \in DOMAIN order :
           def.when[order[i]] # None =>
             /\ def.show[order[i]] = None
             /\ \E j \in 1..(i - 1) : order[j] = def.when[order[i]].of
      /\ \A c \in controls :
           def.kind[c] = "date" =>
             /\ {"month", "year"} \subseteq def.parts
             /\ def.parts \subseteq {"day", "month", "year"}
             /\ \A v \in def.choices[c] : v = [part \in def.parts |-> v[part]]
      /\ def.limits \in Seq(Range(def.limits) \ {"required"})
      /\ \A c \in controls \cap def.redacted :
           /\ def.kind[c] \in {"text", "radios"}
           /\ def.choices[c] \cup {Blank} \subseteq DOMAIN def.mask
           /\ \A v \in DOMAIN def.mask :
                /\ def.mask[v] \in DOMAIN def.mask
                /\ def.mask[v] \in def.choices[c] \cup {Blank} => def.mask[v] = v

ASSUME PagesAssumption == \A def \in PageDefs : IsPage(def)
ASSUME BlankAssumption == Blank \notin Wrong
ASSUME DaysAssumption == Days # {} /\ Days \subseteq [day : 1..31, month : 1..12, year : Nat]

VARIABLES
  page,      \* the definition of the page: never changes
  today,     \* the day it is: never changes
  oldForms,  \* whether the browser may post a form that is not the last: never changes
  input,     \* the stored answers
  form,      \* the form of the page that is open in the browser, if one is
  summary,   \* what the open summary page lists, if it is open
  reply,     \* the response to the last post of the page
  sent       \* what was submitted, if it was

vars == <<page, today, oldForms, input, form, summary, reply, sent>>

Controls == Range(page.controls)
Is(c, k) == page.kind[c] = k

\* The answer of a control that has none.
NoAnswer(c) == CASE Is(c, "date") -> [part \in page.parts |-> Blank]
                 [] Is(c, "checkboxes") -> {}
                 [] OTHER -> Blank

-----------------------------------------------------------------------------
(* Conditions                                                              *)

\* The items of a checkboxes component have names of their own.
ItemsChecked(ans, c) == IF c # Outside /\ Is(c, "checkboxes") THEN ans[c] ELSE {}

\* evaluate of a condition that an answer is, or a checked item is among, a value
Holds(ans, cond) ==
  \/ cond = None
  \/ cond.is = ans[cond.of]
  \/ cond.is \in ItemsChecked(ans, cond.of)

\* skipComponents: the components without a condition that is false.  A component
\* that is removed takes those nested in it with it.
Present(ans) ==
  LET present[c \in Controls] ==
        /\ Holds(ans, page.show[c])
        /\ page.when[c] # None => present[page.when[c].of]
  IN  {c \in Controls : present[c]}

\* $conditionalShow
Hidden(ans, c) == ~Holds(ans, page.when[c])

\* $..[?(@.name)] finds the components of a page before those nested in them.
Visit(cs) ==
  LET nested == {c \in cs : page.when[c] # None}
  IN  Only(page.controls, cs \ nested) \o Only(page.controls, nested)

-----------------------------------------------------------------------------
(* processInput                                                            *)

\* redact
Mask(c, v) == IF c \in page.redacted THEN page.mask[v] ELSE v

\* mutant: the mask of the stored answer is taken for a new one
UpdateValueMasked(ans, c, v) == [ans EXCEPT ![c] = v]

\* updateControlValue: a posted mask of the stored answer leaves it alone.
UpdateValue(ans, c, v) ==
  IF /\ c \in page.redacted
     /\ v # Blank
     /\ v = Mask(c, ans[c])
  THEN ans
  ELSE [ans EXCEPT ![c] = v]

\* mutant: a control that is hidden is passed over
ProcessControlSkipped(ans, c, fields) ==
  IF Hidden(ans, c) THEN ans ELSE UpdateValue(ans, c, fields[c])

\* processControl: a hidden control is unset, whatever the form holds for it.
ProcessControl(ans, c, fields) ==
  UpdateValue(ans, c, IF Hidden(ans, c) THEN NoAnswer(c) ELSE fields[c])

\* The controls that are present, each after the one it depends on; what an old form
\* has no field for is not posted.
ProcessInput(ans, cs, fields) ==
  LET posted == [c \in cs |-> IF c \in DOMAIN fields THEN fields[c] ELSE NoAnswer(c)]
      order == Visit(cs)
      processed[i \in 0..Len(order)] ==
        IF i = 0 THEN ans ELSE ProcessControl(processed[i - 1], order[i], posted)
  IN  processed[Len(order)]

-----------------------------------------------------------------------------
(* validateInput.  An error is a control and a type.                       *)

Error(c, type) == [control |-> c, type |-> type]

\* The lists of the controls in an order, one after the other.
Joined(order, lists) == FlattenSeq([i \in DOMAIN order |-> lists[order[i]]])

\* types: the types of errors of each control
Errors(order, types) ==
  Joined(order, [c \in DOMAIN types |-> [i \in DOMAIN types[c] |-> Error(c, types[c][i])]])

\* mutant: a hidden control is required too
IsRequiredAnyway(ans, c) == c \in page.required

\* isRequired, which looks at the condition that $skipValidation stands for again
IsRequired(ans, c) == c \in page.required /\ ~Hidden(ans, c)

\* validateRequired
RequiredTypes(ans, c) ==
  IF IsRequired(ans, c) /\ ans[c] = NoAnswer(c) THEN <<"required">> ELSE <<>>

\* validateValue: neither dates nor checkboxes, and no control without an answer
ValueTypes(ans, c) ==
  IF page.kind[c] \in {"text", "radios"} /\ ans[c] \in Wrong THEN <<"value">> ELSE <<>>

MonthLength(year, month) ==
  CASE month = 2 -> IF year % 4 = 0 THEN 29 ELSE 28  \* years from 1901 to 2099
    [] month \in {4, 6, 9, 11} -> 30
    [] OTHER -> 31

Real(date) ==
  /\ date["year"] \notin Wrong
  /\ date["month"] \in 1..12
  /\ "day" \in page.parts => date["day"] \in 1..MonthLength(date["year"], date["month"])

\* DateController.validate: its "required" repeats that of validateRequired.
DateTypes(ans, c) ==
  LET filled == {part \in page.parts : ans[c][part] # Blank} IN
  CASE filled = {} -> RequiredTypes(ans, c)
    [] filled # {} /\ filled # page.parts -> <<"date.missing">>
    [] filled = page.parts /\ ~Real(ans[c]) -> <<"date.invalid">>
    [] filled = page.parts /\ Real(ans[c]) /\ ans[c]["year"] = Late -> page.limits
    [] OTHER -> <<>>

\* checkboxes are looked at after the controls that have a name themselves.
Validate(ans, cs) ==
  LET groups == {c \in cs : Is(c, "checkboxes")}
      dates == {c \in cs : Is(c, "date")}
      names == Only(Visit(cs), cs \ groups)
  IN  Errors(names \o Only(Visit(cs), groups), [c \in cs |-> RequiredTypes(ans, c)])
        \o Errors(names, [c \in cs |-> ValueTypes(ans, c)])
        \o Errors(Only(names, dates), [c \in dates |-> DateTypes(ans, c)])

Validated(ans, cs) == Validate(ans, cs) = <<>>

-----------------------------------------------------------------------------
(* setErrors                                                               *)

\* mutant: the second required error of a date is shown
CheckErrorDisplayAlways(es, i) == TRUE

\* checkErrorDisplay: of several errors of one control, one after or before a
\* "required" is dropped.
CheckErrorDisplay(es, i) ==
  LET earlier == {j \in 1..(i - 1) : es[j].control = es[i].control}
  IN  earlier # {} => "required" \notin {es[i].type, es[Max(earlier)].type}

Displayed(es) ==
  LET shown == Only([i \in DOMAIN es |-> i], {i \in DOMAIN es : CheckErrorDisplay(es, i)})
  IN  [k \in DOMAIN shown |-> es[shown[k]]]

OfControl(es, c) == Only(es, {e \in ToSet(es) : e.control = c})

\* setControlErrors: the messages next to each control, in the order of the checks
ControlErrors(es) == [c \in Controls |-> OfControl(Displayed(es), c)]

\* setSummaryErrors: the list of errors at the top of the page
SummaryErrors(es, cs) ==
  Displayed(Joined(Visit(cs), [c \in cs |-> OfControl(es, c)]))

-----------------------------------------------------------------------------
(* Forms, and what is listed and submitted                                 *)

\* getRedactedValue: an answer in error, or that would be in error, is shown as it is.
ShownValue(ans, c, es) ==
  IF /\ ans[c] # NoAnswer(c)
     /\ OfControl(es, c) = <<>>
     /\ Validated(ans, {c})
  THEN Mask(c, ans[c])
  ELSE ans[c]

\* The page as it is rendered with the errors es.
FormOf(ans, cs, es) == [c \in cs |-> ShownValue(ans, c, es)]

\* A Date whose day is past the end of its month is in the next month.
Rolled(date) ==
  LET length == MonthLength(date.year, date.month)
  IN  IF date.day <= length THEN date
      ELSE [date EXCEPT !.month = date.month + 1, !.day = date.day - length]

\* DateController.getDisplayValue sets the parts one by one, starting from today.
DateShown(date) ==
  LET Set(d, part) == IF part \in page.parts THEN Rolled([d EXCEPT ![part] = date[part]]) ELSE d
      set == Set(Set(Set(today, "day"), "month"), "year")
  IN  [part \in page.parts |-> set[part]]

\* getDisplayValue: a date with a part missing is not answered.  The property that
\* redacts a displayed answer is not the one that redacts a control.
DisplayValue(ans, c) ==
  CASE ~Is(c, "date") -> ans[c]
    [] Is(c, "date") /\ (\E part \in page.parts : ans[c][part] = Blank) -> NoAnswer(c)
    [] OTHER -> DateShown(ans[c])

\* The questions of the page that the summary lists.
Listed(ans) ==
  [c \in {c \in Present(ans) : ~Hidden(ans, c)} |-> DisplayValue(ans, c)]

\* getOutputData: every answer there is, listed or not
OutputData(ans) == [c \in {c \in Controls : ans[c] # NoAnswer(c)} |-> ans[c]]

-----------------------------------------------------------------------------
NoAnswers(out) == [c \in Controls \cup {Outside} |-> IF c = Outside THEN out ELSE NoAnswer(c)]

Init ==
  /\ page \in PageDefs
  /\ today \in IF \E c \in Controls : Is(c, "date") THEN Days ELSE {CHOOSE day \in Days : TRUE}
  /\ oldForms \in BOOLEAN
  /\ \E out \in Outsides : input = NoAnswers(out)
  /\ form = None
  /\ summary = None
  /\ reply = None
  /\ sent = None

\* A browser that keeps old forms may go back to the one that was open.  Bound: it
\* keeps one.
Opened(f) == form' \in {f} \cup IF oldForms /\ form # None THEN {form} ELSE {}

\* What is left of the form and of the summary page when another page is shown.
LeavesForm == IF oldForms THEN form ELSE None
LeavesSummary == IF oldForms THEN summary ELSE None

\* A GET of the page.
View ==
  /\ Opened(FormOf(input, Present(input), <<>>))
  /\ summary' = LeavesSummary
  /\ reply' = None
  /\ sent' = None
  /\ UNCHANGED <<page, today, oldForms, input>>

\* The other page is posted.
AnswerOutside(out) ==
  /\ input' = [input EXCEPT ![Outside] = out]
  /\ form' = LeavesForm
  /\ summary' = LeavesSummary
  /\ reply' = None
  /\ sent' = None
  /\ UNCHANGED <<page, today, oldForms>>

\* Bound: the user changes at most one control of a form before posting it.
Typed(f) ==
  {f} \cup UNION {{[f EXCEPT ![c] = v] : v \in page.choices[c]} : c \in DOMAIN f}

\* The answers that the user who posts fields in form f has in mind: what was left as it
\* was shown is the answer given before.
Meant(f, fields) == [c \in DOMAIN f |-> IF fields[c] = f[c] THEN input[c] ELSE fields[c]]

\* A post of the page stores the answers whether or not they are valid, and either goes
\* on or renders the page with its errors.  Components are removed again when it is
\* rendered, with the new answers.
Post(f, fields) ==
  LET cs == Present(input) IN
  \E ans \in {ProcessInput(input, cs, fields)} : \E es \in {Validate(ans, cs)} :
    /\ input' = ans
    /\ reply' = [controls |-> cs, meant |-> Meant(f, fields), accepted |-> es = <<>>,
                 inline |-> ControlErrors(es), list |-> SummaryErrors(es, cs)]
    /\ IF es = <<>> THEN form' = LeavesForm
       ELSE Opened(FormOf(ans, cs \cap Present(ans), es))
    /\ summary' = LeavesSummary
    /\ sent' = None
    /\ UNCHANGED <<page, today, oldForms>>

\* The summary page redirects to the page (View) unless it is valid.
ViewSummary ==
  /\ Validated(input, Present(input))
  /\ summary' = Listed(input)
  /\ form' = LeavesForm
  /\ reply' = None
  /\ sent' = None
  /\ UNCHANGED <<page, today, oldForms, input>>

\* The summary page is posted: it looks at the page again before it submits, and the
\* confirmation page ends the session.
Submit ==
  /\ summary # None
  /\ Validated(input, Present(input))
  /\ sent' = [shown |-> summary, answers |-> input, listed |-> Listed(input),
              output |-> OutputData(input)]
  /\ \E out \in Outsides : input' = NoAnswers(out)
  /\ form' = None
  /\ summary' = None
  /\ reply' = None
  /\ UNCHANGED <<page, today, oldForms>>

Next ==
  \/ View
  \/ \E out \in Outsides : AnswerOutside(out)
  \/ form # None /\ \E fields \in Typed(form) : Post(form, fields)
  \/ ViewSummary
  \/ Submit

Spec == Init /\ [][Next]_vars

-----------------------------------------------------------------------------
(* Properties                                                              *)

\* What a complete page is: every question that is there and revealed is answered when
\* it is required, and what is answered is right.
Complete(ans, cs) ==
  \A c \in cs :
    /\ c \in page.required /\ ~Hidden(ans, c) => ans[c] # NoAnswer(c)
    /\ page.kind[c] \in {"text", "radios"} => ans[c] \notin Wrong
    /\ Is(c, "date") /\ ans[c] # NoAnswer(c) =>
         /\ Blank \notin Range(ans[c])
         /\ Real(ans[c])
         /\ page.limits # <<>> => ans[c]["year"] # Late

\* A post goes on exactly when the page is complete, as it was when the post arrived,
\* and whatever is submitted is complete as it is then (validateInput, preFlight).
AcceptedIsComplete ==
  /\ reply # None => (reply.accepted <=> Complete(input, reply.controls))
  /\ sent # None => LET cs == DOMAIN sent.listed IN Complete(sent.answers, cs)

\* The messages beside the controls and the list at the top of a refused page are the
\* same, in the same order for each control; "required" stands alone, nothing is said of
\* a hidden control, and an answer that was refused is shown as it was typed.
ErrorsAgree ==
  reply # None =>
    /\ reply.accepted <=> reply.list = <<>>
    /\ \A c \in Controls :
         LET es == reply.inline[c] IN
         /\ es = OfControl(reply.list, c)
         /\ es # <<>> => c \in reply.controls /\ ~Hidden(input, c)
         /\ Error(c, "required") \in Range(es) => Len(es) = 1
         /\ es # <<>> /\ ~oldForms /\ c \in DOMAIN form => form[c] = input[c]

\* A browser that posts only the form it showed last stores what the user meant: a new
\* answer where one was typed, the old one where the form was left as it was, masked
\* or not, and none for a control that another answer hides, or that the form lacks
\* because the answers of the post before have brought it in.
PostIsObeyed ==
  ~oldForms /\ reply # None =>
    \A c \in reply.controls :
      input[c] = IF Hidden(input, c) \/ c \notin DOMAIN reply.meant THEN NoAnswer(c)
                 ELSE reply.meant[c]

\* Any month has the day of such a date, or of today if the date has none.
InEveryMonth(date) == (IF "day" \in page.parts THEN date["day"] ELSE today.day) <= 28

\* The answers submitted as data are those the summary lists, but for questions that a
\* condition has removed since they were answered, and for dates after the 28th of a
\* month, which the summary shows as another day on some days of the year; for a browser
\* that posts its last form, they are also what the summary showed.
SentAsListed ==
  sent # None =>
    /\ \A c \in DOMAIN sent.output \cap Present(sent.answers) :
         /\ c \in DOMAIN sent.listed
         /\ (Is(c, "date") => InEveryMonth(sent.output[c])) => sent.listed[c] = sent.output[c]
    /\ \A c \in DOMAIN sent.listed :
         sent.listed[c] # NoAnswer(c) => c \in DOMAIN sent.output
    /\ ~oldForms => sent.shown = sent.listed
=============================================================================
