# fb-runner-node in TLA+

TLA+ models of the form runner of this repository, their TLC runs and the
theorems about them that TLAPS checks. `PROJECT.json` maps every definition to
the lines it models.

## The system

The runner serves a form described by JSON service data. A browser walks through
its pages; what the user enters is kept in one document per user in a remote user
datastore. The runner itself is meant to be stateless: every request loads the
whole document, edits its own copy and writes the whole copy back.

| part | code (under `lib/`) | state | operations | what makes it correct | module |
|---|---|---|---|---|---|
| session | `middleware/user-session` | the session cookie | new session, rolling cookie, invalid cookie, `/reset`, clear on confirmation | a user id is made once and ends at the confirmation | `RunnerSession` |
| user data | `middleware/user-data` | the user document (answers, counts, flash messages, visited pages, meta) | load, edit, save, reset | edits are not lost, flash messages are shown once | `RunnerSession` |
| CSRF | `middleware/csrf` | nothing per user; the validator closes over the request | create and verify the token | a form that comes through the proxy writes only into its own session | `RunnerSession` |
| request handler | `middleware/routes-metadata` (`pageHandler`) | the request's copy | up to three saves, redirect or render | a post is stored before it is acknowledged | `RunnerSession`, `Journey` |
| journey | `route`, `page/redirect-next-page`, `page/skip-page`, `page/check-submits` | none (reads answers and counts) | next, previous, first unanswered page | nothing incomplete is submitted, back undoes next | `PageFlow`, `Journey` |
| repeatables | `page/set-repeatable`, `page/add-item`, `page/remove-item` | counts and arrays of answers | show, add, remove | count within its bounds and equal to what is shown | `Repeatable` |
| multipart parser | `page/process-uploads` | pending writes, flags, files on disk | file and field events, abort, done, store | completes once, never before its writes | `UploadParser` |
| upload pages | `page/set-uploads`, `page.uploadCheck`, `page.uploadSummary`, component `upload` | uploaded and accepted files | accept, reject, remove, confirm another | accepted files within their limits, one per slot, none accepted unseen | `UploadSlots` |
| submission | `page.summary`, `client/submitter` | the submission id | submit, retry | what is sent is complete and is what was shown | `Journey`, `Repeatable`, `PageInput`, each with its part |
| save and return | `module/savereturn` | e-mail and mobile details, links, codes, records | set up, sign in, sign out | signing in leads to the session the address was confirmed for | `SaveReturn` |
| service data | `service-data` | files, source instances, runtime instances | load, get, set, create, delete | no edit undoes another or keeps the service from loading, pages are shown as documented | `Definition`, `ServiceFiles`, `ShownService` |
| conditions | `evaluate-condition` | none | evaluate | means what the documentation says | `Expressions`, `Conditions` |
| input and validation | `page/skip-components`, `page/process-input`, `page/validate-input`, `page/set-errors` | errors on the page instance | read, check, report | an incomplete page is not left, what was meant is stored | `PageInput` |
| answers | `component/type/answers` | none | list, submit | what is listed is what is sent | `PageInput` |

Components interact by direct calls within one request; requests interact through
the user datastore and the browser's cookie only. Hard behaviours are therefore
the interleaving of requests of one user (tabs, double clicks, a response that
arrives before the last save), saves that fail or arrive late, cookies that
expire between two requests, forms that are older than the document they are
posted to, and the event order inside the multipart parser.

The models divide the work accordingly. `RunnerSession` has the overlap of requests
and nothing of what a page contains. `Journey`, `PageInput`, `Repeatable` and
`UploadSlots` have what a page does with the document, one request at a time.
`UploadParser` is the inside of one request. `SaveReturn` has the calls to a service that
keeps state of its own, with a failure after each. `ServiceFiles` is the other user of the
process, who edits the form. They share no variable; they share operators:
`Journey` is `PageFlow` with a browser; `ServiceFiles` and the services of `MCJourney` are
built on `Definition`, which has conditions (`Expressions`) and does not look at what they
mean; `Conditions` says that, and `ShownService` puts it together with `ServiceFiles`.

## RunnerSession

Requests are numbered in the order the browser sends them. `uid`, `fresh`, `pc` and
`doc` are what a request holds while it runs (`req.getUserId`, `req.newSession`, the
`await` it is suspended at, `req.user`'s data). `store` is the user datastore. A
`Put` replaces the whole document: `setData` carries `getAllData()` and no version.
Each `await userData.saveData()` of `loadUserData` and `pageHandler` is a `Wait`
followed by one of the `Put...` actions. `Render` is `renderPage` and the lines after
it: the response goes out first, then the flash messages are cleared and the copy
saved once more. `Fail` is any rejection caught by `useAsync` and answered by the
error handler, `Stop` the process or the last save failing after the response.
When a request fails, a PUT it had sent may still land (`Orphans`).

`validateCsrf` returns before it looks at the token when a request has no `x-forwarded-host`
header (`csrf.js:40`). `Forwarded` says whether the posts of the browser come with one, through
the proxy that the runner is deployed behind, or not: in the runs they do both, a form of
an ended session that comes without is written into the new one, and `FormsStayInTheirSession` is
about those that come with. A multipart post is checked by the module's `validateCsrf`, which every
request binds anew, so that while two of them are under way the header that is looked at may be that
of the other; the model looks at the request's own.

`Client` says when the browser sends its next request: after everything has settled
(`patient`), after each response (`singleTab`), or at any time (`tabs`).

`AtomicSession` is the promise to a user: the document changes by one edit at a time.

| run | shows |
|---|---|
| `session_tabs` | any overlap of three requests: `TypeOK`, `AcknowledgedPostWasStored`, `FormsStayInTheirSession`, `CreatedKept`, `ConfirmationEndsSession`, and `EveryRequestEnds` under weak fairness |
| `session_patient` | patient browser, four requests, PUTs that land after their request failed: `AnswersNeverRevert`, `FlashKeptUntilShown`, `FlashShownOnce`, refinement of `AtomicSession` (`ImplementsAtomic`) |
| `session_flash_lost` | expected violation: a browser that only waits for responses loses a flash message to the save that follows the previous response (`user-data.js:285` against `routes-metadata.js:650`) |

Bounds: three requests are the least that allow a request to overlap two others, a
post to be overwritten and the overwriting to be read back; the fourth of
`session_patient` is needed to see a flash message twice (`start`, the post, two views).
One page is enough: two edits of the same answer collide, and an edit of another part
of the document is what a flash message is. The theorems below have every number of requests
and of pages. A PUT that lands after its request has failed (`Orphans`) can take the
creation date with it, so that `session_tabs`, which checks `CreatedKept`, is without;
`session_patient` is with. Fairness (`FairSpec`): the datastore answers or refuses each
call, and the event loop runs every callback that is due. Nothing is assumed of the
browser, nor of failures.

What no property says, because the code does not do it: that of two tabs of one session neither
loses an answer. The later PUT replaces the document that the earlier one wrote, and with it
the earlier one's edit (`AnswersNeverRevert` is about a patient browser). Left out is a load that
fails with a 404 that `loadData` has not already turned into an empty document
(`user-data.js:349-352`): it clears the cookie and redirects.

## UploadParser

One multipart POST of `MaxParts` parts, from the first event of the patched multer
middleware to the save of the user document. `part[p]` is how far part `p` has come:
announced and skipped or refused, `streaming` to its temp file, `flushing` after its
last byte until `_handleFile` calls back, `stalled` when its write failed with the
stream open. `pendingWrites`, `errorOccured` and `cleanup` are the counter and the flags
of `make-middleware.js`; `Settle` is the pair "decrement, then `indicateDone` or the
waiting clean-up". `input` joins `readFinished` and the broken body. The write
callbacks may come in any order and at any later time, also after the middleware
has called next. `processUploads` then goes on (`Process`, `Store...`, `Save`) with or
without an error, as the code does.

| run | shows |
|---|---|
| `upload_parser` | three parts: `SuccessIsComplete`, `FilesKeptOrReported`, and `RequestEnds` under fairness |

Bounds: an interleaving of this code concerns an error in one part, a write of a
second under way and a third not yet announced. Fairness: the browser sends the
whole body, the disk calls back, the filestore answers; the parser gets past a file
that nobody reads only when nothing is left in its stream, so that a `stalled` or
`refused` file may hold up the body, and `Unhindered` leaves that case out of the
fairness. Left out: the removeFile and removeSlot buttons, bodies that are not
multipart, a browser that disconnects inside the body, and the exception of
unlinking a file that was cut off at its limit and never written.

## Repeatable

One repeatable component with its count, its array of answers and the array of the
display scope. A form records what the browser shows: the items and which buttons
there are. A post is applied to the document as it is then: `Remove` and `Add` are the
branches of `pageHandler` that redirect to the page itself, `Continue` and `Submit` all
that goes on to validation, which a removal that the count refuses does as well.
`oldForms`, chosen at the start, says whether the browser may post a form that is not the
last it was shown (a double click, another tab). An array is as long as the last item that was
typed, or as it was. What is missing beyond its end is `undefined` when the document comes back
from the datastore, and a hole within it is `null`, which `validateRequired` takes for an
answer (`validate-required.js:121`) and `validateValue` refuses when the component has anything else to
validate (`checked`): so the summary page (`Passes`) does not send back everything that the
page would have refused (`Valid`).

| run | shows |
|---|---|
| `repeatable` | one to three items; any form: `CountWithinBounds`, `DisplayAgrees`; the last form only: `FormIsObeyed`, `NothingHidden`, `SentAsShown` |

With old forms two things happen that comments in `remove-item.js` (lines 12 and 26)
say should be errors and are not. A removal clicked twice splices an index that the
array no longer has and still takes one off the count, so that an answer is hidden
and nevertheless submitted. A removal that the count refuses goes on to the page's
main action; on the summary page it submits the form. The model has both steps;
`FormIsObeyed`, `NothingHidden` and `SentAsShown` are therefore about `~oldForms`.

Bounds: one value and its absence tell a kept answer from a moved one; three items have a
first, a middle and a last one. `MaxItems` (4) only bounds a component without a maximum.

The array of the display scope is not spliced by a removal; the page after it shows
the input array, and the next post writes both, which is why `DisplayAgrees` is about
posts of the main button only.

## PageFlow and Journey

`PageFlow` holds the pure part: which page follows which, for one service and one
state of the answers. `NextPage` is `getNextPage`, `NextInTree` the same without nextPage
properties, `PreviousPage` the walk of `getPreviousPage`, `CheckNextPage` the walk of
`checkNextPage` to the first page that is not valid, and `RedirectForNextPage` what the
user is sent to. A condition is about one answer and may be negated; like `evaluate`
it looks at an answer even when the page that asked for it is no longer part of the
journey. `Flow`, `InFlow` and `Complete` are the reference, read from
`documentation/.../flow/flow.md`, and share nothing with the walks but `Visible`. The order of
the steps, which the documentation speaks of, is given by numbers: `from` and `to` enclose
the pages under a page. Only properties and assumptions use them, no walk does.

What is assumed of a service is said by `Tree` (every page but one is one step of one page,
numbered in the order of the steps), `Forward` (a nextPage property leads to a later page),
`SummaryAtTheEnd` and `Unconditional` (the summary is a step of the start page after the
questions, and is shown, as the start page is, for all answers; the first step has no
condition). `Journey` assumes them of `Services`, and the bounds below say why.

`Journey` adds a browser with tabs. `Gate` is what `pageHandler` does before it looks at
the body: the redirect of a request without a session, `preFlight` of the summary,
`skipPage`. `Load` is a GET, `Turned` a POST that does not get past the gate, `Post` and
`Submit` POSTs that do. An answer is stored whether or not it is valid.

| run | shows |
|---|---|
| `journey` | two tabs, services with and without nextPage properties: `NeighboursAreFlow`, `CompleteOpens`, `SubmittedComplete`, `ChangeFindsGap`, `ShownInFlow`, and `RedirectsEnd` under fairness |
| `journey_next_by_id` | expected violation of `ExplicitNextObeyed`: a nextPage that is a page id is not obeyed (`route.js:453`), nor is an entry whose condition is true |

Bounds: the services (`svc`, chosen at the start) have a start page, three questions, a
summary and a confirmation page; they are made by `Definition` from files, so that
their conditions are those that the runner would propagate. Three shapes (flat, a
question inside a question's section, every page a step of the one before it) meet each
case of `checkNextInputPage`: a next sibling, a climb to an ancestor's sibling, the end.
`b` is unconditional or shown for one answer to `a`; `c` is unconditional, or hidden for
one answer to `b`, which may itself be hidden; two flat services also have a page that
leads straight to `c`. Two values tell a condition that holds from one that does not, and
`Blank` is a missing answer. The first question is unconditional: with a first step that
is conditional and visible, `preFlight` takes it for an exit page and never lets the
summary open. The summary is a step of the start page: `preFlight` starts its walk at the
page above the summary, so a summary inside a section would check that section only.
nextPage properties lead forward, possibly to a hidden page: then `checkNextPage` throws
404 (`redirect-next-page.js:62`), though `flow.md:161` says that the user is redirected. One
that leads back makes the walk of the code recurse without end. `ShownInFlow` has a hidden
page lead past the pages below it, although `skipPage` looks at one page only: the load has
given those pages its condition.

Fairness (`FairSpec`): the browser follows the redirects it is sent. With a second tab
that keeps changing answers between a redirect and the request that follows it, nothing
bounds the number of redirects; `RedirectsEnd` leaves that case out by its second half.

Requests of `Journey` are handled one at a time. The service has no `SERVICE_URL`, with
which the start page would redirect. Left out: upload pages (`UploadSlots`), repeatable
pages, languages, parameters in addresses, the edit modes.

## PageInput

The controls of one page, from the form that is shown to the answers that are sent.
`Present` is `skipComponents`, `ProcessInput` the fold of `processControl` over the controls
that are there, `Validate` the three passes of `validateInput` in their order,
`ControlErrors` and `SummaryErrors` the two lists `setErrors` makes, `FormOf` what
`updateControlNames` and `getRedactedValue` put into the form, `DisplayValue` and
`OutputData` what the summary lists and what it submits. `View`, `Post`, `ViewSummary` and
`Submit` are requests, `AnswerOutside` is a post of another page.

| run | shows |
|---|---|
| `page_input` | six pages: `AcceptedIsComplete`, `ErrorsAgree`, `PostIsObeyed`, `SentAsListed` |

What the model keeps of the code because properties turn on it: a component's `show` is
looked at before the post is processed, a control's `$conditionalShow` after; a posted mask of the
stored answer leaves the answer alone; of two errors of one control, one next to
"required" is dropped, which is what keeps the second "required" of a date away
(`date.js` repeats the check); jsonpath visits the components of a page before those
nested in them, so that the errors are not "in source order" (`set-errors.js:267`) but
grouped alike in both lists. The display of a date sets day, month and year one after the
other from today, so that a date after the 28th is shown as another day on some
days of the year; `SentAsListed` has that exception. What is submitted also includes
answers to questions that a condition has removed since, which nothing lists. The
summary lists redacted answers in full: `isRedacted` there reads the property `redacted`,
the control has `redact`. `onlyShowCompletedAnswers` is never set by the summary page.

Bounds: the pages have options that reveal questions two levels deep, checkboxes with a text
under an item, dates with and without limits and without a day, redacted texts with two
kinds of mask, and components with a condition on an answer of the page or of another.
The browser keeps one old form and changes one control for each post: every answer of
a page can still be reached by posting again. One day per session, a day of a short
month or the 31st. A control that an option reveals has no `show` of its own, and a date
has a month and a year. Patterns, formats and lengths are the set `Wrong`.

## UploadSlots

The pages of upload components and the check and summary pages that the service data
injects after them. `pending` is the components' own properties, `accepted`, `page` and
`field` are the `upload-component-...` properties of the same names, `late` what is left of
their order in the document (the submission merges them in that order). `PostUpload` is the post of
an upload page when the parser is done (`UploadParser`), with files that arrive, files
that do not arrive whole and files that the filestore refuses. `Accept`, `Reject` and
`NoDecision` are the posts of the check page, `Remove`, `ConfirmAnother` and
`DeclineAnother` those of the summary page, `Open...` the GETs. A form records what it was
made with, and any tab may post it at any later time.

| run | shows |
|---|---|
| `uploads` | two tabs, two pages, three components: `OnePlace`, `AcceptedAreSent`, `AcceptedWasShown`, `AcceptedLeavesForOne`, `RoomMeansNewSlot` |
| `uploads_too_few` | expected violation of `StepsNeedFiles`: with fewer accepted files than `minFiles` the summary page of the uploads is empty and leads on |

Bounds: three uploads fill the two slots of a component and bring one more; one
component must have a file and one may stay empty; one page has both steps and one
none. The tabs are interchangeable (`Symmetry`), and no property is about liveness. The
templates of the check and summary page are those of another package, taken to send
back what the page was given. File types, sizes and the messages are left out.

## SaveReturn

`module/savereturn`: the user confirms an address (and a mobile) for the session and
comes back to it in any browser. Each handler makes up to four calls, to the
save-and-return service, to the notifier and to the datastore, and undoes nothing when a
later one fails: `Calls(n)` is how far it gets. `live` are the links and codes that were
sent and not used, `records` the service's records, `confirmed`, `stranded` and `told` are
history. `ResetUser` is `resetUser`: the request goes on with the document of another
session. The service itself is external, modelled from how the client uses it: a new
token takes the place of the one for the same purpose, and one that was used is
refused.

| run | shows |
|---|---|
| `savereturn` | two browsers, two sessions, one address: `RecordsMatchConfirmed`, `AnswersStayTheirOwn`, `SavedMeansRecord` |

Bounds: two sessions and two browsers are what it takes to open a link in a browser that
holds another session; the tokens of two addresses do not meet. Browsers and sessions are
interchangeable (`Symmetry`); the properties are invariants and step properties. A request that stops after the
token was used and before the record was made leaves a user whose link is spent and whom
signing in does not know: `stranded`, the exception in `RecordsMatchConfirmed`. The posts
of both codes end in an error after everything was saved, because the search for the
next page finds none. A start without an address goes on as if a link had been sent, because the
error of encrypting nothing is swallowed (`start.controller.js:30`): `StartUnknown` has no
address then. `Document` has the answers and details, not the counts and the flash messages:
`getUserDataMethods` binds these to the arrays of the first document (`user-data.js:132-133`), and they
stay the old session's after `resetUserData`. The requests that change the user redirect or fail
after it, and read or write neither, so that no property here could tell. Left out: encryption,
the texts of messages, the history list.

## Conditions, Definition and ServiceFiles

`Expressions` has the shape of conditions, `Conditions` is `evaluate-condition.js`: every
operator, scope, identifier match and group. A condition is one of `Simple` (a boolean or an
expression) or a group of conditions, with at most `Nesting` groups within each other
(`Nested`). `Evaluate` counts the members that hold, as the code does; `Documented` reads the
groups and the negation from the documentation instead. `Definition` makes runtime instances of sources: overriding, `_isa`, parents, namespaces,
hoisted and propagated conditions, injected summary pages. `ServiceFiles` is the process
that an editor works with: the edits change `memory` and write `files`, `runtime` stays as
loaded, a deletion takes two writes (`DeleteInstance`, `DeleteFile`), and `Restart` may
come between them. `ShownService` adds the users: `Skipped` is the documentation's list
of what a page is skipped for, `ShownAsDocumented` compares it with what the load has made of
the conditions. `Reload` is a second load in the same process, which keeps its map of
namespaces (`seen`). `intended` is history: what all edits of a page together should have made
of it, whether or not the code keeps them; `undone` is what it is known not to keep.

The load goes through the pages in the order of their files, those of the last source first
(`Order`, of which `FileOrder` is the part that the paths decide). Namespaces: each page in
turn first has the page at its mount point done, or its parent if it is not mounted, and
so on upward (`Upper`, `climb`), and then hands its own to the steps below it; a page whose
namespaces the process has already propagated is not started from again (`Starts`). A page with
`namespaceProtect` takes none from above. A page that is both a step and mounted has only the
mount point done first, and what its parent has at the time may not be all. Conditions:
`Walk` is the order in which a page gets that of its mount point and a step that of its
section, each with what the page above has got by then (`Shows`).

`Loads` says when a service loads: every `_isa` and step is found and no step has two
pages (`Parented`), every mount point is found and a repeatable page has a namespace
(`Referring`), nothing is above itself. A load that fails after `Parented` has already marked some
pages in `namespacesSeenMap`, which `Reload` leaves open. In a process that has loaded before, a
circle of steps does no harm when all its pages are marked (`LoadsAgain`). A circle through steps and
mount points together may load or not, depending on the order of the pages; the model
takes it not to.

`EditsKept` is about everything an edit was asked to do, and names what the code undoes (`undone`):

- `setInstance` writes the file and not the instance in memory (`service-data.js:524-570`), so that
  a property that is set before the next load puts the old condition back (598-601);
- a deletion writes the steps of the runtime instance (502-511), and the steps that were added
  to the page since the load are gone;
- a page that is created a second time before a load takes the place of the first.

Two more exceptions are in how it compares: an instance of a module comes before the file that
the edit has written, and the injected summaries that a deletion writes among the steps are
not looked at.

| run | shows |
|---|---|
| `service_files` | three services, three edits: `ShownAsDocumented`, `NamesLostByReload`, `EditsKept`, `StaysLoadable` |

`NamesLostByReload` and `StaysLoadable` name what the code does lose. A load in a process
that has loaded a page, or one above it, before may leave the page without the namespaces of
those above it, and so may any load below a page that is both a step and mounted; and a service that loaded no longer does after

- a deletion that leaves a reference behind: an `_isa`, a mount point, a step that was added
  since the load or that a module has, an injected summary among the steps that are written
  (`LeavesReferences`; `service-data.js:502` says that `_isa` "etc" should be done as well);
- a deletion that brings the app's page of the same id back, or takes away the steps of
  which one is mounted, or hands a page the steps of the one it extends;
- an edit of a page whose file has been deleted since the load, which writes the file again
  (`Revived`);
- a step that is about to be deleted, that is mounted, that has the page below it, or that is
  for a page others extend, which then have it too.

`careless` records these, and nothing else; everything else is shown never to.

`ShownAsDocumented` leaves out what the load misreads (`Misread`), and the pages below it:

- a negated group of kind `all` loses its negation when it is joined with other conditions:
  `createAllConditions` (`propagate-show.js:30`) takes the members of every group that has
  `all`, and says nothing of `negated`, while "any condition (single expression or group) can be
  negated" (`documentation/service-data/specification/overview/logic/logic.md:29`). `NotBoth`
  of `MCServiceFiles` is such a condition: without the exclusion TLC finds the page shown to just
  the wrong users. `Misread` asks only whether there is one, not whether there is another to
  join it with, and so leaves out a little more than it has to;
- a component whose `show` is the literal false counts as one that has none
  (`propagate-show.js:65`);
- a section whose `show` and `showSteps` come to the literal false tells its steps nothing
  (`propagate-show.js:154`).

And it is about services in which no page is both a step and mounted (`Treelike`). In others the
order of the files decides: where a step is mounted on a later step of its section, that one is
visited through the mount point and hands its condition to its own steps before the section has
given it one (`propagate-show.js:138`), and these are shown while the section is hidden. `Mounted` of
`MCServiceFiles` is such a service; without the exclusion TLC finds its page `extra` shown.

Bounds: an edit that another undoes, with a load between them, takes three. One service has an
app page that the service overrides, a section with a group of conditions, a page with
components and an extension; one a repeatable step and a page of a module that is mounted; one
a step that is mounted on the next, which is protected and has a step of its own. The files are in
one order. Left out: nested instances, renamed
identifiers, categories, headings, translated addresses. What is assumed of a service
(`ServicesAssumption`) is that it has three sources of finitely many page instances and loads;
`NamesAssumption` tells ids, the ids of summaries, numbers and lists apart.
`SimpleAssumption` tells the booleans and the expressions from the groups, and
`ConditionsAssumption` has the conditions in the files two groups less deep than `Nesting`, for the
load puts up to two around them; both hold of any files once `Nesting` is chosen large enough.

## Proofs

Eight modules of proofs. The theorems are for every number of requests, browsers, pages,
components, parts and values, and for all bounds; the assumptions are those named
`...Assumption` in the modules, and what the last column says.

| theorem | states | for |
|---|---|---|
| `RunnerSessionProofs` | | |
| `TypeCorrect` | `TypeOK` | every client |
| `AcknowledgedPostsStored` | a post the browser was told of has reached the datastore | every client |
| `FormsKeepToTheirSession` | a form writes only into the session it was made in | every client |
| `PatientFlashKept` | a flash message is kept until it is shown | `Client = "patient"` |
| `PatientAnswersNeverRevert` | an answer is only replaced by a later one | `Client = "patient"` |
| `PatientSeesEdits` | `RunnerSession` implements `AtomicSession` | `Client = "patient"` |
| `PatientFlashOnce` | a message is shown again only after a failed clean-up | `Client = "patient"` |
| `ConfirmationEnds` | only a request under way brings a confirmed session back | every client |
| `CreationDateKept` | the creation date is never lost | `~Orphans` |
| `UploadParserProofs` | | |
| `IInvAlways` | the inductive invariant | |
| `SuccessAlwaysComplete` | success means that everything was read and written | |
| `AlwaysKeptOrReported` | a file of a saved request is kept whole or reported | |
| `RepeatableProofs` | | |
| `RepeatableTypeCorrect`, `RepeatableBounds` | types; the count stays within its bounds | every browser |
| `RepeatableDisplayAgrees` | the display scope agrees after a post that goes on | every browser |
| `RepeatableFormIsObeyed`, `RepeatableNothingHidden`, `RepeatableSentAsShown` | a post does what its form says; nothing is stored out of sight; what is sent was shown | `~oldForms`, in the properties |
| `SaveReturnProofs` | | |
| `IInvAlways`, `RecordsAlwaysMatch` | records lead to confirmed sessions | a request may stop anywhere |
| `AnswersAreOwn`, `SavedIsRecorded` | answers change only by posts; "saved" is true | a request may stop anywhere |
| `UploadSlotsProofs` | | |
| `IInvAlways`, `FilesInOnePlace` | a file is in one place, alone in its slot | every browser |
| `AcceptedAlwaysSent` | accepted files are in the answers | every browser |
| `OnlyShownAccepted`, `AcceptedLostForOne` | a file is accepted by a form that shows it and lost to a decision | every browser |
| `RoomIsOffered` | a form offers a free slot while there is one | every browser |
| `JourneyProofs` | | |
| `JourneyTypeOK` | types; a tab that loads asks for a page | every tree of pages, all answers |
| `NeighboursOfFlow` | next and previous page are the neighbours in the documented flow | next: no nextPage property |
| `SubmitsComplete` | only complete answers are submitted | no nextPage property |
| `OpensWhenComplete` | complete answers open the summary | no nextPage property |
| `ChangesFindGaps` | a change leads to the first page it opened that has no answer | no nextPage property |
| `ShownPagesInFlow` | only pages of the flow are shown | conditions passed down by the load |
| `ServiceFilesProofs` | | |
| `ServiceTypeOK` | types | every service that loads, any edits |
| `EditsAreKept` | no edit undoes another, but for what `undone` names | any edits |
| `StaysLoaded` | the service stays loadable, but for `StaysLoadable` | any edits |
| `ConditionsAsDocumented` | `Evaluate` is `Documented` | every condition, groups of any depth, all data |
| `PageInputProofs` | | |
| `OnlyCompleteGoesOn` | a post goes on exactly when the page is complete; what is sent is complete | every page, old forms too |
| `PostsAreObeyed` | what is stored is what was meant | `~oldForms`, in the property |
| `MessagesAgree` | both lists of errors agree; "required" stands alone; what was refused is shown as typed | the last: `~oldForms`, in the property |
| `ListIsSent` | what is sent is what is listed, and was shown | shown: `~oldForms`, in the property |
| `HiddenIsUnset` | a hidden control has no answer | every page, old forms too |

`RunnerSession`. `TypeInv` adds to `TypeOK` that users are numbered by the requests that
created them, without which `uid` would not stay in its type across a rolling cookie.
`AckInv` follows one post through the handler: once past the point where the edit is
made, the request's copy or `saved` carries it. `AcknowledgedPostWasStored` alone is not
inductive, because it says nothing of a request that has not answered yet. `FormsInv`
says that everything in a user's document, stored or held by a request, comes from
requests of that user. `PatientInv` says that at most one request is under way, that
its copy is ahead of the stored document (nothing older than it on any page, no
undisplayed message missing), and that documents of later users are empty.

The refinement needs more than that the copy is not behind. `EditInv` says that a copy
that is being PUT differs from the stored document by exactly one edit, that of a request
that handles its page is equal to it, and that a PUT may only outlive a request that is known
to have failed. Each PUT is then a step of `AtomicSession`, every other action a stutter.
`OnceInv` says that a message a response has displayed is gone from the user's document, unless
that request is still clearing it or has failed. `IdsSent` and `CreatedInv` are for tabs: a user id is that of a
request that was sent, and the copy of a request carries the creation date that its
user's document has.

`UploadParser`. `TypeOK` and seven parts: until there is an error, `pendingWrites` is the
number of the parts being written (`NoError`), so that zero means that none is left and
`Done` can say what the call of next found; `InOrder` says how far the parser has
come; `FilledIsWhole` and `LimitedReported` that only whole files are kept and cut ones
reported; `NothingForgotten` that every announced file is being written, kept,
refused or in the list of errors. The steps that count use cardinalities of sets that gain or
lose one element.

`Repeatable`. `IInv` is `TypeOK` with `CountWithinBounds`: `setRepeatable`, `addItem` and
`removeItem` each look at the count in the document and not at the form. `SInv` says, for
a browser that posts its last form only, that every open form shows the document as it
is and that no item is stored past the count; `FormIsObeyed` follows for the one form that
can be posted. `DisplayAgrees` needs no more than `IInv`, because a post of the main button
writes both arrays.

`SaveReturn`. `IInv` adds to the types and to `RecordsMatchConfirmed` that every link or code
that signs in is for an address with a record, since asking for one looks the record up
and no record goes away.

`UploadSlots`. `IInv` is `TypeOK`, what forms may name (`FormsOffer`), that the slots last posted
are known when there is a file (`FieldKnown`), without which the accepted files would not be
merged, and `Separate`, which is `OnePlace` without its count; the count follows from slots
being alone by mapping the files of a component into its slots. The slot a form offers is
the least that is free (`Least`, by well-founded induction on finite sets).

`Journey`. The invariant is the small part: `TypeOK`, with each page to return to a summary.
The theorems are about the walks. Each walk is a recursive function over the tree, and what
it returns is characterised without it: `Recursion` shows that such a function exists (the
recursion goes to a page of smaller number, or towards the end), an induction over
the numbers of the pages that it is the first page of the flow after a page, or the last
before it, and that `checkNextPage` stops at the first page that is not valid or is the one
to return to. The inductions are over finite or founded sets of pages. `SubmittedComplete`
then follows from the gate alone: the summary is not passed unless the walk from the root
reaches it, so that no invariant about how the answers came about is needed.
`ShownPagesInFlow` has as its hypothesis `PassedDown`: that a page with a hidden page above
it is hidden; `skipPage` does not look. That the load (`Shows` of `Definition`) makes it so is
`HiddenPassesDown` of `ServiceFilesProofs`; the services of the run are made by it. The two
modules share no state, so that the hypothesis stays one.

`ServiceFiles`. Four invariants beside the types. `Fresh`: until the next edit, the names in
`runtime` are those that a load makes of `memory`. `Kept`: of a page that has a file the
process has what is in it, and the file agrees with `intended` but for summaries among the steps;
`EditsKept` alone says nothing of what the process will write next. `Placed`: every page that
the process knows is in the source it was loaded from, the steps it has are steps of the
file, and a page that it does not know is as it was created. `Careful`: while nothing careless
has been done the service loads, the app's pages that were not edited are in memory as on disk, and nothing
refers to the page that is being deleted. With `Laid`, which is `Parented` without the merge (steps
of the winners are found, are distinct and belong to one page each, and are inherited by
none), an edit is followed through `Loads` by what it does to the three relations that must
not have circles: `SameStepsLoad`, `MoreStepsLoad`, `FewerStepsLoad`, `CreatedLoads` and
`DeletedLoads` are the five ways of editing a service that loads so that it does. `FoundedLess`, `FoundedMore` and
`FoundedGraft` say which changes keep a relation free of circles. `LaidParents` and `ParentsLaid`
show that nothing is lost by `Laid`.

`ShownService`. A condition is evaluated by a recursive function over its members, a page gets
its condition by one over the pages above it, of which there may be two. `Ranked` relations
are those in which both recursions go down; `RankedRecursion` shows that such a function exists
and `RankedInduction` that what passes from the members to the group holds of all. So
`EvaluateIs` and `DocumentedIs` unfold the two meanings one level, `HoldsAsSays` compares the
counts of one with the quantifiers of the other, and `ConditionsAsDocumented` follows by induction.
`AllIs` says that a joined condition holds when each of its parts does, unless one is a negated
group of kind all, and that no part gets deeper by being joined; `HoistedIs` that what a page gets
from its components holds unless none of theirs does; `ShownIs` puts them together by induction over
the pages above. The invariant `Spoken` is that the conditions in the files, in memory and
in the edits are those that files may have (`Filed`): an edit writes what it was given,
and a load makes its own copies, which are deeper, and never writes them.

That proof changed the model twice: `Hoisted` and `Says` had CASEs whose arms overlapped, of which
TLC takes the first and a proof may take neither. And it found the lost negation
of `createAllConditions` above: no service of the run had had a negated group.

`PageInput`. The invariant `PageInv` has, beside the types and the four properties, that a
hidden control has no answer (`Unset`), and, of a browser that posts its last form, that the form
shows every stored answer or its mask (`Shows`) and the summary page what would be listed now
(`SumsUp`). `Visit` puts every control after the one it depends on, at any depth (`InOrder`).
`ProcessIs` says what the fold of `processControl` returns without the fold: a control has
what was posted or kept for it, looked at with the answers as they are in the end, because
no control after it changes the one it depends on. `ValidatedIs` says that the three passes
find nothing exactly when the page is `Complete`. `ShownOfControl` says that what
`checkErrorDisplay` leaves of the errors of one control does not depend on those of others,
because it looks at the last error of the same control; so the two orders in which the errors
are gone through leave the same. `IsPage` is what is taken for granted of a page,
and no more: names, a revealed control after its question and without a `show` of its own,
dates with a month and a year, masks that nobody types. `Unset` needs each of
the first two, `PostIsObeyed` the last.

The proof found `PostIsObeyed` too strong: a post that is refused may bring a control in by its
answers, the form that shows the errors does not have it, and the next post then unsets
it. The run had no page where the control had an answer.

The attempt to prove `StaysLoadable` corrected it: the cases of a page of the app that comes
back, of a step that is mounted, of a page that is below its step and of an edit that writes a
deleted file again were found by steps that could not be proved, and so was
that at three levels of steps the names may be lost by a page further up
having been loaded (`NamesLostByReload`, which had looked one level up).

Model-checked only: liveness (`EveryRequestEnds`, `RequestEnds`, `RedirectsEnd`), which is out
of the prover's reach.

## Not modelled

The editor's modes of every component, the in-memory datastore, the payloads of a
submission (e-mail, JSON, CSV, PDF), rendering and formatting, the plain routes
(health check, ping, static files) and the start of the server: stateless or not
reached by users of a form. `PROJECT.json` lists them with the reasons. The templates
of pages are in another package.

Of modelled components, with what is known of each from reading:

- a nextPage that leads back makes `checkNextPage` (`route.js`) recurse without end, so services
  with such a circle are not among those of `Journey`;
- a repeatable page with a removable item cannot be listed: `populateStepRemoveAnswers` is
  called without the answers it appends to (`answers.page-summary.js:157`,
  `answers.page-summary-list.js:152`) and throws. Repeatable pages are left out of `Journey`
  and `Repeatable` for now, and so are repeatable components inside others;
- the three ways in which a post of the summary can be repeated (a second click, a
  second tab, an error after the submitter has answered) submit again with a new
  submission id; the submitter that would tell them apart is another service.

## Plan

Written: everything above. What could follow, in this order:

1. repeatable pages: counts in `PageFlow` (a next step with no instance ends the flow), with
   `Repeatable` for one page of a namespace;
2. a submission that is composed with the saves of `RunnerSession`: the submitter answers
   late or fails after it has queued, and the save after it fails;
3. the removal buttons of an upload page in `UploadParser`, and the nested instances of
   `ServiceFiles`.
