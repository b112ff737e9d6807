---------------------------- MODULE ServiceFiles ----------------------------
(***************************************************************************)
(* A service that is edited while it runs: the functions of service-data.js *)
(* that an editor calls to create, change and delete page instances, the    *)
(* files they write, and the load that makes runtime instances of them.     *)
(*                                                                         *)
(* The sources are the app, the service, whose files are written, and the   *)
(* modules.  An edit changes the source instance in the memory of the        *)
(* process and writes its file; the runtime instances stay as they were      *)
(* loaded until the next load, except for the steps of a page whose step is  *)
(* deleted.  Deleting takes two writes.                                     *)
(***************************************************************************)
EXTENDS Definition

CONSTANTS Services,   \* the services that an editor starts from: sequences of sources
          NewPages,   \* ids of pages to create
          Conds,      \* show conditions to set
          Addable,    \* ids of pages to make steps of others
          MaxEdits    \* bound on the edits

\* The ids that there are, and what a list of steps may have.
Names == NewPages \cup UNION {Ids(service) : service \in Services}
Listed == Names \cup {SummaryOf(id) : id \in Names}

\* The ids of summaries, None, numbers and lists are told apart, as strings are.
ASSUME NamesAssumption ==
  /\ None \notin Listed \cup Nat \cup Seq(Listed)
  /\ "show" \notin Names
  /\ FileOrder \in Seq(Names) /\ ToSet(FileOrder) = Names
  /\ \A id \in Names : SummaryOf(id) \notin Names

\* An instance as a file has it: the expressions of its conditions are not looked into.
Instance(page) ==
  /\ page = [property \in DOMAIN Page |-> page[property]]
  /\ page.steps \in Seq(Names) \cup {None}
  /\ page.repeatable \in BOOLEAN

ASSUME ServicesAssumption ==
  \A service \in Services :
    /\ service = [source \in {1, 2, 3} |-> service[source]]
    /\ \A source \in {1, 2, 3} :
         /\ IsFiniteSet(DOMAIN service[source])
         /\ service[source] = [id \in DOMAIN service[source] |-> service[source][id]]
         /\ \A id \in DOMAIN service[source] : Instance(service[source][id])
    /\ Loads(service)

VARIABLES
  files,    \* the sources on disk
  memory,   \* the source instances that the process has, by source
  runtime,  \* the runtime instances, or None when the process is not running
  seen,     \* namespacesSeenMap: the pages that the process has propagated namespaces to
  doomed,   \* the page that is being deleted, whose file is still there, or None
  edits,    \* the number of edits
  intended, \* for each page of the service, the instance that the edits should have made
  undone,   \* what later edits have undone: <<page, step>> and <<page, "show">>
  careless  \* whether an edit has left a reference to a deleted page, or given a step to two

vars == <<files, memory, runtime, seen, doomed, edits, intended, undone, careless>>

App == 1
Service == 2
Modules == 3

\* An id of the runtime that has an instance in a source.
Loaded == {id \in DOMAIN runtime.source : runtime.source[id] # None}

\* Of the runtime instances, what the process goes by when it edits, and where each
\* was taken from; an injected summary has no source.
Runtime(sources, before) ==
  LET data == RuntimeData(sources, before)
      pages == Merge(sources)
  IN  [source |-> [id \in DOMAIN data.type |->
                     IF id \in Ids(sources) THEN SourceOf(sources, id) ELSE None],
       steps |-> data.steps,
       namespace |-> [id \in DOMAIN pages |-> pages[id].namespace],
       namespaces |-> data.namespaces,
       before |-> before,
       at |-> edits]

Init ==
  /\ files \in Services
  /\ edits = 0
  /\ memory = files
  /\ runtime = Runtime(files, {})
  /\ seen = Ids(files)
  /\ doomed = None
  /\ intended = files[Service]
  /\ undone = {}
  /\ careless = FALSE

Gets(f, id, page) == [i \in DOMAIN f \cup {id} |-> IF i = id THEN page ELSE f[i]]

\* The process is started: the server does not come up when the service does not
\* load.  A deletion that was under way is forgotten.
Restart ==
  /\ IF Loads(files)
     THEN runtime' = Runtime(files, {}) /\ memory' = files /\ seen' = Ids(files)
     ELSE runtime' = None /\ UNCHANGED <<memory, seen>>
  /\ doomed' = None
  /\ UNCHANGED <<files, edits, intended, undone, careless>>

\* loadServiceData in a process that has loaded before.  When it fails the process
\* keeps what it has, but the namespaces of some pages may have been propagated.
Reload ==
  /\ runtime # None
  /\ IF LoadsAgain(files, seen)
     THEN runtime' = Runtime(files, seen) /\ memory' = files /\ seen' = seen \cup Ids(files)
     ELSE /\ \E reached \in IF Parented(files) THEN SUBSET (Ids(files) \ seen) ELSE {{}} : seen' = seen \cup reached
          /\ UNCHANGED <<memory, runtime>>
  /\ UNCHANGED <<files, doomed, edits, intended, undone, careless>>

Editing == runtime # None /\ edits < MaxEdits /\ edits' = edits + 1

\* saveInstance: whatever the source of an instance, its file is one of the service.
Save(id, page) == files' = [files EXCEPT ![Service] = Gets(@, id, page)]

Intend(id, page) == intended' = Gets(intended, id, page)

\* createInstance: what the process has not loaded does not exist for it, so that a page
\* may be created once more, over the file of the first.
CreateInstance(id, cond) ==
  LET page == [Page EXCEPT !.show = cond]
  IN  /\ Editing
      /\ id \notin Loaded
      /\ Save(id, page)
      /\ IF id \in DOMAIN intended
         THEN undone' = undone \cup {<<id, "show">>} /\ UNCHANGED intended
         ELSE Intend(id, page) /\ UNCHANGED undone
      /\ UNCHANGED <<memory, runtime, seen, doomed, careless>>

\* mutant: the instance is edited as it was loaded
WriteAsLoaded(id, edited) ==
  Save(id, edited) /\ UNCHANGED memory

\* setInstanceProperty: the source instance is changed in place, where it was loaded
\* from, and written.
Write(id, edited) ==
  /\ memory' = [memory EXCEPT ![runtime.source[id]][id] = edited]
  /\ Save(id, edited)

SourceInstance(id) == memory[runtime.source[id]][id]

\* The file of the page has been deleted since the load: an edit writes it again.
Revived(id) == runtime.source[id] = Service /\ id \notin DOMAIN files[Service]

\* What an edit should make of the instance: it adds to the edits before it.
Intended(id) == IF id \in DOMAIN intended THEN intended[id] ELSE SourceInstance(id)

\* What writing the source instance undoes: what setInstance has only put in the file.
Unread(id) ==
  IF id \in DOMAIN files[Service] /\ files[Service][id].show # SourceInstance(id).show
  THEN {<<id, "show">>} ELSE {}

SetShow(id, cond) ==
  /\ Editing
  /\ id \in Loaded
  /\ Write(id, [SourceInstance(id) EXCEPT !.show = cond])
  /\ Intend(id, [Intended(id) EXCEPT !.show = cond])
  /\ undone' = undone \ {<<id, "show">>}
  /\ careless' = (careless \/ Revived(id))
  /\ UNCHANGED <<runtime, seen, doomed>>

\* setInstance, with a copy of the source instance that has another condition: only the
\* file is written.
SetInstance(id, cond) ==
  /\ Editing
  /\ id \in Loaded
  /\ Save(id, [SourceInstance(id) EXCEPT !.show = cond])
  /\ Intend(id, [Intended(id) EXCEPT !.show = cond])
  /\ undone' = undone \ {<<id, "show">>}
  /\ careless' = (careless \/ Revived(id))
  /\ UNCHANGED <<memory, runtime, seen, doomed>>

\* The page that gets the step is one that others extend, so that they have it as well, or
\* it is below the step, or the step is mounted, or its file is about to be deleted.
Tangles(id, step) ==
  LET pages == Merge(files)
  IN  \/ step = doomed
      \/ \E p \in DOMAIN pages : Winner(files, p).isa = id
      \/ id \in DOMAIN pages /\ step \in Lineages(pages)[id]
      \/ pages[step].mount # None

\* Appends a page that has a file, and is no step as far as the files and the instance
\* say, to the steps of a page.
AddStep(id, step) ==
  LET Appended(page, steps) == [page EXCEPT !.steps = Append(steps, step)]
  IN  /\ Editing
      /\ id \in Loaded
      /\ step \in Ids(files) \ {id}
      /\ \A p \in Ids(files) : step \notin ToSet(StepsOf(Winner(files, p)))
      /\ step \notin ToSet(StepsOf(SourceInstance(id)))
      /\ Write(id, Appended(SourceInstance(id), StepsOf(SourceInstance(id))))
      /\ Intend(id, Appended(Intended(id), Only(StepsOf(Intended(id)), {s \in Listed : <<id, s>> \notin undone \/ s # step})))
      /\ undone' = (undone \cup Unread(id)) \ {<<id, step>>}
      /\ careless' = (careless \/ Revived(id) \/ Tangles(id, step))
      /\ UNCHANGED <<runtime, seen, doomed>>

\* A namespace that no runtime instance has.
AutoNamespace(id) ==
  LET taken == {runtime.namespace[p] : p \in Loaded}
  IN  IF SourceInstance(id).namespace # None THEN SourceInstance(id).namespace
      ELSE CHOOSE n \in 1..(Cardinality(taken) + 1) : n \notin taken /\ \A m \in 1..(n - 1) : m \in taken

SetRepeatable(id) ==
  /\ Editing
  /\ id \in Loaded
  /\ Write(id, [SourceInstance(id) EXCEPT !.repeatable = TRUE, !.namespace = AutoNamespace(id)])
  /\ Intend(id, [Intended(id) EXCEPT !.repeatable = TRUE, !.namespace = AutoNamespace(id)])
  /\ undone' = undone \cup Unread(id)
  /\ careless' = (careless \/ Revived(id))
  /\ UNCHANGED <<runtime, seen, doomed>>

StepsOwner(id) == {p \in Loaded : id \in ToSet(runtime.steps[p])}

\* What still refers to a page when its file is gone: an _isa, a mount point, a step that
\* was added since the load or that a module has.  Among the steps that are written are
\* the summaries that the load has injected, which no file has.  The page they are of may
\* have been deleted, and the page that is deleted may be one that the app has as well.
\* A mounted page that is no step any more is left below its mount point.
LeavesReferences(id) ==
  \/ \E p \in Ids(files) : id \in {Winner(files, p).isa, Winner(files, p).mount}
  \/ \E p \in Ids(files) \ StepsOwner(id) : id \in ToSet(StepsOf(Winner(files, p)))
  \/ \E p \in StepsOwner(id) :
       runtime.source[p] = Modules \/ Revived(p) \/ ~(ToSet(runtime.steps[p]) \subseteq Loaded)
  \/ id \in DOMAIN files[App]
  \/ \E p \in (StepsOwner(id) \cup {id}) \cap Ids(files) :
       \E step \in ToSet(StepsOf(Winner(files, p))) : Merge(files)[step].mount # None

\* mutant: the page stays among the steps
RemoveNoStep(id) == UNCHANGED <<files, memory, runtime, intended, undone>>

\* The page is taken out of the steps of the runtime instance, and these become the
\* steps of the source instance: the steps that were added since the load are undone.
RemoveStep(id) ==
  IF StepsOwner(id) = {} THEN RemoveNoStep(id)
  ELSE \E p \in StepsOwner(id) :
         LET steps == Only(runtime.steps[p], ToSet(runtime.steps[p]) \ {id})
             before == IF Intended(p).steps = None THEN runtime.steps[p] ELSE Intended(p).steps
         IN  /\ runtime' = [runtime EXCEPT !.steps[p] = steps]
             /\ Write(p, [SourceInstance(p) EXCEPT !.steps = steps])
             /\ Intend(p, [Intended(p) EXCEPT !.steps = Only(before, Names \ {id})])
             /\ undone' = undone \cup Unread(p) \cup {<<p, step>> : step \in ToSet(before) \ ToSet(runtime.steps[p])}

\* deleteDiscreteInstance: the steps are written, and then the file is deleted.
DeleteInstance(id) ==
  /\ Editing
  /\ doomed = None
  /\ id \in Loaded
  /\ runtime.source[id] = Service
  /\ careless' = (careless \/ LeavesReferences(id))
  /\ RemoveStep(id)
  /\ doomed' = id
  /\ UNCHANGED seen

DeleteFile ==
  /\ doomed # None
  /\ files' = [files EXCEPT ![Service] = Restrict(@, DOMAIN @ \ {doomed})]
  /\ intended' = Restrict(intended, DOMAIN intended \ {doomed})
  /\ undone' = {part \in undone : part[1] # doomed}
  /\ doomed' = None
  /\ UNCHANGED <<memory, runtime, seen, edits, careless>>

Next ==
  \/ Restart
  \/ Reload
  \/ DeleteFile
  \/ \E id \in NewPages, cond \in Conds \cup {Always} : CreateInstance(id, cond)
  \/ \E id \in Ids(memory) :
       \/ \E cond \in Conds : SetShow(id, cond) \/ SetInstance(id, cond)
       \/ \E step \in Addable : AddStep(id, step)
       \/ SetRepeatable(id)
       \/ DeleteInstance(id)

Spec == Init /\ [][Next]_vars

-----------------------------------------------------------------------------
(* Properties *)

\* Nothing has been edited since the load, and the service would load anew.
AsLoaded == runtime # None /\ runtime.at = edits /\ memory = files /\ Loads(files)

\* The names of the controls of a page begin with the namespaces of the pages above
\* it, down from the last that is protected, and its own.  They are only lost by a load
\* in a process that has loaded the page, or one above it, before, and below a page that
\* is both a step and mounted.
NamesLostByReload ==
  AsLoaded =>
    LET pages == Merge(files)
        full[id \in DOMAIN pages] ==
          (IF Above(pages, id) = None \/ pages[id].namespaceProtect THEN <<>> ELSE full[Above(pages, id)])
            \o OwnNamespace(pages[id])
        lineages == Lineages(pages)
    IN  \A id \in DOMAIN pages :
          \/ runtime.namespaces[id] = full[id]
          \/ lineages[id] \cap runtime.before # {}
          \/ \E p \in lineages[id] : pages[p].mount # None /\ Parent(pages, p) # None

\* Whatever edits are made, in whatever order with restarts and loads, every one
\* is kept in the file that the service is loaded from, but for what undone says: a
\* condition that setInstance has put in the file only, when a property is set before
\* the next load; the steps that were added to a page since the load, when another of
\* its steps is deleted; the condition of a page that is created twice.  An instance
\* of a module comes before the file that an edit has written of it, and the summaries
\* that a load has put among the steps do not count.
EditsKept ==
  LET Kept(id, page) ==
        [page EXCEPT !.show = IF <<id, "show">> \in undone THEN Always ELSE @,
                     !.steps = IF @ = None THEN None
                               ELSE Only(@, {step \in Names : <<id, step>> \notin undone})]
  IN  \A id \in DOMAIN intended \ DOMAIN files[Modules] :
        Kept(id, Winner(files, id)) = Kept(id, intended[id])

\* No order of edits, restarts and loads makes a service that loads one that does
\* not, save for the deletion of a page that leaves references, an edit of a page
\* that has been deleted, and a step that is mounted, or that is for a page that others
\* extend or that is below it.
StaysLoadable == careless \/ Loads(files)
=============================================================================
