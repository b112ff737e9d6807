----------------------------- MODULE Definition -----------------------------
(***************************************************************************)
(* From the files of a service to the instances that the runner works with: *)
(* service-data/runtime.                                                    *)
(*                                                                          *)
(* A source is a function from ids to page instances, and a service a       *)
(* sequence of sources, of which the later override the earlier.  Of an     *)
(* instance that has no show condition the show is Always; steps and parts  *)
(* (the show conditions of its components) are None when it has no list.    *)
(***************************************************************************)
EXTENDS Expressions, Lists, FiniteSets

CONSTANTS None,
          FileOrder  \* the ids as the paths of their files are sorted

\* A page instance without any property.
Page == [type |-> "page", steps |-> None, show |-> Always, showSteps |-> Always, parts |-> None,
         repeatable |-> FALSE, namespace |-> None, namespaceProtect |-> FALSE, isa |-> None, mount |-> None]

\* An instance that names another in _isa has the properties of that one that it
\* does not have itself.
Inherit(page, isa) ==
  [f \in DOMAIN page |-> IF f # "type" /\ page[f] = Page[f] THEN isa[f] ELSE page[f]]

StepsOf(page) == IF page.steps = None THEN <<>> ELSE page.steps

\* Nothing leads to itself: every set has a member whose above is not in it.
Founded(above) ==
  \A S \in SUBSET DOMAIN above : S # {} => \E id \in S : above[id] \notin S

\* Each id with what is above it, what is above that, and so on.
Upward(above) ==
  LET up[id \in DOMAIN above] ==
        {id} \cup IF above[id] \in DOMAIN above THEN up[above[id]] ELSE {}
  IN  up

Ids(sources) == UNION {DOMAIN sources[i] : i \in DOMAIN sources}

\* mutant: the sources in the order that they are listed
FirstSourceOf(sources, id) ==
  CHOOSE i \in DOMAIN sources :
    id \in DOMAIN sources[i] /\ \A j \in 1..(i - 1) : id \notin DOMAIN sources[j]

\* Where an id is taken from: the last source that has it.
SourceOf(sources, id) ==
  CHOOSE i \in DOMAIN sources :
    id \in DOMAIN sources[i] /\ \A j \in (i + 1)..Len(sources) : id \notin DOMAIN sources[j]

Winner(sources, id) == sources[SourceOf(sources, id)][id]

\* flattenSources, expandIsa and expandInstanceRef, where every _isa is found.
Merge(sources) ==
  LET expanded[id \in Ids(sources)] ==
        LET page == Winner(sources, id)
        IN  IF page.isa = None THEN page ELSE Inherit(page, expanded[page.isa])
  IN  [id \in Ids(sources) |-> expanded[id]]

\* The ids of the merged instances in their order: those of the last source first.
Order(sources) ==
  FlattenSeq([k \in 1..Len(sources) |->
    Only(FileOrder, {id \in Ids(sources) : SourceOf(sources, id) = Len(sources) + 1 - k})])

-----------------------------------------------------------------------------
(* propagate-steps: the page above a page, and the prefix of its names.     *)

StepPlaces(pages, id) ==
  UNION {{<<p, i>> : i \in {j \in DOMAIN StepsOf(pages[p]) : StepsOf(pages[p])[j] = id}} : p \in DOMAIN pages}

\* addPageParents
Parent(pages, id) ==
  LET parents == {p \in DOMAIN pages : id \in ToSet(StepsOf(pages[p]))}
  IN  IF parents = {} THEN None ELSE CHOOSE p \in parents : TRUE

\* The page that namespaces and the scope come from: the parent or the mount point.
Above(pages, id) ==
  IF Parent(pages, id) # None THEN Parent(pages, id) ELSE pages[id].mount

Lineages(pages) == Upward([id \in DOMAIN pages |-> Above(pages, id)])

OwnNamespace(page) == IF page.namespace = None THEN <<>> ELSE <<page.namespace>>

\* mutant: the namespace of a page is its own
OwnNamespaces(pages, order, seen) == [id \in DOMAIN pages |-> OwnNamespace(pages[id])]

\* The page that is looked at before a page: of a parent and a mount point the latter.
Upper(pages, id) == IF pages[id].mount # None THEN pages[id].mount ELSE Parent(pages, id)

\* propagateNamespaces, called for each page in turn: the pages that recursePropagation
\* is started from, one that is above another before it, and none that is in seen.
Starts(pages, order, seen) ==
  LET climb[call \in (DOMAIN pages \cup {None}) \X SUBSET DOMAIN pages] ==
        IF call[1] \in call[2] \cup {None} THEN <<>>
        ELSE Append(climb[<<Upper(pages, call[1]), call[2] \cup {call[1]}>>], call[1])
      starts[n \in 0..Len(order)] ==
        LET before == starts[n - 1]
        IN  IF n = 0 THEN <<>>
            ELSE before \o climb[<<order[n], (seen \cap DOMAIN pages) \cup ToSet(before)>>]
  IN  starts[Len(order)]

\* A page with the steps below it.
Below(pages) ==
  LET below[id \in DOMAIN pages] == {id} \cup UNION {below[step] : step \in ToSet(StepsOf(pages[id]))}
  IN  below

\* recursePropagation from each start: the namespaces that the names of the controls
\* of a page begin with.  A page that is protected takes none from above.  The pages whose
\* namespaces the process has propagated at an earlier load are in seen: they are only
\* reached as steps below one that is not.
Namespaces(pages, order, seen) ==
  LET starts == Starts(pages, order, seen)
      below == Below(pages)
      names[n \in 0..Len(starts)] ==
        LET begun == starts[n]
            before == names[n - 1]
            fresh[id \in below[begun]] ==
              (IF Above(pages, id) = None \/ pages[id].namespaceProtect THEN <<>>
               ELSE IF id = begun THEN before[Above(pages, id)] ELSE fresh[Above(pages, id)])
                \o OwnNamespace(pages[id])
        IN  IF n = 0 THEN [id \in DOMAIN pages |-> <<>>]
            ELSE [id \in DOMAIN pages |-> IF id \in below[begun] THEN fresh[id] ELSE before[id]]
  IN  names[Len(starts)]

-----------------------------------------------------------------------------
(* propagate-show: the condition of a page takes in those of its components  *)
(* and those of the pages above it.                                          *)

\* createAllConditions: groups of kind all are flattened, with what else they say.
All(conds) ==
  LET defined == Only(conds, ToSet(conds) \ {Always})
      flat == FlattenSeq([i \in DOMAIN defined |->
                 IF defined[i] # Never /\ defined[i].kind = "all" THEN defined[i].conditions
                 ELSE <<defined[i]>>])
  IN  CASE Len(defined) = 0 -> Always
        [] Len(defined) = 1 -> defined[1]
        [] OTHER -> Group("all", flat)

\* mutant: the first component speaks for all
HoistedFirst(page) ==
  IF page.parts = None \/ page.parts = <<>> THEN page.show ELSE All(<<page.show, page.parts[1]>>)

\* propagateInstanceConditions: where every component has a condition, one of them
\* has to hold.  A component whose show is false has none.
Hoisted(page) ==
  LET shows == Only(page.parts, ToSet(page.parts) \ {Always, Never})
  IN  IF page.parts = None \/ Len(shows) # Len(page.parts) THEN page.show
      ELSE All(<<page.show, IF Len(shows) = 1 THEN shows[1] ELSE Group("any", shows)>>)

\* mutant: the condition of a page is its own
OwnShows(pages, order) == [id \in DOMAIN pages |-> Hoisted(pages[id])]

\* propagateStepConditions for each page that is no step: the order in which a page is
\* given the condition of its mount point, and a step that of its parent.  A page is
\* visited once: first its mount point is, then its parent, and then its steps are.
Walk(pages, order) ==
  LET entries == Only(order, {id \in DOMAIN pages : Parent(pages, id) = None})
      Visited(id) ==
        (IF pages[id].mount = None THEN <<>> ELSE <<<<"visit", pages[id].mount>>, <<"mount", id>>>>)
          \o (IF Parent(pages, id) = None THEN <<>> ELSE <<<<"visit", Parent(pages, id)>>>>)
          \o [i \in DOMAIN StepsOf(pages[id]) |-> <<"step", StepsOf(pages[id])[i]>>]
      walk[at \in Seq({"visit", "mount", "step"} \X DOMAIN pages) \X SUBSET DOMAIN pages] ==
        LET task == Head(at[1])
            next == IF task[1] = "mount" \/ task[2] \in at[2] THEN <<Tail(at[1]), at[2]>>
                    ELSE <<Visited(task[2]) \o Tail(at[1]), at[2] \cup {task[2]}>>
        IN  IF at[1] = <<>> THEN <<>>
            ELSE (IF task[1] = "visit" THEN <<>> ELSE <<task>>) \o walk[next]
  IN  walk[<<[i \in DOMAIN entries |-> <<"visit", entries[i]>>], {}>>]

\* propagate: the condition that a page has at the time is what it gives.  A parent
\* that is never shown, with nothing else to say, gives its steps nothing.
Shows(pages, order) ==
  LET walk == Walk(pages, order)
      shows[n \in 0..Len(walk)] ==
        LET id == walk[n][2]
            parent == Parent(pages, id)
            before == shows[n - 1]
            given == IF walk[n][1] = "mount" THEN before[pages[id].mount]
                     ELSE All(<<before[parent], pages[parent].showSteps>>)
        IN  IF n = 0 THEN [p \in DOMAIN pages |-> Hoisted(pages[p])]
            ELSE IF walk[n][1] = "step" /\ given = Never THEN before
            ELSE [before EXCEPT ![id] = All(<<given, @>>)]
  IN  shows[Len(walk)]

-----------------------------------------------------------------------------
(* inject-repeatable-pages                                                   *)

\* The summary of a repeatable page, which no file has.
SummaryOf(id) == <<id, "summary">>
Summaries(pages) == {SummaryOf(id) : id \in {p \in DOMAIN pages : pages[p].repeatable /\ Parent(pages, p) # None}}
Subject(pages, id) == IF id \in DOMAIN pages THEN id ELSE id[1]

\* The steps with the summary after each that is repeatable.
InjectedSteps(pages, id) ==
  LET steps == StepsOf(pages[id])
      doubled == [k \in 1..(2 * Len(steps)) |->
                    IF k % 2 = 1 THEN steps[(k + 1) \div 2] ELSE SummaryOf(steps[k \div 2])]
  IN  Only(doubled, DOMAIN pages \cup Summaries(pages))

-----------------------------------------------------------------------------

\* The load of a service fails on an _isa or a step that is not found and on a step of
\* two pages; the stack overflows where pages extend each other in a circle.
Parented(sources) ==
  LET isa == [id \in Ids(sources) |-> Winner(sources, id).isa]
  IN  /\ \A id \in Ids(sources) : isa[id] \in Ids(sources) \cup {None}
      /\ Founded(isa)
      /\ LET pages == Merge(sources)
         IN  \A id \in DOMAIN pages :
               /\ ToSet(StepsOf(pages[id])) \subseteq DOMAIN pages
               /\ Cardinality(StepPlaces(pages, id)) <= 1

\* Later, and when the namespaces of some pages have been propagated, it fails on a mount
\* point that is not found and on a repeatable page without a namespace.
Referring(pages) ==
  \A id \in DOMAIN pages :
    /\ pages[id].mount \in DOMAIN pages \cup {None}
    /\ pages[id].repeatable => pages[id].namespace # None

\* It fails where pages are above each other in a circle.  (A circle through both steps and
\* mount points may load: it is not modelled.)
Loads(sources) ==
  /\ Parented(sources)
  /\ LET pages == Merge(sources)
     IN  Referring(pages) /\ Founded([id \in DOMAIN pages |-> Above(pages, id)])

\* In a process that has loaded before a circle of steps does no harm when it has seen
\* all of them: no namespaces are propagated from them again.
LoadsAgain(sources, seen) ==
  /\ Parented(sources)
  /\ LET pages == Merge(sources)
         above == [id \in DOMAIN pages |-> Above(pages, id)]
     IN  /\ Referring(pages)
         /\ \A circle \in SUBSET DOMAIN above :
              (\A id \in circle : above[id] \in circle) /\ circle \subseteq {above[id] : id \in circle} =>
                circle \subseteq seen /\ \A id \in circle : Parent(pages, id) # None

\* getRuntimeData, for a service that loads.
RuntimeData(sources, seen) ==
  LET pages == Merge(sources)
      ids == DOMAIN pages \cup Summaries(pages)
      order == Order(sources)
      shows == Shows(pages, order)
  IN  [type |-> [id \in ids |-> IF id \in DOMAIN pages THEN pages[id].type ELSE "summary"],
       parent |-> [id \in ids |-> Parent(pages, Subject(pages, id))],
       steps |-> [id \in ids |-> IF id \in DOMAIN pages THEN InjectedSteps(pages, id) ELSE <<>>],
       show |-> [id \in ids |-> shows[Subject(pages, id)]],
       namespaces |-> Namespaces(pages, order, seen)]
=============================================================================
