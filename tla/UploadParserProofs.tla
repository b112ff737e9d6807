------------------------- MODULE UploadParserProofs -------------------------
(***************************************************************************)
(* Theorems of UploadParser for every number of parts.                     *)
(***************************************************************************)
EXTENDS UploadParser, FiniteSetTheorems, TLAPS

-----------------------------------------------------------------------------
TypeOK ==
  /\ read \in 0..MaxParts
  /\ input \in {"open", "ended", "broken"}
  /\ part \in [Parts -> PartStates]
  /\ limited \in SUBSET Parts
  /\ pendingWrites \in Int
  /\ errorOccured \in BOOLEAN
  /\ cleanup \in {"none", "waiting", "removing", "over"}
  /\ uploaded \in SUBSET Parts /\ toRemove \in SUBSET Parts
  /\ entries \in SUBSET Parts /\ filled \in SUBSET Parts
  /\ disk \in SUBSET Parts /\ errors \in SUBSET Parts
  /\ stage \in {"parsing", "parsed", "storing", "saved", "failed"}
  /\ todo \in SUBSET Parts /\ kept \in SUBSET Parts

\* The writes that are counted, as long as nothing has gone wrong.
Writing == {p \in Parts : part[p] \in {"streaming", "flushing"}}
Landed  == {p \in Parts : part[p] = "written"}

\* Without an error every file that was announced is being written or is
\* written, and pendingWrites counts the former.
NoError ==
  ~errorOccured =>
    /\ cleanup = "none"
    /\ limited = {}
    /\ input # "broken"
    /\ \A p \in Parts : part[p] \in {"unread", "skipped", "streaming", "flushing", "written"}
    /\ pendingWrites = Cardinality(Writing)
    /\ filled = Landed

\* As long as nothing is stored, the entries of req.files are those files.
NoErrorEntries ==
  ~errorOccured /\ stage \in {"parsing", "parsed"} =>
    entries = Writing \cup Landed /\ entries \subseteq disk

\* The middleware is done when the clean-up is over, or when the body has been
\* read and no write is pending.
Done ==
  stage # "parsing" =>
    \/ cleanup = "over"
    \/ ~errorOccured /\ input = "ended" /\ Writing = {}

\* Parts are announced in their order.
InOrder == \A p \in Parts : p > read => part[p] = "unread"

\* Only a file that was written to its end names a temp file, and only such a
\* file is kept.
FilledIsWhole ==
  /\ \A p \in filled : part[p] = "written" /\ p \notin limited
  /\ kept \subseteq filled

\* A file that was cut off is reported.
LimitedReported == limited \subseteq errors

\* A file that was announced has its entry until it is reported, and then waits
\* to be stored until it is kept or reported.
Answerable(p) ==
  \/ part[p] \in {"unread", "skipped"}
  \/ p \in errors
  \/ stage \in {"parsing", "parsed"} /\ p \in entries
  \/ stage \in {"storing", "saved"} /\ p \in todo \cup kept
  \/ stage = "failed"

NothingForgotten ==
  /\ \A p \in Parts : Answerable(p)
  /\ stage = "saved" => todo = {}
  /\ stage \in {"parsing", "parsed"} => todo = {} /\ kept = {}

IInv ==
  /\ TypeOK /\ NoError /\ NoErrorEntries /\ Done /\ InOrder
  /\ FilledIsWhole /\ LimitedReported /\ NothingForgotten

-----------------------------------------------------------------------------
\* Counting the parts.
LEMMA PartsFinite == \A S \in SUBSET Parts : IsFiniteSet(S) /\ Cardinality(S) \in Nat
<1>1. IsFiniteSet(Parts)
  BY FS_Interval, MaxPartsAssumption DEF Parts
<1> QED BY <1>1, FS_Subset, FS_CardinalityType

LEMMA CountOneMore ==
  ASSUME NEW S \in SUBSET Parts, NEW p \in Parts \ S
  PROVE  Cardinality(S \cup {p}) = Cardinality(S) + 1
  BY PartsFinite, FS_AddElement

LEMMA CountOneLess ==
  ASSUME NEW S \in SUBSET Parts, NEW p \in S
  PROVE  Cardinality(S \ {p}) = Cardinality(S) - 1
  BY PartsFinite, FS_RemoveElement

LEMMA CountNone ==
  ASSUME NEW S \in SUBSET Parts, Cardinality(S) = 0
  PROVE  S = {}
  BY PartsFinite, FS_EmptySet

\* What Settle does to the stage and to the clean-up.
LEMMA SettleEffect ==
  ASSUME TypeOK, NEW n \in Int, NEW abort \in BOOLEAN, NEW up \in SUBSET Parts,
         Settle(n, abort, up)
  PROVE  /\ pendingWrites' = n /\ errorOccured' = (errorOccured \/ abort)
         /\ uploaded' = up /\ toRemove' \in SUBSET Parts
         /\ cleanup' \in {"none", "waiting", "removing", "over"}
         /\ cleanup = "over" => cleanup' = "over"
         /\ ~errorOccured' => cleanup' = cleanup
         /\ stage' = stage \/ (stage' = "parsed" /\ cleanup' = "over" /\ cleanup \in {"none", "waiting"})
<1>1. CASE Starts(n, abort)
  BY <1>1 DEF Settle, Starts, TypeOK
<1>2. CASE ~Starts(n, abort)
  BY <1>2 DEF Settle, TypeOK
<1> QED BY <1>1, <1>2

\* Once the middleware is done no write of an announced file is pending, or the
\* clean-up is over: no step goes back to it.
LEMMA SettledStage ==
  ASSUME IInv, NEW n \in Int, NEW abort \in BOOLEAN, NEW up \in SUBSET Parts,
         Settle(n, abort, up), stage = "parsing" \/ errorOccured
  PROVE  /\ stage' = stage \/ (stage = "parsing" /\ stage' = "parsed" /\ cleanup' = "over")
         /\ stage' # "parsing" => cleanup' = "over"
<1>1. stage = "parsing" \/ cleanup = "over"
  BY DEF IInv, Done
<1>2. /\ cleanup = "over" => cleanup' = "over"
      /\ stage' = stage \/ (stage' = "parsed" /\ cleanup' = "over" /\ cleanup \in {"none", "waiting"})
  BY SettleEffect DEF IInv
<1> QED BY <1>1, <1>2

LEMMA InitInv == Init => IInv
<1> SUFFICES ASSUME Init PROVE IInv
  OBVIOUS
<1>1. TypeOK /\ InOrder
  <2>1. part \in [Parts -> PartStates]
    BY DEF Init, PartStates
  <2>2. read \in 0..MaxParts /\ pendingWrites \in Int
    BY MaxPartsAssumption DEF Init
  <2>3. TypeOK
    BY <2>1, <2>2 DEF Init, TypeOK
  <2> QED BY <2>3 DEF Init, InOrder
<1>2. Writing = {} /\ Landed = {} /\ Cardinality({}) = 0
  BY FS_EmptySet DEF Init, Writing, Landed
<1>3. NoError /\ NoErrorEntries
  BY <1>2 DEF Init, NoError, NoErrorEntries
<1>4. Done /\ FilledIsWhole /\ LimitedReported /\ NothingForgotten
  BY DEF Init, Done, FilledIsWhole, LimitedReported, NothingForgotten, Answerable
<1> QED BY <1>1, <1>3, <1>4 DEF IInv

-----------------------------------------------------------------------------
\* A part is announced.
LEMMA ReadsFrame ==
  ASSUME IInv, NEW p \in Parts, NEW s \in PartStates, Reads(p, s)
  PROVE  /\ stage = "parsing" /\ input = "open" /\ part[p] = "unread"
         /\ read' \in 0..MaxParts /\ part' = [part EXCEPT ![p] = s]
         /\ UNCHANGED <<input, limited, todo, kept>>
         /\ InOrder'
         /\ p \notin filled
<1> USE DEF IInv, TypeOK
<1>1. /\ stage = "parsing" /\ input = "open" /\ p = read + 1 /\ read' = p
      /\ part' = [part EXCEPT ![p] = s] /\ UNCHANGED <<input, limited, todo, kept>>
  BY DEF Reads
<1>2. part[p] = "unread"
  BY <1>1, MaxPartsAssumption DEF InOrder, Parts
<1>3. InOrder'
  BY <1>1, MaxPartsAssumption DEF InOrder, Parts
<1>4. p \notin filled
  BY <1>2 DEF FilledIsWhole
<1> QED BY <1>1, <1>2, <1>3, <1>4, MaxPartsAssumption DEF Parts

LEMMA SkipStep ==
  ASSUME IInv, NEW p \in Parts, Skip(p)
  PROVE  IInv'
<1> USE DEF IInv, TypeOK
<1>1. "skipped" \in PartStates
  BY DEF PartStates
<1>2. /\ stage = "parsing" /\ part[p] = "unread" /\ read' \in 0..MaxParts /\ InOrder'
      /\ part' = [part EXCEPT ![p] = "skipped"] /\ p \notin filled
  BY <1>1, ReadsFrame DEF Skip
<1>3. UNCHANGED <<input, limited, counting, uploaded, entries, filled, disk, errors, stage, todo, kept>>
  BY DEF Skip, Reads
<1> USE DEF counting
<1>4. TypeOK'
  BY <1>1, <1>2, <1>3
<1>5. Writing' = Writing /\ Landed' = Landed
  BY <1>2, <1>3 DEF Writing, Landed
<1>6. NoError' /\ NoErrorEntries' /\ Done'
  BY <1>2, <1>3, <1>5 DEF NoError, NoErrorEntries, Done
<1>7. FilledIsWhole' /\ LimitedReported' /\ NothingForgotten'
  BY <1>2, <1>3 DEF FilledIsWhole, LimitedReported, NothingForgotten, Answerable
<1> QED BY <1>2, <1>4, <1>6, <1>7

\* A part that makes the middleware give up.
LEMMA BadPartStep ==
  ASSUME IInv, NEW p \in Parts, BadField(p) \/ Refuse(p)
  PROVE  IInv'
<1> USE DEF IInv, TypeOK
<1>1. PICK s \in PartStates : Reads(p, s) /\ (s = "skipped" \/ (s = "refused" /\ p \in errors'))
  BY DEF BadField, Refuse, PartStates
<1>2. /\ stage = "parsing" /\ part[p] = "unread" /\ read' \in 0..MaxParts /\ InOrder'
      /\ part' = [part EXCEPT ![p] = s] /\ p \notin filled
      /\ UNCHANGED <<input, limited, todo, kept>>
  BY <1>1, ReadsFrame
<1>3. /\ Settle(pendingWrites, TRUE, uploaded)
      /\ UNCHANGED <<entries, filled, disk>> /\ errors \subseteq errors' /\ errors' \in SUBSET Parts
  BY DEF BadField, Refuse, Abort
<1>4. /\ pendingWrites' = pendingWrites /\ errorOccured' /\ errorOccured' \in BOOLEAN
      /\ uploaded' = uploaded /\ toRemove' \in SUBSET Parts
      /\ cleanup' \in {"none", "waiting", "removing", "over"}
  BY <1>3, SettleEffect
<1>5. /\ stage' \in {"parsing", "parsed"}
      /\ stage' # "parsing" => cleanup' = "over"
  BY <1>2, <1>3, SettledStage
<1>6. TypeOK'
  BY <1>2, <1>3, <1>4, <1>5
<1>7. NoError' /\ NoErrorEntries' /\ Done'
  BY <1>4, <1>5 DEF NoError, NoErrorEntries, Done
<1>8. FilledIsWhole' /\ LimitedReported'
  BY <1>2, <1>3 DEF FilledIsWhole, LimitedReported
<1>9. NothingForgotten'
  BY <1>1, <1>2, <1>3, <1>5 DEF NothingForgotten, Answerable
<1> QED BY <1>2, <1>6, <1>7, <1>8, <1>9

LEMMA AcceptStep ==
  ASSUME IInv, NEW p \in Parts, Accept(p)
  PROVE  IInv'
<1> USE DEF IInv, TypeOK
<1>1. "streaming" \in PartStates
  BY DEF PartStates
<1>2. /\ stage = "parsing" /\ part[p] = "unread" /\ read' \in 0..MaxParts /\ InOrder'
      /\ part' = [part EXCEPT ![p] = "streaming"] /\ p \notin filled
      /\ UNCHANGED <<input, limited, todo, kept>>
  BY <1>1, ReadsFrame DEF Accept
<1>3. /\ pendingWrites' = pendingWrites + 1 /\ entries' = entries \cup {p} /\ disk' = disk \cup {p}
      /\ UNCHANGED <<errorOccured, cleanup, toRemove, uploaded, filled, errors, stage>>
  BY DEF Accept
<1>4. TypeOK'
  BY <1>1, <1>2, <1>3
<1>5. Writing' = Writing \cup {p} /\ Landed' = Landed /\ p \notin Writing
  BY <1>2 DEF Writing, Landed
<1>6. Cardinality(Writing') = Cardinality(Writing) + 1
  BY <1>5, CountOneMore DEF Writing
<1>7. NoError'
  BY <1>2, <1>3, <1>5, <1>6 DEF NoError
<1>8. NoErrorEntries' /\ Done'
  BY <1>2, <1>3, <1>5 DEF NoErrorEntries, Done
<1>9. FilledIsWhole' /\ LimitedReported' /\ NothingForgotten'
  BY <1>2, <1>3 DEF FilledIsWhole, LimitedReported, NothingForgotten, Answerable
<1> QED BY <1>2, <1>4, <1>7, <1>8, <1>9

-----------------------------------------------------------------------------
\* A file's own events while it is being read.
LEMMA LimitStep ==
  ASSUME IInv, NEW p \in Parts, Limit(p)
  PROVE  IInv'
<1> USE DEF IInv, TypeOK
<1>1. /\ stage = "parsing" /\ part[p] = "streaming"
      /\ limited' = limited \cup {p} /\ errors' = errors \cup {p}
      /\ Settle(pendingWrites, TRUE, uploaded)
      /\ UNCHANGED <<read, input, part, entries, filled, disk, todo, kept>>
  BY DEF Limit, Abort
<1>2. /\ pendingWrites' = pendingWrites /\ errorOccured' /\ errorOccured' \in BOOLEAN
      /\ uploaded' = uploaded /\ toRemove' \in SUBSET Parts
      /\ cleanup' \in {"none", "waiting", "removing", "over"}
  BY <1>1, SettleEffect
<1>3. /\ stage' \in {"parsing", "parsed"}
      /\ stage' # "parsing" => cleanup' = "over"
  BY <1>1, SettledStage
<1>4. TypeOK' /\ InOrder'
  BY <1>1, <1>2, <1>3 DEF InOrder
<1>5. NoError' /\ NoErrorEntries' /\ Done'
  BY <1>2, <1>3 DEF NoError, NoErrorEntries, Done
<1>6. FilledIsWhole' /\ LimitedReported'
  BY <1>1 DEF FilledIsWhole, LimitedReported
<1>7. NothingForgotten'
  BY <1>1, <1>3 DEF NothingForgotten, Answerable
<1> QED BY <1>4, <1>5, <1>6, <1>7

LEMMA StreamEndsStep ==
  ASSUME IInv, NEW p \in Parts, StreamEnds(p)
  PROVE  IInv'
<1> USE DEF IInv, TypeOK
<1>1. /\ stage = "parsing" /\ part[p] = "streaming" /\ part' = [part EXCEPT ![p] = "flushing"]
      /\ UNCHANGED <<read, input, limited, pendingWrites, errorOccured, cleanup, toRemove,
                     uploaded, entries, filled, disk, errors, stage, todo, kept>>
  BY DEF StreamEnds, counting
<1>2. TypeOK' /\ InOrder'
  BY <1>1 DEF InOrder, PartStates
<1>3. Writing' = Writing /\ Landed' = Landed
  BY <1>1 DEF Writing, Landed
<1>4. NoError' /\ NoErrorEntries' /\ Done'
  BY <1>1, <1>3 DEF NoError, NoErrorEntries, Done
<1>5. FilledIsWhole' /\ LimitedReported' /\ NothingForgotten'
  BY <1>1 DEF FilledIsWhole, LimitedReported, NothingForgotten, Answerable
<1> QED BY <1>2, <1>4, <1>5

LEMMA StreamBreaksStep ==
  ASSUME IInv, NEW p \in Parts, StreamBreaks(p)
  PROVE  IInv'
<1> USE DEF IInv, TypeOK
<1>1. /\ stage = "parsing" /\ part[p] \in {"streaming", "stalled"}
      /\ part' = [part EXCEPT ![p] = "broken"] /\ input' = "broken"
      /\ errors' = errors \cup {p}
      /\ UNCHANGED <<read, limited, entries, filled, disk, todo, kept>>
  BY DEF StreamBreaks
<1>0. PICK n \in Int : Settle(n, TRUE, uploaded)
  <2>1. Settle(pendingWrites - 1, TRUE, uploaded)
    BY DEF StreamBreaks
  <2>2. pendingWrites - 1 \in Int
    OBVIOUS
  <2> QED BY <2>1, <2>2, Zenon
<1>2. /\ pendingWrites' = n /\ errorOccured' /\ errorOccured' \in BOOLEAN
      /\ uploaded' = uploaded /\ toRemove' \in SUBSET Parts
      /\ cleanup' \in {"none", "waiting", "removing", "over"}
  BY <1>0, SettleEffect
<1>3. /\ stage' \in {"parsing", "parsed"}
      /\ stage' # "parsing" => cleanup' = "over"
  BY <1>0, <1>1, SettledStage
<1>4. TypeOK' /\ InOrder'
  BY <1>0, <1>1, <1>2, <1>3 DEF InOrder, PartStates
<1>5. NoError' /\ NoErrorEntries' /\ Done'
  BY <1>2, <1>3 DEF NoError, NoErrorEntries, Done
<1>6. FilledIsWhole' /\ LimitedReported'
  BY <1>1 DEF FilledIsWhole, LimitedReported
<1>7. NothingForgotten'
  BY <1>1, <1>3 DEF NothingForgotten, Answerable
<1> QED BY <1>4, <1>5, <1>6, <1>7

LEMMA BodyBreaksStep ==
  ASSUME IInv, BodyBreaks
  PROVE  IInv'
<1> USE DEF IInv, TypeOK
<1>1. /\ stage = "parsing" /\ input' = "broken"
      /\ Settle(pendingWrites, TRUE, uploaded)
      /\ UNCHANGED <<read, part, limited, entries, filled, disk, errors, todo, kept>>
  BY DEF BodyBreaks, Abort
<1>2. /\ pendingWrites' = pendingWrites /\ errorOccured' /\ errorOccured' \in BOOLEAN
      /\ uploaded' = uploaded /\ toRemove' \in SUBSET Parts
      /\ cleanup' \in {"none", "waiting", "removing", "over"}
  BY <1>1, SettleEffect
<1>3. /\ stage' \in {"parsing", "parsed"}
      /\ stage' # "parsing" => cleanup' = "over"
  BY <1>1, SettledStage
<1>4. TypeOK' /\ InOrder'
  BY <1>1, <1>2, <1>3 DEF InOrder
<1>5. NoError' /\ NoErrorEntries' /\ Done'
  BY <1>2, <1>3 DEF NoError, NoErrorEntries, Done
<1>6. FilledIsWhole' /\ LimitedReported' /\ NothingForgotten'
  BY <1>1, <1>3 DEF FilledIsWhole, LimitedReported, NothingForgotten, Answerable
<1> QED BY <1>4, <1>5, <1>6

\* The middleware is done only when no write is pending.
LEMMA BodyEndsStep ==
  ASSUME IInv, BodyEnds
  PROVE  IInv'
<1> USE DEF IInv, TypeOK
<1>1. /\ stage = "parsing" /\ input' = "ended"
      /\ stage' = DoneOnceWritten(pendingWrites, TRUE)
      /\ UNCHANGED <<read, part, limited, pendingWrites, errorOccured, cleanup, toRemove,
                     uploaded, entries, filled, disk, errors, todo, kept>>
  BY DEF BodyEnds, counting
<1>2. /\ stage' \in {"parsing", "parsed"}
      /\ stage' # "parsing" => ~errorOccured /\ pendingWrites = 0
  BY <1>1 DEF DoneOnceWritten
<1>3. Writing' = Writing /\ Landed' = Landed /\ Writing \in SUBSET Parts
  BY <1>1 DEF Writing, Landed
<1>4. TypeOK' /\ InOrder'
  BY <1>1, <1>2 DEF InOrder
<1>5. NoError' /\ NoErrorEntries'
  BY <1>1, <1>2, <1>3 DEF NoError, NoErrorEntries
<1>6. Done'
  BY <1>1, <1>2, <1>3, CountNone DEF NoError, Done
<1>7. FilledIsWhole' /\ LimitedReported' /\ NothingForgotten'
  BY <1>1, <1>2 DEF FilledIsWhole, LimitedReported, NothingForgotten, Answerable
<1> QED BY <1>4, <1>5, <1>6, <1>7

-----------------------------------------------------------------------------
\* The callbacks of the disk.  Without an error a callback finds the middleware
\* still at its parsing.
LEMMA StillParsing ==
  ASSUME IInv, NEW p \in Parts, part[p] \in {"streaming", "flushing"}
  PROVE  /\ stage = "parsing" \/ errorOccured
         /\ p \in Writing /\ p \notin Landed
  BY DEF IInv, Done, Writing, Landed, NoError

LEMMA WrittenStep ==
  ASSUME IInv, NEW p \in Parts, Written(p)
  PROVE  IInv'
<1> USE DEF IInv, TypeOK
<1>1. /\ part[p] = "flushing" /\ part' = [part EXCEPT ![p] = "written"]
      /\ UNCHANGED <<read, input, limited, disk, errors, todo, kept>>
  BY DEF Written
<1>2. InOrder' /\ part' \in [Parts -> PartStates]
  BY <1>1 DEF InOrder, PartStates
<1>3. (stage = "parsing" \/ errorOccured) /\ p \in Writing
  BY <1>1, StillParsing
<1>4. CASE p \in limited \/ errorOccured
  <2>0. PICK n \in Int, up \in SUBSET Parts : Settle(n, FALSE, up)
    <3>1. Settle(pendingWrites - 1, FALSE, uploaded \cup {p})
      BY <1>4 DEF Written
    <3>2. pendingWrites - 1 \in Int /\ uploaded \cup {p} \in SUBSET Parts
      OBVIOUS
    <3> QED BY <3>1, <3>2, Zenon
  <2>1. \/ p \in limited /\ entries' = entries \ {p} /\ filled' = filled
        \/ p \notin limited /\ filled' = filled \cup {p} /\ entries' = entries
    BY <1>4 DEF Written
  <2>2. errorOccured
    BY <1>4 DEF NoError
  <2>3. /\ pendingWrites' = n /\ errorOccured' /\ errorOccured' \in BOOLEAN
        /\ uploaded' \in SUBSET Parts /\ toRemove' \in SUBSET Parts
        /\ cleanup' \in {"none", "waiting", "removing", "over"}
    BY <2>0, <2>2, SettleEffect
  <2>4. /\ stage' = stage \/ (stage = "parsing" /\ stage' = "parsed" /\ cleanup' = "over")
        /\ stage' # "parsing" => cleanup' = "over"
    BY <2>0, <2>2, SettledStage
  <2>5. TypeOK'
    BY <1>1, <1>2, <2>1, <2>3, <2>4
  <2>6. NoError' /\ NoErrorEntries' /\ Done'
    BY <2>3, <2>4 DEF NoError, NoErrorEntries, Done
  <2>7. FilledIsWhole' /\ LimitedReported'
    BY <1>1, <2>1 DEF FilledIsWhole, LimitedReported
  <2>8. NothingForgotten'
    BY <1>1, <2>1, <2>4 DEF NothingForgotten, Answerable, LimitedReported
  <2> QED BY <1>2, <2>5, <2>6, <2>7, <2>8
<1>5. CASE p \notin limited /\ ~errorOccured
  <2>1. /\ filled' = filled \cup {p} /\ entries' = entries
        /\ pendingWrites' = pendingWrites - 1 /\ uploaded' = uploaded \cup {p}
        /\ stage' = DoneOnceWritten(pendingWrites - 1, input = "ended")
        /\ UNCHANGED <<errorOccured, cleanup, toRemove>>
    BY <1>5 DEF Written
  <2>2. stage = "parsing"
    BY <1>3, <1>5
  <2>3. /\ stage' \in {"parsing", "parsed"}
        /\ stage' # "parsing" => input = "ended" /\ pendingWrites' = 0
    BY <2>1, <2>2 DEF DoneOnceWritten
  <2>4. /\ Writing' = Writing \ {p} /\ Landed' = Landed \cup {p} /\ Writing' \in SUBSET Parts
    BY <1>1 DEF Writing, Landed
  <2>5. Cardinality(Writing') = Cardinality(Writing) - 1
    BY <1>3, <2>4, CountOneLess DEF Writing
  <2>6. TypeOK'
    BY <1>1, <1>2, <2>1, <2>3
  <2>7. NoError'
    BY <1>1, <1>5, <2>1, <2>4, <2>5 DEF NoError
  <2>8. NoErrorEntries'
    BY <1>1, <1>3, <1>5, <2>1, <2>2, <2>4 DEF NoErrorEntries
  <2>9. Done'
    BY <1>1, <1>5, <2>1, <2>3, <2>4, <2>7, CountNone DEF NoError, Done
  <2>10. FilledIsWhole' /\ LimitedReported'
    BY <1>1, <1>5, <2>1 DEF FilledIsWhole, LimitedReported
  <2>11. NothingForgotten'
    BY <1>1, <2>1, <2>2, <2>3 DEF NothingForgotten, Answerable
  <2> QED BY <1>2, <2>6, <2>7, <2>8, <2>9, <2>10, <2>11
<1> QED BY <1>4, <1>5

LEMMA WriteFailsStep ==
  ASSUME IInv, NEW p \in Parts, WriteFails(p)
  PROVE  IInv'
<1> USE DEF IInv, TypeOK
<1>1. /\ part[p] \in {"streaming", "flushing"}
      /\ part' = [part EXCEPT ![p] = IF @ = "streaming" THEN "stalled" ELSE "lost"]
      /\ entries' = entries \ {p} /\ disk' \in SUBSET Parts
      /\ p \in limited \/ p \in errors'
      /\ errors \subseteq errors' /\ errors' \in SUBSET Parts
      /\ UNCHANGED <<read, input, limited, filled, todo, kept>>
  BY DEF WriteFails
<1>2. PICK n \in Int, abort \in BOOLEAN, up \in SUBSET Parts :
        Settle(n, abort, up) /\ (abort \/ p \in limited)
  <2>1. pendingWrites - 1 \in Int /\ uploaded \cup {p} \in SUBSET Parts
    OBVIOUS
  <2>2. \/ Settle(pendingWrites - 1, FALSE, uploaded \cup {p}) /\ p \in limited
        \/ Settle(pendingWrites - 1, TRUE, uploaded)
    BY DEF WriteFails
  <2>3. FALSE \in BOOLEAN /\ TRUE \in BOOLEAN /\ uploaded \in SUBSET Parts
    OBVIOUS
  <2> QED BY <2>1, <2>2, <2>3, Zenon
<1>3. stage = "parsing" \/ errorOccured
  BY <1>1, StillParsing
<1>4. /\ pendingWrites' = n /\ errorOccured' /\ errorOccured' \in BOOLEAN
      /\ uploaded' \in SUBSET Parts /\ toRemove' \in SUBSET Parts
      /\ cleanup' \in {"none", "waiting", "removing", "over"}
  <2>1. p \in limited => errorOccured
    BY DEF NoError
  <2> QED BY <1>2, <2>1, SettleEffect
<1>5. /\ stage' = stage \/ (stage = "parsing" /\ stage' = "parsed" /\ cleanup' = "over")
      /\ stage' # "parsing" => cleanup' = "over"
  BY <1>2, <1>3, SettledStage
<1>6. part' \in [Parts -> PartStates] /\ InOrder'
  BY <1>1 DEF InOrder, PartStates
<1>7. TypeOK'
  BY <1>1, <1>4, <1>5, <1>6
<1>8. NoError' /\ NoErrorEntries' /\ Done'
  BY <1>4, <1>5 DEF NoError, NoErrorEntries, Done
<1>9. FilledIsWhole' /\ LimitedReported'
  BY <1>1 DEF FilledIsWhole, LimitedReported
<1>10. NothingForgotten'
  BY <1>1, <1>5 DEF NothingForgotten, Answerable, LimitedReported
<1> QED BY <1>6, <1>7, <1>8, <1>9, <1>10

\* The clean-up runs only after an error, and before the middleware is done.
LEMMA RemoveStep ==
  ASSUME IInv, NEW p \in Parts, Remove(p)
  PROVE  IInv'
<1> USE DEF IInv, TypeOK
<1>1. /\ cleanup = "removing" /\ toRemove' \in SUBSET Parts /\ disk' \in SUBSET Parts
      /\ \/ cleanup' = "over" /\ stage' = "parsed"
         \/ UNCHANGED <<cleanup, stage>>
      /\ UNCHANGED <<read, input, part, limited, pendingWrites, errorOccured, uploaded,
                     entries, filled, errors, todo, kept>>
  BY DEF Remove, parsing
<1>2. errorOccured /\ stage = "parsing"
  BY <1>1 DEF NoError, Done
<1>3. TypeOK' /\ InOrder'
  BY <1>1 DEF InOrder
<1>4. NoError' /\ NoErrorEntries' /\ Done'
  BY <1>1, <1>2 DEF NoError, NoErrorEntries, Done
<1>5. FilledIsWhole' /\ LimitedReported' /\ NothingForgotten'
  BY <1>1, <1>2 DEF FilledIsWhole, LimitedReported, NothingForgotten, Answerable
<1> QED BY <1>3, <1>4, <1>5

-----------------------------------------------------------------------------
\* processUploads.  These steps leave the parser and the count alone.
LEMMA LaterFrame ==
  ASSUME IInv, stage \in {"parsed", "storing"},
         stage' \in {"storing", "saved", "failed"},
         UNCHANGED <<parsing, counting, uploaded, filled>>,
         entries' \in SUBSET Parts, disk' \in SUBSET Parts, errors' \in SUBSET Parts,
         todo' \in SUBSET Parts, kept' \in SUBSET filled, errors \subseteq errors',
         \A p \in Parts : Answerable(p)',
         stage' = "saved" => todo' = {}
  PROVE  IInv'
<1> USE DEF IInv, TypeOK, parsing, counting
<1>1. TypeOK' /\ InOrder'
  BY DEF InOrder
<1>2. Writing' = Writing /\ Landed' = Landed
  BY DEF Writing, Landed
<1>3. NoError' /\ NoErrorEntries' /\ Done'
  BY <1>2 DEF NoError, NoErrorEntries, Done
<1>4. FilledIsWhole' /\ LimitedReported' /\ NothingForgotten'
  BY DEF FilledIsWhole, LimitedReported, NothingForgotten
<1> QED BY <1>1, <1>3, <1>4

LEMMA ProcessStep ==
  ASSUME IInv, Process
  PROVE  IInv'
<1> USE DEF IInv, TypeOK
<1>1. PICK big \in SUBSET (filled \cap entries) :
        /\ entries' = entries \ big /\ errors' = errors \cup big /\ todo' = entries \ big
  BY DEF Process
<1>2. /\ stage = "parsed" /\ stage' = "storing"
      /\ UNCHANGED <<parsing, counting, uploaded, filled, disk, kept>>
  BY DEF Process
<1>3. \A p \in Parts : Answerable(p)'
  BY <1>1, <1>2 DEF Answerable, NothingForgotten, parsing
<1> QED BY <1>1, <1>2, <1>3, LaterFrame DEF FilledIsWhole

LEMMA StoringStep ==
  ASSUME IInv, NEW p \in Parts, Storing(p)
  PROVE  IInv'
<1> USE DEF IInv, TypeOK
<1>1. /\ stage = "storing" /\ stage' \in {"storing", "failed"}
      /\ UNCHANGED <<parsing, counting, uploaded, entries, filled>>
      /\ \/ stage' = "failed" /\ UNCHANGED <<disk, errors, todo, kept>>
         \/ /\ stage' = "storing" /\ todo' = todo \ {p} /\ disk' = disk \ {p}
            /\ \/ p \in filled /\ kept' = kept \cup {p} /\ errors' = errors
               \/ errors' = errors \cup {p} /\ kept' = kept
  BY DEF Storing, Store, StoreFails, StoreThrows, Taken, NextInTurn
<1>2. \A q \in Parts : Answerable(q)'
  BY <1>1 DEF Answerable, NothingForgotten, parsing
<1> QED BY <1>1, <1>2, LaterFrame DEF FilledIsWhole

LEMMA EndStep ==
  ASSUME IInv, CsrfFails \/ Save
  PROVE  IInv'
<1> USE DEF IInv, TypeOK
<1>1. /\ \/ stage = "parsed" /\ stage' = "failed"
         \/ stage = "storing" /\ todo = {} /\ stage' \in {"saved", "failed"}
      /\ UNCHANGED <<parsing, counting, uploaded, entries, filled, disk, errors, todo, kept>>
  BY DEF CsrfFails, Save
<1>2. \A p \in Parts : Answerable(p)'
  BY <1>1 DEF Answerable, NothingForgotten, parsing
<1> QED BY <1>1, <1>2, LaterFrame DEF FilledIsWhole

-----------------------------------------------------------------------------
LEMMA NextInv == IInv /\ [Next]_vars => IInv'
<1> SUFFICES ASSUME IInv, [Next]_vars PROVE IInv'
  OBVIOUS
<1>1. ASSUME NEW p \in Parts, Announce(p) PROVE IInv'
  BY <1>1, SkipStep, BadPartStep, AcceptStep DEF Announce
<1>2. ASSUME NEW p \in Parts, Limit(p) \/ StreamEnds(p) \/ StreamBreaks(p) PROVE IInv'
  BY <1>2, LimitStep, StreamEndsStep, StreamBreaksStep
<1>3. ASSUME NEW p \in Parts, Callback(p) \/ Remove(p) PROVE IInv'
  BY <1>3, WrittenStep, WriteFailsStep, RemoveStep DEF Callback
<1>4. CASE UNCHANGED vars
  <2>1. UNCHANGED <<read, input, part, limited, pendingWrites, errorOccured, cleanup, toRemove,
                    uploaded, entries, filled, disk, errors, stage, todo, kept>>
    BY <1>4 DEF vars, parsing, counting
  <2>2. Writing' = Writing /\ Landed' = Landed
    BY <2>1 DEF Writing, Landed
  <2>3. TypeOK' /\ NoError' /\ NoErrorEntries'
    BY <2>1, <2>2 DEF IInv, TypeOK, NoError, NoErrorEntries
  <2>4. Done' /\ InOrder' /\ FilledIsWhole' /\ LimitedReported' /\ NothingForgotten'
    BY <2>1, <2>2
    DEF IInv, Done, InOrder, FilledIsWhole, LimitedReported, NothingForgotten, Answerable
  <2> QED BY <2>3, <2>4 DEF IInv
<1> QED
  BY <1>1, <1>2, <1>3, <1>4, StoringStep, BodyEndsStep, BodyBreaksStep, ProcessStep, EndStep
  DEF Next

\* Whatever the order of the parser's events, the writes, the failures and the
\* clean-up: every part is accounted for, and the count of pending writes is
\* right as long as nothing has failed.
THEOREM IInvAlways == Spec => []IInv
  BY InitInv, NextInv, PTL DEF Spec

\* A call of next without an error means that the whole body was read and that
\* every file announced in req.files lies on the disk.
THEOREM SuccessAlwaysComplete == Spec => []SuccessIsComplete
<1>1. IInv => SuccessIsComplete
  <2> SUFFICES ASSUME IInv, stage = "parsed", ~errorOccured
               PROVE  /\ input = "ended" /\ Pending = {}
                      /\ entries = {p \in Parts : part[p] = "written"}
                      /\ entries \subseteq filled \cap disk
    BY DEF SuccessIsComplete
  <2>1. input = "ended" /\ Writing = {}
    BY DEF IInv, Done, NoError
  <2>2. Pending = {}
    BY <2>1 DEF IInv, NoError, Pending, Writing
  <2> QED BY <2>1, <2>2 DEF IInv, NoError, NoErrorEntries, Landed
<1> QED BY IInvAlways, <1>1, PTL

\* A file that was announced to a request that is saved is named in the document
\* or reported, and one that is named was written to its last byte.
THEOREM AlwaysKeptOrReported == Spec => []FilesKeptOrReported
<1>1. IInv => FilesKeptOrReported
  BY DEF IInv, FilesKeptOrReported, FilledIsWhole, NothingForgotten, Answerable, TypeOK
<1> QED BY IInvAlways, <1>1, PTL

=============================================================================
