----------------------------- MODULE UploadParser -----------------------------
(***************************************************************************)
(* One multipart POST: the patched multer middleware, then the steps of    *)
(* processUploads that use its result.                                     *)
(*                                                                         *)
(* The parser, the write of every temp file and the clean-up after an      *)
(* error run concurrently.  pendingWrites, readFinished, errorOccured and  *)
(* isDone decide when the middleware calls next; processUploadControls     *)
(* goes on whether or not an error was passed to it.                       *)
(***************************************************************************)
EXTENDS Integers, FiniteSets

CONSTANT MaxParts     \* bound: the parts of the body

ASSUME MaxPartsAssumption == MaxParts \in Nat

Parts == 1..MaxParts

VARIABLES
  read,            \* how many parts the parser has announced
  input,           \* "open", "ended" (readFinished) or "broken"
  part,            \* what has become of each part
  limited,         \* files cut off at the size limit (aborting)
  pendingWrites,
  errorOccured,
  cleanup,         \* "none", "waiting" for zero writes, "removing", "over"
  uploaded,        \* uploadedFiles
  toRemove,        \* the files the clean-up has still to remove
  entries,         \* keys of req.files
  filled,          \* the entries that name a temp file
  disk,            \* temp files
  errors,          \* files named in req.bodyErrors, later in fileErrors
  stage,           \* of processUploads
  todo,            \* entries still to be sent to the filestore
  kept             \* files named in the user data

parsing == <<read, input, part, limited>>
counting == <<pendingWrites, errorOccured, cleanup, toRemove>>
vars == <<parsing, counting, uploaded, entries, filled, disk, errors, stage,
          todo, kept>>

PartStates == {"unread", "skipped", "refused", "streaming", "stalled",
               "flushing", "broken", "written", "lost"}
Pending == {p \in Parts : part[p] \in {"streaming", "stalled", "flushing"}}

Init ==
  /\ read = 0 /\ input = "open"
  /\ part = [p \in Parts |-> "unread"]
  /\ limited = {}
  /\ pendingWrites = 0
  /\ errorOccured = FALSE
  /\ cleanup = "none"
  /\ uploaded = {} /\ toRemove = {}
  /\ entries = {} /\ filled = {}
  /\ disk = {} /\ errors = {}
  /\ stage = "parsing"
  /\ todo = {} /\ kept = {}

-----------------------------------------------------------------------------
(***************************************************************************)
(* Counting writes.  Settle(n, abort, up) follows an event that leaves n   *)
(* pending writes and up uploaded: the clean-up starts as soon as an error *)
(* has occurred and no write is pending, and takes the files uploaded by   *)
(* then; with none to remove the middleware is done at once.               *)
(***************************************************************************)
Starts(n, abort) ==
  /\ errorOccured \/ abort
  /\ cleanup \in {"none", "waiting"}
  /\ n = 0

Settle(n, abort, up) ==
  /\ pendingWrites' = n
  /\ errorOccured' = (errorOccured \/ abort)
  /\ uploaded' = up
  /\ IF Starts(n, abort)
     THEN /\ toRemove' = up
          /\ cleanup' = IF up = {} THEN "over" ELSE "removing"
          /\ stage' = IF up = {} THEN "parsed" ELSE stage
     ELSE /\ cleanup' = IF (errorOccured \/ abort) /\ cleanup = "none"
                        THEN "waiting" ELSE cleanup
          /\ UNCHANGED <<toRemove, stage>>

\* abortWithError, abortWithCode
Abort == Settle(pendingWrites, TRUE, uploaded)

-----------------------------------------------------------------------------
(***************************************************************************)
(* Parser events.  The parser delivers one part at a time; it may get past *)
(* a file nobody reads only if the rest of it fits in the stream's buffer. *)
(***************************************************************************)
Reads(p, s) ==
  /\ stage = "parsing" /\ input = "open"
  /\ p = read + 1
  /\ \A q \in Parts : part[q] # "streaming"
  /\ read' = p
  /\ part' = [part EXCEPT ![p] = s]
  /\ UNCHANGED <<input, limited, todo, kept>>

\* a text field, or a file without a name
Skip(p) ==
  /\ Reads(p, "skipped")
  /\ UNCHANGED <<counting, uploaded, entries, filled, disk, errors, stage>>

\* a field whose name or value was truncated
BadField(p) ==
  /\ Reads(p, "skipped")
  /\ Abort
  /\ UNCHANGED <<entries, filled, disk, errors>>

\* the filter knows no upload control, or no free slot, of the field's name
Refuse(p) ==
  /\ Reads(p, "refused")
  /\ Abort
  /\ errors' = errors \cup {p}
  /\ UNCHANGED <<entries, filled, disk>>

\* mutant of Accept: the write is not counted
AcceptUncounted(p) ==
  /\ Reads(p, "streaming")
  /\ Settle(pendingWrites, FALSE, uploaded)
  /\ entries' = entries \cup {p}
  /\ disk' = disk \cup {p}
  /\ UNCHANGED <<filled, errors>>

Accept(p) ==
  /\ Reads(p, "streaming")
  /\ pendingWrites' = pendingWrites + 1
  /\ entries' = entries \cup {p}
  /\ disk' = disk \cup {p}
  /\ UNCHANGED <<errorOccured, cleanup, toRemove, uploaded, filled, errors, stage>>

\* mutant of Limit: the file is not reported
LimitUnreported(p) ==
  /\ stage = "parsing"
  /\ part[p] = "streaming" /\ p \notin limited
  /\ limited' = limited \cup {p}
  /\ Abort
  /\ UNCHANGED <<read, input, part, entries, filled, disk, errors, todo, kept>>

\* the file reaches the size limit; the rest of it is discarded
Limit(p) ==
  /\ stage = "parsing"
  /\ part[p] = "streaming" /\ p \notin limited
  /\ limited' = limited \cup {p}
  /\ Abort
  /\ errors' = errors \cup {p}
  /\ UNCHANGED <<read, input, part, entries, filled, disk, todo, kept>>

\* the last byte of the file has been read
StreamEnds(p) ==
  /\ stage = "parsing"
  /\ part[p] = "streaming"
  /\ part' = [part EXCEPT ![p] = "flushing"]
  /\ UNCHANGED <<read, input, limited, counting, uploaded, entries, filled, disk,
                 errors, stage, todo, kept>>

\* mutant of StreamBreaks: the pending write is not given up
StreamBreaksPending(p) ==
  /\ stage = "parsing"
  /\ part[p] \in {"streaming", "stalled"}
  /\ part' = [part EXCEPT ![p] = "broken"]
  /\ input' = "broken"
  /\ errors' = errors \cup {p}
  /\ Abort
  /\ UNCHANGED <<read, limited, entries, filled, disk, todo, kept>>

\* the body ends inside the file; its entry in req.files stays
StreamBreaks(p) ==
  /\ stage = "parsing"
  /\ part[p] \in {"streaming", "stalled"}
  /\ part' = [part EXCEPT ![p] = "broken"]
  /\ input' = "broken"
  /\ errors' = errors \cup {p}
  /\ Settle(pendingWrites - 1, TRUE, uploaded)
  /\ UNCHANGED <<read, limited, entries, filled, disk, todo, kept>>

\* the body is malformed between two parts
BodyBreaks ==
  /\ stage = "parsing" /\ input = "open"
  /\ \A q \in Parts : part[q] # "streaming"
  /\ input' = "broken"
  /\ Abort
  /\ UNCHANGED <<read, part, limited, entries, filled, disk, errors, todo, kept>>

\* indicateDone
DoneOnceWritten(n, ended) ==
  IF ended /\ n = 0 /\ ~errorOccured /\ stage = "parsing" THEN "parsed" ELSE stage

BodyEnds ==
  /\ stage = "parsing" /\ input = "open"
  /\ \A q \in Parts : part[q] # "streaming"
  /\ input' = "ended"
  /\ stage' = DoneOnceWritten(pendingWrites, TRUE)
  /\ UNCHANGED <<read, part, limited, counting, uploaded, entries, filled, disk,
                 errors, todo, kept>>

-----------------------------------------------------------------------------
(***************************************************************************)
(* The callback of storage._handleFile, which may come at any later time,  *)
(* and the clean-up.                                                       *)
(***************************************************************************)
Written(p) ==
  /\ part[p] = "flushing"
  /\ part' = [part EXCEPT ![p] = "written"]
  /\ IF p \in limited
     THEN /\ entries' = entries \ {p}
          /\ Settle(pendingWrites - 1, FALSE, uploaded \cup {p})
          /\ UNCHANGED filled
     ELSE /\ filled' = filled \cup {p}
          /\ UNCHANGED entries
          /\ IF errorOccured
             THEN Settle(pendingWrites - 1, FALSE, uploaded \cup {p})
             ELSE /\ pendingWrites' = pendingWrites - 1
                  /\ uploaded' = uploaded \cup {p}
                  /\ stage' = DoneOnceWritten(pendingWrites - 1, input = "ended")
                  /\ UNCHANGED <<errorOccured, cleanup, toRemove>>
  /\ UNCHANGED <<read, input, limited, disk, errors, todo, kept>>

\* the temp file cannot be written, and may be there in part; if its stream is
\* still open nobody reads it any more
WriteFails(p) ==
  /\ part[p] \in {"streaming", "flushing"}
  /\ part' = [part EXCEPT ![p] = IF @ = "streaming" THEN "stalled" ELSE "lost"]
  /\ entries' = entries \ {p}
  /\ disk' \in {disk, disk \ {p}}
  /\ IF p \in limited
     THEN Settle(pendingWrites - 1, FALSE, uploaded \cup {p}) /\ UNCHANGED errors
     ELSE Settle(pendingWrites - 1, TRUE, uploaded) /\ errors' = errors \cup {p}
  /\ UNCHANGED <<read, input, limited, filled, todo, kept>>

\* removeUploadedFiles: one by one, whether or not a removal works
Remove(p) ==
  /\ cleanup = "removing" /\ p \in toRemove
  /\ toRemove' = toRemove \ {p}
  /\ disk' \in {disk, disk \ {p}}
  /\ IF toRemove' = {} THEN cleanup' = "over" /\ stage' = "parsed"
                       ELSE UNCHANGED <<cleanup, stage>>
  /\ UNCHANGED <<parsing, pendingWrites, errorOccured, uploaded, entries, filled,
                 errors, todo, kept>>

-----------------------------------------------------------------------------
(***************************************************************************)
(* processUploads once the middleware has called next.                     *)
(***************************************************************************)
\* the token came with the body; a file may be too big for its own control
Process ==
  /\ stage = "parsed"
  /\ \E big \in SUBSET (filled \cap entries) :
       /\ entries' = entries \ big
       /\ errors' = errors \cup big
       /\ todo' = entries \ big
  /\ stage' = "storing"
  /\ UNCHANGED <<parsing, counting, uploaded, filled, disk, kept>>

CsrfFails ==
  /\ stage = "parsed"
  /\ stage' = "failed"
  /\ UNCHANGED <<parsing, counting, uploaded, entries, filled, disk, errors, todo, kept>>

\* storeUploadedFiles sends them in the order they came
NextInTurn(p) == stage = "storing" /\ p \in todo /\ \A q \in todo : p <= q

Taken(p) ==
  /\ todo' = todo \ {p}
  /\ disk' = disk \ {p}
  /\ UNCHANGED <<parsing, counting, uploaded, entries, filled, stage>>

Store(p) ==
  /\ NextInTurn(p)
  /\ p \in filled /\ p \in disk
  /\ kept' = kept \cup {p}
  /\ Taken(p)
  /\ UNCHANGED errors

\* the filestore refuses the file or cannot be reached, or the file is gone
StoreFails(p) ==
  /\ NextInTurn(p)
  /\ p \in filled
  /\ errors' = errors \cup {p}
  /\ Taken(p)
  /\ UNCHANGED kept

\* an entry without a path: it is not stored, and deleting its temp file throws
StoreThrows(p) ==
  /\ NextInTurn(p)
  /\ p \notin filled
  /\ stage' = "failed"
  /\ UNCHANGED <<parsing, counting, uploaded, entries, filled, disk, errors, todo, kept>>

Save ==
  /\ stage = "storing" /\ todo = {}
  /\ stage' \in {"saved", "failed"}
  /\ UNCHANGED <<parsing, counting, uploaded, entries, filled, disk, errors, todo, kept>>

-----------------------------------------------------------------------------
Announce(p) == Skip(p) \/ BadField(p) \/ Refuse(p) \/ Accept(p)
Callback(p) == Written(p) \/ WriteFails(p)
Storing(p)  == Store(p) \/ StoreFails(p) \/ StoreThrows(p)

Next ==
  \/ \E p \in Parts : \/ Announce(p) \/ Limit(p) \/ StreamEnds(p) \/ StreamBreaks(p)
                      \/ Callback(p) \/ Remove(p) \/ Storing(p)
  \/ BodyEnds \/ BodyBreaks \/ Process \/ CsrfFails \/ Save

Spec == Init /\ [][Next]_vars

\* no stream that is not read holds the parser up
Unhindered == \A q \in Parts : part[q] \notin {"stalled", "refused"}

\* the browser sends the whole body, the disk calls back, the filestore answers
FairSpec ==
  /\ Spec
  /\ WF_vars(Unhindered /\ BodyEnds)
  /\ \A p \in Parts : /\ WF_vars(StreamEnds(p) \/ StreamBreaks(p))
                      /\ WF_vars(Callback(p)) /\ WF_vars(Remove(p))
                      /\ WF_vars(Storing(p))
  /\ WF_vars(Process \/ CsrfFails) /\ WF_vars(Save)

-----------------------------------------------------------------------------
\* When the middleware calls next without an error the whole body was read, no
\* write is under way and every file it announces in req.files is on disk.
SuccessIsComplete ==
  stage = "parsed" /\ ~errorOccured =>
    /\ input = "ended"
    /\ Pending = {}
    /\ entries = {p \in Parts : part[p] = "written"}
    /\ entries \subseteq filled \cap disk

\* If the document is saved, each file the parser came to is either named in it
\* or reported to the user, and one that is named was written to its last byte:
\* errors do not stop processUploads.
FilesKeptOrReported ==
  stage = "saved" =>
    /\ \A p \in kept : part[p] = "written" /\ p \notin limited
    /\ \A p \in Parts : part[p] \in {"unread", "skipped"} \/ p \in kept \cup errors

\* Whatever fails, the request goes on to its end once the body is in.
RequestEnds == <>(stage \in {"saved", "failed"})
=============================================================================
