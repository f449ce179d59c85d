---------------------------- MODULE ClipLifecycle ----------------------------
(***************************************************************************)
(* The clips: rows in SQLite, up to three files each in storage, and the   *)
(* handlers that touch both.                                               *)
(*                                                                         *)
(*   - POST /clips: save the upload, probe it, insert the row, commit and  *)
(*     schedule the normalization;                                         *)
(*   - the background task process_clip: transcode, save, write the row to *)
(*     ready, make the filmstrip, and only then commit;                    *)
(*   - DELETE /clips/{id}: unlink the files the row names, delete the row; *)
(*   - POST /compilations: read the ready clips, insert a snapshot of each *)
(*     with a foreign key on its row, commit.                              *)
(*                                                                         *)
(* SQLite has one writer.  A flush takes the write lock and the commit     *)
(* gives it back, so process_clip keeps it while ffmpeg makes the          *)
(* filmstrip, longer than busy_timeout: a write that meets it may raise.   *)
(* After a flush that raised, the session refuses further work until it is *)
(* rolled back, so the handlers of process_clip cannot write either.       *)
(***************************************************************************)
EXTENDS Integers, FiniteSets

CONSTANTS
    Clips,         \* the ids uuid4() returns
    Deleters,      \* DELETE requests
    NoClip,        \* nobody holds the write lock
    Env,           \* what may go wrong, a subset of EnvEvents
    MaxRestarts    \* bound: restarts of the service

EnvEvents == {"bad_upload",    \* too large, or ffprobe refuses it
              "ffmpeg_fails",  \* normalization or filmstrip
              "io_error"}      \* storage, a temporary file or a commit raises

ASSUME EnvAssumption == Env \subseteq EnvEvents
ASSUME RestartsAssumption == MaxRestarts \in Nat
ASSUME NoClipAssumption == NoClip \notin Clips

VARIABLES
    row,         \* committed status of each clip
    keys,        \* which derived files the committed row names
    file,        \* what storage holds of each file of each clip
    upload,      \* where POST is for each id
    task,        \* where process_clip is for each id; "lost" when it stopped
                 \* and left the row as it was
    lock,        \* the clip whose handler holds the write lock
    deleter,     \* where each DELETE is
    order,       \* what each DELETE read: id and keys
    composer,    \* where POST /compilations is; one is in flight at a time
    picked,      \* the ready clips it has read
    referenced,  \* clips some compilation has a committed snapshot of
    restarts,    \* restarts so far
    scrubbed,    \* history: clips whose files a DELETE has unlinked
    overlapped,  \* history: clips whose DELETE read the row while in process
    spoiled      \* history: clips with a file written that no row came to name

history == <<scrubbed, overlapped, spoiled>>
vars == <<row, keys, file, upload, task, lock, deleter, order, composer, picked,
          referenced, restarts, history>>

Derived == {"normalized", "filmstrip"}
Kinds == Derived \cup {"original"}
Statuses == {"processing", "ready", "failed"}
TaskStates == {"none", "queued", "normalizing", "saving", "stored", "flushed",
               "stripped", "plain", "upset", "failing", "ended", "lost"}
ActiveTask == TaskStates \ {"none", "ended", "lost"}

Exists(c) == row[c] \in Statuses
Nothing == [id |-> NoClip, keys |-> {}]

TypeOK ==
    /\ row \in [Clips -> Statuses \cup {"none", "deleted"}]
    /\ keys \in [Clips -> SUBSET Derived]
    /\ file \in [Clips -> [Kinds -> {"missing", "partial", "whole"}]]
    /\ upload \in [Clips -> {"none", "saving", "saved", "flushed", "done",
                             "rejected", "broken"}]
    /\ task \in [Clips -> TaskStates]
    /\ lock \in Clips \cup {NoClip}
    /\ deleter \in [Deleters -> {"idle", "checked", "unlinked"}]
    /\ order \in [Deleters -> [id : Clips \cup {NoClip}, keys : SUBSET Derived]]
    /\ composer \in {"idle", "read", "inserted"}
    /\ picked \subseteq Clips
    /\ referenced \subseteq Clips
    /\ restarts \in 0..MaxRestarts
    /\ scrubbed \subseteq Clips
    /\ overlapped \subseteq Clips
    /\ spoiled \subseteq Clips

Init ==
    /\ row = [c \in Clips |-> "none"]
    /\ keys = [c \in Clips |-> {}]
    /\ file = [c \in Clips |-> [k \in Kinds |-> "missing"]]
    /\ upload = [c \in Clips |-> "none"]
    /\ task = [c \in Clips |-> "none"]
    /\ lock = NoClip
    /\ deleter = [d \in Deleters |-> "idle"]
    /\ order = [d \in Deleters |-> Nothing]
    /\ composer = "idle" /\ picked = {}
    /\ referenced = {}
    /\ restarts = 0
    /\ scrubbed = {} /\ overlapped = {} /\ spoiled = {}

-----------------------------------------------------------------------------
Store(c, kind, state) == file' = [file EXCEPT ![c][kind] = state]

\* The write lock is free, or kept by a filmstrip for longer than the timeout.
\* A composer that has inserted has it until it commits.
Free == lock = NoClip /\ composer # "inserted"
LongHeld == \E c \in Clips : task[c] = "flushed"

dbVars == <<row, keys, lock>>
composeVars == <<composer, picked, referenced>>
requestVars == <<deleter, order, composeVars, restarts>>

(* POST /clips: create_from_upload and the commit in the router. *)

SaveUpload(c) ==
    /\ upload[c] = "none"
    /\ upload' = [upload EXCEPT ![c] = "saving"]
    /\ Store(c, "original", "partial")
    /\ UNCHANGED <<dbVars, task, requestVars, history>>

UploadSaved(c) ==
    /\ upload[c] = "saving"
    /\ upload' = [upload EXCEPT ![c] = "saved"]
    /\ Store(c, "original", "whole")
    /\ UNCHANGED <<dbVars, task, requestVars, history>>

\* Fault: the partial upload is not cleaned up.
RejectKeepingFile(c) ==
    /\ \/ upload[c] \in {"saving", "saved"} /\ "bad_upload" \in Env
       \/ upload[c] = "saved" /\ LongHeld
    /\ upload' = [upload EXCEPT ![c] = "rejected"]
    /\ UNCHANGED <<file, dbVars, task, requestVars, history>>

\* UploadTooLargeError while saving, FfprobeError after it, or an insert that
\* does not get the write lock: each handler deletes the file and raises.
RejectUpload(c) ==
    /\ \/ upload[c] \in {"saving", "saved"} /\ "bad_upload" \in Env
       \/ upload[c] = "saved" /\ LongHeld
    /\ upload' = [upload EXCEPT ![c] = "rejected"]
    /\ Store(c, "original", "missing")
    /\ UNCHANGED <<dbVars, task, requestVars, history>>

\* Any other exception, a full disk while saving or the commit that fails,
\* has no handler: the file stays.
UploadBreaks(c) ==
    /\ "io_error" \in Env
    /\ upload[c] \in {"saving", "saved", "flushed"}
    /\ upload' = [upload EXCEPT ![c] = "broken"]
    /\ lock' = IF lock = c THEN NoClip ELSE lock
    /\ UNCHANGED <<row, keys, file, task, requestVars, history>>

\* repository.add flushes the INSERT.
InsertClip(c) ==
    /\ upload[c] = "saved"
    /\ Free
    /\ lock' = c
    /\ upload' = [upload EXCEPT ![c] = "flushed"]
    /\ UNCHANGED <<row, keys, file, task, requestVars, history>>

\* Fault: the new row gets the first status of a compilation.
CommitClipPending(c) ==
    /\ upload[c] = "flushed"
    /\ row' = [row EXCEPT ![c] = "pending"]
    /\ lock' = NoClip
    /\ upload' = [upload EXCEPT ![c] = "done"]
    /\ task' = [task EXCEPT ![c] = "queued"]
    /\ UNCHANGED <<keys, file, requestVars, history>>

\* session.commit() in create_clip, then background_tasks.add_task.
CommitClip(c) ==
    /\ upload[c] = "flushed"
    /\ row' = [row EXCEPT ![c] = "processing"]
    /\ lock' = NoClip
    /\ upload' = [upload EXCEPT ![c] = "done"]
    /\ task' = [task EXCEPT ![c] = "queued"]
    /\ UNCHANGED <<keys, file, requestVars, history>>

-----------------------------------------------------------------------------
(* process_clip and the commit in _run_normalization. *)

Goto(c, state) == task' = [task EXCEPT ![c] = state]

LoadClip(c) ==
    /\ task[c] = "queued"
    /\ Goto(c, IF Exists(c) THEN "normalizing" ELSE "ended")
    /\ UNCHANGED <<dbVars, file, upload, requestVars, history>>

\* The temporary file of the output is made before the try block: when that
\* fails no handler runs, and the exception leaves the task.
LoadFails(c) ==
    /\ "io_error" \in Env
    /\ task[c] = "queued"
    /\ Exists(c)
    /\ Goto(c, "lost")
    /\ UNCHANGED <<dbVars, file, upload, requestVars, history>>

\* normalize succeeded; storage.save opens the normalized file and fills it.
SaveNormalized(c) ==
    /\ task[c] = "normalizing"
    /\ Goto(c, "saving")
    /\ Store(c, "normalized", "partial")
    /\ UNCHANGED <<dbVars, upload, requestVars, history>>

NormalizedSaved(c) ==
    /\ task[c] = "saving"
    /\ Goto(c, "stored")
    /\ Store(c, "normalized", "whole")
    /\ UNCHANGED <<dbVars, upload, requestVars, history>>

\* ffmpeg fails, also because a DELETE has unlinked the original; or the save
\* does, and leaves what it has written.
NormalizeFails(c) ==
    /\ \/ /\ task[c] = "normalizing"
          /\ "ffmpeg_fails" \in Env \/ file[c]["original"] = "missing"
       \/ task[c] = "saving" /\ "io_error" \in Env
    /\ Goto(c, "failing")
    /\ spoiled' = IF task[c] = "saving" THEN spoiled \cup {c} ELSE spoiled
    /\ UNCHANGED <<dbVars, file, upload, requestVars, scrubbed, overlapped>>

\* normalized_key and status = ready are flushed, not committed.
FlushReady(c) ==
    /\ task[c] = "stored"
    /\ Exists(c) /\ Free
    /\ lock' = c
    /\ Goto(c, "flushed")
    /\ UNCHANGED <<row, keys, file, upload, requestVars, history>>

\* The row is gone or the lock is not had.  The handler's own flush then raises
\* PendingRollbackError, the router rolls back, the status stays as it was.
FlushReadyFails(c) ==
    /\ task[c] = "stored"
    /\ ~Exists(c) \/ LongHeld
    /\ Goto(c, IF Exists(c) THEN "lost" ELSE "ended")
    /\ spoiled' = spoiled \cup {c}
    /\ UNCHANGED <<dbVars, file, upload, requestVars, scrubbed, overlapped>>

\* The filmstrip is made, saved and its key flushed.
MakeFilmstrip(c) ==
    /\ task[c] = "flushed"
    /\ Goto(c, "stripped")
    /\ Store(c, "filmstrip", "whole")
    /\ UNCHANGED <<dbVars, upload, requestVars, history>>

\* Its failure is logged only; a save that fails leaves part of the file.
FilmstripFails(c) ==
    /\ task[c] = "flushed"
    /\ Goto(c, "plain")
    /\ \/ "ffmpeg_fails" \in Env /\ UNCHANGED <<file, spoiled>>
       \/ "io_error" \in Env /\ Store(c, "filmstrip", "partial")
                             /\ spoiled' = spoiled \cup {c}
    /\ UNCHANGED <<dbVars, upload, requestVars, scrubbed, overlapped>>

\* The strip's temporary file is made before the helper's own try block: that
\* failure does reach process_clip's handler, which sets the flushed row to failed.
FilmstripRaises(c) ==
    /\ "io_error" \in Env
    /\ task[c] = "flushed"
    /\ Goto(c, "upset")
    /\ UNCHANGED <<dbVars, file, upload, requestVars, history>>

\* The commit makes that visible: failed, with the normalized file named.
CommitUpset(c) ==
    /\ task[c] = "upset"
    /\ row' = [row EXCEPT ![c] = "failed"]
    /\ keys' = [keys EXCEPT ![c] = {"normalized"}]
    /\ lock' = NoClip
    /\ Goto(c, "ended")
    /\ UNCHANGED <<file, upload, requestVars, history>>

\* Fault: the row names a filmstrip that may not have been made.
CommitReadyWithStrip(c) ==
    /\ task[c] \in {"stripped", "plain"}
    /\ row' = [row EXCEPT ![c] = "ready"]
    /\ keys' = [keys EXCEPT ![c] = Derived]
    /\ lock' = NoClip
    /\ Goto(c, "ended")
    /\ UNCHANGED <<file, upload, requestVars, history>>

\* Fault: the filmstrip's key is not stored.
CommitReadyNoStrip(c) ==
    /\ task[c] \in {"stripped", "plain"}
    /\ row' = [row EXCEPT ![c] = "ready"]
    /\ keys' = [keys EXCEPT ![c] = {"normalized"}]
    /\ lock' = NoClip
    /\ Goto(c, "ended")
    /\ UNCHANGED <<file, upload, requestVars, history>>

\* The commit in _run_normalization makes it all visible at once.
CommitReady(c) ==
    /\ task[c] \in {"stripped", "plain"}
    /\ row' = [row EXCEPT ![c] = "ready"]
    /\ keys' = [keys EXCEPT ![c] =
                  IF task[c] = "stripped" THEN Derived ELSE {"normalized"}]
    /\ lock' = NoClip
    /\ Goto(c, "ended")
    /\ UNCHANGED <<file, upload, requestVars, history>>

\* The removal of the temporary file or the commit raises: all of it is rolled back.
CommitReadyFails(c) ==
    /\ "io_error" \in Env
    /\ task[c] \in {"stripped", "plain", "upset"}
    /\ lock' = NoClip
    /\ Goto(c, "lost")
    /\ spoiled' = spoiled \cup {c}
    /\ UNCHANGED <<row, keys, file, upload, requestVars, scrubbed, overlapped>>

\* Fault: the failure is logged and the status left alone.
MarkFailedNot(c) ==
    /\ task[c] = "failing"
    /\ Goto(c, "ended")
    /\ UNCHANGED <<dbVars, file, upload, requestVars, history>>

\* status = failed, flushed by the handler and committed by the router.
MarkFailed(c) ==
    /\ task[c] = "failing"
    /\ Exists(c) /\ Free
    /\ row' = [row EXCEPT ![c] = "failed"]
    /\ Goto(c, "ended")
    /\ UNCHANGED <<keys, file, upload, lock, requestVars, history>>

\* The row is gone, the lock is not had, or the commit raises.
MarkFailedFails(c) ==
    /\ task[c] = "failing"
    /\ ~Exists(c) \/ LongHeld \/ "io_error" \in Env
    /\ Goto(c, IF Exists(c) THEN "lost" ELSE "ended")
    /\ UNCHANGED <<dbVars, file, upload, requestVars, history>>

-----------------------------------------------------------------------------
(* DELETE /clips/{id}. *)

DeleteRead(d, c) ==
    /\ deleter[d] = "idle"
    /\ Exists(c)
    /\ order' = [order EXCEPT ![d] = [id |-> c, keys |-> keys[c]]]
    /\ deleter' = [deleter EXCEPT ![d] = "checked"]
    /\ overlapped' = IF task[c] \in ActiveTask THEN overlapped \cup {c}
                                               ELSE overlapped
    /\ UNCHANGED <<dbVars, file, upload, task, composeVars, restarts, scrubbed,
                   spoiled>>

\* The original and the derived files that were named when the row was read.
DeleteFiles(d) ==
    /\ deleter[d] = "checked"
    /\ LET c == order[d].id
           unlinked == order[d].keys \cup {"original"}
       IN /\ file' = [file EXCEPT ![c] =
               [k \in Kinds |-> IF k \in unlinked THEN "missing" ELSE @[k]]]
          /\ scrubbed' = scrubbed \cup {c}
    /\ deleter' = [deleter EXCEPT ![d] = "unlinked"]
    /\ UNCHANGED <<dbVars, upload, task, order, composeVars, restarts,
                   overlapped, spoiled>>

\* The DELETE of the row, committed when the request ends.
DeleteRow(d) ==
    /\ deleter[d] = "unlinked"
    /\ Free
    /\ order[d].id \notin referenced
    /\ row' = [row EXCEPT ![order[d].id] = "deleted"]
    /\ keys' = [keys EXCEPT ![order[d].id] = {}]
    /\ deleter' = [deleter EXCEPT ![d] = "idle"]
    /\ order' = [order EXCEPT ![d] = Nothing]
    /\ UNCHANGED <<file, upload, task, lock, composeVars, restarts, history>>

\* A snapshot refers to the row (IntegrityError), the lock is not had or the
\* commit raises: the transaction is rolled back, the files are gone.
DeleteRowFails(d) ==
    /\ deleter[d] = "unlinked"
    /\ order[d].id \in referenced \/ LongHeld \/ "io_error" \in Env
    /\ deleter' = [deleter EXCEPT ![d] = "idle"]
    /\ order' = [order EXCEPT ![d] = Nothing]
    /\ UNCHANGED <<dbVars, file, upload, task, composeVars, restarts, history>>

-----------------------------------------------------------------------------
(* POST /compilations, as far as the clips are concerned. *)

\* CompilationService.create reads the ready clips; without one it refuses.
ReadReady ==
    /\ composer = "idle"
    /\ \E c \in Clips : row[c] = "ready"
    /\ picked' = {c \in Clips : row[c] = "ready"}
    /\ composer' = "read"
    /\ UNCHANGED <<dbVars, file, upload, task, deleter, order, referenced, restarts,
                   history>>

\* Fault: foreign_keys is not switched on for the connection.
InsertUnchecked ==
    /\ composer = "read"
    /\ Free
    /\ composer' = "inserted"
    /\ UNCHANGED <<dbVars, file, upload, task, deleter, order, picked, referenced,
                   restarts, history>>

\* The flush of the compilation takes the write lock; each snapshot's flush then
\* needs the row of its clip.
InsertSnapshots ==
    /\ composer = "read"
    /\ Free
    /\ \A c \in picked : Exists(c)
    /\ composer' = "inserted"
    /\ UNCHANGED <<dbVars, file, upload, task, deleter, order, picked, referenced,
                   restarts, history>>

\* A clip that was read is gone (IntegrityError), or the lock is not had.
InsertFails ==
    /\ composer = "read"
    /\ LongHeld \/ \E c \in picked : ~Exists(c)
    /\ composer' = "idle"
    /\ picked' = {}
    /\ UNCHANGED <<dbVars, file, upload, task, deleter, order, referenced, restarts,
                   history>>

\* The router commits, before the response and the background task.
CommitSnapshots ==
    /\ composer = "inserted"
    /\ referenced' = referenced \cup picked
    /\ composer' = "idle"
    /\ picked' = {}
    /\ UNCHANGED <<dbVars, file, upload, task, deleter, order, restarts, history>>

CommitSnapshotsFails ==
    /\ "io_error" \in Env
    /\ composer = "inserted"
    /\ composer' = "idle"
    /\ picked' = {}
    /\ UNCHANGED <<dbVars, file, upload, task, deleter, order, referenced, restarts,
                   history>>

\* CompilationService.delete removes the snapshots with the compilation;
\* a clip stays referenced while another compilation holds it.
Unreference ==
    /\ Free
    /\ \E dropped \in SUBSET referenced :
          /\ dropped # {}
          /\ referenced' = referenced \ dropped
    /\ UNCHANGED <<dbVars, file, upload, task, deleter, order, composer, picked,
                   restarts, history>>

\* The process dies and starts again: what is committed and what is in storage
\* stays, every request and background task is gone.
Restart ==
    /\ restarts < MaxRestarts
    /\ restarts' = restarts + 1
    /\ lock' = NoClip
    /\ upload' = [c \in Clips |-> IF upload[c] \in {"saving", "saved", "flushed"}
                                    THEN "broken" ELSE upload[c]]
    /\ task' = [c \in Clips |-> IF task[c] \in ActiveTask THEN "lost" ELSE task[c]]
    /\ spoiled' = spoiled \cup {c \in Clips : task[c] \in ActiveTask}
    /\ deleter' = [d \in Deleters |-> "idle"]
    /\ order' = [d \in Deleters |-> Nothing]
    /\ composer' = "idle"
    /\ picked' = {}
    /\ UNCHANGED <<row, keys, file, referenced, scrubbed, overlapped>>

UploadStep(c) ==
    \/ SaveUpload(c) \/ UploadSaved(c) \/ RejectUpload(c) \/ UploadBreaks(c)
    \/ InsertClip(c) \/ CommitClip(c)

TaskStep(c) ==
    \/ LoadClip(c) \/ LoadFails(c) \/ SaveNormalized(c) \/ NormalizedSaved(c)
    \/ NormalizeFails(c) \/ FlushReady(c) \/ FlushReadyFails(c)
    \/ MakeFilmstrip(c) \/ FilmstripFails(c) \/ FilmstripRaises(c)
    \/ CommitReady(c) \/ CommitUpset(c) \/ CommitReadyFails(c)
    \/ MarkFailed(c) \/ MarkFailedFails(c)

DeleteStep(d) ==
    \/ \E c \in Clips : DeleteRead(d, c)
    \/ DeleteFiles(d) \/ DeleteRow(d) \/ DeleteRowFails(d)

ComposeStep ==
    \/ ReadReady \/ InsertSnapshots \/ InsertFails
    \/ CommitSnapshots \/ CommitSnapshotsFails

Next ==
    \/ \E c \in Clips : UploadStep(c) \/ TaskStep(c)
    \/ \E d \in Deleters : DeleteStep(d)
    \/ ComposeStep \/ Unreference
    \/ Restart

Spec == Init /\ [][Next]_vars

\* Requests and background tasks run; ffmpeg ends or is killed by its timeout.  A
\* write that waits for the lock polls for it (busy_timeout) many times longer than
\* a request keeps it, so it does not wait for ever while requests come and go.
FairSpec ==
    /\ Spec
    /\ \A c \in Clips :
          /\ WF_vars(CommitClip(c)) /\ WF_vars(TaskStep(c))
          /\ SF_vars(FlushReady(c)) /\ SF_vars(MarkFailed(c))
    /\ WF_vars(CommitSnapshots)

-----------------------------------------------------------------------------
(* Properties. *)

\* What a row names is in storage, whole, unless a DELETE has unlinked it; a
\* ready row names the normalized video.
NamedFilesExist ==
    \A c \in Clips :
        /\ row[c] = "ready" => "normalized" \in keys[c]
        /\ Exists(c) /\ c \notin scrubbed =>
              \A k \in keys[c] \cup {"original"} : file[c][k] = "whole"

\* No upload that was refused, and no deleted clip, leaves its original behind.
OriginalsCleanedUp ==
    \A c \in Clips :
        upload[c] = "rejected" \/ row[c] = "deleted"
            => file[c]["original"] = "missing"

\* A derived file outlives its row for two reasons only: the DELETE read the row
\* while the clip was in process, or the processing stopped before its commit.
OrphansExplained ==
    \A c \in Clips :
        row[c] = "deleted" /\ file[c] # [k \in Kinds |-> "missing"]
            => c \in overlapped \cup spoiled

\* A snapshot of a compilation never refers to a row that is gone or not ready,
\* however the DELETE of a clip and the creation of a compilation interleave: also
\* when the row goes after create has read it and before its snapshot is inserted.
SnapshotsHold ==
    \A c \in referenced \cup (IF composer = "inserted" THEN picked ELSE {}) :
        row[c] = "ready"

\* "a commit failure leaves an orphaned file rather than a missing file"
\* (ClipService.delete): once no DELETE is at work on it, a clip that exists has
\* its original.
RollbackKeepsFiles ==
    \A c \in Clips :
        Exists(c) /\ (\A d \in Deleters : order[d].id # c)
            => file[c]["original"] = "whole"

\* A clip in process has a task that will see to it, or had one that was stopped:
\* by a restart, by a temporary file that could not be made, by another clip's long
\* transaction, or by a commit that failed.
UnsettledIsLost ==
    \A c \in Clips :
        row[c] = "processing" => task[c] \in ActiveTask \cup {"lost"}

\* A clip does not stay in process, whatever fails, unless its task was stopped in
\* one of the ways UnsettledIsLost names: by a restart, by a temporary file that
\* cannot be made, by a write lock that is not had, or by a commit that fails.
ClipsSettle ==
    \A c \in Clips : row[c] = "processing" ~> row[c] # "processing" \/ task[c] = "lost"

=============================================================================
