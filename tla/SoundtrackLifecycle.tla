------------------------ MODULE SoundtrackLifecycle ------------------------
(***************************************************************************)
(* The soundtracks and the compilations that use one.                      *)
(*                                                                         *)
(*   - POST /soundtracks: save the upload, probe it, flush the row; the    *)
(*     commit comes when the request's session is closed;                  *)
(*   - DELETE /soundtracks/{id}: unlink the file, delete the row, commit;  *)
(*   - POST /compilations: look the soundtrack up, and later insert a row  *)
(*     with a foreign key on it;                                           *)
(*   - run_compilation: resolve the soundtrack, and give ffmpeg its path;  *)
(*   - DELETE /compilations/{id}, which gives the reference up.            *)
(*                                                                         *)
(* A SELECT is one step and a transaction's commit another, as in          *)
(* CompilationLifecycle, whose other states are left out here.             *)
(***************************************************************************)
EXTENDS Integers

CONSTANTS
    Sounds,         \* the ids uuid4() returns for soundtracks
    Compilations,   \* the ids it returns for compilations
    Deleters,       \* DELETE requests for soundtracks
    NoSound,
    Env,            \* what may go wrong, a subset of EnvEvents
    MaxRestarts     \* bound: restarts of the service

EnvEvents == {"bad_upload",   \* too large, or ffprobe refuses it
              "io_error",     \* storage, starting ffprobe or the commit raises
              "busy"}         \* the write lock is not had in time

ASSUME EnvAssumption == Env \subseteq EnvEvents
ASSUME RestartsAssumption == MaxRestarts \in Nat
ASSUME NoSoundAssumption == NoSound \notin Sounds

VARIABLES
    row,         \* the row of each soundtrack
    file,        \* its file in storage
    upload,      \* where POST /soundtracks is for each id
    deleter,     \* where each DELETE is
    target,      \* the soundtrack each DELETE has read
    comp,        \* the row of each compilation
    uses,        \* the soundtrack each compilation names
    job,         \* where the request, then the render of each compilation is
    dropping,    \* compilations a DELETE has read and not yet removed
    restarts,    \* restarts so far
    scrubbed     \* history: soundtracks whose file a DELETE has unlinked

soundVars == <<row, file, upload>>
deleteVars == <<deleter, target, scrubbed>>
compVars == <<comp, uses, job, dropping>>
vars == <<soundVars, deleteVars, compVars, restarts>>

UploadStates == {"none", "saving", "saved", "flushed", "done", "rejected", "broken"}
ActiveUpload == {"saving", "saved", "flushed"}
JobStates == {"none", "checked", "queued", "resolving", "mixing", "complete",
              "failed", "ended", "lost"}
ActiveJob == {"queued", "resolving", "mixing"}

TypeOK ==
    /\ row \in [Sounds -> {"none", "listed", "deleted"}]
    /\ file \in [Sounds -> {"missing", "partial", "whole"}]
    /\ upload \in [Sounds -> UploadStates]
    /\ deleter \in [Deleters -> {"idle", "checked", "unlinked"}]
    /\ target \in [Deleters -> Sounds \cup {NoSound}]
    /\ comp \in [Compilations -> {"none", "live", "deleted"}]
    /\ uses \in [Compilations -> Sounds \cup {NoSound}]
    /\ job \in [Compilations -> JobStates]
    /\ dropping \subseteq Compilations
    /\ restarts \in 0..MaxRestarts
    /\ scrubbed \subseteq Sounds

Init ==
    /\ row = [s \in Sounds |-> "none"]
    /\ file = [s \in Sounds |-> "missing"]
    /\ upload = [s \in Sounds |-> "none"]
    /\ deleter = [d \in Deleters |-> "idle"]
    /\ target = [d \in Deleters |-> NoSound]
    /\ comp = [c \in Compilations |-> "none"]
    /\ uses = [c \in Compilations |-> NoSound]
    /\ job = [c \in Compilations |-> "none"]
    /\ dropping = {}
    /\ restarts = 0
    /\ scrubbed = {}

\* The foreign key compilations.soundtrack_id as SQLite enforces it.
Referenced(s) == \E c \in Compilations : comp[c] = "live" /\ uses[c] = s

-----------------------------------------------------------------------------
(* POST /soundtracks. *)

SaveUpload(s) ==
    /\ upload[s] = "none"
    /\ upload' = [upload EXCEPT ![s] = "saving"]
    /\ file' = [file EXCEPT ![s] = "partial"]
    /\ UNCHANGED <<row, deleteVars, compVars, restarts>>

UploadSaved(s) ==
    /\ upload[s] = "saving"
    /\ upload' = [upload EXCEPT ![s] = "saved"]
    /\ file' = [file EXCEPT ![s] = "whole"]
    /\ UNCHANGED <<row, deleteVars, compVars, restarts>>

\* Fault: the handler raises without deleting the file.
RejectKeepingFile(s) ==
    /\ \/ upload[s] \in {"saving", "saved"} /\ "bad_upload" \in Env
       \/ upload[s] = "saved" /\ "busy" \in Env
    /\ upload' = [upload EXCEPT ![s] = "rejected"]
    /\ UNCHANGED <<row, file, deleteVars, compVars, restarts>>

\* UploadTooLargeError while saving, FfprobeError after it, or an INSERT that is
\* not flushed: the three handlers delete the file and raise.
RejectUpload(s) ==
    /\ \/ upload[s] \in {"saving", "saved"} /\ "bad_upload" \in Env
       \/ upload[s] = "saved" /\ "busy" \in Env
    /\ upload' = [upload EXCEPT ![s] = "rejected"]
    /\ file' = [file EXCEPT ![s] = "missing"]
    /\ UNCHANGED <<row, deleteVars, compVars, restarts>>

\* Any other exception has no handler and the file stays: a full disk, an
\* OSError in place of FfprobeError when ffprobe cannot be started, and the
\* commit, which fails when the 201 has already been sent.
UploadBreaks(s) ==
    /\ "io_error" \in Env
    /\ upload[s] \in ActiveUpload
    /\ upload' = [upload EXCEPT ![s] = "broken"]
    /\ UNCHANGED <<row, file, deleteVars, compVars, restarts>>

\* Fault: the row is added while the file is still being written.
InsertSoundEarly(s) ==
    /\ upload[s] \in {"saving", "saved"}
    /\ upload' = [upload EXCEPT ![s] = "flushed"]
    /\ UNCHANGED <<row, file, deleteVars, compVars, restarts>>

\* probe_audio succeeded; repository.add flushes the INSERT.
InsertSound(s) ==
    /\ upload[s] = "saved"
    /\ upload' = [upload EXCEPT ![s] = "flushed"]
    /\ UNCHANGED <<row, file, deleteVars, compVars, restarts>>

\* Fault: the row gets the status of a clip.
CommitSoundReady(s) ==
    /\ upload[s] = "flushed"
    /\ upload' = [upload EXCEPT ![s] = "done"]
    /\ row' = [row EXCEPT ![s] = "ready"]
    /\ UNCHANGED <<file, deleteVars, compVars, restarts>>

\* get_session commits.
CommitSound(s) ==
    /\ upload[s] = "flushed"
    /\ upload' = [upload EXCEPT ![s] = "done"]
    /\ row' = [row EXCEPT ![s] = "listed"]
    /\ UNCHANGED <<file, deleteVars, compVars, restarts>>

-----------------------------------------------------------------------------
(* DELETE /soundtracks/{id}. *)

DeleteRead(d, s) ==
    /\ deleter[d] = "idle"
    /\ row[s] = "listed"
    /\ deleter' = [deleter EXCEPT ![d] = "checked"]
    /\ target' = [target EXCEPT ![d] = s]
    /\ UNCHANGED <<soundVars, scrubbed, compVars, restarts>>

\* storage.delete; a file that is gone already is fine.
DeleteFile(d) ==
    /\ deleter[d] = "checked"
    /\ deleter' = [deleter EXCEPT ![d] = "unlinked"]
    /\ file' = [file EXCEPT ![target[d]] = "missing"]
    /\ scrubbed' = scrubbed \cup {target[d]}
    /\ UNCHANGED <<row, upload, target, compVars, restarts>>

\* Fault: foreign_keys is not switched on for the connection.
DeleteRowUnchecked(d) ==
    /\ deleter[d] = "unlinked"
    /\ row' = [row EXCEPT ![target[d]] = "deleted"]
    /\ deleter' = [deleter EXCEPT ![d] = "idle"]
    /\ target' = [target EXCEPT ![d] = NoSound]
    /\ UNCHANGED <<file, upload, scrubbed, compVars, restarts>>

\* The DELETE of the row is flushed and committed.
DeleteRow(d) ==
    /\ deleter[d] = "unlinked"
    /\ ~Referenced(target[d])
    /\ row' = [row EXCEPT ![target[d]] = "deleted"]
    /\ deleter' = [deleter EXCEPT ![d] = "idle"]
    /\ target' = [target EXCEPT ![d] = NoSound]
    /\ UNCHANGED <<file, upload, scrubbed, compVars, restarts>>

\* A compilation refers to the row (IntegrityError), or the lock is not had: the
\* transaction is rolled back, the file is gone and the row is still listed.
DeleteRowFails(d) ==
    /\ deleter[d] = "unlinked"
    /\ Referenced(target[d]) \/ "busy" \in Env
    /\ deleter' = [deleter EXCEPT ![d] = "idle"]
    /\ target' = [target EXCEPT ![d] = NoSound]
    /\ UNCHANGED <<soundVars, scrubbed, compVars, restarts>>

-----------------------------------------------------------------------------
(* The compilations, as far as the soundtracks are concerned. *)

\* _validate_soundtrack.
PostCheck(c, s) ==
    /\ job[c] = "none"
    /\ row[s] = "listed"
    /\ job' = [job EXCEPT ![c] = "checked"]
    /\ uses' = [uses EXCEPT ![c] = s]
    /\ UNCHANGED <<soundVars, deleteVars, comp, dropping, restarts>>

\* The row is inserted, the foreign key checked, and committed.
PostCommit(c) ==
    /\ job[c] = "checked"
    /\ row[uses[c]] = "listed"
    /\ comp' = [comp EXCEPT ![c] = "live"]
    /\ job' = [job EXCEPT ![c] = "queued"]
    /\ UNCHANGED <<soundVars, deleteVars, uses, dropping, restarts>>

\* The soundtrack went after the check, or the lock is not had.
PostFails(c) ==
    /\ job[c] = "checked"
    /\ row[uses[c]] # "listed" \/ "busy" \in Env
    /\ job' = [job EXCEPT ![c] = "none"]
    /\ uses' = [uses EXCEPT ![c] = NoSound]
    /\ UNCHANGED <<soundVars, deleteVars, comp, dropping, restarts>>

\* get_with_clips, and the commit of running when there is a row.
Start(c) ==
    /\ job[c] = "queued"
    /\ job' = [job EXCEPT ![c] = IF comp[c] = "live" THEN "resolving" ELSE "ended"]
    /\ UNCHANGED <<soundVars, deleteVars, comp, uses, dropping, restarts>>

\* _resolve_soundtrack_path: the row must be there, nobody looks at the file.
Resolve(c) ==
    /\ job[c] = "resolving"
    /\ job' = [job EXCEPT ![c] =
                 IF row[uses[c]] = "listed" THEN "mixing" ELSE "failed"]
    /\ UNCHANGED <<soundVars, deleteVars, comp, uses, dropping, restarts>>

\* ffmpeg opens the file; once it is open an unlink does not disturb it.
Mix(c) ==
    /\ job[c] = "mixing"
    /\ job' = [job EXCEPT ![c] =
                 IF file[uses[c]] = "whole" THEN "complete" ELSE "failed"]
    /\ UNCHANGED <<soundVars, deleteVars, comp, uses, dropping, restarts>>

\* DELETE /compilations/{id} reads a row that is not running.
DropRead(c) ==
    /\ comp[c] = "live"
    /\ job[c] \notin {"resolving", "mixing"}
    /\ dropping' = dropping \cup {c}
    /\ UNCHANGED <<soundVars, deleteVars, comp, uses, job, restarts>>

\* Its commit takes the row, whatever has become of the render since.
DropCommit(c) ==
    /\ c \in dropping
    /\ dropping' = dropping \ {c}
    /\ comp' = [comp EXCEPT ![c] = "deleted"]
    /\ UNCHANGED <<soundVars, deleteVars, uses, job, restarts>>

\* The process dies and starts again with what is committed and in storage.
Restart ==
    /\ restarts < MaxRestarts
    /\ restarts' = restarts + 1
    /\ upload' = [s \in Sounds |->
                    IF upload[s] \in ActiveUpload THEN "broken" ELSE upload[s]]
    /\ deleter' = [d \in Deleters |-> "idle"]
    /\ target' = [d \in Deleters |-> NoSound]
    /\ job' = [c \in Compilations |->
                 IF job[c] = "checked" THEN "none"
                 ELSE IF job[c] \in ActiveJob THEN "lost" ELSE job[c]]
    /\ uses' = [c \in Compilations |->
                  IF job[c] = "checked" THEN NoSound ELSE uses[c]]
    /\ dropping' = {}
    /\ UNCHANGED <<row, file, scrubbed, comp>>

UploadStep(s) ==
    \/ SaveUpload(s) \/ UploadSaved(s) \/ RejectUpload(s) \/ UploadBreaks(s)
    \/ InsertSound(s) \/ CommitSound(s)

DeleteStep(d) ==
    \/ \E s \in Sounds : DeleteRead(d, s)
    \/ DeleteFile(d) \/ DeleteRow(d) \/ DeleteRowFails(d)

CompilationStep(c) ==
    \/ \E s \in Sounds : PostCheck(c, s)
    \/ PostCommit(c) \/ PostFails(c) \/ Start(c) \/ Resolve(c) \/ Mix(c)
    \/ DropRead(c) \/ DropCommit(c)

Next ==
    \/ \E s \in Sounds : UploadStep(s)
    \/ \E d \in Deleters : DeleteStep(d)
    \/ \E c \in Compilations : CompilationStep(c)
    \/ Restart

Spec == Init /\ [][Next]_vars

-----------------------------------------------------------------------------
(* Properties. *)

\* A listed soundtrack can be played and mixed: its file is whole, unless a
\* DELETE has unlinked it.  That DELETE may have been refused: then the row stays
\* listed without its file, the loss SoundtrackService.delete says it avoids.
ListedSounds ==
    \A s \in Sounds :
        row[s] = "listed" => file[s] = "whole" \/ s \in scrubbed

\* A file without a row is one whose upload is under way or was cut short by an
\* error that has no handler, or by a restart; no refused upload and no deleted
\* soundtrack leaves its file behind.
OrphansExplained ==
    \A s \in Sounds :
        row[s] # "listed" /\ file[s] # "missing"
            => upload[s] \in ActiveUpload \cup {"broken"}

\* A compilation's soundtrack stays listed as long as the compilation does,
\* however the check of its POST, its insert, a DELETE of the soundtrack and one
\* of the compilation interleave; and a render misses its soundtrack only because
\* somebody asked to delete that soundtrack.
SoundsHeld ==
    \A c \in Compilations :
        /\ comp[c] = "live" => row[uses[c]] = "listed"
        /\ job[c] = "failed" => uses[c] \in scrubbed

=============================================================================
