------------------------ MODULE CompilationLifecycle ------------------------
(***************************************************************************)
(* The compilations: rows in SQLite, output files in storage, and the      *)
(* three kinds of handler that touch both.                                 *)
(*                                                                         *)
(*   - POST /compilations: check that none is running, then insert the row *)
(*     and its snapshots, commit and schedule the render;                  *)
(*   - the background task run_compilation, one per compilation;           *)
(*   - DELETE /compilations/{id}: read the row, unlink the output, delete  *)
(*     the rows, commit when the request ends.                             *)
(*                                                                         *)
(* SQLite runs without snapshot reads here: a SELECT sees what is          *)
(* committed when it runs, writes become visible when their transaction    *)
(* commits, and a write that waits longer than busy_timeout for the write  *)
(* lock raises.  So a read is one step and a transaction's commit another. *)
(* The service dies with all its tasks and comes back with an empty memory *)
(* (lifespan runs the migrations and nothing else).                        *)
(***************************************************************************)
EXTENDS Integers, FiniteSets

CONSTANTS
    Compilations,   \* the ids uuid4() returns
    Deleters,       \* DELETE requests
    Env,            \* what may go wrong, a subset of EnvEvents
    MaxRestarts     \* bound: restarts of the service

EnvEvents == {"busy",          \* the write lock is not had in time
              "tmp_fails",     \* NamedTemporaryFile raises
              "render_fails",  \* a clip is missing, or ffmpeg fails
              "save_fails"}    \* the output cannot be written completely

ASSUME EnvAssumption == Env \subseteq EnvEvents
ASSUME RestartsAssumption == MaxRestarts \in Nat

VARIABLES
    row,        \* committed status of each compilation
    key,        \* whether the committed row has an output_key
    file,       \* outputs/<id>.mp4 in storage
    request,    \* where POST is for each id: "idle", "checked" or "done"
    task,       \* where run_compilation is for each id; "lost" when it stopped
                \* and left the row as it was
    deleter,    \* where each DELETE is: "idle", "checked" or "unlinked"
    order,      \* what each DELETE read: id, status and key
    restarts,   \* restarts so far
    scrubbed,   \* history: ids whose output a DELETE has unlinked
    stale,      \* history: ids deleted although the status read had changed
    spoiled     \* history: ids whose render failed once the save had begun

history == <<scrubbed, stale, spoiled>>
vars == <<row, key, file, request, task, deleter, order, restarts, history>>

Statuses == {"pending", "running", "complete", "failed"}
TaskStates == {"none", "queued", "loaded", "marked", "rendering", "saving",
               "saved", "failing", "ended", "lost"}
ActiveTask == TaskStates \ {"none", "ended", "lost"}

Exists(c) == row[c] \in Statuses
Orders == [id : Compilations, status : Statuses, key : BOOLEAN]
Nothing == [id |-> "none", status |-> "none", key |-> FALSE]

TypeOK ==
    /\ row \in [Compilations -> Statuses \cup {"none", "deleted"}]
    /\ key \in [Compilations -> BOOLEAN]
    /\ file \in [Compilations -> {"missing", "partial", "whole"}]
    /\ request \in [Compilations -> {"idle", "checked", "done"}]
    /\ task \in [Compilations -> TaskStates]
    /\ deleter \in [Deleters -> {"idle", "checked", "unlinked"}]
    /\ order \in [Deleters -> Orders \cup {Nothing}]
    /\ restarts \in 0..MaxRestarts
    /\ scrubbed \subseteq Compilations
    /\ stale \subseteq Compilations
    /\ spoiled \subseteq Compilations

Init ==
    /\ row = [c \in Compilations |-> "none"]
    /\ key = [c \in Compilations |-> FALSE]
    /\ file = [c \in Compilations |-> "missing"]
    /\ request = [c \in Compilations |-> "idle"]
    /\ task = [c \in Compilations |-> "none"]
    /\ deleter = [d \in Deleters |-> "idle"]
    /\ order = [d \in Deleters |-> Nothing]
    /\ restarts = 0
    /\ scrubbed = {} /\ stale = {} /\ spoiled = {}

-----------------------------------------------------------------------------
(* POST /compilations. *)

\* _check_no_running_compilation, then the reads of soundtrack and clips.
CreateCheck(c) ==
    /\ request[c] = "idle"
    /\ row[c] = "none"
    /\ \A other \in Compilations : row[other] # "running"
    /\ request' = [request EXCEPT ![c] = "checked"]
    /\ UNCHANGED <<row, key, file, task, deleter, order, restarts, history>>

\* The row and its snapshots are inserted and committed; the response goes out
\* and the background task is scheduled.
CreateCommit(c) ==
    /\ request[c] = "checked"
    /\ request' = [request EXCEPT ![c] = "done"]
    /\ row' = [row EXCEPT ![c] = "pending"]
    /\ task' = [task EXCEPT ![c] = "queued"]
    /\ UNCHANGED <<key, file, deleter, order, restarts, history>>

CreateFails(c) ==
    /\ "busy" \in Env
    /\ request[c] = "checked"
    /\ request' = [request EXCEPT ![c] = "idle"]
    /\ UNCHANGED <<row, key, file, task, deleter, order, restarts, history>>

-----------------------------------------------------------------------------
(* run_compilation. *)

Goto(c, state) == task' = [task EXCEPT ![c] = state]

\* get_with_clips, and _register when there is a row.
Load(c) ==
    /\ task[c] = "queued"
    /\ Goto(c, IF Exists(c) THEN "loaded" ELSE "ended")
    /\ UNCHANGED <<row, key, file, request, deleter, order, restarts, history>>

\* Fault: the row gets the first status of a clip.
MarkProcessing(c) ==
    /\ task[c] = "loaded"
    /\ Exists(c)
    /\ row' = [row EXCEPT ![c] = "processing"]
    /\ Goto(c, "marked")
    /\ UNCHANGED <<key, file, request, deleter, order, restarts, history>>

\* status = running, add, commit.
MarkRunning(c) ==
    /\ task[c] = "loaded"
    /\ Exists(c)
    /\ row' = [row EXCEPT ![c] = "running"]
    /\ Goto(c, "marked")
    /\ UNCHANGED <<key, file, request, deleter, order, restarts, history>>

\* The update matches no row, or the write lock is not had: the exception is
\* raised before the try block and ends the task.
MarkRunningFails(c) ==
    /\ task[c] = "loaded"
    /\ ~Exists(c) \/ "busy" \in Env
    /\ Goto(c, IF Exists(c) THEN "lost" ELSE "ended")
    /\ UNCHANGED <<row, key, file, request, deleter, order, restarts, history>>

\* The temporary file is made, still before the try block.
MakeTempFile(c) ==
    /\ task[c] = "marked"
    /\ Goto(c, "rendering")
    /\ UNCHANGED <<row, key, file, request, deleter, order, restarts, history>>

MakeTempFileFails(c) ==
    /\ task[c] = "marked"
    /\ "tmp_fails" \in Env
    /\ Goto(c, IF Exists(c) THEN "lost" ELSE "ended")
    /\ UNCHANGED <<row, key, file, request, deleter, order, restarts, history>>

\* compile_video returned; storage.save opens the output and fills it.
SaveStart(c) ==
    /\ task[c] = "rendering"
    /\ file' = [file EXCEPT ![c] = "partial"]
    /\ Goto(c, "saving")
    /\ UNCHANGED <<row, key, request, deleter, order, restarts, history>>

SaveDone(c) ==
    /\ task[c] = "saving"
    /\ file' = [file EXCEPT ![c] = "whole"]
    /\ Goto(c, "saved")
    /\ UNCHANGED <<row, key, request, deleter, order, restarts, history>>

\* Fault: the row is committed before the file is written.
CommitCompleteEarly(c) ==
    /\ task[c] = "saving"
    /\ Exists(c)
    /\ row' = [row EXCEPT ![c] = "complete"]
    /\ key' = [key EXCEPT ![c] = TRUE]
    /\ Goto(c, "ended")
    /\ UNCHANGED <<file, request, deleter, order, restarts, history>>

\* output_key and status = complete, in one commit.
CommitComplete(c) ==
    /\ task[c] = "saved"
    /\ Exists(c)
    /\ row' = [row EXCEPT ![c] = "complete"]
    /\ key' = [key EXCEPT ![c] = TRUE]
    /\ Goto(c, "ended")
    /\ UNCHANGED <<file, request, deleter, order, restarts, history>>

\* Fault: the exception is logged and the row left alone.
RenderFailsUnrecorded(c) ==
    /\ task[c] = "rendering"
    /\ "render_fails" \in Env
    /\ Goto(c, "ended")
    /\ UNCHANGED <<row, key, file, request, deleter, order, restarts, history>>

\* An exception inside the try block.  What has been written of the output
\* stays in storage.
RenderFails(c) ==
    /\ \/ task[c] = "rendering" /\ "render_fails" \in Env
       \/ task[c] = "saving" /\ "save_fails" \in Env
       \/ task[c] = "saved" /\ (~Exists(c) \/ "busy" \in Env)
    /\ Goto(c, "failing")
    /\ spoiled' = IF task[c] = "rendering" THEN spoiled ELSE spoiled \cup {c}
    /\ UNCHANGED <<row, key, file, request, deleter, order, restarts, scrubbed, stale>>

\* Fault: the handler puts the compilation back in line.
RecordFailureRetry(c) ==
    /\ task[c] = "failing"
    /\ row' = IF Exists(c) THEN [row EXCEPT ![c] = "pending"] ELSE row
    /\ Goto(c, "ended")
    /\ UNCHANGED <<key, file, request, deleter, order, restarts, history>>

\* The handler rolls back, loads the row again and commits failed if it is
\* still there.
RecordFailure(c) ==
    /\ task[c] = "failing"
    /\ row' = IF Exists(c) THEN [row EXCEPT ![c] = "failed"] ELSE row
    /\ Goto(c, "ended")
    /\ UNCHANGED <<key, file, request, deleter, order, restarts, history>>

\* The commit of failed meets the write lock as well.
RecordFailureFails(c) ==
    /\ task[c] = "failing"
    /\ Exists(c) /\ "busy" \in Env
    /\ Goto(c, "lost")
    /\ UNCHANGED <<row, key, file, request, deleter, order, restarts, history>>

-----------------------------------------------------------------------------
(* DELETE /compilations/{id}. *)

\* Fault: the key is not read, so nothing is unlinked.
DeleteReadNoKey(d, c) ==
    /\ deleter[d] = "idle"
    /\ row[c] \in Statuses \ {"running"}
    /\ order' = [order EXCEPT ![d] = [id |-> c, status |-> row[c], key |-> FALSE]]
    /\ deleter' = [deleter EXCEPT ![d] = "checked"]
    /\ UNCHANGED <<row, key, file, request, task, restarts, history>>

\* The row is read, 404 and 409 decided on what it says now.
DeleteRead(d, c) ==
    /\ deleter[d] = "idle"
    /\ row[c] \in Statuses \ {"running"}
    /\ order' = [order EXCEPT ![d] = [id |-> c, status |-> row[c], key |-> key[c]]]
    /\ deleter' = [deleter EXCEPT ![d] = "checked"]
    /\ UNCHANGED <<row, key, file, request, task, restarts, history>>

\* storage.delete of the key that was read; a missing file is fine.
DeleteUnlink(d) ==
    /\ deleter[d] = "checked"
    /\ deleter' = [deleter EXCEPT ![d] = "unlinked"]
    /\ LET c == order[d].id IN
         IF order[d].key
           THEN /\ file' = [file EXCEPT ![c] = "missing"]
                /\ scrubbed' = scrubbed \cup {c}
           ELSE UNCHANGED <<file, scrubbed>>
    /\ UNCHANGED <<row, key, request, task, order, restarts, stale, spoiled>>

\* The snapshots and the row are deleted and the request's session commits.
\* The DELETE names the id and nothing else: it also succeeds when the status
\* has changed since, and when the row is already gone.
DeleteCommit(d) ==
    /\ deleter[d] = "unlinked"
    /\ deleter' = [deleter EXCEPT ![d] = "idle"]
    /\ order' = [order EXCEPT ![d] = Nothing]
    /\ LET c == order[d].id IN
         /\ row' = [row EXCEPT ![c] = "deleted"]
         /\ key' = [key EXCEPT ![c] = FALSE]
         /\ stale' = IF row[c] \in {order[d].status, "deleted"}
                       THEN stale ELSE stale \cup {c}
    /\ UNCHANGED <<file, request, task, restarts, scrubbed, spoiled>>

DeleteFails(d) ==
    /\ deleter[d] = "unlinked"
    /\ "busy" \in Env
    /\ deleter' = [deleter EXCEPT ![d] = "idle"]
    /\ order' = [order EXCEPT ![d] = Nothing]
    /\ UNCHANGED <<row, key, file, request, task, restarts, history>>

-----------------------------------------------------------------------------
\* The process dies and starts again: what is committed and what is in storage
\* stays, every request and background task is gone.
Restart ==
    /\ restarts < MaxRestarts
    /\ restarts' = restarts + 1
    /\ request' = [c \in Compilations |->
                     IF request[c] = "checked" THEN "idle" ELSE request[c]]
    /\ task' = [c \in Compilations |->
                  IF task[c] \in ActiveTask THEN "lost" ELSE task[c]]
    /\ deleter' = [d \in Deleters |-> "idle"]
    /\ order' = [d \in Deleters |-> Nothing]
    /\ UNCHANGED <<row, key, file, history>>

CreateStep(c) == CreateCheck(c) \/ CreateCommit(c) \/ CreateFails(c)

TaskStep(c) ==
    \/ Load(c) \/ MarkRunning(c) \/ MarkRunningFails(c) \/ MakeTempFile(c)
    \/ MakeTempFileFails(c) \/ SaveStart(c) \/ SaveDone(c) \/ CommitComplete(c)
    \/ RenderFails(c) \/ RecordFailure(c) \/ RecordFailureFails(c)

DeleteStep(d) ==
    \/ \E c \in Compilations : DeleteRead(d, c)
    \/ DeleteUnlink(d) \/ DeleteCommit(d) \/ DeleteFails(d)

Next ==
    \/ \E c \in Compilations : CreateStep(c) \/ TaskStep(c)
    \/ \E d \in Deleters : DeleteStep(d)
    \/ Restart

Spec == Init /\ [][Next]_vars

\* A scheduled background task runs, and ffmpeg is assumed to end.
FairSpec == Spec /\ \A c \in Compilations : WF_vars(TaskStep(c))

-----------------------------------------------------------------------------
(* Properties. *)

\* A complete compilation can be played: its row names an output and the whole
\* file is there, unless a DELETE has unlinked it and could not, or did not yet,
\* remove the row.
CompleteIsPlayable ==
    \A c \in Compilations :
        row[c] = "complete" => key[c] /\ (file[c] = "whole" \/ c \in scrubbed)

\* An output outlives its row for two reasons only: the DELETE worked on a
\* status that changed after it was read, or the render failed after the save
\* had begun and the failed row never named the file.
OrphansExplained ==
    \A c \in Compilations :
        row[c] = "deleted" /\ file[c] # "missing" => c \in stale \cup spoiled

\* A row that is not settled has a task that will see to it: a pending one a task
\* that has not begun, a running one a task that is rendering or recording how that
\* went.  Or it had one that was stopped: by a restart, by the write lock when it
\* recorded running or failed, or for want of a temporary file.  Such a row stays,
\* and a running one answers POST and its own DELETE with 409 although nothing
\* runs.
UnsettledIsLost ==
    \A c \in Compilations :
        /\ row[c] = "pending" => task[c] \in {"queued", "loaded", "lost"}
        /\ row[c] = "running" => task[c] \in {"marked", "rendering", "saving", "saved",
                                             "failing", "lost"}

\* "A compilation is already running" (the 409 of POST): the check promises one
\* render at a time.
OneRunning ==
    \A c1, c2 \in Compilations :
        row[c1] = "running" /\ row[c2] = "running" => c1 = c2

\* Each compilation goes through its life in one direction, and its row names
\* an output exactly while it is complete, whatever fails and restarts.
Jobs == INSTANCE RenderJob WITH Jobs <- Compilations, status <- row, output <- key
JobSpec == Jobs!Spec

\* Every compilation is settled or deleted in the end, whatever fails, unless its
\* task was stopped in one of the ways UnsettledIsLost names.
JobsSettle ==
    \A c \in Compilations :
        row[c] \in {"pending", "running"}
            ~> row[c] \notin {"pending", "running"} \/ task[c] = "lost"

=============================================================================
