----------------------------- MODULE ClipProofs -----------------------------
(***************************************************************************)
(* Proofs about ClipLifecycle for any number of clips, of deletes and of   *)
(* restarts, and whatever goes wrong.                                      *)
(*                                                                         *)
(* The argument: LockInv, a handler between its flush and its commit has   *)
(* the write lock, so no DELETE commits there; PhaseInv ties the row to    *)
(* the upload and the task; FileInv says which files are whole, TidyInv    *)
(* which are there at all; OrderInv what a DELETE has read is worth.       *)
(***************************************************************************)
EXTENDS ClipLifecycle, TLAPS

Flushed == {"flushed", "stripped", "plain", "upset"}
Blamed == overlapped \cup spoiled

LockInv ==
    \A c \in Clips : upload[c] = "flushed" \/ task[c] \in Flushed => lock = c

PhaseInv ==
    \A c \in Clips :
        /\ row[c] = "none" <=> upload[c] # "done"
        /\ row[c] = "none" <=> task[c] = "none"
        /\ row[c] = "processing" => task[c] \in ActiveTask \cup {"lost"}
        /\ row[c] \in {"ready", "failed"} => task[c] = "ended"
        /\ task[c] \in Flushed => row[c] = "processing"
        /\ row[c] = "ready" => "normalized" \in keys[c]
        /\ row[c] = "failed" => keys[c] \subseteq {"normalized"}
        /\ row[c] \notin {"ready", "failed"} => keys[c] = {}

\* What is whole, and what happens to the original.
FileInv ==
    \A c \in Clips :
        /\ upload[c] \in {"saved", "flushed"} => file[c]["original"] = "whole"
        /\ upload[c] = "rejected" => file[c]["original"] = "missing"
        /\ upload[c] = "done" => file[c]["original"] =
              IF c \in scrubbed THEN "missing" ELSE "whole"
        /\ row[c] = "none" => c \notin scrubbed
        /\ row[c] = "deleted" => c \in scrubbed
        /\ c \notin scrubbed =>
              /\ task[c] \in Flushed \cup {"stored"} => file[c]["normalized"] = "whole"
              /\ task[c] = "stripped" => file[c]["filmstrip"] = "whole"
              /\ \A k \in keys[c] : file[c][k] = "whole"

\* Which derived files may be there.
TidyInv ==
    \A c \in Clips :
        /\ task[c] \in {"none", "queued", "normalizing"} =>
              \A k \in Derived : file[c][k] = "missing"
        /\ task[c] \in {"saving", "stored", "flushed"} => file[c]["filmstrip"] = "missing"
        /\ c \notin spoiled =>
              /\ task[c] = "failing" => \A k \in Derived : file[c][k] = "missing"
              /\ task[c] \in {"plain", "upset"} => file[c]["filmstrip"] = "missing"
              /\ task[c] \in {"ended", "lost"} /\ Exists(c) =>
                    \A k \in Derived \ keys[c] : file[c][k] = "missing"
        /\ row[c] = "deleted" /\ c \notin Blamed =>
              /\ task[c] \notin ActiveTask
              /\ \A k \in Kinds : file[c][k] = "missing"

OrderInv ==
    \A d \in Deleters :
        deleter[d] # "idle" =>
            /\ order[d].id \in Clips
            /\ row[order[d].id] # "none"
            /\ order[d].id \notin overlapped =>
                  /\ task[order[d].id] \notin ActiveTask
                  /\ Exists(order[d].id) => order[d].keys = keys[order[d].id]
            /\ deleter[d] = "unlinked" =>
                  /\ order[d].id \in scrubbed
                  /\ order[d].id \notin Blamed =>
                        \A k \in Derived : file[order[d].id][k] = "missing"

\* A clip that a POST has read as ready is ready still, or gone.
PickInv == composer = "read" => \A c \in picked : row[c] \in {"ready", "deleted"}

IInv == TypeOK /\ LockInv /\ PhaseInv /\ FileInv /\ TidyInv /\ OrderInv
        /\ SnapshotsHold /\ PickInv

-----------------------------------------------------------------------------
(* Type correctness. *)

LEMMA InvInit == Init => IInv
  BY RestartsAssumption DEF Init, IInv, TypeOK, LockInv, PhaseInv, FileInv,
     TidyInv, OrderInv,
     SnapshotsHold, PickInv, TaskStates, ActiveTask, Statuses, Flushed, Blamed, Kinds, Derived, Nothing,
     Exists

LEMMA TypeStep ==
    ASSUME TypeOK, OrderInv, [Next]_vars
    PROVE  TypeOK'
<1> USE DEF TypeOK, TaskStates, Kinds, Derived, Statuses, history, dbVars,
    requestVars, composeVars
<1>1. ASSUME NEW c \in Clips, UploadStep(c) PROVE TypeOK'
  <2>1. CASE SaveUpload(c)
    BY <1>1, <2>1 DEF SaveUpload, Store
  <2>2. CASE UploadSaved(c)
    BY <1>1, <2>2 DEF UploadSaved, Store
  <2>3. CASE RejectUpload(c)
    BY <1>1, <2>3 DEF RejectUpload, Store
  <2>4. CASE UploadBreaks(c)
    BY <1>1, <2>4 DEF UploadBreaks
  <2>5. CASE InsertClip(c)
    BY <1>1, <2>5 DEF InsertClip, Free
  <2>6. CASE CommitClip(c)
    BY <1>1, <2>6 DEF CommitClip
  <2> QED  BY <1>1, <2>1, <2>2, <2>3, <2>4, <2>5, <2>6 DEF UploadStep
<1>2. ASSUME NEW c \in Clips, TaskStep(c) PROVE TypeOK'
  <2>1. CASE LoadClip(c)
    BY <1>2, <2>1 DEF LoadClip, Goto, Exists
  <2>2. CASE SaveNormalized(c)
    BY <1>2, <2>2 DEF SaveNormalized, Goto, Store
  <2>3. CASE NormalizedSaved(c)
    BY <1>2, <2>3 DEF NormalizedSaved, Goto, Store
  <2>4. CASE NormalizeFails(c)
    BY <1>2, <2>4 DEF NormalizeFails, Goto
  <2>5. CASE FlushReady(c)
    BY <1>2, <2>5 DEF FlushReady, Goto, Exists, Free
  <2>6. CASE FlushReadyFails(c)
    BY <1>2, <2>6 DEF FlushReadyFails, Goto, Exists
  <2>7. CASE MakeFilmstrip(c)
    BY <1>2, <2>7 DEF MakeFilmstrip, Goto, Store
  <2>8. CASE FilmstripFails(c)
    <3>1. file' \in [Clips -> [Kinds -> {"missing", "partial", "whole"}]]
      <4>1. CASE UNCHANGED file
        BY <4>1
      <4>2. CASE Store(c, "filmstrip", "partial")
        BY <4>2 DEF Store
      <4> QED  BY <1>2, <2>8, <4>1, <4>2 DEF FilmstripFails
    <3>2. spoiled' \subseteq Clips
      BY <1>2, <2>8 DEF FilmstripFails
    <3> QED  BY <1>2, <2>8, <3>1, <3>2 DEF FilmstripFails, Goto
  <2>9. CASE CommitReady(c)
    BY <1>2, <2>9 DEF CommitReady, Goto
  <2>10. CASE CommitReadyFails(c)
    BY <1>2, <2>10 DEF CommitReadyFails, Goto
  <2>11. CASE MarkFailed(c)
    BY <1>2, <2>11 DEF MarkFailed, Goto, Exists, Free
  <2>12. CASE MarkFailedFails(c)
    BY <1>2, <2>12 DEF MarkFailedFails, Goto, Exists
  <2>13. CASE LoadFails(c)
    BY <1>2, <2>13 DEF LoadFails, Goto, Exists
  <2>14. CASE FilmstripRaises(c)
    BY <1>2, <2>14 DEF FilmstripRaises, Goto
  <2>15. CASE CommitUpset(c)
    BY <1>2, <2>15 DEF CommitUpset, Goto
  <2> QED  BY <1>2, <2>1, <2>2, <2>3, <2>4, <2>5, <2>6, <2>7, <2>8, <2>9, <2>10,
              <2>11, <2>12, <2>13, <2>14, <2>15 DEF TaskStep
<1>3. ASSUME NEW d \in Deleters, DeleteStep(d) PROVE TypeOK'
  <2>1. ASSUME NEW c \in Clips, DeleteRead(d, c) PROVE TypeOK'
    BY <2>1 DEF DeleteRead, Exists
  <2>2. CASE DeleteFiles(d)
    BY <1>3, <2>2 DEF DeleteFiles, OrderInv
  <2>3. CASE DeleteRow(d)
    BY <1>3, <2>3 DEF DeleteRow, Free, Nothing, OrderInv
  <2>4. CASE DeleteRowFails(d)
    BY <1>3, <2>4 DEF DeleteRowFails, Nothing
  <2> QED  BY <1>3, <2>1, <2>2, <2>3, <2>4 DEF DeleteStep
<1>4. CASE ComposeStep
  BY <1>4 DEF ComposeStep, ReadReady, InsertSnapshots, InsertFails, CommitSnapshots,
     CommitSnapshotsFails, Free, Exists
<1>5. CASE Unreference
  BY <1>5 DEF Unreference, Free
<1>6. CASE Restart
  BY <1>6, RestartsAssumption DEF Restart, Nothing, ActiveTask
<1>7. CASE UNCHANGED vars
  BY <1>7 DEF vars
<1> QED  BY <1>1, <1>2, <1>3, <1>4, <1>5, <1>6, <1>7 DEF Next

-----------------------------------------------------------------------------
(* The invariant. *)

\* A handler that has flushed keeps the write lock until it commits or ends.
LEMMA LockStep ==
    ASSUME TypeOK, LockInv, PhaseInv, [Next]_vars
    PROVE  LockInv'
<1> USE DEF TypeOK, LockInv, Flushed, TaskStates, history, dbVars, requestVars, composeVars
<1>1. ASSUME NEW c \in Clips, UploadStep(c) PROVE LockInv'
  <2>1. CASE SaveUpload(c)
    BY <1>1, <2>1 DEF SaveUpload, Store
  <2>2. CASE UploadSaved(c)
    BY <1>1, <2>2 DEF UploadSaved, Store
  <2>3. CASE RejectUpload(c)
    BY <1>1, <2>3 DEF RejectUpload, Store
  <2>4. CASE UploadBreaks(c)
    BY <1>1, <2>4 DEF UploadBreaks, PhaseInv
  <2>5. CASE InsertClip(c)
    BY NoClipAssumption, <1>1, <2>5 DEF InsertClip, Free
  <2>6. CASE CommitClip(c)
    BY <1>1, <2>6 DEF CommitClip
  <2> QED  BY <1>1, <2>1, <2>2, <2>3, <2>4, <2>5, <2>6 DEF UploadStep
<1>2. ASSUME NEW c \in Clips, TaskStep(c) PROVE LockInv'
  <2>1. CASE LoadClip(c)
    BY <1>2, <2>1 DEF LoadClip, Goto, Exists
  <2>2. CASE SaveNormalized(c)
    BY <1>2, <2>2 DEF SaveNormalized, Goto, Store
  <2>3. CASE NormalizedSaved(c)
    BY <1>2, <2>3 DEF NormalizedSaved, Goto, Store
  <2>4. CASE NormalizeFails(c)
    BY <1>2, <2>4 DEF NormalizeFails, Goto
  <2>5. CASE FlushReady(c)
    BY NoClipAssumption, <1>2, <2>5 DEF FlushReady, Goto, Exists, Free
  <2>6. CASE FlushReadyFails(c)
    BY <1>2, <2>6 DEF FlushReadyFails, Goto, Exists
  <2>7. CASE MakeFilmstrip(c)
    BY <1>2, <2>7 DEF MakeFilmstrip, Goto, Store
  <2>8. CASE FilmstripFails(c)
    BY <1>2, <2>8 DEF FilmstripFails, Goto, Store
  <2>9. CASE CommitReady(c)
    BY <1>2, <2>9 DEF CommitReady, Goto, PhaseInv
  <2>10. CASE CommitReadyFails(c)
    BY <1>2, <2>10 DEF CommitReadyFails, Goto, PhaseInv
  <2>11. CASE MarkFailed(c)
    BY <1>2, <2>11 DEF MarkFailed, Goto, Exists, Free
  <2>12. CASE MarkFailedFails(c)
    BY <1>2, <2>12 DEF MarkFailedFails, Goto, Exists
  <2>13. CASE LoadFails(c)
    BY <1>2, <2>13 DEF LoadFails, Goto, Exists
  <2>14. CASE FilmstripRaises(c)
    BY <1>2, <2>14 DEF FilmstripRaises, Goto
  <2>15. CASE CommitUpset(c)
    BY <1>2, <2>15 DEF CommitUpset, Goto, PhaseInv
  <2> QED  BY <1>2, <2>1, <2>2, <2>3, <2>4, <2>5, <2>6, <2>7, <2>8, <2>9, <2>10,
              <2>11, <2>12, <2>13, <2>14, <2>15 DEF TaskStep
<1>3. ASSUME NEW d \in Deleters, DeleteStep(d) PROVE LockInv'
  <2>1. ASSUME NEW c \in Clips, DeleteRead(d, c) PROVE LockInv'
    BY <2>1 DEF DeleteRead, Exists
  <2>2. CASE DeleteFiles(d)
    BY <1>3, <2>2 DEF DeleteFiles
  <2>3. CASE DeleteRow(d)
    BY <1>3, <2>3 DEF DeleteRow, Free, Nothing
  <2>4. CASE DeleteRowFails(d)
    BY <1>3, <2>4 DEF DeleteRowFails, Nothing
  <2> QED  BY <1>3, <2>1, <2>2, <2>3, <2>4 DEF DeleteStep
<1>4. CASE ComposeStep
  BY <1>4 DEF ComposeStep, ReadReady, InsertSnapshots, InsertFails, CommitSnapshots,
     CommitSnapshotsFails, Free, Exists
<1>5. CASE Unreference
  BY <1>5 DEF Unreference, Free
<1>6. CASE Restart
  BY <1>6 DEF Restart, Nothing, ActiveTask
<1>7. CASE UNCHANGED vars
  BY <1>7 DEF vars
<1> QED  BY <1>1, <1>2, <1>3, <1>4, <1>5, <1>6, <1>7 DEF Next

\* No row goes while its task is between flush and commit: DELETE needs the lock.
LEMMA PhaseStep ==
    ASSUME TypeOK, LockInv, PhaseInv, OrderInv, [Next]_vars
    PROVE  PhaseInv'
<1> USE DEF TypeOK, PhaseInv, Flushed, TaskStates, ActiveTask, Statuses, Derived,
    history, dbVars, requestVars, composeVars
<1>1. ASSUME NEW c \in Clips, UploadStep(c) PROVE PhaseInv'
  <2>1. CASE SaveUpload(c)
    BY <1>1, <2>1 DEF SaveUpload, Store
  <2>2. CASE UploadSaved(c)
    BY <1>1, <2>2 DEF UploadSaved, Store
  <2>3. CASE RejectUpload(c)
    BY <1>1, <2>3 DEF RejectUpload, Store
  <2>4. CASE UploadBreaks(c)
    BY <1>1, <2>4 DEF UploadBreaks
  <2>5. CASE InsertClip(c)
    BY <1>1, <2>5 DEF InsertClip, Free
  <2>6. CASE CommitClip(c)
    BY <1>1, <2>6 DEF CommitClip
  <2> QED  BY <1>1, <2>1, <2>2, <2>3, <2>4, <2>5, <2>6 DEF UploadStep
<1>2. ASSUME NEW c \in Clips, TaskStep(c) PROVE PhaseInv'
  <2>1. CASE LoadClip(c)
    BY <1>2, <2>1 DEF LoadClip, Goto, Exists
  <2>2. CASE SaveNormalized(c)
    BY <1>2, <2>2 DEF SaveNormalized, Goto, Store
  <2>3. CASE NormalizedSaved(c)
    BY <1>2, <2>3 DEF NormalizedSaved, Goto, Store
  <2>4. CASE NormalizeFails(c)
    BY <1>2, <2>4 DEF NormalizeFails, Goto
  <2>5. CASE FlushReady(c)
    BY <1>2, <2>5 DEF FlushReady, Goto, Exists, Free
  <2>6. CASE FlushReadyFails(c)
    BY <1>2, <2>6 DEF FlushReadyFails, Goto, Exists
  <2>7. CASE MakeFilmstrip(c)
    BY <1>2, <2>7 DEF MakeFilmstrip, Goto, Store
  <2>8. CASE FilmstripFails(c)
    BY <1>2, <2>8 DEF FilmstripFails, Goto, Store
  <2>9. CASE CommitReady(c)
    BY <1>2, <2>9 DEF CommitReady, Goto
  <2>10. CASE CommitReadyFails(c)
    BY <1>2, <2>10 DEF CommitReadyFails, Goto
  <2>11. CASE MarkFailed(c)
    BY <1>2, <2>11 DEF MarkFailed, Goto, Exists, Free
  <2>12. CASE MarkFailedFails(c)
    BY <1>2, <2>12 DEF MarkFailedFails, Goto, Exists
  <2>13. CASE LoadFails(c)
    BY <1>2, <2>13 DEF LoadFails, Goto, Exists
  <2>14. CASE FilmstripRaises(c)
    BY <1>2, <2>14 DEF FilmstripRaises, Goto
  <2>15. CASE CommitUpset(c)
    BY <1>2, <2>15 DEF CommitUpset, Goto
  <2> QED  BY <1>2, <2>1, <2>2, <2>3, <2>4, <2>5, <2>6, <2>7, <2>8, <2>9, <2>10,
              <2>11, <2>12, <2>13, <2>14, <2>15 DEF TaskStep
<1>3. ASSUME NEW d \in Deleters, DeleteStep(d) PROVE PhaseInv'
  <2>1. ASSUME NEW c \in Clips, DeleteRead(d, c) PROVE PhaseInv'
    BY <2>1 DEF DeleteRead, Exists
  <2>2. CASE DeleteFiles(d)
    BY <1>3, <2>2 DEF DeleteFiles
  <2>3. CASE DeleteRow(d)
    BY NoClipAssumption, <1>3, <2>3 DEF DeleteRow, Free, Nothing, LockInv, OrderInv
  <2>4. CASE DeleteRowFails(d)
    BY <1>3, <2>4 DEF DeleteRowFails, Nothing
  <2> QED  BY <1>3, <2>1, <2>2, <2>3, <2>4 DEF DeleteStep
<1>4. CASE ComposeStep
  BY <1>4 DEF ComposeStep, ReadReady, InsertSnapshots, InsertFails, CommitSnapshots,
     CommitSnapshotsFails, Free, Exists
<1>5. CASE Unreference
  BY <1>5 DEF Unreference, Free
<1>6. CASE Restart
  BY <1>6 DEF Restart, Nothing
<1>7. CASE UNCHANGED vars
  BY <1>7 DEF vars
<1> QED  BY <1>1, <1>2, <1>3, <1>4, <1>5, <1>6, <1>7 DEF Next

\* Files that are named stay whole until a DELETE unlinks them.
LEMMA FileStep ==
    ASSUME TypeOK, LockInv, PhaseInv, FileInv, OrderInv, [Next]_vars
    PROVE  FileInv'
<1> USE DEF TypeOK, FileInv, Flushed, Kinds, Derived, history, dbVars, requestVars, composeVars
<1>1. ASSUME NEW c \in Clips, UploadStep(c) PROVE FileInv'
  <2>1. CASE SaveUpload(c)
    BY <1>1, <2>1 DEF SaveUpload, Store, PhaseInv, Statuses, TaskStates, ActiveTask
  <2>2. CASE UploadSaved(c)
    BY <1>1, <2>2 DEF UploadSaved, Store, PhaseInv, Statuses, TaskStates, ActiveTask
  <2>3. CASE RejectUpload(c)
    BY <1>1, <2>3 DEF RejectUpload, Store, PhaseInv, Statuses, TaskStates,
       ActiveTask
  <2>4. CASE UploadBreaks(c)
    BY <1>1, <2>4 DEF UploadBreaks, PhaseInv, Statuses, TaskStates, ActiveTask
  <2>5. CASE InsertClip(c)
    BY <1>1, <2>5 DEF InsertClip, Free, PhaseInv, Statuses, TaskStates, ActiveTask
  <2>6. CASE CommitClip(c)
    BY <1>1, <2>6 DEF CommitClip, PhaseInv, Statuses, TaskStates, ActiveTask
  <2> QED  BY <1>1, <2>1, <2>2, <2>3, <2>4, <2>5, <2>6 DEF UploadStep
<1>2. ASSUME NEW c \in Clips, TaskStep(c) PROVE FileInv'
  <2>1. CASE LoadClip(c)
    BY <1>2, <2>1 DEF LoadClip, Goto, Exists, PhaseInv, Statuses, TaskStates,
       ActiveTask
  <2>2. CASE SaveNormalized(c)
    BY <1>2, <2>2 DEF SaveNormalized, Goto, Store, PhaseInv, Statuses, TaskStates,
       ActiveTask
  <2>3. CASE NormalizedSaved(c)
    BY <1>2, <2>3 DEF NormalizedSaved, Goto, Store, PhaseInv, Statuses,
       TaskStates, ActiveTask
  <2>4. CASE NormalizeFails(c)
    BY <1>2, <2>4 DEF NormalizeFails, Goto, PhaseInv, Statuses, TaskStates,
       ActiveTask
  <2>5. CASE FlushReady(c)
    BY <1>2, <2>5 DEF FlushReady, Goto, Exists, Free, PhaseInv, Statuses,
       TaskStates, ActiveTask
  <2>6. CASE FlushReadyFails(c)
    BY <1>2, <2>6 DEF FlushReadyFails, Goto, Exists, PhaseInv, Statuses,
       TaskStates, ActiveTask
  <2>7. CASE MakeFilmstrip(c)
    BY <1>2, <2>7 DEF MakeFilmstrip, Goto, Store, PhaseInv, Statuses, TaskStates,
       ActiveTask
  <2>8. CASE FilmstripFails(c)
    BY <1>2, <2>8 DEF FilmstripFails, Goto, Store, PhaseInv, Statuses, TaskStates,
       ActiveTask
  <2>9. CASE CommitReady(c)
    BY <1>2, <2>9 DEF CommitReady, Goto, PhaseInv, Statuses, TaskStates, ActiveTask
  <2>10. CASE CommitReadyFails(c)
    BY <1>2, <2>10 DEF CommitReadyFails, Goto, PhaseInv, Statuses, TaskStates,
       ActiveTask
  <2>11. CASE MarkFailed(c)
    BY <1>2, <2>11 DEF MarkFailed, Goto, Exists, Free, PhaseInv, Statuses,
       TaskStates, ActiveTask
  <2>12. CASE MarkFailedFails(c)
    BY <1>2, <2>12 DEF MarkFailedFails, Goto, Exists, PhaseInv, Statuses,
       TaskStates, ActiveTask
  <2>13. CASE LoadFails(c)
    BY <1>2, <2>13 DEF LoadFails, Goto, Exists, PhaseInv, Statuses, TaskStates,
       ActiveTask
  <2>14. CASE FilmstripRaises(c)
    BY <1>2, <2>14 DEF FilmstripRaises, Goto, PhaseInv, Statuses, TaskStates,
       ActiveTask
  <2>15. CASE CommitUpset(c)
    BY <1>2, <2>15 DEF CommitUpset, Goto, PhaseInv, Statuses, TaskStates, ActiveTask
  <2> QED  BY <1>2, <2>1, <2>2, <2>3, <2>4, <2>5, <2>6, <2>7, <2>8, <2>9, <2>10,
              <2>11, <2>12, <2>13, <2>14, <2>15 DEF TaskStep
<1>3. ASSUME NEW d \in Deleters, DeleteStep(d) PROVE FileInv'
  <2>1. ASSUME NEW c \in Clips, DeleteRead(d, c) PROVE FileInv'
    BY <2>1 DEF DeleteRead, Exists
  <2>2. CASE DeleteFiles(d)
    BY <1>3, <2>2 DEF DeleteFiles, OrderInv, PhaseInv
  <2>3. CASE DeleteRow(d)
    BY <1>3, <2>3 DEF DeleteRow, Free, Nothing, OrderInv, PhaseInv
  <2>4. CASE DeleteRowFails(d)
    BY <1>3, <2>4 DEF DeleteRowFails, Nothing
  <2> QED  BY <1>3, <2>1, <2>2, <2>3, <2>4 DEF DeleteStep
<1>4. CASE ComposeStep
  BY <1>4 DEF ComposeStep, ReadReady, InsertSnapshots, InsertFails, CommitSnapshots,
     CommitSnapshotsFails, Free, Exists
<1>5. CASE Unreference
  BY <1>5 DEF Unreference, Free
<1>6. CASE Restart
  BY <1>6 DEF Restart, Nothing, ActiveTask, TaskStates, PhaseInv
<1>7. CASE UNCHANGED vars
  BY <1>7 DEF vars
<1> QED  BY <1>1, <1>2, <1>3, <1>4, <1>5, <1>6, <1>7 DEF Next

\* A ready row stays ready while a snapshot refers to it: DELETE needs the lock,
\* and is refused once the snapshot is there.
LEMMA SnapshotStep ==
    ASSUME TypeOK, PhaseInv, SnapshotsHold, PickInv, [Next]_vars
    PROVE  SnapshotsHold' /\ PickInv'
<1> USE DEF TypeOK, SnapshotsHold, PickInv, history, dbVars, requestVars, composeVars
<1>1. ASSUME NEW c \in Clips, UploadStep(c) PROVE SnapshotsHold' /\ PickInv'
  <2>1. CASE SaveUpload(c)
    BY <1>1, <2>1 DEF SaveUpload, Store
  <2>2. CASE UploadSaved(c)
    BY <1>1, <2>2 DEF UploadSaved, Store
  <2>3. CASE RejectUpload(c)
    BY <1>1, <2>3 DEF RejectUpload, Store
  <2>4. CASE UploadBreaks(c)
    BY <1>1, <2>4 DEF UploadBreaks
  <2>5. CASE InsertClip(c)
    BY <1>1, <2>5 DEF InsertClip, Free
  <2>6. CASE CommitClip(c)
    BY <1>1, <2>6 DEF CommitClip, PhaseInv, Flushed, Statuses
  <2> QED  BY <1>1, <2>1, <2>2, <2>3, <2>4, <2>5, <2>6 DEF UploadStep
<1>2. ASSUME NEW c \in Clips, TaskStep(c) PROVE SnapshotsHold' /\ PickInv'
  <2>1. CASE LoadClip(c)
    BY <1>2, <2>1 DEF LoadClip, Goto, Exists
  <2>2. CASE SaveNormalized(c)
    BY <1>2, <2>2 DEF SaveNormalized, Goto, Store
  <2>3. CASE NormalizedSaved(c)
    BY <1>2, <2>3 DEF NormalizedSaved, Goto, Store
  <2>4. CASE NormalizeFails(c)
    BY <1>2, <2>4 DEF NormalizeFails, Goto
  <2>5. CASE FlushReady(c)
    BY <1>2, <2>5 DEF FlushReady, Goto, Exists, Free
  <2>6. CASE FlushReadyFails(c)
    BY <1>2, <2>6 DEF FlushReadyFails, Goto, Exists
  <2>7. CASE MakeFilmstrip(c)
    BY <1>2, <2>7 DEF MakeFilmstrip, Goto, Store
  <2>8. CASE FilmstripFails(c)
    BY <1>2, <2>8 DEF FilmstripFails, Goto, Store
  <2>9. CASE CommitReady(c)
    BY <1>2, <2>9 DEF CommitReady, Goto, PhaseInv, Flushed, Statuses
  <2>10. CASE CommitReadyFails(c)
    BY <1>2, <2>10 DEF CommitReadyFails, Goto
  <2>11. CASE MarkFailed(c)
    BY <1>2, <2>11 DEF MarkFailed, Goto, Exists, Free, PhaseInv, Flushed, Statuses
  <2>12. CASE MarkFailedFails(c)
    BY <1>2, <2>12 DEF MarkFailedFails, Goto, Exists
  <2>13. CASE LoadFails(c)
    BY <1>2, <2>13 DEF LoadFails, Goto, Exists
  <2>14. CASE FilmstripRaises(c)
    BY <1>2, <2>14 DEF FilmstripRaises, Goto
  <2>15. CASE CommitUpset(c)
    BY <1>2, <2>15 DEF CommitUpset, Goto, PhaseInv, Flushed, Statuses
  <2> QED  BY <1>2, <2>1, <2>2, <2>3, <2>4, <2>5, <2>6, <2>7, <2>8, <2>9, <2>10,
              <2>11, <2>12, <2>13, <2>14, <2>15 DEF TaskStep
<1>3. ASSUME NEW d \in Deleters, DeleteStep(d) PROVE SnapshotsHold' /\ PickInv'
  <2>1. ASSUME NEW c \in Clips, DeleteRead(d, c) PROVE SnapshotsHold' /\ PickInv'
    BY <2>1 DEF DeleteRead, Exists
  <2>2. CASE DeleteFiles(d)
    BY <1>3, <2>2 DEF DeleteFiles
  <2>3. CASE DeleteRow(d)
    BY <1>3, <2>3 DEF DeleteRow, Free, Nothing
  <2>4. CASE DeleteRowFails(d)
    BY <1>3, <2>4 DEF DeleteRowFails, Nothing
  <2> QED  BY <1>3, <2>1, <2>2, <2>3, <2>4 DEF DeleteStep
<1>4. CASE ComposeStep
  BY <1>4 DEF ComposeStep, ReadReady, InsertSnapshots, InsertFails, CommitSnapshots,
     CommitSnapshotsFails, Free, Exists, Statuses
<1>5. CASE Unreference
  BY <1>5 DEF Unreference, Free
<1>6. CASE Restart
  BY <1>6 DEF Restart, Nothing
<1>7. CASE UNCHANGED vars
  BY <1>7 DEF vars
<1> QED  BY <1>1, <1>2, <1>3, <1>4, <1>5, <1>6, <1>7 DEF Next

\* What a DELETE has read of a clip that is not in process stays as it was.
LEMMA OrderStep ==
    ASSUME TypeOK, PhaseInv, FileInv, TidyInv, OrderInv, [Next]_vars
    PROVE  OrderInv'
<1> USE DEF TypeOK, OrderInv, Blamed, ActiveTask, TaskStates, Statuses, Exists,
    history, dbVars, requestVars, composeVars
<1>1. ASSUME NEW c \in Clips, UploadStep(c) PROVE OrderInv'
  <2>1. CASE SaveUpload(c)
    BY <1>1, <2>1 DEF SaveUpload, Store, PhaseInv
  <2>2. CASE UploadSaved(c)
    BY <1>1, <2>2 DEF UploadSaved, Store, PhaseInv
  <2>3. CASE RejectUpload(c)
    BY <1>1, <2>3 DEF RejectUpload, Store
  <2>4. CASE UploadBreaks(c)
    BY <1>1, <2>4 DEF UploadBreaks
  <2>5. CASE InsertClip(c)
    BY <1>1, <2>5 DEF InsertClip, Free
  <2>6. CASE CommitClip(c)
    BY <1>1, <2>6 DEF CommitClip, PhaseInv
  <2> QED  BY <1>1, <2>1, <2>2, <2>3, <2>4, <2>5, <2>6 DEF UploadStep
<1>2. ASSUME NEW c \in Clips, TaskStep(c) PROVE OrderInv'
  <2>1. CASE LoadClip(c)
    BY <1>2, <2>1 DEF LoadClip, Goto, Exists
  <2>2. CASE SaveNormalized(c)
    BY <1>2, <2>2 DEF SaveNormalized, Goto, Store
  <2>3. CASE NormalizedSaved(c)
    BY <1>2, <2>3 DEF NormalizedSaved, Goto, Store
  <2>4. CASE NormalizeFails(c)
    BY <1>2, <2>4 DEF NormalizeFails, Goto
  <2>5. CASE FlushReady(c)
    BY <1>2, <2>5 DEF FlushReady, Goto, Exists, Free
  <2>6. CASE FlushReadyFails(c)
    BY <1>2, <2>6 DEF FlushReadyFails, Goto, Exists
  <2>7. CASE MakeFilmstrip(c)
    BY <1>2, <2>7 DEF MakeFilmstrip, Goto, Store
  <2>8. CASE FilmstripFails(c)
    BY <1>2, <2>8 DEF FilmstripFails, Goto, Store
  <2>9. CASE CommitReady(c)
    BY <1>2, <2>9 DEF CommitReady, Goto
  <2>10. CASE CommitReadyFails(c)
    BY <1>2, <2>10 DEF CommitReadyFails, Goto
  <2>11. CASE MarkFailed(c)
    BY <1>2, <2>11 DEF MarkFailed, Goto, Exists, Free
  <2>12. CASE MarkFailedFails(c)
    BY <1>2, <2>12 DEF MarkFailedFails, Goto, Exists
  <2>13. CASE LoadFails(c)
    BY <1>2, <2>13 DEF LoadFails, Goto, Exists
  <2>14. CASE FilmstripRaises(c)
    BY <1>2, <2>14 DEF FilmstripRaises, Goto
  <2>15. CASE CommitUpset(c)
    BY <1>2, <2>15 DEF CommitUpset, Goto
  <2> QED  BY <1>2, <2>1, <2>2, <2>3, <2>4, <2>5, <2>6, <2>7, <2>8, <2>9, <2>10,
              <2>11, <2>12, <2>13, <2>14, <2>15 DEF TaskStep
<1>3. ASSUME NEW d \in Deleters, DeleteStep(d) PROVE OrderInv'
  <2>1. ASSUME NEW c \in Clips, DeleteRead(d, c) PROVE OrderInv'
    BY <2>1 DEF DeleteRead, Exists
  <2>2. CASE DeleteFiles(d)
    <3> DEFINE c == order[d].id
    <3>1. c \in Clips /\ row[c] # "none"
      BY <1>3, <2>2 DEF DeleteFiles
    <3>2. \A b \in Clips, k \in Kinds : file'[b][k] = "missing" \/ file'[b][k] = file[b][k]
      BY <1>3, <2>2 DEF DeleteFiles
    <3>3. \A k \in order[d].keys : file'[c][k] = "missing"
      BY <1>3, <2>2, <3>1 DEF DeleteFiles, Kinds
    <3>4. c \notin Blamed => \A k \in Derived : file'[c][k] = "missing"
      <4> SUFFICES ASSUME c \notin Blamed, NEW k \in Derived PROVE file'[c][k] = "missing"
        OBVIOUS
      <4>1. k \in Kinds
        BY DEF Kinds
      <4>2. CASE row[c] = "deleted"
        BY <3>1, <3>2, <4>1, <4>2 DEF TidyInv
      <4>3. CASE row[c] # "deleted"
        <5>1. Exists(c) /\ order[d].keys = keys[c] /\ task[c] \in {"ended", "lost"}
          BY <1>3, <2>2, <3>1, <4>3 DEF DeleteFiles, PhaseInv
        <5>2. k \notin keys[c] => file[c][k] = "missing"
          BY <3>1, <5>1 DEF TidyInv
        <5> QED  BY <3>1, <3>2, <3>3, <4>1, <5>1, <5>2
      <4> QED  BY <4>2, <4>3
    <3>5. /\ deleter' = [deleter EXCEPT ![d] = "unlinked"]
          /\ scrubbed' = scrubbed \cup {c}
          /\ UNCHANGED <<row, keys, task, order, overlapped, spoiled>>
      BY <1>3, <2>2 DEF DeleteFiles
    <3>6. \A k \in Derived : k \in Kinds
      BY DEF Kinds
    <3> HIDE DEF c
    <3>7. ASSUME NEW e \in Deleters, deleter'[e] = "unlinked", order[e].id \notin Blamed
          PROVE  \A k \in Derived : file'[order[e].id][k] = "missing"
      <4>1. CASE e = d
        BY <3>4, <3>7, <4>1 DEF c
      <4>2. CASE e # d
        BY <3>2, <3>5, <3>6, <3>7, <4>2
      <4> QED  BY <4>1, <4>2
    <3>8. ASSUME NEW e \in Deleters, deleter'[e] # "idle"
          PROVE  deleter[e] # "idle" /\ (deleter'[e] = "unlinked" => order[e].id \in scrubbed')
      BY <1>3, <2>2, <3>5, <3>8 DEF DeleteFiles, c
    <3> QED  BY <3>5, <3>7, <3>8
  <2>3. CASE DeleteRow(d)
    BY <1>3, <2>3 DEF DeleteRow, Free, Nothing
  <2>4. CASE DeleteRowFails(d)
    BY <1>3, <2>4 DEF DeleteRowFails, Nothing
  <2> QED  BY <1>3, <2>1, <2>2, <2>3, <2>4 DEF DeleteStep
<1>4. CASE ComposeStep
  BY <1>4 DEF ComposeStep, ReadReady, InsertSnapshots, InsertFails, CommitSnapshots,
     CommitSnapshotsFails, Free, Exists
<1>5. CASE Unreference
  BY <1>5 DEF Unreference, Free
<1>6. CASE Restart
  BY <1>6 DEF Restart, Nothing
<1>7. CASE UNCHANGED vars
  BY <1>7 DEF vars
<1> QED  BY <1>1, <1>2, <1>3, <1>4, <1>5, <1>6, <1>7 DEF Next

\* Without blame, a clip has no derived file its row does not name.
LEMMA TidyStep ==
    ASSUME TypeOK, LockInv, PhaseInv, FileInv, TidyInv, OrderInv, [Next]_vars
    PROVE  TidyInv'
<1> USE DEF TypeOK, TidyInv, Blamed, ActiveTask, TaskStates, Statuses, Derived,
    Kinds, Exists, history, dbVars, requestVars, composeVars
<1>1. ASSUME NEW c \in Clips, UploadStep(c) PROVE TidyInv'
  <2>1. CASE SaveUpload(c)
    BY <1>1, <2>1 DEF SaveUpload, Store, PhaseInv
  <2>2. CASE UploadSaved(c)
    BY <1>1, <2>2 DEF UploadSaved, Store, PhaseInv
  <2>3. CASE RejectUpload(c)
    BY <1>1, <2>3 DEF RejectUpload, Store, PhaseInv
  <2>4. CASE UploadBreaks(c)
    BY <1>1, <2>4 DEF UploadBreaks
  <2>5. CASE InsertClip(c)
    BY <1>1, <2>5 DEF InsertClip, Free
  <2>6. CASE CommitClip(c)
    BY <1>1, <2>6 DEF CommitClip, PhaseInv
  <2> QED  BY <1>1, <2>1, <2>2, <2>3, <2>4, <2>5, <2>6 DEF UploadStep
<1>2. ASSUME NEW c \in Clips, TaskStep(c) PROVE TidyInv'
  <2>1. CASE LoadClip(c)
    BY <1>2, <2>1 DEF LoadClip, Goto, Exists, PhaseInv
  <2>2. CASE SaveNormalized(c)
    BY <1>2, <2>2 DEF SaveNormalized, Goto, Store
  <2>3. CASE NormalizedSaved(c)
    BY <1>2, <2>3 DEF NormalizedSaved, Goto, Store
  <2>4. CASE NormalizeFails(c)
    BY <1>2, <2>4 DEF NormalizeFails, Goto
  <2>5. CASE FlushReady(c)
    BY <1>2, <2>5 DEF FlushReady, Goto, Exists, Free
  <2>6. CASE FlushReadyFails(c)
    BY <1>2, <2>6 DEF FlushReadyFails, Goto, Exists
  <2>7. CASE MakeFilmstrip(c)
    BY <1>2, <2>7 DEF MakeFilmstrip, Goto, Store
  <2>8. CASE FilmstripFails(c)
    BY <1>2, <2>8 DEF FilmstripFails, Goto, Store
  <2>9. CASE CommitReady(c)
    BY <1>2, <2>9 DEF CommitReady, Goto, PhaseInv
  <2>10. CASE CommitReadyFails(c)
    BY <1>2, <2>10 DEF CommitReadyFails, Goto
  <2>11. CASE MarkFailed(c)
    BY <1>2, <2>11 DEF MarkFailed, Goto, Exists, Free, PhaseInv
  <2>12. CASE MarkFailedFails(c)
    BY <1>2, <2>12 DEF MarkFailedFails, Goto, Exists
  <2>13. CASE LoadFails(c)
    BY <1>2, <2>13 DEF LoadFails, Goto, Exists, PhaseInv
  <2>14. CASE FilmstripRaises(c)
    BY <1>2, <2>14 DEF FilmstripRaises, Goto, PhaseInv
  <2>15. CASE CommitUpset(c)
    BY <1>2, <2>15 DEF CommitUpset, Goto, PhaseInv
  <2> QED  BY <1>2, <2>1, <2>2, <2>3, <2>4, <2>5, <2>6, <2>7, <2>8, <2>9, <2>10,
              <2>11, <2>12, <2>13, <2>14, <2>15 DEF TaskStep
<1>3. ASSUME NEW d \in Deleters, DeleteStep(d) PROVE TidyInv'
  <2>1. ASSUME NEW c \in Clips, DeleteRead(d, c) PROVE TidyInv'
    BY <2>1 DEF DeleteRead, Exists
  <2>2. CASE DeleteFiles(d)
    BY <1>3, <2>2 DEF DeleteFiles, OrderInv
  <2>3. CASE DeleteRow(d)
    BY <1>3, <2>3 DEF DeleteRow, Free, Nothing, OrderInv, FileInv, PhaseInv
  <2>4. CASE DeleteRowFails(d)
    BY <1>3, <2>4 DEF DeleteRowFails, Nothing
  <2> QED  BY <1>3, <2>1, <2>2, <2>3, <2>4 DEF DeleteStep
<1>4. CASE ComposeStep
  BY <1>4 DEF ComposeStep, ReadReady, InsertSnapshots, InsertFails, CommitSnapshots,
     CommitSnapshotsFails, Free, Exists
<1>5. CASE Unreference
  BY <1>5 DEF Unreference, Free
<1>6. CASE Restart
  BY <1>6 DEF Restart, Nothing
<1>7. CASE UNCHANGED vars
  BY <1>7 DEF vars
<1> QED  BY <1>1, <1>2, <1>3, <1>4, <1>5, <1>6, <1>7 DEF Next

-----------------------------------------------------------------------------
(* The theorems. *)

LEMMA ClipInvariant == Spec => []IInv
<1>1. IInv /\ [Next]_vars => IInv'
  BY TypeStep, LockStep, PhaseStep, FileStep, SnapshotStep, OrderStep, TidyStep
     DEF IInv
<1> QED  BY InvInit, <1>1, PTL DEF Spec

\* Every variable has its type.
THEOREM ClipTypes == Spec => []TypeOK
<1>1. IInv => TypeOK
  BY DEF IInv
<1> QED  BY ClipInvariant, <1>1, PTL

\* What a row names is in storage and whole, whatever fails and whenever the
\* service stops, until a DELETE unlinks it.
THEOREM NamedFiles == Spec => []NamedFilesExist
<1>1. IInv => NamedFilesExist
  <2> SUFFICES ASSUME IInv, NEW c \in Clips
               PROVE  /\ row[c] = "ready" => "normalized" \in keys[c]
                      /\ Exists(c) /\ c \notin scrubbed =>
                            \A k \in keys[c] \cup {"original"} : file[c][k] = "whole"
    BY DEF NamedFilesExist
  <2>1. Exists(c) => upload[c] = "done"
    BY DEF IInv, PhaseInv, Exists, Statuses
  <2> QED  BY <2>1 DEF IInv, PhaseInv, FileInv
<1> QED  BY ClipInvariant, <1>1, PTL

\* A refused upload and a deleted clip leave no original behind.
THEOREM Cleanup == Spec => []OriginalsCleanedUp
<1>1. IInv => OriginalsCleanedUp
  BY DEF IInv, PhaseInv, FileInv, OriginalsCleanedUp
<1> QED  BY ClipInvariant, <1>1, PTL

\* Files that outlive their row have one of two causes.
THEOREM OrphansHaveACause == Spec => []OrphansExplained
<1>1. IInv => OrphansExplained
  <2> SUFFICES ASSUME IInv, NEW c \in Clips, row[c] = "deleted",
                      c \notin overlapped \cup spoiled
               PROVE  file[c] = [k \in Kinds |-> "missing"]
    BY DEF OrphansExplained
  <2>1. \A k \in Kinds : file[c][k] = "missing"
    BY DEF IInv, TidyInv, Blamed
  <2>2. file[c] \in [Kinds -> {"missing", "partial", "whole"}]
    BY DEF IInv, TypeOK
  <2> QED  BY <2>1, <2>2
<1> QED  BY ClipInvariant, <1>1, PTL

\* A snapshot refers to a row that is there and ready, wherever a DELETE comes
\* between create's read, its inserts and the router's commit: the foreign key
\* refuses one or the other, and no write of process_clip comes after ready.
THEOREM SnapshotsAreReady == Spec => []SnapshotsHold
<1>1. IInv => SnapshotsHold
  BY DEF IInv
<1> QED  BY ClipInvariant, <1>1, PTL

\* A clip in process has a task, or had one that was stopped: by a restart, by a
\* temporary file that cannot be made, by a lock not had or by a failing commit.
THEOREM UnsettledOnlyWhenLost == Spec => []UnsettledIsLost
<1>1. IInv => UnsettledIsLost
  BY DEF IInv, PhaseInv, UnsettledIsLost
<1> QED  BY ClipInvariant, <1>1, PTL

=============================================================================
