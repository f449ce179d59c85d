-------------------------- MODULE SoundtrackProofs --------------------------
(***************************************************************************)
(* Proofs about SoundtrackLifecycle for any number of soundtracks,         *)
(* compilations, deletes and restarts, and whatever goes wrong.            *)
(*                                                                         *)
(* The argument: UploadInv ties the file and the row of a soundtrack to    *)
(* where its upload is; OrderInv says that a DELETE works on a row that    *)
(* has existed and, past the unlink, on a missing file; UseInv that a      *)
(* compilation names a soundtrack that has existed, and still exists while *)
(* the compilation does.                                                   *)
(***************************************************************************)
EXTENDS SoundtrackLifecycle, TLAPS

UploadInv ==
    \A s \in Sounds :
        /\ upload[s] # "done" <=> row[s] = "none"
        /\ upload[s] \in {"none", "rejected"} => file[s] = "missing"
        /\ upload[s] \in {"saved", "flushed"} => file[s] = "whole"
        /\ row[s] = "listed" => file[s] = "whole" \/ s \in scrubbed
        /\ row[s] = "deleted" => file[s] = "missing" /\ s \in scrubbed

OrderInv ==
    \A d \in Deleters :
        /\ deleter[d] # "idle" =>
              target[d] \in Sounds /\ row[target[d]] \in {"listed", "deleted"}
        /\ deleter[d] = "unlinked" =>
              file[target[d]] = "missing" /\ target[d] \in scrubbed

UseInv ==
    \A c \in Compilations :
        /\ job[c] # "none" =>
              uses[c] \in Sounds /\ row[uses[c]] \in {"listed", "deleted"}
        /\ comp[c] # "none" <=> job[c] \notin {"none", "checked"}
        /\ comp[c] = "live" => row[uses[c]] = "listed"
        /\ c \in dropping => comp[c] # "none"
        /\ job[c] = "failed" => uses[c] \in scrubbed

IInv == TypeOK /\ UploadInv /\ OrderInv /\ UseInv

-----------------------------------------------------------------------------
LEMMA InvInit == Init => IInv
  BY RestartsAssumption, NoSoundAssumption
  DEF Init, IInv, TypeOK, UploadInv, OrderInv, UseInv, UploadStates, JobStates

LEMMA TypeStep == TypeOK /\ OrderInv /\ [Next]_vars => TypeOK'
<1> SUFFICES ASSUME TypeOK, OrderInv, [Next]_vars PROVE TypeOK'
  OBVIOUS
<1> USE DEF TypeOK, UploadStates, ActiveUpload, JobStates, ActiveJob, soundVars, deleteVars, compVars
<1>1. ASSUME NEW s \in Sounds, UploadStep(s) PROVE TypeOK'
  <2>1. CASE SaveUpload(s)
    BY <1>1, <2>1 DEF SaveUpload
  <2>2. CASE UploadSaved(s)
    BY <1>1, <2>2 DEF UploadSaved
  <2>3. CASE RejectUpload(s)
    BY <1>1, <2>3 DEF RejectUpload
  <2>4. CASE UploadBreaks(s)
    BY <1>1, <2>4 DEF UploadBreaks
  <2>5. CASE InsertSound(s)
    BY <1>1, <2>5 DEF InsertSound
  <2>6. CASE CommitSound(s)
    BY <1>1, <2>6 DEF CommitSound
  <2> QED  BY <1>1, <2>1, <2>2, <2>3, <2>4, <2>5, <2>6 DEF UploadStep
<1>2. ASSUME NEW d \in Deleters, DeleteStep(d) PROVE TypeOK'
  <2>1. ASSUME NEW s \in Sounds, DeleteRead(d, s) PROVE TypeOK'
    BY <1>2, <2>1 DEF DeleteRead
  <2>2. CASE DeleteFile(d)
    BY <1>2, <2>2 DEF DeleteFile, OrderInv
  <2>3. CASE DeleteRow(d)
    BY <1>2, <2>3 DEF DeleteRow, OrderInv
  <2>4. CASE DeleteRowFails(d)
    BY <1>2, <2>4 DEF DeleteRowFails
  <2> QED  BY <1>2, <2>1, <2>2, <2>3, <2>4 DEF DeleteStep
<1>3. ASSUME NEW c \in Compilations, CompilationStep(c) PROVE TypeOK'
  <2>1. ASSUME NEW s \in Sounds, PostCheck(c, s) PROVE TypeOK'
    BY <1>3, <2>1 DEF PostCheck
  <2>2. CASE PostCommit(c)
    BY <1>3, <2>2 DEF PostCommit
  <2>3. CASE PostFails(c)
    BY <1>3, <2>3 DEF PostFails
  <2>4. CASE Start(c)
    BY <1>3, <2>4 DEF Start
  <2>5. CASE Resolve(c)
    BY <1>3, <2>5 DEF Resolve
  <2>6. CASE Mix(c)
    BY <1>3, <2>6 DEF Mix
  <2>7. CASE DropRead(c)
    BY <1>3, <2>7 DEF DropRead
  <2>8. CASE DropCommit(c)
    BY <1>3, <2>8 DEF DropCommit
  <2> QED  BY <1>3, <2>1, <2>2, <2>3, <2>4, <2>5, <2>6, <2>7, <2>8 DEF CompilationStep
<1>4. CASE Restart
  BY <1>4, RestartsAssumption DEF Restart
<1>5. CASE UNCHANGED vars
  BY <1>5 DEF vars
<1> QED  BY <1>1, <1>2, <1>3, <1>4, <1>5 DEF Next

LEMMA UploadInvStep == TypeOK /\ OrderInv /\ UploadInv /\ [Next]_vars => UploadInv'
<1> SUFFICES ASSUME TypeOK, OrderInv, UploadInv, [Next]_vars PROVE UploadInv'
  OBVIOUS
<1> USE DEF TypeOK, UploadInv, UploadStates, ActiveUpload, soundVars, deleteVars, compVars
<1>1. ASSUME NEW s \in Sounds, UploadStep(s) PROVE UploadInv'
  <2>1. CASE SaveUpload(s)
    BY <1>1, <2>1 DEF SaveUpload
  <2>2. CASE UploadSaved(s)
    BY <1>1, <2>2 DEF UploadSaved
  <2>3. CASE RejectUpload(s)
    BY <1>1, <2>3 DEF RejectUpload
  <2>4. CASE UploadBreaks(s)
    BY <1>1, <2>4 DEF UploadBreaks
  <2>5. CASE InsertSound(s)
    BY <1>1, <2>5 DEF InsertSound
  <2>6. CASE CommitSound(s)
    BY <1>1, <2>6 DEF CommitSound
  <2> QED  BY <1>1, <2>1, <2>2, <2>3, <2>4, <2>5, <2>6 DEF UploadStep
<1>2. ASSUME NEW d \in Deleters, DeleteStep(d) PROVE UploadInv'
  <2>1. ASSUME NEW s \in Sounds, DeleteRead(d, s) PROVE UploadInv'
    BY <1>2, <2>1 DEF DeleteRead
  <2>2. CASE DeleteFile(d)
    BY <1>2, <2>2 DEF DeleteFile, OrderInv
  <2>3. CASE DeleteRow(d)
    BY <1>2, <2>3 DEF DeleteRow, OrderInv
  <2>4. CASE DeleteRowFails(d)
    BY <1>2, <2>4 DEF DeleteRowFails
  <2> QED  BY <1>2, <2>1, <2>2, <2>3, <2>4 DEF DeleteStep
<1>3. ASSUME NEW c \in Compilations, CompilationStep(c) PROVE UploadInv'
  <2>1. ASSUME NEW s \in Sounds, PostCheck(c, s) PROVE UploadInv'
    BY <1>3, <2>1 DEF PostCheck
  <2>2. CASE PostCommit(c)
    BY <1>3, <2>2 DEF PostCommit
  <2>3. CASE PostFails(c)
    BY <1>3, <2>3 DEF PostFails
  <2>4. CASE Start(c)
    BY <1>3, <2>4 DEF Start
  <2>5. CASE Resolve(c)
    BY <1>3, <2>5 DEF Resolve
  <2>6. CASE Mix(c)
    BY <1>3, <2>6 DEF Mix
  <2>7. CASE DropRead(c)
    BY <1>3, <2>7 DEF DropRead
  <2>8. CASE DropCommit(c)
    BY <1>3, <2>8 DEF DropCommit
  <2> QED  BY <1>3, <2>1, <2>2, <2>3, <2>4, <2>5, <2>6, <2>7, <2>8 DEF CompilationStep
<1>4. CASE Restart
  BY <1>4 DEF Restart
<1>5. CASE UNCHANGED vars
  BY <1>5 DEF vars
<1> QED  BY <1>1, <1>2, <1>3, <1>4, <1>5 DEF Next

LEMMA OrderStep == TypeOK /\ UploadInv /\ OrderInv /\ [Next]_vars => OrderInv'
<1> SUFFICES ASSUME TypeOK, UploadInv, OrderInv, [Next]_vars PROVE OrderInv'
  OBVIOUS
<1> USE DEF TypeOK, OrderInv, UploadStates, ActiveUpload, soundVars, deleteVars, compVars
<1>1. ASSUME NEW s \in Sounds, UploadStep(s) PROVE OrderInv'
  <2>1. CASE SaveUpload(s)
    BY <1>1, <2>1 DEF SaveUpload, UploadInv
  <2>2. CASE UploadSaved(s)
    BY <1>1, <2>2 DEF UploadSaved, UploadInv
  <2>3. CASE RejectUpload(s)
    BY <1>1, <2>3 DEF RejectUpload
  <2>4. CASE UploadBreaks(s)
    BY <1>1, <2>4 DEF UploadBreaks
  <2>5. CASE InsertSound(s)
    BY <1>1, <2>5 DEF InsertSound
  <2>6. CASE CommitSound(s)
    BY <1>1, <2>6 DEF CommitSound, UploadInv
  <2> QED  BY <1>1, <2>1, <2>2, <2>3, <2>4, <2>5, <2>6 DEF UploadStep
<1>2. ASSUME NEW d \in Deleters, DeleteStep(d) PROVE OrderInv'
  <2>1. ASSUME NEW s \in Sounds, DeleteRead(d, s) PROVE OrderInv'
    BY <1>2, <2>1 DEF DeleteRead
  <2>2. CASE DeleteFile(d)
    BY <1>2, <2>2 DEF DeleteFile
  <2>3. CASE DeleteRow(d)
    BY <1>2, <2>3 DEF DeleteRow
  <2>4. CASE DeleteRowFails(d)
    BY <1>2, <2>4 DEF DeleteRowFails
  <2> QED  BY <1>2, <2>1, <2>2, <2>3, <2>4 DEF DeleteStep
<1>3. ASSUME NEW c \in Compilations, CompilationStep(c) PROVE OrderInv'
  <2>1. ASSUME NEW s \in Sounds, PostCheck(c, s) PROVE OrderInv'
    BY <1>3, <2>1 DEF PostCheck
  <2>2. CASE PostCommit(c)
    BY <1>3, <2>2 DEF PostCommit
  <2>3. CASE PostFails(c)
    BY <1>3, <2>3 DEF PostFails
  <2>4. CASE Start(c)
    BY <1>3, <2>4 DEF Start
  <2>5. CASE Resolve(c)
    BY <1>3, <2>5 DEF Resolve
  <2>6. CASE Mix(c)
    BY <1>3, <2>6 DEF Mix
  <2>7. CASE DropRead(c)
    BY <1>3, <2>7 DEF DropRead
  <2>8. CASE DropCommit(c)
    BY <1>3, <2>8 DEF DropCommit
  <2> QED  BY <1>3, <2>1, <2>2, <2>3, <2>4, <2>5, <2>6, <2>7, <2>8 DEF CompilationStep
<1>4. CASE Restart
  BY <1>4 DEF Restart
<1>5. CASE UNCHANGED vars
  BY <1>5 DEF vars
<1> QED  BY <1>1, <1>2, <1>3, <1>4, <1>5 DEF Next

LEMMA UseStep == IInv /\ [Next]_vars => UseInv'
<1> SUFFICES ASSUME TypeOK, UploadInv, OrderInv, UseInv, [Next]_vars PROVE UseInv'
  BY DEF IInv
<1> USE DEF UseInv, UploadStates, ActiveUpload, JobStates, ActiveJob, soundVars, deleteVars, compVars
<1>1. ASSUME NEW s \in Sounds, UploadStep(s) PROVE UseInv'
  <2>1. CASE SaveUpload(s)
    BY <1>1, <2>1 DEF SaveUpload, TypeOK
  <2>2. CASE UploadSaved(s)
    BY <1>1, <2>2 DEF UploadSaved, TypeOK
  <2>3. CASE RejectUpload(s)
    BY <1>1, <2>3 DEF RejectUpload, TypeOK
  <2>4. CASE UploadBreaks(s)
    BY <1>1, <2>4 DEF UploadBreaks, TypeOK
  <2>5. CASE InsertSound(s)
    BY <1>1, <2>5 DEF InsertSound, TypeOK
  <2>6. CASE CommitSound(s)
    BY <1>1, <2>6 DEF CommitSound, TypeOK, UploadInv
  <2> QED  BY <1>1, <2>1, <2>2, <2>3, <2>4, <2>5, <2>6 DEF UploadStep
<1>2. ASSUME NEW d \in Deleters, DeleteStep(d) PROVE UseInv'
  <2>1. ASSUME NEW s \in Sounds, DeleteRead(d, s) PROVE UseInv'
    BY <1>2, <2>1 DEF DeleteRead, TypeOK
  <2>2. CASE DeleteFile(d)
    BY <1>2, <2>2 DEF DeleteFile, TypeOK, OrderInv
  <2>3. CASE DeleteRow(d)
    BY <1>2, <2>3 DEF DeleteRow, TypeOK, OrderInv, Referenced
  <2>4. CASE DeleteRowFails(d)
    BY <1>2, <2>4 DEF DeleteRowFails, TypeOK
  <2> QED  BY <1>2, <2>1, <2>2, <2>3, <2>4 DEF DeleteStep
<1>3. ASSUME NEW c \in Compilations, CompilationStep(c) PROVE UseInv'
  <2>1. ASSUME NEW s \in Sounds, PostCheck(c, s) PROVE UseInv'
    BY <1>3, <2>1 DEF PostCheck, TypeOK
  <2>2. CASE PostCommit(c)
    BY <1>3, <2>2 DEF PostCommit, TypeOK
  <2>3. CASE PostFails(c)
    BY <1>3, <2>3 DEF PostFails, TypeOK
  <2>4. CASE Start(c)
    BY <1>3, <2>4 DEF Start, TypeOK
  <2>5. CASE Resolve(c)
    BY <1>3, <2>5 DEF Resolve, TypeOK, UploadInv
  <2>6. CASE Mix(c)
    BY <1>3, <2>6 DEF Mix, TypeOK, UploadInv
  <2>7. CASE DropRead(c)
    BY <1>3, <2>7 DEF DropRead, TypeOK
  <2>8. CASE DropCommit(c)
    BY <1>3, <2>8 DEF DropCommit, TypeOK
  <2> QED  BY <1>3, <2>1, <2>2, <2>3, <2>4, <2>5, <2>6, <2>7, <2>8 DEF CompilationStep
<1>4. CASE Restart
  BY <1>4 DEF Restart, TypeOK
<1>5. CASE UNCHANGED vars
  BY <1>5 DEF vars
<1> QED  BY <1>1, <1>2, <1>3, <1>4, <1>5 DEF Next

LEMMA Invariance == Spec => []IInv
<1>1. IInv /\ [Next]_vars => IInv'
  BY TypeStep, UploadInvStep, OrderStep, UseStep DEF IInv
<1> QED  BY InvInit, <1>1, PTL DEF Spec

-----------------------------------------------------------------------------
\* Every variable of SoundtrackLifecycle has its type.
THEOREM SoundTypes == Spec => []TypeOK
<1>1. IInv => TypeOK
  BY DEF IInv
<1> QED  BY Invariance, <1>1, PTL

\* What is listed can be played, unless a DELETE has unlinked it.
THEOREM ListedCanBePlayed == Spec => []ListedSounds
<1>1. IInv => ListedSounds
  BY DEF IInv, UploadInv, ListedSounds
<1> QED  BY Invariance, <1>1, PTL

\* Files without a row are those of unfinished or broken uploads.
THEOREM OrphansHaveACause == Spec => []OrphansExplained
<1>1. IInv => OrphansExplained
  BY DEF IInv, TypeOK, UploadInv, OrphansExplained, UploadStates, ActiveUpload
<1> QED  BY Invariance, <1>1, PTL

\* A compilation keeps its soundtrack's row, and a render misses the file only
\* after a DELETE of it.
THEOREM CompilationsKeepTheirSound == Spec => []SoundsHeld
<1>1. IInv => SoundsHeld
  BY DEF IInv, UseInv, SoundsHeld
<1> QED  BY Invariance, <1>1, PTL

=============================================================================
