-------------------------- MODULE CompilationProofs --------------------------
(***************************************************************************)
(* Proofs about CompilationLifecycle for any number of compilations, of    *)
(* deletes and of restarts, and whatever goes wrong.                       *)
(*                                                                         *)
(* The argument: PhaseInv ties the row of a compilation to where its       *)
(* request and its task are; OrderInv, what a DELETE has read to what the  *)
(* row can have become since; FileInv, the output file to both.            *)
(***************************************************************************)
EXTENDS CompilationLifecycle, TLAPS

Rendering == {"marked", "rendering", "saving", "saved"}

PhaseInv ==
    \A c \in Compilations :
        /\ request[c] \in {"idle", "checked"} => row[c] = "none" /\ task[c] = "none"
        /\ request[c] = "done" => row[c] # "none"
        /\ task[c] \in {"queued", "loaded"} => row[c] \in {"pending", "deleted"}
        /\ task[c] \in Rendering \cup {"failing"} => row[c] \in {"running", "deleted"}
        /\ row[c] = "pending" => task[c] \in {"queued", "loaded", "lost"}
        /\ row[c] = "running" => task[c] \in Rendering \cup {"failing", "lost"}
        /\ row[c] = "complete" <=> key[c]
        /\ key[c] => task[c] = "ended"

\* An order names a compilation that has existed and was not running when read.
OrderInv ==
    \A d \in Deleters :
        deleter[d] # "idle" =>
            /\ order[d] \in Orders
            /\ order[d].status # "running"
            /\ row[order[d].id] # "none"
            /\ order[d].key <=> order[d].status = "complete"
            /\ order[d].key => task[order[d].id] = "ended"

FileInv ==
    /\ \A c \in Compilations :
        /\ row[c] = "complete" => file[c] = "whole" \/ c \in scrubbed
        /\ task[c] = "saved" => file[c] = "whole"
        /\ row[c] \in {"none", "pending"} => file[c] = "missing"
        /\ task[c] \in {"queued", "loaded", "marked", "rendering"} => file[c] = "missing"
        /\ task[c] = "failing" \/ row[c] = "failed" =>
              file[c] = "missing" \/ c \in spoiled
        /\ row[c] = "deleted" =>
              /\ task[c] \in Rendering => c \in stale
              /\ file[c] = "missing" \/ c \in stale \cup spoiled
    /\ \A d \in Deleters :
        deleter[d] = "unlinked" /\ order[d].key => file[order[d].id] = "missing"

IInv == TypeOK /\ PhaseInv /\ OrderInv /\ FileInv

-----------------------------------------------------------------------------
(* Type correctness. *)

LEMMA InvInit == Init => IInv
  BY RestartsAssumption DEF Init, IInv, TypeOK, PhaseInv, OrderInv, FileInv, TaskStates,
     Rendering, Statuses

LEMMA TypeStep == TypeOK /\ OrderInv /\ [Next]_vars => TypeOK'
<1> SUFFICES ASSUME TypeOK, OrderInv, [Next]_vars PROVE TypeOK'
  OBVIOUS
<1> USE DEF TypeOK, TaskStates, history
<1>1. ASSUME NEW c \in Compilations, CreateStep(c) \/ TaskStep(c) PROVE TypeOK'
  <2>1. CASE CreateCheck(c)
    BY <1>1, <2>1 DEF CreateCheck
  <2>2. CASE CreateCommit(c)
    BY <1>1, <2>2 DEF CreateCommit, Statuses
  <2>3. CASE CreateFails(c)
    BY <1>1, <2>3 DEF CreateFails
  <2>4. CASE Load(c)
    BY <1>1, <2>4 DEF Load, Goto
  <2>5. CASE MarkRunning(c)
    BY <1>1, <2>5 DEF MarkRunning, Goto, Statuses
  <2>6. CASE MarkRunningFails(c)
    BY <1>1, <2>6 DEF MarkRunningFails, Goto, Exists
  <2>7. CASE MakeTempFile(c)
    BY <1>1, <2>7 DEF MakeTempFile, Goto
  <2>8. CASE MakeTempFileFails(c)
    BY <1>1, <2>8 DEF MakeTempFileFails, Goto, Exists
  <2>9. CASE SaveStart(c)
    BY <1>1, <2>9 DEF SaveStart, Goto
  <2>10. CASE SaveDone(c)
    BY <1>1, <2>10 DEF SaveDone, Goto
  <2>11. CASE CommitComplete(c)
    BY <1>1, <2>11 DEF CommitComplete, Goto, Statuses
  <2>12. CASE RenderFails(c)
    BY <1>1, <2>12 DEF RenderFails, Goto
  <2>13. CASE RecordFailure(c)
    BY <1>1, <2>13 DEF RecordFailure, Goto, Statuses
  <2>14. CASE RecordFailureFails(c)
    BY <1>1, <2>14 DEF RecordFailureFails, Goto
  <2> QED  BY <1>1, <2>1, <2>2, <2>3, <2>4, <2>5, <2>6, <2>7, <2>8, <2>9, <2>10, <2>11, <2>12, <2>13, <2>14 DEF CreateStep, TaskStep
<1>2. ASSUME NEW d \in Deleters, DeleteStep(d) PROVE TypeOK'
  <2>1. ASSUME NEW c \in Compilations, DeleteRead(d, c) PROVE TypeOK'
    BY <2>1 DEF DeleteRead, Orders, Statuses
  <2>2. CASE DeleteUnlink(d)
    BY <1>2, <2>2 DEF DeleteUnlink, OrderInv, Orders
  <2>3. CASE DeleteCommit(d)
    BY <1>2, <2>3 DEF DeleteCommit, OrderInv, Orders
  <2>4. CASE DeleteFails(d)
    BY <1>2, <2>4 DEF DeleteFails
  <2> QED  BY <1>2, <2>1, <2>2, <2>3, <2>4 DEF DeleteStep
<1>3. CASE Restart
  BY <1>3, RestartsAssumption DEF Restart
<1>4. CASE UNCHANGED vars
  BY <1>4 DEF vars
<1> QED  BY <1>1, <1>2, <1>3, <1>4 DEF Next

LEMMA PhaseStep == TypeOK /\ PhaseInv /\ OrderInv /\ [Next]_vars => PhaseInv'
<1> SUFFICES ASSUME TypeOK, PhaseInv, OrderInv, [Next]_vars PROVE PhaseInv'
  OBVIOUS
<1> USE DEF TypeOK, PhaseInv, Rendering, history
<1>1. ASSUME NEW c \in Compilations, CreateStep(c) \/ TaskStep(c) PROVE PhaseInv'
  <2>1. CASE CreateCheck(c)
    BY <1>1, <2>1 DEF CreateCheck
  <2>2. CASE CreateCommit(c)
    BY <1>1, <2>2 DEF CreateCommit
  <2>3. CASE CreateFails(c)
    BY <1>1, <2>3 DEF CreateFails
  <2>4. CASE Load(c)
    BY <1>1, <2>4 DEF Load, Goto, Exists, Statuses
  <2>5. CASE MarkRunning(c)
    BY <1>1, <2>5 DEF MarkRunning, Goto, Exists, Statuses
  <2>6. CASE MarkRunningFails(c)
    BY <1>1, <2>6 DEF MarkRunningFails, Goto, Exists
  <2>7. CASE MakeTempFile(c)
    BY <1>1, <2>7 DEF MakeTempFile, Goto
  <2>8. CASE MakeTempFileFails(c)
    BY <1>1, <2>8 DEF MakeTempFileFails, Goto, Exists
  <2>9. CASE SaveStart(c)
    BY <1>1, <2>9 DEF SaveStart, Goto
  <2>10. CASE SaveDone(c)
    BY <1>1, <2>10 DEF SaveDone, Goto
  <2>11. CASE CommitComplete(c)
    BY <1>1, <2>11 DEF CommitComplete, Goto, Exists, Statuses
  <2>12. CASE RenderFails(c)
    BY <1>1, <2>12 DEF RenderFails, Goto
  <2>13. CASE RecordFailure(c)
    BY <1>1, <2>13 DEF RecordFailure, Goto, Exists, Statuses
  <2>14. CASE RecordFailureFails(c)
    BY <1>1, <2>14 DEF RecordFailureFails, Goto
  <2> QED  BY <1>1, <2>1, <2>2, <2>3, <2>4, <2>5, <2>6, <2>7, <2>8, <2>9, <2>10, <2>11, <2>12, <2>13, <2>14 DEF CreateStep, TaskStep
<1>2. ASSUME NEW d \in Deleters, DeleteStep(d) PROVE PhaseInv'
  <2>1. ASSUME NEW c \in Compilations, DeleteRead(d, c) PROVE PhaseInv'
    BY <2>1 DEF DeleteRead
  <2>2. CASE DeleteUnlink(d)
    BY <1>2, <2>2 DEF DeleteUnlink
  <2>3. CASE DeleteCommit(d)
    BY <1>2, <2>3 DEF DeleteCommit, OrderInv, Orders
  <2>4. CASE DeleteFails(d)
    BY <1>2, <2>4 DEF DeleteFails
  <2> QED  BY <1>2, <2>1, <2>2, <2>3, <2>4 DEF DeleteStep
<1>3. CASE Restart
  BY <1>3 DEF Restart, ActiveTask, TaskStates
<1>4. CASE UNCHANGED vars
  BY <1>4 DEF vars
<1> QED  BY <1>1, <1>2, <1>3, <1>4 DEF Next

LEMMA OrderStep == TypeOK /\ PhaseInv /\ OrderInv /\ [Next]_vars => OrderInv'
<1> SUFFICES ASSUME TypeOK, PhaseInv, OrderInv, [Next]_vars PROVE OrderInv'
  OBVIOUS
<1> USE DEF TypeOK, OrderInv, Orders, history
<1>1. ASSUME NEW c \in Compilations, CreateStep(c) \/ TaskStep(c) PROVE OrderInv'
  <2>1. CASE CreateCheck(c)
    BY <1>1, <2>1 DEF CreateCheck
  <2>2. CASE CreateCommit(c)
    BY <1>1, <2>2 DEF CreateCommit, PhaseInv
  <2>3. CASE CreateFails(c)
    BY <1>1, <2>3 DEF CreateFails
  <2>4. CASE Load(c)
    BY <1>1, <2>4 DEF Load, Goto
  <2>5. CASE MarkRunning(c)
    BY <1>1, <2>5 DEF MarkRunning, Goto
  <2>6. CASE MarkRunningFails(c)
    BY <1>1, <2>6 DEF MarkRunningFails, Goto, Exists
  <2>7. CASE MakeTempFile(c)
    BY <1>1, <2>7 DEF MakeTempFile, Goto
  <2>8. CASE MakeTempFileFails(c)
    BY <1>1, <2>8 DEF MakeTempFileFails, Goto, Exists
  <2>9. CASE SaveStart(c)
    BY <1>1, <2>9 DEF SaveStart, Goto
  <2>10. CASE SaveDone(c)
    BY <1>1, <2>10 DEF SaveDone, Goto
  <2>11. CASE CommitComplete(c)
    BY <1>1, <2>11 DEF CommitComplete, Goto
  <2>12. CASE RenderFails(c)
    BY <1>1, <2>12 DEF RenderFails, Goto
  <2>13. CASE RecordFailure(c)
    BY <1>1, <2>13 DEF RecordFailure, Goto
  <2>14. CASE RecordFailureFails(c)
    BY <1>1, <2>14 DEF RecordFailureFails, Goto
  <2> QED  BY <1>1, <2>1, <2>2, <2>3, <2>4, <2>5, <2>6, <2>7, <2>8, <2>9, <2>10, <2>11, <2>12, <2>13, <2>14 DEF CreateStep, TaskStep
<1>2. ASSUME NEW d \in Deleters, DeleteStep(d) PROVE OrderInv'
  <2>1. ASSUME NEW c \in Compilations, DeleteRead(d, c) PROVE OrderInv'
    BY <2>1 DEF DeleteRead, PhaseInv, Statuses
  <2>2. CASE DeleteUnlink(d)
    BY <1>2, <2>2 DEF DeleteUnlink
  <2>3. CASE DeleteCommit(d)
    BY <1>2, <2>3 DEF DeleteCommit
  <2>4. CASE DeleteFails(d)
    BY <1>2, <2>4 DEF DeleteFails
  <2> QED  BY <1>2, <2>1, <2>2, <2>3, <2>4 DEF DeleteStep
<1>3. CASE Restart
  BY <1>3 DEF Restart
<1>4. CASE UNCHANGED vars
  BY <1>4 DEF vars
<1> QED  BY <1>1, <1>2, <1>3, <1>4 DEF Next

LEMMA FileStep == IInv /\ [Next]_vars => FileInv'
<1> SUFFICES ASSUME TypeOK, PhaseInv, OrderInv, FileInv, [Next]_vars PROVE FileInv'
  BY DEF IInv
<1> USE DEF TypeOK, FileInv, Rendering, history
<1>1. ASSUME NEW c \in Compilations, CreateStep(c) \/ TaskStep(c) PROVE FileInv'
  <2>1. CASE CreateCheck(c)
    BY <1>1, <2>1 DEF CreateCheck
  <2>2. CASE CreateCommit(c)
    BY <1>1, <2>2 DEF CreateCommit, PhaseInv
  <2>3. CASE CreateFails(c)
    BY <1>1, <2>3 DEF CreateFails
  <2>4. CASE Load(c)
    BY <1>1, <2>4 DEF Load, Goto
  <2>5. CASE MarkRunning(c)
    BY <1>1, <2>5 DEF MarkRunning, Goto
  <2>6. CASE MarkRunningFails(c)
    BY <1>1, <2>6 DEF MarkRunningFails, Goto, Exists
  <2>7. CASE MakeTempFile(c)
    BY <1>1, <2>7 DEF MakeTempFile, Goto
  <2>8. CASE MakeTempFileFails(c)
    BY <1>1, <2>8 DEF MakeTempFileFails, Goto, Exists
  <2>9. CASE SaveStart(c)
    <3>1. \A d \in Deleters : deleter[d] = "unlinked" /\ order[d].key => order[d].id # c
      BY <2>9 DEF SaveStart, OrderInv
    <3>2. row[c] \in {"running", "deleted"} /\ (row[c] = "deleted" => c \in stale)
      BY <2>9 DEF SaveStart, PhaseInv
    <3> QED  BY <1>1, <2>9, <3>1, <3>2 DEF SaveStart, Goto, OrderInv, Orders
  <2>10. CASE SaveDone(c)
    <3>1. \A d \in Deleters : deleter[d] = "unlinked" /\ order[d].key => order[d].id # c
      BY <2>10 DEF SaveDone, OrderInv
    <3>2. row[c] \in {"running", "deleted"} /\ (row[c] = "deleted" => c \in stale)
      BY <2>10 DEF SaveDone, PhaseInv
    <3> QED  BY <1>1, <2>10, <3>1, <3>2 DEF SaveDone, Goto, OrderInv, Orders
  <2>11. CASE CommitComplete(c)
    BY <1>1, <2>11 DEF CommitComplete, Goto
  <2>12. CASE RenderFails(c)
    BY <1>1, <2>12 DEF RenderFails, Goto
  <2>13. CASE RecordFailure(c)
    BY <1>1, <2>13 DEF RecordFailure, Goto
  <2>14. CASE RecordFailureFails(c)
    BY <1>1, <2>14 DEF RecordFailureFails, Goto
  <2> QED  BY <1>1, <2>1, <2>2, <2>3, <2>4, <2>5, <2>6, <2>7, <2>8, <2>9, <2>10, <2>11, <2>12, <2>13, <2>14 DEF CreateStep, TaskStep
<1>2. ASSUME NEW d \in Deleters, DeleteStep(d) PROVE FileInv'
  <2>1. ASSUME NEW c \in Compilations, DeleteRead(d, c) PROVE FileInv'
    BY <2>1 DEF DeleteRead
  <2>2. CASE DeleteUnlink(d)
    <3> DEFINE c == order[d].id
    <3>1. c \in Compilations
      BY <1>2, <2>2 DEF DeleteUnlink, OrderInv, Orders
    <3>2. order[d].key => task[c] = "ended"
      BY <1>2, <2>2 DEF DeleteUnlink, OrderInv
    <3>3. CASE order[d].key
      <4>1. file' = [file EXCEPT ![c] = "missing"] /\ scrubbed' = scrubbed \cup {c}
        BY <2>2, <3>3 DEF DeleteUnlink
      <4> QED  BY <1>2, <2>2, <3>1, <3>2, <3>3, <4>1 DEF DeleteUnlink, OrderInv, Orders
    <3>4. CASE ~order[d].key
      BY <1>2, <2>2, <3>1, <3>4 DEF DeleteUnlink
    <3> QED  BY <3>3, <3>4
  <2>3. CASE DeleteCommit(d)
    <3>1. PICK c \in Compilations : c = order[d].id
      BY <1>2, <2>3 DEF DeleteCommit, OrderInv, Orders
    <3>2. row' = [row EXCEPT ![c] = "deleted"] /\ key' = [key EXCEPT ![c] = FALSE]
      BY <2>3, <3>1 DEF DeleteCommit
    <3>3. stale' = IF row[c] \in {order[d].status, "deleted"} THEN stale ELSE stale \cup {c}
      BY <2>3, <3>1 DEF DeleteCommit
    <3>4. UNCHANGED <<file, task, scrubbed, spoiled>>
      BY <2>3 DEF DeleteCommit
    <3>5. row[c] # "none" /\ order[d].status # "running"
      BY <1>2, <2>3, <3>1 DEF DeleteCommit, OrderInv
    <3>6. order[d].status = "complete" => file[c] = "missing"
      BY <1>2, <2>3, <3>1 DEF DeleteCommit, OrderInv
    <3>7. task[c] \in Rendering => c \in stale'
      BY <3>3, <3>5 DEF PhaseInv
    <3>8. file[c] = "missing" \/ c \in stale' \cup spoiled
      BY <3>3, <3>5, <3>6 DEF Statuses
    <3>9. \A b \in Compilations : /\ b # c => row'[b] = row[b]
                                  /\ row'[c] = "deleted"
                                  /\ b \in stale => b \in stale'
      BY <3>2, <3>3
    <3>10. \A e \in Deleters : deleter'[e] = "unlinked" =>
                                deleter[e] = "unlinked" /\ order'[e] = order[e]
      BY <1>2, <2>3 DEF DeleteCommit
    <3>11. ASSUME NEW b \in Compilations PROVE FileInv!1!(b)'
      BY <3>4, <3>7, <3>8, <3>9, <3>11 DEF Statuses, PhaseInv
    <3> QED  BY <3>4, <3>10, <3>11
  <2>4. CASE DeleteFails(d)
    BY <1>2, <2>4 DEF DeleteFails
  <2> QED  BY <1>2, <2>1, <2>2, <2>3, <2>4 DEF DeleteStep
<1>3. CASE Restart
  BY <1>3 DEF Restart
<1>4. CASE UNCHANGED vars
  BY <1>4 DEF vars
<1> QED  BY <1>1, <1>2, <1>3, <1>4 DEF Next

-----------------------------------------------------------------------------
(* The theorems. *)

LEMMA CompilationInvariant == Spec => []IInv
<1>1. Init => IInv
  BY InvInit
<1>2. IInv /\ [Next]_vars => IInv'
  <2>1. IInv /\ [Next]_vars => TypeOK'
    BY TypeStep DEF IInv
  <2>2. IInv /\ [Next]_vars => PhaseInv'
    BY PhaseStep DEF IInv
  <2>3. IInv /\ [Next]_vars => OrderInv'
    BY OrderStep DEF IInv
  <2> QED  BY <2>1, <2>2, <2>3, FileStep DEF IInv
<1> QED  BY <1>1, <1>2, PTL DEF Spec

\* Every variable keeps its type.
THEOREM CompilationTypes == Spec => []TypeOK
<1>1. IInv => TypeOK
  BY DEF IInv
<1> QED  BY <1>1, CompilationInvariant, PTL

\* A complete row names an output that is entirely in storage or that a DELETE
\* has unlinked: the commit of complete comes after the save, and a DELETE that
\* unlinks has read a key, so no task still writes that file.
THEOREM CompletePlayable == Spec => []CompleteIsPlayable
<1>1. IInv => CompleteIsPlayable
  BY DEF IInv, PhaseInv, FileInv, CompleteIsPlayable
<1> QED  BY <1>1, CompilationInvariant, PTL

\* A file left behind by a deleted compilation has one of the two named causes:
\* a DELETE that acted on a status it had read too early, or a render that
\* failed after the save had begun.
THEOREM OrphansHaveACause == Spec => []OrphansExplained
<1>1. IInv => OrphansExplained
  BY DEF IInv, FileInv, OrphansExplained
<1> QED  BY <1>1, CompilationInvariant, PTL

\* Whatever fails, a row is pending or running only while its task is under way
\* or because that task was stopped; no other path leaves one unsettled.
THEOREM UnsettledOnlyWhenLost == Spec => []UnsettledIsLost
<1>1. IInv => UnsettledIsLost
  BY DEF IInv, PhaseInv, Rendering, UnsettledIsLost, ActiveTask, TaskStates
<1> QED  BY <1>1, CompilationInvariant, PTL

-----------------------------------------------------------------------------
(* The refinement: every step is a step of the job of one compilation, or     *)
(* leaves rows and keys alone.                                                *)

LEMMA JobTaskStep ==
    ASSUME IInv, NEW c \in Compilations, CreateStep(c) \/ TaskStep(c)
    PROVE  Jobs!Next \/ UNCHANGED <<row, key>>
<1> USE DEF IInv, TypeOK, PhaseInv, Rendering, Exists, Jobs!Next, Jobs!Move
<1>1. CASE CreateCommit(c)
  BY <1>1 DEF CreateCommit, Jobs!Create
<1>2. CASE MarkRunning(c)
  BY <1>2 DEF MarkRunning, Statuses, Jobs!Start
<1>3. CASE CommitComplete(c)
  BY <1>3 DEF CommitComplete, Statuses, Jobs!Complete
<1>4. CASE RecordFailure(c)
  BY <1>4 DEF RecordFailure, Statuses, Jobs!Fail
<1>5. CASE CreateCheck(c) \/ CreateFails(c) \/ Load(c) \/ MarkRunningFails(c)
             \/ MakeTempFile(c) \/ MakeTempFileFails(c) \/ SaveStart(c) \/ SaveDone(c)
             \/ RenderFails(c) \/ RecordFailureFails(c)
  BY <1>5 DEF CreateCheck, CreateFails, Load, MarkRunningFails, MakeTempFile,
     MakeTempFileFails, SaveStart, SaveDone, RenderFails, RecordFailureFails
<1> QED  BY <1>1, <1>2, <1>3, <1>4, <1>5 DEF CreateStep, TaskStep

\* A DELETE whose row is already gone changes nothing.
LEMMA JobDeleteStep ==
    ASSUME IInv, NEW d \in Deleters, DeleteStep(d)
    PROVE  Jobs!Next \/ UNCHANGED <<row, key>>
<1>1. CASE DeleteCommit(d)
  <2>1. PICK c \in Compilations : c = order[d].id
    BY <1>1 DEF DeleteCommit, IInv, OrderInv, Orders
  <2>2. row' = [row EXCEPT ![c] = "deleted"] /\ key' = [key EXCEPT ![c] = FALSE]
    BY <1>1, <2>1 DEF DeleteCommit
  <2>3. row[c] \in Statuses \cup {"deleted"}
    BY <1>1, <2>1 DEF DeleteCommit, IInv, TypeOK, OrderInv
  <2>4. CASE row[c] = "deleted"
    BY <2>2, <2>4 DEF IInv, TypeOK, PhaseInv
  <2>5. CASE row[c] \in Statuses
    BY <2>2, <2>5 DEF Statuses, Jobs!Next, Jobs!Delete, Jobs!Move
  <2> QED  BY <2>3, <2>4, <2>5
<1>2. CASE (\E c \in Compilations : DeleteRead(d, c)) \/ DeleteUnlink(d) \/ DeleteFails(d)
  BY <1>2 DEF DeleteRead, DeleteUnlink, DeleteFails
<1> QED  BY <1>1, <1>2 DEF DeleteStep

\* Rows and keys behave as jobs that are created, started once, settled once
\* and deleted, whatever requests, tasks, failures and restarts interleave.
THEOREM JobRefinement == Spec => JobSpec
<1>1. Init => Jobs!Init
  BY DEF Init, Jobs!Init
<1>2. IInv /\ [Next]_vars => [Jobs!Next]_<<row, key>>
  <2> SUFFICES ASSUME IInv, [Next]_vars PROVE Jobs!Next \/ UNCHANGED <<row, key>>
    OBVIOUS
  <2>1. CASE Restart \/ UNCHANGED vars
    BY <2>1 DEF Restart, vars
  <2> QED  BY <2>1, JobTaskStep, JobDeleteStep DEF Next
<1> QED  BY <1>1, <1>2, CompilationInvariant, PTL DEF Spec, JobSpec, Jobs!Spec

=============================================================================
