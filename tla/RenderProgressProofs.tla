------------------------ MODULE RenderProgressProofs ------------------------
(***************************************************************************)
(* Proofs about RenderProgress for any number of clients, any number of    *)
(* progress lines and any behaviour of the environment.                    *)
(*                                                                         *)
(* The argument: PhaseInv ties the callbacks in the loop to where the      *)
(* render coroutine and the worker thread are, so that the terminal update *)
(* is scheduled behind every other one; RowInv says how far the row is     *)
(* then; SettledInv, that the clients know of one terminal update only;    *)
(* ChanInv, when there is no channel and who listens to one; PlaceInv,     *)
(* that a finalized channel's terminal update is in one place; LostInv,    *)
(* what is left of all that after a restart.                               *)
(***************************************************************************)
EXTENDS RenderProgress, TLAPS, FiniteSetTheorems

\* The types, and that a thread that holds an update has read a line.
TypeInv == TypeOK /\ (worker = "holding" => tick > 0)

\* What the loop holds in each phase of the render, and how far the row is.
PhaseInv ==
    /\ render \in {"queued", "starting", "preparing", "aborted"} =>
          worker = "idle" /\ loopQ = <<>> /\ terminal = NoUpdate
    /\ render = "compiling" =>
          /\ worker # "idle" /\ terminal = NoUpdate
          /\ worker = "finished" =>
                /\ loopQ # <<>>
                /\ loopQ[Len(loopQ)] = Resume
                /\ \A i \in 1..(Len(loopQ) - 1) : loopQ[i] \in TickUpdates
          /\ worker # "finished" =>
                \A i \in 1..Len(loopQ) : loopQ[i] \in TickUpdates
    /\ render \in {"rendered", "committed"} =>
          worker = "finished" /\ loopQ = <<>> /\ terminal = NoUpdate
    /\ render \in {"recording", "ended"} =>
          /\ worker \in {"idle", "finished"}
          /\ loopQ = <<>> \/ (terminal # NoUpdate /\ loopQ = <<terminal>>)
    /\ render = "recording" => terminal = Failed
    /\ render = "lost" => worker = "idle" /\ loopQ = <<>> /\ terminal = NoUpdate

\* What the row may be in each phase, and for each outcome.
RowInv ==
    /\ render \in {"preparing", "compiling", "rendered", "recording"} =>
          row \in {"running", "absent"}
    /\ render = "committed" => row \in {"complete", "absent"}
    /\ terminal = Complete => render = "ended" /\ row \in {"complete", "absent"}
    /\ terminal = Failed => row \in {"running", "failed", "absent"}

\* There is one terminal update: whoever has one has that one.
SettledInv ==
    /\ \A i \in 1..Len(queue) : queue[i] \in Terminals => queue[i] = terminal
    /\ \A s \in Clients : hand[s] \in Terminals => hand[s] = terminal
    /\ \A s \in Clients :
          frame[s] \in Terminals /\ render # "lost" => frame[s] = terminal

\* A restart takes what was on its way and all that listened; the frames that
\* clients had received agreed with the row, and go on doing so.
LostInv ==
    /\ chan = "lost" <=> render = "lost"
    /\ render = "lost" =>
          /\ queue = <<>> /\ ClientAgreesWithRow
          /\ \A s \in Clients : client[s] \notin {"listening", "sending"}

\* A render that never opened its channel is queued or found no row; a client
\* listens only to a channel that was opened, and not past a terminal update.
ChanInv ==
    /\ render = "queued" => row \in {"pending", "absent"}
    /\ chan = "unregistered" => render = "queued" \/ row = "absent"
    /\ \A s \in Clients :
          client[s] \in {"listening", "sending"} =>
              chan \notin {"unregistered", "lost"}
    /\ \A s \in Clients :
          hand[s] \in Terminals => client[s] \in {"sending", "closed", "dropped"}

\* The three places where a terminal update can be.
InLoop  == terminal # NoUpdate /\ loopQ # <<>>
InQueue == \E i \in 1..Len(queue) : queue[i] \in Terminals
InHand  == \E s \in Clients : hand[s] \in Terminals

\* It is in one of them once the channel is finalized, and only then.
PlaceInv ==
    /\ chan = "finalized" <=> InLoop \/ InQueue \/ InHand
    /\ ~(InLoop /\ InQueue) /\ ~(InLoop /\ InHand) /\ ~(InQueue /\ InHand)
    /\ \A i, j \in 1..Len(queue) :
          queue[i] \in Terminals /\ queue[j] \in Terminals => i = j
    /\ \A s, t \in Clients :
          hand[s] \in Terminals /\ hand[t] \in Terminals => s = t

-----------------------------------------------------------------------------
\* The kinds of updates are told apart by their status.
LEMMA UpdateFacts ==
    /\ \A u \in TickUpdates : u.pct \in 1..Ticks /\ u.status = "running"
    /\ \A u \in TickUpdates : ~IsTerminal(u) /\ u \notin Terminals
    /\ \A u \in Terminals : IsTerminal(u)
    /\ Resume \notin TickUpdates /\ Resume \notin Terminals /\ Resume # NoUpdate
    /\ NoUpdate \notin TickUpdates /\ NoUpdate \notin Terminals
    /\ Pending \notin TickUpdates /\ Pending \notin Terminals /\ Pending # NoUpdate
    /\ \A u \in TickUpdates : u = Tick(u.pct)
    /\ \A k \in 1..Ticks : Tick(k) \in TickUpdates /\ Tick(k).pct = k
    /\ Complete \in Terminals /\ Failed \in Terminals /\ Complete # Failed
    /\ NoUpdate.pct = 0
<1> USE TicksAssumption DEF TickUpdates, Terminals, IsTerminal, Resume,
      NoUpdate, Pending, Complete, Failed, Tick, Update
<1>1. \A u \in TickUpdates :
        u.pct \in 1..Ticks /\ u.status = "running" /\ u = Tick(u.pct)
  OBVIOUS
<1>2. \A u \in Terminals : u.status = "complete" \/ u.status = "failed"
  OBVIOUS
<1>3. /\ Resume.status = "resume" /\ NoUpdate.status = "none"
      /\ Pending.status = "pending" /\ NoUpdate.pct = 0
      /\ Complete.status = "complete" /\ Failed.status = "failed"
  OBVIOUS
<1>4. \A k \in 1..Ticks : Tick(k) \in TickUpdates /\ Tick(k).pct = k
  OBVIOUS
<1>5. Complete \in Terminals /\ Failed \in Terminals
  OBVIOUS
<1>6. \A u \in TickUpdates : ~IsTerminal(u) /\ u \notin Terminals
  BY <1>1, <1>2
<1>7. \A u \in Terminals : IsTerminal(u)
  BY <1>2
<1>8. /\ Resume \notin TickUpdates /\ Resume \notin Terminals /\ Resume # NoUpdate
      /\ NoUpdate \notin TickUpdates /\ NoUpdate \notin Terminals
      /\ Pending \notin TickUpdates /\ Pending \notin Terminals /\ Pending # NoUpdate
      /\ Complete # Failed
  <2> HIDE DEF TickUpdates, Terminals, Resume, NoUpdate, Pending, Complete, Failed
  <2> QED  BY <1>1, <1>2, <1>3
<1> HIDE DEF TickUpdates, Terminals, IsTerminal, Resume, NoUpdate, Pending,
      Complete, Failed, Tick, Update
<1> QED  BY <1>1, <1>3, <1>4, <1>5, <1>6, <1>7, <1>8

\* What is appended to a queue comes last, what is taken off comes first.
LEMMA AppendFacts ==
    ASSUME NEW S, NEW q \in Seq(S), NEW e \in S
    PROVE  /\ Append(q, e) \in Seq(S)
           /\ Len(Append(q, e)) = Len(q) + 1
           /\ \A i \in 1..Len(q) : Append(q, e)[i] = q[i]
           /\ Append(q, e)[Len(q) + 1] = e
           /\ Len(q) \in Nat
  OBVIOUS

LEMMA TailFacts ==
    ASSUME NEW S, NEW q \in Seq(S), q # <<>>
    PROVE  /\ Tail(q) \in Seq(S)
           /\ Len(q) \in Nat \ {0}
           /\ Len(Tail(q)) = Len(q) - 1
           /\ \A i \in 1..(Len(q) - 1) : Tail(q)[i] = q[i + 1]
           /\ Head(q) = q[1] /\ Head(q) \in S
  OBVIOUS


-----------------------------------------------------------------------------
(* Type correctness. *)

LEMMA TypeInit == Init => TypeInv
  BY TicksAssumption DEF Init, TypeInv, TypeOK, RenderStates, ClientStates, Frames

LEMMA TypeStep == TypeInv /\ [Next]_vars => TypeInv'
<1> SUFFICES ASSUME TypeInv, [Next]_vars PROVE TypeInv'
  OBVIOUS
<1> DEFINE Q == TickUpdates \cup Terminals
           L == Q \cup {Resume}
<1>types. loopQ \in Seq(L) /\ queue \in Seq(Q)
  BY DEF TypeInv, TypeOK
<1>put. \A e \in L : Append(loopQ, e) \in Seq(L)
  BY <1>types, AppendFacts
<1> USE TicksAssumption DEF TypeInv, TypeOK, RenderStates, ClientStates
<1>fin. ASSUME NEW u \in Terminals, Finalize(u)
        PROVE  /\ terminal' \in Terminals \cup {NoUpdate}
               /\ chan' \in {"unregistered", "open", "finalized", "removed", "lost"}
               /\ loopQ' \in Seq(L)
  BY <1>fin, <1>put DEF Finalize
<1>1. CASE RenderStep
  <2>1. CASE RenderNotFound
    BY <2>1 DEF RenderNotFound, dbVars, registryVars, clientVars
  <2>2. CASE Register
    BY <2>2 DEF Register, dbVars, clientVars
  <2>3. CASE MarkRunning
    BY <2>3 DEF MarkRunning, registryVars, clientVars
  <2>4. CASE StartFails
    BY <2>4 DEF StartFails, dbVars, registryVars, clientVars
  <2>5. CASE Prepare
    BY <2>5 DEF Prepare, dbVars, registryVars, clientVars
  <2>6. CASE ResumeRender
    <3>1. loopQ' \in Seq(L)
      BY <1>types, <2>6, TailFacts DEF ResumeRender
    <3> QED  BY <2>6, <3>1 DEF ResumeRender, dbVars, registryVars, clientVars
  <2>7. CASE CommitComplete
    BY <2>7 DEF CommitComplete, registryVars, clientVars
  <2>8. CASE FinalizeComplete
    <3>1. Complete \in Terminals /\ Finalize(Complete)
      BY <2>8, UpdateFacts DEF FinalizeComplete
    <3> QED  BY <2>8, <3>1, <1>fin DEF FinalizeComplete, dbVars, clientVars
  <2>9. CASE RenderFails
    <3>1. Failed \in Terminals /\ Finalize(Failed)
      BY <2>9, UpdateFacts DEF RenderFails
    <3> QED  BY <2>9, <3>1, <1>fin DEF RenderFails, dbVars, clientVars
  <2>10. CASE RecordFailure
    BY <2>10 DEF RecordFailure, registryVars, clientVars
  <2>11. CASE RecordFails
    BY <2>11 DEF RecordFails, dbVars, registryVars, clientVars
  <2> QED  BY <1>1, <2>1, <2>2, <2>3, <2>4, <2>5, <2>6, <2>7, <2>8, <2>9,
              <2>10, <2>11 DEF RenderStep
<1>2. CASE WorkerStep
  <2>1. CASE WorkerLookup
    BY <2>1 DEF WorkerLookup, dbVars, registryVars, clientVars
  <2>2. CASE WorkerSchedule
    <3>1. Tick(tick) \in Q
      BY <2>2, UpdateFacts DEF WorkerSchedule
    <3> QED  BY <2>2, <3>1, <1>put DEF WorkerSchedule, dbVars, registryVars,
                clientVars
  <2>3. CASE WorkerFinish
    BY <2>3, <1>put DEF WorkerFinish, dbVars, registryVars, clientVars
  <2> QED  BY <1>2, <2>1, <2>2, <2>3 DEF WorkerStep
<1>3. CASE DeliverUpdate
  <2>1. Head(loopQ) \in Q /\ loopQ' \in Seq(L)
    BY <1>types, <1>3, TailFacts DEF DeliverUpdate
  <2>2. queue' \in Seq(Q)
    BY <1>types, <1>3, <2>1, AppendFacts DEF DeliverUpdate
  <2> QED  BY <1>3, <2>1, <2>2 DEF DeliverUpdate, dbVars, registryVars,
              renderVars, clientVars
<1>4. CASE DeleteStep
  BY <1>4 DEF DeleteStep, DeleteCheck, DeleteCommit, registryVars, renderVars,
     clientVars
<1>5. ASSUME NEW s \in Clients, ClientStep(s) PROVE TypeInv'
  <2>emit. ASSUME NEW u \in Frames, Emit(s, u)
           PROVE  frame' \in [Clients -> Frames]
    BY <2>emit DEF Emit
  <2>1. CASE Connect(s)
    BY <2>1 DEF Connect, dbVars, registryVars, renderVars
  <2>2. CASE SendTerminal(s)
    <3>1. terminal \in Frames
      BY <2>2 DEF SendTerminal, Frames
    <3> QED  BY <2>2, <3>1, <2>emit DEF SendTerminal, dbVars, registryVars,
                renderVars
  <2>3. CASE SendPending(s)
    <3>1. Pending \in Frames
      BY DEF Frames
    <3> QED  BY <2>3, <3>1, <2>emit DEF SendPending, dbVars, registryVars,
                renderVars
  <2>4. CASE Subscribe(s)
    BY <2>4 DEF Subscribe, dbVars, registryVars, renderVars
  <2>5. CASE Take(s)
    <3>1. Head(queue) \in Q /\ queue' \in Seq(Q)
      BY <1>types, <2>5, TailFacts DEF Take
    <3> QED  BY <2>5, <3>1 DEF Take, dbVars, registryVars, renderVars
  <2>6. CASE Send(s)
    <3>1. hand[s] \in Frames
      BY <2>6 DEF Frames
    <3> QED  BY <2>6, <3>1, <2>emit DEF Send, dbVars, registryVars, renderVars
  <2>7. CASE PollDisconnect(s)
    BY <2>7 DEF PollDisconnect, Unsubscribe, dbVars, renderVars
  <2>8. CASE CancelStream(s)
    BY <2>8 DEF CancelStream, dbVars, registryVars, renderVars
  <2>9. CASE Leave(s)
    BY <2>9 DEF Leave, dbVars, registryVars, renderVars
  <2> QED  BY <1>5, <2>1, <2>2, <2>3, <2>4, <2>5, <2>6, <2>7, <2>8, <2>9
              DEF ClientStep, ServeStep
<1>6. CASE UNCHANGED vars
  BY <1>6 DEF vars
<1>7. CASE Restart
  BY <1>7 DEF Restart
<1> QED  BY <1>1, <1>2, <1>3, <1>4, <1>5, <1>6, <1>7 DEF Next

\* Every variable keeps its type, whatever the clients, the environment and the
\* length of ffmpeg's output: the queues hold updates and nothing else.
THEOREM TypeCorrect == Spec => []TypeOK
<1>1. Spec => []TypeInv
  BY TypeInit, TypeStep, PTL DEF Spec
<1> QED  BY <1>1, PTL DEF TypeInv

-----------------------------------------------------------------------------
(* The terminal update is the last callback. *)

LEMMA PhaseInit == Init => PhaseInv /\ RowInv
  BY UpdateFacts DEF Init, PhaseInv, RowInv

\* The thread's result is in the loop only while the render waits for it.
LEMMA ResumeOnlyWhenCompiling ==
    ASSUME TypeInv, PhaseInv, loopQ # <<>>, Head(loopQ) = Resume
    PROVE  render = "compiling" /\ worker = "finished"
<1> DEFINE L == TickUpdates \cup Terminals \cup {Resume}
<1>types. loopQ \in Seq(L) /\ Len(loopQ) \in Nat /\ render \in RenderStates
          /\ terminal \in Terminals \cup {NoUpdate}
  BY DEF TypeInv, TypeOK
<1>1. loopQ[1] = Resume /\ Len(loopQ) >= 1
  BY <1>types, TailFacts
<1> USE DEF PhaseInv, RenderStates
<1>2. ASSUME loopQ = <<terminal>> PROVE FALSE
  BY <1>1, <1>2, <1>types, UpdateFacts
<1>3. ASSUME render = "compiling", worker # "finished" PROVE FALSE
  BY <1>1, <1>3, <1>types, UpdateFacts
<1>4. render # "lost"
  BY <1>1
<1> QED  BY <1>1, <1>2, <1>3, <1>4, <1>types

LEMMA PhaseStep == TypeInv /\ PhaseInv /\ [Next]_vars => PhaseInv'
<1> SUFFICES ASSUME TypeInv, PhaseInv, [Next]_vars PROVE PhaseInv'
  OBVIOUS
<1> DEFINE L == TickUpdates \cup Terminals \cup {Resume}
<1>types. loopQ \in Seq(L) /\ Len(loopQ) \in Nat /\ render \in RenderStates
          /\ terminal \in Terminals \cup {NoUpdate}
  BY DEF TypeInv, TypeOK
<1>fin. ASSUME NEW u \in Terminals, Finalize(u), loopQ = <<>>
        PROVE  /\ terminal' = u /\ terminal' # NoUpdate
               /\ loopQ' = <<>> \/ loopQ' = <<terminal'>>
  BY <1>fin, UpdateFacts DEF Finalize
<1>same. ASSUME UNCHANGED <<render, worker, loopQ, terminal>> PROVE PhaseInv'
  BY <1>same DEF PhaseInv
<1> USE DEF PhaseInv, RenderStates
<1>1. CASE RenderStep
  <2>1. CASE RenderNotFound
    BY <2>1 DEF RenderNotFound, registryVars
  <2>2. CASE Register
    BY <2>2 DEF Register
  <2>3. CASE MarkRunning
    BY <2>3 DEF MarkRunning, registryVars
  <2>4. CASE StartFails
    BY <2>4 DEF StartFails, registryVars
  <2>5. CASE Prepare
    BY <2>5 DEF Prepare, registryVars
  <2>6. CASE ResumeRender
    <3>1. loopQ # <<>> /\ loopQ[1] = Resume /\ Len(loopQ) >= 1
      BY <2>6, <1>types, TailFacts DEF ResumeRender
    <3>2. render = "compiling" /\ worker = "finished"
      BY <2>6, ResumeOnlyWhenCompiling DEF ResumeRender
    <3>3. Len(loopQ) = 1
      <4>1. ASSUME Len(loopQ) > 1 PROVE loopQ[1] \in TickUpdates
        BY <3>2, <4>1, <1>types
      <4>2. ~(Len(loopQ) > 1)
        BY <3>1, <4>1, UpdateFacts
      <4>3. Len(loopQ) >= 1 /\ Len(loopQ) \in Int
        BY <3>1, <1>types
      <4>4. \A n \in Int : n >= 1 /\ ~(n > 1) => n = 1
        OBVIOUS
      <4> QED  BY <4>2, <4>3, <4>4, Zenon
    <3>4. loopQ' = <<>>
      BY <2>6, <3>1, <3>3, <1>types, TailFacts DEF ResumeRender
    <3> QED  BY <2>6, <3>2, <3>4 DEF ResumeRender, registryVars
  <2>7. CASE CommitComplete
    BY <2>7 DEF CommitComplete, registryVars
  <2>8. CASE FinalizeComplete
    BY <2>8, <1>fin, UpdateFacts DEF FinalizeComplete
  <2>9. CASE RenderFails
    BY <2>9, <1>fin, UpdateFacts DEF RenderFails
  <2>10. CASE RecordFailure
    BY <2>10 DEF RecordFailure, registryVars
  <2>11. CASE RecordFails
    BY <2>11 DEF RecordFails, registryVars
  <2> QED  BY <1>1, <2>1, <2>2, <2>3, <2>4, <2>5, <2>6, <2>7, <2>8, <2>9,
              <2>10, <2>11 DEF RenderStep
<1>2. CASE WorkerStep
  <2>1. CASE WorkerLookup
    BY <2>1 DEF WorkerLookup, registryVars
  <2>2. CASE WorkerSchedule
    <3>1. render = "compiling"
      BY <2>2, <1>types DEF WorkerSchedule
    <3>2. Tick(tick) \in TickUpdates
      BY <2>2, UpdateFacts DEF WorkerSchedule, TypeInv, TypeOK
    <3>3. \A i \in 1..Len(loopQ') : loopQ'[i] \in TickUpdates
      BY <2>2, <3>1, <3>2, <1>types, AppendFacts DEF WorkerSchedule
    <3> QED  BY <2>2, <3>1, <3>3 DEF WorkerSchedule, registryVars
  <2>3. CASE WorkerFinish
    <3>1. render = "compiling" /\ Resume \in L
      BY <2>3, <1>types DEF WorkerFinish
    <3>2. /\ Len(loopQ') = Len(loopQ) + 1
          /\ loopQ'[Len(loopQ')] = Resume
          /\ \A i \in 1..(Len(loopQ') - 1) : loopQ'[i] \in TickUpdates
          /\ loopQ' # <<>>
      BY <2>3, <3>1, <1>types, AppendFacts DEF WorkerFinish
    <3> QED  BY <2>3, <3>1, <3>2 DEF WorkerFinish, registryVars
  <2> QED  BY <1>2, <2>1, <2>2, <2>3 DEF WorkerStep
<1>3. CASE DeliverUpdate
  <2>1. /\ loopQ # <<>> /\ Head(loopQ) = loopQ[1] /\ loopQ[1] # Resume
        /\ Len(loopQ') = Len(loopQ) - 1 /\ loopQ' \in Seq(L)
        /\ \A i \in 1..(Len(loopQ) - 1) : loopQ'[i] = loopQ[i + 1]
        /\ UNCHANGED <<render, worker, terminal>>
    BY <1>3, <1>types, TailFacts DEF DeliverUpdate, registryVars, renderVars
  <2>2. CASE render = "compiling"
    <3>1. CASE worker = "finished"
      <4>1. Len(loopQ) > 1
        BY <2>1, <2>2, <3>1, <1>types
      <4>2. loopQ'[Len(loopQ')] = Resume /\ loopQ' # <<>>
        BY <2>1, <2>2, <3>1, <4>1, <1>types
      <4>3. \A i \in 1..(Len(loopQ') - 1) : loopQ'[i] \in TickUpdates
        BY <2>1, <2>2, <3>1, <4>1, <1>types
      <4> QED  BY <2>1, <2>2, <3>1, <4>2, <4>3
    <3>2. CASE worker # "finished"
      <4>1. \A i \in 1..Len(loopQ') : loopQ'[i] \in TickUpdates
        BY <2>1, <2>2, <3>2, <1>types
      <4> QED  BY <2>1, <2>2, <3>2, <4>1
    <3> QED  BY <3>1, <3>2
  <2>3. CASE render \in {"recording", "ended"}
    <3>1. loopQ' = <<>>
      BY <2>1, <2>3, <1>types
    <3> QED  BY <2>1, <2>3, <3>1
  <2> QED  BY <2>1, <2>2, <2>3, <1>types
<1>4. CASE DeleteStep
  BY <1>4, <1>same DEF DeleteStep, DeleteCheck, DeleteCommit, registryVars,
     renderVars
<1>5. ASSUME NEW s \in Clients, ClientStep(s) PROVE PhaseInv'
  BY <1>5, <1>same DEF ClientStep, ServeStep, Connect, Leave, SendTerminal,
     SendPending, Subscribe, Take, Send, PollDisconnect, CancelStream,
     registryVars, renderVars
<1>6. CASE UNCHANGED vars
  BY <1>6, <1>same DEF vars
<1>7. CASE Restart
  BY <1>7 DEF Restart
<1> QED  BY <1>1, <1>2, <1>3, <1>4, <1>5, <1>6, <1>7 DEF Next

\* finalize's comment holds: the queue gets exactly one more item, the terminal
\* update, for any number of updates the thread has pushed before.
THEOREM TerminalIsLast == Spec => []NothingAfterTerminal
<1>1. Init => TypeInv /\ PhaseInv
  BY TypeInit, PhaseInit
<1>2. TypeInv /\ PhaseInv /\ [Next]_vars => (TypeInv /\ PhaseInv)'
  BY TypeStep, PhaseStep
<1>3. TypeInv /\ PhaseInv => NothingAfterTerminal
  BY DEF TypeInv, TypeOK, PhaseInv, NothingAfterTerminal, RenderStates
<1> QED  BY <1>1, <1>2, <1>3, PTL DEF Spec

-----------------------------------------------------------------------------
(* What the clients are told agrees with the row. *)

LEMMA RowStep == TypeInv /\ PhaseInv /\ RowInv /\ [Next]_vars => RowInv'
<1> SUFFICES ASSUME TypeInv, PhaseInv, RowInv, [Next]_vars PROVE RowInv'
  OBVIOUS
<1>types. render \in RenderStates /\ terminal \in Terminals \cup {NoUpdate}
          /\ row \in {"pending", "running", "complete", "failed", "absent"}
  BY DEF TypeInv, TypeOK
<1>new. render \notin {"recording", "ended"} => terminal = NoUpdate
  BY <1>types DEF PhaseInv, RenderStates
<1>out. /\ NoUpdate # Complete /\ NoUpdate # Failed /\ Complete # Failed
        /\ Complete \in Terminals /\ Failed \in Terminals
  BY UpdateFacts
<1>rec. render = "recording" => terminal = Failed
  BY DEF PhaseInv
<1>same. ASSUME UNCHANGED <<render, terminal>>, row' \in {row, "absent"} PROVE RowInv'
  BY <1>same DEF RowInv
<1>1. CASE RenderStep
  <2> USE DEF RowInv
  <2>1. CASE RenderNotFound
    BY <2>1, <1>new, <1>out DEF RenderNotFound, dbVars, registryVars
  <2>2. CASE Register
    BY <2>2, <1>new, <1>out DEF Register, dbVars
  <2>3. CASE MarkRunning
    BY <2>3, <1>new, <1>out DEF MarkRunning, registryVars
  <2>4. CASE StartFails
    BY <2>4, <1>new, <1>out DEF StartFails, dbVars, registryVars
  <2>5. CASE Prepare
    BY <2>5, <1>new, <1>out DEF Prepare, dbVars, registryVars
  <2>6. CASE ResumeRender
    <3>1. render = "compiling"
      BY <2>6, ResumeOnlyWhenCompiling DEF ResumeRender
    <3> QED  BY <2>6, <3>1, <1>new, <1>out DEF ResumeRender, dbVars, registryVars
  <2>7. CASE CommitComplete
    BY <2>7, <1>new, <1>out DEF CommitComplete, registryVars
  <2>8. CASE FinalizeComplete
    BY <2>8, <1>out DEF FinalizeComplete, Finalize, dbVars
  <2>9. CASE RenderFails
    BY <2>9, <1>out DEF RenderFails, Finalize, dbVars
  <2>10. CASE RecordFailure
    BY <2>10, <1>rec, <1>out DEF RecordFailure, registryVars
  <2>11. CASE RecordFails
    BY <2>11, <1>rec, <1>out DEF RecordFails, dbVars, registryVars
  <2> QED  BY <1>1, <2>1, <2>2, <2>3, <2>4, <2>5, <2>6, <2>7, <2>8, <2>9,
              <2>10, <2>11 DEF RenderStep
<1>2. CASE WorkerStep
  BY <1>2, <1>same DEF WorkerStep, WorkerLookup, WorkerSchedule, WorkerFinish,
     dbVars, registryVars
<1>3. CASE DeliverUpdate
  BY <1>3, <1>same DEF DeliverUpdate, dbVars, registryVars, renderVars
<1>4. CASE DeleteStep
  BY <1>4, <1>same DEF DeleteStep, DeleteCheck, DeleteCommit, registryVars,
     renderVars
<1>5. ASSUME NEW s \in Clients, ClientStep(s) PROVE RowInv'
  BY <1>5, <1>same DEF ClientStep, ServeStep, Connect, Leave, SendTerminal,
     SendPending, Subscribe, Take, Send, PollDisconnect, CancelStream,
     dbVars, registryVars, renderVars
<1>6. CASE UNCHANGED vars
  BY <1>6, <1>same DEF vars
<1>7. CASE Restart
  BY <1>7, <1>out DEF Restart, RowInv
<1> QED  BY <1>1, <1>2, <1>3, <1>4, <1>5, <1>6, <1>7 DEF Next

LEMMA SettledStep ==
    TypeInv /\ PhaseInv /\ SettledInv /\ [Next]_vars => SettledInv'
<1> SUFFICES ASSUME TypeInv, PhaseInv, SettledInv, [Next]_vars PROVE SettledInv'
  OBVIOUS
<1> DEFINE Q == TickUpdates \cup Terminals
           L == Q \cup {Resume}
<1>types. /\ loopQ \in Seq(L) /\ queue \in Seq(Q)
          /\ hand \in [Clients -> Q \cup {NoUpdate}]
          /\ frame \in [Clients -> Frames]
          /\ terminal \in Terminals \cup {NoUpdate} /\ render \in RenderStates
  BY DEF TypeInv, TypeOK
<1>out. NoUpdate \notin Terminals /\ Pending \notin Terminals
  BY UpdateFacts
<1>same. ASSUME UNCHANGED <<queue, hand, frame, terminal>>,
                UNCHANGED render \/ render # "lost"
         PROVE  SettledInv'
  BY <1>same DEF SettledInv
<1>fin. ASSUME NEW u, Finalize(u), terminal = NoUpdate, UNCHANGED <<queue, hand, frame>>,
               render # "lost"
        PROVE  SettledInv'
  BY <1>fin, <1>out DEF Finalize, SettledInv
<1>1. CASE RenderStep
  <2>1. CASE FinalizeComplete
    <3>1. terminal = NoUpdate
      BY <2>1 DEF FinalizeComplete, PhaseInv
    <3> QED  BY <2>1, <3>1, <1>fin DEF FinalizeComplete, clientVars
  <2>2. CASE RenderFails
    <3>1. terminal = NoUpdate
      BY <2>2 DEF RenderFails, PhaseInv
    <3> QED  BY <2>2, <3>1, <1>fin DEF RenderFails, clientVars
  <2>res. ResumeRender => render # "lost"
    BY ResumeOnlyWhenCompiling DEF ResumeRender
  <2>3. CASE ~FinalizeComplete /\ ~RenderFails
    BY <1>1, <2>3, <2>res, <1>same DEF RenderStep, RenderNotFound, Register, MarkRunning,
       StartFails, Prepare, ResumeRender, CommitComplete, RecordFailure,
       RecordFails, registryVars, clientVars
  <2> QED  BY <2>1, <2>2, <2>3
<1>2. CASE WorkerStep
  BY <1>2, <1>same DEF WorkerStep, WorkerLookup, WorkerSchedule, WorkerFinish,
     registryVars, clientVars
<1>3. CASE DeliverUpdate
  <2>1. Head(loopQ) \in Q /\ Head(loopQ) = loopQ[1] /\ Len(loopQ) \in Nat \ {0}
    BY <1>types, <1>3, TailFacts DEF DeliverUpdate
  <2>2. Head(loopQ) \in Terminals => Head(loopQ) = terminal
    <3>1. CASE render = "compiling"
      <4>1. ASSUME Len(loopQ) = 1, worker = "finished" PROVE FALSE
        BY <1>3, <2>1, <3>1, <4>1 DEF DeliverUpdate, PhaseInv
      <4>2. CASE worker = "finished"
        <5>1. 1 \in 1..(Len(loopQ) - 1)
          BY <2>1, <4>1, <4>2
        <5> QED  BY <2>1, <3>1, <4>2, <5>1, UpdateFacts DEF PhaseInv
      <4>3. CASE worker # "finished"
        <5>1. 1 \in 1..Len(loopQ)
          BY <2>1
        <5> QED  BY <2>1, <3>1, <4>3, <5>1, UpdateFacts DEF PhaseInv
      <4> QED  BY <4>2, <4>3
    <3>2. CASE render # "compiling"
      BY <1>3, <1>types, <2>1, <3>2 DEF DeliverUpdate, PhaseInv, RenderStates
    <3> QED  BY <3>1, <3>2
  <2>3. \A i \in 1..Len(queue') : queue'[i] \in Terminals => queue'[i] = terminal
    BY <1>3, <1>types, <2>1, <2>2, AppendFacts DEF DeliverUpdate, SettledInv
  <2> QED  BY <1>3, <2>3 DEF DeliverUpdate, SettledInv, registryVars, renderVars,
              clientVars
<1>4. CASE DeleteStep
  BY <1>4, <1>same DEF DeleteStep, DeleteCheck, DeleteCommit, registryVars,
     renderVars, clientVars
<1>5. ASSUME NEW s \in Clients, ClientStep(s) PROVE SettledInv'
  <2>emit. ASSUME NEW u, Emit(s, u), u \in Terminals => u = terminal,
                  UNCHANGED <<queue, hand, terminal, render>>
           PROVE  SettledInv'
    BY <2>emit, <1>types DEF Emit, SettledInv
  <2>1. CASE SendTerminal(s)
    BY <2>1, <2>emit DEF SendTerminal, registryVars, renderVars
  <2>2. CASE SendPending(s)
    BY <2>2, <2>emit, <1>out DEF SendPending, registryVars, renderVars
  <2>3. CASE Take(s)
    <3>1. Head(queue) = queue[1] /\ Len(queue) \in Nat \ {0}
      BY <2>3, <1>types, TailFacts DEF Take
    <3>2. Head(queue) \in Terminals => Head(queue) = terminal
      BY <3>1 DEF SettledInv
    <3>3. \A i \in 1..Len(queue') : queue'[i] \in Terminals => queue'[i] = terminal
      BY <2>3, <3>1, <1>types, TailFacts DEF Take, SettledInv
    <3> QED  BY <2>3, <3>2, <3>3, <1>types DEF Take, SettledInv, registryVars,
                renderVars
  <2>4. CASE Send(s)
    BY <2>4, <2>emit DEF Send, SettledInv, registryVars, renderVars
  <2>5. CASE Connect(s) \/ Leave(s) \/ Subscribe(s) \/ PollDisconnect(s)
             \/ CancelStream(s)
    BY <2>5, <1>same DEF Connect, Leave, Subscribe, PollDisconnect, CancelStream,
       registryVars, renderVars
  <2> QED  BY <1>5, <2>1, <2>2, <2>3, <2>4, <2>5 DEF ClientStep, ServeStep
<1>6. CASE UNCHANGED vars
  BY <1>6, <1>same DEF vars
<1>7. CASE Restart
  <2>1. queue' = <<>> /\ render' = "lost" /\ \A s \in Clients : hand'[s] = NoUpdate
    BY <1>7 DEF Restart
  <2> QED  BY <2>1, <1>out DEF SettledInv
<1> QED  BY <1>1, <1>2, <1>3, <1>4, <1>5, <1>6, <1>7 DEF Next

\* What the clients were told agrees with the row, before a restart because of
\* the terminal update, after it because it did before.
LEMMA AgreesNow ==
    ASSUME RowInv, SettledInv, LostInv PROVE ClientAgreesWithRow
<1>1. CASE render = "lost"
  BY <1>1 DEF LostInv
<1>2. CASE render # "lost"
  BY <1>2, UpdateFacts DEF RowInv, SettledInv, ClientAgreesWithRow
<1> QED  BY <1>1, <1>2

LEMMA LostStep ==
    TypeInv /\ PhaseInv /\ RowInv /\ SettledInv /\ LostInv /\ [Next]_vars => LostInv'
<1> SUFFICES ASSUME TypeInv, PhaseInv, RowInv, SettledInv, LostInv, [Next]_vars
             PROVE  LostInv'
  OBVIOUS
<1>types. /\ frame \in [Clients -> Frames] /\ client \in [Clients -> ClientStates]
          /\ row \in {"pending", "running", "complete", "failed", "absent"}
  BY DEF TypeInv, TypeOK
<1> DEFINE Quiet == \A s \in Clients : client[s] \notin {"listening", "sending"}
<1>out. Pending # Complete /\ Pending # Failed
  BY UpdateFacts
<1>alive. ASSUME render # "lost", render' # "lost", chan' # "lost" PROVE LostInv'
  BY <1>alive DEF LostInv
<1>same. ASSUME UNCHANGED <<render, chan, frame>>, row' \in {row, "absent"},
                render = "lost" => queue' = <<>> /\ Quiet'
         PROVE  LostInv'
  BY <1>same DEF LostInv, ClientAgreesWithRow
<1>1. CASE RenderStep
  <2>1. render # "lost"
    BY <1>1, ResumeOnlyWhenCompiling DEF RenderStep, RenderNotFound, Register,
       MarkRunning, StartFails, Prepare, ResumeRender, CommitComplete,
       FinalizeComplete, RenderFails, RecordFailure, RecordFails
  <2>2. render' # "lost"
    BY <1>1 DEF RenderStep, RenderNotFound, Register,
       MarkRunning, StartFails, Prepare, ResumeRender, CommitComplete,
       FinalizeComplete, RenderFails, RecordFailure, RecordFails
  <2>3. chan' # "lost"
    BY <1>1, <2>1 DEF LostInv, RenderStep, RenderNotFound, Register,
       MarkRunning, StartFails, Prepare, ResumeRender, CommitComplete,
       FinalizeComplete, RenderFails, RecordFailure, RecordFails, Finalize,
       registryVars
  <2> QED  BY <2>1, <2>2, <2>3, <1>alive
<1>2. CASE WorkerStep
  BY <1>2, <1>same DEF LostInv, WorkerStep, WorkerLookup, WorkerSchedule,
     WorkerFinish, dbVars, registryVars, clientVars
<1>3. CASE DeliverUpdate
  <2>1. render # "lost"
    BY <1>3 DEF DeliverUpdate, PhaseInv
  <2> QED  BY <1>3, <2>1, <1>same DEF DeliverUpdate, dbVars, registryVars, renderVars,
              clientVars
<1>4. CASE DeleteStep
  BY <1>4, <1>same DEF LostInv, DeleteStep, DeleteCheck, DeleteCommit, registryVars,
     renderVars, clientVars
<1>5. ASSUME NEW s \in Clients, ClientStep(s) PROVE LostInv'
  <2>1. CASE SendPending(s)
    <3>1. \A c \in Clients : frame'[c] \in {frame[c], Pending}
      BY <2>1, <1>types DEF SendPending, Emit
    <3>2. UNCHANGED <<render, chan, queue, row>> /\ (Quiet => Quiet')
      BY <2>1, <1>types DEF SendPending, registryVars, renderVars, dbVars
    <3> QED  BY <3>1, <3>2, <1>out DEF LostInv, ClientAgreesWithRow
  <2>2. CASE SendTerminal(s)
    <3>1. render # "lost" /\ UNCHANGED <<render, chan>>
      BY <2>2 DEF SendTerminal, PhaseInv, registryVars, renderVars
    <3> QED  BY <3>1, <1>alive DEF LostInv
  <2>3. CASE Take(s)
    <3>1. render # "lost" /\ UNCHANGED <<render, chan>>
      BY <2>3 DEF Take, LostInv, registryVars, renderVars
    <3> QED  BY <3>1, <1>alive DEF LostInv
  <2>4. CASE Send(s)
    <3>1. render # "lost" /\ UNCHANGED <<render, chan>>
      BY <2>4 DEF Send, LostInv, registryVars, renderVars
    <3> QED  BY <3>1, <1>alive DEF LostInv
  <2>5. CASE PollDisconnect(s)
    <3>1. render # "lost" /\ UNCHANGED render
      BY <2>5 DEF PollDisconnect, LostInv, renderVars
    <3>2. chan' # "lost"
      BY <2>5, <3>1 DEF PollDisconnect, Unsubscribe, LostInv
    <3> QED  BY <3>1, <3>2, <1>alive
  <2>6. CASE Subscribe(s)
    <3>1. render # "lost" /\ UNCHANGED <<render, chan>>
      BY <2>6 DEF Subscribe, LostInv, registryVars, renderVars
    <3> QED  BY <3>1, <1>alive DEF LostInv
  <2>7. CASE Connect(s) \/ Leave(s) \/ CancelStream(s)
    <3>1. UNCHANGED <<render, chan, frame, row, queue>> /\ (Quiet => Quiet')
      BY <2>7, <1>types DEF Connect, Leave, CancelStream, registryVars, renderVars,
         dbVars
    <3> QED  BY <3>1, <1>same DEF LostInv
  <2> QED  BY <1>5, <2>1, <2>2, <2>3, <2>4, <2>5, <2>6, <2>7
              DEF ClientStep, ServeStep
<1>6. CASE UNCHANGED vars
  BY <1>6, <1>same DEF vars, LostInv
<1>7. CASE Restart
  <2>1. ClientAgreesWithRow' /\ Quiet' /\ queue' = <<>>
    BY <1>7, AgreesNow, <1>types DEF Restart, ClientAgreesWithRow
  <2> QED  BY <1>7, <2>1 DEF Restart, LostInv
<1> QED  BY <1>1, <1>2, <1>3, <1>4, <1>5, <1>6, <1>7 DEF Next

\* The invariant the theorems about what clients see rest on.
BaseInv == TypeInv /\ PhaseInv /\ RowInv /\ SettledInv /\ LostInv

LEMMA BaseInvariant == Spec => []BaseInv
<1>1. Init => BaseInv
  <2>1. Init => SettledInv /\ LostInv
    BY UpdateFacts DEF Init, SettledInv, LostInv
  <2> QED  BY <2>1, TypeInit, PhaseInit DEF BaseInv
<1>2. BaseInv /\ [Next]_vars => BaseInv'
  BY TypeStep, PhaseStep, RowStep, SettledStep, LostStep DEF BaseInv
<1> QED  BY <1>1, <1>2, PTL DEF Spec

\* Nobody is told an outcome the database contradicts: "complete" is said after
\* the commit, and "failed" of a compilation that never becomes complete.
THEOREM OutcomeAgreesWithRow == Spec => []ClientAgreesWithRow
<1>1. BaseInv => ClientAgreesWithRow
  BY AgreesNow DEF BaseInv
<1> QED  BY <1>1, BaseInvariant, PTL

-----------------------------------------------------------------------------
(* Where the terminal update is. *)

LEMMA ChanStep == BaseInv /\ ChanInv /\ [Next]_vars => ChanInv'
<1> SUFFICES ASSUME BaseInv, ChanInv, [Next]_vars PROVE ChanInv'
  OBVIOUS
<1> DEFINE Q == TickUpdates \cup Terminals
<1>lost. chan = "lost" <=> render = "lost"
  BY DEF BaseInv, LostInv
<1>types. /\ queue \in Seq(Q)
          /\ hand \in [Clients -> Q \cup {NoUpdate}]
          /\ client \in [Clients -> ClientStates]
          /\ chan \in {"unregistered", "open", "finalized", "removed", "lost"}
          /\ render \in RenderStates
          /\ row \in {"pending", "running", "complete", "failed", "absent"}
  BY DEF BaseInv, TypeInv, TypeOK
<1>same. ASSUME UNCHANGED <<render, chan, client, hand>>, row' \in {row, "absent"}
         PROVE  ChanInv'
  BY <1>same DEF ChanInv
<1>fin. ASSUME NEW u, Finalize(u), render \notin {"queued", "lost"}, render' # "queued",
               UNCHANGED <<row, client, hand>>
        PROVE  ChanInv'
  BY <1>fin DEF Finalize, ChanInv
<1>1. CASE RenderStep
  <2>1. CASE FinalizeComplete
    BY <2>1, <1>fin DEF FinalizeComplete, dbVars, clientVars
  <2>2. CASE RenderFails
    BY <2>2, <1>fin DEF RenderFails, dbVars, clientVars
  <2>3. CASE ResumeRender
    <3>1. render = "compiling"
      BY <2>3, ResumeOnlyWhenCompiling DEF ResumeRender, BaseInv
    <3> QED  BY <2>3, <3>1 DEF ResumeRender, ChanInv, dbVars, registryVars,
                clientVars
  <2>4. CASE ~FinalizeComplete /\ ~RenderFails /\ ~ResumeRender
    BY <1>1, <2>4, <1>types DEF RenderStep, RenderNotFound, Register, MarkRunning,
       StartFails, Prepare, CommitComplete, RecordFailure, RecordFails, ChanInv,
       dbVars, registryVars, clientVars
  <2> QED  BY <2>1, <2>2, <2>3, <2>4
<1>2. CASE WorkerStep
  BY <1>2, <1>same DEF WorkerStep, WorkerLookup, WorkerSchedule, WorkerFinish,
     dbVars, registryVars, clientVars
<1>3. CASE DeliverUpdate
  BY <1>3, <1>same DEF DeliverUpdate, dbVars, registryVars, renderVars, clientVars
<1>4. CASE DeleteStep
  BY <1>4, <1>same DEF DeleteStep, DeleteCheck, DeleteCommit, registryVars,
     renderVars, clientVars
<1>5. ASSUME NEW s \in Clients, ClientStep(s) PROVE ChanInv'
  <2> USE <1>types DEF ChanInv, ClientStates
  <2>1. CASE Connect(s)
    BY <2>1 DEF Connect, dbVars, registryVars, renderVars
  <2>2. CASE SendTerminal(s) \/ SendPending(s)
    BY <2>2 DEF SendTerminal, SendPending, dbVars, registryVars, renderVars
  <2>3. CASE Subscribe(s)
    BY <2>3 DEF Subscribe, dbVars, registryVars, renderVars
  <2>4. CASE Take(s)
    BY <2>4 DEF Take, dbVars, registryVars, renderVars
  <2>5. CASE Send(s)
    <3>1. hand[s] \in Terminals => client'[s] = "closed"
      BY <2>5, UpdateFacts DEF Send
    <3> QED  BY <2>5, <3>1 DEF Send, dbVars, registryVars, renderVars
  <2>6. CASE PollDisconnect(s)
    BY <2>6 DEF PollDisconnect, Unsubscribe, dbVars, renderVars
  <2>7. CASE CancelStream(s)
    BY <2>7 DEF CancelStream, dbVars, registryVars, renderVars
  <2>8. CASE Leave(s)
    BY <2>8, <1>same DEF Leave, dbVars, registryVars, renderVars
  <2> QED  BY <1>5, <2>1, <2>2, <2>3, <2>4, <2>5, <2>6, <2>7, <2>8
              DEF ClientStep, ServeStep
<1>6. CASE UNCHANGED vars
  BY <1>6, <1>same DEF vars
<1>7. CASE Restart
  <2>1. /\ chan' = "lost" /\ render' = "lost"
        /\ \A s \in Clients : client'[s] \notin {"listening", "sending"}
                            /\ hand'[s] = NoUpdate
    BY <1>7, <1>types DEF Restart
  <2> QED  BY <2>1, UpdateFacts DEF ChanInv
<1> QED  BY <1>1, <1>2, <1>3, <1>4, <1>5, <1>6, <1>7 DEF Next

\* Before the outcome is known no place holds a terminal update.
LEMMA NothingBeforeOutcome ==
    ASSUME BaseInv, terminal = NoUpdate
    PROVE  ~InLoop /\ ~InQueue /\ ~InHand
  BY UpdateFacts DEF BaseInv, SettledInv, InLoop, InQueue, InHand

LEMMA PlaceStep == BaseInv /\ ChanInv /\ PlaceInv /\ [Next]_vars => PlaceInv'
<1> SUFFICES ASSUME BaseInv, ChanInv, PlaceInv, [Next]_vars PROVE PlaceInv'
  OBVIOUS
<1> DEFINE Q == TickUpdates \cup Terminals
           L == Q \cup {Resume}
<1>types. /\ loopQ \in Seq(L) /\ queue \in Seq(Q) /\ Len(queue) \in Nat
          /\ hand \in [Clients -> Q \cup {NoUpdate}]
          /\ terminal \in Terminals \cup {NoUpdate} /\ render \in RenderStates
  BY DEF BaseInv, TypeInv, TypeOK
<1>phase. PhaseInv
  BY DEF BaseInv
<1>same. ASSUME UNCHANGED <<chan, terminal, queue, hand>>,
                terminal = NoUpdate \/ UNCHANGED loopQ
         PROVE  PlaceInv'
  BY <1>same DEF PlaceInv, InLoop, InQueue, InHand
<1>fin. ASSUME NEW u \in Terminals, Finalize(u), terminal = NoUpdate, loopQ = <<>>,
               UNCHANGED <<queue, hand>>
        PROVE  PlaceInv'
  <2>1. ~InLoop /\ ~InQueue /\ ~InHand
    BY <1>fin, NothingBeforeOutcome
  <2>2. terminal' # NoUpdate
    BY <1>fin, UpdateFacts DEF Finalize
  <2>3. InQueue' = InQueue /\ InHand' = InHand
    BY <1>fin DEF InQueue, InHand
  <2>4. chan # "finalized"
    BY <2>1 DEF PlaceInv
  <2>5. CASE chan = "open"
    <3>1. chan' = "finalized" /\ loopQ' # <<>>
      BY <1>fin, <2>5 DEF Finalize
    <3>2. InLoop'
      BY <3>1, <2>2 DEF InLoop
    <3> QED  BY <1>fin, <2>1, <2>3, <3>1, <3>2 DEF PlaceInv
  <2>6. CASE chan # "open"
    <3>1. chan' = chan /\ loopQ' = <<>>
      BY <1>fin, <2>6 DEF Finalize
    <3>2. ~InLoop'
      BY <3>1 DEF InLoop
    <3> QED  BY <1>fin, <2>1, <2>3, <2>4, <3>1, <3>2 DEF PlaceInv
  <2> QED  BY <2>5, <2>6
<1>1. CASE RenderStep
  <2>1. CASE FinalizeComplete
    <3>1. terminal = NoUpdate /\ loopQ = <<>> /\ Complete \in Terminals
      BY <2>1, <1>phase, UpdateFacts DEF FinalizeComplete, PhaseInv
    <3> QED  BY <2>1, <3>1, <1>fin DEF FinalizeComplete, clientVars
  <2>2. CASE RenderFails
    <3>1. terminal = NoUpdate /\ loopQ = <<>> /\ Failed \in Terminals
      BY <2>2, <1>phase, UpdateFacts DEF RenderFails, PhaseInv
    <3> QED  BY <2>2, <3>1, <1>fin DEF RenderFails, clientVars
  <2>3. CASE ResumeRender
    <3>1. render = "compiling"
      BY <2>3, ResumeOnlyWhenCompiling DEF ResumeRender, BaseInv
    <3>2. terminal = NoUpdate
      BY <3>1, <1>phase DEF PhaseInv
    <3> QED  BY <2>3, <3>2, <1>same DEF ResumeRender, registryVars, clientVars
  <2>4. CASE Register
    <3>1. terminal = NoUpdate
      BY <2>4, <1>phase DEF Register, PhaseInv
    <3>2. ~InLoop /\ ~InQueue /\ ~InHand
      BY <3>1, NothingBeforeOutcome
    <3>3. UNCHANGED <<terminal, loopQ, queue, hand>> /\ chan' = "open"
      BY <2>4 DEF Register, clientVars
    <3> QED  BY <3>2, <3>3 DEF PlaceInv, InLoop, InQueue, InHand
  <2>5. CASE RenderNotFound \/ MarkRunning \/ StartFails \/ Prepare
             \/ CommitComplete \/ RecordFailure \/ RecordFails
    BY <2>5, <1>same DEF RenderNotFound, MarkRunning, StartFails, Prepare,
       CommitComplete, RecordFailure, RecordFails, registryVars, clientVars
  <2> QED  BY <1>1, <2>1, <2>2, <2>3, <2>4, <2>5 DEF RenderStep
<1>2. CASE WorkerStep
  <2>1. worker \in {"running", "holding"}
    BY <1>2 DEF WorkerStep, WorkerLookup, WorkerSchedule, WorkerFinish
  <2>2. terminal = NoUpdate
    BY <2>1, <1>types, <1>phase DEF PhaseInv, RenderStates
  <2> QED  BY <1>2, <2>2, <1>same DEF WorkerStep, WorkerLookup, WorkerSchedule,
              WorkerFinish, registryVars, clientVars
<1>3. CASE DeliverUpdate
  <2>1. /\ Head(loopQ) \in Q /\ Head(loopQ) = loopQ[1] /\ Len(loopQ) \in Nat \ {0}
        /\ UNCHANGED <<chan, terminal, hand>> /\ queue' = Append(queue, Head(loopQ))
    BY <1>3, <1>types, TailFacts DEF DeliverUpdate, registryVars, clientVars
  <2>2. /\ Len(queue') = Len(queue) + 1 /\ queue'[Len(queue) + 1] = Head(loopQ)
        /\ \A i \in 1..Len(queue) : queue'[i] = queue[i]
    BY <2>1, <1>types, AppendFacts
  <2>3. \A i \in 1..Len(queue') : i \in 1..Len(queue) \/ i = Len(queue) + 1
    BY <2>2, <1>types
  <2>4. CASE terminal = NoUpdate
    <3>1. SettledInv' /\ ~InQueue /\ ~InLoop /\ ~InHand
      BY <2>4, NothingBeforeOutcome, SettledStep DEF BaseInv
    <3>2. ~InQueue' /\ ~InLoop' /\ ~InHand'
      BY <2>1, <2>4, <3>1, UpdateFacts DEF SettledInv, InQueue, InLoop, InHand
    <3> QED  BY <2>1, <3>1, <3>2 DEF PlaceInv, InQueue, InHand
  <2>5. CASE terminal # NoUpdate
    <3>1. InLoop /\ loopQ = <<terminal>> /\ loopQ' = <<>>
      BY <1>3, <2>5, <1>types, <1>phase DEF InLoop, DeliverUpdate, PhaseInv,
         RenderStates
    <3>2. ~InQueue /\ ~InHand /\ chan = "finalized"
      BY <3>1 DEF PlaceInv
    <3>3. ~InLoop' /\ ~InHand'
      BY <2>1, <3>1, <3>2 DEF InLoop, InHand
    <3>4. \A i \in 1..Len(queue) : queue'[i] \notin Terminals
      BY <2>2, <3>2 DEF InQueue
    <3>5. terminal \in Terminals /\ Head(loopQ) = terminal
      BY <2>1, <2>5, <3>1, <1>types
    <3>6. InQueue'
      BY <2>2, <3>5, <1>types DEF InQueue
    <3>7. \A i, j \in 1..Len(queue') :
             queue'[i] \in Terminals /\ queue'[j] \in Terminals => i = j
      BY <2>3, <3>4
    <3> QED  BY <2>1, <3>2, <3>3, <3>6, <3>7 DEF PlaceInv
  <2> QED  BY <2>4, <2>5
<1>4. CASE DeleteStep
  BY <1>4, <1>same DEF DeleteStep, DeleteCheck, DeleteCommit, registryVars, clientVars
<1>5. ASSUME NEW s \in Clients, ClientStep(s) PROVE PlaceInv'
  <2>1. CASE Take(s)
    <3>1. /\ queue # <<>> /\ Head(queue) = queue[1] /\ queue' = Tail(queue)
          /\ hand' = [hand EXCEPT ![s] = Head(queue)]
          /\ UNCHANGED <<chan, terminal, loopQ>> /\ client[s] = "listening"
      BY <2>1, <1>types, TailFacts DEF Take, registryVars
    <3>2. /\ Len(queue) \in Nat \ {0} /\ Len(queue') = Len(queue) - 1
          /\ \A i \in 1..(Len(queue) - 1) : queue'[i] = queue[i + 1]
      BY <3>1, <1>types, TailFacts
    <3>3. hand[s] \notin Terminals
      BY <3>1 DEF ChanInv
    <3>4. InLoop' = InLoop
      BY <3>1 DEF InLoop
    <3>5. /\ hand'[s] = queue[1]
          /\ \A t \in Clients \ {s} : hand'[t] = hand[t]
      BY <3>1, <1>types
    <3>6. \A i \in 1..Len(queue') : i + 1 \in 1..Len(queue) /\ queue'[i] = queue[i + 1]
      BY <3>2
    <3>7. \A i, j \in 1..Len(queue') :
             queue'[i] \in Terminals /\ queue'[j] \in Terminals => i = j
      <4> SUFFICES ASSUME NEW i \in 1..Len(queue'), NEW j \in 1..Len(queue'),
                          queue'[i] \in Terminals, queue'[j] \in Terminals
                   PROVE  i = j
        OBVIOUS
      <4>1. i + 1 = j + 1
        BY <3>6 DEF PlaceInv
      <4> QED  BY <4>1
    <3>8. CASE queue[1] \in Terminals
      <4>1. 1 \in 1..Len(queue) /\ InQueue
        BY <3>2, <3>8 DEF InQueue
      <4>2. ~InLoop /\ ~InHand /\ chan = "finalized"
        BY <4>1 DEF PlaceInv
      <4>3. ASSUME NEW i \in 1..Len(queue'), queue'[i] \in Terminals PROVE FALSE
        <5>1. i + 1 = 1
          BY <3>6, <3>8, <4>1, <4>3 DEF PlaceInv
        <5> QED  BY <5>1
      <4>4. ~InQueue'
        BY <4>3 DEF InQueue
      <4>5. InHand'
        BY <3>5, <3>8 DEF InHand
      <4>6. \A t \in Clients \ {s} : hand'[t] \notin Terminals
        BY <3>5, <4>2 DEF InHand
      <4> QED  BY <3>1, <3>4, <3>7, <4>2, <4>4, <4>5, <4>6 DEF PlaceInv
    <3>9. CASE queue[1] \notin Terminals
      <4>1. \A t \in Clients : hand'[t] \in Terminals <=> hand[t] \in Terminals
        BY <3>3, <3>5, <3>9
      <4>2. InHand' = InHand
        BY <4>1 DEF InHand
      <4>3. ASSUME InQueue PROVE InQueue'
        <5>1. PICK i \in 1..Len(queue) : queue[i] \in Terminals
          BY <4>3 DEF InQueue
        <5>2. i # 1
          BY <5>1, <3>9
        <5>3. i - 1 \in 1..Len(queue') /\ queue'[i - 1] = queue[i]
          BY <5>2, <3>2
        <5> QED  BY <5>1, <5>3 DEF InQueue
      <4>4. ASSUME InQueue' PROVE InQueue
        BY <4>4, <3>6 DEF InQueue
      <4>5. /\ chan' = "finalized" <=> InLoop' \/ InQueue' \/ InHand'
            /\ ~(InLoop' /\ InQueue') /\ ~(InLoop' /\ InHand') /\ ~(InQueue' /\ InHand')
        BY <3>1, <3>4, <4>2, <4>3, <4>4 DEF PlaceInv
      <4>6. \A r, t \in Clients : hand'[r] \in Terminals /\ hand'[t] \in Terminals => r = t
        BY <4>1 DEF PlaceInv
      <4> QED  BY <3>7, <4>5, <4>6 DEF PlaceInv
    <3> QED  BY <3>8, <3>9
  <2>2. CASE PollDisconnect(s)
    <3>1. chan' = "finalized" <=> chan = "finalized"
      BY <2>2 DEF PollDisconnect, Unsubscribe
    <3> QED  BY <2>2, <3>1 DEF PollDisconnect, PlaceInv, InLoop, InQueue, InHand
  <2>3. CASE ~Take(s) /\ ~PollDisconnect(s)
    BY <1>5, <2>3, <1>same DEF ClientStep, ServeStep, Connect, Leave, SendTerminal,
       SendPending, Subscribe, Send, CancelStream, registryVars
  <2> QED  BY <2>1, <2>2, <2>3
<1>6. CASE UNCHANGED vars
  BY <1>6, <1>same DEF vars
<1>7. CASE Restart
  <2>1. /\ chan' = "lost" /\ loopQ' = <<>> /\ queue' = <<>>
        /\ \A s \in Clients : hand'[s] = NoUpdate
    BY <1>7 DEF Restart
  <2>2. ~InLoop' /\ ~InQueue' /\ ~InHand'
    BY <2>1, UpdateFacts DEF InLoop, InQueue, InHand
  <2> QED  BY <2>1, <2>2, UpdateFacts DEF PlaceInv
<1> QED  BY <1>1, <1>2, <1>3, <1>4, <1>5, <1>6, <1>7 DEF Next

\* The invariant the theorems about the terminal update rest on.
FullInv == BaseInv /\ ChanInv /\ PlaceInv

LEMMA FullInvariant == Spec => []FullInv
<1>1. Init => FullInv
  <2>1. Init => SettledInv /\ LostInv /\ ChanInv /\ PlaceInv
    BY UpdateFacts DEF Init, SettledInv, LostInv, ChanInv, PlaceInv, InLoop, InQueue,
       InHand
  <2> QED  BY <2>1, TypeInit, PhaseInit DEF FullInv, BaseInv
<1>2. BaseInv /\ [Next]_vars => BaseInv'
  BY TypeStep, PhaseStep, RowStep, SettledStep, LostStep DEF BaseInv
<1>3. FullInv /\ [Next]_vars => FullInv'
  BY <1>2, ChanStep, PlaceStep DEF FullInv
<1> QED  BY <1>1, <1>3, PTL DEF Spec

\* A terminal update in the loop is alone there, and is the outcome.
LEMMA LoopTerminalAlone ==
    ASSUME BaseInv, NEW i \in 1..Len(loopQ), loopQ[i] \in Terminals
    PROVE  InLoop /\ loopQ = <<terminal>> /\ i = 1
<1> DEFINE L == TickUpdates \cup Terminals \cup {Resume}
<1>types. loopQ \in Seq(L) /\ Len(loopQ) \in Nat /\ render \in RenderStates
          /\ i \in Nat /\ loopQ # <<>>
  BY DEF BaseInv, TypeInv, TypeOK
<1>1. render # "compiling"
  <2>1. ASSUME render = "compiling", worker = "finished" PROVE FALSE
    <3>1. i = Len(loopQ) \/ i \in 1..(Len(loopQ) - 1)
      BY <1>types
    <3> QED  BY <2>1, <3>1, UpdateFacts DEF BaseInv, PhaseInv
  <2>2. ASSUME render = "compiling", worker # "finished" PROVE FALSE
    BY <2>2, UpdateFacts DEF BaseInv, PhaseInv
  <2> QED  BY <2>1, <2>2
<1>2. terminal # NoUpdate /\ loopQ = <<terminal>>
  BY <1>1, <1>types DEF BaseInv, PhaseInv, RenderStates
<1> QED  BY <1>2, <1>types DEF InLoop

\* The terminal update is never lost and never delivered twice: for any number
\* of clients on one queue, a finalized channel's update is in one place.
THEOREM TerminalInOnePlace == Spec => []TerminalConserved
<1>1. ASSUME FullInv, NEW u \in Terminals
      PROVE  Cardinality(Places(u)) = IF chan = "finalized" /\ terminal = u THEN 1 ELSE 0
  <2> DEFINE LoopPlaces  == {<<"loop", i>> : i \in {j \in 1..Len(loopQ) : loopQ[j] = u}}
             QueuePlaces == {<<"queue", i>> : i \in {j \in 1..Len(queue) : queue[j] = u}}
             HandPlaces  == {<<"hand", s>> : s \in {c \in Clients : hand[c] = u}}
  <2>base. BaseInv /\ PlaceInv
    BY <1>1 DEF FullInv
  <2>loop. ASSUME NEW i \in 1..Len(loopQ), loopQ[i] = u
           PROVE  InLoop /\ loopQ = <<u>> /\ terminal = u /\ i = 1
    BY <2>base, <2>loop, LoopTerminalAlone
  <2>queue. ASSUME NEW i \in 1..Len(queue), queue[i] = u PROVE InQueue /\ terminal = u
    BY <2>base, <2>queue DEF InQueue, BaseInv, SettledInv
  <2>hand. ASSUME NEW s \in Clients, hand[s] = u PROVE InHand /\ terminal = u
    BY <2>base, <2>hand DEF InHand, BaseInv, SettledInv
  <2>noLoop. ~(InLoop /\ terminal = u) => LoopPlaces = {}
    BY <2>loop
  <2>noQueue. ~(InQueue /\ terminal = u) => QueuePlaces = {}
    BY <2>queue
  <2>noHand. ~(InHand /\ terminal = u) => HandPlaces = {}
    BY <2>hand
  <2>1. CASE chan = "finalized" /\ terminal = u
    <3>1. \E p : Places(u) = {p}
      <4>1. CASE InLoop
        <5>1. loopQ = <<u>>
          BY <2>base, <2>1, <4>1, UpdateFacts DEF InLoop, BaseInv, TypeInv, TypeOK,
             PhaseInv, RenderStates
        <5>2. LoopPlaces = {<<"loop", 1>>}
          BY <5>1
        <5>3. QueuePlaces = {} /\ HandPlaces = {}
          BY <2>base, <4>1, <2>noQueue, <2>noHand DEF PlaceInv
        <5> QED  BY <5>2, <5>3 DEF Places
      <4>2. CASE InQueue
        <5>1. PICK i \in 1..Len(queue) : queue[i] \in Terminals
          BY <4>2 DEF InQueue
        <5>2. queue[i] = u
          BY <2>base, <2>1, <5>1 DEF BaseInv, SettledInv
        <5>3. \A j \in 1..Len(queue) : queue[j] = u <=> j = i
          BY <2>base, <5>1, <5>2 DEF PlaceInv
        <5>4. QueuePlaces = {<<"queue", i>>}
          BY <5>3
        <5>5. LoopPlaces = {} /\ HandPlaces = {}
          BY <2>base, <4>2, <2>noLoop, <2>noHand DEF PlaceInv
        <5> QED  BY <5>4, <5>5 DEF Places
      <4>3. CASE InHand
        <5>1. PICK s \in Clients : hand[s] \in Terminals
          BY <4>3 DEF InHand
        <5>2. hand[s] = u
          BY <2>base, <2>1, <5>1 DEF BaseInv, SettledInv
        <5>3. \A t \in Clients : hand[t] = u <=> t = s
          BY <2>base, <5>1, <5>2 DEF PlaceInv
        <5>4. HandPlaces = {<<"hand", s>>}
          BY <5>3
        <5>5. LoopPlaces = {} /\ QueuePlaces = {}
          BY <2>base, <4>3, <2>noLoop, <2>noQueue DEF PlaceInv
        <5> QED  BY <5>4, <5>5 DEF Places
      <4> QED  BY <2>base, <2>1, <4>1, <4>2, <4>3 DEF PlaceInv
    <3>2. PICK p : Places(u) = {p}
      BY <3>1
    <3> QED  BY <2>1, <3>2, FS_Singleton
  <2>2. CASE ~(chan = "finalized" /\ terminal = u)
    <3>1. LoopPlaces = {} /\ QueuePlaces = {} /\ HandPlaces = {}
      BY <2>base, <2>2, <2>noLoop, <2>noQueue, <2>noHand DEF PlaceInv
    <3>2. Places(u) = {}
      BY <3>1 DEF Places
    <3> QED  BY <2>2, <3>2, FS_EmptySet
  <2> QED  BY <2>1, <2>2
<1>2. FullInv => TerminalConserved
  BY <1>1 DEF TerminalConserved
<1> QED  BY <1>2, FullInvariant, PTL

\* A connected client waits in vain only for the three causes KeptFrom names:
\* there is no fourth, whatever the number of clients and of updates.
THEOREM WaitingIsExplained == Spec => []StrandedExplained
<1>1. ASSUME FullInv, NEW s \in Clients, client[s] = "listening"
      PROVE  TerminalComing \/ KeptFrom(s)
  <2>1. chan \in {"open", "finalized", "removed"}
    BY <1>1 DEF FullInv, BaseInv, TypeInv, TypeOK, ChanInv
  <2>2. CASE chan \in {"open", "removed"}
    BY <2>2 DEF TerminalComing, KeptFrom
  <2>3. CASE chan = "finalized"
    <3>1. CASE InLoop
      <4>1. loopQ = <<terminal>> /\ terminal \in Terminals
        BY <1>1, <3>1, UpdateFacts DEF FullInv, InLoop, BaseInv, TypeInv, TypeOK,
           PhaseInv, RenderStates
      <4>2. 1 \in 1..Len(loopQ) /\ IsTerminal(loopQ[1])
        BY <4>1, UpdateFacts
      <4> QED  BY <4>2 DEF TerminalComing
    <3>2. CASE InQueue
      BY <3>2, UpdateFacts DEF InQueue, TerminalComing
    <3>3. CASE InHand
      <4>1. PICK t \in Clients : hand[t] \in Terminals
        BY <3>3 DEF InHand
      <4>2. t # s
        BY <1>1, <4>1 DEF FullInv, ChanInv
      <4> QED  BY <4>1, <4>2, UpdateFacts DEF KeptFrom
    <3> QED  BY <1>1, <2>3, <3>1, <3>2, <3>3 DEF FullInv, PlaceInv
  <2> QED  BY <2>1, <2>2, <2>3
<1>2. FullInv => StrandedExplained
  BY <1>1 DEF StrandedExplained
<1> QED  BY <1>2, FullInvariant, PTL

\* The promise of progress.py that run progress_second_tab refutes holds for a
\* single tab, whose disconnect takes its own channel only, while the render gets to
\* its try block and nobody deletes the compilation: it may fail then in any way.
THEOREM SingleTabServed ==
    ASSUME NEW s, Clients = {s}, Env \cap {"start_fails", "delete"} = {}
    PROVE  Spec => []NeverStranded
<1> DEFINE Alone == /\ client \in [Clients -> ClientStates]
                    /\ render # "aborted" /\ row # "absent" /\ deleter = "idle"
                    /\ chan = "removed" => client[s] = "dropped"
<1>1. Init => Alone
  BY DEF Init, ClientStates
<1>2. ASSUME TypeOK, Alone, [Next]_vars PROVE Alone'
  <2> USE <1>2 DEF ClientStates
  <2>1. client' \in [Clients -> ClientStates]
    BY DEF Next, vars, RenderStep, WorkerStep, DeleteStep, ClientStep, ServeStep, Restart,
       RenderNotFound, Register, MarkRunning, StartFails, Prepare, ResumeRender,
       CommitComplete, FinalizeComplete, RenderFails, RecordFailure, RecordFails,
       WorkerLookup, WorkerSchedule, WorkerFinish, DeliverUpdate, DeleteCheck,
       DeleteCommit, Connect, Leave, SendTerminal, SendPending, Subscribe, Take, Send,
       PollDisconnect, CancelStream, clientVars
  <2>2. CASE RenderStep
    BY <2>1, <2>2
    DEF RenderStep, RenderNotFound, Register, MarkRunning, StartFails, Prepare,
        ResumeRender, CommitComplete, FinalizeComplete, RenderFails, RecordFailure,
        RecordFails, Finalize, dbVars, registryVars, clientVars
  <2>3. CASE WorkerStep \/ DeliverUpdate
    BY <2>1, <2>3
    DEF WorkerStep, WorkerLookup, WorkerSchedule, WorkerFinish, DeliverUpdate,
        dbVars, registryVars, renderVars, clientVars
  <2>4. ~DeleteStep
    BY DEF DeleteStep, DeleteCheck, DeleteCommit
  <2>5. ASSUME NEW c \in Clients, ClientStep(c) PROVE Alone'
    <3>1. c = s
      OBVIOUS
    <3> QED
      BY <2>1, <2>5, <3>1
      DEF ClientStep, ServeStep, Connect, Leave, SendTerminal, SendPending, Subscribe,
          Take, Send, PollDisconnect, CancelStream, Unsubscribe,
          dbVars, registryVars, renderVars
  <2>6. CASE UNCHANGED vars
    BY <2>1, <2>6 DEF vars
  <2>7. CASE Restart
    BY <2>1, <2>7 DEF Restart
  <2> QED  BY <2>2, <2>3, <2>4, <2>5, <2>6, <2>7 DEF Next
<1>3. Alone /\ StrandedExplained => NeverStranded
  BY DEF StrandedExplained, NeverStranded, KeptFrom
<1>4. Spec => []Alone
  BY <1>1, <1>2, TypeCorrect, PTL DEF Spec
<1> QED  BY <1>3, <1>4, WaitingIsExplained, PTL

\* "Pending" is said of a pending or deleted compilation, or because another
\* client's disconnect removed the channel of a render that goes on, or because
\* the process that knew the render was restarted.
THEOREM PendingIsExplained == Spec => PendingExplained
<1> DEFINE Step == \A s \in Clients :
                      frame'[s] = Pending /\ frame[s] # Pending
                          => row \in {"pending", "absent"} \/ chan \in {"removed", "lost"}
<1>1. ASSUME FullInv, [Next]_vars PROVE [Step]_frame
  <2>types. /\ terminal \in Terminals \cup {NoUpdate}
            /\ hand \in [Clients -> TickUpdates \cup Terminals \cup {NoUpdate}]
            /\ frame \in [Clients -> Frames]
            /\ chan \in {"unregistered", "open", "finalized", "removed", "lost"}
    BY <1>1 DEF FullInv, BaseInv, TypeInv, TypeOK
  <2>emit. ASSUME NEW s \in Clients, NEW u, Emit(s, u), u # Pending PROVE Step
    BY <2>emit, <2>types DEF Emit
  <2>1. CASE \E s \in Clients : SendTerminal(s)
    BY <2>1, <2>emit, <2>types, UpdateFacts DEF SendTerminal
  <2>2. CASE \E s \in Clients : Send(s)
    BY <2>2, <2>emit, <2>types, UpdateFacts DEF Send
  <2>3. CASE \E s \in Clients : SendPending(s)
    <3>1. terminal = NoUpdate /\ chan # "open"
      BY <2>3 DEF SendPending
    <3>2. chan # "finalized"
      BY <1>1, <3>1, NothingBeforeOutcome DEF FullInv, PlaceInv
    <3> QED  BY <1>1, <3>1, <3>2, <2>types DEF FullInv, ChanInv
  <2>4. CASE UNCHANGED frame
    BY <2>4
  <2> QED  BY <1>1, <2>1, <2>2, <2>3, <2>4 DEF Next, vars, RenderStep, WorkerStep,
              DeleteStep, ClientStep, ServeStep, RenderNotFound, Register,
              MarkRunning, StartFails, Prepare, ResumeRender, CommitComplete,
              FinalizeComplete, RenderFails, RecordFailure, RecordFails,
              WorkerLookup, WorkerSchedule, WorkerFinish, DeliverUpdate,
              DeleteCheck, DeleteCommit, Connect, Leave, Subscribe, Take,
              PollDisconnect, CancelStream, Restart, clientVars
<1> QED  BY <1>1, FullInvariant, PTL DEF Spec, PendingExplained

-----------------------------------------------------------------------------
(***************************************************************************)
(* RenderProgress implements ProgressFeed: Spec => FeedSpec.               *)
(*                                                                         *)
(* The updates on their way to the clients, first in the loop and then in  *)
(* the queue, leave both in the order of their lines (OrderInv); a client  *)
(* holds and has received only updates older than every one still on its   *)
(* way (ClientInv); so what it receives next is newer.  Several clients on *)
(* one queue each see a part of the sequence.                              *)
(***************************************************************************)

\* The progress updates in q, and that they leave it in the order of their lines.
Going(q) == {q[i] : i \in 1..Len(q)} \cap TickUpdates

Sorted(q) ==
    \A i, j \in 1..Len(q) :
        i < j /\ q[i] \in TickUpdates /\ q[j] \in TickUpdates => q[i].pct < q[j].pct

\* u is of a line the thread has read, and has handed over.
Issued(u) == u.pct <= tick /\ (worker = "holding" => u.pct < tick)

OnTheWay == Going(queue) \cup Going(loopQ)

OrderInv ==
    /\ \A u \in OnTheWay : Issued(u)
    /\ Sorted(queue) /\ Sorted(loopQ)
    /\ \A u \in Going(queue), v \in Going(loopQ) : u.pct < v.pct

\* u is older than every update still on its way.
Passed(u) == Issued(u) /\ \A v \in OnTheWay : u.pct < v.pct

ClientInv ==
    \A s \in Clients :
        /\ client[s] \in {"off", "admitted"} => frame[s] = NoUpdate
        /\ client[s] \in {"listening", "sending"} =>
              frame[s] = NoUpdate \/ frame[s] \in TickUpdates
        /\ client[s] = "sending" =>
              /\ hand[s] # NoUpdate
              /\ hand[s] \in TickUpdates => frame[s].pct < hand[s].pct
        /\ hand[s] \in TickUpdates => Passed(hand[s])
        /\ frame[s] \in TickUpdates => Passed(frame[s])

-----------------------------------------------------------------------------
(* Queues of updates. *)

\* What appending an update does to the progress updates of a queue.
LEMMA GoingAppend ==
    ASSUME NEW S, NEW q \in Seq(S), NEW e \in S
    PROVE  /\ e \in TickUpdates => Going(Append(q, e)) = Going(q) \cup {e}
           /\ e \notin TickUpdates => Going(Append(q, e)) = Going(q)
<1>1. /\ Len(Append(q, e)) = Len(q) + 1 /\ Len(q) \in Nat
      /\ \A i \in 1..Len(q) : Append(q, e)[i] = q[i]
      /\ Append(q, e)[Len(q) + 1] = e
  BY AppendFacts
<1>2. ASSUME NEW u \in Going(Append(q, e)) PROVE u \in Going(q) \/ u = e
  <2>1. PICK i \in 1..(Len(q) + 1) : u = Append(q, e)[i]
    BY <1>1 DEF Going
  <2>2. i \in 1..Len(q) \/ i = Len(q) + 1
    BY <1>1
  <2> QED  BY <1>1, <2>1, <2>2 DEF Going
<1>3. ASSUME NEW u \in Going(q) PROVE u \in Going(Append(q, e))
  <2>1. PICK i \in 1..Len(q) : u = q[i]
    BY DEF Going
  <2>2. i \in 1..(Len(q) + 1) /\ u = Append(q, e)[i]
    BY <1>1, <2>1
  <2> QED  BY <1>1, <2>2 DEF Going
<1>4. e \in TickUpdates => e \in Going(Append(q, e))
  <2>1. Len(q) + 1 \in 1..(Len(q) + 1)
    BY <1>1
  <2> QED  BY <1>1, <2>1 DEF Going
<1>5. \A u : u \in Going(Append(q, e)) => u \in TickUpdates
  BY DEF Going
<1> QED  BY <1>2, <1>3, <1>4, <1>5

\* What taking off the first one does.
LEMMA GoingTail ==
    ASSUME NEW S, NEW q \in Seq(S), q # <<>>
    PROVE  /\ Going(Tail(q)) \subseteq Going(q)
           /\ Head(q) \in TickUpdates => Head(q) \in Going(q)
           /\ Sorted(q) /\ Head(q) \in TickUpdates =>
                 \A u \in Going(Tail(q)) : Head(q).pct < u.pct
           /\ Sorted(q) => Sorted(Tail(q))
<1>1. /\ Len(q) \in Nat \ {0} /\ Len(Tail(q)) = Len(q) - 1
      /\ \A i \in 1..(Len(q) - 1) : Tail(q)[i] = q[i + 1]
      /\ Head(q) = q[1]
  BY TailFacts
<1>2. ASSUME NEW u \in Going(Tail(q))
      PROVE  \E i \in 2..Len(q) : u = q[i] /\ u \in TickUpdates
  <2>1. PICK i \in 1..(Len(q) - 1) : u = Tail(q)[i]
    BY <1>1 DEF Going
  <2>2. i + 1 \in 2..Len(q) /\ u = q[i + 1]
    BY <1>1, <2>1
  <2> QED  BY <2>2 DEF Going
<1>3. Going(Tail(q)) \subseteq Going(q)
  <2>1. \A i \in 2..Len(q) : i \in 1..Len(q)
    BY <1>1
  <2> QED  BY <1>2, <2>1 DEF Going
<1>4. 1 \in 1..Len(q) /\ \A i \in 2..Len(q) : i \in 1..Len(q) /\ 1 < i
  BY <1>1
<1>5. Sorted(q) /\ Head(q) \in TickUpdates =>
         \A u \in Going(Tail(q)) : Head(q).pct < u.pct
  BY <1>1, <1>2, <1>4 DEF Sorted
<1>6. ASSUME Sorted(q) PROVE Sorted(Tail(q))
  <2> SUFFICES ASSUME NEW i \in 1..(Len(q) - 1), NEW j \in 1..(Len(q) - 1), i < j,
                      Tail(q)[i] \in TickUpdates, Tail(q)[j] \in TickUpdates
               PROVE  Tail(q)[i].pct < Tail(q)[j].pct
    BY <1>1 DEF Sorted
  <2>1. i + 1 \in 1..Len(q) /\ j + 1 \in 1..Len(q) /\ i + 1 < j + 1
    BY <1>1
  <2> QED  BY <1>1, <1>6, <2>1 DEF Sorted
<1> QED  BY <1>1, <1>3, <1>4, <1>5, <1>6 DEF Going

\* An update newer than all of a queue may be appended to it.
LEMMA SortedAppend ==
    ASSUME NEW S, NEW q \in Seq(S), NEW e \in S, Sorted(q),
           e \in TickUpdates => \A u \in Going(q) : u.pct < e.pct
    PROVE  Sorted(Append(q, e))
<1>1. /\ Len(Append(q, e)) = Len(q) + 1 /\ Len(q) \in Nat
      /\ \A i \in 1..Len(q) : Append(q, e)[i] = q[i]
      /\ Append(q, e)[Len(q) + 1] = e
  BY AppendFacts
<1> SUFFICES ASSUME NEW i \in 1..(Len(q) + 1), NEW j \in 1..(Len(q) + 1), i < j,
                    Append(q, e)[i] \in TickUpdates, Append(q, e)[j] \in TickUpdates
             PROVE  Append(q, e)[i].pct < Append(q, e)[j].pct
  BY <1>1 DEF Sorted
<1>2. i \in 1..Len(q) /\ (j \in 1..Len(q) \/ j = Len(q) + 1)
  BY <1>1
<1>3. CASE j \in 1..Len(q)
  BY <1>1, <1>2, <1>3 DEF Sorted
<1>4. CASE j = Len(q) + 1
  BY <1>1, <1>2, <1>4 DEF Going
<1> QED  BY <1>2, <1>3, <1>4

-----------------------------------------------------------------------------
(* The updates stay in order. *)

\* A step that leaves the queues and the thread's lines alone keeps the order.
LEMMA OrderSame ==
    ASSUME OrderInv, UNCHANGED <<queue, loopQ, tick>>,
           worker' \in {worker, "running", "finished"}
    PROVE  OrderInv' /\ OnTheWay' = OnTheWay
  BY DEF OrderInv, OnTheWay, Going, Sorted, Issued

\* A step that appends to the loop something else than a progress update does.
LEMMA OrderAppend ==
    ASSUME TypeInv, OrderInv, NEW e \in Terminals \cup {Resume},
           loopQ' = Append(loopQ, e), UNCHANGED <<queue, tick>>,
           worker' \in {worker, "finished"}
    PROVE  OrderInv' /\ OnTheWay' = OnTheWay
<1> DEFINE L == TickUpdates \cup Terminals \cup {Resume}
<1>1. loopQ \in Seq(L) /\ e \in L
  BY DEF TypeInv, TypeOK
<1>2. e \notin TickUpdates
  BY UpdateFacts
<1>3. Going(loopQ)' = Going(loopQ) /\ Going(queue)' = Going(queue)
  BY <1>1, <1>2, GoingAppend DEF Going
<1>4. Sorted(loopQ)' /\ Sorted(queue)'
  BY <1>1, <1>2, SortedAppend DEF OrderInv, Sorted
<1> QED  BY <1>3, <1>4 DEF OrderInv, OnTheWay, Issued

\* The shape of every step for the updates on their way.
WayStep ==
    \/ OnTheWay' \subseteq OnTheWay /\ tick' = tick
          /\ worker' \in {worker, "idle", "running", "finished"}
    \/ OnTheWay' = OnTheWay /\ tick' = tick + 1
    \/ OnTheWay' = OnTheWay \cup {Tick(tick)} /\ tick' = tick
          /\ worker = "holding" /\ worker' = "running"

LEMMA OrderStep ==
    TypeInv /\ PhaseInv /\ OrderInv /\ [Next]_vars => OrderInv' /\ WayStep
<1> SUFFICES ASSUME TypeInv, PhaseInv, OrderInv, [Next]_vars PROVE OrderInv' /\ WayStep
  OBVIOUS
<1> DEFINE Q == TickUpdates \cup Terminals
           L == Q \cup {Resume}
<1>types. /\ loopQ \in Seq(L) /\ queue \in Seq(Q) /\ tick \in 0..Ticks
          /\ Ticks \in Nat
  BY TicksAssumption DEF TypeInv, TypeOK
<1>pct. \A u \in OnTheWay : u \in TickUpdates /\ u.pct \in Int
  BY UpdateFacts DEF OnTheWay, Going
<1>same. ASSUME UNCHANGED <<queue, loopQ, tick>>,
                worker' \in {worker, "running", "finished"}
         PROVE  OrderInv' /\ WayStep
  BY <1>same, OrderSame DEF WayStep
<1>fin. ASSUME NEW u \in Terminals, Finalize(u), UNCHANGED <<queue, tick, worker>>
        PROVE  OrderInv' /\ WayStep
  <2>1. CASE loopQ' = Append(loopQ, u)
    BY <1>fin, <2>1, OrderAppend DEF WayStep
  <2>2. CASE loopQ' = loopQ
    BY <1>fin, <2>2, <1>same
  <2> QED  BY <1>fin, <2>1, <2>2 DEF Finalize
<1>1. CASE RenderStep
  <2>1. CASE ResumeRender
    <3>1. Going(loopQ)' \subseteq Going(loopQ) /\ Sorted(loopQ)'
      BY <2>1, <1>types, GoingTail DEF ResumeRender, OrderInv
    <3>2. UNCHANGED <<queue, tick, worker>>
      BY <2>1 DEF ResumeRender
    <3>3. Going(queue)' = Going(queue) /\ Sorted(queue)'
      BY <3>2 DEF Going, Sorted, OrderInv
    <3> QED  BY <3>1, <3>2, <3>3 DEF OrderInv, OnTheWay, Issued, WayStep
  <2>2. CASE FinalizeComplete
    BY <2>2, <1>fin, UpdateFacts DEF FinalizeComplete
  <2>3. CASE RenderFails
    BY <2>3, <1>fin, UpdateFacts DEF RenderFails
  <2>4. CASE ~ResumeRender /\ ~FinalizeComplete /\ ~RenderFails
    BY <1>1, <2>4, <1>same DEF RenderStep, RenderNotFound, Register, MarkRunning,
       StartFails, Prepare, CommitComplete, RecordFailure, RecordFails
  <2> QED  BY <2>1, <2>2, <2>3, <2>4
<1>2. CASE WorkerStep
  <2>1. CASE WorkerLookup
    <3>1. UNCHANGED <<queue, loopQ>> /\ tick' = tick + 1 /\ worker # "holding"
      BY <2>1 DEF WorkerLookup
    <3>2. /\ Going(loopQ)' = Going(loopQ) /\ Going(queue)' = Going(queue)
          /\ Sorted(loopQ)' /\ Sorted(queue)'
      BY <3>1 DEF Going, Sorted, OrderInv
    <3>3. \A u \in OnTheWay : Issued(u)'
      BY <3>1, <1>types, <1>pct DEF OrderInv, Issued
    <3> QED  BY <3>1, <3>2, <3>3 DEF OrderInv, OnTheWay, WayStep
  <2>2. CASE WorkerSchedule
    <3>1. /\ loopQ' = Append(loopQ, Tick(tick)) /\ UNCHANGED <<queue, tick>>
          /\ worker = "holding" /\ worker' = "running"
      BY <2>2 DEF WorkerSchedule
    <3>2. Tick(tick) \in TickUpdates /\ Tick(tick).pct = tick
      BY <2>2, UpdateFacts DEF WorkerSchedule, TypeInv, TypeOK
    <3>3. \A u \in OnTheWay : u.pct < tick
      BY <3>1 DEF OrderInv, Issued
    <3>4. Sorted(loopQ)' /\ Sorted(queue)'
      <4>1. Tick(tick) \in L /\ Sorted(loopQ)
            /\ \A u \in Going(loopQ) : u.pct < Tick(tick).pct
        BY <3>2, <3>3 DEF OrderInv, OnTheWay
      <4>2. Sorted(Append(loopQ, Tick(tick)))
        BY <4>1, <1>types, SortedAppend
      <4> QED  BY <3>1, <4>2 DEF OrderInv, Sorted
    <3>5. /\ Going(loopQ)' = Going(loopQ) \cup {Tick(tick)}
          /\ Going(queue)' = Going(queue)
      <4>1. Going(Append(loopQ, Tick(tick))) = Going(loopQ) \cup {Tick(tick)}
        BY <3>2, <1>types, GoingAppend
      <4> QED  BY <3>1, <4>1 DEF Going
    <3>6. \A u \in OnTheWay \cup {Tick(tick)} : Issued(u)'
      BY <3>1, <3>2, <1>types DEF OrderInv, Issued
    <3> QED  BY <3>1, <3>2, <3>3, <3>4, <3>5, <3>6 DEF OrderInv, OnTheWay, WayStep
  <2>3. CASE WorkerFinish
    BY <2>3, OrderAppend DEF WorkerFinish, WayStep
  <2> QED  BY <1>2, <2>1, <2>2, <2>3 DEF WorkerStep
<1>3. CASE DeliverUpdate
  <2> DEFINE e == Head(loopQ)
  <2>1. /\ loopQ # <<>> /\ loopQ' = Tail(loopQ) /\ queue' = Append(queue, e)
        /\ UNCHANGED <<tick, worker>>
    BY <1>3 DEF DeliverUpdate, renderVars
  <2>2. e \in Q
    BY <1>3, <1>types, TailFacts DEF DeliverUpdate
  <2>3. /\ Going(loopQ)' \subseteq Going(loopQ) /\ Sorted(loopQ)'
        /\ e \in TickUpdates => /\ e \in Going(loopQ)
                                /\ \A u \in Going(loopQ)' : e.pct < u.pct
    BY <2>1, <1>types, GoingTail DEF OrderInv
  <2>4. Going(queue)' = IF e \in TickUpdates THEN Going(queue) \cup {e} ELSE Going(queue)
    BY <2>1, <2>2, <1>types, GoingAppend
  <2>5. Sorted(queue)'
    BY <2>1, <2>2, <2>3, <1>types, SortedAppend DEF OrderInv
  <2>6. OnTheWay' \subseteq OnTheWay
    BY <2>3, <2>4 DEF OnTheWay
  <2>7. \A u \in Going(queue)', v \in Going(loopQ)' : u.pct < v.pct
    BY <2>3, <2>4 DEF OrderInv
  <2> QED  BY <2>1, <2>3, <2>5, <2>6, <2>7 DEF OrderInv, Issued, WayStep
<1>4. CASE DeleteStep
  BY <1>4, <1>same DEF DeleteStep, DeleteCheck, DeleteCommit, renderVars
<1>5. ASSUME NEW s \in Clients, ClientStep(s) PROVE OrderInv' /\ WayStep
  <2>1. CASE Take(s)
    <3>1. UNCHANGED <<loopQ, tick, worker>> /\ queue # <<>> /\ queue' = Tail(queue)
      BY <2>1 DEF Take, renderVars
    <3>2. Going(queue)' \subseteq Going(queue) /\ Sorted(queue)'
      BY <3>1, <1>types, GoingTail DEF OrderInv
    <3>3. Going(loopQ)' = Going(loopQ) /\ Sorted(loopQ)'
      BY <3>1 DEF Going, Sorted, OrderInv
    <3> QED  BY <3>1, <3>2, <3>3 DEF OrderInv, OnTheWay, Issued, WayStep
  <2>2. CASE ~Take(s)
    BY <1>5, <2>2, <1>same DEF ClientStep, ServeStep, Connect, Leave, SendTerminal,
       SendPending, Subscribe, Send, PollDisconnect, CancelStream, renderVars
  <2> QED  BY <2>1, <2>2
<1>6. CASE UNCHANGED vars
  BY <1>6, <1>same DEF vars
<1>7. CASE Restart
  <2>1. /\ loopQ' = <<>> /\ queue' = <<>> /\ tick' = tick /\ worker' = "idle"
    BY <1>7 DEF Restart
  <2>2. OnTheWay' = {} /\ Sorted(loopQ)' /\ Sorted(queue)' /\ Going(queue)' = {}
    BY <2>1 DEF OnTheWay, Going, Sorted
  <2> QED  BY <2>1, <2>2 DEF OrderInv, WayStep
<1> QED  BY <1>1, <1>2, <1>3, <1>4, <1>5, <1>6, <1>7 DEF Next

-----------------------------------------------------------------------------
(* The clients. *)

\* What a client has read stays older than what is still on its way.
LEMMA PassedStep ==
    ASSUME TypeInv, WayStep, NEW u \in TickUpdates, Passed(u)
    PROVE  Passed(u)'
<1>types. u.pct \in Int /\ tick \in Int
  BY UpdateFacts DEF TypeInv, TypeOK
<1>pct. \A v \in OnTheWay : v.pct \in Int
  BY UpdateFacts DEF OnTheWay, Going
<1>1. CASE OnTheWay' \subseteq OnTheWay /\ tick' = tick
           /\ worker' \in {worker, "idle", "running", "finished"}
  BY <1>1 DEF Passed, Issued
<1>2. CASE OnTheWay' = OnTheWay /\ tick' = tick + 1
  BY <1>2, <1>types DEF Passed, Issued
<1>3. CASE OnTheWay' = OnTheWay \cup {Tick(tick)} /\ tick' = tick
           /\ worker = "holding" /\ worker' = "running"
  <2>1. Tick(tick).pct = tick
    BY DEF Tick, Update
  <2> QED  BY <1>3, <2>1 DEF Passed, Issued
<1> QED  BY <1>1, <1>2, <1>3 DEF WayStep

LEMMA ClientStepInv ==
    TypeInv /\ OrderInv /\ ClientInv /\ WayStep /\ [Next]_vars => ClientInv'
<1> SUFFICES ASSUME TypeInv, OrderInv, ClientInv, WayStep, [Next]_vars PROVE ClientInv'
  OBVIOUS
<1> DEFINE Q == TickUpdates \cup Terminals
<1>types. /\ queue \in Seq(Q) /\ client \in [Clients -> ClientStates]
          /\ hand \in [Clients -> Q \cup {NoUpdate}] /\ frame \in [Clients -> Frames]
          /\ terminal \in Terminals \cup {NoUpdate}
  BY DEF TypeInv, TypeOK
<1>out. /\ NoUpdate \notin TickUpdates /\ Pending \notin TickUpdates
        /\ \A u \in Terminals : u \notin TickUpdates
        /\ \A u \in TickUpdates : u.pct \in 1..Ticks /\ ~IsTerminal(u)
        /\ \A u \in Terminals : IsTerminal(u)
        /\ NoUpdate.pct = 0
  BY UpdateFacts
<1>passed. \A u \in TickUpdates : Passed(u) => Passed(u)'
  BY PassedStep
<1>same. ASSUME UNCHANGED <<client, hand, frame>> PROVE ClientInv'
  BY <1>same, <1>passed DEF ClientInv
<1>1. CASE RenderStep \/ WorkerStep \/ DeliverUpdate \/ DeleteStep \/ UNCHANGED vars
  <2>1. UNCHANGED <<client, hand, frame>>
    BY <1>1 DEF RenderStep, RenderNotFound, Register, MarkRunning, StartFails,
       Prepare, ResumeRender, CommitComplete, FinalizeComplete, RenderFails,
       RecordFailure, RecordFails, WorkerStep, WorkerLookup, WorkerSchedule,
       WorkerFinish, DeliverUpdate, DeleteStep, DeleteCheck, DeleteCommit,
       clientVars, vars
  <2> QED  BY <2>1, <1>same
<1>2. ASSUME NEW s \in Clients, ClientStep(s) PROVE ClientInv'
  \* The other clients are as they were.
  <2>move. ASSUME NEW state \in ClientStates, client' = [client EXCEPT ![s] = state],
                  UNCHANGED <<hand, frame>>,
                  state \notin {"off", "admitted", "sending"},
                  state = "listening" => client[s] \in {"off", "admitted", "listening"}
           PROVE  ClientInv'
    BY <2>move, <1>types, <1>passed DEF ClientInv
  <2>emit. ASSUME NEW u, NEW state \in {"listening", "closed"}, Emit(s, u),
                  client' = [client EXCEPT ![s] = state], UNCHANGED hand,
                  state = "listening" => client[s] = "sending" /\ u \in TickUpdates,
                  u \in TickUpdates => Passed(u)
           PROVE  ClientInv'
    BY <2>emit, <1>types, <1>passed, <1>out DEF ClientInv, Emit
  <2>1. CASE Connect(s)
    BY <2>1, <1>types, <1>passed DEF Connect, ClientInv
  <2>2. CASE SendTerminal(s)
    BY <2>2, <2>emit, <1>types, <1>out DEF SendTerminal
  <2>3. CASE SendPending(s)
    BY <2>3, <2>emit, <1>out DEF SendPending
  <2>4. CASE Subscribe(s)
    BY <2>4, <2>move DEF Subscribe, ClientStates
  <2>5. CASE Take(s)
    <3>e. PICK e : e = Head(queue)
      OBVIOUS
    <3>1. /\ client[s] = "listening" /\ queue # <<>> /\ queue' = Tail(queue)
          /\ hand' = [hand EXCEPT ![s] = e]
          /\ client' = [client EXCEPT ![s] = "sending"] /\ UNCHANGED <<loopQ, frame>>
          /\ UNCHANGED <<tick, worker>>
      BY <2>5, <3>e DEF Take, renderVars
    <3>2. e \in Q
      BY <3>1, <3>e, <1>types, TailFacts
    <3>3. e \in TickUpdates => Passed(e)' /\ e \in OnTheWay
      <4>1. ASSUME e \in TickUpdates PROVE Passed(e)' /\ e \in OnTheWay
        <5>1. e \in Going(queue) /\ \A u \in Going(queue)' : e.pct < u.pct
          BY <3>1, <3>e, <4>1, <1>types, GoingTail DEF OrderInv
        <5>2. \A v \in Going(loopQ) : e.pct < v.pct
          BY <5>1 DEF OrderInv
        <5>3. Going(loopQ)' = Going(loopQ)
          BY <3>1 DEF Going
        <5>4. Issued(e)'
          BY <3>1, <5>1 DEF OrderInv, OnTheWay, Issued
        <5> QED  BY <5>1, <5>2, <5>3, <5>4 DEF Passed, OnTheWay
      <4> QED  BY <4>1
    <3>4. e \in TickUpdates => frame[s].pct < e.pct
      BY <3>1, <3>3, <1>out DEF ClientInv, Passed
    <3>5. e # NoUpdate
      BY <3>2, UpdateFacts
    <3>6. ASSUME NEW r \in Clients, r # s
          PROVE  /\ client'[r] = client[r] /\ hand'[r] = hand[r]
                 /\ frame'[r] = frame[r]
      BY <3>1, <3>6, <1>types
    <3>7. /\ client'[s] = "sending" /\ hand'[s] = e /\ frame'[s] = frame[s]
          /\ frame[s] = NoUpdate \/ frame[s] \in TickUpdates
      BY <3>1, <1>types DEF ClientInv
    <3> QED  BY <3>3, <3>4, <3>5, <3>6, <3>7, <1>passed DEF ClientInv
  <2>6. CASE Send(s)
    <3>1. hand[s] # NoUpdate /\ hand[s] \in Q
          /\ (hand[s] \in TickUpdates => Passed(hand[s]))
      BY <2>6, <1>types DEF Send, ClientInv
    <3>2. IsTerminal(hand[s]) \/ hand[s] \in TickUpdates
      BY <3>1, <1>out
    <3> QED  BY <2>6, <3>1, <3>2, <2>emit DEF Send
  <2>7. CASE PollDisconnect(s)
    BY <2>7, <2>move DEF PollDisconnect, ClientStates
  <2>8. CASE CancelStream(s)
    BY <2>8, <2>move DEF CancelStream, ClientStates
  <2>9. CASE Leave(s)
    BY <2>9, <1>same DEF Leave
  <2> QED  BY <1>2, <2>1, <2>2, <2>3, <2>4, <2>5, <2>6, <2>7, <2>8, <2>9
              DEF ClientStep, ServeStep
<1>3. CASE Restart
  <2>1. /\ UNCHANGED frame
        /\ \A s \in Clients : /\ hand'[s] = NoUpdate
                             /\ client'[s] \in {client[s], "dropped"}
                             /\ client'[s] \notin {"listening", "sending"}
    BY <1>3, <1>types DEF Restart
  <2> QED  BY <2>1, <1>out, <1>passed DEF ClientInv
<1> QED  BY <1>1, <1>2, <1>3 DEF Next

-----------------------------------------------------------------------------
(* The refinement. *)

FeedInv == FullInv /\ OrderInv /\ ClientInv

LEMMA FeedInvariant == Spec => []FeedInv
<1>1. Init => OrderInv /\ ClientInv
  <2>1. ASSUME Init PROVE OnTheWay = {} /\ OrderInv
    BY <2>1 DEF Init, OnTheWay, Going, Sorted, OrderInv
  <2>2. ASSUME Init PROVE ClientInv
    BY <2>2, UpdateFacts DEF Init, ClientInv
  <2> QED  BY <2>1, <2>2
<1>2. FeedInv /\ FullInv' /\ [Next]_vars => FeedInv'
  BY OrderStep, ClientStepInv DEF FeedInv, FullInv, BaseInv
<1> QED  BY <1>1, <1>2, FullInvariant, PTL DEF Spec, FeedInv

\* The abstract module's names for the updates are this one's.
LEMMA SameUpdates ==
    /\ Feed!NoUpdate = NoUpdate /\ Feed!Pending = Pending
    /\ Feed!Terminals = Terminals /\ Feed!Lost = Lost
    /\ \A k : Feed!Update("running", k) = Tick(k)
    /\ Lost # NoUpdate /\ Lost \notin Terminals
<1>1. /\ Feed!NoUpdate = NoUpdate /\ Feed!Pending = Pending
      /\ Feed!Terminals = Terminals /\ Feed!Lost = Lost
      /\ \A k : Feed!Update("running", k) = Tick(k)
  BY DEF Feed!NoUpdate, Feed!Pending, Feed!Terminals, Feed!Update, Feed!Lost,
     NoUpdate, Pending, Terminals, Complete, Failed, Lost, Tick, Update
<1>2. Lost.status = "lost"
  BY DEF Lost, Update
<1>3. NoUpdate.status = "none" /\ Complete.status = "complete" /\ Failed.status = "failed"
  BY DEF NoUpdate, Complete, Failed, Update
<1>4. Lost # NoUpdate /\ Lost # Complete /\ Lost # Failed
  BY <1>2, <1>3
<1> QED  BY <1>1, <1>4 DEF Terminals

LEMMA FeedStep == FeedInv /\ [Next]_vars => [Feed!Next]_<<Outcome, frame>>
<1> SUFFICES ASSUME FeedInv, [Next]_vars PROVE [Feed!Next]_<<Outcome, frame>>
  OBVIOUS
<1>inv. TypeInv /\ PhaseInv /\ SettledInv /\ LostInv /\ ClientInv
  BY DEF FeedInv, FullInv, BaseInv
<1>types. /\ hand \in [Clients -> TickUpdates \cup Terminals \cup {NoUpdate}]
          /\ frame \in [Clients -> Frames]
          /\ terminal \in Terminals \cup {NoUpdate}
  BY <1>inv DEF TypeInv, TypeOK
<1>known. render # "lost" => Outcome = terminal
  BY DEF Outcome
<1>same. ASSUME UNCHANGED <<terminal, frame>>,
                UNCHANGED render \/ (render # "lost" /\ render' # "lost")
         PROVE  UNCHANGED <<Outcome, frame>>
  BY <1>same DEF Outcome
<1>decide. ASSUME NEW u \in Terminals, Finalize(u), terminal = NoUpdate, UNCHANGED frame,
                  render # "lost", render' # "lost"
           PROVE  Feed!Next
  <2>1. Outcome = NoUpdate /\ Outcome' = u
    BY <1>decide DEF Outcome, Finalize
  <2> QED  BY <1>decide, <2>1, SameUpdates DEF Feed!Next, Feed!Decide
<1>open. ASSUME NEW s \in Clients, frame[s] = NoUpdate \/ frame[s] \in TickUpdates
         PROVE  Feed!Open(s)
  <2>1. NoUpdate.status = "none"
    BY DEF NoUpdate, Update
  <2> QED  BY <1>open, <2>1, UpdateFacts DEF Feed!Open
<1>outcome. ASSUME NEW s \in Clients, frame[s] = NoUpdate \/ frame[s] \in TickUpdates,
                   terminal # NoUpdate, Emit(s, terminal), UNCHANGED <<terminal, render>>
            PROVE  Feed!Next \/ UNCHANGED <<Outcome, frame>>
  <2>1. render # "lost"
    BY <1>outcome, <1>inv DEF PhaseInv
  <2>2. Outcome = terminal /\ Outcome' = Outcome /\ terminal \in Terminals
    BY <1>outcome, <2>1, <1>types DEF Outcome
  <2> QED  BY <1>outcome, <2>2, <1>open, SameUpdates DEF Emit, Feed!Next,
              Feed!ShowOutcome
<1>1. CASE RenderStep
  <2>1. CASE FinalizeComplete
    <3>1. /\ terminal = NoUpdate /\ UNCHANGED frame /\ Finalize(Complete)
          /\ render # "lost" /\ render' # "lost" /\ Complete \in Terminals
      BY <2>1, <1>inv, UpdateFacts DEF FinalizeComplete, PhaseInv, clientVars
    <3> QED  BY <3>1, <1>decide
  <2>2. CASE RenderFails
    <3>1. /\ terminal = NoUpdate /\ UNCHANGED frame /\ Finalize(Failed)
          /\ render # "lost" /\ render' # "lost" /\ Failed \in Terminals
      BY <2>2, <1>inv, UpdateFacts DEF RenderFails, PhaseInv, clientVars
    <3> QED  BY <3>1, <1>decide
  <2>res. ResumeRender => render # "lost"
    BY <1>inv, ResumeOnlyWhenCompiling DEF ResumeRender
  <2>3. CASE ~FinalizeComplete /\ ~RenderFails
    BY <1>1, <2>3, <2>res, <1>same DEF RenderStep, RenderNotFound, Register,
       MarkRunning, StartFails, Prepare, ResumeRender, CommitComplete, RecordFailure,
       RecordFails, registryVars, clientVars
  <2> QED  BY <2>1, <2>2, <2>3
<1>2. CASE WorkerStep \/ DeliverUpdate \/ DeleteStep \/ UNCHANGED vars
  BY <1>2, <1>same DEF WorkerStep, WorkerLookup, WorkerSchedule, WorkerFinish,
     DeliverUpdate, DeleteStep, DeleteCheck, DeleteCommit, registryVars, renderVars,
     clientVars, vars
<1>3. ASSUME NEW s \in Clients, ClientStep(s) PROVE [Feed!Next]_<<Outcome, frame>>
  <2>1. CASE SendTerminal(s)
    <3>1. frame[s] = NoUpdate
      BY <2>1, <1>inv DEF SendTerminal, ClientInv
    <3> QED  BY <2>1, <3>1, <1>outcome DEF SendTerminal, registryVars, renderVars
  <2>2. CASE SendPending(s)
    <3>1. frame[s] = NoUpdate /\ UNCHANGED Outcome
      BY <2>2, <1>inv DEF SendPending, ClientInv, registryVars, renderVars, Outcome
    <3> QED  BY <2>2, <3>1, SameUpdates DEF SendPending, Emit, Feed!Next,
                Feed!ShowPending
  <2>3. CASE Send(s)
    <3>1. /\ client[s] = "sending" /\ Emit(s, hand[s]) /\ UNCHANGED <<terminal, render>>
          /\ frame[s] = NoUpdate \/ frame[s] \in TickUpdates
          /\ hand[s] # NoUpdate
      BY <2>3, <1>inv DEF Send, ClientInv, registryVars, renderVars
    <3>2. CASE hand[s] \in Terminals
      BY <3>1, <3>2, <1>inv, <1>outcome, UpdateFacts DEF SettledInv
    <3>3. CASE hand[s] \in TickUpdates
      <4> DEFINE k == hand[s].pct
      <4>1. frame[s].pct < k /\ k \in 1..Ticks /\ hand[s] = Tick(k)
        BY <3>1, <3>3, <1>inv, UpdateFacts DEF ClientInv
      <4>2. frame[s].pct \in Int
        BY <3>1, UpdateFacts
      <4>3. k \in (frame[s].pct + 1)..Ticks
        BY <4>1, <4>2, TicksAssumption
      <4>4. hand[s] = Feed!Update("running", k)
        BY <4>1, SameUpdates
      <4>5. render # "lost"
        BY <3>1, <1>inv DEF LostInv
      <4>6. Outcome # Lost /\ UNCHANGED Outcome
        BY <3>1, <4>5, <1>known, <1>types, SameUpdates DEF Outcome
      <4> QED  BY <3>1, <4>3, <4>4, <4>6, <1>open, SameUpdates
               DEF Emit, Feed!Next, Feed!ShowProgress
    <3> QED  BY <1>types, <3>1, <3>2, <3>3
  <2>4. CASE ~SendTerminal(s) /\ ~SendPending(s) /\ ~Send(s)
    BY <1>3, <2>4, <1>same DEF ClientStep, ServeStep, Connect, Leave, Subscribe, Take,
       PollDisconnect, CancelStream, registryVars, renderVars
  <2> QED  BY <2>1, <2>2, <2>3, <2>4
<1>4. CASE Restart
  <2>1. Outcome' = Lost /\ UNCHANGED frame
    BY <1>4 DEF Restart, Outcome
  <2> QED  BY <2>1, SameUpdates DEF Feed!Next, Feed!Forget
<1> QED  BY <1>1, <1>2, <1>3, <1>4 DEF Next

\* The registry, the thread, the loop and the generators together keep the
\* promise of the abstract feed: each client sees progress that only grows, then
\* at most one final frame, which is the render's outcome, and nothing after it;
\* after a restart the outcome is told to nobody any more.
THEOREM FeedRefinement == Spec => FeedSpec
<1>1. Init => Feed!Init
  BY SameUpdates DEF Init, Feed!Init, Outcome
<1>2. FeedInv /\ [Next]_vars => [Feed!Next]_<<Outcome, frame>>
  BY FeedStep
<1> QED  BY <1>1, <1>2, FeedInvariant, PTL DEF Spec, FeedSpec, Feed!Spec

=============================================================================
