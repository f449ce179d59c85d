--------------------------- MODULE RenderProgress ---------------------------
(***************************************************************************)
(* How the progress of one render reaches the clients that watch it.       *)
(*                                                                         *)
(*   - the registry of domains/compilations/progress.py: one asyncio.Queue *)
(*     per running compilation and one terminal update once it has ended;  *)
(*   - the render coroutine, CompilationService.run_compilation, as far as *)
(*     it touches the registry and the status of the compilation's row;    *)
(*   - the worker thread that reads ffmpeg's progress lines and pushes an  *)
(*     update for each with loop.call_soon_threadsafe;                     *)
(*   - the event loop's FIFO of scheduled callbacks;                       *)
(*   - the SSE generator of GET /compilations/{id}/events, one per client; *)
(*   - a concurrent DELETE of the compilation;                             *)
(*   - a restart of the service, which keeps the row and nothing else: the *)
(*     registry is two dicts of the process, and the start neither fills   *)
(*     them again nor resumes a render.                                    *)
(*                                                                         *)
(* The registry is keyed by compilation and no two keys interact, so one   *)
(* compilation is modelled.  A step is what runs between two awaits of a   *)
(* coroutine, or between two operations of the worker thread on what it    *)
(* shares with the loop.                                                   *)
(***************************************************************************)
EXTENDS Integers, Sequences, FiniteSets

CONSTANTS
    Clients,   \* SSE connections; a client that reconnects is a new one
    Ticks,     \* bound: progress lines ffmpeg prints; Ticks stands for 100%
    Env        \* what the environment may do, a subset of EnvEvents

EnvEvents == {"disconnect",      \* a client goes away
              "delete",          \* somebody calls DELETE /compilations/{id}
              "start_fails",     \* "running" is not committed, or no temp file
              "render_fails",    \* preparing, ffmpeg, saving or committing
              "record_fails",    \* the commit of "failed" times out
              "restart"}         \* the process dies and is started again

ASSUME TicksAssumption == Ticks \in Nat
ASSUME EnvAssumption == Env \subseteq EnvEvents

VARIABLES
    row,       \* status of the committed row, "absent" once deleted
    deleter,   \* the DELETE handler: "idle", "checked" or "done"
    chan,      \* the entry of _channels: never made, present, who popped it, or
               \* "lost" with the process
    terminal,  \* the entry of _terminal, NoUpdate if there is none
    render,    \* where run_compilation is
    worker,    \* where the ffmpeg worker thread is
    tick,      \* progress lines read so far
    loopQ,     \* callbacks handed to call_soon_threadsafe and not yet run
    queue,     \* the compilation's asyncio.Queue
    client,    \* where each SSE generator is
    hand,      \* the update each generator took last from the queue
    frame,     \* the last data frame each client received
    gone       \* whether the client closed its connection

dbVars == <<row, deleter>>
registryVars == <<chan, terminal>>
renderVars == <<render, worker, tick>>
clientVars == <<client, hand, frame, gone>>
vars == <<row, deleter, chan, terminal, render, worker, tick, loopQ, queue,
          client, hand, frame, gone>>

-----------------------------------------------------------------------------
\* ProgressUpdate: its status and its percentage tell the properties apart,
\* video_url and error do not.
Update(status, pct) == [status |-> status, pct |-> pct]

Tick(k)  == Update("running", k)
Complete == Update("complete", Ticks)
Failed   == Update("failed", 0)
Pending  == Update("pending", 0)     \* the literal frame of the SSE handler
NoUpdate == Update("none", 0)
Resume   == Update("resume", 0)      \* the callback that wakes run_compilation

TickUpdates == {Tick(k) : k \in 1..Ticks}
Terminals   == {Complete, Failed}
Frames      == TickUpdates \cup Terminals \cup {Pending, NoUpdate}

IsTerminal(u) == u.status \in {"complete", "failed"}

RenderStates == {"queued", "starting", "preparing", "compiling", "rendered",
                 "committed", "recording", "ended", "aborted", "lost"}
ClientStates == {"off", "admitted", "listening", "sending", "closed",
                 "dropped"}

TypeOK ==
    /\ row \in {"pending", "running", "complete", "failed", "absent"}
    /\ deleter \in {"idle", "checked", "done"}
    /\ chan \in {"unregistered", "open", "finalized", "removed", "lost"}
    /\ terminal \in Terminals \cup {NoUpdate}
    /\ render \in RenderStates
    /\ worker \in {"idle", "running", "holding", "finished"}
    /\ tick \in 0..Ticks
    /\ loopQ \in Seq(TickUpdates \cup Terminals \cup {Resume})
    /\ queue \in Seq(TickUpdates \cup Terminals)
    /\ client \in [Clients -> ClientStates]
    /\ hand \in [Clients -> TickUpdates \cup Terminals \cup {NoUpdate}]
    /\ frame \in [Clients -> Frames]
    /\ gone \in [Clients -> BOOLEAN]

\* POST /compilations has committed the pending row and scheduled _run_render.
Init ==
    /\ row = "pending"
    /\ deleter = "idle"
    /\ chan = "unregistered"
    /\ terminal = NoUpdate
    /\ render = "queued"
    /\ worker = "idle"
    /\ tick = 0
    /\ loopQ = <<>>
    /\ queue = <<>>
    /\ client = [s \in Clients |-> "off"]
    /\ hand = [s \in Clients |-> NoUpdate]
    /\ frame = [s \in Clients |-> NoUpdate]
    /\ gone = [s \in Clients |-> FALSE]

-----------------------------------------------------------------------------
(* The registry's operations, as the coroutines use them. *)

\* Fault: the terminal update goes to the channel and is not stored.
FinalizeUnstored(u) ==
    /\ UNCHANGED terminal
    /\ IF chan = "open"
         THEN /\ chan' = "finalized"
              /\ loopQ' = Append(loopQ, u)
         ELSE UNCHANGED <<chan, loopQ>>

\* Fault: the channel is popped and nobody is told.
FinalizeSilently(u) ==
    /\ terminal' = u
    /\ chan' = IF chan = "open" THEN "finalized" ELSE chan
    /\ UNCHANGED loopQ

\* progress.finalize: store the terminal update, pop the channel and, when
\* there was one, schedule the terminal update behind everything scheduled.
Finalize(u) ==
    /\ terminal' = u
    /\ IF chan = "open"
         THEN /\ chan' = "finalized"
              /\ loopQ' = Append(loopQ, u)
         ELSE UNCHANGED <<chan, loopQ>>

\* progress.unsubscribe: pop the channel if it is still there.
Unsubscribe ==
    chan' = IF chan = "open" THEN "removed" ELSE chan

-----------------------------------------------------------------------------
(* run_compilation. *)

\* The row was deleted before the background task loaded it.
RenderNotFound ==
    /\ render = "queued"
    /\ row = "absent"
    /\ render' = "ended"
    /\ UNCHANGED <<dbVars, registryVars, worker, tick, loopQ, queue, clientVars>>

\* get_with_clips finds the row; _register opens the channel.
Register ==
    /\ render = "queued"
    /\ row # "absent"
    /\ chan' = "open"
    /\ render' = "starting"
    /\ UNCHANGED <<dbVars, terminal, worker, tick, loopQ, queue, clientVars>>

\* status = running, add, commit.
MarkRunning ==
    /\ render = "starting"
    /\ row # "absent"
    /\ row' = "running"
    /\ render' = "preparing"
    /\ UNCHANGED <<deleter, registryVars, worker, tick, loopQ, queue, clientVars>>

\* That update fails, the row is gone (StaleDataError) or the database stays
\* locked; or the temporary file cannot be made after it.  Both come before the
\* try block, so nothing finalizes the channel.
StartFails ==
    /\ \/ render = "starting" /\ row = "absent"
       \/ render \in {"starting", "preparing"} /\ "start_fails" \in Env
    /\ render' = "aborted"
    /\ UNCHANGED <<dbVars, registryVars, worker, tick, loopQ, queue, clientVars>>

\* The clip specs and the soundtrack resolve; compile_video starts the thread.
Prepare ==
    /\ render = "preparing"
    /\ render' = "compiling"
    /\ worker' = "running"
    /\ UNCHANGED <<dbVars, registryVars, tick, loopQ, queue, clientVars>>

\* The thread's result comes back through the same FIFO as its updates.
ResumeRender ==
    /\ loopQ # <<>>
    /\ Head(loopQ) = Resume
    /\ loopQ' = Tail(loopQ)
    /\ render' = "rendered"
    /\ UNCHANGED <<dbVars, registryVars, worker, tick, queue, clientVars>>

\* Fault: the clients are told before anything is committed.
CommitCompleteLater ==
    /\ render = "rendered"
    /\ row # "absent"
    /\ render' = "committed"
    /\ UNCHANGED <<dbVars, registryVars, worker, tick, loopQ, queue, clientVars>>

\* The output is saved, the row set to complete and committed.
CommitComplete ==
    /\ render = "rendered"
    /\ row # "absent"
    /\ row' = "complete"
    /\ render' = "committed"
    /\ UNCHANGED <<deleter, registryVars, worker, tick, loopQ, queue, clientVars>>

\* Only after the commit are the clients told.
FinalizeComplete ==
    /\ render = "committed"
    /\ Finalize(Complete)
    /\ render' = "ended"
    /\ UNCHANGED <<dbVars, worker, tick, queue, clientVars>>

\* Fault: the handler records the failure without finalizing.
RenderFailsSilently ==
    /\ \/ render \in {"preparing", "rendered"} /\ "render_fails" \in Env
       \/ render = "rendered" /\ row = "absent"
    /\ render' = "recording"
    /\ UNCHANGED <<dbVars, registryVars, worker, tick, loopQ, queue, clientVars>>

\* Anything in the try block raises: the handler finalizes the channel first.
RenderFails ==
    /\ \/ render \in {"preparing", "rendered"} /\ "render_fails" \in Env
       \/ render = "rendered" /\ row = "absent"
    /\ Finalize(Failed)
    /\ render' = "recording"
    /\ UNCHANGED <<dbVars, worker, tick, queue, clientVars>>

\* Rollback, load the row again and, if it is there, commit the failure.
RecordFailure ==
    /\ render = "recording"
    /\ row' = IF row = "absent" THEN "absent" ELSE "failed"
    /\ render' = "ended"
    /\ UNCHANGED <<deleter, registryVars, worker, tick, loopQ, queue, clientVars>>

\* That commit fails in its turn and the exception leaves the task.
RecordFails ==
    /\ render = "recording"
    /\ "record_fails" \in Env
    /\ render' = "ended"
    /\ UNCHANGED <<dbVars, registryVars, worker, tick, loopQ, queue, clientVars>>

-----------------------------------------------------------------------------
(* The worker thread: _run_ffmpeg_with_progress_sync and push_from_thread. *)

\* Fault: the percentage is not capped at 100.
WorkerLookupUncapped ==
    /\ worker = "running"
    /\ tick <= Ticks
    /\ tick' = tick + 1
    /\ worker' = IF chan = "open" THEN "holding" ELSE "running"
    /\ UNCHANGED <<dbVars, registryVars, render, loopQ, queue, clientVars>>

\* A progress line: look the channel up; without one there is nothing to do.
WorkerLookup ==
    /\ worker = "running"
    /\ tick < Ticks
    /\ tick' = tick + 1
    /\ worker' = IF chan = "open" THEN "holding" ELSE "running"
    /\ UNCHANGED <<dbVars, registryVars, render, loopQ, queue, clientVars>>

\* call_soon_threadsafe(queue.put_nowait, update) on the channel looked up.
WorkerSchedule ==
    /\ worker = "holding"
    /\ loopQ' = Append(loopQ, Tick(tick))
    /\ worker' = "running"
    /\ UNCHANGED <<dbVars, registryVars, render, tick, queue, clientVars>>

\* Fault: the result overtakes the updates scheduled before it.
WorkerFinishAhead ==
    /\ worker = "running"
    /\ loopQ' = <<Resume>> \o loopQ
    /\ worker' = "finished"
    /\ UNCHANGED <<dbVars, registryVars, render, tick, queue, clientVars>>

\* ffmpeg is done, whatever its exit code; anyio schedules the result.
WorkerFinish ==
    /\ worker = "running"
    /\ loopQ' = Append(loopQ, Resume)
    /\ worker' = "finished"
    /\ UNCHANGED <<dbVars, registryVars, render, tick, queue, clientVars>>

\* Fault: the queue is filled from the wrong end.
DeliverUpdateInFront ==
    /\ loopQ # <<>>
    /\ Head(loopQ) # Resume
    /\ loopQ' = Tail(loopQ)
    /\ queue' = <<Head(loopQ)>> \o queue
    /\ UNCHANGED <<dbVars, registryVars, renderVars, clientVars>>

\* The event loop runs a scheduled put_nowait.
DeliverUpdate ==
    /\ loopQ # <<>>
    /\ Head(loopQ) # Resume
    /\ loopQ' = Tail(loopQ)
    /\ queue' = Append(queue, Head(loopQ))
    /\ UNCHANGED <<dbVars, registryVars, renderVars, clientVars>>

-----------------------------------------------------------------------------
(* DELETE /compilations/{id}: the status is checked when the row is read,  *)
(* the row goes when the transaction commits.                              *)

DeleteCheck ==
    /\ "delete" \in Env
    /\ deleter = "idle"
    /\ row \in {"pending", "complete", "failed"}
    /\ deleter' = "checked"
    /\ UNCHANGED <<row, registryVars, renderVars, loopQ, queue, clientVars>>

DeleteCommit ==
    /\ deleter = "checked"
    /\ deleter' = "done"
    /\ row' = "absent"
    /\ UNCHANGED <<registryVars, renderVars, loopQ, queue, clientVars>>

-----------------------------------------------------------------------------
(* GET /compilations/{id}/events. *)

\* service.get found the row; the response starts streaming _generate().
Connect(s) ==
    /\ client[s] = "off"
    /\ row # "absent"
    /\ client' = [client EXCEPT ![s] = "admitted"]
    /\ UNCHANGED <<dbVars, registryVars, renderVars, loopQ, queue, hand, frame, gone>>

\* A frame written to a closed connection is dropped.
Emit(s, u) == frame' = IF gone[s] THEN frame ELSE [frame EXCEPT ![s] = u]

SendTerminal(s) ==
    /\ client[s] = "admitted"
    /\ terminal # NoUpdate
    /\ Emit(s, terminal)
    /\ client' = [client EXCEPT ![s] = "closed"]
    /\ UNCHANGED <<dbVars, registryVars, renderVars, loopQ, queue, hand, gone>>

SendPending(s) ==
    /\ client[s] = "admitted"
    /\ terminal = NoUpdate
    /\ chan # "open"
    /\ Emit(s, Pending)
    /\ client' = [client EXCEPT ![s] = "closed"]
    /\ UNCHANGED <<dbVars, registryVars, renderVars, loopQ, queue, hand, gone>>

Subscribe(s) ==
    /\ client[s] = "admitted"
    /\ terminal = NoUpdate
    /\ chan = "open"
    /\ client' = [client EXCEPT ![s] = "listening"]
    /\ UNCHANGED <<dbVars, registryVars, renderVars, loopQ, queue, hand, frame, gone>>

\* Fault: the update is read and left in the queue for the other clients.
TakeAndLeave(s) ==
    /\ client[s] = "listening"
    /\ queue # <<>>
    /\ hand' = [hand EXCEPT ![s] = Head(queue)]
    /\ client' = [client EXCEPT ![s] = "sending"]
    /\ UNCHANGED <<dbVars, registryVars, renderVars, loopQ, queue, frame, gone>>

\* queue.get() returns.  Waiting getters are served in order, but the
\* one-second timeout requeues each of them, so any of them may be next.
Take(s) ==
    /\ client[s] = "listening"
    /\ queue # <<>>
    /\ hand' = [hand EXCEPT ![s] = Head(queue)]
    /\ queue' = Tail(queue)
    /\ client' = [client EXCEPT ![s] = "sending"]
    /\ UNCHANGED <<dbVars, registryVars, renderVars, loopQ, frame, gone>>

\* The generator yields the update and leaves the loop on a terminal one.
Send(s) ==
    /\ client[s] = "sending"
    /\ Emit(s, hand[s])
    /\ client' = [client EXCEPT ![s] =
                     IF IsTerminal(hand[s]) THEN "closed" ELSE "listening"]
    /\ UNCHANGED <<dbVars, registryVars, renderVars, loopQ, queue, hand, gone>>

Leave(s) ==
    /\ "disconnect" \in Env
    /\ client[s] \in {"admitted", "listening", "sending"}
    /\ ~gone[s]
    /\ gone' = [gone EXCEPT ![s] = TRUE]
    /\ UNCHANGED <<dbVars, registryVars, renderVars, loopQ, queue, client, hand, frame>>

\* queue.get() timed out and is_disconnected() says so: the finally block
\* removes the channel.
PollDisconnect(s) ==
    /\ client[s] = "listening"
    /\ gone[s]
    /\ Unsubscribe
    /\ client' = [client EXCEPT ![s] = "dropped"]
    /\ UNCHANGED <<dbVars, terminal, renderVars, loopQ, queue, hand, frame, gone>>

\* The server notices first and cancels the response: the finally block finds
\* disconnected = False.
CancelStream(s) ==
    /\ client[s] \in {"admitted", "listening", "sending"}
    /\ gone[s]
    /\ client' = [client EXCEPT ![s] = "dropped"]
    /\ UNCHANGED <<dbVars, registryVars, renderVars, loopQ, queue, hand, frame, gone>>

-----------------------------------------------------------------------------
(* The process dies and is started again. *)

\* The dicts of the registry, the loop, the queue, the coroutines and the worker
\* thread go with the process, and so do the DELETE in flight, which the database
\* rolls back, and every open stream.  The row stays; nothing starts its render
\* again.  (tick remains the number of lines the one render has had.)
Restart ==
    /\ "restart" \in Env
    /\ chan' = "lost"
    /\ terminal' = NoUpdate
    /\ render' = "lost"
    /\ worker' = "idle"
    /\ loopQ' = <<>>
    /\ queue' = <<>>
    /\ deleter' = IF deleter = "checked" THEN "idle" ELSE deleter
    /\ client' = [s \in Clients |-> IF client[s] \in {"off", "closed"}
                                      THEN client[s] ELSE "dropped"]
    /\ hand' = [s \in Clients |-> NoUpdate]
    /\ UNCHANGED <<row, tick, frame, gone>>

-----------------------------------------------------------------------------
RenderStep ==
    \/ RenderNotFound \/ Register \/ MarkRunning \/ StartFails \/ Prepare
    \/ ResumeRender \/ CommitComplete \/ FinalizeComplete \/ RenderFails
    \/ RecordFailure \/ RecordFails

WorkerStep == WorkerLookup \/ WorkerSchedule \/ WorkerFinish

DeleteStep == DeleteCheck \/ DeleteCommit

ServeStep(s) ==
    \/ SendTerminal(s) \/ SendPending(s) \/ Subscribe(s) \/ Take(s) \/ Send(s)
    \/ PollDisconnect(s) \/ CancelStream(s)

ClientStep(s) == Connect(s) \/ Leave(s) \/ ServeStep(s)

Next ==
    \/ RenderStep
    \/ WorkerStep
    \/ DeliverUpdate
    \/ DeleteStep
    \/ Restart
    \/ \E s \in Clients : ClientStep(s)

\* The event loop runs every task that can run; ffmpeg is assumed to end.
Fairness ==
    /\ WF_vars(RenderStep)
    /\ WF_vars(WorkerSchedule)
    /\ WF_vars(WorkerFinish)
    /\ WF_vars(DeliverUpdate)
    /\ \A s \in Clients : WF_vars(ServeStep(s))

Spec == Init /\ [][Next]_vars

FairSpec == Spec /\ Fairness

-----------------------------------------------------------------------------
(* Properties. *)

\* progress.finalize promises that "the queue receives exactly one more item
\* (the terminal update)": once a terminal update is stored, no progress
\* update is still on its way to the queue.  It rests on the thread's result
\* coming back through the same FIFO as its updates.
NothingAfterTerminal ==
    terminal # NoUpdate => loopQ \in {<<>>, <<terminal>>}

\* finalize hands the terminal update to the channel it pops, and from then on
\* it is in exactly one place, the loop, the queue or the hands of one client:
\* never lost, never delivered twice, however many clients share the queue.
Places(u) == {<<"loop", i>> : i \in {j \in 1..Len(loopQ) : loopQ[j] = u}}
             \cup {<<"queue", i>> : i \in {j \in 1..Len(queue) : queue[j] = u}}
             \cup {<<"hand", s>> : s \in {c \in Clients : hand[c] = u}}

TerminalConserved ==
    \A u \in Terminals :
        Cardinality(Places(u)) = IF chan = "finalized" /\ terminal = u THEN 1 ELSE 0

\* A client told "complete" can fetch the video: run_compilation commits before
\* it finalizes.  A client told "failed" never watches a compilation whose row
\* is, or becomes, complete.
ClientAgreesWithRow ==
    \A s \in Clients :
        /\ frame[s] = Complete => row \in {"complete", "absent"}
        /\ frame[s] = Failed => row \in {"running", "failed", "absent"}

\* The terminal update client s waits for will still reach the queue, or is in
\* it: the render goes on with its channel in place, or has finalized it.
TerminalComing ==
    \/ chan = "open" /\ render # "aborted"
    \/ \E i \in 1..Len(queue) : IsTerminal(queue[i])
    \/ \E i \in 1..Len(loopQ) : IsTerminal(loopQ[i])

\* What can keep it from client s: the render stopped before its try block, a
\* client that went away removed the channel, or another client took the update.
KeptFrom(s) ==
    \/ render = "aborted"
    \/ chan = "removed"
    \/ \E t \in Clients \ {s} : IsTerminal(hand[t])

\* "The SSE endpoint drains the queue until the terminal event arrives, then
\* exits" (progress.py): a client that waits for an update still has a terminal
\* one coming.  False as soon as a second client drains the same queue.
NeverStranded ==
    \A s \in Clients : client[s] = "listening" /\ ~gone[s] => TerminalComing

\* What is true of that promise: a connected client waits in vain for one of
\* three causes only, whatever the render, the thread, the other clients and a
\* DELETE do.
StrandedExplained ==
    \A s \in Clients :
        client[s] = "listening" /\ ~gone[s] => TerminalComing \/ KeptFrom(s)

\* The stream ends with a terminal frame for a client that stays connected,
\* unless one of these causes keeps it from the client or the process dies, which
\* breaks the stream.
ClientAnswered ==
    \A s \in Clients :
        client[s] = "listening" ~>
            gone[s] \/ IsTerminal(frame[s]) \/ KeptFrom(s) \/ render = "lost"

\* "Render not yet registered (still pending)" (router.py): the frame that says
\* so is sent while the row is pending, or once a DELETE has taken the row, or
\* after the disconnect of another client removed the channel of a render that
\* goes on, or after a restart, whatever the row says then; while the process
\* lives, for no other reason than the first three.
PendingExplained ==
    [][\A s \in Clients :
          frame'[s] = Pending /\ frame[s] # Pending
              => row \in {"pending", "absent"} \/ chan \in {"removed", "lost"}]_frame

\* What the feed's clients may learn: the stored terminal update, or, once the
\* process that stored it is gone, that nothing is known any more.
Lost == Update("lost", 0)

Outcome == IF render = "lost" THEN Lost ELSE terminal

\* Each client's frames are those the abstract feed allows: progress only
\* grows, a final frame is the last one, and it is the render's outcome; after
\* a restart nobody is told anything but "pending".
Feed == INSTANCE ProgressFeed WITH outcome <- Outcome
FeedSpec == Feed!Spec

=============================================================================
