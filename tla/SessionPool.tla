----------------------------- MODULE SessionPool -----------------------------
(***************************************************************************)
(* Who holds a connection of the pool, and for how long.                   *)
(*                                                                         *)
(* A session takes a connection with its first statement and gives it back *)
(* when it commits, rolls back or is closed.  The session of a request is  *)
(* closed by get_session after the response, so a progress stream and the  *)
(* stream of a video hold a connection until their last byte.  The render  *)
(* has a session of its own: it holds a connection while it loads the row, *)
(* and again from its query for the clips to the end of the render.  A     *)
(* statement that finds the pool empty waits, and fails when the pool's    *)
(* timeout is over.                                                        *)
(*                                                                         *)
(* The pool is SQLAlchemy's, outside the repository, with its default size *)
(* and timeout: get_engine sets neither.                                   *)
(***************************************************************************)
EXTENDS FiniteSets, Integers

CONSTANTS
    Tabs,      \* clients of the progress stream
    Players,   \* clients of a video
    Render,    \* the background task
    PoolSize   \* connections

Clients == Tabs \cup Players
Sessions == Clients \cup {Render}

ASSUME PoolAssumption ==
    /\ PoolSize \in Nat \ {0} /\ IsFiniteSet(Sessions)
    /\ Tabs \cap Players = {} /\ Render \notin Clients

VARIABLES
    holders,  \* the sessions with a connection
    pc,       \* where each session's coroutine stands
    job,      \* the compilation's status
    channel,  \* the progress channel: whether it has the terminal update
    made,     \* history: whether ffmpeg has made the video
    gaveUp    \* history: the statements of the render that failed for want of a connection

vars == <<holders, pc, job, channel, made, gaveUp>>

\* A coroutine is at a statement, or at work without one, or has ended.
RenderStatements == {"load", "specs", "complete", "record"}
Statements == RenderStatements \cup {"get"}
At(s, place) == pc[s] = place
Holds(s) == s \in holders

Init ==
    /\ holders = {}
    /\ pc = [s \in Sessions |-> IF s = Render THEN "load" ELSE "closed"]
    /\ job = "pending" /\ channel = "none"
    /\ made = FALSE /\ gaveUp = {}

Goto(s, place) == pc' = [pc EXCEPT ![s] = place]

\* Commit, rollback or close.
Release(s) == holders' = holders \ {s}

-----------------------------------------------------------------------------
(* The pool. *)

Acquire(s) ==
    /\ pc[s] \in Statements
    /\ ~Holds(s)
    /\ Cardinality(holders) < PoolSize
    /\ holders' = holders \cup {s}
    /\ UNCHANGED <<pc, job, channel, made, gaveUp>>

-----------------------------------------------------------------------------
(* The render. *)

\* get_with_clips, register, running, commit.
Load ==
    /\ At(Render, "load") /\ Holds(Render)
    /\ job' = "running"
    /\ channel' = "open"
    /\ Release(Render)
    /\ Goto(Render, "specs")
    /\ UNCHANGED <<made, gaveUp>>

\* Fault: the clips are read in a transaction of their own.
ReadSpecsAlone ==
    /\ At(Render, "specs") /\ Holds(Render)
    /\ Release(Render)
    /\ Goto(Render, "ffmpeg")
    /\ UNCHANGED <<job, channel, made, gaveUp>>

\* _build_clip_specs: the transaction it opens lasts through the render.
ReadSpecs ==
    /\ At(Render, "specs") /\ Holds(Render)
    /\ Goto(Render, "ffmpeg")
    /\ UNCHANGED <<holders, job, channel, made, gaveUp>>

FfmpegMakes ==
    /\ At(Render, "ffmpeg")
    /\ made' = TRUE
    /\ Goto(Render, "complete")
    /\ UNCHANGED <<holders, job, channel, gaveUp>>

\* finalize tells the streams, then the rollback gives the connection back.
FfmpegFails ==
    /\ At(Render, "ffmpeg")
    /\ channel' = "terminal"
    /\ Release(Render)
    /\ Goto(Render, "record")
    /\ UNCHANGED <<job, made, gaveUp>>

CommitComplete ==
    /\ At(Render, "complete") /\ Holds(Render)
    /\ job' = "complete"
    /\ channel' = "terminal"
    /\ Release(Render)
    /\ Goto(Render, "over")
    /\ UNCHANGED <<made, gaveUp>>

RecordFailure ==
    /\ At(Render, "record") /\ Holds(Render)
    /\ job' = "failed"
    /\ Release(Render)
    /\ Goto(Render, "over")
    /\ UNCHANGED <<channel, made, gaveUp>>

\* Fault: the pool waits without a limit.
RenderWaitsOn == FALSE /\ UNCHANGED vars

\* The pool's timeout.  In the try block it is one more failed render; at the
\* first or the last statement it ends the task.
RenderGivesUp ==
    /\ pc[Render] \in RenderStatements
    /\ ~Holds(Render)
    /\ gaveUp' = gaveUp \cup {pc[Render]}
    /\ IF pc[Render] \in {"specs", "complete"}
         THEN channel' = "terminal" /\ Goto(Render, "record")
         ELSE UNCHANGED channel /\ Goto(Render, "over")
    /\ UNCHANGED <<holders, job, made>>

-----------------------------------------------------------------------------
(* The clients. *)

Open(c) ==
    /\ At(c, "closed")
    /\ Goto(c, "get")
    /\ UNCHANGED <<holders, job, channel, made, gaveUp>>

\* service.get or open_output; a video streams as long as its client likes.  A
\* tab that finds no channel or, without one, the terminal update, is answered
\* at once.
Answer(c) ==
    /\ At(c, "get") /\ Holds(c)
    /\ Goto(c, IF c \in Players \/ channel = "open" THEN "streaming" ELSE "ending")
    /\ UNCHANGED <<holders, job, channel, made, gaveUp>>

\* The one terminal update on the queue goes to one of the tabs.
TakeTerminal(c) ==
    /\ c \in Tabs
    /\ At(c, "streaming")
    /\ channel = "terminal"
    /\ channel' = "taken"
    /\ Goto(c, "ending")
    /\ UNCHANGED <<holders, job, made, gaveUp>>

\* The client goes, or its body is sent.
Leave(c) ==
    /\ At(c, "streaming")
    /\ Goto(c, "ending")
    /\ UNCHANGED <<holders, job, channel, made, gaveUp>>

\* Fault: a stream that ends does not run the dependency's exit.
EndUnclosed(c) ==
    /\ At(c, "ending")
    /\ Goto(c, "closed")
    /\ UNCHANGED <<holders, job, channel, made, gaveUp>>

\* The exit of get_session.
End(c) ==
    /\ At(c, "ending")
    /\ Release(c)
    /\ Goto(c, "closed")
    /\ UNCHANGED <<job, channel, made, gaveUp>>

\* The pool's timeout: a 500.
GivesUp(c) ==
    /\ At(c, "get") /\ ~Holds(c)
    /\ Goto(c, "closed")
    /\ UNCHANGED <<holders, job, channel, made, gaveUp>>

-----------------------------------------------------------------------------
RenderStep ==
    \/ Acquire(Render) \/ RenderGivesUp
    \/ Load \/ ReadSpecs \/ FfmpegMakes \/ FfmpegFails \/ CommitComplete \/ RecordFailure

ServeStep(c) == Acquire(c) \/ Answer(c) \/ TakeTerminal(c) \/ End(c) \/ GivesUp(c)

Next == RenderStep \/ \E c \in Clients : ServeStep(c) \/ Open(c) \/ Leave(c)

Spec == Init /\ [][Next]_vars

\* The task and the requests are scheduled, ffmpeg ends and the pool's timeout is
\* real; no client need ever leave.
FairSpec == Spec /\ WF_vars(RenderStep) /\ \A c \in Clients : WF_vars(ServeStep(c))

-----------------------------------------------------------------------------
(* Properties. *)

\* Every variable has its type; no more connections are out than there are, and
\* who has ended has given its connection back.
TypeOK ==
    /\ holders \subseteq Sessions /\ Cardinality(holders) <= PoolSize
    /\ pc \in [Sessions -> Statements \cup {"ffmpeg", "over", "closed", "streaming", "ending"}]
    /\ \A s \in Sessions : pc[s] \in {"over", "closed"} => ~Holds(s)
    /\ job \in {"pending", "running", "complete", "failed"}
    /\ channel \in {"none", "open", "terminal", "taken"}
    /\ made \in BOOLEAN
    /\ gaveUp \subseteq RenderStatements

\* What an exhausted pool can do to a render.  A video that ffmpeg has made is
\* never lost for it; a row stays pending for the first statement only, and
\* running for the last one only, that of the failure handler.
LossExplained ==
    At(Render, "over") =>
        /\ made => job = "complete"
        /\ job = "pending" => "load" \in gaveUp
        /\ job = "running" => "record" \in gaveUp

\* The task of a render ends although the streams that wait for it may hold all
\* of the connections that it waits for.
RenderEnds == <>At(Render, "over")

=============================================================================
