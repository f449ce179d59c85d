---------------------------- MODULE ProgressFeed ----------------------------
(***************************************************************************)
(* What the progress stream of one compilation promises its clients,       *)
(* whatever queues, threads and callbacks carry it: the render is decided  *)
(* once; a client sees progress that only grows, never a frame after a     *)
(* final one, and as a terminal frame only the render's own outcome.  The  *)
(* outcome may be lost with the process that kept it: then nobody new      *)
(* learns it, and nobody learns another one.                               *)
(* RenderProgress implements it.                                           *)
(***************************************************************************)
EXTENDS Integers

CONSTANTS Clients, Ticks

VARIABLES outcome,   \* NoUpdate until the render is decided, Lost for good after
                     \* a restart
          frame      \* the last frame each client received

Update(status, pct) == [status |-> status, pct |-> pct]
NoUpdate  == Update("none", 0)
Pending   == Update("pending", 0)
Lost      == Update("lost", 0)
Terminals == {Update("complete", Ticks), Update("failed", 0)}

Init ==
    /\ outcome = NoUpdate
    /\ frame = [s \in Clients |-> NoUpdate]

Decide ==
    /\ outcome = NoUpdate
    /\ outcome' \in Terminals
    /\ UNCHANGED frame

Forget ==
    /\ outcome' = Lost
    /\ UNCHANGED frame

Open(s) == frame[s].status \in {"none", "running"}

ShowProgress(s) ==
    /\ Open(s)
    /\ outcome # Lost
    /\ \E k \in (frame[s].pct + 1)..Ticks :
          frame' = [frame EXCEPT ![s] = Update("running", k)]
    /\ UNCHANGED outcome

ShowOutcome(s) ==
    /\ Open(s)
    /\ outcome \in Terminals
    /\ frame' = [frame EXCEPT ![s] = outcome]
    /\ UNCHANGED outcome

\* A client too early for the render, or too late for its process, is told so.
ShowPending(s) ==
    /\ frame[s] = NoUpdate
    /\ frame' = [frame EXCEPT ![s] = Pending]
    /\ UNCHANGED outcome

Next ==
    \/ Decide \/ Forget
    \/ \E s \in Clients : ShowProgress(s) \/ ShowOutcome(s) \/ ShowPending(s)

Spec == Init /\ [][Next]_<<outcome, frame>>

=============================================================================
