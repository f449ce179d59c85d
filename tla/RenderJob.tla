------------------------------ MODULE RenderJob ------------------------------
(***************************************************************************)
(* The compilations as their clients may rely on them: each is created     *)
(* pending, started once, then either complete with an output or failed    *)
(* without one, and gone once deleted.  CompilationLifecycle implements    *)
(* it.                                                                     *)
(***************************************************************************)
CONSTANT Jobs

VARIABLES status,   \* of each job, "none" before it exists, "deleted" after
          output    \* whether each job names an output file

Init ==
    /\ status = [j \in Jobs |-> "none"]
    /\ output = [j \in Jobs |-> FALSE]

\* Job j goes from one of the states From to another.
Move(j, From, to) ==
    /\ status[j] \in From
    /\ status' = [status EXCEPT ![j] = to]

Create(j)   == Move(j, {"none"}, "pending") /\ UNCHANGED output
Start(j)    == Move(j, {"pending"}, "running") /\ UNCHANGED output
Fail(j)     == Move(j, {"running"}, "failed") /\ UNCHANGED output
Complete(j) == /\ Move(j, {"running"}, "complete")
               /\ output' = [output EXCEPT ![j] = TRUE]
Delete(j)   == /\ Move(j, {"pending", "running", "complete", "failed"}, "deleted")
               /\ output' = [output EXCEPT ![j] = FALSE]

Next == \E j \in Jobs :
           Create(j) \/ Start(j) \/ Fail(j) \/ Complete(j) \/ Delete(j)

Spec == Init /\ [][Next]_<<status, output>>

=============================================================================
