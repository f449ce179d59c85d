---------------------------- MODULE FfmpegRunner ----------------------------
(***************************************************************************)
(* One external program at a time, its two pipes, and the threads that     *)
(* wait for it.                                                            *)
(*                                                                         *)
(*   - the program: ffmpeg or ffprobe.  It writes lines to stdout and      *)
(*     stderr, waits when a pipe is full, exits with a code or hangs;      *)
(*   - "progress": _run_ffmpeg_with_progress_sync reads stdout to its end, *)
(*     calls on_progress for each line, and only then waits with the       *)
(*     timeout, while a second thread drains stderr;                       *)
(*   - "run" and "probe": subprocess.run of _run_ffmpeg_sync and           *)
(*     _run_ffprobe, which reads both pipes and applies the timeout to the *)
(*     whole call.  Its loop over the two pipes is the reader and the      *)
(*     drainer here.                                                       *)
(*                                                                         *)
(* A line stands for itself; only how many are in a pipe matters.          *)
(***************************************************************************)
EXTENDS Integers

CONSTANTS
    PipeCap,   \* lines a pipe holds
    MaxLines,  \* bound: lines the program writes to each pipe
    Calls,     \* the calls that are made, a subset of CallKinds
    Troubles   \* what may go wrong, a subset of TroubleKinds

CallKinds == {"progress", "run", "probe"}
TroubleKinds == {"no_program",      \* it cannot be started (OSError)
                 "hangs",
                 "closes_stdout",   \* before it ends
                 "bad_bytes",       \* stderr is not UTF-8
                 "callback_raises"} \* on_progress raises, not a ValueError

ASSUME PipeAssumption == PipeCap \in Nat \ {0} /\ MaxLines \in Nat
ASSUME CallsAssumption == Calls \subseteq CallKinds /\ Troubles \subseteq TroubleKinds

VARIABLES
    call,      \* the call under way, or the last one
    proc,      \* the program
    code,      \* its exit code, 0 or 1
    outOpen,   \* whether it still holds stdout open
    written,   \* lines written to each pipe
    read,      \* lines read from each pipe
    worker,    \* the thread that runs the call
    drainer,   \* the thread that reads stderr
    result     \* how the call ends

programVars == <<call, proc, code, outOpen, written>>
threadVars == <<read, worker, drainer, result>>
runnerVars == <<programVars, threadVars>>

Pipes == {"out", "err"}
Alive == proc \in {"working", "stuck_out", "stuck_err", "hung"}
InPipe(p) == written[p] - read[p]
StuckOn(p) == IF p = "out" THEN "stuck_out" ELSE "stuck_err"

RunnerTypeOK ==
    /\ call \in CallKinds
    /\ proc \in {"none", "working", "stuck_out", "stuck_err", "hung", "exited", "killed"}
    /\ code \in {0, 1}
    /\ outOpen \in BOOLEAN
    /\ written \in [Pipes -> 0..MaxLines]
    /\ read \in [Pipes -> 0..MaxLines]
    /\ worker \in {"idle", "reading", "waiting", "joining", "returned"}
    /\ drainer \in {"none", "draining", "done", "broken"}
    /\ result \in {"none", "raised", "timedout", "exited", "ok", "failed"}

NoLines == [p \in Pipes |-> 0]

RunnerInit ==
    /\ call = "run" /\ proc = "none" /\ code = 0 /\ outOpen = FALSE
    /\ written = NoLines /\ read = NoLines
    /\ worker = "idle" /\ drainer = "none" /\ result = "none"

-----------------------------------------------------------------------------
(* The call begins: Popen, and the thread that drains stderr. *)

StartCall(kind) ==
    /\ kind \in Calls
    /\ worker \in {"idle", "returned"}
    /\ call' = kind /\ proc' = "working" /\ code' = 0 /\ outOpen' = TRUE
    /\ written' = NoLines /\ read' = NoLines
    /\ worker' = "reading" /\ drainer' = "draining" /\ result' = "none"

\* The program is not there: FileNotFoundError, which no caller converts.
StartCallFails(kind) ==
    /\ kind \in Calls
    /\ worker \in {"idle", "returned"}
    /\ "no_program" \in Troubles
    /\ call' = kind /\ proc' = "none" /\ code' = 0 /\ outOpen' = FALSE
    /\ written' = NoLines /\ read' = NoLines
    /\ worker' = "returned" /\ drainer' = "none" /\ result' = "raised"

\* What the call was about is dropped with its result.
Forget ==
    /\ worker = "returned"
    /\ call' = "run" /\ proc' = "none" /\ code' = 0 /\ outOpen' = FALSE
    /\ written' = NoLines /\ read' = NoLines
    /\ worker' = "idle" /\ drainer' = "none" /\ result' = "none"

-----------------------------------------------------------------------------
(* The program. *)

HasMore(p) == written[p] < MaxLines /\ (p = "out" => outOpen)

Write(p) ==
    /\ proc \in {"working", StuckOn(p)}
    /\ HasMore(p)
    /\ InPipe(p) < PipeCap
    /\ proc' = "working"
    /\ written' = [written EXCEPT ![p] = @ + 1]
    /\ UNCHANGED <<call, code, outOpen, threadVars>>

\* The pipe is full: the write does not return.
Block(p) ==
    /\ proc = "working"
    /\ HasMore(p)
    /\ InPipe(p) = PipeCap
    /\ proc' = StuckOn(p)
    /\ UNCHANGED <<call, code, outOpen, written, threadVars>>

Exit(c) ==
    /\ proc = "working"
    /\ proc' = "exited"
    /\ code' = c
    /\ outOpen' = FALSE
    /\ UNCHANGED <<call, written, threadVars>>

CloseStdout ==
    /\ "closes_stdout" \in Troubles
    /\ proc = "working"
    /\ outOpen
    /\ outOpen' = FALSE
    /\ UNCHANGED <<call, proc, code, written, threadVars>>

Hang ==
    /\ "hangs" \in Troubles
    /\ proc = "working"
    /\ proc' = "hung"
    /\ UNCHANGED <<call, code, outOpen, written, threadVars>>

-----------------------------------------------------------------------------
(* The thread that makes the call. *)

\* A line of stdout.  on_progress returns, or is not called: int() of "N/A" is a
\* ValueError, which is suppressed.
ReadLine ==
    /\ worker = "reading"
    /\ InPipe("out") > 0
    /\ read' = [read EXCEPT !["out"] = @ + 1]
    /\ UNCHANGED <<programVars, worker, drainer, result>>

\* on_progress raises: nobody reads stdout any more and the finally block waits
\* for the end of stderr; the program is neither waited for nor killed.
CallbackRaises ==
    /\ "callback_raises" \in Troubles
    /\ call = "progress"
    /\ worker = "reading"
    /\ InPipe("out") > 0
    /\ read' = [read EXCEPT !["out"] = @ + 1]
    /\ worker' = "joining"
    /\ result' = "raised"
    /\ UNCHANGED <<programVars, drainer>>

EndOfStdout ==
    /\ worker = "reading"
    /\ InPipe("out") = 0 /\ ~outOpen
    /\ worker' = "waiting"
    /\ UNCHANGED <<programVars, read, drainer, result>>

WaitReturns ==
    /\ worker = "waiting"
    /\ ~Alive
    /\ worker' = "joining"
    /\ result' = "exited"
    /\ UNCHANGED <<programVars, read, drainer>>

\* Fault: the timeout ends the wait, and the program goes on.
TimesOutNoKill ==
    /\ Alive
    /\ worker = "waiting" \/ (worker = "reading" /\ call # "progress")
    /\ worker' = "returned"
    /\ result' = "timedout"
    /\ UNCHANGED <<programVars, read, drainer>>

\* The timeout of proc.wait, or of all of subprocess.run: kill and reap.
TimesOut ==
    /\ Alive
    /\ worker = "waiting" \/ (worker = "reading" /\ call # "progress")
    /\ proc' = "killed"
    /\ outOpen' = FALSE
    /\ worker' = "joining"
    /\ result' = "timedout"
    /\ UNCHANGED <<call, code, written, read, drainer>>

\* The drainer has ended: FfmpegError with the tail of stderr unless the code
\* is 0.  subprocess.run with text=True decodes stderr only now, and may raise.
Return ==
    /\ worker = "joining"
    /\ drainer # "draining"
    /\ worker' = "returned"
    /\ \/ result' = IF result # "exited" THEN result
                    ELSE IF code = 0 THEN "ok" ELSE "failed"
       \/ /\ "bad_bytes" \in Troubles
          /\ call = "run" /\ result = "exited" /\ read["err"] > 0
          /\ result' = "raised"
    /\ UNCHANGED <<programVars, read, drainer>>

-----------------------------------------------------------------------------
(* The thread that drains stderr. *)

\* Fault: stderr is read once stdout has ended.
DrainLineLate ==
    /\ worker # "reading"
    /\ drainer = "draining"
    /\ InPipe("err") > 0
    /\ read' = [read EXCEPT !["err"] = @ + 1]
    /\ UNCHANGED <<programVars, worker, drainer, result>>

DrainLine ==
    /\ drainer = "draining"
    /\ InPipe("err") > 0
    /\ read' = [read EXCEPT !["err"] = @ + 1]
    /\ UNCHANGED <<programVars, worker, drainer, result>>

EndOfStderr ==
    /\ drainer = "draining"
    /\ InPipe("err") = 0 /\ ~Alive
    /\ drainer' = "done"
    /\ UNCHANGED <<programVars, read, worker, result>>

\* Popen(text=True) decodes line by line: UnicodeDecodeError ends the thread,
\* and nobody reads stderr any more.
DrainBreaks ==
    /\ "bad_bytes" \in Troubles
    /\ call = "progress"
    /\ drainer = "draining"
    /\ InPipe("err") > 0
    /\ drainer' = "broken"
    /\ UNCHANGED <<programVars, read, worker, result>>

-----------------------------------------------------------------------------
Works == \E p \in Pipes : Write(p) \/ Block(p)
Trouble == CloseStdout \/ Hang \/ CallbackRaises \/ DrainBreaks
WorkerStep == ReadLine \/ EndOfStdout \/ WaitReturns \/ TimesOut \/ Return
DrainStep == DrainLine \/ EndOfStderr

RunnerNext ==
    \/ \E kind \in Calls : StartCall(kind) \/ StartCallFails(kind)
    \/ Forget
    \/ Works \/ (\E c \in {0, 1} : Exit(c)) \/ Trouble
    \/ WorkerStep
    \/ DrainStep

RunnerSpec == RunnerInit /\ [][RunnerNext]_runnerVars

-----------------------------------------------------------------------------
(* Properties. *)

\* What a call reports is what the program did.  Success: it exited with 0 and
\* every progress line was handed on.  Failure: every line of stderr was there
\* to take the tail from, unless the drainer broke.  And no program outlives the
\* call that started it, unless on_progress raised and the drainer broke.
ReturnsFaithfully ==
    worker = "returned" =>
        /\ result = "ok" => proc = "exited" /\ code = 0 /\ InPipe("out") = 0
        /\ result = "failed" =>
              /\ proc = "exited" /\ code # 0 /\ InPipe("out") = 0
              /\ InPipe("err") = 0 \/ drainer = "broken"
        /\ Alive => result = "raised" /\ drainer = "broken"

\* What keeps a render's call from ending.  ffmpeg hangs with its stdout open, so
\* that the wait with the timeout is never reached.  on_progress has raised:
\* nobody reads stdout, nobody kills, and the finally block waits for stderr.
\* The drainer broke, and stderr is full.
Stalled ==
    /\ call = "progress"
    /\ \/ proc = "hung" /\ outOpen
       \/ result = "raised" /\ proc \in {"hung", "stuck_out", "stuck_err"}
       \/ drainer = "broken" /\ proc = "stuck_err"

\* "Drains stderr in a background thread to prevent pipe deadlock": every call
\* ends, whatever the program writes to which pipe, Stalled's causes excepted.
CallEnds == worker = "reading" ~> worker = "returned" \/ Stalled

=============================================================================
