--------------------------- MODULE RenderPipeline ---------------------------
(***************************************************************************)
(* A clip from its upload to the video it is rendered into, through the    *)
(* three programs that are run on the way: ffprobe on the upload, ffmpeg   *)
(* to normalize it, ffmpeg to render the compilation with its progress,    *)
(* ffprobe on the output.  FfmpegRunner models the calls, MediaTools what  *)
(* is computed around them.  All the while the library may be edited.      *)
(*                                                                         *)
(* The files, the transactions and the failures between the calls are in   *)
(* ClipLifecycle and CompilationLifecycle.                                 *)
(***************************************************************************)
EXTENDS FfmpegRunner, MediaTools, FiniteSets, FiniteSetsExt

CONSTANTS
    Clips, New,    \* the clips; the one that is uploaded here
    Music,         \* the soundtrack
    MusicLength,   \* how long it is
    Uploads,       \* what ffprobe may say of the upload
    Libraries,     \* the rows the other clips may have
    Bodies,        \* the bodies of a PATCH
    Places,        \* sort indices
    MaxPatches     \* bound: PATCHes

\* trim_in_s, trim_out_s and duration_s may be None.
Optional(S) == {T \in SUBSET S : \A x, y \in T : x = y}

RowType ==
    [status : {"processing", "ready", "failed"}, index : Nat, in : Optional(Nat),
     out : Optional(Nat), duration : Optional(Nat), silent : BOOLEAN,
     crossed : BOOLEAN]  \* history: see Written

ASSUME PipelineAssumption ==
    /\ New \in Clips /\ Music \notin Clips /\ IsFiniteSet(Clips)
    /\ MusicLength \in Nat /\ MaxPatches \in Nat
ASSUME UploadsAssumption == \A file \in Uploads : file.duration \in Optional(Nat)
ASSUME LibrariesAssumption ==
    /\ Libraries \subseteq [Clips -> SUBSET RowType]
    /\ \A library \in Libraries, c \in Clips : \A r, q \in library[c] : r = q
ASSUME PatchAssumption ==
    /\ Bodies \subseteq [in : Optional(Nat), out : Optional(Nat), index : Optional(Nat)]
    /\ Places \subseteq Nat

\* A PATCH between its check and its commit.  Two that are equal, and pending
\* together, count as one: the second would write what the first has written.
EditType ==
    [clip : Clips, in : Optional(Nat), out : Optional(Nat), index : Optional(Nat),
     window : [in : Optional(Nat), out : Optional(Nat)]]

VARIABLES
    stage,     \* where the work stands
    rows,      \* the clips' rows, {} or {row}
    patches,   \* PATCHes that were accepted
    edits,     \* those of them that are not committed: what each writes, and the
               \* window it has read
    posted,    \* history: the rows when the compilation was created
    snapshot,  \* compilation_clips, in order of position
    mix,       \* mix_clip_audio
    job,       \* the compilation's status
    command,   \* the command that renders it, {} or {command}
    time,      \* out_time of ffmpeg's last progress line
    shown,     \* the percentage last pushed, {} or {percent}
    length     \* duration_s of the compilation

libraryVars == <<rows, patches, edits>>
jobVars == <<posted, snapshot, mix, job, command, length>>
barVars == <<time, shown>>
pipeVars == <<stage, libraryVars, jobVars, barVars>>
vars == <<runnerVars, pipeVars>>

Stages == {"probing", "normalizing", "library", "posted", "rendering", "measuring", "over"}

Ready(library) == {c \in Clips : \E r \in library[c] : r.status = "ready"}
Row(library, c) == The(library[c])

\* get_ready_clips: in order of sort_index; rows of the same index in any order.
Timelines(library) ==
    {t \in [1..Cardinality(Ready(library)) -> Ready(library)] :
        \A i, j \in DOMAIN t :
            i < j => /\ t[i] # t[j]
                     /\ Row(library, t[i]).index <= Row(library, t[j]).index}

\* A clip has sound when its upload has: normalize adds none.
Silent(library) == {c \in Clips : \E r \in library[c] : r.silent}

Init ==
    /\ RunnerInit
    /\ stage = "probing"
    /\ rows \in Libraries
    /\ patches = 0 /\ edits = {}
    /\ posted = [c \in Clips |-> {}] /\ snapshot = <<>> /\ mix = FALSE
    /\ job = "none" /\ command = {} /\ length = {}
    /\ time = -1 /\ shown = {}

-----------------------------------------------------------------------------
(* The upload. *)

\* The call of a stage, or the error that its program is not there.
Begin(kind) == StartCall(kind) \/ StartCallFails(kind)

ProbeUpload ==
    /\ stage = "probing" /\ worker = "idle"
    /\ Begin("probe")
    /\ UNCHANGED pipeVars

\* No result, or one without a video stream: the upload is refused.
RefuseUpload ==
    /\ stage = "probing" /\ worker = "returned"
    /\ result # "ok" \/ \E file \in Uploads : ParseVideo(file) = {}
    /\ stage' = "library"
    /\ Forget
    /\ UNCHANGED <<libraryVars, jobVars, barVars>>

\* The row has the whole clip as its window, an empty one when the duration is
\* unknown.  Its place is ClipTimeline's matter.  The task starts.
AcceptUpload ==
    /\ stage = "probing" /\ worker = "returned" /\ result = "ok"
    /\ \E file \in Uploads, i \in Places : \E probed \in ParseVideo(file) :
          rows' = [rows EXCEPT ![New] =
                     {[status |-> "processing", index |-> i, in |-> {0},
                       out |-> {OrElse(probed.duration, 0)}, duration |-> probed.duration,
                       silent |-> First(file, "audio") = {}, crossed |-> FALSE]}]
    /\ stage' = "normalizing"
    /\ Begin("run")
    /\ UNCHANGED <<patches, edits, jobVars, barVars>>

Normalized ==
    /\ stage = "normalizing" /\ worker = "returned"
    /\ rows' = [rows EXCEPT ![New] =
                  {[r EXCEPT !.status = IF result = "ok" THEN "ready" ELSE "failed"] : r \in @}]
    /\ stage' = "library"
    /\ Forget
    /\ UNCHANGED <<patches, edits, jobVars, barVars>>

-----------------------------------------------------------------------------
(* The library and the compilation. *)

\* _validate_trim: a window starts before it ends and lies within the clip when
\* its length is known; nothing is checked while an end of it is not set.
Validated(r) == \A a \in r.in, b \in r.out : a < b /\ \A d \in r.duration : b <= d

Given(field, old) == IF field = {} THEN old ELSE field

\* What a body writes into the row that was read: what differs.
Edit(c, r, body) ==
    [clip |-> c, in |-> body.in \ r.in, out |-> body.out \ r.out,
     index |-> body.index \ {r.index}, window |-> [in |-> r.in, out |-> r.out]]

\* Fault: what is checked is the body.
PatchReadUnmerged(c) ==
    /\ patches < MaxPatches
    /\ patches' = patches + 1
    /\ \E r \in rows[c], body \in Bodies :
          /\ Validated([r EXCEPT !.in = body.in, !.out = body.out])
          /\ edits' = edits \cup {Edit(c, r, body)}
    /\ UNCHANGED <<runnerVars, stage, rows, jobVars, barVars>>

\* PATCH, at any time: the body goes into the row that was read, and the row that
\* results is checked.
PatchRead(c) ==
    /\ patches < MaxPatches
    /\ patches' = patches + 1
    /\ \E r \in rows[c], body \in Bodies :
          /\ Validated([r EXCEPT !.in = Given(body.in, @), !.out = Given(body.out, @)])
          /\ edits' = edits \cup {Edit(c, r, body)}
    /\ UNCHANGED <<runnerVars, stage, rows, jobVars, barVars>>

\* The row with the columns that are written.  It is crossed when its window is no
\* longer the one that was checked.
Written(r, e) ==
    [r EXCEPT !.in = Given(e.in, @), !.out = Given(e.out, @), !.index = OrElse(e.index, @),
              !.crossed = e.window # [in |-> r.in, out |-> r.out]]

\* The UPDATE and its commit.
PatchCommit ==
    /\ \E e \in edits : \E r \in rows[e.clip] :
          /\ rows' = [rows EXCEPT ![e.clip] = {Written(r, e)}]
          /\ edits' = edits \ {e}
    /\ UNCHANGED <<runnerVars, stage, patches, jobVars, barVars>>

\* Windows are copied, in the order of the library.
Post ==
    /\ stage = "library"
    /\ Ready(rows) # {}
    /\ stage' = "posted"
    /\ job' = "pending"
    /\ mix' \in BOOLEAN
    /\ posted' = rows
    /\ \E t \in Timelines(rows) :
          snapshot' = [i \in DOMAIN t |-> [clip |-> t[i], in |-> Row(rows, t[i]).in,
                                           out |-> Row(rows, t[i]).out]]
    /\ UNCHANGED <<runnerVars, libraryVars, command, length, barVars>>

\* Fault: the windows of the library as it is now.
SpecsCurrent ==
    [i \in DOMAIN snapshot |->
        LET c == snapshot[i].clip
        IN  [file |-> c, from |-> OrElse(Row(rows, c).in, 0),
             to |-> OrElse(Row(rows, c).out, OrElse(Row(rows, c).duration, 0))]]

\* _build_clip_specs: a window that was never set is the whole clip.
Specs ==
    [i \in DOMAIN snapshot |->
        LET s == snapshot[i]
        IN  [file |-> s.clip, from |-> OrElse(s.in, 0),
             to |-> OrElse(s.out, OrElse(Row(rows, s.clip).duration, 0))]]

Soundtrack == Whole(Music, MusicLength)

\* The background task: running, then the call with the command.
StartRender ==
    /\ stage = "posted"
    /\ stage' = "rendering"
    /\ job' = "running"
    /\ command' = {CompileCommand(Specs, Soundtrack, FadeStart(Total(Specs)), mix)}
    /\ Begin("progress")
    /\ UNCHANGED <<libraryVars, posted, snapshot, mix, length, barVars>>

\* A progress line: no out_time, one that is no number, or a later one.  The
\* first packets may lie before zero, the last ones behind the end.
RenderLine ==
    /\ stage = "rendering"
    /\ ReadLine
    /\ \/ \E cmd \in command : \E t \in {-1, OutputLength(cmd), OutputLength(cmd) + 1} :
             t >= time /\ time' = t /\ shown' = {Percent(t, Total(Specs))}
       \/ UNCHANGED barVars
    /\ UNCHANGED <<stage, libraryVars, jobVars>>

\* ffmpeg is done, and so is the bar: the output is saved and measured; or the
\* job has failed.
Rendered ==
    /\ stage = "rendering" /\ worker = "returned" /\ result = "ok"
    /\ stage' = "measuring"
    /\ Begin("probe")
    /\ time' = -1 /\ shown' = {}
    /\ UNCHANGED <<libraryVars, jobVars>>

RenderFailed ==
    /\ stage = "rendering" /\ worker = "returned" /\ result # "ok"
    /\ stage' = "over"
    /\ job' = "failed"
    /\ Forget
    /\ time' = -1 /\ shown' = {}
    /\ UNCHANGED <<libraryVars, posted, snapshot, mix, command, length>>

\* Fault: an output that cannot be measured gets a length below zero.
MeasuredMinusOne ==
    /\ stage = "measuring" /\ worker = "returned"
    /\ stage' = "over"
    /\ job' = IF result = "raised" THEN "failed" ELSE "complete"
    /\ \E cmd \in command : length' = IF result = "ok" THEN {OutputLength(cmd)} ELSE {-1}
    /\ Forget
    /\ UNCHANGED <<libraryVars, posted, snapshot, mix, command, barVars>>

\* Only FfprobeError, a bad exit or the timeout, is forgiven.
Measured ==
    /\ stage = "measuring" /\ worker = "returned"
    /\ stage' = "over"
    /\ job' = IF result = "raised" THEN "failed" ELSE "complete"
    /\ \E cmd \in command :
          length' \in IF result = "ok" THEN {{}, {OutputLength(cmd)}} ELSE {{}}
    /\ Forget
    /\ UNCHANGED <<libraryVars, posted, snapshot, mix, command, barVars>>

-----------------------------------------------------------------------------
(* The calls under way. *)

\* A command that ffmpeg refuses does not end well.
MayExit(c) ==
    c = 0 /\ stage = "rendering" => \A cmd \in command : ~Refused(cmd, Silent(rows))

ProgramStep ==
    /\ Works \/ \E c \in {0, 1} : MayExit(c) /\ Exit(c)
    /\ UNCHANGED pipeVars

TroubleStep == Trouble /\ UNCHANGED pipeVars

ThreadStep ==
    \/ RenderLine
    \/ /\ \/ stage # "rendering" /\ ReadLine
          \/ EndOfStdout \/ WaitReturns \/ TimesOut \/ Return
       /\ UNCHANGED pipeVars

DrainerStep == DrainStep /\ UNCHANGED pipeVars

UploadStep == ProbeUpload \/ RefuseUpload \/ AcceptUpload \/ Normalized
JobStep == StartRender \/ Rendered \/ RenderFailed \/ Measured

PatchStep == (\E c \in Clips : PatchRead(c)) \/ PatchCommit

Next ==
    \/ UploadStep \/ PatchStep \/ Post \/ JobStep
    \/ ProgramStep \/ TroubleStep \/ ThreadStep \/ DrainerStep

Spec == Init /\ [][Next]_vars

\* A program that does not hang goes on; threads are scheduled; the timeout is real.
FairSpec ==
    /\ Spec
    /\ WF_vars(ProgramStep) /\ WF_vars(ThreadStep) /\ WF_vars(DrainerStep)

-----------------------------------------------------------------------------
(* Properties, with ReturnsFaithfully and CallEnds of FfmpegRunner. *)

\* Every variable has its type.
TypeOK ==
    /\ RunnerTypeOK
    /\ stage \in Stages
    /\ \A c \in Clips : rows[c] \subseteq RowType /\ posted[c] \subseteq RowType
    /\ patches \in 0..MaxPatches /\ edits \subseteq EditType
    /\ \A i \in DOMAIN snapshot : snapshot[i].clip \in Clips
    /\ mix \in BOOLEAN
    /\ job \in {"none", "pending", "running", "failed", "complete"}
    /\ time \in Int /\ shown \subseteq Int
    /\ length \subseteq Nat

\* A window as the library had it when the compilation was created.
PostedWindow(c) ==
    LET r == Row(posted, c)
    IN  [file |-> c, from |-> OrElse(r.in, 0), to |-> OrElse(r.out, OrElse(r.duration, 0))]

PostedSpecs(t) == [i \in DOMAIN t |-> PostedWindow(t[i])]

\* What is rendered is the timeline at the time of the POST, whatever is trimmed
\* or moved afterwards, until the soundtrack ends: its windows in its order; the
\* soundtrack, faded out over the last two seconds of the timeline, which a shorter
\* one does not reach; with mix_clip_audio, under it, the sound of the same windows
\* in the same order; and the output is as long as the shorter of the two.
CommandMatchesTimeline ==
    \A cmd \in command : \E t \in Timelines(posted) :
        /\ VideoOf(cmd) = PostedSpecs(t)
        /\ SoundOf(cmd) =
              {[does |-> "fade", of |-> <<Soundtrack>>, at |-> FadeStart(Total(PostedSpecs(t)))]}
              \cup IF mix THEN {[does |-> "concat", of |-> PostedSpecs(t), at |-> 0]} ELSE {}
        /\ OutputLength(cmd) = ShorterOf(Total(PostedSpecs(t)), MusicLength)

\* ffmpeg refuses a command for four reasons only, and then always: a clip of
\* unknown length, or of none, that nobody has trimmed; a row of which one end
\* only was ever set, which is why PATCH did not check it, or that two PATCHes wrote
\* which crossed, each having checked its end against the other's old one; and a
\* mix with a clip that has no sound.
HalfSet(r) == (r.in = {}) # (r.out = {})

RefusalExplained ==
    \A cmd \in command :
        Refused(cmd, Silent(rows)) <=>
            \E c \in Ready(posted) : \E r \in posted[c] :
                \/ r.duration \subseteq {0} /\ OrElse(r.out, 0) = 0
                \/ /\ HalfSet(r) \/ r.crossed
                   /\ OrElse(r.out, OrElse(r.duration, 0)) <= OrElse(r.in, 0)
                \/ mix /\ r.silent

\* The bar never runs backwards nor beyond 100, whatever is edited meanwhile, and
\* shows 100 only when the end of the timeline has been reached; with a soundtrack
\* that ends before, never.
ProgressFaithful ==
    [][\A p \in shown' :
          /\ p <= 100
          /\ \A q \in shown : q <= p
          /\ p = 100 => time' >= Total(Specs)]_vars

=============================================================================
