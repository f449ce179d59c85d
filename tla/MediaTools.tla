----------------------------- MODULE MediaTools -----------------------------
(***************************************************************************)
(* What media/ computes around ffmpeg and ffprobe: the metadata taken from *)
(* ffprobe's output, the number of frames of a filmstrip, the command that *)
(* renders a compilation and the percentage shown meanwhile.               *)
(*                                                                         *)
(* Python's None is the empty set, a value x is {x}.  Times are whole      *)
(* seconds.  A video's stream carries the rotation of its display matrix   *)
(* and of its older tag.  A creation time says what a clock showed and,    *)
(* when it names one, that clock's offset; one that does not parse is      *)
(* Garbled.                                                                *)
(***************************************************************************)
EXTENDS Integers, Sequences, FiniteSetsExt

CONSTANT Garbled

The(S) == CHOOSE x \in S : TRUE
OrElse(S, default) == IF S = {} THEN default ELSE The(S)

-----------------------------------------------------------------------------
(* ffprobe.py: out.streams is a sequence, out.format what the file says. *)

\* The streams of a type, the first one of them only.
First(out, type) ==
    {i \in 1..Len(out.streams) :
        /\ out.streams[i].type = type
        /\ \A j \in 1..(i - 1) : out.streams[j].type # type}

\* Degrees, 0 to 359, whatever the sign; the matrix goes before the tag.
Rotation(stream) ==
    LET raw == OrElse(stream.matrix, OrElse(stream.tag, 0))
    IN  (IF raw < 0 THEN -raw ELSE raw) % 360

\* Width and height as displayed.
Size(stream) ==
    IF Rotation(stream) \in {90, 270} /\ stream.width # {} /\ stream.height # {}
      THEN <<stream.height, stream.width>>
      ELSE <<stream.width, stream.height>>

\* A time without an offset is one of UTC; another keeps its own.
Parsed(created) ==
    {[clock |-> t.clock, offset |-> OrElse(t.offset, 0)] : t \in created \ {Garbled}}

\* The first of three creation times that parses, with its offset.  The column it
\* goes to keeps the clock only: see ReadMax of ClipTimeline.
RecordedAt(out, stream) ==
    LET good == <<Parsed(out.apple), Parsed(out.created), Parsed(stream.created)>>
    IN  IF good[1] # {} THEN good[1] ELSE IF good[2] # {} THEN good[2] ELSE good[3]

\* _parse_output: no video stream is an FfprobeError, {} here.
ParseVideo(out) ==
    {[duration |-> out.duration,
      size     |-> Size(out.streams[i]),
      recorded |-> RecordedAt(out, out.streams[i])] : i \in First(out, "video")}

\* _parse_audio_output: the file's title goes before the stream's.
ParseAudio(out) ==
    {[duration |-> out.duration,
      title    |-> IF out.title # {} THEN out.title ELSE out.streams[i].title] :
        i \in First(out, "audio")}

-----------------------------------------------------------------------------
\* generate_filmstrip: frames sampled from a clip of a duration or of none.
FrameCount(duration) ==
    LET d == OrElse(duration, 0)
    IN  IF d <= 1 THEN 1 ELSE IF d < 10 THEN d ELSE 10

-----------------------------------------------------------------------------
(* compile.py.  An input is a file and what is read of it, [file, from, to]:    *)
(* the window of a clip, all of the soundtrack.  Inputs are counted from 1; a   *)
(* filter takes the pads of inputs, or what other filters are labelled with.    *)

Pad(input, kind) == <<"input", input, kind>>
Label(name) == <<"label", 0, name>>

Whole(file, length) == [file |-> file, from |-> 0, to |-> length]
Pads(n, kind) == [i \in 1..n |-> Pad(i, kind)]

\* A mix ends with the first of its inputs (duration=first), the output with the
\* video or with the sound (-shortest).
CompileCommand(specs, soundtrack, fadeStart, mix) ==
    LET n == Len(specs)
        concat == [does |-> "concat", ins |-> Pads(n, "v"), out |-> "vout", at |-> 0]
        fade == [does |-> "fade", ins |-> <<Pad(n + 1, "a")>>, out |-> "aout", at |-> fadeStart]
        clipAudio == [does |-> "concat", ins |-> Pads(n, "a"), out |-> "clipaud", at |-> 0]
        amix == [does |-> "mix", ins |-> <<Label("aout"), Label("clipaud")>>,
                 out |-> "mixout", at |-> 0]
    IN  [inputs   |-> Append(specs, soundtrack),
         filters  |-> {concat, fade} \cup (IF mix THEN {clipAudio, amix} ELSE {}),
         video    |-> "vout",
         audio    |-> IF mix THEN "mixout" ELSE "aout",
         shortest |-> TRUE]

\* The length of windows played one after another.
Total(specs) == MapThenSumSet(LAMBDA i : specs[i].to - specs[i].from, DOMAIN specs)

\* compile_video: the last two seconds.
FadeStart(total) == IF total > 2 THEN total - 2 ELSE 0

\* Fault: nothing stops at 100.
PercentUncapped(time, total) ==
    IF total <= 0 THEN 0
    ELSE IF time < 0 THEN -((-time * 100) \div total)
    ELSE (time * 100) \div total

\* The percentage of run_compilation's callback: int() drops the fraction,
\* below zero too.
Percent(time, total) ==
    IF total <= 0 THEN 0
    ELSE IF time < 0 THEN -((-time * 100) \div total)
    ELSE LET p == (time * 100) \div total IN IF p > 100 THEN 100 ELSE p

-----------------------------------------------------------------------------
(* What ffmpeg makes of a command: outside the repository. *)

Filter(cmd, label) == CHOOSE f \in cmd.filters : f.out = label

\* What the pads of a filter carry.
Streams(cmd, filter) == [i \in 1..Len(filter.ins) |-> cmd.inputs[filter.ins[i][2]]]

VideoOf(cmd) == Streams(cmd, Filter(cmd, cmd.video))

\* The filters one hears: the two of a mix, or the only one.
Heard(cmd) ==
    LET f == Filter(cmd, cmd.audio)
    IN  IF f.does = "mix" THEN {Filter(cmd, f.ins[i][3]) : i \in 1..Len(f.ins)} ELSE {f}

SoundOf(cmd) == {[does |-> f.does, of |-> Streams(cmd, f), at |-> f.at] : f \in Heard(cmd)}

\* The filter whose end is the end of the sound.
Sounding(cmd) ==
    LET f == Filter(cmd, cmd.audio)
    IN  IF f.does = "mix" THEN Filter(cmd, f.ins[1][3]) ELSE f

ShorterOf(a, b) == IF a < b THEN a ELSE b
LongerOf(a, b) == IF a < b THEN b ELSE a

\* How long the output is.
OutputLength(cmd) ==
    LET video == Total(VideoOf(cmd))
        sound == Total(Streams(cmd, Sounding(cmd)))
    IN  IF cmd.shortest THEN ShorterOf(video, sound) ELSE LongerOf(video, sound)

\* ffmpeg refuses an input that ends where it begins, and a pad for the sound of
\* a file without any; silent are the files without.
Refused(cmd, silent) ==
    \/ \E i \in 1..(Len(cmd.inputs) - 1) : cmd.inputs[i].to <= cmd.inputs[i].from
    \/ \E f \in cmd.filters : \E i \in 1..Len(f.ins) :
          /\ f.ins[i][1] = "input" /\ f.ins[i][3] = "a"
          /\ cmd.inputs[f.ins[i][2]].file \in silent

=============================================================================
