------------------------ MODULE RenderPipelineProofs ------------------------
(***************************************************************************)
(* Facts about what MediaTools computes, and proofs about RenderPipeline:  *)
(* what a call reports and why it ends, that what is rendered is the       *)
(* timeline as it was at the POST, when ffmpeg refuses it, and what the    *)
(* bar shows, for any library, any edits and any capacity of the pipes.    *)
(***************************************************************************)
EXTENDS RenderPipeline, FiniteSetTheorems, TLAPS

-----------------------------------------------------------------------------
(* The pure functions. *)

LEMMA OrElseType ==
    ASSUME NEW T, NEW S, S \subseteq T, NEW default, default \in T
    PROVE  OrElse(S, default) \in T
<1>1. CASE S = {}
  BY <1>1 DEF OrElse
<1>2. CASE S # {}
  <2>1. PICK x : x \in S
    BY <1>2
  <2>2. The(S) \in S
    BY <2>1 DEF The
  <2> QED  BY <1>2, <2>2 DEF OrElse
<1> QED  BY <1>1, <1>2

\* The percentage of run_compilation's callback lies between 0 and 100 from the
\* first frame on.
THEOREM PercentBounded ==
    ASSUME NEW at \in Nat, NEW total \in Int
    PROVE  Percent(at, total) \in 0..100
<1>1. CASE total <= 0
  BY <1>1 DEF Percent
<1>2. CASE total > 0
  <2> DEFINE p == (at * 100) \div total
  <2>1. p \in Int /\ p >= 0
    BY <1>2, SMT
  <2>2. Percent(at, total) = IF p > 100 THEN 100 ELSE p
    BY <1>2 DEF Percent
  <2> HIDE DEF p
  <2> QED  BY <2>1, <2>2
<1> QED  BY <1>1, <1>2

LEMMA QuotientBounds ==
    ASSUME NEW a \in Int, NEW b \in Int, b > 0
    PROVE  /\ a \div b \in Int
           /\ (a \div b) * b <= a
           /\ a < (a \div b) * b + b
OBVIOUS

LEMMA QuotientMonotone ==
    ASSUME NEW a \in Int, NEW c \in Int, a <= c, NEW b \in Int, b > 0
    PROVE  a \div b <= c \div b
<1> DEFINE q == a \div b
           r == c \div b
<1>1. q \in Int /\ r \in Int /\ q * b <= a /\ c < r * b + b
  BY QuotientBounds
<1> HIDE DEF q, r
<1>2. q * b < r * b + b
  BY <1>1
<1>3. SUFFICES ASSUME r < q PROVE FALSE
  BY <1>1 DEF q, r
<1>4. r + 1 <= q
  BY <1>1, <1>3
<1>5. (r + 1) * b <= q * b
  BY <1>1, <1>4
<1>6. (r + 1) * b = r * b + b
  BY <1>1
<1> QED  BY <1>1, <1>2, <1>5, <1>6

\* A later line of ffmpeg's progress never gives a smaller percentage, whatever
\* its out_time is: before zero, where int() rounds the other way, or behind the
\* end.
THEOREM PercentMonotone ==
    ASSUME NEW t \in Int, NEW u \in Int, t <= u, NEW total \in Int
    PROVE  Percent(t, total) <= Percent(u, total)
<1>1. CASE total <= 0
  BY <1>1 DEF Percent
<1>2. CASE total > 0
  <2> DEFINE p(x) == (x * 100) \div total
             n(x) == (-x * 100) \div total
  <2>1. \A x \in Int : p(x) \in Int /\ n(x) \in Int
    BY <1>2, QuotientBounds
  <2>2. \A x \in Int : x >= 0 => p(x) >= 0
    <3> SUFFICES ASSUME NEW x \in Int, x >= 0 PROVE p(x) >= 0
      OBVIOUS
    <3>1. (0 \div total) = 0 /\ x * 100 \in Int /\ 0 <= x * 100
      BY <1>2
    <3> QED  BY <3>1, <1>2, QuotientMonotone
  <2>3. \A x \in Int : x < 0 => n(x) >= 0
    <3> SUFFICES ASSUME NEW x \in Int, x < 0 PROVE n(x) >= 0
      OBVIOUS
    <3>1. (0 \div total) = 0 /\ -x * 100 \in Int /\ 0 <= -x * 100
      BY <1>2
    <3> QED  BY <3>1, <1>2, QuotientMonotone
  <2>4. t * 100 \in Int /\ u * 100 \in Int /\ t * 100 <= u * 100
        /\ -t * 100 \in Int /\ -u * 100 \in Int /\ -u * 100 <= -t * 100
    OBVIOUS
  <2>5. p(t) <= p(u) /\ n(u) <= n(t)
    BY <2>4, <1>2, QuotientMonotone
  <2>6. \A x \in Int : Percent(x, total) =
            IF x < 0 THEN -n(x) ELSE IF p(x) > 100 THEN 100 ELSE p(x)
    BY <1>2 DEF Percent
  <2> HIDE DEF p, n
  <2> QED  BY <2>1, <2>2, <2>3, <2>5, <2>6
<1> QED  BY <1>1, <1>2

\* The callback never shows more than 100, and 100 only for a line at or behind
\* the end of the timeline.
THEOREM PercentFull ==
    ASSUME NEW t \in Int, NEW total \in Int
    PROVE  /\ Percent(t, total) \in Int /\ Percent(t, total) <= 100
           /\ Percent(t, total) = 100 => t >= total
<1>1. CASE total <= 0
  BY <1>1 DEF Percent
<1>2. CASE total > 0 /\ t < 0
  <2> DEFINE n == (-t * 100) \div total
  <2>1. n \in Int /\ n >= 0
    <3>1. (0 \div total) = 0 /\ -t * 100 \in Int /\ 0 <= -t * 100
      BY <1>2
    <3> QED  BY <3>1, <1>2, QuotientMonotone, QuotientBounds
  <2>2. Percent(t, total) = -n
    BY <1>2 DEF Percent
  <2> HIDE DEF n
  <2> QED  BY <2>1, <2>2
<1>3. CASE total > 0 /\ t >= 0
  <2> DEFINE p == (t * 100) \div total
  <2>1. p \in Int /\ p * total <= t * 100
    BY <1>3, QuotientBounds
  <2>2. Percent(t, total) = IF p > 100 THEN 100 ELSE p
    BY <1>3 DEF Percent
  <2> HIDE DEF p
  <2>3. ASSUME p >= 100 PROVE t >= total
    <3>1. 100 * total <= p * total
      BY <1>3, <2>1, <2>3
    <3>2. p * total \in Int
      BY <2>1
    <3> QED  BY <1>3, <2>1, <3>1, <3>2
  <2> QED  BY <2>1, <2>2, <2>3
<1> QED  BY <1>1, <1>2, <1>3

\* generate_filmstrip samples at least one frame and never two within a second.
THEOREM FramesApart ==
    ASSUME NEW duration \in SUBSET Int
    PROVE  /\ FrameCount(duration) \in 1..10
           /\ \A d \in duration : duration = {d} /\ d >= 1 => FrameCount(duration) <= d
<1> DEFINE d == OrElse(duration, 0)
<1>1. d \in Int
  <2>1. duration \subseteq Int /\ 0 \in Int
    OBVIOUS
  <2> QED  BY <2>1, OrElseType
<1>2. \A x \in duration : duration = {x} => d = x
  BY DEF OrElse, The
<1>3. FrameCount(duration) = IF d <= 1 THEN 1 ELSE IF d < 10 THEN d ELSE 10
  BY DEF FrameCount
<1> HIDE DEF d
<1> QED  BY <1>1, <1>2, <1>3

\* _parse_output swaps width and height exactly when the video is displayed
\* after an odd number of quarter turns, in either direction.
THEOREM OddQuarterTurns ==
    ASSUME NEW stream, NEW turns \in Int,
           OrElse(stream.matrix, OrElse(stream.tag, 0)) = 90 * turns,
           stream.width # {}, stream.height # {}, stream.width # stream.height
    PROVE  Size(stream) = <<stream.height, stream.width>> <=> turns % 2 = 1
<1> DEFINE raw == OrElse(stream.matrix, OrElse(stream.tag, 0))
           deg == IF raw < 0 THEN -raw ELSE raw
<1>1. Rotation(stream) = deg % 360
  BY DEF Rotation
<1>2. raw = 90 * turns
  OBVIOUS
<1> HIDE DEF raw
<1>3. deg \in Nat /\ (deg % 360 \in {90, 270} <=> turns % 2 = 1)
  BY <1>2
<1>4. Rotation(stream) \in {90, 270} <=> turns % 2 = 1
  BY <1>1, <1>3
<1> QED  BY <1>4 DEF Size

-----------------------------------------------------------------------------
(* The length of a timeline. *)

LEMMA LeastNatural ==
    ASSUME NEW T, T \subseteq Nat, T # {}
    PROVE  \E t \in T : \A y \in T : t <= y
<1>1. \E x \in T : \A y \in T : ~(<<y, x>> \in OpToRel(<, Nat))
  BY NatLessThanWellFounded, WFMin
<1>2. PICK x \in T : \A y \in T : ~(<<y, x>> \in OpToRel(<, Nat))
  BY <1>1
<1>3. \A y \in T : ~(y < x)
  BY <1>2 DEF OpToRel
<1> QED  BY <1>3

\* The set that is left when the element that is added first is taken away.
Picked(s) == CHOOSE x \in s : TRUE
Rest(s) == s \ {Picked(s)}

LEMMA RestIsSmaller ==
    ASSUME NEW S, IsFiniteSet(S), NEW s \in SUBSET S, s # {}
    PROVE  /\ Picked(s) \in s
           /\ Rest(s) \in SUBSET S
           /\ Cardinality(s) \in Nat /\ Cardinality(Rest(s)) = Cardinality(s) - 1
           /\ Cardinality(Rest(s)) \in Nat
<1>1. Picked(s) \in s
  BY DEF Picked
<1>2. IsFiniteSet(s)
  BY FS_Subset
<1>3. IsFiniteSet(Rest(s)) /\ Cardinality(Rest(s)) = Cardinality(s) - 1
  BY <1>1, <1>2, FS_RemoveElement DEF Rest
<1>4. Cardinality(s) \in Nat /\ Cardinality(Rest(s)) \in Nat
  BY <1>2, <1>3, FS_CardinalityType
<1> QED  BY <1>1, <1>3, <1>4 DEF Rest

\* The sum of specs over a set of positions, in terms of a smaller one.
SumRule(specs, g, s) ==
    IF s = {} THEN 0 ELSE (specs[Picked(s)].to - specs[Picked(s)].from) + g[Rest(s)]

LEMMA SumExists ==
    ASSUME NEW specs, IsFiniteSet(DOMAIN specs)
    PROVE  \E g : g = [s \in SUBSET DOMAIN specs |-> SumRule(specs, g, s)]
<1> DEFINE S == DOMAIN specs
           Upto(k) == {s \in SUBSET S : Cardinality(s) <= k}
           Sums(g, k) == g = [s \in Upto(k) |-> SumRule(specs, g, s)]
           Bad == {k \in Nat : ~ \E g : Sums(g, k)}
<1>card. \A s \in SUBSET S : Cardinality(s) \in Nat
  BY FS_Subset, FS_CardinalityType
<1>rest. \A s \in SUBSET S : s # {} =>
           Rest(s) \in SUBSET S /\ Cardinality(Rest(s)) = Cardinality(s) - 1
  BY RestIsSmaller
<1>1. \E g : Sums(g, 0)
  <2>1. \A s \in Upto(0) : s = {}
    BY <1>card, FS_EmptySet, FS_Subset
  <2> DEFINE g == [s \in Upto(0) |-> 0]
  <2>2. \A h : [s \in Upto(0) |-> SumRule(specs, h, s)] = g
    BY <2>1 DEF SumRule
  <2> HIDE DEF Upto, g
  <2>3. Sums(g, 0)
    BY <2>2
  <2> QED  BY <2>3
<1>2. ASSUME NEW k \in Nat, NEW g, Sums(g, k) PROVE \E h : Sums(h, k + 1)
  <2> DEFINE h == [s \in Upto(k + 1) |-> SumRule(specs, g, s)]
  <2>1. \A s \in Upto(k) : s \in Upto(k + 1) /\ h[s] = g[s]
    <3>1. \A s \in Upto(k) : s \in Upto(k + 1)
      BY <1>card
    <3>2. \A s \in Upto(k) : g[s] = SumRule(specs, g, s)
      <4> HIDE DEF Upto
      <4> QED  BY <1>2
    <3> HIDE DEF Upto
    <3> QED  BY <3>1, <3>2
  <2>2. \A s \in Upto(k + 1) : s # {} => Rest(s) \in Upto(k)
    BY <1>card, <1>rest
  <2> HIDE DEF Upto, h
  <2>3. \A s \in Upto(k + 1) : SumRule(specs, g, s) = SumRule(specs, h, s)
    BY <2>1, <2>2 DEF SumRule
  <2>4. h = [s \in Upto(k + 1) |-> SumRule(specs, h, s)]
    BY <2>3 DEF h
  <2> QED  BY <2>4
<1> HIDE DEF Sums
<1>3. Bad = {}
  <2> SUFFICES ASSUME Bad # {} PROVE FALSE
    OBVIOUS
  <2>1. PICK k \in Bad : \A j \in Bad : k <= j
    <3>1. Bad \subseteq Nat
      OBVIOUS
    <3> HIDE DEF Bad
    <3> QED  BY <3>1, LeastNatural
  <2>2. k \in Nat /\ k # 0
    BY <1>1
  <2>3. k - 1 \in Nat /\ k - 1 \notin Bad
    BY <2>1, <2>2
  <2>4. \E g : Sums(g, k - 1)
    BY <2>3
  <2>5. \E h : Sums(h, (k - 1) + 1)
    BY <2>3, <2>4, <1>2
  <2>6. (k - 1) + 1 = k
    BY <2>2
  <2>7. \E h : Sums(h, k)
    BY <2>5, <2>6
  <2> QED  BY <2>7
<1>4. Cardinality(S) \in Nat /\ \A s \in SUBSET S : Cardinality(s) <= Cardinality(S)
  BY FS_Subset, FS_CardinalityType
<1>5. Upto(Cardinality(S)) = SUBSET S
  BY <1>4
<1>6. PICK g : Sums(g, Cardinality(S))
  BY <1>3, <1>4
<1>7. g = [s \in SUBSET S |-> SumRule(specs, g, s)]
  BY <1>5, <1>6 DEF Sums
<1> QED  BY <1>7

LEMMA TotalIsSum ==
    ASSUME NEW specs, IsFiniteSet(DOMAIN specs)
    PROVE  \E sum : /\ sum = [s \in SUBSET DOMAIN specs |-> SumRule(specs, sum, s)]
                    /\ Total(specs) = sum[DOMAIN specs]
<1> DEFINE S == DOMAIN specs
           sum == CHOOSE g : g = [s \in SUBSET S |-> SumRule(specs, g, s)]
<1>1. sum = [s \in SUBSET S |-> SumRule(specs, sum, s)]
  BY SumExists
<1>2. Total(specs) = sum[S]
  BY Zenon DEF Total, MapThenSumSet, MapThenFoldSet, SumRule, Picked, Rest
<1> HIDE DEF sum
<1> QED  BY <1>1, <1>2

LEMMA TotalOfOne ==
    ASSUME NEW x, x.to - x.from \in Int
    PROVE  Total(<<x>>) = x.to - x.from
<1> DEFINE specs == <<x>>
<1>1. DOMAIN specs = {1} /\ specs[1] = x
  OBVIOUS
<1>2. IsFiniteSet(DOMAIN specs)
  BY <1>1, FS_Singleton
<1> HIDE DEF specs
<1>3. PICK sum : /\ sum = [s \in SUBSET DOMAIN specs |-> SumRule(specs, sum, s)]
                 /\ Total(specs) = sum[DOMAIN specs]
  BY <1>2, TotalIsSum
<1>4. sum[{}] = SumRule(specs, sum, {}) /\ sum[{1}] = SumRule(specs, sum, {1})
  BY <1>1, <1>3
<1>5. Picked({1}) = 1 /\ Rest({1}) = {}
  BY DEF Picked, Rest
<1>6. sum[{}] = 0 /\ sum[{1}] = (x.to - x.from) + sum[{}]
  BY <1>1, <1>4, <1>5 DEF SumRule
<1>7. Total(specs) = x.to - x.from
  BY <1>1, <1>3, <1>6
<1> QED  BY <1>7 DEF specs

\* The length of a timeline is a sum over its positions in an order that is left
\* open; whatever set contains the lengths of the windows and their sums
\* contains it.
LEMMA TotalType ==
    ASSUME NEW specs, IsFiniteSet(DOMAIN specs), NEW T, T \subseteq Int, 0 \in T,
           \A a, b \in T : a + b \in T,
           \A i \in DOMAIN specs : specs[i].to - specs[i].from \in T
    PROVE  Total(specs) \in T
<1> DEFINE S == DOMAIN specs
<1>1. PICK sum : /\ sum = [s \in SUBSET S |-> SumRule(specs, sum, s)]
                 /\ Total(specs) = sum[S]
  BY TotalIsSum
<1> DEFINE Bad == {Cardinality(s) : s \in {x \in SUBSET S : sum[x] \notin T}}
<1>3. Bad = {}
  <2> SUFFICES ASSUME Bad # {} PROVE FALSE
    OBVIOUS
  <2>1. Bad \subseteq Nat
    BY FS_Subset, FS_CardinalityType
  <2>2. PICK k \in Bad : \A j \in Bad : k <= j
    <3> HIDE DEF Bad
    <3> QED  BY <2>1, LeastNatural
  <2>3. PICK s \in SUBSET S : k = Cardinality(s) /\ sum[s] \notin T
    OBVIOUS
  <2>4. sum[s] = SumRule(specs, sum, s)
    BY <1>1
  <2>5. s # {}
    BY <2>3, <2>4 DEF SumRule
  <2>6. /\ Picked(s) \in s /\ Rest(s) \in SUBSET S
        /\ Cardinality(s) \in Nat /\ Cardinality(Rest(s)) = Cardinality(s) - 1
    BY <2>5, RestIsSmaller
  <2>7. sum[Rest(s)] \in T
    <3>1. ASSUME sum[Rest(s)] \notin T PROVE FALSE
      <4>1. Cardinality(Rest(s)) \in Bad
        BY <2>6, <3>1
      <4>2. k <= k - 1
        BY <2>2, <2>3, <2>6, <4>1
      <4> QED  BY <2>3, <2>6, <4>2
    <3> QED  BY <3>1
  <2>8. sum[s] \in T
    BY <2>4, <2>5, <2>6, <2>7 DEF SumRule
  <2> QED  BY <2>3, <2>8
<1>4. sum[S] \in T
  BY <1>3
<1> QED  BY <1>1, <1>4

-----------------------------------------------------------------------------
(* What ffmpeg makes of build_compile_command's command. *)

LEMMA VideoOfCommand ==
    ASSUME NEW S, NEW specs \in Seq(S), NEW music, NEW at, NEW m \in BOOLEAN
    PROVE  VideoOf(CompileCommand(specs, music, at, m)) = specs
<1> DEFINE n == Len(specs)
           cmd == CompileCommand(specs, music, at, m)
           concat == [does |-> "concat", ins |-> Pads(n, "v"), out |-> "vout", at |-> 0]
<1>1. cmd.inputs = Append(specs, music) /\ cmd.video = "vout"
  BY DEF CompileCommand
<1>2. concat \in cmd.filters
  BY DEF CompileCommand
<1>3. ASSUME NEW f \in cmd.filters, f.out = "vout" PROVE f = concat
  BY <1>3 DEF CompileCommand
<1>4. Filter(cmd, cmd.video) = concat
  BY <1>1, <1>2, <1>3 DEF Filter
<1>5. n \in Nat /\ concat.ins = [i \in 1..n |-> <<"input", i, "v">>] /\ Len(concat.ins) = n
  BY DEF Pads, Pad
<1> HIDE DEF cmd, concat
<1>6. VideoOf(cmd) = [i \in 1..n |-> cmd.inputs[i]]
  BY <1>4, <1>5 DEF VideoOf, Streams
<1>7. \A i \in 1..n : cmd.inputs[i] = specs[i]
  BY <1>1
<1>8. specs = [i \in 1..n |-> specs[i]]
  OBVIOUS
<1>9. VideoOf(cmd) = specs
  BY <1>6, <1>7, <1>8
<1> QED  BY <1>9 DEF cmd

LEMMA SoundOfCommand ==
    ASSUME NEW S, NEW specs \in Seq(S), NEW music, NEW at, NEW m \in BOOLEAN
    PROVE  LET cmd == CompileCommand(specs, music, at, m)
           IN  /\ SoundOf(cmd) =
                    {[does |-> "fade", of |-> <<music>>, at |-> at]}
                    \cup IF m THEN {[does |-> "concat", of |-> specs, at |-> 0]} ELSE {}
               /\ Streams(cmd, Sounding(cmd)) = <<music>>
<1> DEFINE n == Len(specs)
           cmd == CompileCommand(specs, music, at, m)
           fade == [does |-> "fade", ins |-> <<Pad(n + 1, "a")>>, out |-> "aout", at |-> at]
           clipAudio == [does |-> "concat", ins |-> Pads(n, "a"), out |-> "clipaud", at |-> 0]
           amix == [does |-> "mix", ins |-> <<Label("aout"), Label("clipaud")>>,
                    out |-> "mixout", at |-> 0]
           sound(f) == [does |-> f.does, of |-> Streams(cmd, f), at |-> f.at]
<1>1. cmd.inputs = Append(specs, music) /\ cmd.audio = IF m THEN "mixout" ELSE "aout"
  BY DEF CompileCommand
<1>2. fade \in cmd.filters /\ (m => clipAudio \in cmd.filters /\ amix \in cmd.filters)
  BY DEF CompileCommand
<1>3. ASSUME NEW f \in cmd.filters
      PROVE  /\ f.out = "aout" => f = fade
             /\ f.out = "clipaud" => f = clipAudio
             /\ f.out = "mixout" => f = amix
  BY DEF CompileCommand
<1>4. Filter(cmd, "aout") = fade
  BY <1>2, <1>3 DEF Filter
<1>5. m => Filter(cmd, "clipaud") = clipAudio /\ Filter(cmd, "mixout") = amix
  BY <1>2, <1>3 DEF Filter
<1>6. n \in Nat /\ Len(cmd.inputs) = n + 1 /\ cmd.inputs[n + 1] = music
      /\ \A i \in 1..n : cmd.inputs[i] = specs[i]
  BY <1>1
<1> HIDE DEF cmd
<1>7. Streams(cmd, fade) = <<music>>
  <2>1. Len(fade.ins) = 1 /\ fade.ins[1][2] = n + 1
    BY DEF Pad
  <2>2. Streams(cmd, fade) = [i \in 1..1 |-> cmd.inputs[fade.ins[i][2]]]
    BY <2>1 DEF Streams
  <2> HIDE DEF fade
  <2>3. [i \in 1..1 |-> cmd.inputs[fade.ins[i][2]]] = [i \in 1..1 |-> music]
    BY <2>1, <1>6
  <2>4. [i \in 1..1 |-> music] = <<music>>
    OBVIOUS
  <2> QED  BY <2>2, <2>3, <2>4
<1>8. Streams(cmd, clipAudio) = specs
  <2>1. Len(clipAudio.ins) = n /\ \A i \in 1..n : clipAudio.ins[i][2] = i
    BY <1>6 DEF Pads, Pad
  <2>2. Streams(cmd, clipAudio) = [i \in 1..n |-> cmd.inputs[clipAudio.ins[i][2]]]
    BY <2>1 DEF Streams
  <2> HIDE DEF clipAudio
  <2>3. [i \in 1..n |-> cmd.inputs[clipAudio.ins[i][2]]] = [i \in 1..n |-> specs[i]]
    BY <2>1, <1>6
  <2> QED  BY <2>2, <2>3
<1>9. /\ fade.does = "fade" /\ fade.at = at
      /\ clipAudio.does = "concat" /\ clipAudio.at = 0
      /\ amix.does = "mix" /\ Len(amix.ins) = 2
      /\ amix.ins[1][3] = "aout" /\ amix.ins[2][3] = "clipaud"
  <2>1. amix.ins[1] = <<"label", 0, "aout">> /\ amix.ins[2] = <<"label", 0, "clipaud">>
    BY DEF Label
  <2> QED  BY <2>1
<1> HIDE DEF fade, clipAudio, amix
<1>10. Heard(cmd) = IF m THEN {fade, clipAudio} ELSE {fade}
  <2>1. CASE m
    <3>1. Heard(cmd) = {Filter(cmd, amix.ins[i][3]) : i \in 1..2}
      BY <2>1, <1>1, <1>5, <1>9 DEF Heard
    <3>2. Filter(cmd, amix.ins[1][3]) = fade /\ Filter(cmd, amix.ins[2][3]) = clipAudio
      BY <2>1, <1>4, <1>5, <1>9
    <3>3. \A i \in 1..2 : i = 1 \/ i = 2
      OBVIOUS
    <3> QED  BY <2>1, <3>1, <3>2, <3>3
  <2>2. CASE ~m
    BY <2>2, <1>1, <1>4, <1>9 DEF Heard
  <2> QED  BY <2>1, <2>2
<1>11. SoundOf(cmd) = IF m THEN {sound(fade), sound(clipAudio)} ELSE {sound(fade)}
  BY <1>10 DEF SoundOf
<1>12. /\ sound(fade) = [does |-> "fade", of |-> <<music>>, at |-> at]
       /\ sound(clipAudio) = [does |-> "concat", of |-> specs, at |-> 0]
  BY <1>7, <1>8, <1>9
<1>13. SoundOf(cmd) = {[does |-> "fade", of |-> <<music>>, at |-> at]}
              \cup IF m THEN {[does |-> "concat", of |-> specs, at |-> 0]} ELSE {}
  <2> HIDE DEF sound
  <2> QED  BY <1>11, <1>12
<1>14. Sounding(cmd) = fade
  BY <1>1, <1>4, <1>5, <1>9 DEF Sounding
<1>15. Streams(cmd, Sounding(cmd)) = <<music>>
  BY <1>7, <1>14
<1> QED  BY <1>13, <1>15 DEF cmd

\* The output ends with the timeline or with the soundtrack, whichever is shorter.
LEMMA LengthOfCommand ==
    ASSUME NEW S, NEW specs \in Seq(S), NEW music, NEW at, NEW m \in BOOLEAN,
           music.to - music.from \in Int
    PROVE  OutputLength(CompileCommand(specs, music, at, m)) =
              ShorterOf(Total(specs), music.to - music.from)
<1> DEFINE cmd == CompileCommand(specs, music, at, m)
<1>1. cmd.shortest = TRUE
  BY DEF CompileCommand
<1>2. VideoOf(cmd) = specs
  BY VideoOfCommand
<1>3. Streams(cmd, Sounding(cmd)) = <<music>>
  BY SoundOfCommand
<1>4. Total(<<music>>) = music.to - music.from
  BY TotalOfOne
<1> HIDE DEF cmd
<1>5. OutputLength(cmd) = ShorterOf(Total(specs), music.to - music.from)
  BY <1>1, <1>2, <1>3, <1>4 DEF OutputLength
<1> QED  BY <1>5 DEF cmd

\* What ffmpeg refuses of the commands that are built: an empty window, or a mix
\* with a clip that has no sound.  The soundtrack's pad is always there.
THEOREM RefusedCommand ==
    ASSUME NEW S, NEW specs \in Seq(S), NEW music, NEW at, NEW m \in BOOLEAN,
           NEW silent, music.file \notin silent
    PROVE  Refused(CompileCommand(specs, music, at, m), silent) <=>
              \E i \in 1..Len(specs) :
                  specs[i].to <= specs[i].from \/ (m /\ specs[i].file \in silent)
<1> DEFINE n == Len(specs)
           cmd == CompileCommand(specs, music, at, m)
           concat == [does |-> "concat", ins |-> Pads(n, "v"), out |-> "vout", at |-> 0]
           fade == [does |-> "fade", ins |-> <<Pad(n + 1, "a")>>, out |-> "aout", at |-> at]
           clipAudio == [does |-> "concat", ins |-> Pads(n, "a"), out |-> "clipaud", at |-> 0]
           amix == [does |-> "mix", ins |-> <<Label("aout"), Label("clipaud")>>,
                    out |-> "mixout", at |-> 0]
           MutePad(f) == \E i \in 1..Len(f.ins) :
                            /\ f.ins[i][1] = "input" /\ f.ins[i][3] = "a"
                            /\ cmd.inputs[f.ins[i][2]].file \in silent
<1>1. /\ cmd.inputs = Append(specs, music)
      /\ cmd.filters = {concat, fade} \cup (IF m THEN {clipAudio, amix} ELSE {})
  BY DEF CompileCommand
<1>2. n \in Nat /\ Len(cmd.inputs) - 1 = n /\ cmd.inputs[n + 1] = music
      /\ \A i \in 1..n : cmd.inputs[i] = specs[i]
  BY <1>1
<1> HIDE DEF cmd
<1>3. ~MutePad(concat)
  <2>1. \A i \in 1..Len(concat.ins) : concat.ins[i][3] = "v"
    BY <1>2 DEF Pads, Pad
  <2> HIDE DEF concat
  <2> QED  BY <2>1
<1>4. ~MutePad(fade)
  <2>1. Len(fade.ins) = 1 /\ fade.ins[1][2] = n + 1
    BY DEF Pad
  <2> HIDE DEF fade
  <2> QED  BY <2>1, <1>2
<1>5. ~MutePad(amix)
  <2>1. Len(amix.ins) = 2 /\ amix.ins[1][1] = "label" /\ amix.ins[2][1] = "label"
    BY DEF Label
  <2> HIDE DEF amix
  <2>2. \A i \in 1..2 : i = 1 \/ i = 2
    OBVIOUS
  <2> QED  BY <2>1, <2>2
<1>6. MutePad(clipAudio) <=> \E i \in 1..n : specs[i].file \in silent
  <2>1. Len(clipAudio.ins) = n
        /\ \A i \in 1..n : clipAudio.ins[i] = <<"input", i, "a">>
    BY <1>2 DEF Pads, Pad
  <2> HIDE DEF clipAudio
  <2>2. \A i \in 1..n : /\ clipAudio.ins[i][1] = "input" /\ clipAudio.ins[i][2] = i
                        /\ clipAudio.ins[i][3] = "a"
    BY <2>1
  <2> QED  BY <2>1, <2>2, <1>2
<1>7. Refused(cmd, silent) <=>
         \/ \E i \in 1..n : specs[i].to <= specs[i].from
         \/ \E f \in cmd.filters : MutePad(f)
  BY <1>2 DEF Refused
<1>8. (\E f \in cmd.filters : MutePad(f)) <=> m /\ MutePad(clipAudio)
  <2> HIDE DEF MutePad, concat, fade, clipAudio, amix
  <2> QED  BY <1>1, <1>3, <1>4, <1>5
<1>9. Refused(cmd, silent) <=>
         \E i \in 1..n : specs[i].to <= specs[i].from \/ (m /\ specs[i].file \in silent)
  <2> HIDE DEF MutePad, clipAudio
  <2> QED  BY <1>6, <1>7, <1>8
<1> QED  BY <1>9 DEF cmd

-----------------------------------------------------------------------------
(* The calls. *)

OutDrained == InPipe("out") = 0 /\ ~outOpen

\* What holds of a call under way and makes the result faithful: the worker is at
\* proc.wait only when stdout has ended, and joins the drainer only with a
\* program that is gone, unless on_progress has raised.
RunnerIInv ==
    /\ RunnerTypeOK
    /\ drainer = "done" => ~Alive /\ InPipe("err") = 0
    /\ worker \in {"reading", "waiting"} =>
          drainer # "none" /\ result = "none" /\ (Alive \/ proc = "exited")
    /\ worker = "waiting" => OutDrained
    /\ worker = "joining" =>
          /\ drainer # "none"
          /\ \/ result = "exited" /\ proc = "exited" /\ OutDrained
             \/ result = "timedout" /\ proc = "killed"
             \/ result = "raised"
    /\ worker = "returned" => drainer # "draining" /\ (result = "ok" \/ result = "failed" => ~outOpen)
    /\ worker = "idle" => drainer = "none" /\ ~Alive
    /\ ReturnsFaithfully

LEMMA RunnerInitIInv == RunnerInit => RunnerIInv
<1> SUFFICES ASSUME RunnerInit PROVE RunnerIInv
  OBVIOUS
<1>1. NoLines \in [Pipes -> 0..MaxLines]
  BY PipeAssumption DEF NoLines
<1>2. RunnerTypeOK
  BY <1>1 DEF RunnerInit, RunnerTypeOK, CallKinds
<1> QED  BY <1>2 DEF RunnerInit, RunnerIInv, ReturnsFaithfully, Alive

LEMMA RunnerStepIInv == RunnerIInv /\ RunnerNext => RunnerIInv'
<1> SUFFICES ASSUME RunnerIInv, RunnerNext PROVE RunnerIInv'
  OBVIOUS
<1> USE PipeAssumption, CallsAssumption
    DEF RunnerIInv, RunnerTypeOK, ReturnsFaithfully, OutDrained, Alive, InPipe, Pipes,
        programVars, threadVars
<1>0. NoLines \in [Pipes -> 0..MaxLines]
  BY DEF NoLines
<1>1. ASSUME NEW kind \in Calls, StartCall(kind) PROVE RunnerIInv'
  <2>1. kind \in CallKinds
    OBVIOUS
  <2>2. RunnerTypeOK'
    BY <1>0, <1>1, <2>1 DEF StartCall
  <2> QED  BY <1>1, <2>2 DEF StartCall
<1>2. ASSUME NEW kind \in Calls, StartCallFails(kind) PROVE RunnerIInv'
  <2>1. kind \in CallKinds
    OBVIOUS
  <2>2. RunnerTypeOK'
    BY <1>0, <1>2, <2>1 DEF StartCallFails
  <2> QED  BY <1>2, <2>2 DEF StartCallFails
<1>3. CASE Forget
  BY <1>3, <1>0 DEF Forget, CallKinds
<1>4. ASSUME NEW p \in Pipes, Write(p) PROVE RunnerIInv'
  BY <1>4 DEF Write, HasMore, StuckOn
<1>5. ASSUME NEW p \in Pipes, Block(p) PROVE RunnerIInv'
  BY <1>5 DEF Block, HasMore, StuckOn
<1>6. ASSUME NEW c \in {0, 1}, Exit(c) PROVE RunnerIInv'
  BY <1>6 DEF Exit
<1>7. CASE CloseStdout
  BY <1>7 DEF CloseStdout
<1>8. CASE Hang
  BY <1>8 DEF Hang
<1>9. CASE CallbackRaises
  BY <1>9 DEF CallbackRaises
<1>10. CASE DrainBreaks
  BY <1>10 DEF DrainBreaks
<1>11. CASE ReadLine
  BY <1>11 DEF ReadLine
<1>12. CASE EndOfStdout
  BY <1>12 DEF EndOfStdout
<1>13. CASE WaitReturns
  BY <1>13 DEF WaitReturns
<1>14. CASE TimesOut
  BY <1>14 DEF TimesOut
<1>15. CASE Return
  BY <1>15 DEF Return
<1>16. CASE DrainLine
  BY <1>16 DEF DrainLine
<1>17. CASE EndOfStderr
  BY <1>17 DEF EndOfStderr
<1> QED
  BY <1>1, <1>2, <1>3, <1>4, <1>5, <1>6, <1>7, <1>8, <1>9, <1>10, <1>11, <1>12, <1>13,
     <1>14, <1>15, <1>16, <1>17
  DEF RunnerNext, Works, Trouble, WorkerStep, DrainStep

\* Every step of the pipeline is a step of the runner or leaves it alone.
LEMMA PipelineRunsRunner == [Next]_vars => [RunnerNext]_runnerVars
<1> SUFFICES ASSUME [Next]_vars PROVE RunnerNext \/ UNCHANGED runnerVars
  OBVIOUS
<1>1. ASSUME NEW kind, Begin(kind) PROVE RunnerNext
  BY <1>1 DEF Begin, StartCall, StartCallFails, RunnerNext
<1>2. CASE UploadStep
  BY <1>2, <1>1 DEF UploadStep, ProbeUpload, RefuseUpload, AcceptUpload, Normalized, RunnerNext
<1>3. CASE PatchStep \/ Post
  BY <1>3 DEF PatchStep, PatchRead, PatchCommit, Post
<1>4. CASE JobStep
  BY <1>4, <1>1 DEF JobStep, StartRender, Rendered, RenderFailed, Measured, RunnerNext
<1>5. CASE ProgramStep
  BY <1>5 DEF ProgramStep, RunnerNext
<1>6. CASE TroubleStep
  BY <1>6 DEF TroubleStep, RunnerNext
<1>7. CASE ThreadStep
  BY <1>7 DEF ThreadStep, RenderLine, RunnerNext, WorkerStep
<1>8. CASE DrainerStep
  BY <1>8 DEF DrainerStep, RunnerNext
<1>9. CASE UNCHANGED vars
  BY <1>9 DEF vars
<1> QED  BY <1>2, <1>3, <1>4, <1>5, <1>6, <1>7, <1>8, <1>9 DEF Next

LEMMA RunnerHolds == Spec => []RunnerIInv
<1>1. Init => RunnerIInv
  BY RunnerInitIInv DEF Init
<1>2. RunnerIInv /\ UNCHANGED runnerVars => RunnerIInv'
  BY DEF RunnerIInv, RunnerTypeOK, ReturnsFaithfully, OutDrained, Alive, InPipe,
     runnerVars, programVars, threadVars
<1>3. RunnerIInv /\ [Next]_vars => RunnerIInv'
  BY <1>2, RunnerStepIInv, PipelineRunsRunner
<1> QED  BY <1>1, <1>3, PTL DEF Spec

\* What the ffmpeg runner reports is what the program did, and it leaves no
\* program running, whatever the two threads and the two pipes do.
THEOREM CallsReportFaithfully == Spec => []ReturnsFaithfully
<1>1. RunnerIInv => ReturnsFaithfully
  BY DEF RunnerIInv
<1> QED  BY <1>1, RunnerHolds, PTL

-----------------------------------------------------------------------------
(* Why a call ends. *)

\* What is needed to see who can go on.
RunnerGoesOn ==
    /\ \A p \in Pipes : read[p] <= written[p]
    /\ ~Alive => ~outOpen
    /\ \A p \in Pipes : proc = StuckOn(p) => HasMore(p)
    /\ drainer = "broken" => call = "progress"
    /\ worker = "joining" /\ result = "raised" => call = "progress"

LEMMA RunnerGoes == Spec => []RunnerGoesOn
<1> USE DEF RunnerGoesOn, Alive, HasMore, InPipe, Pipes, StuckOn
<1>1. Init => RunnerGoesOn
  BY DEF Init, RunnerInit, NoLines
<1>2. ASSUME RunnerIInv, RunnerGoesOn, RunnerNext PROVE RunnerGoesOn'
  <2> USE <1>2, PipeAssumption DEF RunnerIInv, RunnerTypeOK, programVars, threadVars
  <2>1. ASSUME NEW kind, StartCall(kind) \/ StartCallFails(kind) PROVE RunnerGoesOn'
    BY <2>1 DEF StartCall, StartCallFails, NoLines
  <2>2. CASE Forget
    BY <2>2 DEF Forget, NoLines
  <2>3. ASSUME NEW p \in Pipes, Write(p) PROVE RunnerGoesOn'
    BY <2>3 DEF Write
  <2>4. ASSUME NEW p \in Pipes, Block(p) PROVE RunnerGoesOn'
    BY <2>4 DEF Block
  <2>5. CASE (\E c \in {0, 1} : Exit(c)) \/ CloseStdout \/ Hang
    BY <2>5 DEF Exit, CloseStdout, Hang
  <2>6. CASE CallbackRaises \/ ReadLine \/ DrainLine
    BY <2>6 DEF CallbackRaises, ReadLine, DrainLine
  <2>7. CASE DrainBreaks \/ EndOfStderr
    BY <2>7 DEF DrainBreaks, EndOfStderr
  <2>8. CASE EndOfStdout \/ WaitReturns \/ Return
    BY <2>8 DEF EndOfStdout, WaitReturns, Return
  <2>9. CASE TimesOut
    BY <2>9 DEF TimesOut
  <2> QED
    BY <2>1, <2>2, <2>3, <2>4, <2>5, <2>6, <2>7, <2>8, <2>9
    DEF RunnerNext, Works, Trouble, WorkerStep, DrainStep
<1>3. RunnerGoesOn /\ UNCHANGED runnerVars => RunnerGoesOn'
  BY DEF runnerVars, programVars, threadVars
<1>4. RunnerIInv /\ RunnerGoesOn /\ [Next]_vars => RunnerGoesOn'
  BY <1>2, <1>3, PipelineRunsRunner
<1> QED  BY <1>1, <1>4, RunnerHolds, PTL DEF Spec

Busy == worker \in {"reading", "waiting", "joining"}

\* The conditions under which the program, the worker and the drainer take a step
\* that FairSpec makes them take: a write that finds room or none, an exit; a line
\* or the end of stdout, a wait that is over or is ended, the join; a line or the
\* end of stderr.
ProgramCan == proc = "working" \/ \E p \in Pipes : proc = StuckOn(p) /\ HasMore(p) /\ InPipe(p) < PipeCap
WorkerCan ==
    \/ worker = "reading" /\ (InPipe("out") > 0 \/ ~outOpen)
    \/ worker = "waiting"
    \/ worker = "reading" /\ call # "progress" /\ Alive
    \/ worker = "joining" /\ drainer # "draining"
DrainerCan == drainer = "draining" /\ (InPipe("err") > 0 \/ ~Alive)

\* No call is stuck but for the causes of Stalled: whatever the capacity of the
\* pipes and however much the program writes to which of them, one of the three
\* can go on.
THEOREM CallsNeverStick ==
    Spec => [](Busy => Stalled \/ ProgramCan \/ WorkerCan \/ DrainerCan)
<1>1. ASSUME RunnerIInv, RunnerGoesOn, Busy, ~Stalled
      PROVE  ProgramCan \/ WorkerCan \/ DrainerCan
  <2> USE <1>1, PipeAssumption
      DEF RunnerIInv, RunnerTypeOK, RunnerGoesOn, Alive, InPipe, Pipes, StuckOn, HasMore,
          Stalled, OutDrained
  <2>1. CASE worker = "reading"
    BY <2>1 DEF ProgramCan, WorkerCan, DrainerCan
  <2>2. CASE worker = "waiting"
    BY <2>2 DEF WorkerCan
  <2>3. CASE worker = "joining"
    BY <2>3 DEF ProgramCan, WorkerCan, DrainerCan
  <2> QED  BY <2>1, <2>2, <2>3 DEF Busy
<1> QED  BY <1>1, RunnerHolds, RunnerGoes, PTL

\* What is left to do in a call.
ToWrite == (MaxLines - written["out"]) + (MaxLines - written["err"])
ToRead == InPipe("out") + InPipe("err")
ProgramLeft == (IF proc = "working" THEN 1 ELSE 0) + (IF outOpen THEN 1 ELSE 0)
ThreadsLeft ==
    (IF drainer = "draining" THEN 1 ELSE 0)
    + (CASE worker = "reading" -> 3 [] worker = "waiting" -> 2 [] worker = "joining" -> 1
         [] OTHER -> 0)
Left == 3 * ToWrite + ToRead + ProgramLeft + ThreadsLeft

LEMMA LeftBound ==
    ASSUME NEW wo \in 0..MaxLines, NEW we \in 0..MaxLines, NEW ro \in 0..wo, NEW re \in 0..we,
           NEW p \in 0..2, NEW t \in 0..4
    PROVE  3 * ((MaxLines - wo) + (MaxLines - we)) + ((wo - ro) + (we - re)) + p + t
              \in 0..(6 * MaxLines + 6)
BY PipeAssumption

\* A call takes a bounded number of steps, 6 * MaxLines + 6 at most: each one of the
\* program, of the worker, of the drainer and each trouble leaves less to do.  With
\* CallsNeverStick this is why calls end: what remains is that whoever can go on
\* does so, which FairSpec says.
THEOREM CallsGetShorter ==
    Spec => [][Busy /\ ~UNCHANGED runnerVars =>
                  Left \in 0..(6 * MaxLines + 6) /\ Left' \in 0..(6 * MaxLines + 6) /\ Left' < Left]_vars
<1> DEFINE Shorter == Left \in 0..(6 * MaxLines + 6) /\ Left' \in 0..(6 * MaxLines + 6) /\ Left' < Left
<1>1. ASSUME RunnerIInv, RunnerGoesOn
      PROVE  Left \in 0..(6 * MaxLines + 6)
  <2>1. /\ written["out"] \in 0..MaxLines /\ written["err"] \in 0..MaxLines
        /\ read["out"] \in 0..written["out"] /\ read["err"] \in 0..written["err"]
    BY <1>1, PipeAssumption DEF RunnerIInv, RunnerTypeOK, RunnerGoesOn, Pipes
  <2>2. ProgramLeft \in 0..2 /\ ThreadsLeft \in 0..4
    BY DEF ProgramLeft, ThreadsLeft
  <2> QED  BY <2>1, <2>2, LeftBound DEF Left, ToWrite, ToRead, InPipe
<1>2. ASSUME RunnerIInv, Busy, RunnerNext PROVE Left' < Left
  <2> USE <1>2, PipeAssumption
      DEF RunnerIInv, RunnerTypeOK, Pipes, InPipe, Left, ToWrite, ToRead, ProgramLeft,
          ThreadsLeft, programVars, threadVars, Busy
  <2>1. ASSUME NEW p \in Pipes, Write(p) PROVE Left' < Left
    <3>1. CASE p = "out"
      BY <2>1, <3>1 DEF Write
    <3>2. CASE p = "err"
      BY <2>1, <3>2 DEF Write
    <3> QED  BY <3>1, <3>2
  <2>2. ASSUME NEW p \in Pipes, Block(p) PROVE Left' < Left
    BY <2>2 DEF Block, StuckOn
  <2>3. CASE (\E c \in {0, 1} : Exit(c)) \/ CloseStdout \/ Hang
    BY <2>3 DEF Exit, CloseStdout, Hang
  <2>4. CASE ReadLine
    BY <2>4 DEF ReadLine
  <2>5. CASE CallbackRaises
    BY <2>5 DEF CallbackRaises
  <2>6. CASE DrainLine
    BY <2>6 DEF DrainLine
  <2>7. CASE DrainBreaks \/ EndOfStderr
    BY <2>7 DEF DrainBreaks, EndOfStderr
  <2>8. CASE EndOfStdout \/ WaitReturns \/ Return
    BY <2>8 DEF EndOfStdout, WaitReturns, Return
  <2>9. CASE TimesOut
    BY <2>9 DEF TimesOut, Alive
  <2>10. ~Forget /\ ~ \E kind \in Calls : StartCall(kind) \/ StartCallFails(kind)
    BY DEF Forget, StartCall, StartCallFails
  <2> QED
    BY <2>1, <2>2, <2>3, <2>4, <2>5, <2>6, <2>7, <2>8, <2>9, <2>10
    DEF RunnerNext, Works, Trouble, WorkerStep, DrainStep
<1>3. ASSUME RunnerIInv', RunnerGoesOn'
      PROVE  Left' \in 0..(6 * MaxLines + 6)
  <2>1. /\ written'["out"] \in 0..MaxLines /\ written'["err"] \in 0..MaxLines
        /\ read'["out"] \in 0..written'["out"] /\ read'["err"] \in 0..written'["err"]
    BY <1>3, PipeAssumption DEF RunnerIInv, RunnerTypeOK, RunnerGoesOn, Pipes
  <2>2. ProgramLeft' \in 0..2 /\ ThreadsLeft' \in 0..4
    BY DEF ProgramLeft, ThreadsLeft
  <2> QED  BY <2>1, <2>2, LeftBound DEF Left, ToWrite, ToRead, InPipe
<1>4. (RunnerIInv /\ RunnerGoesOn) /\ (RunnerIInv /\ RunnerGoesOn)' /\ [Next]_vars
         => [Busy /\ ~UNCHANGED runnerVars => Shorter]_vars
  BY <1>1, <1>2, <1>3, PipelineRunsRunner
<1> QED  BY <1>4, RunnerHolds, RunnerGoes, PTL DEF Spec

-----------------------------------------------------------------------------
(* What is rendered. *)

OneRowEach(library) ==
    /\ library \in [Clips -> SUBSET RowType]
    /\ \A c \in Clips : \A r, q \in library[c] : r = q

Order == [i \in DOMAIN snapshot |-> snapshot[i].clip]

\* Two rows of the same file.
SameFile(r, q) == q.duration = r.duration /\ q.silent = r.silent

\* What the snapshot keeps of the library it was taken from: order and windows;
\* and what the files are, the durations that a window of none falls back to and
\* whether they have sound, does not change.
Frozen ==
    /\ OneRowEach(posted)
    /\ Order \in Timelines(posted)
    /\ \A i \in DOMAIN snapshot :
          /\ snapshot[i].in = Row(posted, snapshot[i].clip).in
          /\ snapshot[i].out = Row(posted, snapshot[i].clip).out
    /\ \A c \in Clips :
          /\ posted[c] # {} => SameFile(Row(posted, c), Row(rows, c))
          /\ posted[c] = {} <=> rows[c] = {}

CommandOf(t) ==
    CompileCommand(PostedSpecs(t), Soundtrack, FadeStart(Total(PostedSpecs(t))), mix)

PipeIInv ==
    /\ stage \in Stages
    /\ OneRowEach(rows)
    /\ edits \subseteq EditType
    /\ mix \in BOOLEAN
    /\ stage \in {"probing", "normalizing", "library", "posted"} => command = {}
    /\ stage \in {"posted", "rendering", "measuring", "over"} => Frozen
    /\ command \subseteq {CommandOf(Order)}

LEMMA RowOfOne ==
    ASSUME NEW library, OneRowEach(library), NEW c \in Clips
    PROVE  /\ \A r \in library[c] : library[c] = {r} /\ Row(library, c) = r
           /\ library[c] # {} => Row(library, c) \in RowType
<1>1. ASSUME NEW r \in library[c] PROVE library[c] = {r} /\ Row(library, c) = r
  BY DEF OneRowEach, Row, The
<1>2. library[c] \subseteq RowType
  BY DEF OneRowEach
<1> QED  BY <1>1, <1>2

\* A row is replaced by one of the same file, as PATCH does.
LEMMA SameDuration ==
    ASSUME OneRowEach(rows), NEW c \in Clips, NEW r \in rows[c],
           NEW q \in RowType, SameFile(r, q)
    PROVE  LET new == [rows EXCEPT ![c] = {q}]
           IN  /\ OneRowEach(new)
               /\ \A d \in Clips :
                     /\ rows[d] # {} => SameFile(Row(rows, d), Row(new, d))
                     /\ rows[d] = {} <=> new[d] = {}
<1> DEFINE new == [rows EXCEPT ![c] = {q}]
<1>1. new[c] = {q} /\ \A d \in Clips : d # c => new[d] = rows[d]
  BY DEF OneRowEach
<1>2. new \in [Clips -> SUBSET RowType]
  BY DEF OneRowEach
<1>3. Row(new, c) = q
  BY <1>1 DEF Row, The
<1>4. Row(rows, c) = r
  BY RowOfOne
<1> HIDE DEF new
<1>5. OneRowEach(new)
  BY <1>1, <1>2 DEF OneRowEach
<1>6. ASSUME NEW d \in Clips
      PROVE  /\ rows[d] # {} => SameFile(Row(rows, d), Row(new, d))
             /\ rows[d] = {} <=> new[d] = {}
  <2>1. CASE d = c
    BY <2>1, <1>1, <1>3, <1>4
  <2>2. CASE d # c
    BY <2>2, <1>1 DEF Row, SameFile
  <2> QED  BY <2>1, <2>2
<1> QED  BY <1>5, <1>6 DEF new

LEMMA ReadyFinite ==
    ASSUME NEW library
    PROVE  IsFiniteSet(Ready(library)) /\ Cardinality(Ready(library)) \in Nat
<1>1. Ready(library) \subseteq Clips
  BY DEF Ready
<1> QED  BY <1>1, PipelineAssumption, FS_Subset, FS_CardinalityType

LEMMA TimelineClips ==
    ASSUME NEW library, NEW t \in Timelines(library)
    PROVE  \A i \in DOMAIN t : t[i] \in Clips /\ library[t[i]] # {}
<1>1. \A i \in DOMAIN t : t[i] \in Ready(library)
  BY DEF Timelines
<1> QED  BY <1>1 DEF Ready

LEMMA PipeInit == Init => PipeIInv
<1> SUFFICES ASSUME Init PROVE PipeIInv
  OBVIOUS
<1>1. OneRowEach(rows)
  BY LibrariesAssumption DEF Init, OneRowEach
<1> QED  BY <1>1 DEF Init, PipeIInv, Stages

\* The command of StartRender is the one for the timeline at the POST.
LEMMA SpecsFrozen ==
    ASSUME Frozen
    PROVE  Specs = PostedSpecs(Order)
<1>1. DOMAIN Order = DOMAIN snapshot /\ \A i \in DOMAIN snapshot : Order[i] = snapshot[i].clip
  BY DEF Order
<1>2. ASSUME NEW i \in DOMAIN snapshot
      PROVE  Specs[i] = PostedWindow(Order[i])
  <2>1. Order[i] \in Clips /\ posted[Order[i]] # {}
    BY <1>1, TimelineClips DEF Frozen
  <2>2. Row(rows, Order[i]).duration = Row(posted, Order[i]).duration
    BY <2>1 DEF Frozen, SameFile
  <2>3. /\ snapshot[i].in = Row(posted, Order[i]).in
        /\ snapshot[i].out = Row(posted, Order[i]).out
    BY <1>1 DEF Frozen
  <2>4. Specs[i] = [file |-> Order[i], from |-> OrElse(snapshot[i].in, 0),
                    to |-> OrElse(snapshot[i].out, OrElse(Row(rows, Order[i]).duration, 0))]
    BY <1>1 DEF Specs
  <2> QED  BY <2>2, <2>3, <2>4 DEF PostedWindow
<1>3. PostedSpecs(Order) = [i \in DOMAIN snapshot |-> PostedWindow(Order[i])]
  BY <1>1 DEF PostedSpecs
<1>4. Specs = [i \in DOMAIN snapshot |-> Specs[i]]
  BY DEF Specs
<1> QED  BY <1>2, <1>3, <1>4

\* The steps that change neither a row nor the job.
Between ==
    /\ rows' = rows /\ edits' \subseteq edits \cup EditType
    /\ posted' = posted /\ snapshot' = snapshot /\ mix' = mix
    /\ command' = command
    /\ \/ stage' = stage
       \/ stage = "probing" /\ stage' = "library"
       \/ stage \in {"rendering", "measuring"} /\ stage' \in {"measuring", "over"}

LEMMA BetweenSteps == ASSUME PipeIInv, Between PROVE PipeIInv'
<1> USE DEF Between
<1>1. Order' = Order
  BY DEF Order
<1>2. OneRowEach(rows)' = OneRowEach(rows)
  BY DEF OneRowEach
<1>3. Frozen' = Frozen
  BY <1>1 DEF Frozen, OneRowEach, Timelines, Ready, Row, SameFile
<1>4. CommandOf(Order)' = CommandOf(Order)
  BY <1>1 DEF CommandOf, PostedSpecs, PostedWindow, Row
<1> QED  BY <1>2, <1>3, <1>4 DEF PipeIInv, Stages

LEMMA AcceptStep == PipeIInv /\ AcceptUpload => PipeIInv'
<1> SUFFICES ASSUME PipeIInv, AcceptUpload PROVE PipeIInv'
  OBVIOUS
<1>1. PICK file \in Uploads, i \in Places : \E probed \in ParseVideo(file) :
         rows' = [rows EXCEPT ![New] =
                    {[status |-> "processing", index |-> i, in |-> {0},
                      out |-> {OrElse(probed.duration, 0)}, duration |-> probed.duration,
                      silent |-> First(file, "audio") = {}, crossed |-> FALSE]}]
  BY DEF AcceptUpload
<1>2. PICK probed \in ParseVideo(file) :
         rows' = [rows EXCEPT ![New] =
                    {[status |-> "processing", index |-> i, in |-> {0},
                      out |-> {OrElse(probed.duration, 0)}, duration |-> probed.duration,
                      silent |-> First(file, "audio") = {}, crossed |-> FALSE]}]
  BY <1>1
<1> DEFINE q == [status |-> "processing", index |-> i, in |-> {0},
                 out |-> {OrElse(probed.duration, 0)}, duration |-> probed.duration,
                 silent |-> First(file, "audio") = {}, crossed |-> FALSE]
<1>3. probed.duration = file.duration
  BY DEF ParseVideo
<1>4. probed.duration \in Optional(Nat) /\ probed.duration \subseteq Nat
  BY <1>3, UploadsAssumption DEF Optional
<1>5. OrElse(probed.duration, 0) \in Nat
  <2>1. 0 \in Nat
    OBVIOUS
  <2> QED  BY <1>4, <2>1, OrElseType
<1>6. q \in RowType
  <2>1. i \in Nat /\ (First(file, "audio") = {}) \in BOOLEAN
    BY PatchAssumption
  <2>2. {0} \in Optional(Nat) /\ {OrElse(probed.duration, 0)} \in Optional(Nat)
    BY <1>5 DEF Optional
  <2> HIDE DEF q
  <2>3. q = [status |-> "processing", index |-> i, in |-> {0},
             out |-> {OrElse(probed.duration, 0)}, duration |-> probed.duration,
             silent |-> First(file, "audio") = {}, crossed |-> FALSE]
    BY DEF q
  <2> QED  BY <1>4, <2>1, <2>2, <2>3 DEF RowType
<1>7. rows' = [rows EXCEPT ![New] = {q}]
  BY <1>2
<1> HIDE DEF q
<1>8. OneRowEach(rows)'
  BY <1>6, <1>7 DEF OneRowEach, PipeIInv
<1>9. stage' = "normalizing" /\ UNCHANGED <<edits, mix, command>> /\ command = {}
  BY DEF AcceptUpload, jobVars, PipeIInv
<1> QED  BY <1>8, <1>9 DEF PipeIInv, Stages

LEMMA NormalizedStep == PipeIInv /\ Normalized => PipeIInv'
<1> SUFFICES ASSUME PipeIInv, Normalized PROVE PipeIInv'
  OBVIOUS
<1> DEFINE new(r) == [r EXCEPT !.status = IF result = "ok" THEN "ready" ELSE "failed"]
<1>1. rows' = [rows EXCEPT ![New] = {new(r) : r \in rows[New]}]
  BY DEF Normalized, PipeIInv, OneRowEach
<1>2. \A r \in RowType : new(r) \in RowType
  BY DEF RowType
<1> HIDE DEF new
<1>3. \A c \in Clips : rows'[c] = IF c = New THEN {new(r) : r \in rows[New]} ELSE rows[c]
  BY <1>1 DEF PipeIInv, OneRowEach
<1>one. OneRowEach(rows)
  BY DEF PipeIInv
<1>old. rows[New] \subseteq RowType
  BY <1>one, PipelineAssumption DEF OneRowEach
<1>new. {new(r) : r \in rows[New]} \subseteq RowType
  BY <1>old, <1>2
<1>4. rows' \in [Clips -> SUBSET RowType]
  BY <1>1, <1>one, <1>new DEF OneRowEach
<1>5. \A c \in Clips : \A r, q \in rows'[c] : r = q
  <2> SUFFICES ASSUME NEW c \in Clips, NEW r \in rows'[c], NEW q \in rows'[c] PROVE r = q
    OBVIOUS
  <2>1. CASE c # New
    BY <2>1, <1>3, <1>one DEF OneRowEach
  <2>2. CASE c = New
    <3>1. PICK r1 \in rows[New], q1 \in rows[New] : r = new(r1) /\ q = new(q1)
      BY <2>2, <1>3
    <3>2. r1 = q1
      BY <1>one, PipelineAssumption DEF OneRowEach
    <3> QED  BY <3>1, <3>2
  <2> QED  BY <2>1, <2>2
<1>6. OneRowEach(rows)'
  BY <1>4, <1>5 DEF OneRowEach
<1>7. stage' = "library" /\ UNCHANGED <<edits, mix, command>> /\ command = {}
  BY DEF Normalized, jobVars, PipeIInv
<1> QED  BY <1>6, <1>7 DEF PipeIInv, Stages

\* What a PATCH writes: columns of their types, into a row of the same file.
LEMMA EditTyped ==
    ASSUME NEW c \in Clips, NEW r \in RowType, NEW body \in Bodies
    PROVE  Edit(c, r, body) \in EditType
<1>1. /\ body.in \in Optional(Nat) /\ body.out \in Optional(Nat)
      /\ body.index \in Optional(Nat)
      /\ r.in \in Optional(Nat) /\ r.out \in Optional(Nat)
  BY PatchAssumption DEF RowType
<1>2. \A S \in Optional(Nat) : \A T : S \ T \in Optional(Nat)
  BY DEF Optional
<1> QED  BY <1>1, <1>2 DEF Edit, EditType

LEMMA WrittenRow ==
    ASSUME NEW r \in RowType, NEW e \in EditType
    PROVE  Written(r, e) \in RowType /\ SameFile(r, Written(r, e))
<1>1. /\ e.in \in Optional(Nat) /\ e.out \in Optional(Nat)
      /\ e.index \in SUBSET Nat /\ r.index \in Nat
  BY DEF EditType, Optional, RowType
<1>2. OrElse(e.index, r.index) \in Nat
  BY <1>1, OrElseType
<1>3. /\ Given(e.in, r.in) \in Optional(Nat)
      /\ Given(e.out, r.out) \in Optional(Nat)
  BY <1>1 DEF Given, RowType
<1> QED  BY <1>2, <1>3 DEF Written, RowType, SameFile

\* Neither half of a PATCH changes what the files are, at whatever stage it comes.
LEMMA PatchKeeps ==
    ASSUME PipeIInv, PatchStep
    PROVE  /\ stage' = stage /\ UNCHANGED <<jobVars, barVars, runnerVars>>
           /\ OneRowEach(rows') /\ edits' \subseteq EditType
           /\ \A d \in Clips :
                 /\ rows[d] # {} => SameFile(Row(rows, d), Row(rows', d))
                 /\ rows[d] = {} <=> rows'[d] = {}
<1>one. OneRowEach(rows) /\ edits \subseteq EditType
  BY DEF PipeIInv
<1>1. ASSUME NEW c \in Clips, PatchRead(c)
      PROVE  rows' = rows /\ edits' \subseteq EditType
  <2>1. PICK r \in rows[c], body \in Bodies : edits' = edits \cup {Edit(c, r, body)}
    BY <1>1 DEF PatchRead
  <2>2. r \in RowType
    BY <1>one DEF OneRowEach
  <2>3. Edit(c, r, body) \in EditType
    BY <2>2, EditTyped
  <2> QED  BY <1>1, <1>one, <2>1, <2>3 DEF PatchRead
<1>2. CASE rows' = rows /\ edits' \subseteq EditType
  <2>1. stage' = stage /\ UNCHANGED <<jobVars, barVars, runnerVars>>
    BY DEF PatchStep, PatchRead, PatchCommit
  <2> QED  BY <1>one, <1>2, <2>1 DEF SameFile
<1>3. CASE PatchCommit
  <2>1. PICK e \in edits : \E r \in rows[e.clip] :
           /\ rows' = [rows EXCEPT ![e.clip] = {Written(r, e)}]
           /\ edits' = edits \ {e}
    BY <1>3 DEF PatchCommit
  <2>2. PICK r \in rows[e.clip] : rows' = [rows EXCEPT ![e.clip] = {Written(r, e)}]
    BY <2>1
  <2>3. e \in EditType /\ e.clip \in Clips
    BY <1>one DEF EditType
  <2>4. r \in RowType
    BY <1>one, <2>3 DEF OneRowEach
  <2>5. PICK c \in Clips : c = e.clip
    BY <2>3
  <2>6. PICK q \in RowType : q = Written(r, e) /\ SameFile(r, q)
    BY <2>3, <2>4, WrittenRow
  <2>new. rows' = [rows EXCEPT ![c] = {q}] /\ r \in rows[c]
    BY <2>2, <2>5, <2>6
  <2> DEFINE new == [rows EXCEPT ![c] = {q}]
  <2>file. /\ OneRowEach(new)
           /\ \A d \in Clips :
                 /\ rows[d] # {} => SameFile(Row(rows, d), Row(new, d))
                 /\ rows[d] = {} <=> new[d] = {}
    <3>1. SameFile(r, q) /\ r \in rows[c]
      BY <2>6, <2>new
    <3> QED  BY <1>one, <3>1, SameDuration
  <2> HIDE DEF new
  <2>7. /\ OneRowEach(rows')
        /\ \A d \in Clips :
              /\ rows[d] # {} => SameFile(Row(rows, d), Row(rows', d))
              /\ rows[d] = {} <=> rows'[d] = {}
    <3>1. rows' = new
      BY <2>new DEF new
    <3> QED  BY <3>1, <2>file
  <2>8. edits' \subseteq EditType
    BY <1>one, <2>1
  <2>9. stage' = stage /\ UNCHANGED <<jobVars, barVars, runnerVars>>
    BY <1>3 DEF PatchCommit
  <2> QED  BY <2>7, <2>8, <2>9
<1> QED  BY <1>1, <1>2, <1>3 DEF PatchStep

LEMMA PatchIInv == ASSUME PipeIInv, PatchStep PROVE PipeIInv'
<1>1. /\ OneRowEach(rows') /\ edits' \subseteq EditType
      /\ \A d \in Clips :
            /\ rows[d] # {} => SameFile(Row(rows, d), Row(rows', d))
            /\ rows[d] = {} <=> rows'[d] = {}
  BY PatchKeeps
<1>2. stage' = stage /\ UNCHANGED <<posted, snapshot, mix, command>>
  BY PatchKeeps DEF jobVars
<1>3. Order' = Order
  BY <1>2 DEF Order
<1>4. CommandOf(Order)' = CommandOf(Order)
  BY <1>2, <1>3 DEF CommandOf, PostedSpecs, PostedWindow, Row
<1>5. ASSUME Frozen PROVE Frozen'
  <2>1. \A d \in Clips :
          /\ posted[d] # {} => SameFile(Row(posted, d), Row(rows', d))
          /\ posted[d] = {} <=> rows'[d] = {}
    BY <1>5, <1>1 DEF Frozen, SameFile
  <2>2. Order' \in Timelines(posted) /\ OneRowEach(posted)
    BY <1>5, <1>3 DEF Frozen
  <2>3. posted' = posted /\ snapshot' = snapshot
    BY <1>2
  <2> QED  BY <1>5, <2>1, <2>2, <2>3 DEF Frozen, OneRowEach, Timelines, Ready, Row, SameFile
<1>6. OneRowEach(rows)'
  BY <1>1 DEF OneRowEach
<1> QED  BY <1>1, <1>2, <1>4, <1>5, <1>6 DEF PipeIInv, Stages

\* Nor which of them have sound.
LEMMA PatchSilent == ASSUME PipeIInv, PatchStep PROVE Silent(rows)' = Silent(rows)
<1>1. OneRowEach(rows) /\ OneRowEach(rows')
  BY PatchKeeps DEF PipeIInv
<1>2. ASSUME NEW c \in Clips
      PROVE  (\E r \in rows[c] : r.silent) <=> (\E r \in rows'[c] : r.silent)
  <2>1. CASE rows[c] = {}
    BY <2>1, PatchKeeps
  <2>2. CASE rows[c] # {}
    <3>1. rows'[c] # {} /\ SameFile(Row(rows, c), Row(rows', c))
      BY <2>2, PatchKeeps
    <3>2. rows[c] = {Row(rows, c)} /\ rows'[c] = {Row(rows', c)}
      BY <1>1, <2>2, <3>1, RowOfOne
    <3> QED  BY <3>1, <3>2 DEF SameFile
  <2> QED  BY <2>1, <2>2
<1> QED  BY <1>2 DEF Silent

\* Nor the windows of a snapshot, whatever the row of the clip says meanwhile.
LEMMA PatchSpecs == ASSUME PipeIInv, PatchStep, Frozen PROVE Specs' = Specs
<1>1. ASSUME NEW i \in DOMAIN snapshot
      PROVE  Row(rows', snapshot[i].clip).duration = Row(rows, snapshot[i].clip).duration
  <2> DEFINE c == snapshot[i].clip
  <2>1. c \in Clips /\ posted[c] # {}
    <3>1. DOMAIN Order = DOMAIN snapshot /\ Order[i] = c
      BY DEF Order
    <3> QED  BY <3>1, TimelineClips DEF Frozen
  <2>2. rows[c] # {}
    BY <2>1 DEF Frozen
  <2> QED  BY <2>1, <2>2, PatchKeeps DEF SameFile
<1>2. snapshot' = snapshot
  BY PatchKeeps DEF jobVars
<1> DEFINE spec(i, r) == [file |-> snapshot[i].clip, from |-> OrElse(snapshot[i].in, 0),
                          to |-> OrElse(snapshot[i].out, OrElse(r.duration, 0))]
<1>3. Specs = [i \in DOMAIN snapshot |-> spec(i, Row(rows, snapshot[i].clip))]
  BY DEF Specs
<1>4. Specs' = [i \in DOMAIN snapshot |-> spec(i, Row(rows', snapshot[i].clip))]
  BY <1>2 DEF Specs, Row
<1>5. \A i \in DOMAIN snapshot :
         spec(i, Row(rows', snapshot[i].clip)) = spec(i, Row(rows, snapshot[i].clip))
  BY <1>1
<1> HIDE DEF spec
<1> QED  BY <1>3, <1>4, <1>5

LEMMA PostStep == PipeIInv /\ Post => PipeIInv'
<1> SUFFICES ASSUME PipeIInv, Post PROVE PipeIInv'
  OBVIOUS
<1>1. PICK t \in Timelines(rows) :
        snapshot' = [i \in DOMAIN t |-> [clip |-> t[i], in |-> Row(rows, t[i]).in,
                                         out |-> Row(rows, t[i]).out]]
  BY DEF Post
<1>2. posted' = rows /\ rows' = rows /\ edits' = edits /\ command' = command /\ mix' \in BOOLEAN
      /\ stage' = "posted" /\ command = {}
  BY DEF Post, libraryVars, PipeIInv
<1>3. t = [i \in DOMAIN t |-> t[i]]
  BY DEF Timelines
<1>4. Order' = t
  BY <1>1, <1>3 DEF Order
<1>5. OneRowEach(rows)
  BY DEF PipeIInv
<1>6. Frozen'
  <2>1. OneRowEach(posted)'
    BY <1>2, <1>5 DEF OneRowEach
  <2>2. Order' \in Timelines(posted')
    BY <1>2, <1>4
  <2>3. Timelines(posted') = Timelines(posted)'
    BY DEF Timelines, Ready, Row
  <2>4. \A i \in DOMAIN snapshot' :
          /\ snapshot'[i].in = Row(posted', snapshot'[i].clip).in
          /\ snapshot'[i].out = Row(posted', snapshot'[i].clip).out
    BY <1>1, <1>2
  <2>5. \A c \in Clips :
          /\ posted'[c] # {} => SameFile(Row(posted', c), Row(rows', c))
          /\ posted'[c] = {} <=> rows'[c] = {}
    BY <1>2 DEF SameFile
  <2> QED  BY <2>1, <2>2, <2>3, <2>4, <2>5 DEF Frozen, Row, SameFile
<1>7. OneRowEach(rows)'
  BY <1>2, <1>5 DEF OneRowEach
<1> QED  BY <1>2, <1>6, <1>7 DEF PipeIInv, Stages

LEMMA StartStep == PipeIInv /\ StartRender => PipeIInv'
<1> SUFFICES ASSUME PipeIInv, StartRender PROVE PipeIInv'
  OBVIOUS
<1>1. UNCHANGED <<rows, edits, posted, snapshot, mix>> /\ stage' = "rendering" /\ stage = "posted"
  BY DEF StartRender, libraryVars
<1>2. Frozen /\ OneRowEach(rows)
  BY <1>1 DEF PipeIInv
<1>3. command' = {CommandOf(Order)}
  BY <1>2, SpecsFrozen DEF StartRender, CommandOf
<1>4. Order' = Order
  BY <1>1 DEF Order
<1>5. CommandOf(Order)' = CommandOf(Order)
  BY <1>1, <1>4 DEF CommandOf, PostedSpecs, PostedWindow, Row
<1>6. Frozen'
  BY <1>1, <1>2, <1>4 DEF Frozen, OneRowEach, Timelines, Ready, Row, SameFile
<1>7. OneRowEach(rows)'
  BY <1>1, <1>2 DEF OneRowEach
<1> QED  BY <1>1, <1>3, <1>5, <1>6, <1>7 DEF PipeIInv, Stages

LEMMA PipeStep == PipeIInv /\ [Next]_vars => PipeIInv'
<1> SUFFICES ASSUME PipeIInv, [Next]_vars PROVE PipeIInv'
  OBVIOUS
<1>1. CASE UploadStep
  <2>1. CASE ProbeUpload
    <3>1. Between
      BY <2>1 DEF ProbeUpload, Between, pipeVars, libraryVars, jobVars
    <3> QED  BY <3>1, BetweenSteps
  <2>2. CASE RefuseUpload
    <3>1. Between
      BY <2>2 DEF RefuseUpload, Between, libraryVars, jobVars
    <3> QED  BY <3>1, BetweenSteps
  <2> QED  BY <1>1, <2>1, <2>2, AcceptStep, NormalizedStep DEF UploadStep
<1>2. CASE PatchStep
  BY <1>2, PatchIInv
<1>3. CASE Post
  BY <1>3, PostStep
<1>4. CASE JobStep
  <2>1. CASE Rendered
    <3>1. Between
      BY <2>1 DEF Rendered, Between, libraryVars, jobVars
    <3> QED  BY <3>1, BetweenSteps
  <2>2. CASE RenderFailed
    <3>1. Between
      BY <2>2 DEF RenderFailed, Between, libraryVars
    <3> QED  BY <3>1, BetweenSteps
  <2>3. CASE Measured
    <3>1. Between
      BY <2>3 DEF Measured, Between, libraryVars
    <3> QED  BY <3>1, BetweenSteps
  <2> QED  BY <1>4, <2>1, <2>2, <2>3, StartStep DEF JobStep
<1>5. CASE ProgramStep \/ TroubleStep \/ ThreadStep \/ DrainerStep
  <2>1. Between
    BY <1>5 DEF ProgramStep, TroubleStep, ThreadStep, DrainerStep, RenderLine, Between,
       pipeVars, libraryVars, jobVars
  <2> QED  BY <2>1, BetweenSteps
<1>6. CASE UNCHANGED vars
  <2>1. Between
    BY <1>6 DEF vars, Between, pipeVars, libraryVars, jobVars
  <2> QED  BY <2>1, BetweenSteps
<1> QED  BY <1>1, <1>2, <1>3, <1>4, <1>5, <1>6 DEF Next

\* A command that was built while the snapshot held renders the timeline.
LEMMA CommandRenders == PipeIInv => CommandMatchesTimeline
<1> SUFFICES ASSUME PipeIInv, NEW cmd \in command PROVE
      \E t \in Timelines(posted) :
        /\ VideoOf(cmd) = PostedSpecs(t)
        /\ SoundOf(cmd) =
              {[does |-> "fade", of |-> <<Soundtrack>>, at |-> FadeStart(Total(PostedSpecs(t)))]}
              \cup IF mix THEN {[does |-> "concat", of |-> PostedSpecs(t), at |-> 0]} ELSE {}
        /\ OutputLength(cmd) = ShorterOf(Total(PostedSpecs(t)), MusicLength)
  BY DEF CommandMatchesTimeline
<1>1. cmd = CommandOf(Order) /\ mix \in BOOLEAN
  BY DEF PipeIInv
<1>2. Frozen
  BY DEF PipeIInv, Stages
<1>3. Order \in Timelines(posted)
  BY <1>2 DEF Frozen
<1>4. DOMAIN Order = 1..Cardinality(Ready(posted)) /\ Cardinality(Ready(posted)) \in Nat
  BY <1>3, ReadyFinite DEF Timelines
<1> DEFINE S == {PostedWindow(Order[i]) : i \in DOMAIN Order}
<1>5. PostedSpecs(Order) \in Seq(S)
  <2> DEFINE n == Cardinality(Ready(posted))
  <2>1. PostedSpecs(Order) \in [1..n -> S]
    BY <1>4 DEF PostedSpecs
  <2> HIDE DEF S, n
  <2>2. n \in Nat
    BY <1>4 DEF n
  <2> QED  BY <2>1, <2>2
<1> HIDE DEF S
<1>6. VideoOf(cmd) = PostedSpecs(Order)
  BY <1>1, <1>5, VideoOfCommand DEF CommandOf
<1>7. SoundOf(cmd) =
         {[does |-> "fade", of |-> <<Soundtrack>>, at |-> FadeStart(Total(PostedSpecs(Order)))]}
         \cup IF mix THEN {[does |-> "concat", of |-> PostedSpecs(Order), at |-> 0]} ELSE {}
  BY <1>1, <1>5, SoundOfCommand DEF CommandOf
<1>8. Soundtrack.to - Soundtrack.from = MusicLength /\ MusicLength \in Int
  BY PipelineAssumption DEF Soundtrack, Whole
<1>9. OutputLength(cmd) = ShorterOf(Total(PostedSpecs(Order)), MusicLength)
  BY <1>1, <1>5, <1>8, LengthOfCommand DEF CommandOf
<1> QED  BY <1>3, <1>6, <1>7, <1>9

\* Whatever is trimmed or moved after the POST, at whatever moment, the command that
\* is run renders the timeline as it was then, up to the end of the soundtrack, for
\* any library, any soundtrack and any number of edits.
THEOREM TimelineIsRendered == Spec => []CommandMatchesTimeline
<1>1. Spec => []PipeIInv
  BY PipeInit, PipeStep, PTL DEF Spec
<1> QED  BY <1>1, CommandRenders, PTL

-----------------------------------------------------------------------------
(* The windows, and what each stage knows of the render. *)

Working == {"posted", "rendering", "measuring", "over"}

LEMMA TimelineFinite ==
    ASSUME PipeIInv, stage \in Working
    PROVE  /\ Frozen /\ Specs = PostedSpecs(Order)
           /\ Len(Specs) = Cardinality(Ready(posted)) /\ Len(Specs) \in Nat
           /\ DOMAIN Order = 1..Len(Specs) /\ DOMAIN Specs = 1..Len(Specs)
           /\ Specs \in Seq({Specs[i] : i \in DOMAIN Specs})
<1>1. Frozen
  BY DEF PipeIInv, Working
<1>2. Specs = PostedSpecs(Order)
  BY <1>1, SpecsFrozen
<1> DEFINE n == Cardinality(Ready(posted))
<1>3. n \in Nat /\ DOMAIN Order = 1..n
  BY <1>1, ReadyFinite DEF Frozen, Timelines
<1>4. DOMAIN Specs = 1..n /\ Specs = [i \in 1..n |-> Specs[i]]
  BY <1>2, <1>3 DEF PostedSpecs
<1> HIDE DEF n
<1>5. Specs \in Seq({Specs[i] : i \in DOMAIN Specs})
  <2> DEFINE S == {Specs[i] : i \in DOMAIN Specs}
  <2>1. Specs \in [1..n -> S]
    BY <1>4
  <2> HIDE DEF S
  <2>2. Specs \in Seq(S)
    BY <2>1, <1>3
  <2> QED  BY <2>2 DEF S
<1>6. Len(Specs) = n
  <2> DEFINE S == {Specs[i] : i \in DOMAIN Specs}
  <2>1. Specs \in Seq(S)
    BY <1>5
  <2> HIDE DEF S
  <2>2. DOMAIN Specs = 1..Len(Specs) /\ Len(Specs) \in Nat
    BY <2>1
  <2> QED  BY <2>2, <1>3, <1>4
<1> QED  BY <1>1, <1>2, <1>3, <1>4, <1>5, <1>6 DEF n

\* A window of the timeline is that of a row of the library of the POST.
LEMMA WindowOfRow ==
    ASSUME PipeIInv, stage \in Working, NEW i \in DOMAIN Specs
    PROVE  /\ Order[i] \in Ready(posted) /\ Order[i] \in Clips
           /\ Row(posted, Order[i]) \in posted[Order[i]]
           /\ Row(posted, Order[i]) \in RowType
           /\ Specs[i] = PostedWindow(Order[i])
           /\ Specs[i].file = Order[i]
           /\ Specs[i].from = OrElse(Row(posted, Order[i]).in, 0) /\ Specs[i].from \in Nat
           /\ Specs[i].to = OrElse(Row(posted, Order[i]).out,
                                   OrElse(Row(posted, Order[i]).duration, 0))
           /\ Specs[i].to \in Nat
<1>1. Frozen /\ i \in DOMAIN Order /\ Specs = PostedSpecs(Order)
  BY TimelineFinite
<1>2. Order[i] \in Ready(posted) /\ Order[i] \in Clips /\ posted[Order[i]] # {}
  <2>1. Order \in Timelines(posted)
    BY <1>1 DEF Frozen
  <2> QED  BY <1>1, <2>1 DEF Timelines, Ready
<1> DEFINE r == Row(posted, Order[i])
<1>3. r \in posted[Order[i]] /\ r \in RowType
  BY <1>1, <1>2, RowOfOne DEF Frozen
<1>4. Specs[i] = PostedWindow(Order[i])
  BY <1>1 DEF PostedSpecs
<1>5. Specs[i] = [file |-> Order[i], from |-> OrElse(r.in, 0),
                  to |-> OrElse(r.out, OrElse(r.duration, 0))]
  BY <1>4 DEF PostedWindow
<1>6. r.in \subseteq Nat /\ r.out \subseteq Nat /\ r.duration \subseteq Nat
  BY <1>3 DEF RowType, Optional
<1> HIDE DEF r
<1>7. OrElse(r.in, 0) \in Nat /\ OrElse(r.out, OrElse(r.duration, 0)) \in Nat
  <2>1. 0 \in Nat
    OBVIOUS
  <2>2. OrElse(r.in, 0) \in Nat /\ OrElse(r.duration, 0) \in Nat
    BY <1>6, <2>1, OrElseType
  <2> QED  BY <1>6, <2>2, OrElseType
<1> QED  BY <1>2, <1>3, <1>4, <1>5, <1>7 DEF r

\* The length of a timeline is a whole number, and none below zero when every
\* window ends behind its beginning.
LEMMA LengthOfTimeline ==
    ASSUME PipeIInv, stage \in Working
    PROVE  /\ Total(Specs) \in Int
           /\ (\A i \in DOMAIN Specs : Specs[i].from < Specs[i].to) => Total(Specs) \in Nat
<1>1. IsFiniteSet(DOMAIN Specs)
  <2>1. DOMAIN Specs = 1..Len(Specs) /\ 1 \in Int /\ Len(Specs) \in Int
    BY TimelineFinite
  <2> QED  BY <2>1, FS_Interval
<1>2. \A i \in DOMAIN Specs : Specs[i].from \in Nat /\ Specs[i].to \in Nat
  BY WindowOfRow
<1>3. \A i \in DOMAIN Specs : Specs[i].to - Specs[i].from \in Int
  BY <1>2
<1>4. Total(Specs) \in Int
  <2>1. \A a, b \in Int : a + b \in Int
    OBVIOUS
  <2> QED  BY <1>1, <1>3, <2>1, TotalType
<1>5. ASSUME \A i \in DOMAIN Specs : Specs[i].from < Specs[i].to PROVE Total(Specs) \in Nat
  <2>1. \A i \in DOMAIN Specs : Specs[i].to - Specs[i].from \in Nat
    BY <1>2, <1>5
  <2>2. Nat \subseteq Int /\ 0 \in Nat /\ \A a, b \in Nat : a + b \in Nat
    OBVIOUS
  <2> QED  BY <1>1, <2>1, <2>2, TotalType
<1> QED  BY <1>4, <1>5

\* When ffmpeg refuses the command of the timeline.
LEMMA RefusedTimeline ==
    ASSUME PipeIInv, stage \in Working
    PROVE  Refused(CommandOf(Order), Silent(rows)) <=>
              \E i \in DOMAIN Specs :
                  Specs[i].to <= Specs[i].from \/ (mix /\ Specs[i].file \in Silent(rows))
<1>1. CommandOf(Order) = CompileCommand(Specs, Soundtrack, FadeStart(Total(Specs)), mix)
  BY TimelineFinite DEF CommandOf
<1>2. Soundtrack.file \notin Silent(rows)
  BY PipelineAssumption DEF Silent, Soundtrack, Whole
<1>3. mix \in BOOLEAN /\ DOMAIN Specs = 1..Len(Specs)
  BY TimelineFinite DEF PipeIInv
<1> DEFINE S == {Specs[i] : i \in DOMAIN Specs}
<1>4. Specs \in Seq(S)
  BY TimelineFinite
<1> HIDE DEF S
<1>5. Refused(CompileCommand(Specs, Soundtrack, FadeStart(Total(Specs)), mix), Silent(rows)) <=>
         \E i \in 1..Len(Specs) :
             Specs[i].to <= Specs[i].from \/ (mix /\ Specs[i].file \in Silent(rows))
  BY <1>2, <1>3, <1>4, RefusedCommand
<1> QED  BY <1>1, <1>3, <1>5

\* How long its output is.
LEMMA LengthOfOutput ==
    ASSUME PipeIInv, stage \in Working, NEW cmd \in command
    PROVE  /\ OutputLength(cmd) = ShorterOf(Total(Specs), MusicLength)
           /\ OutputLength(cmd) \in Int
           /\ Total(Specs) \in Nat => OutputLength(cmd) \in Nat
<1>1. cmd = CommandOf(Order) /\ mix \in BOOLEAN
  BY DEF PipeIInv
<1>2. cmd = CompileCommand(Specs, Soundtrack, FadeStart(Total(Specs)), mix)
  BY <1>1, TimelineFinite DEF CommandOf
<1>3. Soundtrack.to - Soundtrack.from = MusicLength /\ MusicLength \in Nat
  BY PipelineAssumption DEF Soundtrack, Whole
<1> DEFINE S == {Specs[i] : i \in DOMAIN Specs}
<1>4. Specs \in Seq(S)
  BY TimelineFinite
<1> HIDE DEF S
<1>5. OutputLength(cmd) = ShorterOf(Total(Specs), MusicLength)
  BY <1>1, <1>2, <1>3, <1>4, LengthOfCommand
<1>6. Total(Specs) \in Int
  BY LengthOfTimeline
<1> QED  BY <1>3, <1>5, <1>6 DEF ShorterOf

Plays == \A cmd \in command : ~Refused(cmd, Silent(rows))

\* The bar is that of the last line of the timeline's render, and there is none
\* but while ffmpeg renders; and ffmpeg ends well only with a command it does not
\* refuse, so that the video that is measured is one of windows with a length.
StageIInv ==
    /\ patches \in 0..MaxPatches
    /\ job \in {"none", "pending", "running", "failed", "complete"}
    /\ stage \notin Working => posted = [c \in Clips |-> {}] /\ snapshot = <<>>
    /\ stage # "rendering" => time = -1 /\ shown = {}
    /\ time \in Int /\ shown \subseteq {Percent(time, Total(Specs))}
    /\ length \subseteq Nat
    /\ stage \in {"rendering", "measuring"} => command # {}
    /\ stage = "rendering" /\ proc = "exited" /\ code = 0 => Plays
    /\ stage = "measuring" => Plays

\* A video that could be made has a length.
LEMMA PlayedLength ==
    ASSUME PipeIInv, stage \in Working, command # {}, Plays
    PROVE  Total(Specs) \in Nat
<1>1. command = {CommandOf(Order)}
  BY DEF PipeIInv
<1>2. ~Refused(CommandOf(Order), Silent(rows))
  BY <1>1 DEF Plays
<1>3. \A i \in DOMAIN Specs : ~(Specs[i].to <= Specs[i].from)
  BY <1>2, RefusedTimeline
<1>4. \A i \in DOMAIN Specs : Specs[i].from < Specs[i].to
  BY <1>3, WindowOfRow
<1> QED  BY <1>4, LengthOfTimeline

LEMMA StageInit == Init => StageIInv
BY PipelineAssumption DEF Init, StageIInv, Working

\* The steps of a call under way that has not ended well yet.
LEMMA StageQuiet ==
    ASSUME StageIInv, UNCHANGED pipeVars,
           stage = "rendering" /\ proc' = "exited" /\ code' = 0 =>
              (proc = "exited" /\ code = 0) \/ Plays
    PROVE  StageIInv'
<1>1. UNCHANGED <<stage, rows, patches, edits, posted, snapshot, mix, job, command, time, shown, length>>
  BY DEF pipeVars, libraryVars, jobVars, barVars
<1>2. Specs' = Specs /\ Plays' = Plays /\ Working' = Working
  BY <1>1 DEF Specs, Row, Plays, Silent, Working
<1>3. Total(Specs)' = Total(Specs)
  BY <1>2
<1> QED  BY <1>1, <1>2, <1>3 DEF StageIInv

LEMMA StageStep == RunnerIInv /\ PipeIInv /\ StageIInv /\ [Next]_vars => StageIInv'
<1> SUFFICES ASSUME RunnerIInv, PipeIInv, StageIInv, [Next]_vars PROVE StageIInv'
  OBVIOUS
<1> USE DEF Working
<1>1. CASE UploadStep
  <2>1. CASE ProbeUpload
    BY <2>1, StageQuiet DEF ProbeUpload
  <2>2. CASE RefuseUpload
    BY <2>2 DEF RefuseUpload, StageIInv, libraryVars, jobVars, barVars
  <2>3. CASE AcceptUpload
    BY <2>3 DEF AcceptUpload, StageIInv, jobVars, barVars
  <2>4. CASE Normalized
    BY <2>4 DEF Normalized, StageIInv, jobVars, barVars
  <2> QED  BY <1>1, <2>1, <2>2, <2>3, <2>4 DEF UploadStep
<1>2. CASE PatchStep
  <2>1. patches' \in 0..MaxPatches
    <3>1. ASSUME NEW c \in Clips, PatchRead(c) PROVE patches' \in 0..MaxPatches
      BY <3>1, PipelineAssumption DEF PatchRead, StageIInv
    <3>2. CASE PatchCommit
      BY <3>2 DEF PatchCommit, StageIInv
    <3> QED  BY <1>2, <3>1, <3>2 DEF PatchStep
  <2>2. /\ UNCHANGED <<stage, posted, snapshot, job, command, time, shown, length>>
        /\ UNCHANGED <<proc, code>>
    BY <1>2, PatchKeeps DEF jobVars, barVars, runnerVars, programVars
  <2>3. Plays' = Plays
    <3>1. Silent(rows)' = Silent(rows)
      BY <1>2, PatchSilent
    <3> QED  BY <2>2, <3>1 DEF Plays
  <2>4. shown' \subseteq {Percent(time', Total(Specs)')}
    <3>1. CASE stage # "rendering"
      BY <2>2, <3>1 DEF StageIInv
    <3>2. CASE stage = "rendering"
      <4>1. Frozen
        BY <3>2 DEF PipeIInv
      <4>2. Specs' = Specs
        BY <1>2, <4>1, PatchSpecs
      <4>3. Total(Specs)' = Total(Specs)
        BY <4>2
      <4> QED  BY <2>2, <4>3 DEF StageIInv
    <3> QED  BY <3>1, <3>2
  <2> QED  BY <2>1, <2>2, <2>3, <2>4 DEF StageIInv
<1>3. CASE Post
  BY <1>3 DEF Post, StageIInv, libraryVars, barVars
<1>4. CASE StartRender
  <2>1. proc' # "exited"
    BY <1>4 DEF StartRender, Begin, StartCall, StartCallFails
  <2> QED  BY <1>4, <2>1 DEF StartRender, StageIInv, libraryVars, barVars
<1>5. CASE Rendered
  <2>1. Plays
    BY <1>5 DEF Rendered, RunnerIInv, ReturnsFaithfully, StageIInv
  <2>2. Plays'
    BY <1>5, <2>1 DEF Rendered, Plays, Silent, libraryVars, jobVars
  <2> QED  BY <1>5, <2>2 DEF Rendered, StageIInv, libraryVars, jobVars
<1>6. CASE RenderFailed
  BY <1>6 DEF RenderFailed, StageIInv, libraryVars
<1>7. CASE Measured
  <2>1. Total(Specs) \in Nat
    BY <1>7, PlayedLength DEF Measured, StageIInv
  <2>2. length' \subseteq Nat
    <3>1. \A cmd \in command : OutputLength(cmd) \in Nat
      BY <1>7, <2>1, LengthOfOutput DEF Measured
    <3> QED  BY <1>7, <3>1 DEF Measured
  <2> QED  BY <1>7, <2>2 DEF Measured, StageIInv, libraryVars, barVars
<1>8. CASE ProgramStep
  <2>1. CASE Works
    BY <1>8, <2>1, StageQuiet DEF ProgramStep, Works, Write, Block, StuckOn
  <2>2. ASSUME NEW c \in {0, 1}, MayExit(c), Exit(c), UNCHANGED pipeVars PROVE StageIInv'
    BY <2>2, StageQuiet DEF MayExit, Exit, Plays
  <2> QED  BY <1>8, <2>1, <2>2 DEF ProgramStep
<1>9. CASE TroubleStep
  BY <1>9, StageQuiet DEF TroubleStep, Trouble, CloseStdout, Hang, CallbackRaises, DrainBreaks,
     programVars
<1>10. CASE RenderLine
  <2>1. Specs' = Specs /\ Plays' = Plays /\ UNCHANGED <<proc, code, stage>>
        /\ UNCHANGED <<patches, posted, snapshot, job, command, length>> /\ stage = "rendering"
    BY <1>10 DEF RenderLine, ReadLine, programVars, Specs, Row, Plays, Silent, libraryVars, jobVars
  <2>2. Total(Specs)' = Total(Specs)
    BY <2>1
  <2>3. time' \in Int /\ shown' \subseteq {Percent(time', Total(Specs))}
    <3>1. \A cmd \in command : OutputLength(cmd) \in Int
      BY <2>1, LengthOfOutput
    <3> QED  BY <1>10, <3>1 DEF RenderLine, StageIInv, barVars
  <2> QED  BY <2>1, <2>2, <2>3 DEF StageIInv
<1>11. CASE ThreadStep /\ ~RenderLine
  <2>1. UNCHANGED pipeVars /\ (ReadLine \/ EndOfStdout \/ WaitReturns \/ TimesOut \/ Return)
    BY <1>11 DEF ThreadStep
  <2>2. proc' = "exited" /\ code' = 0 => proc = "exited" /\ code = 0
    BY <2>1 DEF ReadLine, EndOfStdout, WaitReturns, TimesOut, Return, programVars
  <2> QED  BY <2>1, <2>2, StageQuiet
<1>12. CASE DrainerStep
  BY <1>12, StageQuiet DEF DrainerStep, DrainStep, DrainLine, EndOfStderr, programVars
<1>13. CASE UNCHANGED vars
  BY <1>13, StageQuiet DEF vars, runnerVars, programVars
<1> QED
  BY <1>1, <1>2, <1>3, <1>4, <1>5, <1>6, <1>7, <1>8, <1>9, <1>10, <1>11, <1>12, <1>13
  DEF Next, JobStep

LEMMA StageHolds == Spec => [](RunnerIInv /\ PipeIInv /\ StageIInv)
<1>1. Init => PipeIInv /\ StageIInv
  BY PipeInit, StageInit
<1>2. RunnerIInv /\ PipeIInv /\ StageIInv /\ [Next]_vars => PipeIInv' /\ StageIInv'
  BY PipeStep, StageStep
<1> QED  BY <1>1, <1>2, RunnerHolds, PTL DEF Spec

\* Every variable has its type; what has to be shown is that the length of a
\* compilation is never below zero: only a video that ffmpeg has made is measured,
\* and it makes none of a timeline with an empty window.
THEOREM TypeCorrect == Spec => []TypeOK
<1>1. ASSUME RunnerIInv, PipeIInv, StageIInv PROVE TypeOK
  <2>1. \A c \in Clips : rows[c] \subseteq RowType /\ posted[c] \subseteq RowType
    BY <1>1 DEF PipeIInv, StageIInv, Frozen, OneRowEach, Working, Stages
  <2>2. \A i \in DOMAIN snapshot : snapshot[i].clip \in Clips
    <3>1. CASE stage \notin Working
      BY <1>1, <3>1 DEF StageIInv
    <3>2. CASE stage \in Working
      <4>1. DOMAIN Order = DOMAIN snapshot /\ \A i \in DOMAIN Order : Order[i] = snapshot[i].clip
        BY DEF Order
      <4>2. Order \in Timelines(posted)
        BY <1>1, <3>2 DEF PipeIInv, Frozen, Working
      <4>3. \A i \in DOMAIN Order : Order[i] \in Clips
        BY <4>2, TimelineClips
      <4> QED  BY <4>1, <4>3
    <3> QED  BY <3>1, <3>2
  <2>3. shown \subseteq Int
    <3>1. CASE stage = "rendering"
      <4>1. Total(Specs) \in Int
        BY <1>1, <3>1, LengthOfTimeline DEF Working
      <4>2. Percent(time, Total(Specs)) \in Int
        BY <1>1, <4>1, PercentFull DEF StageIInv
      <4> QED  BY <1>1, <4>2 DEF StageIInv
    <3>2. CASE stage # "rendering"
      BY <1>1, <3>2 DEF StageIInv
    <3> QED  BY <3>1, <3>2
  <2> QED  BY <1>1, <2>1, <2>2, <2>3 DEF RunnerIInv, PipeIInv, StageIInv, TypeOK
<1> QED  BY <1>1, StageHolds, PTL

\* The bar never runs backwards nor beyond 100, and shows 100 only when the end
\* of the timeline has been reached, whatever lines ffmpeg writes and whatever is
\* edited between them, for any timeline: one of no length shows 0 throughout.
THEOREM ProgressIsFaithful == Spec => ProgressFaithful
<1> DEFINE Faithful == \A p \in shown' :
                          /\ p <= 100
                          /\ \A q \in shown : q <= p
                          /\ p = 100 => time' >= Total(Specs)
<1>1. ASSUME RunnerIInv, PipeIInv, StageIInv, StageIInv', [Next]_vars PROVE Faithful
  <2>1. SUFFICES ASSUME shown' # {} PROVE Faithful
    OBVIOUS
  <2>2. CASE RenderLine /\ ~UNCHANGED barVars
    <3>1. stage = "rendering"
      BY <2>2 DEF RenderLine
    <3>2. Total(Specs) \in Int
      BY <1>1, <3>1, LengthOfTimeline DEF Working
    <3>3. PICK t \in Int : t >= time /\ time' = t /\ shown' = {Percent(t, Total(Specs))}
      <4>1. \A cmd \in command : OutputLength(cmd) \in Int
        BY <1>1, <3>1, LengthOfOutput DEF Working
      <4> QED  BY <2>2, <4>1 DEF RenderLine
    <3>4. time \in Int /\ shown \subseteq {Percent(time, Total(Specs))}
      BY <1>1 DEF StageIInv
    <3>5. Percent(time, Total(Specs)) <= Percent(t, Total(Specs))
      BY <3>2, <3>3, <3>4, PercentMonotone
    <3>6. /\ Percent(t, Total(Specs)) <= 100
          /\ Percent(t, Total(Specs)) = 100 => t >= Total(Specs)
      BY <3>2, PercentFull
    <3> QED  BY <3>3, <3>4, <3>5, <3>6
  <2>3. CASE UNCHANGED <<stage, barVars>>
    <3>1. stage = "rendering" /\ time' = time /\ shown' = shown
      BY <1>1, <2>1, <2>3 DEF StageIInv, barVars
    <3>2. Total(Specs) \in Int
      BY <1>1, <3>1, LengthOfTimeline DEF Working
    <3>3. time \in Int /\ shown \subseteq {Percent(time, Total(Specs))}
      BY <1>1 DEF StageIInv
    <3>4. /\ Percent(time, Total(Specs)) \in Int /\ Percent(time, Total(Specs)) <= 100
          /\ Percent(time, Total(Specs)) = 100 => time >= Total(Specs)
      BY <3>2, <3>3, PercentFull
    <3>5. \A p \in shown : p = Percent(time, Total(Specs))
      BY <3>3
    <3> HIDE DEF Faithful
    <3>6. \A p \in shown : /\ p <= 100
                           /\ \A q \in shown : q <= p
                           /\ p = 100 => time >= Total(Specs)
      BY <3>4, <3>5
    <3> QED  BY <3>1, <3>6 DEF Faithful
  <2>4. stage' = "rendering"
    BY <1>1, <2>1 DEF StageIInv
  <2>5. CASE StartRender
    <3>1. shown' = {}
      BY <1>1, <2>5 DEF StartRender, StageIInv, barVars
    <3> QED  BY <2>1, <3>1
  <2>6. (RenderLine /\ ~UNCHANGED barVars) \/ UNCHANGED <<stage, barVars>> \/ StartRender
    <3>1. ~UploadStep /\ ~Post /\ ~Rendered /\ ~RenderFailed /\ ~Measured
      BY <2>4 DEF UploadStep, ProbeUpload, RefuseUpload, AcceptUpload, Normalized, Post,
         Rendered, RenderFailed, Measured, pipeVars
    <3>2. CASE PatchStep
      BY <3>2 DEF PatchStep, PatchRead, PatchCommit
    <3>3. CASE RenderLine
      BY <3>3 DEF RenderLine, libraryVars, jobVars
    <3>4. CASE UNCHANGED pipeVars
      BY <3>4 DEF pipeVars, libraryVars, jobVars
    <3>5. CASE UNCHANGED vars
      BY <3>4, <3>5 DEF vars
    <3>6. CASE ThreadStep
      BY <3>3, <3>4, <3>6 DEF ThreadStep
    <3> QED
      BY <1>1, <3>1, <3>2, <3>4, <3>5, <3>6
      DEF Next, JobStep, ProgramStep, TroubleStep, DrainerStep
  <2> HIDE DEF Faithful
  <2> QED  BY <2>2, <2>3, <2>5, <2>6
<1>2. (RunnerIInv /\ PipeIInv /\ StageIInv) /\ (RunnerIInv /\ PipeIInv /\ StageIInv)' /\ [Next]_vars
         => [Faithful]_vars
  BY <1>1
<1> QED  BY <1>2, StageHolds, PTL DEF Spec, ProgressFaithful

-----------------------------------------------------------------------------
(* What ffmpeg refuses. *)

\* A row with both ends of its window set was checked when the last of them was
\* set, or is that of an upload of no length, or is one that two PATCHes which
\* crossed have written.
ValidRow(r) ==
    \/ r.crossed
    \/ \A a \in r.in, b \in r.out : a < b \/ (r.duration \subseteq {0} /\ b = 0)
Checked(library) == \A c \in Clips : \A r \in library[c] : ValidRow(r)

\* The library that is found has such rows only, as PATCH itself leaves them.
LibrariesChecked == \A library \in Libraries : Checked(library)

\* A PATCH that is not committed was checked against the window it has read.
EditChecked(e) ==
    \A a \in Given(e.in, e.window.in), b \in Given(e.out, e.window.out) : a < b

CheckedIInv ==
    /\ Checked(rows) /\ \A e \in edits : EditChecked(e)
    /\ stage \in Working => Checked(posted)

\* What differs from the row is enough to restore what was checked.
LEMMA GivenDiffers ==
    ASSUME NEW S \in Optional(Nat), NEW T \in Optional(Nat)
    PROVE  Given(S \ T, T) = Given(S, T)
<1>1. /\ \A x, y \in S : x = y
      /\ \A x, y \in T : x = y
  BY DEF Optional
<1>2. CASE S \ T # {}
  <2>1. S \ T = S
    BY <1>1, <1>2
  <2> QED  BY <2>1
<1>3. CASE S \ T = {} /\ S # {}
  <2>1. S = T
    BY <1>1, <1>3
  <2> QED  BY <2>1 DEF Given
<1>4. CASE S = {}
  BY <1>4 DEF Given
<1> QED  BY <1>2, <1>3, <1>4

\* A timeline orders all of the ready clips.
LEMMA TimelineOnto ==
    ASSUME NEW library, NEW t \in Timelines(library)
    PROVE  \A c \in Ready(library) : \E i \in DOMAIN t : t[i] = c
<1> DEFINE S == 1..Cardinality(Ready(library))
           R == Ready(library)
<1>1. IsFiniteSet(R) /\ Cardinality(R) \in Nat
  BY ReadyFinite
<1>2. t \in [S -> R] /\ DOMAIN t = S /\ \A i, j \in S : i < j => t[i] # t[j]
  BY DEF Timelines
<1>3. \A i, j \in S : i # j => t[i] # t[j]
  <2> SUFFICES ASSUME NEW i \in S, NEW j \in S, i # j PROVE t[i] # t[j]
    OBVIOUS
  <2>1. i < j \/ j < i
    BY <1>1
  <2> QED  BY <1>2, <2>1
<1>4. IsFiniteSet(S) /\ Cardinality(S) = Cardinality(R)
  BY <1>1, FS_Interval
<1> HIDE DEF S, R
<1>5. t \in Injection(S, R)
  BY <1>2, <1>3 DEF Injection, IsInjective
<1>6. t \in Surjection(S, R)
  BY <1>1, <1>4, <1>5, FS_Injection
<1>7. \A c \in R : \E i \in S : t[i] = c
  BY <1>6 DEF Surjection
<1> QED  BY <1>2, <1>7 DEF R

\* The window of such a row is empty for three reasons.
LEMMA EmptyWindow ==
    ASSUME NEW r \in RowType, ValidRow(r)
    PROVE  OrElse(r.out, OrElse(r.duration, 0)) <= OrElse(r.in, 0) <=>
              \/ r.duration \subseteq {0} /\ OrElse(r.out, 0) = 0
              \/ /\ HalfSet(r) \/ r.crossed
                 /\ OrElse(r.out, OrElse(r.duration, 0)) <= OrElse(r.in, 0)
<1>1. /\ r.in \subseteq Nat /\ r.out \subseteq Nat /\ r.duration \subseteq Nat
      /\ \A x, y \in r.duration : x = y
  BY DEF RowType, Optional
<1> DEFINE d == OrElse(r.duration, 0)
           a == OrElse(r.in, 0)
           b == OrElse(r.out, d)
<1>2. d \in Nat /\ a \in Nat /\ b \in Nat
  <2>1. 0 \in Nat
    OBVIOUS
  <2>2. d \in Nat /\ a \in Nat
    BY <1>1, <2>1, OrElseType
  <2> QED  BY <1>1, <2>2, OrElseType
<1>3. r.duration \subseteq {0} <=> d = 0
  BY <1>1 DEF OrElse, The
<1>4. r.in # {} => a \in r.in
  BY DEF OrElse, The
<1>5. r.out # {} => b \in r.out /\ b = OrElse(r.out, 0)
  BY DEF OrElse, The
<1>6. r.in = {} => a = 0
  BY DEF OrElse
<1>7. r.out = {} => b = d /\ OrElse(r.out, 0) = 0
  BY DEF OrElse
<1>8. ASSUME r.in # {}, r.out # {}, ~r.crossed PROVE a < b \/ (r.duration \subseteq {0} /\ b = 0)
  BY <1>4, <1>5, <1>8 DEF ValidRow
<1> HIDE DEF a, b, d
<1>9. r.duration \subseteq {0} /\ OrElse(r.out, 0) = 0 => b <= a
  BY <1>2, <1>3, <1>5, <1>7
<1>10. ASSUME b <= a, ~HalfSet(r), ~r.crossed PROVE r.duration \subseteq {0} /\ OrElse(r.out, 0) = 0
  <2>1. CASE r.in = {}
    BY <2>1, <1>2, <1>3, <1>6, <1>7, <1>10 DEF HalfSet
  <2>2. CASE r.in # {}
    <3>1. r.out # {}
      BY <2>2, <1>10 DEF HalfSet
    <3>2. ~(a < b)
      BY <1>2, <1>10
    <3> QED  BY <2>2, <3>1, <3>2, <1>5, <1>8, <1>10
  <2> QED  BY <2>1, <2>2
<1>11. b <= a <=> \/ r.duration \subseteq {0} /\ OrElse(r.out, 0) = 0
                  \/ (HalfSet(r) \/ r.crossed) /\ b <= a
  BY <1>9, <1>10
<1> QED  BY <1>11 DEF a, b, d

LEMMA CheckedExplains == ASSUME PipeIInv, CheckedIInv PROVE RefusalExplained
<1> SUFFICES ASSUME NEW cmd \in command
             PROVE  Refused(cmd, Silent(rows)) <=>
                       \E c \in Ready(posted) : \E r \in posted[c] :
                          \/ r.duration \subseteq {0} /\ OrElse(r.out, 0) = 0
                          \/ (HalfSet(r) \/ r.crossed) /\ OrElse(r.out, OrElse(r.duration, 0)) <= OrElse(r.in, 0)
                          \/ mix /\ r.silent
  BY DEF RefusalExplained
<1> DEFINE Reason(r) == \/ r.duration \subseteq {0} /\ OrElse(r.out, 0) = 0
                        \/ (HalfSet(r) \/ r.crossed) /\ OrElse(r.out, OrElse(r.duration, 0)) <= OrElse(r.in, 0)
                        \/ mix /\ r.silent
<1>1. stage \in Working /\ cmd = CommandOf(Order)
  BY DEF PipeIInv, Stages, Working
<1>2. Frozen /\ DOMAIN Order = DOMAIN Specs
  BY <1>1, TimelineFinite
<1>3. ASSUME NEW i \in DOMAIN Specs
      PROVE  /\ Order[i] \in Ready(posted) /\ posted[Order[i]] = {Row(posted, Order[i])}
             /\ (Specs[i].to <= Specs[i].from \/ (mix /\ Specs[i].file \in Silent(rows)))
                   <=> Reason(Row(posted, Order[i]))
  <2> DEFINE c == Order[i]
             r == Row(posted, c)
  <2>1. /\ c \in Ready(posted) /\ c \in Clips /\ r \in posted[c] /\ r \in RowType
        /\ Specs[i].file = c
        /\ Specs[i].from = OrElse(r.in, 0)
        /\ Specs[i].to = OrElse(r.out, OrElse(r.duration, 0))
    BY <1>1, WindowOfRow
  <2>2. posted[c] = {r}
    BY <1>2, <2>1, RowOfOne DEF Frozen
  <2>3. ValidRow(r)
    BY <1>1, <2>1 DEF CheckedIInv, Checked
  <2>4. c \in Silent(rows) <=> r.silent
    <3> DEFINE q == Row(rows, c)
    <3>1. rows[c] # {} /\ q.silent = r.silent
      BY <1>2, <2>1, <2>2 DEF Frozen, SameFile
    <3>2. rows[c] = {q}
      BY <2>1, <3>1, RowOfOne DEF PipeIInv
    <3> HIDE DEF q, r, c
    <3> QED  BY <2>1, <3>1, <3>2 DEF Silent
  <2>5. Specs[i].to <= Specs[i].from <=>
              \/ r.duration \subseteq {0} /\ OrElse(r.out, 0) = 0
              \/ (HalfSet(r) \/ r.crossed) /\ OrElse(r.out, OrElse(r.duration, 0)) <= OrElse(r.in, 0)
    BY <2>1, <2>3, EmptyWindow
  <2>6. mix \in BOOLEAN
    BY DEF PipeIInv
  <2> HIDE DEF c, r
  <2>7. (Specs[i].to <= Specs[i].from \/ (mix /\ Specs[i].file \in Silent(rows))) <=> Reason(r)
    BY <2>1, <2>4, <2>5, <2>6
  <2> QED  BY <2>1, <2>2, <2>7 DEF c, r
<1>4. Refused(cmd, Silent(rows)) <=>
         \E i \in DOMAIN Specs :
             Specs[i].to <= Specs[i].from \/ (mix /\ Specs[i].file \in Silent(rows))
  BY <1>1, RefusedTimeline
<1> HIDE DEF Reason
<1>5. Refused(cmd, Silent(rows)) <=> \E i \in DOMAIN Specs : Reason(Row(posted, Order[i]))
  BY <1>3, <1>4
<1>6. \A c \in Ready(posted) : \E i \in DOMAIN Specs : Order[i] = c
  BY <1>2, TimelineOnto DEF Frozen
<1>7. (\E i \in DOMAIN Specs : Reason(Row(posted, Order[i]))) <=>
         \E c \in Ready(posted) : \E r \in posted[c] : Reason(r)
  BY <1>3, <1>6
<1> QED  BY <1>5, <1>7 DEF Reason

LEMMA CheckedInit == ASSUME LibrariesChecked PROVE Init => CheckedIInv
BY DEF LibrariesChecked, Init, CheckedIInv, Working

LEMMA CheckedStep == PipeIInv /\ CheckedIInv /\ [Next]_vars => CheckedIInv'
<1> SUFFICES ASSUME PipeIInv, CheckedIInv, [Next]_vars PROVE CheckedIInv'
  OBVIOUS
<1> USE DEF Working
<1>one. OneRowEach(rows) /\ New \in Clips
  BY PipelineAssumption DEF PipeIInv
<1>1. CASE UNCHANGED <<rows, edits>> /\ (UNCHANGED posted \/ posted' = rows)
        /\ (stage' \in Working => stage \in Working \/ posted' = rows)
  BY <1>1 DEF CheckedIInv, Checked
<1>2. CASE AcceptUpload
  <2>0. PICK file \in Uploads, i \in Places : \E probed \in ParseVideo(file) :
           rows' = [rows EXCEPT ![New] =
                      {[status |-> "processing", index |-> i, in |-> {0},
                        out |-> {OrElse(probed.duration, 0)}, duration |-> probed.duration,
                        silent |-> First(file, "audio") = {}, crossed |-> FALSE]}]
    BY <1>2 DEF AcceptUpload
  <2>1. PICK probed \in ParseVideo(file) :
           rows' = [rows EXCEPT ![New] =
                      {[status |-> "processing", index |-> i, in |-> {0},
                        out |-> {OrElse(probed.duration, 0)}, duration |-> probed.duration,
                        silent |-> First(file, "audio") = {}, crossed |-> FALSE]}]
    BY <2>0
  <2> DEFINE d == OrElse(probed.duration, 0)
             q == [status |-> "processing", index |-> i, in |-> {0},
                   out |-> {d}, duration |-> probed.duration,
                   silent |-> First(file, "audio") = {}, crossed |-> FALSE]
  <2>2. probed.duration \subseteq Nat /\ \A x, y \in probed.duration : x = y
    BY UploadsAssumption DEF ParseVideo, Optional
  <2>3. d \in Nat /\ (d = 0 => probed.duration \subseteq {0})
    <3>1. 0 \in Nat
      OBVIOUS
    <3>2. d \in Nat
      BY <2>2, <3>1, OrElseType
    <3>3. probed.duration # {} => d \in probed.duration
      BY DEF OrElse, The
    <3> QED  BY <2>2, <3>2, <3>3
  <2> HIDE DEF d
  <2>4. ValidRow(q)
    BY <2>3 DEF ValidRow
  <2>5. rows' = [rows EXCEPT ![New] = {q}]
    BY <2>1 DEF d
  <2> HIDE DEF q
  <2>6. \A c \in Clips : rows'[c] = IF c = New THEN {q} ELSE rows[c]
    BY <2>5, <1>one DEF OneRowEach
  <2>7. Checked(rows)'
    BY <2>4, <2>6 DEF CheckedIInv, Checked
  <2>8. stage' \notin Working /\ edits' = edits
    BY <1>2 DEF AcceptUpload
  <2> QED  BY <2>7, <2>8 DEF CheckedIInv
<1>3. CASE Normalized
  <2> DEFINE new(r) == [r EXCEPT !.status = IF result = "ok" THEN "ready" ELSE "failed"]
  <2>1. \A c \in Clips : rows'[c] = IF c = New THEN {new(r) : r \in rows[New]} ELSE rows[c]
    BY <1>3, <1>one DEF Normalized, OneRowEach
  <2>2. \A r \in RowType : ValidRow(r) => ValidRow(new(r))
    BY DEF ValidRow, RowType
  <2>3. rows[New] \subseteq RowType
    BY <1>one DEF OneRowEach
  <2> HIDE DEF new
  <2>4. Checked(rows)'
    <3>1. \A c \in Clips : \A r \in rows[c] : ValidRow(r)
      BY DEF CheckedIInv, Checked
    <3>2. ASSUME NEW c \in Clips, NEW q \in rows'[c] PROVE ValidRow(q)
      <4>1. CASE c # New
        BY <2>1, <3>1, <3>2, <4>1
      <4>2. CASE c = New
        <5>1. PICK r \in rows[New] : q = new(r)
          BY <2>1, <3>2, <4>2
        <5>2. r \in RowType /\ ValidRow(r)
          BY <1>one, <2>3, <3>1
        <5> QED  BY <5>1, <5>2, <2>2
      <4> QED  BY <4>1, <4>2
    <3> QED  BY <3>2 DEF Checked
  <2>5. stage' \notin Working /\ edits' = edits
    BY <1>3 DEF Normalized
  <2> QED  BY <2>4, <2>5 DEF CheckedIInv
<1>4. ASSUME NEW c \in Clips, PatchRead(c) PROVE CheckedIInv'
  <2>1. PICK r \in rows[c], body \in Bodies :
           /\ Validated([r EXCEPT !.in = Given(body.in, @), !.out = Given(body.out, @)])
           /\ edits' = edits \cup {Edit(c, r, body)}
    BY <1>4 DEF PatchRead
  <2>2. /\ r \in RowType /\ r.in \in Optional(Nat) /\ r.out \in Optional(Nat)
        /\ body.in \in Optional(Nat) /\ body.out \in Optional(Nat)
    BY <1>one, PatchAssumption DEF OneRowEach, RowType
  <2>3. \A a \in Given(body.in, r.in), b \in Given(body.out, r.out) : a < b
    BY <2>1, <2>2 DEF Validated, RowType
  <2>4. EditChecked(Edit(c, r, body))
    <3>1. /\ Given(body.in \ r.in, r.in) = Given(body.in, r.in)
          /\ Given(body.out \ r.out, r.out) = Given(body.out, r.out)
      BY <2>2, GivenDiffers
    <3> QED  BY <2>3, <3>1 DEF EditChecked, Edit
  <2>5. UNCHANGED <<rows, stage, posted>>
    BY <1>4 DEF PatchRead, jobVars
  <2> QED  BY <2>1, <2>4, <2>5 DEF CheckedIInv, Checked
<1>11. CASE PatchCommit
  <2>1. PICK e \in edits : \E r \in rows[e.clip] :
           /\ rows' = [rows EXCEPT ![e.clip] = {Written(r, e)}]
           /\ edits' = edits \ {e}
    BY <1>11 DEF PatchCommit
  <2>2. PICK r \in rows[e.clip] : rows' = [rows EXCEPT ![e.clip] = {Written(r, e)}]
    BY <2>1
  <2>3. e.clip \in Clips /\ r \in RowType
    BY <1>one DEF PipeIInv, EditType, OneRowEach
  <2> DEFINE q == Written(r, e)
  <2>4. ValidRow(q)
    <3>1. /\ q.crossed = (e.window # [in |-> r.in, out |-> r.out])
          /\ q.in = Given(e.in, r.in) /\ q.out = Given(e.out, r.out)
      BY <2>3 DEF Written, RowType
    <3>2. EditChecked(e)
      BY DEF CheckedIInv
    <3>3. ASSUME e.window = [in |-> r.in, out |-> r.out]
          PROVE  \A a \in q.in, b \in q.out : a < b
      <4>1. e.window.in = r.in /\ e.window.out = r.out
        BY <3>3
      <4> HIDE DEF q
      <4> QED  BY <3>1, <3>2, <4>1 DEF EditChecked
    <3> HIDE DEF q
    <3> QED  BY <3>1, <3>3 DEF ValidRow
  <2>5. rows' = [rows EXCEPT ![e.clip] = {q}]
    BY <2>2
  <2> HIDE DEF q
  <2>6. \A d \in Clips : rows'[d] = IF d = e.clip THEN {q} ELSE rows[d]
    BY <2>3, <2>5, <1>one DEF OneRowEach
  <2>7. stage' = stage /\ posted' = posted
    BY <1>11 DEF PatchCommit, jobVars
  <2>8. Checked(rows)'
    BY <2>4, <2>6 DEF CheckedIInv, Checked
  <2>9. Checked(posted)' = Checked(posted)
    BY <2>7 DEF Checked
  <2>10. \A x \in edits' : EditChecked(x)
    BY <2>1 DEF CheckedIInv
  <2> QED  BY <2>7, <2>8, <2>9, <2>10 DEF CheckedIInv
<1>5. CASE UNCHANGED pipeVars
  BY <1>1, <1>5 DEF pipeVars, libraryVars, jobVars
<1>6. CASE UNCHANGED vars
  BY <1>5, <1>6 DEF vars
<1>7. CASE RefuseUpload
  BY <1>1, <1>7 DEF RefuseUpload, libraryVars, jobVars
<1>8. CASE Post
  BY <1>1, <1>8 DEF Post, libraryVars
<1>9. CASE JobStep
  BY <1>1, <1>9 DEF JobStep, StartRender, Rendered, RenderFailed, Measured, libraryVars, jobVars
<1>10. CASE RenderLine
  BY <1>1, <1>10 DEF RenderLine, libraryVars, jobVars
<1> QED
  BY <1>2, <1>3, <1>4, <1>5, <1>6, <1>7, <1>8, <1>9, <1>10, <1>11
  DEF Next, PatchStep, UploadStep, ProbeUpload, ProgramStep, TroubleStep, ThreadStep, DrainerStep

\* ffmpeg refuses a command for the reasons of RefusalExplained and for no other,
\* for any number of PATCHes that overlap one another and the render.  The
\* hypothesis is that the rows that are found were checked as PATCH checks them, or
\* are of those that crossing PATCHes leave.
THEOREM RefusalsExplained ==
    ASSUME LibrariesChecked
    PROVE  Spec => []RefusalExplained
<1>1. Init => PipeIInv /\ CheckedIInv
  BY PipeInit, CheckedInit
<1>2. PipeIInv /\ CheckedIInv /\ [Next]_vars => PipeIInv' /\ CheckedIInv'
  BY PipeStep, CheckedStep
<1>3. PipeIInv /\ CheckedIInv => RefusalExplained
  BY CheckedExplains
<1> QED  BY <1>1, <1>2, <1>3, PTL DEF Spec

=============================================================================
