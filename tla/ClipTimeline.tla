---------------------------- MODULE ClipTimeline ----------------------------
(***************************************************************************)
(* The order and the trim windows of the clips, the two things a user      *)
(* edits and a compilation copies.                                         *)
(*                                                                         *)
(*   - POST /clips gives a new clip a sort_index between the clips         *)
(*     recorded before and after it.  It reads the largest index, then the *)
(*     clip before, then the clip after, and inserts the row later.  What  *)
(*     is stored of the time of a recording, and compared, is what the     *)
(*     clock there showed: the column has no place for the offset;         *)
(*   - PATCH /clips/{id} reads the row, checks the window that results     *)
(*     from the body, and updates the columns that differ;                 *)
(*   - DELETE /clips/{id} takes the row.                                   *)
(*                                                                         *)
(* Each SELECT sees what is committed when it runs.  An index is a float   *)
(* of which only so many bisections are distinct: it is an integer here,   *)
(* and the midpoint of two neighbours is one of them.                      *)
(***************************************************************************)
EXTENDS Integers, FiniteSets, FiniteSetsExt

CONSTANTS
    Clips,       \* the ids uuid4() returns
    Files,       \* what ffprobe says of an upload: the clock and the offset when it
                 \* was recorded, the duration, 0 when that is unknown (None)
    Step,        \* 1000.0
    Patchers,    \* PATCH requests
    Bodies,      \* their bodies: a set of at most one value for each field
    NoClip       \* the id in a patch that is not under way

Optional(S) == {T \in SUBSET S : \A x, y \in T : x = y}
Fields == [lo : Optional(Nat), hi : Optional(Nat), index : Optional(Int)]

ASSUME FilesAssumption == Files \subseteq [clock : Int, offset : Int, duration : Nat]
ASSUME StepAssumption == Step \in Nat \ {0}
ASSUME BodiesAssumption == Bodies \subseteq Fields
ASSUME NoClipAssumption == NoClip \notin Clips

VARIABLES
    rowid,      \* SQLite's rowid of each clip's row, 0 without a row
    at,         \* recorded_at of each clip that is uploaded or stored
    zone,       \* history: the offset of its file, which the column drops
    index,      \* sort_index of each row
    window,     \* trim_in_s and trim_out_s of each row
    duration,   \* duration_s of each clip
    upload,     \* where POST is for each id
    seen,       \* what each POST has read: indexes, {} for None
    patch,      \* what each PATCH is about to write, after its check
    misled,     \* history: uploads that read a table that was out of order or
                \* full, or that an insert or a move has overtaken
    overtaken,  \* history: patches whose clip got another window meanwhile
    skewed      \* history: clips such a patch has written

history == <<misled, overtaken, skewed>>
rowVars == <<rowid, at, zone, index, window, duration>>
vars == <<rowVars, upload, seen, patch, history>>

Rows == {c \in Clips : rowid[c] # 0}
InFlight == {c \in Clips : upload[c] \in {"maxed", "between", "placed"}}
Unread == [max |-> {}, prev |-> {}, next |-> {}]
Idle == [id |-> NoClip, lo |-> {}, hi |-> {}, index |-> {}]
NoWindow == [lo |-> 0, hi |-> 0]

TypeOK ==
    /\ rowid \in [Clips -> Nat]
    /\ at \in [Clips -> Int] /\ zone \in [Clips -> Int]
    /\ index \in [Clips -> Int]
    /\ window \in [Clips -> [lo : Nat, hi : Nat]]
    /\ duration \in [Clips -> Nat]
    /\ upload \in [Clips -> {"none", "maxed", "between", "placed", "done"}]
    /\ seen \in [Clips -> [max : Optional(Int), prev : Optional(Int), next : Optional(Int)]]
    /\ patch \in [Patchers -> [id : Clips \cup {NoClip}, lo : Optional(Nat),
                              hi : Optional(Nat), index : Optional(Int)]]
    /\ misled \subseteq Clips
    /\ overtaken \subseteq Patchers
    /\ skewed \subseteq Clips

Init ==
    /\ rowid = [c \in Clips |-> 0]
    /\ at = [c \in Clips |-> 0] /\ zone = [c \in Clips |-> 0]
    /\ index = [c \in Clips |-> 0]
    /\ window = [c \in Clips |-> NoWindow]
    /\ duration = [c \in Clips |-> 0]
    /\ upload = [c \in Clips |-> "none"]
    /\ seen = [c \in Clips |-> Unread]
    /\ patch = [p \in Patchers |-> Idle]
    /\ misled = {} /\ overtaken = {} /\ skewed = {}

-----------------------------------------------------------------------------
(* What the queries return. *)

\* max_sort_index: None when the table is empty.
MaxIndex == IF Rows = {} THEN {} ELSE {Max({index[c] : c \in Rows})}

\* Fault: LIMIT 1 is missing.
BeforeAll(t) == {p \in Rows : at[p] <= t}

\* prev of neighbors_for_recorded_at.  Among clips recorded at the same time
\* the index on recorded_at, read backwards, yields the last one inserted.
Before(t) ==
    {p \in Rows : /\ at[p] <= t
                  /\ \A q \in Rows : at[q] <= t =>
                        \/ at[q] < at[p]
                        \/ at[q] = at[p] /\ rowid[q] <= rowid[p]}

\* Fault: >= instead of >.
AfterOrSame(t) ==
    {n \in Rows : /\ at[n] >= t
                  /\ \A q \in Rows : at[q] >= t =>
                        \/ at[q] > at[n]
                        \/ at[q] = at[n] /\ rowid[q] >= rowid[n]}

\* next_ of neighbors_for_recorded_at: the same index, read forwards.
After(t) ==
    {n \in Rows : /\ at[n] > t
                  /\ \A q \in Rows : at[q] > t =>
                        \/ at[q] > at[n]
                        \/ at[q] = at[n] /\ rowid[q] >= rowid[n]}

\* The library is sorted by what the clocks showed, ties in the order of upload.
Earlier(a, b) == at[a] < at[b] \/ (at[a] = at[b] /\ rowid[a] < rowid[b])
Orderly == \A a, b \in Rows : Earlier(a, b) => index[a] < index[b]

\* The moment a clip was recorded at.
Moment(c) == at[c] - zone[c]

\* Clips whose clocks had the same offset are in the order they were recorded in.
Chronological ==
    \A a, b \in Rows : zone[a] = zone[b] /\ Moment(a) < Moment(b) => index[a] < index[b]

-----------------------------------------------------------------------------
(* POST /clips: _assign_sort_index and the insert. *)

\* The upload is saved and probed; max_sort_index.  DateTime() writes the fields
\* of a time into SQLite as they are, in the INSERT and in the comparisons of the
\* queries, and leaves its offset out.
ReadMax(c) ==
    /\ upload[c] = "none"
    /\ \E file \in Files :
          /\ at' = [at EXCEPT ![c] = file.clock]
          /\ zone' = [zone EXCEPT ![c] = file.offset]
          /\ duration' = [duration EXCEPT ![c] = file.duration]
    /\ seen' = [seen EXCEPT ![c].max = MaxIndex]
    /\ upload' = [upload EXCEPT ![c] = IF Rows = {} THEN "placed" ELSE "maxed"]
    /\ misled' = IF Orderly THEN misled ELSE misled \cup {c}
    /\ UNCHANGED <<rowid, index, window, patch, overtaken, skewed>>

ReadPrev(c) ==
    /\ upload[c] = "maxed"
    /\ seen' = [seen EXCEPT ![c].prev = {index[p] : p \in Before(at[c])}]
    /\ upload' = [upload EXCEPT ![c] = "between"]
    /\ UNCHANGED <<rowVars, patch, history>>

ReadNext(c) ==
    /\ upload[c] = "between"
    /\ seen' = [seen EXCEPT ![c].next = {index[n] : n \in After(at[c])}]
    /\ upload' = [upload EXCEPT ![c] = "placed"]
    /\ misled' = IF \A p \in seen[c].prev, n \in seen'[c].next : n - p # 1
                   THEN misled ELSE misled \cup {c}
    /\ UNCHANGED <<rowVars, patch, overtaken, skewed>>

\* What was known of a clip goes with it.
Forget(c) ==
    /\ at' = [at EXCEPT ![c] = 0] /\ zone' = [zone EXCEPT ![c] = 0]
    /\ duration' = [duration EXCEPT ![c] = 0]

The(S) == CHOOSE x \in S : TRUE

\* The value _assign_sort_index returns.
Place(s) ==
    IF s.max = {} THEN Step
    ELSE IF s.next = {} THEN The(s.max) + Step
    ELSE IF s.prev = {} THEN The(s.next) - Step
    ELSE (The(s.prev) + The(s.next)) \div 2

\* The row is inserted, with the whole clip as its window, and committed.
Insert(c) ==
    /\ upload[c] = "placed"
    /\ rowid' = [rowid EXCEPT ![c] = Max({rowid[b] : b \in Clips}) + 1]
    /\ index' = [index EXCEPT ![c] = Place(seen[c])]
    /\ window' = [window EXCEPT ![c] = [lo |-> 0, hi |-> duration[c]]]
    /\ upload' = [upload EXCEPT ![c] = "done"]
    /\ seen' = [seen EXCEPT ![c] = Unread]
    /\ misled' = (misled \cup InFlight) \ {c}
    /\ UNCHANGED <<at, zone, duration, patch, overtaken, skewed>>

\* The insert or its commit raises, or the service stops.
UploadFails(c) ==
    /\ c \in InFlight
    /\ Forget(c)
    /\ upload' = [upload EXCEPT ![c] = "done"]
    /\ seen' = [seen EXCEPT ![c] = Unread]
    /\ misled' = misled \ {c}
    /\ UNCHANGED <<rowid, index, window, patch, overtaken, skewed>>

-----------------------------------------------------------------------------
(* PATCH /clips/{id}. *)

\* The value a body gives, or else the one of the row.
Given(field, value) == IF field = {} THEN value ELSE The(field)

\* _validate_trim accepts the window.
ValidTrim(w, d) == w.lo < w.hi /\ (d = 0 \/ w.hi <= d)

\* Fault: only what the body gives is checked.
PatchReadUnmerged(p, c, body) ==
    /\ patch[p] = Idle
    /\ c \in Rows
    /\ \A lo \in body.lo, hi \in body.hi : ValidTrim([lo |-> lo, hi |-> hi], duration[c])
    /\ patch' = [patch EXCEPT ![p] =
                    [id    |-> c,
                     lo    |-> body.lo \ {window[c].lo},
                     hi    |-> body.hi \ {window[c].hi},
                     index |-> body.index \ {index[c]}]]
    /\ UNCHANGED <<rowVars, upload, seen, history>>

\* The row is read and merged with the body.  A window that is not valid is
\* refused, also when the body gives no window.  Only columns whose value
\* changes are written.
PatchRead(p, c, body) ==
    /\ patch[p] = Idle
    /\ c \in Rows
    /\ ValidTrim([lo |-> Given(body.lo, window[c].lo),
                  hi |-> Given(body.hi, window[c].hi)], duration[c])
    /\ patch' = [patch EXCEPT ![p] =
                    [id    |-> c,
                     lo    |-> body.lo \ {window[c].lo},
                     hi    |-> body.hi \ {window[c].hi},
                     index |-> body.index \ {index[c]}]]
    /\ UNCHANGED <<rowVars, upload, seen, history>>

\* The UPDATE and its commit.
PatchCommit(p) ==
    LET c == patch[p].id
        w == [lo |-> Given(patch[p].lo, window[c].lo),
              hi |-> Given(patch[p].hi, window[c].hi)]
    IN
    /\ c \in Rows
    /\ window' = [window EXCEPT ![c] = w]
    /\ index' = [index EXCEPT ![c] = Given(patch[p].index, index[c])]
    /\ patch' = [patch EXCEPT ![p] = Idle]
    /\ misled' = IF patch[p].index = {} THEN misled ELSE misled \cup InFlight
    /\ overtaken' = (IF w = window[c] THEN overtaken
                       ELSE overtaken \cup {q \in Patchers : patch[q].id = c}) \ {p}
    /\ skewed' = IF p \in overtaken THEN skewed \cup {c} ELSE skewed
    /\ UNCHANGED <<rowid, at, zone, duration, upload, seen>>

\* The row is gone, the write lock is not had, or the service stops.
PatchFails(p) ==
    /\ patch[p] # Idle
    /\ patch' = [patch EXCEPT ![p] = Idle]
    /\ overtaken' = overtaken \ {p}
    /\ UNCHANGED <<rowVars, upload, seen, misled, skewed>>

\* DELETE /clips/{id}, as far as its row is concerned.
Delete(c) ==
    /\ c \in Rows
    /\ rowid' = [rowid EXCEPT ![c] = 0]
    /\ index' = [index EXCEPT ![c] = 0]
    /\ window' = [window EXCEPT ![c] = NoWindow]
    /\ Forget(c)
    /\ skewed' = skewed \ {c}
    /\ UNCHANGED <<upload, seen, patch, misled, overtaken>>

-----------------------------------------------------------------------------
UploadStep(c) ==
    ReadMax(c) \/ ReadPrev(c) \/ ReadNext(c) \/ Insert(c) \/ UploadFails(c)

PatchStep(p) ==
    \/ \E c \in Clips, body \in Bodies : PatchRead(p, c, body)
    \/ PatchCommit(p) \/ PatchFails(p)

Next ==
    \/ \E c \in Clips : UploadStep(c) \/ Delete(c)
    \/ \E p \in Patchers : PatchStep(p)

Spec == Init /\ [][Next]_vars

-----------------------------------------------------------------------------
(* Properties. *)

\* "Return a fractional sort_index that places a clip in chronological order"
\* (_assign_sort_index): an upload keeps sorted a library that is sorted by what
\* the clocks showed, whatever is deleted between its reads, unless another upload
\* or a move was committed meanwhile, or its neighbours leave no number between
\* them.  Sorted like this, clips recorded at one offset are in the order they
\* were recorded in; clips of different offsets need not be, as the offsets are gone.
PlacedInOrder ==
    [][\A c \in Clips \ misled :
          rowid[c] = 0 /\ rowid'[c] # 0 /\ Orderly => Orderly' /\ Chronological']_vars

\* A clip's window is not empty and ends within the clip, except on a clip whose
\* duration is unknown and that was not trimmed yet, or one that two PATCHes
\* wrote, each having checked its own end against the other's old value.
WindowsHold ==
    \A c \in Rows \ skewed :
        \/ ValidTrim(window[c], duration[c])
        \/ duration[c] = 0 /\ window[c] = NoWindow

=============================================================================
