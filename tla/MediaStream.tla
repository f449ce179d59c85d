----------------------------- MODULE MediaStream -----------------------------
(***************************************************************************)
(* Requests that play one stored file (a normalized clip, a filmstrip, the *)
(* video of a compilation, a soundtrack) while a DELETE may remove it.     *)
(*                                                                         *)
(* A request reads the row, then the size by stat, answers with headers    *)
(* computed from the size, and only then opens the file and sends it chunk *)
(* by chunk.  A file that is named by a row is never written again, and a  *)
(* reader that has it open keeps it when it is unlinked.                   *)
(***************************************************************************)
EXTENDS Integers

CONSTANTS
    Requests,   \* requests for the file
    Headers,    \* Range headers they may carry
    Sizes,      \* sizes the file may have
    ChunkSize   \* _CHUNK_SIZE

\* A header has one of the forms first-last, first-, -last, or none of them.
HeaderForms == {"none", "malformed", "span", "from", "suffix"}

ASSUME HeadersAssumption ==
    Headers \subseteq [form : HeaderForms, first : Nat, last : Int]
ASSUME SizesAssumption == Sizes \subseteq Nat
ASSUME ChunkAssumption == ChunkSize \in Nat \ {0}

VARIABLES
    size,      \* of the file
    row,       \* whether the row exists and names the file
    file,      \* whether the file is in storage
    deleter,   \* where a DELETE is: "idle", "checked" or "unlinked"
    stage,     \* where each request is
    header,    \* the Range header of each request
    answer,    \* status, Content-Length and first byte of each response
    sent,      \* bytes of the body sent so far
    raced      \* history: requests between stat and open when the file went

vars == <<size, row, file, deleter, stage, header, answer, sent, raced>>
storageVars == <<size, row, file, deleter>>

Stages == {"new", "found", "answered", "reading", "done",
           "refused",   \* 404 or 416
           "error",     \* 500
           "cut",       \* the body ends early
           "left"}      \* the client closed the connection
NoAnswer == [status |-> 0, length |-> 0, first |-> 0]

TypeOK ==
    /\ size \in Sizes
    /\ row \in BOOLEAN /\ file \in BOOLEAN
    /\ deleter \in {"idle", "checked", "unlinked"}
    /\ stage \in [Requests -> Stages]
    /\ header \in [Requests -> Headers]
    /\ answer \in [Requests -> [status : {0, 200, 206, 404, 416, 500},
                                length : Int, first : Nat]]
    /\ sent \in [Requests -> Nat]
    /\ raced \subseteq Requests

Init ==
    /\ size \in Sizes
    /\ row = TRUE /\ file = TRUE /\ deleter = "idle"
    /\ stage = [r \in Requests |-> "new"]
    /\ header \in [Requests -> Headers]
    /\ answer = [r \in Requests |-> NoAnswer]
    /\ sent = [r \in Requests |-> 0]
    /\ raced = {}

-----------------------------------------------------------------------------
(* _parse_range_header: first and last byte, both included, or {}. *)

Larger(a, b)  == IF a > b THEN a ELSE b
Smaller(a, b) == IF a < b THEN a ELSE b
Bytes(first, last) == {[first |-> first, last |-> last]}

\* Fault: a suffix longer than the file is not clamped.
ParseSuffixUnclamped(h) ==
    IF size = 0 THEN Bytes(0, -1) ELSE Bytes(size - h.last, size - 1)

\* -N: the last N bytes.
ParseSuffix(h) ==
    IF size = 0 THEN Bytes(0, -1) ELSE Bytes(Larger(0, size - h.last), size - 1)

\* Fault: the end is not clamped to the file.
ParseSpanUnclamped(h) ==
    LET last == IF h.form = "from" THEN size - 1 ELSE h.last IN
    IF size = 0 \/ last < h.first \/ h.first >= size THEN {}
    ELSE Bytes(h.first, last)

\* N-M and N-.
ParseSpan(h) ==
    LET last == IF h.form = "from" THEN size - 1 ELSE h.last IN
    IF size = 0 \/ last < h.first \/ h.first >= size THEN {}
    ELSE Bytes(h.first, Smaller(last, size - 1))

Parse(h) ==
    CASE h.form = "malformed" -> {}
      [] h.form = "suffix" -> ParseSuffix(h)
      [] h.form \in {"span", "from"} -> ParseSpan(h)

-----------------------------------------------------------------------------
(* The request. *)

Answer(r, status, length, first, next) ==
    /\ answer' = [answer EXCEPT ![r] =
                    [status |-> status, length |-> length, first |-> first]]
    /\ stage' = [stage EXCEPT ![r] = next]

\* open_normalized, open_filmstrip, open_output or open_audio.
ReadRow(r) ==
    /\ stage[r] = "new"
    /\ IF row THEN /\ stage' = [stage EXCEPT ![r] = "found"]
                   /\ UNCHANGED answer
              ELSE Answer(r, 404, 0, 0, "refused")
    /\ UNCHANGED <<storageVars, header, sent, raced>>

\* stat finds no file: FileNotFoundError has no handler.
StatFails(r) ==
    /\ stage[r] = "found"
    /\ ~file
    /\ Answer(r, 500, 0, 0, "error")
    /\ UNCHANGED <<storageVars, header, sent, raced>>

\* Without a Range header: FileResponse of the whole file.
AnswerWhole(r) ==
    /\ stage[r] = "found" /\ file
    /\ header[r].form = "none"
    /\ Answer(r, 200, size, 0, "answered")
    /\ UNCHANGED <<storageVars, header, sent, raced>>

AnswerRefused(r) ==
    /\ stage[r] = "found" /\ file
    /\ header[r].form # "none" /\ Parse(header[r]) = {}
    /\ Answer(r, 416, 0, 0, "refused")
    /\ UNCHANGED <<storageVars, header, sent, raced>>

\* An empty file is answered in one piece; otherwise a 206 announces the bytes.
\* With a suffix below zero the announced length is negative (a server may then
\* refuse to send it, which is not modelled).
AnswerPart(r) ==
    /\ stage[r] = "found" /\ file
    /\ header[r].form # "none"
    /\ \E range \in Parse(header[r]) :
          IF size = 0 THEN Answer(r, 200, 0, 0, "done")
          ELSE Answer(r, 206, range.last - range.first + 1, range.first, "answered")
    /\ UNCHANGED <<storageVars, header, sent, raced>>

\* The headers are out; the body opens the file.
OpenFile(r) ==
    /\ stage[r] = "answered"
    /\ stage' = [stage EXCEPT ![r] = IF file THEN "reading" ELSE "cut"]
    /\ UNCHANGED <<storageVars, header, answer, sent, raced>>

Remaining(r) == answer[r].length - sent[r]

\* What read() returns at the current offset.
Available(r) == Larger(0, size - (answer[r].first + sent[r]))

\* Fault: a whole chunk is read whatever remains.
ReadWholeChunk(r) ==
    LET n == Smaller(ChunkSize, Available(r)) IN
    /\ stage[r] = "reading"
    /\ Remaining(r) > 0 /\ n > 0
    /\ sent' = [sent EXCEPT ![r] = @ + n]
    /\ UNCHANGED <<storageVars, stage, header, answer, raced>>

ReadChunk(r) ==
    LET n == Smaller(Smaller(ChunkSize, Remaining(r)), Available(r)) IN
    /\ stage[r] = "reading"
    /\ Remaining(r) > 0 /\ n > 0
    /\ sent' = [sent EXCEPT ![r] = @ + n]
    /\ UNCHANGED <<storageVars, stage, header, answer, raced>>

\* Nothing remains, or read() returned nothing.
EndBody(r) ==
    /\ stage[r] = "reading"
    /\ Remaining(r) <= 0 \/ Available(r) = 0
    /\ stage' = [stage EXCEPT ![r] = "done"]
    /\ UNCHANGED <<storageVars, header, answer, sent, raced>>

Leave(r) ==
    /\ stage[r] \in {"new", "found", "answered", "reading"}
    /\ stage' = [stage EXCEPT ![r] = "left"]
    /\ UNCHANGED <<storageVars, header, answer, sent, raced>>

-----------------------------------------------------------------------------
(* DELETE of the clip, compilation or soundtrack: row read, file unlinked, row *)
(* deleted and committed.                                                      *)

DeleteRead ==
    /\ deleter = "idle" /\ row
    /\ deleter' = "checked"
    /\ UNCHANGED <<size, row, file, stage, header, answer, sent, raced>>

Unlink ==
    /\ deleter = "checked"
    /\ deleter' = "unlinked"
    /\ file' = FALSE
    /\ raced' = raced \cup {r \in Requests : stage[r] = "answered"}
    /\ UNCHANGED <<size, row, stage, header, answer, sent>>

DeleteCommit ==
    /\ deleter = "unlinked"
    /\ deleter' = "idle"
    /\ row' = FALSE
    /\ UNCHANGED <<size, file, stage, header, answer, sent, raced>>

\* The transaction is rolled back: the row goes on naming the file.
DeleteFails ==
    /\ deleter = "unlinked"
    /\ deleter' = "idle"
    /\ UNCHANGED <<size, row, file, stage, header, answer, sent, raced>>

-----------------------------------------------------------------------------
RequestStep(r) ==
    \/ ReadRow(r) \/ StatFails(r) \/ AnswerWhole(r) \/ AnswerRefused(r)
    \/ AnswerPart(r) \/ OpenFile(r) \/ ReadChunk(r) \/ EndBody(r) \/ Leave(r)

DeleteStep == DeleteRead \/ Unlink \/ DeleteCommit \/ DeleteFails

Next == DeleteStep \/ \E r \in Requests : RequestStep(r)

Spec == Init /\ [][Next]_vars

-----------------------------------------------------------------------------
(* Properties. *)

\* The bytes a header asks for, written down independently of the parser.
Asked(h) ==
    {b \in 0..(size - 1) :
        \/ h.form = "none"
        \/ h.form = "span" /\ h.first <= b /\ b <= h.last
        \/ h.form = "from" /\ h.first <= b
        \/ h.form = "suffix" /\ size - b <= h.last}

Promised(r) == {b \in 0..(size + ChunkSize) :
                   /\ answer[r].first <= b
                   /\ b < answer[r].first + answer[r].length}

\* A suffix of no bytes, or of a negative number of them (int() takes the sign).
\* _parse_range_header returns it without the check of its last lines, and the
\* answer is a 206 whose length is zero or negative.
DegenerateSuffix(h) == h.form = "suffix" /\ h.last <= 0

\* A 206 announces exactly the bytes of the file that were asked for, and a
\* request for none of them is refused, except for degenerate suffixes and for
\* suffixes of an empty file.
AnswersRange ==
    \A r \in Requests :
        ~DegenerateSuffix(header[r]) =>
            /\ answer[r].status \in {200, 206} => Promised(r) = Asked(header[r])
            /\ answer[r].status = 206 => Asked(header[r]) # {}
            /\ answer[r].status = 416 => Asked(header[r]) = {}

\* The body is as long as its Content-Length says, however DELETE interleaves,
\* and is never longer; it is cut short only when the file was unlinked
\* between the stat and the open.
BodyKept ==
    \A r \in Requests :
        ~DegenerateSuffix(header[r]) =>
            /\ sent[r] <= answer[r].length
            /\ stage[r] = "done" => sent[r] = answer[r].length
            /\ stage[r] = "cut" => r \in raced

=============================================================================
