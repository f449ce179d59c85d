-------------------------- MODULE MediaStreamProofs --------------------------
(***************************************************************************)
(* Proofs about MediaStream for any number of requests, any header, any    *)
(* size of the file and any size of the chunks.                            *)
(*                                                                         *)
(* The argument: what the parser returns is the interval of the bytes      *)
(* asked for (ParseFacts), so the headers announce them; BodyInv bounds    *)
(* what was sent by what was announced and that by the file, so a body     *)
(* can neither be longer nor end early while the file is open.             *)
(***************************************************************************)
EXTENDS MediaStream, TLAPS

BodyInv ==
    \A r \in Requests :
        /\ stage[r] \in {"new", "found", "answered"} => sent[r] = 0
        /\ stage[r] \in {"new", "found"} => answer[r] = NoAnswer
        /\ stage[r] = "answered" /\ ~file => r \in raced
        /\ stage[r] = "cut" => r \in raced /\ sent[r] = 0
        /\ ~DegenerateSuffix(header[r]) =>
              /\ answer[r].length >= 0
              /\ answer[r].first + answer[r].length <= size
              /\ sent[r] <= answer[r].length
              /\ stage[r] = "done" => sent[r] = answer[r].length

\* What headers may say to a request: lengths within the file, the bytes asked for.
Faithful(r, status, length, first) ==
    ~DegenerateSuffix(header[r]) =>
        /\ length >= 0 /\ first + length <= size
        /\ status \in {200, 206} =>
              \A b \in Int : b \in Asked(header[r]) <=> first <= b /\ b < first + length
        /\ status = 206 => Asked(header[r]) # {}
        /\ status = 416 => Asked(header[r]) = {}

IInv == TypeOK /\ BodyInv /\ AnswersRange

-----------------------------------------------------------------------------
(* The parser against what it is meant to compute. *)

LEMMA HeaderTypes ==
    ASSUME NEW h \in Headers
    PROVE  h.form \in HeaderForms /\ h.first \in Nat /\ h.last \in Int
BY HeadersAssumption

LEMMA AskedFacts ==
    ASSUME size \in Nat, NEW h \in Headers
    PROVE  /\ Asked(h) \subseteq Int
           /\ \A b \in Int : b \in Asked(h) <=>
                 /\ 0 <= b /\ b < size
                 /\ \/ h.form = "none"
                    \/ h.form = "span" /\ h.first <= b /\ b <= h.last
                    \/ h.form = "from" /\ h.first <= b
                    \/ h.form = "suffix" /\ size - b <= h.last
BY DEF Asked

\* What a step that leaves the file's size, headers and answers alone keeps.
LEMMA AnswersSame ==
    ASSUME AnswersRange, UNCHANGED <<size, header, answer>>
    PROVE  AnswersRange'
<1>1. \A r \in Requests : Asked(header[r])' = Asked(header[r])
  BY DEF Asked
<1>2. \A r \in Requests : Promised(r)' = Promised(r)
  BY DEF Promised
<1> QED  BY <1>1, <1>2 DEF AnswersRange, DegenerateSuffix

\* _parse_range_header returns the interval of the bytes asked for, within the
\* file, or nothing when there are none.
LEMMA ParseFacts ==
    ASSUME size \in Nat, NEW h \in Headers, h.form # "none"
    PROVE  /\ \A range \in Parse(h) : range.first \in Nat /\ range.last \in Int
           /\ ~DegenerateSuffix(h) =>
                 /\ Parse(h) = {} => Asked(h) = {}
                 /\ size > 0 => \A range \in Parse(h) :
                       /\ range.first <= range.last /\ range.last < size
                       /\ \A b \in Int : b \in Asked(h) <=>
                             range.first <= b /\ b <= range.last
                 /\ size = 0 => Asked(h) = {}
<1>1. h.form \in HeaderForms /\ h.first \in Nat /\ h.last \in Int
  BY HeaderTypes
<1>0. /\ Asked(h) \subseteq Int
      /\ \A b \in Int : b \in Asked(h) <=>
            /\ 0 <= b /\ b < size
            /\ \/ h.form = "span" /\ h.first <= b /\ b <= h.last
               \/ h.form = "from" /\ h.first <= b
               \/ h.form = "suffix" /\ size - b <= h.last
  BY AskedFacts
<1>2. CASE h.form = "malformed"
  <2>1. Parse(h) = {} /\ Asked(h) = {}
    BY <1>0, <1>2 DEF Parse
  <2> QED  BY <2>1
<1>3. CASE h.form = "suffix"
  <2>1. Parse(h) = ParseSuffix(h)
    BY <1>3 DEF Parse
  <2>2. CASE size = 0
    <3>1. Parse(h) = {[first |-> 0, last |-> -1]}
      BY <2>1, <2>2 DEF ParseSuffix, Bytes
    <3>2. Asked(h) = {}
      BY <2>2 DEF Asked
    <3> QED  BY <2>2, <3>1, <3>2
  <2>3. CASE size > 0
    <3> DEFINE first == Larger(0, size - h.last)
    <3>1. Parse(h) = {[first |-> first, last |-> size - 1]}
      BY <2>1, <2>3 DEF ParseSuffix, Bytes
    <3>2. first \in Nat
      BY <1>1 DEF Larger
    <3>3. ~DegenerateSuffix(h) =>
             /\ first <= size - 1
             /\ \A b \in Int : b \in Asked(h) <=> first <= b /\ b <= size - 1
      BY <1>0, <1>1, <1>3, <2>3 DEF Larger, DegenerateSuffix
    <3> HIDE DEF first
    <3>4. \A range \in Parse(h) : range.first = first /\ range.last = size - 1
      BY <3>1
    <3>5. Parse(h) # {}
      BY <3>1
    <3>6. first \in Int /\ size - 1 \in Int /\ size - 1 < size
      BY <3>2
    <3> QED  BY <2>3, <3>2, <3>3, <3>4, <3>5, <3>6
  <2> QED  BY <2>2, <2>3
<1>4. CASE h.form \in {"span", "from"}
  <2> DEFINE last == IF h.form = "from" THEN size - 1 ELSE h.last
  <2>1. last \in Int
    BY <1>1
  <2>2. Parse(h) = IF size = 0 \/ last < h.first \/ h.first >= size THEN {}
                   ELSE {[first |-> h.first, last |-> Smaller(last, size - 1)]}
    BY <1>4 DEF Parse, ParseSpan, Bytes
  <2>3. \A b \in Int : b \in Asked(h) <=> h.first <= b /\ b <= Smaller(last, size - 1)
    BY <1>0, <1>1, <1>4, <2>1 DEF Smaller
  <2>4. Smaller(last, size - 1) \in Int /\ Smaller(last, size - 1) < size
    BY <2>1 DEF Smaller
  <2>6. CASE size = 0 \/ last < h.first \/ h.first >= size
    <3>1. Smaller(last, size - 1) < h.first
      BY <1>1, <2>1, <2>6 DEF Smaller
    <3>2. Asked(h) = {}
      BY <1>0, <1>1, <2>3, <2>4, <3>1
    <3> HIDE DEF last
    <3> QED  BY <2>2, <2>6, <3>2
  <2>7. CASE ~(size = 0 \/ last < h.first \/ h.first >= size)
    <3>1. h.first <= Smaller(last, size - 1)
      BY <1>1, <2>1, <2>7 DEF Smaller
    <3> HIDE DEF last
    <3>2. Parse(h) = {[first |-> h.first, last |-> Smaller(last, size - 1)]}
      BY <2>2, <2>7
    <3>3. \A range \in Parse(h) :
             range.first = h.first /\ range.last = Smaller(last, size - 1)
      BY <3>2
    <3> QED  BY <1>1, <2>3, <2>4, <2>7, <3>1, <3>2, <3>3
  <2> QED  BY <2>6, <2>7
<1> QED  BY <1>1, <1>2, <1>3, <1>4 DEF HeaderForms

-----------------------------------------------------------------------------
(* The invariant. *)

LEMMA InvInit == Init => IInv
<1> SUFFICES ASSUME Init PROVE IInv
  OBVIOUS
<1>1. size \in Nat
  BY SizesAssumption DEF Init
<1>2. TypeOK
  BY DEF Init, TypeOK, NoAnswer, Stages
<1>3. BodyInv
  <2>1. \A r \in Requests : /\ stage[r] = "new" /\ sent[r] = 0 /\ answer[r] = NoAnswer
                            /\ answer[r].length = 0 /\ answer[r].first = 0
    BY DEF Init, NoAnswer
  <2>2. 0 >= 0 /\ 0 + 0 <= size /\ 0 <= 0
    BY <1>1
  <2> QED  BY <2>1, <2>2 DEF BodyInv
<1>4. AnswersRange
  BY DEF Init, AnswersRange, NoAnswer
<1> QED  BY <1>2, <1>3, <1>4 DEF IInv

\* A response that is given, with the bytes it announces.
LEMMA AnswerKept ==
    ASSUME IInv, NEW r \in Requests, NEW status \in {200, 206, 404, 416, 500},
           NEW length \in Int, NEW first \in Nat, NEW next \in Stages \ {"new", "found", "cut"},
           stage[r] \in {"new", "found"}, Answer(r, status, length, first, next),
           UNCHANGED <<storageVars, header, sent, raced>>,
           next = "answered" => file,
           next = "done" => length = 0, Faithful(r, status, length, first)
    PROVE  IInv'
<1>1. size \in Nat /\ ChunkSize \in Nat
  BY SizesAssumption, ChunkAssumption DEF IInv, TypeOK
<1>2. /\ answer' = [answer EXCEPT ![r] = [status |-> status, length |-> length, first |-> first]]
      /\ stage' = [stage EXCEPT ![r] = next]
      /\ UNCHANGED <<size, row, file, deleter, header, sent, raced>>
  BY DEF Answer, storageVars
<1>3. TypeOK'
  BY <1>2 DEF IInv, TypeOK
<1>4. BodyInv'
  <2> SUFFICES ASSUME NEW q \in Requests
               PROVE  /\ stage'[q] \in {"new", "found", "answered"} => sent[q] = 0
                      /\ stage'[q] \in {"new", "found"} => answer'[q] = NoAnswer
                      /\ stage'[q] = "answered" /\ ~file => q \in raced
                      /\ stage'[q] = "cut" => q \in raced /\ sent[q] = 0
                      /\ ~DegenerateSuffix(header[q]) =>
                            /\ answer'[q].length >= 0
                            /\ answer'[q].first + answer'[q].length <= size
                            /\ sent[q] <= answer'[q].length
                            /\ stage'[q] = "done" => sent[q] = answer'[q].length
    BY <1>2 DEF BodyInv, DegenerateSuffix, NoAnswer
  <2>1. CASE q = r
    <3>1. sent[q] = 0
      BY <2>1 DEF IInv, BodyInv
    <3>2. stage'[q] = next /\ answer'[q] = [status |-> status, length |-> length, first |-> first]
      BY <1>2, <2>1 DEF IInv, TypeOK
    <3> QED  BY <2>1, <3>1, <3>2 DEF Faithful
  <2>2. CASE q # r
    <3>1. stage'[q] = stage[q] /\ answer'[q] = answer[q]
      BY <1>2, <2>2 DEF IInv, TypeOK
    <3> QED  BY <3>1 DEF IInv, BodyInv
  <2> QED  BY <2>1, <2>2
<1>5. AnswersRange'
  <2> SUFFICES ASSUME NEW q \in Requests, ~DegenerateSuffix(header[q])
               PROVE  /\ answer'[q].status \in {200, 206} => Promised(q)' = Asked(header[q])
                      /\ answer'[q].status = 206 => Asked(header[q]) # {}
                      /\ answer'[q].status = 416 => Asked(header[q]) = {}
    <3>1. \A q \in Requests : Asked(header[q])' = Asked(header[q])
      BY <1>2 DEF Asked
    <3> QED  BY <1>2, <3>1 DEF AnswersRange, DegenerateSuffix
  <2>0. Asked(header[q]) \subseteq Int
    BY <1>1, AskedFacts DEF IInv, TypeOK
  <2>1. CASE q = r
    <3>1. answer'[q] = [status |-> status, length |-> length, first |-> first]
      BY <1>2, <2>1 DEF IInv, TypeOK
    <3>2. Promised(q)' = {b \in 0..(size + ChunkSize) : first <= b /\ b < first + length}
      BY <1>2, <3>1 DEF Promised
    <3>4. status \in {200, 206} => Promised(q)' = Asked(header[q])
      <4> SUFFICES ASSUME status \in {200, 206}
                   PROVE  Promised(q)' = Asked(header[q])
        OBVIOUS
      <4>1. \A b \in Int : b \in Promised(q)' <=> first <= b /\ b < first + length
        BY <1>1, <2>1, <3>2 DEF Faithful
      <4>2. Promised(q)' \subseteq Int
        BY <3>2
      <4>3. \A b \in Int : b \in Asked(header[q]) <=> first <= b /\ b < first + length
        BY <2>1 DEF Faithful
      <4>4. \A b : b \in Promised(q)' <=> b \in Asked(header[q])
        BY <2>0, <4>1, <4>2, <4>3
      <4> QED  BY <4>4
    <3> QED  BY <2>1, <3>1, <3>4 DEF Faithful
  <2>2. CASE q # r
    <3>1. answer'[q] = answer[q]
      BY <1>2, <2>2 DEF IInv, TypeOK
    <3>2. Promised(q)' = Promised(q)
      BY <1>2, <3>1 DEF Promised
    <3> QED  BY <3>1, <3>2 DEF IInv, AnswersRange
  <2> QED  BY <2>1, <2>2
<1> QED  BY <1>3, <1>4, <1>5 DEF IInv

LEMMA RequestKept ==
    ASSUME IInv, NEW r \in Requests, RequestStep(r)
    PROVE  IInv'
<1>0. size \in Nat /\ header[r] \in Headers /\ sent[r] \in Nat
  BY SizesAssumption DEF IInv, TypeOK
<1>1. CASE ReadRow(r)
  <2>1. CASE row
    <3>1. /\ stage[r] = "new" /\ stage' = [stage EXCEPT ![r] = "found"]
          /\ UNCHANGED <<size, row, file, deleter, header, answer, sent, raced>>
      BY <1>1, <2>1 DEF ReadRow, storageVars
    <3>2. TypeOK'
      BY <3>1 DEF IInv, TypeOK, Stages
    <3>3. BodyInv'
      BY <3>1 DEF IInv, TypeOK, BodyInv, DegenerateSuffix, NoAnswer
    <3> QED  BY <3>1, <3>2, <3>3, AnswersSame DEF IInv
  <2>2. CASE ~row
    <3>1. Answer(r, 404, 0, 0, "refused") /\ stage[r] = "new"
          /\ UNCHANGED <<storageVars, header, sent, raced>>
      BY <1>1, <2>2 DEF ReadRow
    <3>2. Faithful(r, 404, 0, 0)
      BY <1>0 DEF Faithful
    <3> QED  BY <3>1, <3>2, AnswerKept DEF Stages
  <2> QED  BY <2>1, <2>2
<1>2. CASE StatFails(r)
  <2>1. Answer(r, 500, 0, 0, "error") /\ stage[r] = "found"
        /\ UNCHANGED <<storageVars, header, sent, raced>>
    BY <1>2 DEF StatFails
  <2>2. Faithful(r, 500, 0, 0)
    BY <1>0 DEF Faithful
  <2> QED  BY <2>1, <2>2, AnswerKept DEF Stages
<1>3. CASE AnswerWhole(r)
  <2>1. /\ Answer(r, 200, size, 0, "answered") /\ stage[r] = "found" /\ file
        /\ UNCHANGED <<storageVars, header, sent, raced>>
    BY <1>3 DEF AnswerWhole
  <2>2. \A b \in Int : b \in Asked(header[r]) <=> 0 <= b /\ b < 0 + size
    BY <1>0, <1>3, AskedFacts DEF AnswerWhole
  <2>3. Faithful(r, 200, size, 0)
    BY <1>0, <2>2 DEF Faithful
  <2> QED  BY <1>0, <2>1, <2>3, AnswerKept DEF Stages
<1>4. CASE AnswerRefused(r)
  <2>1. /\ Answer(r, 416, 0, 0, "refused") /\ stage[r] = "found"
        /\ UNCHANGED <<storageVars, header, sent, raced>>
    BY <1>4 DEF AnswerRefused
  <2>2. ~DegenerateSuffix(header[r]) => Asked(header[r]) = {}
    BY <1>0, <1>4, ParseFacts DEF AnswerRefused
  <2>3. Faithful(r, 416, 0, 0)
    BY <1>0, <2>2 DEF Faithful
  <2> QED  BY <2>1, <2>3, AnswerKept DEF Stages
<1>5. CASE AnswerPart(r)
  <2>1. PICK range \in Parse(header[r]) :
          IF size = 0 THEN Answer(r, 200, 0, 0, "done")
          ELSE Answer(r, 206, range.last - range.first + 1, range.first, "answered")
    BY <1>5 DEF AnswerPart
  <2>2. /\ stage[r] = "found" /\ file /\ header[r].form # "none"
        /\ UNCHANGED <<storageVars, header, sent, raced>>
    BY <1>5 DEF AnswerPart
  <2>3. range.first \in Nat /\ range.last \in Int
    BY <1>0, <2>2, ParseFacts
  <2>4. CASE size = 0
    <3>1. ~DegenerateSuffix(header[r]) => Asked(header[r]) = {}
      BY <1>0, <2>2, <2>4, ParseFacts
    <3>2. ~DegenerateSuffix(header[r]) =>
             \A b \in Int : b \in Asked(header[r]) <=> 0 <= b /\ b < 0 + 0
      BY <3>1
    <3>3. Faithful(r, 200, 0, 0)
      BY <1>0, <3>2 DEF Faithful
    <3>4. Answer(r, 200, 0, 0, "done")
      BY <2>1, <2>4
    <3> QED  BY <2>2, <3>3, <3>4, AnswerKept DEF Stages
  <2>5. CASE size # 0
    <3>0. PICK length, first : length = range.last - range.first + 1 /\ first = range.first
      OBVIOUS
    <3>1. ~DegenerateSuffix(header[r]) =>
             /\ first <= range.last /\ range.last < size
             /\ \A b \in Int : b \in Asked(header[r]) <=> first <= b /\ b <= range.last
      BY <1>0, <2>1, <2>2, <2>5, <3>0, ParseFacts
    <3>2. length \in Int /\ first \in Nat
      BY <2>3, <3>0
    <3>3. ~DegenerateSuffix(header[r]) =>
             /\ length >= 0 /\ first + length <= size
             /\ \A b \in Int : b \in Asked(header[r]) <=> first <= b /\ b < first + length
             /\ Asked(header[r]) # {}
      BY <1>0, <2>3, <3>0, <3>1
    <3>4. Answer(r, 206, length, first, "answered")
      BY <2>1, <2>5, <3>0
    <3>5. Faithful(r, 206, length, first)
      BY <3>3 DEF Faithful
    <3> QED  BY <2>2, <3>2, <3>4, <3>5, AnswerKept DEF Stages
  <2> QED  BY <2>4, <2>5
<1>6. ASSUME UNCHANGED <<storageVars, header, answer, raced>>, TypeOK', BodyInv' PROVE IInv'
  BY <1>6, AnswersSame DEF IInv, storageVars
<1>7. CASE OpenFile(r) \/ Leave(r)
  <2>1. TypeOK'
    BY <1>7 DEF OpenFile, Leave, IInv, TypeOK, Stages, storageVars
  <2>2. BodyInv'
    BY <1>7 DEF OpenFile, Leave, IInv, TypeOK, BodyInv, DegenerateSuffix, storageVars
  <2> QED  BY <1>6, <1>7, <2>1, <2>2 DEF OpenFile, Leave
<1>8. answer[r].length \in Int /\ answer[r].first \in Nat /\ ChunkSize \in Nat \ {0}
  BY ChunkAssumption DEF IInv, TypeOK
<1>9. CASE ReadChunk(r)
  <2> DEFINE n == Smaller(Smaller(ChunkSize, Remaining(r)), Available(r))
  <2>1. n \in Nat /\ n <= Remaining(r)
    BY <1>0, <1>8, <1>9 DEF ReadChunk, Smaller, Larger, Remaining, Available
  <2>2. /\ stage[r] = "reading" /\ sent' = [sent EXCEPT ![r] = sent[r] + n]
        /\ UNCHANGED <<storageVars, stage, header, answer, raced>>
    BY <1>9 DEF ReadChunk
  <2> HIDE DEF n
  <2>3. TypeOK'
    BY <1>0, <2>1, <2>2 DEF IInv, TypeOK, storageVars
  <2>4. sent[r] + n <= answer[r].length
    BY <1>0, <1>8, <2>1 DEF Remaining
  <2>5. BodyInv'
    BY <2>2, <2>4 DEF IInv, TypeOK, BodyInv, DegenerateSuffix, storageVars
  <2> QED  BY <1>6, <2>2, <2>3, <2>5
<1>10. CASE EndBody(r)
  <2>1. /\ stage[r] = "reading" /\ stage' = [stage EXCEPT ![r] = "done"]
        /\ UNCHANGED <<storageVars, header, answer, sent, raced>>
    BY <1>10 DEF EndBody
  <2>2. TypeOK'
    BY <2>1 DEF IInv, TypeOK, Stages, storageVars
  <2>3. ~DegenerateSuffix(header[r]) => sent[r] = answer[r].length
    <3>1. ~DegenerateSuffix(header[r]) =>
             answer[r].first + answer[r].length <= size /\ sent[r] <= answer[r].length
      BY DEF IInv, BodyInv
    <3> QED  BY <1>0, <1>8, <1>10, <3>1 DEF EndBody, Remaining, Available, Larger
  <2>4. BodyInv'
    BY <2>1, <2>3 DEF IInv, TypeOK, BodyInv, DegenerateSuffix, storageVars
  <2> QED  BY <1>6, <2>1, <2>2, <2>4
<1> QED  BY <1>1, <1>2, <1>3, <1>4, <1>5, <1>7, <1>9, <1>10 DEF RequestStep

LEMMA InvStep == IInv /\ [Next]_vars => IInv'
<1> SUFFICES ASSUME IInv, [Next]_vars PROVE IInv'
  OBVIOUS
<1>1. CASE DeleteStep
  <2>1. UNCHANGED <<size, stage, header, answer, sent>>
    BY <1>1 DEF DeleteStep, DeleteRead, Unlink, DeleteCommit, DeleteFails
  <2>2. TypeOK'
    <3>1. /\ row' \in BOOLEAN /\ file' \in BOOLEAN
          /\ deleter' \in {"idle", "checked", "unlinked"} /\ raced' \subseteq Requests
      BY <1>1 DEF DeleteStep, DeleteRead, Unlink, DeleteCommit, DeleteFails, IInv, TypeOK
    <3> QED  BY <2>1, <3>1 DEF IInv, TypeOK
  <2>3. BodyInv'
    <3>1. /\ raced \subseteq raced'
          /\ \A r \in Requests : stage[r] = "answered" /\ ~file' => ~file \/ r \in raced'
      BY <1>1 DEF DeleteStep, DeleteRead, Unlink, DeleteCommit, DeleteFails
    <3> QED  BY <2>1, <3>1 DEF IInv, BodyInv, DegenerateSuffix
  <2>4. AnswersRange'
    BY <2>1, AnswersSame DEF IInv
  <2> QED  BY <2>2, <2>3, <2>4 DEF IInv
<1>2. CASE \E r \in Requests : RequestStep(r)
  BY <1>2, RequestKept
<1>3. CASE UNCHANGED vars
  <2>1. TypeOK' /\ BodyInv'
    BY <1>3 DEF vars, IInv, TypeOK, BodyInv, DegenerateSuffix, NoAnswer
  <2> QED  BY <1>3, <2>1, AnswersSame DEF vars, IInv
<1> QED  BY <1>1, <1>2, <1>3 DEF Next

-----------------------------------------------------------------------------
(* The theorems. *)

LEMMA StreamInvariant == Spec => []IInv
  BY InvInit, InvStep, PTL DEF Spec

\* Every variable has its type, the number of bytes sent included.
THEOREM StreamTypes == Spec => []TypeOK
<1>1. IInv => TypeOK
  BY DEF IInv
<1> QED  BY StreamInvariant, <1>1, PTL

\* _parse_range_header and the headers made from it: a 206 announces the bytes
\* that were asked for, a 416 is given only when there are none.
THEOREM RangesAnswered == Spec => []AnswersRange
<1>1. IInv => AnswersRange
  BY DEF IInv
<1> QED  BY StreamInvariant, <1>1, PTL

\* The body keeps to its Content-Length, unless the file goes between the stat
\* and the open.
THEOREM BodyIsKept == Spec => []BodyKept
<1>1. IInv => BodyKept
  BY DEF IInv, BodyInv, BodyKept
<1> QED  BY StreamInvariant, <1>1, PTL

=============================================================================
