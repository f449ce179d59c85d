------------------------- MODULE ClipTimelineProofs -------------------------
(***************************************************************************)
(* Proofs about ClipTimeline for any number of uploads and PATCHes, any    *)
(* recording times and durations, and any step.                            *)
(*                                                                         *)
(* The argument.  RowInv: rowids are distinct and bounded, so the queries  *)
(* return one row when there is one.  PlaceInv: what an upload that was    *)
(* not misled has read still bounds the rows of the table.  PatchInv: a    *)
(* patch that was not overtaken still leads to a valid window.             *)
(***************************************************************************)
EXTENDS ClipTimeline, TLAPS, WellFoundedInduction

RowInv ==
    /\ \A c \in Clips : rowid[c] # 0 => upload[c] = "done"
    /\ \A a, b \in Clips : rowid[a] # 0 /\ rowid[a] = rowid[b] => a = b
    /\ \E k \in Nat : \A c \in Clips : rowid[c] <= k /\ index[c] <= k

\* What upload c has read so far is still true of the table.
Sound(c) ==
    /\ Orderly
    /\ seen[c].max = {} => Rows = {}
    /\ \A m \in seen[c].max, a \in Rows : index[a] <= m
    /\ upload[c] \in {"between", "placed"} /\ seen[c].max # {} =>
          /\ \A p \in seen[c].prev, a \in Rows :
                IF at[a] <= at[c] THEN index[a] <= p ELSE p < index[a]
          /\ seen[c].prev = {} => \A a \in Rows : at[a] > at[c]
    /\ upload[c] = "placed" /\ seen[c].max # {} =>
          /\ \A n \in seen[c].next, a \in Rows : at[a] > at[c] => index[a] >= n
          /\ seen[c].next = {} => \A a \in Rows : at[a] <= at[c]
          /\ \A p \in seen[c].prev, n \in seen[c].next : n - p > 1

PlaceInv == \A c \in InFlight \ misled : Sound(c)

\* The window patch p leads to.
Merged(p) ==
    [lo |-> Given(patch[p].lo, window[patch[p].id].lo),
     hi |-> Given(patch[p].hi, window[patch[p].id].hi)]

PatchInv ==
    /\ \A p \in Patchers :
          patch[p].id # NoClip =>
              /\ upload[patch[p].id] = "done"
              /\ rowid[patch[p].id] # 0 /\ p \notin overtaken
                    => ValidTrim(Merged(p), duration[patch[p].id])
    /\ WindowsHold

IInv == TypeOK /\ RowInv /\ PlaceInv /\ PatchInv

-----------------------------------------------------------------------------
(* Largest and smallest elements. *)

LEMMA LeastNatural ==
    ASSUME NEW T, T \subseteq Nat, T # {}
    PROVE  \E t \in T : \A y \in T : t <= y
<1>1. \E x \in T : \A y \in T : ~(<<y, x>> \in OpToRel(<, Nat))
  BY NatLessThanWellFounded, WFMin
<1>2. PICK x \in T : \A y \in T : ~(<<y, x>> \in OpToRel(<, Nat))
  BY <1>1
<1>3. \A y \in T : ~(y < x)
  BY <1>2 DEF OpToRel
<1>4. \A y \in T : x <= y
  BY <1>3
<1> QED  BY <1>4

LEMMA MaxExists ==
    ASSUME NEW S, S \subseteq Int, S # {}, NEW k \in Int, \A x \in S : x <= k
    PROVE  \E m \in S : \A x \in S : x <= m
<1> DEFINE T == {k - x : x \in S}
<1>1. T \subseteq Nat
  OBVIOUS
<1>2. T # {}
  <2>1. PICK x \in S : TRUE
    OBVIOUS
  <2>2. k - x \in T
    BY <2>1
  <2> QED  BY <2>2
<1>3. PICK t \in T : \A y \in T : t <= y
  <2> HIDE DEF T
  <2> QED  BY <1>1, <1>2, LeastNatural
<1>4. PICK m \in S : t = k - m
  OBVIOUS
<1>5. \A x \in S : k - x \in T
  OBVIOUS
<1> HIDE DEF T
<1>6. \A x \in S : k - m <= k - x /\ x \in Int /\ m \in Int
  BY <1>3, <1>4, <1>5
<1> QED  BY <1>6

LEMMA MinExists ==
    ASSUME NEW S, S \subseteq Int, S # {}, NEW k \in Int, \A x \in S : x >= k
    PROVE  \E m \in S : \A x \in S : x >= m
<1> DEFINE T == {x - k : x \in S}
<1>1. T \subseteq Nat
  OBVIOUS
<1>2. T # {}
  <2>1. PICK x \in S : TRUE
    OBVIOUS
  <2>2. x - k \in T
    BY <2>1
  <2> QED  BY <2>2
<1>3. PICK t \in T : \A y \in T : t <= y
  <2> HIDE DEF T
  <2> QED  BY <1>1, <1>2, LeastNatural
<1>4. PICK m \in S : t = m - k
  OBVIOUS
<1>5. \A x \in S : x - k \in T
  OBVIOUS
<1> HIDE DEF T
<1>6. \A x \in S : m - k <= x - k /\ x \in Int /\ m \in Int
  BY <1>3, <1>4, <1>5
<1> QED  BY <1>6

\* Max of the community modules, where there is a bound.
LEMMA MaxFacts ==
    ASSUME NEW S, S \subseteq Int, S # {}, NEW k \in Int, \A x \in S : x <= k
    PROVE  Max(S) \in S /\ \A x \in S : x <= Max(S)
<1>1. PICK m \in S : \A x \in S : x <= m
  BY MaxExists
<1>2. \A x \in S : m >= x
  BY <1>1
<1>3. \E y \in S : \A x \in S : y >= x
  BY <1>2
<1>4. Max(S) \in S /\ \A x \in S : Max(S) >= x
  BY <1>3 DEF Max
<1> QED  BY <1>4

-----------------------------------------------------------------------------
(* The queries. *)

LEMMA RowTypes ==
    ASSUME TypeOK
    PROVE  /\ \A c \in Clips : at[c] \in Int /\ index[c] \in Int /\ rowid[c] \in Nat
           /\ \A c \in Rows : /\ at[c] \in Int /\ index[c] \in Int
                              /\ rowid[c] \in Nat \ {0} /\ c \in Clips
<1>1. \A c \in Clips : at[c] \in Int /\ index[c] \in Int /\ rowid[c] \in Nat
  BY DEF TypeOK
<1> QED  BY <1>1 DEF Rows

\* max_sort_index is an upper bound, and None only for an empty table.
LEMMA MaxIndexFacts ==
    ASSUME TypeOK, RowInv
    PROVE  /\ MaxIndex \in Optional(Int)
           /\ MaxIndex = {} => Rows = {}
           /\ \A m \in MaxIndex, a \in Rows : index[a] <= m
<1>1. CASE Rows = {}
  BY <1>1 DEF MaxIndex, Optional
<1>2. CASE Rows # {}
  <2> DEFINE S == {index[c] : c \in Rows}
  <2>1. S \subseteq Int
    BY RowTypes
  <2>2. PICK k \in Int : \A c \in Clips : index[c] <= k
    BY DEF RowInv
  <2>3. \A x \in S : x <= k
    BY <2>2 DEF Rows
  <2>4. \A a \in Rows : index[a] \in S
    OBVIOUS
  <2>5. MaxIndex = {Max(S)}
    BY <1>2 DEF MaxIndex
  <2> HIDE DEF S
  <2>6. S # {}
    BY <1>2, <2>4
  <2>7. Max(S) \in S /\ \A x \in S : x <= Max(S)
    BY <2>1, <2>2, <2>3, <2>6, MaxFacts
  <2> QED  BY <2>1, <2>4, <2>5, <2>7 DEF Optional
<1> QED  BY <1>1, <1>2

\* The rowid of a new row is larger than all others.
LEMMA NewRowid ==
    ASSUME TypeOK, RowInv, Clips # {}
    PROVE  /\ Max({rowid[b] : b \in Clips}) \in Nat
           /\ \A a \in Clips : rowid[a] <= Max({rowid[b] : b \in Clips})
<1> DEFINE S == {rowid[b] : b \in Clips}
<1>1. S \subseteq Nat
  BY RowTypes
<1>2. PICK k \in Int : \A c \in Clips : rowid[c] <= k
  BY DEF RowInv
<1>3. \A x \in S : x <= k
  BY <1>2
<1>4. \A a \in Clips : rowid[a] \in S
  OBVIOUS
<1>5. Max(S) \in Nat /\ \A a \in Clips : rowid[a] <= Max(S)
  <2> HIDE DEF S
  <2>1. S # {} /\ S \subseteq Int
    BY <1>1, <1>4
  <2>2. Max(S) \in S /\ \A x \in S : x <= Max(S)
    BY <2>1, <1>2, <1>3, MaxFacts
  <2> QED  BY <2>2, <1>1, <1>4
<1> QED  BY <1>5

\* Rows recorded at the same time with the same rowid are the same row.
LEMMA RowidsDiffer ==
    ASSUME TypeOK, RowInv
    PROVE  \A p, q \in Rows : rowid[p] = rowid[q] => p = q
BY DEF RowInv, Rows

\* The clip before: at most one, and there is one unless all clips are later.
LEMMA BeforeFacts ==
    ASSUME TypeOK, RowInv, NEW t \in Int
    PROVE  /\ \A p, q \in Before(t) : p = q
           /\ Before(t) = {} => \A a \in Rows : at[a] > t
<1>0. \A a \in Rows : at[a] \in Int /\ rowid[a] \in Nat
  BY RowTypes
<1>1. \A p, q \in Before(t) : p = q
  <2> SUFFICES ASSUME NEW p \in Before(t), NEW q \in Before(t) PROVE p = q
    OBVIOUS
  <2>1. p \in Rows /\ q \in Rows /\ at[p] <= t /\ at[q] <= t
    BY DEF Before
  <2>2. /\ at[q] < at[p] \/ (at[q] = at[p] /\ rowid[q] <= rowid[p])
        /\ at[p] < at[q] \/ (at[p] = at[q] /\ rowid[p] <= rowid[q])
    BY <2>1 DEF Before
  <2>3. rowid[p] = rowid[q]
    BY <1>0, <2>1, <2>2
  <2> QED  BY <2>1, <2>3, RowidsDiffer
<1>2. ASSUME NEW a \in Rows, at[a] <= t PROVE Before(t) # {}
  <2> DEFINE S == {at[q] : q \in {r \in Rows : at[r] <= t}}
  <2>1. S \subseteq Int /\ \A x \in S : x <= t
    BY <1>0
  <2>2. \A q \in Rows : at[q] <= t => at[q] \in S
    OBVIOUS
  <2>3. \A x \in S : \E q \in Rows : at[q] = x
    OBVIOUS
  <2> HIDE DEF S
  <2>4. S # {}
    BY <1>2, <2>2
  <2>5. PICK m \in S : \A x \in S : x <= m
    BY <2>1, <2>4, MaxExists
  <2> DEFINE U == {rowid[q] : q \in {r \in Rows : at[r] = m}}
  <2>6. U \subseteq Int
    BY <1>0
  <2>7. PICK k \in Int : \A c \in Clips : rowid[c] <= k
    BY DEF RowInv
  <2>8. \A x \in U : x <= k
    BY <2>7 DEF Rows
  <2>9. \A q \in Rows : at[q] = m => rowid[q] \in U
    OBVIOUS
  <2>10. \A x \in U : \E q \in Rows : at[q] = m /\ rowid[q] = x
    OBVIOUS
  <2> HIDE DEF U
  <2>11. U # {}
    BY <2>3, <2>9
  <2>12. PICK u \in U : \A x \in U : x <= u
    BY <2>6, <2>7, <2>8, <2>11, MaxExists
  <2>13. PICK p \in Rows : at[p] = m /\ rowid[p] = u
    BY <2>10
  <2>14. m \in Int /\ m <= t
    BY <2>1
  <2>15. \A q \in Rows : at[q] <= t => at[q] <= m
    BY <2>2, <2>5
  <2>16. \A q \in Rows : at[q] = m => rowid[q] <= u
    BY <2>9, <2>12
  <2>17. p \in Before(t)
    BY <1>0, <2>13, <2>14, <2>15, <2>16 DEF Before
  <2> QED  BY <2>17
<1> QED  BY <1>0, <1>1, <1>2

\* The clip after: at most one, and there is one unless no clip is later.
LEMMA AfterFacts ==
    ASSUME TypeOK, RowInv, NEW t \in Int
    PROVE  /\ \A p, q \in After(t) : p = q
           /\ After(t) = {} => \A a \in Rows : at[a] <= t
<1>0. \A a \in Rows : at[a] \in Int /\ rowid[a] \in Nat
  BY RowTypes
<1>1. \A p, q \in After(t) : p = q
  <2> SUFFICES ASSUME NEW p \in After(t), NEW q \in After(t) PROVE p = q
    OBVIOUS
  <2>1. p \in Rows /\ q \in Rows /\ at[p] > t /\ at[q] > t
    BY DEF After
  <2>2. /\ at[q] > at[p] \/ (at[q] = at[p] /\ rowid[q] >= rowid[p])
        /\ at[p] > at[q] \/ (at[p] = at[q] /\ rowid[p] >= rowid[q])
    BY <2>1 DEF After
  <2>3. rowid[p] = rowid[q]
    BY <1>0, <2>1, <2>2
  <2> QED  BY <2>1, <2>3, RowidsDiffer
<1>2. ASSUME NEW a \in Rows, at[a] > t PROVE After(t) # {}
  <2> DEFINE S == {at[q] : q \in {r \in Rows : at[r] > t}}
  <2>1. S \subseteq Int /\ \A x \in S : x > t
    BY <1>0
  <2>2. \A q \in Rows : at[q] > t => at[q] \in S
    OBVIOUS
  <2>3. \A x \in S : \E q \in Rows : at[q] = x
    OBVIOUS
  <2> HIDE DEF S
  <2>4. S # {} /\ \A x \in S : x >= t
    BY <1>2, <2>1, <2>2
  <2>5. PICK m \in S : \A x \in S : x >= m
    BY <2>1, <2>4, MinExists
  <2> DEFINE U == {rowid[q] : q \in {r \in Rows : at[r] = m}}
  <2>6. U \subseteq Nat
    BY <1>0
  <2>7. \A q \in Rows : at[q] = m => rowid[q] \in U
    OBVIOUS
  <2>8. \A x \in U : \E q \in Rows : at[q] = m /\ rowid[q] = x
    OBVIOUS
  <2> HIDE DEF U
  <2>9. U # {}
    BY <2>3, <2>7
  <2>10. PICK u \in U : \A x \in U : u <= x
    BY <2>6, <2>9, LeastNatural
  <2>11. PICK p \in Rows : at[p] = m /\ rowid[p] = u
    BY <2>8
  <2>12. m \in Int /\ m > t
    BY <2>1
  <2>13. \A q \in Rows : at[q] > t => at[q] >= m
    BY <2>2, <2>5
  <2>14. \A q \in Rows : at[q] = m => u <= rowid[q]
    BY <2>7, <2>10
  <2>15. p \in After(t)
    BY <1>0, <2>11, <2>12, <2>13, <2>14 DEF After
  <2> QED  BY <2>15
<1> QED  BY <1>0, <1>1, <1>2

-----------------------------------------------------------------------------
(* The invariant. *)

\* A set of at most one value, when there is one.
LEMMA OptionalFacts ==
    ASSUME NEW S, NEW T \in Optional(S), T # {}
    PROVE  The(T) \in S /\ T = {The(T)}
<1>1. PICK x \in T : TRUE
  OBVIOUS
<1>2. T \subseteq S /\ \A y, z \in T : y = z
  BY DEF Optional
<1>3. The(T) \in T
  BY <1>1 DEF The
<1> QED  BY <1>2, <1>3

LEMMA PlaceType ==
    ASSUME TypeOK, NEW c \in Clips
    PROVE  Place(seen[c]) \in Int
<1>1. /\ seen[c].max \in Optional(Int)
      /\ seen[c].prev \in Optional(Int)
      /\ seen[c].next \in Optional(Int)
  BY DEF TypeOK
<1>2. Step \in Int
  BY StepAssumption
<1>3. CASE seen[c].max = {}
  BY <1>2, <1>3 DEF Place
<1>4. CASE seen[c].max # {} /\ seen[c].next = {}
  <2>1. The(seen[c].max) \in Int
    BY <1>1, <1>4, OptionalFacts
  <2> QED  BY <1>2, <1>4, <2>1 DEF Place
<1>5. CASE seen[c].max # {} /\ seen[c].next # {}
  <2>1. The(seen[c].next) \in Int
    BY <1>1, <1>5, OptionalFacts
  <2>2. CASE seen[c].prev = {}
    BY <1>2, <1>5, <2>1, <2>2 DEF Place
  <2>3. CASE seen[c].prev # {}
    <3>1. The(seen[c].prev) \in Int
      BY <1>1, <2>3, OptionalFacts
    <3>2. Place(seen[c]) = (The(seen[c].prev) + The(seen[c].next)) \div 2
      BY <1>5, <2>3 DEF Place
    <3> QED  BY <2>1, <3>1, <3>2
  <2> QED  BY <2>2, <2>3
<1> QED  BY <1>3, <1>4, <1>5

\* The value of a patch's field: the one given, or else the row's.
LEMMA GivenType ==
    ASSUME NEW S, NEW T \in Optional(S), NEW v \in S
    PROVE  Given(T, v) \in S
<1>1. CASE T = {}
  BY <1>1 DEF Given
<1>2. CASE T # {}
  BY <1>2, OptionalFacts DEF Given
<1> QED  BY <1>1, <1>2

LEMMA InitInv == Init => IInv
<1> SUFFICES ASSUME Init PROVE IInv
  OBVIOUS
<1>1. {} \in Optional(Int) /\ {} \in Optional(Nat)
  BY DEF Optional
<1>2. TypeOK
  BY <1>1 DEF Init, TypeOK, Unread, Idle, NoWindow
<1>3. RowInv
  <2>1. 0 \in Nat /\ \A c \in Clips : rowid[c] <= 0 /\ index[c] <= 0
    BY DEF Init
  <2> QED  BY <2>1 DEF Init, RowInv
<1>4. PlaceInv
  BY DEF Init, PlaceInv, InFlight
<1>5. PatchInv
  BY DEF Init, PatchInv, WindowsHold, Rows, Idle
<1> QED  BY <1>2, <1>3, <1>4, <1>5 DEF IInv

LEMMA TypeStep ==
    ASSUME TypeOK, RowInv, [Next]_vars
    PROVE  TypeOK'
<1>0. {} \in Optional(Int) /\ {} \in Optional(Nat)
  BY DEF Optional
<1>1. ASSUME NEW c \in Clips, ReadMax(c) PROVE TypeOK'
  <2>1. MaxIndex \in Optional(Int)
    BY MaxIndexFacts
  <2>2. seen' \in [Clips -> [max : Optional(Int), prev : Optional(Int), next : Optional(Int)]]
    BY <1>1, <2>1 DEF ReadMax, TypeOK
  <2>3. at' \in [Clips -> Int] /\ zone' \in [Clips -> Int] /\ duration' \in [Clips -> Nat]
    BY <1>1, FilesAssumption DEF ReadMax, TypeOK
  <2> QED  BY <1>1, <2>2, <2>3 DEF ReadMax, TypeOK
<1>2. ASSUME NEW c \in Clips, ReadPrev(c) PROVE TypeOK'
  <2>1. at[c] \in Int
    BY DEF TypeOK
  <2>2. \A p, q \in Before(at[c]) : p = q
    BY <2>1, BeforeFacts
  <2>3. \A p \in Before(at[c]) : index[p] \in Int
    BY RowTypes DEF Before
  <2>4. {index[p] : p \in Before(at[c])} \in Optional(Int)
    BY <2>2, <2>3 DEF Optional
  <2>5. seen' \in [Clips -> [max : Optional(Int), prev : Optional(Int), next : Optional(Int)]]
    BY <1>2, <2>4 DEF ReadPrev, TypeOK
  <2> QED  BY <1>2, <2>5 DEF ReadPrev, TypeOK, rowVars, history
<1>3. ASSUME NEW c \in Clips, ReadNext(c) PROVE TypeOK'
  <2>1. at[c] \in Int
    BY DEF TypeOK
  <2>2. \A p, q \in After(at[c]) : p = q
    BY <2>1, AfterFacts
  <2>3. \A p \in After(at[c]) : index[p] \in Int
    BY RowTypes DEF After
  <2>4. {index[n] : n \in After(at[c])} \in Optional(Int)
    BY <2>2, <2>3 DEF Optional
  <2>5. seen' \in [Clips -> [max : Optional(Int), prev : Optional(Int), next : Optional(Int)]]
    BY <1>3, <2>4 DEF ReadNext, TypeOK
  <2> QED  BY <1>3, <2>5 DEF ReadNext, TypeOK, rowVars
<1>4. ASSUME NEW c \in Clips, Insert(c) PROVE TypeOK'
  <2>1. Max({rowid[b] : b \in Clips}) \in Nat
    BY NewRowid
  <2>2. rowid' \in [Clips -> Nat]
    BY <1>4, <2>1 DEF Insert, TypeOK
  <2>3. index' \in [Clips -> Int]
    BY <1>4, PlaceType DEF Insert, TypeOK
  <2>4. window' \in [Clips -> [lo : Nat, hi : Nat]]
    BY <1>4 DEF Insert, TypeOK
  <2>5. seen' \in [Clips -> [max : Optional(Int), prev : Optional(Int), next : Optional(Int)]]
    BY <1>0, <1>4 DEF Insert, TypeOK, Unread
  <2>6. misled' \subseteq Clips
    BY <1>4 DEF Insert, TypeOK, InFlight
  <2> QED  BY <1>4, <2>2, <2>3, <2>4, <2>5, <2>6 DEF Insert, TypeOK
<1>5. ASSUME NEW c \in Clips, UploadFails(c) PROVE TypeOK'
  BY <1>0, <1>5 DEF UploadFails, Forget, TypeOK, Unread
<1>6. ASSUME NEW p \in Patchers, NEW c \in Clips, NEW body \in Bodies, PatchRead(p, c, body)
      PROVE  TypeOK'
  <2>1. body \in Fields
    BY BodiesAssumption
  <2>2. /\ body.lo \ {window[c].lo} \in Optional(Nat)
        /\ body.hi \ {window[c].hi} \in Optional(Nat)
        /\ body.index \ {index[c]} \in Optional(Int)
    BY <2>1 DEF Fields, Optional
  <2>3. patch' \in [Patchers -> [id : Clips \cup {NoClip}, lo : Optional(Nat),
                                hi : Optional(Nat), index : Optional(Int)]]
    BY <1>6, <2>2 DEF PatchRead, TypeOK
  <2> QED  BY <1>6, <2>3 DEF PatchRead, TypeOK, rowVars, history
<1>7. ASSUME NEW p \in Patchers, PatchCommit(p) PROVE TypeOK'
  <2> DEFINE c == patch[p].id
             w == [lo |-> Given(patch[p].lo, window[c].lo),
                   hi |-> Given(patch[p].hi, window[c].hi)]
             i == Given(patch[p].index, index[c])
  <2>1. c \in Clips
    BY <1>7 DEF PatchCommit, Rows
  <2>2. /\ patch[p].lo \in Optional(Nat) /\ patch[p].hi \in Optional(Nat)
        /\ patch[p].index \in Optional(Int)
        /\ window[c].lo \in Nat /\ window[c].hi \in Nat /\ index[c] \in Int
    BY <2>1 DEF TypeOK
  <2>3. w \in [lo : Nat, hi : Nat] /\ i \in Int
    BY <2>2, GivenType
  <2>4. window' = [window EXCEPT ![c] = w] /\ index' = [index EXCEPT ![c] = i]
    BY <1>7 DEF PatchCommit
  <2>5. patch' \in [Patchers -> [id : Clips \cup {NoClip}, lo : Optional(Nat),
                                hi : Optional(Nat), index : Optional(Int)]]
    BY <1>0, <1>7 DEF PatchCommit, TypeOK, Idle
  <2>6. misled' \subseteq Clips /\ overtaken' \subseteq Patchers /\ skewed' \subseteq Clips
    BY <1>7 DEF PatchCommit, TypeOK, InFlight, Rows
  <2>7. window' \in [Clips -> [lo : Nat, hi : Nat]] /\ index' \in [Clips -> Int]
    <3> HIDE DEF c, w, i
    <3> QED  BY <2>3, <2>4 DEF TypeOK
  <2> QED  BY <1>7, <2>5, <2>6, <2>7 DEF PatchCommit, TypeOK
<1>8. ASSUME NEW p \in Patchers, PatchFails(p) PROVE TypeOK'
  BY <1>0, <1>8 DEF PatchFails, TypeOK, Idle, rowVars
<1>9. ASSUME NEW c \in Clips, Delete(c) PROVE TypeOK'
  BY <1>9 DEF Delete, Forget, TypeOK, NoWindow
<1>10. CASE UNCHANGED vars
  BY <1>10 DEF vars, rowVars, history, TypeOK
<1> QED  BY <1>1, <1>2, <1>3, <1>4, <1>5, <1>6, <1>7, <1>8, <1>9, <1>10
         DEF Next, UploadStep, PatchStep

LEMMA RowStep ==
    ASSUME TypeOK, RowInv, [Next]_vars
    PROVE  RowInv'
<1>0. PICK k \in Nat : \A c \in Clips : rowid[c] <= k /\ index[c] <= k
  BY DEF RowInv
<1>1. ASSUME NEW c \in Clips, ReadMax(c) \/ ReadPrev(c) \/ ReadNext(c) PROVE RowInv'
  <2>1. rowid' = rowid /\ index' = index
    BY <1>1 DEF ReadMax, ReadPrev, ReadNext, rowVars
  <2>2. \A b \in Clips : upload[b] = "done" => upload'[b] = "done"
    BY <1>1 DEF ReadMax, ReadPrev, ReadNext, TypeOK
  <2> QED  BY <2>1, <2>2 DEF RowInv
<1>2. ASSUME NEW c \in Clips, Insert(c) PROVE RowInv'
  <2> DEFINE m == Max({rowid[b] : b \in Clips})
             i == Place(seen[c])
             k2 == k + m + 1 + IF i > 0 THEN i ELSE 0
  <2>1. m \in Nat /\ \A b \in Clips : rowid[b] <= m
    BY NewRowid
  <2>2. i \in Int
    BY PlaceType
  <2>3. /\ rowid' = [rowid EXCEPT ![c] = m + 1]
        /\ index' = [index EXCEPT ![c] = i]
        /\ upload' = [upload EXCEPT ![c] = "done"]
    BY <1>2 DEF Insert
  <2>4. \A b \in Clips : rowid[b] \in Nat /\ index[b] \in Int
    BY RowTypes
  <2> HIDE DEF m, i
  <2>5. \A b \in Clips : rowid'[b] # 0 => upload'[b] = "done"
    BY <2>3 DEF RowInv, TypeOK
  <2>6. \A a, b \in Clips : rowid'[a] # 0 /\ rowid'[a] = rowid'[b] => a = b
    <3>1. rowid'[c] = m + 1 /\ \A b \in Clips : b # c => rowid'[b] = rowid[b]
      BY <2>3 DEF TypeOK
    <3>2. \A b \in Clips : rowid[b] # m + 1
      BY <2>1, <2>4
    <3> QED  BY <3>1, <3>2 DEF RowInv
  <2>7. k2 \in Nat /\ k2 >= k /\ k2 >= m + 1 /\ k2 >= i
    BY <2>1, <2>2
  <2>8. \A b \in Clips : rowid'[b] <= k2 /\ index'[b] <= k2
    <3> HIDE DEF k2
    <3>1. \A b \in Clips : \/ b = c /\ rowid'[b] = m + 1 /\ index'[b] = i
                           \/ rowid'[b] = rowid[b] /\ index'[b] = index[b]
      BY <2>3 DEF TypeOK
    <3> QED  BY <3>1, <1>0, <2>1, <2>2, <2>4, <2>7
  <2> HIDE DEF k2
  <2> QED  BY <2>5, <2>6, <2>7, <2>8 DEF RowInv
<1>3. ASSUME NEW c \in Clips, UploadFails(c) PROVE RowInv'
  BY <1>3 DEF UploadFails, RowInv, TypeOK
<1>4. ASSUME NEW p \in Patchers, NEW c \in Clips, NEW body \in Bodies, PatchRead(p, c, body)
      PROVE  RowInv'
  BY <1>4 DEF PatchRead, rowVars, RowInv
<1>5. ASSUME NEW p \in Patchers, PatchCommit(p) PROVE RowInv'
  <2> DEFINE c == patch[p].id
             i == Given(patch[p].index, index[c])
             k2 == k + IF i > 0 THEN i ELSE 0
  <2>1. c \in Clips
    BY <1>5 DEF PatchCommit, Rows
  <2>2. patch[p].index \in Optional(Int) /\ index[c] \in Int
    BY <2>1 DEF TypeOK
  <2>3. i \in Int
    BY <2>2, GivenType
  <2>4. index' = [index EXCEPT ![c] = i] /\ rowid' = rowid /\ upload' = upload
    BY <1>5 DEF PatchCommit
  <2>5. \A b \in Clips : rowid[b] \in Nat /\ index[b] \in Int
    BY RowTypes
  <2> HIDE DEF c, i
  <2>6. k2 \in Nat /\ k2 >= k /\ k2 >= i
    BY <2>3
  <2>7. \A b \in Clips : rowid'[b] <= k2 /\ index'[b] <= k2
    <3> HIDE DEF k2
    <3>1. \A b \in Clips : index'[b] = i \/ index'[b] = index[b]
      BY <2>4 DEF TypeOK
    <3> QED  BY <3>1, <1>0, <2>3, <2>4, <2>5, <2>6
  <2> HIDE DEF k2
  <2> QED  BY <2>4, <2>6, <2>7 DEF RowInv
<1>6. ASSUME NEW p \in Patchers, PatchFails(p) PROVE RowInv'
  BY <1>6 DEF PatchFails, rowVars, RowInv
<1>7. ASSUME NEW c \in Clips, Delete(c) PROVE RowInv'
  <2>1. /\ \A b \in Clips : rowid'[b] = IF b = c THEN 0 ELSE rowid[b]
        /\ \A b \in Clips : index'[b] = IF b = c THEN 0 ELSE index[b]
        /\ upload' = upload
    BY <1>7 DEF Delete, TypeOK
  <2>2. \A b \in Clips : rowid'[b] <= k /\ index'[b] <= k
    BY <1>0, <2>1
  <2> QED  BY <2>1, <2>2 DEF RowInv
<1>8. CASE UNCHANGED vars
  BY <1>8 DEF vars, rowVars, RowInv
<1> QED  BY <1>1, <1>2, <1>3, <1>4, <1>5, <1>6, <1>7, <1>8 DEF Next, UploadStep, PatchStep

-----------------------------------------------------------------------------
(* Where an upload is placed. *)

\* What an upload has read stays true while rows only go.
LEMMA SoundKept ==
    ASSUME TypeOK, NEW c \in Clips, Sound(c), Rows' \subseteq Rows,
           \A a \in Rows' : at'[a] = at[a] /\ index'[a] = index[a] /\ rowid'[a] = rowid[a],
           upload'[c] = upload[c], seen'[c] = seen[c], at'[c] = at[c]
    PROVE  Sound(c)'
<1>1. Orderly'
  BY DEF Sound, Orderly, Earlier
<1> QED  BY <1>1 DEF Sound

\* An index within the bounds read is between those of the neighbours.
LEMMA PlaceBetween ==
    ASSUME TypeOK, NEW c \in Clips, Sound(c), upload[c] = "placed", NEW a \in Rows
    PROVE  /\ at[a] <= at[c] => index[a] < Place(seen[c])
           /\ at[a] > at[c] => Place(seen[c]) < index[a]
<1>1. /\ seen[c].max \in Optional(Int)
      /\ seen[c].prev \in Optional(Int)
      /\ seen[c].next \in Optional(Int)
  BY DEF TypeOK
<1>2. Step \in Int /\ Step > 0
  BY StepAssumption
<1>3. at[a] \in Int /\ at[c] \in Int /\ index[a] \in Int
  BY RowTypes
<1>4. seen[c].max # {}
  BY DEF Sound
<1>5. CASE seen[c].next = {}
  <2>1. The(seen[c].max) \in seen[c].max /\ The(seen[c].max) \in Int
    BY <1>1, <1>4, OptionalFacts
  <2>2. index[a] <= The(seen[c].max) /\ at[a] <= at[c]
    BY <1>4, <1>5, <2>1 DEF Sound
  <2>3. Place(seen[c]) = The(seen[c].max) + Step
    BY <1>4, <1>5 DEF Place
  <2> QED  BY <1>2, <1>3, <2>1, <2>2, <2>3
<1>6. CASE seen[c].next # {} /\ seen[c].prev = {}
  <2>1. The(seen[c].next) \in seen[c].next /\ The(seen[c].next) \in Int
    BY <1>1, <1>6, OptionalFacts
  <2>2. at[a] > at[c]
    BY <1>4, <1>6 DEF Sound
  <2>3. index[a] >= The(seen[c].next)
    BY <1>4, <2>1, <2>2 DEF Sound
  <2>4. Place(seen[c]) = The(seen[c].next) - Step
    BY <1>4, <1>6 DEF Place
  <2> QED  BY <1>2, <1>3, <2>1, <2>2, <2>3, <2>4
<1>7. CASE seen[c].next # {} /\ seen[c].prev # {}
  <2> DEFINE p == The(seen[c].prev)
             n == The(seen[c].next)
  <2>1. p \in seen[c].prev /\ n \in seen[c].next /\ p \in Int /\ n \in Int
    BY <1>1, <1>7, OptionalFacts
  <2>2. n - p > 1
    BY <1>4, <2>1 DEF Sound
  <2>3. at[a] <= at[c] => index[a] <= p
    BY <1>4, <2>1 DEF Sound
  <2>4. at[a] > at[c] => index[a] >= n
    BY <1>4, <2>1 DEF Sound
  <2>5. Place(seen[c]) = (p + n) \div 2
    BY <1>4, <1>7 DEF Place
  <2> HIDE DEF p, n
  <2>6. p < (p + n) \div 2 /\ (p + n) \div 2 < n /\ (p + n) \div 2 \in Int
    BY <2>1, <2>2
  <2> QED  BY <1>3, <2>1, <2>3, <2>4, <2>5, <2>6
<1> QED  BY <1>5, <1>6, <1>7

\* Clips that have no row keep what other uploads have read.
LEMMA PlaceStep ==
    ASSUME TypeOK, RowInv, PlaceInv, [Next]_vars
    PROVE  PlaceInv'
<1>0. \A c \in InFlight : c \in Clips /\ c \notin Rows
  BY DEF InFlight, Rows, RowInv
<1>1. ASSUME NEW c \in Clips, ReadMax(c) PROVE PlaceInv'
  <2>1. /\ c \notin Rows /\ Rows' = Rows /\ misled \subseteq misled'
        /\ \A b \in Clips \ {c} : /\ at'[b] = at[b] /\ seen'[b] = seen[b]
                                  /\ upload'[b] = upload[b]
        /\ rowid' = rowid /\ index' = index
    BY <1>1 DEF ReadMax, Rows, RowInv, TypeOK
  <2>2. ASSUME NEW b \in InFlight' \ misled', b # c PROVE Sound(b)'
    <3>1. b \in InFlight \ misled /\ b \in Clips
      BY <2>1, <2>2 DEF InFlight
    <3>2. Sound(b)
      BY <3>1 DEF PlaceInv
    <3> QED  BY <2>1, <2>2, <3>1, <3>2, SoundKept DEF Rows
  <2>3. ASSUME c \notin misled' PROVE Sound(c)'
    <3>1. Orderly
      BY <1>1, <2>3 DEF ReadMax
    <3>2. Orderly'
      BY <2>1, <3>1 DEF Orderly, Earlier, Rows
    <3>3. seen'[c].max = MaxIndex
      BY <1>1 DEF ReadMax, TypeOK
    <3>4. upload'[c] = "placed" => MaxIndex = {}
      BY <1>1 DEF ReadMax, TypeOK, MaxIndex
    <3>5. upload'[c] # "between"
      BY <1>1 DEF ReadMax, TypeOK
    <3>6. /\ MaxIndex = {} => Rows = {}
          /\ \A m \in MaxIndex, a \in Rows : index[a] <= m
      BY MaxIndexFacts
    <3> QED  BY <2>1, <3>2, <3>3, <3>4, <3>5, <3>6 DEF Sound
  <2> QED  BY <2>2, <2>3 DEF PlaceInv
<1>2. ASSUME NEW c \in Clips, ReadPrev(c) PROVE PlaceInv'
  <2>1. /\ Rows' = Rows /\ misled' = misled /\ at' = at /\ rowid' = rowid /\ index' = index
        /\ \A b \in Clips \ {c} : seen'[b] = seen[b] /\ upload'[b] = upload[b]
        /\ upload[c] = "maxed" /\ upload'[c] = "between"
        /\ seen'[c].max = seen[c].max
        /\ seen'[c].prev = {index[p] : p \in Before(at[c])}
    BY <1>2 DEF ReadPrev, Rows, TypeOK, rowVars, history
  <2>2. ASSUME NEW b \in InFlight' \ misled', b # c PROVE Sound(b)'
    <3>1. b \in InFlight \ misled /\ b \in Clips
      BY <2>1, <2>2 DEF InFlight
    <3>2. Sound(b)
      BY <3>1 DEF PlaceInv
    <3> QED  BY <2>1, <2>2, <3>1, <3>2, SoundKept
  <2>3. ASSUME c \notin misled' PROVE Sound(c)'
    <3>1. Sound(c)
      BY <2>1, <2>3 DEF PlaceInv, InFlight
    <3>2. Orderly /\ Orderly'
      BY <2>1, <3>1 DEF Sound, Orderly, Earlier, Rows
    <3>3. \A q \in Rows : at[q] \in Int /\ rowid[q] \in Nat /\ index[q] \in Int
      BY RowTypes
    <3>4. at[c] \in Int
      BY RowTypes
    <3>5. ASSUME NEW p \in Before(at[c]), NEW a \in Rows, at[a] <= at[c]
          PROVE  index[a] <= index[p]
      <4>1. p \in Rows
        BY DEF Before
      <4>2. at[a] < at[p] \/ (at[a] = at[p] /\ rowid[a] <= rowid[p])
        BY <3>5 DEF Before
      <4>3. CASE Earlier(a, p)
        BY <3>2, <3>3, <4>1, <4>3 DEF Orderly
      <4>4. CASE at[a] = at[p] /\ rowid[a] = rowid[p]
        BY <3>3, <4>1, <4>4, RowidsDiffer
      <4> QED  BY <3>3, <4>1, <4>2, <4>3, <4>4 DEF Earlier
    <3>6. ASSUME NEW p \in Before(at[c]), NEW a \in Rows, at[a] > at[c]
          PROVE  index[p] < index[a]
      <4>1. p \in Rows /\ at[p] <= at[c]
        BY DEF Before
      <4>2. Earlier(p, a)
        BY <3>3, <3>4, <3>6, <4>1 DEF Earlier
      <4> QED  BY <3>2, <4>1, <4>2 DEF Orderly
    <3>8. \A p \in seen'[c].prev, a \in Rows :
             IF at[a] <= at[c] THEN index[a] <= p ELSE p < index[a]
      BY <2>1, <3>3, <3>4, <3>5, <3>6
    <3>7. seen'[c].prev = {} => \A a \in Rows : at[a] > at[c]
      <4>1. Before(at[c]) = {} => \A a \in Rows : at[a] > at[c]
        BY <3>4, BeforeFacts
      <4> QED  BY <2>1, <4>1
    <3> QED  BY <2>1, <3>1, <3>2, <3>7, <3>8 DEF Sound
  <2> QED  BY <2>2, <2>3 DEF PlaceInv
<1>3. ASSUME NEW c \in Clips, ReadNext(c) PROVE PlaceInv'
  <2>1. /\ Rows' = Rows /\ misled \subseteq misled' /\ at' = at /\ rowid' = rowid
        /\ index' = index
        /\ \A b \in Clips \ {c} : seen'[b] = seen[b] /\ upload'[b] = upload[b]
        /\ upload[c] = "between" /\ upload'[c] = "placed"
        /\ seen'[c].max = seen[c].max /\ seen'[c].prev = seen[c].prev
        /\ seen'[c].next = {index[n] : n \in After(at[c])}
    BY <1>3 DEF ReadNext, Rows, TypeOK, rowVars
  <2>2. ASSUME NEW b \in InFlight' \ misled', b # c PROVE Sound(b)'
    <3>1. b \in InFlight \ misled /\ b \in Clips
      BY <2>1, <2>2 DEF InFlight
    <3>2. Sound(b)
      BY <3>1 DEF PlaceInv
    <3> QED  BY <2>1, <2>2, <3>1, <3>2, SoundKept
  <2>3. ASSUME c \notin misled' PROVE Sound(c)'
    <3>1. Sound(c)
      BY <2>1, <2>3 DEF PlaceInv, InFlight
    <3>2. Orderly /\ Orderly'
      BY <2>1, <3>1 DEF Sound, Orderly, Earlier, Rows
    <3>3. \A q \in Rows : at[q] \in Int /\ rowid[q] \in Nat /\ index[q] \in Int
      BY RowTypes
    <3>4. at[c] \in Int
      BY RowTypes
    <3>5. ASSUME NEW n \in After(at[c]), NEW a \in Rows, at[a] > at[c]
          PROVE  index[a] >= index[n]
      <4>1. n \in Rows
        BY DEF After
      <4>2. at[a] > at[n] \/ (at[a] = at[n] /\ rowid[a] >= rowid[n])
        BY <3>5 DEF After
      <4>3. CASE Earlier(n, a)
        BY <3>2, <3>3, <4>1, <4>3 DEF Orderly
      <4>4. CASE at[a] = at[n] /\ rowid[a] = rowid[n]
        BY <3>3, <4>1, <4>4, RowidsDiffer
      <4> QED  BY <3>3, <4>1, <4>2, <4>3, <4>4 DEF Earlier
    <3>6. \A n \in seen'[c].next, a \in Rows : at[a] > at[c] => index[a] >= n
      BY <2>1, <3>5
    <3>7. seen'[c].next = {} => \A a \in Rows : at[a] <= at[c]
      <4>1. After(at[c]) = {} => \A a \in Rows : at[a] <= at[c]
        BY <3>4, AfterFacts
      <4> QED  BY <2>1, <4>1
    <3>8. \A p \in seen'[c].prev, n \in seen'[c].next : n - p > 1
      <4> SUFFICES ASSUME NEW p \in seen[c].prev, NEW b \in After(at[c])
                   PROVE  index[b] - p > 1
        BY <2>1
      <4>1. b \in Rows /\ at[b] > at[c]
        BY DEF After
      <4>2. seen[c].max # {}
        BY <3>1, <4>1 DEF Sound
      <4>3. p < index[b]
        BY <2>1, <3>1, <3>3, <3>4, <4>1, <4>2 DEF Sound
      <4>4. index[b] - p # 1
        BY <1>3, <2>1, <2>3 DEF ReadNext
      <4>5. p \in Int
        BY DEF TypeOK, Optional
      <4> QED  BY <3>3, <4>1, <4>3, <4>4, <4>5
    <3> QED  BY <2>1, <3>1, <3>2, <3>6, <3>7, <3>8 DEF Sound
  <2> QED  BY <2>2, <2>3 DEF PlaceInv
<1>4. ASSUME NEW c \in Clips, Insert(c) PROVE PlaceInv'
  <2>1. InFlight' = InFlight \ {c}
    BY <1>4 DEF Insert, InFlight, TypeOK
  <2>2. InFlight' \subseteq misled'
    BY <1>4, <2>1 DEF Insert
  <2> QED  BY <2>2 DEF PlaceInv
<1>5. ASSUME NEW c \in Clips, UploadFails(c) PROVE PlaceInv'
  <2>1. /\ c \notin Rows /\ Rows' = Rows /\ misled' = misled \ {c}
        /\ \A b \in Clips \ {c} : /\ at'[b] = at[b] /\ seen'[b] = seen[b]
                                  /\ upload'[b] = upload[b]
        /\ rowid' = rowid /\ index' = index /\ upload'[c] = "done"
    BY <1>0, <1>5 DEF UploadFails, Forget, Rows, TypeOK
  <2>2. ASSUME NEW b \in InFlight' \ misled' PROVE Sound(b)'
    <3>1. b # c /\ b \in InFlight \ misled /\ b \in Clips
      BY <2>1, <2>2 DEF InFlight
    <3>2. Sound(b)
      BY <3>1 DEF PlaceInv
    <3> QED  BY <2>1, <3>1, <3>2, SoundKept DEF Rows
  <2> QED  BY <2>2 DEF PlaceInv
<1>6. ASSUME UNCHANGED <<rowid, at, index, upload, seen, misled>> PROVE PlaceInv'
  BY <1>6 DEF PlaceInv, InFlight, Sound, Orderly, Earlier, Rows
<1>7. ASSUME NEW p \in Patchers, PatchCommit(p) PROVE PlaceInv'
  <2>1. CASE patch[p].index = {}
    <3>1. index' = index /\ misled' = misled
      BY <1>7, <2>1 DEF PatchCommit, Given, TypeOK
    <3> QED  BY <1>6, <1>7, <3>1 DEF PatchCommit
  <2>2. CASE patch[p].index # {}
    BY <1>7, <2>2 DEF PatchCommit, PlaceInv, InFlight
  <2> QED  BY <2>1, <2>2
<1>8. ASSUME NEW c \in Clips, Delete(c) PROVE PlaceInv'
  <2>1. /\ c \in Rows /\ Rows' = Rows \ {c} /\ misled' = misled
        /\ \A b \in Clips \ {c} : /\ at'[b] = at[b] /\ rowid'[b] = rowid[b]
                                  /\ index'[b] = index[b]
        /\ seen' = seen /\ upload' = upload
    BY <1>8 DEF Delete, Forget, Rows, TypeOK
  <2>2. ASSUME NEW b \in InFlight' \ misled' PROVE Sound(b)'
    <3>1. b # c /\ b \in InFlight \ misled /\ b \in Clips
      BY <1>0, <2>1, <2>2 DEF InFlight
    <3>2. Sound(b)
      BY <3>1 DEF PlaceInv
    <3> QED  BY <2>1, <3>1, <3>2, SoundKept DEF Rows
  <2> QED  BY <2>2 DEF PlaceInv
<1>9. ASSUME NEW p \in Patchers,
             PatchFails(p) \/ (\E c \in Clips, body \in Bodies : PatchRead(p, c, body))
      PROVE  PlaceInv'
  BY <1>6, <1>9 DEF PatchFails, PatchRead, rowVars, history
<1>10. CASE UNCHANGED vars
  BY <1>6, <1>10 DEF vars, rowVars, history
<1> QED  BY <1>1, <1>2, <1>3, <1>4, <1>5, <1>7, <1>8, <1>9, <1>10
         DEF Next, UploadStep, PatchStep

-----------------------------------------------------------------------------
(* The windows. *)

\* A step that leaves the windows, and the clips and patches they concern.
LEMMA WindowsKept ==
    ASSUME TypeOK, PatchInv, patch' = patch, overtaken' = overtaken, skewed' = skewed,
           \A b \in Clips : upload[b] = "done" =>
              /\ upload'[b] = "done" /\ rowid'[b] = rowid[b]
              /\ window'[b] = window[b] /\ duration'[b] = duration[b],
           \A b \in Rows' : upload[b] = "done" \/ ValidTrim(window[b], duration[b])'
                                \/ (duration[b] = 0 /\ window[b] = NoWindow)',
           RowInv
    PROVE  PatchInv'
<1>1. ASSUME NEW p \in Patchers, patch'[p].id # NoClip
      PROVE  /\ upload'[patch'[p].id] = "done"
             /\ rowid'[patch'[p].id] # 0 /\ p \notin overtaken'
                   => ValidTrim(Merged(p), duration[patch[p].id])'
  <2> DEFINE c == patch[p].id
  <2>1. c \in Clips /\ upload[c] = "done"
    BY <1>1 DEF PatchInv, TypeOK
  <2>2. rowid[c] # 0 /\ p \notin overtaken => ValidTrim(Merged(p), duration[c])
    BY <1>1 DEF PatchInv
  <2>3. upload'[c] = "done" /\ rowid'[c] = rowid[c] /\ window'[c] = window[c]
        /\ duration'[c] = duration[c]
    BY <2>1
  <2>4. Merged(p)' = Merged(p)
    BY <2>3 DEF Merged
  <2> QED  BY <2>2, <2>3, <2>4 DEF ValidTrim
<1>2. WindowsHold'
  <2> SUFFICES ASSUME NEW b \in Rows', b \notin skewed'
               PROVE  ValidTrim(window[b], duration[b])' \/ (duration[b] = 0 /\ window[b] = NoWindow)'
    BY DEF WindowsHold
  <2>1. CASE upload[b] = "done"
    <3>1. b \in Clips /\ rowid'[b] # 0
      BY DEF Rows
    <3>2. b \in Rows \ skewed
      BY <2>1, <3>1 DEF Rows
    <3>3. ValidTrim(window[b], duration[b]) \/ (duration[b] = 0 /\ window[b] = NoWindow)
      BY <3>2 DEF PatchInv, WindowsHold
    <3> QED  BY <2>1, <3>1, <3>3 DEF ValidTrim, NoWindow
  <2> QED  BY <2>1
<1> QED  BY <1>1, <1>2 DEF PatchInv

\* Checking the body against the row is checking what the patch leads to.
LEMMA CheckIsMerge ==
    ASSUME NEW S, NEW T \in Optional(S), NEW v
    PROVE  Given(T \ {v}, v) = Given(T, v)
<1>1. CASE T = {}
  BY <1>1 DEF Given
<1>2. CASE T # {}
  <2>1. T = {The(T)}
    BY <1>2, OptionalFacts
  <2>2. CASE The(T) = v
    <3>1. T \ {v} = {}
      BY <2>1, <2>2
    <3> QED  BY <1>2, <2>2, <3>1 DEF Given
  <2>3. CASE The(T) # v
    <3>1. T \ {v} = T
      BY <2>1, <2>3
    <3> QED  BY <3>1
  <2> QED  BY <2>2, <2>3
<1> QED  BY <1>1, <1>2

LEMMA PatchStepInv ==
    ASSUME TypeOK, RowInv, PatchInv, [Next]_vars
    PROVE  PatchInv'
<1>1. ASSUME NEW c \in Clips, ReadMax(c) \/ ReadPrev(c) \/ ReadNext(c) \/ UploadFails(c)
      PROVE  PatchInv'
  <2>1. /\ patch' = patch /\ overtaken' = overtaken /\ skewed' = skewed
        /\ rowid' = rowid /\ window' = window /\ upload[c] # "done"
        /\ \A b \in Clips \ {c} : upload'[b] = upload[b] /\ duration'[b] = duration[b]
    BY <1>1 DEF ReadMax, ReadPrev, ReadNext, UploadFails, InFlight, Forget, rowVars, history,
                TypeOK
  <2>2. \A b \in Rows' : upload[b] = "done"
    BY <2>1 DEF RowInv, Rows
  <2> QED  BY <2>1, <2>2, WindowsKept
<1>2. ASSUME NEW c \in Clips, Insert(c) PROVE PatchInv'
  <2>1. /\ patch' = patch /\ overtaken' = overtaken /\ skewed' = skewed
        /\ upload[c] # "done" /\ duration' = duration
        /\ \A b \in Clips \ {c} : /\ upload'[b] = upload[b] /\ rowid'[b] = rowid[b]
                                  /\ window'[b] = window[b]
        /\ window'[c] = [lo |-> 0, hi |-> duration[c]]
    BY <1>2 DEF Insert, TypeOK
  <2>2. ValidTrim(window[c], duration[c])' \/ (duration[c] = 0 /\ window[c] = NoWindow)'
    <3>1. duration[c] \in Nat
      BY DEF TypeOK
    <3> QED  BY <2>1, <3>1 DEF ValidTrim, NoWindow
  <2>3. \A b \in Rows' : b = c \/ upload[b] = "done"
    BY <2>1 DEF RowInv, Rows
  <2> QED  BY <2>1, <2>2, <2>3, WindowsKept
<1>3. ASSUME NEW p \in Patchers, NEW c \in Clips, NEW body \in Bodies, PatchRead(p, c, body)
      PROVE  PatchInv'
  <2>1. /\ rowid' = rowid /\ window' = window /\ duration' = duration /\ upload' = upload
        /\ overtaken' = overtaken /\ skewed' = skewed
        /\ c \in Rows
        /\ \A q \in Patchers \ {p} : patch'[q] = patch[q]
        /\ patch'[p] = [id |-> c, lo |-> body.lo \ {window[c].lo},
                        hi |-> body.hi \ {window[c].hi}, index |-> body.index \ {index[c]}]
    BY <1>3 DEF PatchRead, TypeOK, rowVars, history
  <2>2. upload[c] = "done"
    BY <2>1 DEF RowInv, Rows
  <2>3. body.lo \in Optional(Nat) /\ body.hi \in Optional(Nat)
    BY BodiesAssumption DEF Fields
  <2>4. /\ Given(body.lo \ {window[c].lo}, window[c].lo) = Given(body.lo, window[c].lo)
        /\ Given(body.hi \ {window[c].hi}, window[c].hi) = Given(body.hi, window[c].hi)
    BY <2>3, CheckIsMerge
  <2>5. Merged(p)' = [lo |-> Given(body.lo, window[c].lo), hi |-> Given(body.hi, window[c].hi)]
    BY <2>1, <2>4 DEF Merged
  <2>6. ValidTrim(Merged(p), duration[patch[p].id])'
    BY <1>3, <2>1, <2>5 DEF PatchRead, ValidTrim
  <2>7. ASSUME NEW q \in Patchers \ {p}, patch'[q].id # NoClip
        PROVE  /\ upload'[patch'[q].id] = "done"
               /\ rowid'[patch'[q].id] # 0 /\ q \notin overtaken'
                     => ValidTrim(Merged(q), duration[patch[q].id])'
    BY <2>1, <2>7 DEF PatchInv, Merged, ValidTrim
  <2>8. WindowsHold'
    BY <2>1 DEF PatchInv, WindowsHold, Rows, ValidTrim
  <2> QED  BY <2>1, <2>2, <2>6, <2>7, <2>8 DEF PatchInv
<1>4. ASSUME NEW p \in Patchers, PatchCommit(p) PROVE PatchInv'
  <2>0. PICK c : c = patch[p].id
    OBVIOUS
  <2>1. c \in Rows /\ c \in Clips
    BY <1>4, <2>0 DEF PatchCommit, Rows
  <2>2. c # NoClip
    BY <2>1, NoClipAssumption
  <2>3. /\ rowid' = rowid /\ duration' = duration /\ upload' = upload
        /\ window'[c] = Merged(p) /\ \A b \in Clips \ {c} : window'[b] = window[b]
        /\ patch'[p] = Idle /\ \A q \in Patchers \ {p} : patch'[q] = patch[q]
        /\ skewed' = IF p \in overtaken THEN skewed \cup {c} ELSE skewed
        /\ overtaken \ {p} \subseteq overtaken'
        /\ window'[c] # window[c] => {q \in Patchers \ {p} : patch[q].id = c} \subseteq overtaken'
    BY <1>4, <2>0, <2>1 DEF PatchCommit, TypeOK, Merged
  <2>4. p \notin overtaken => ValidTrim(Merged(p), duration[c])
    BY <2>0, <2>1, <2>2 DEF PatchInv, Rows
  <2>5. ASSUME NEW q \in Patchers, patch'[q].id # NoClip
        PROVE  /\ upload'[patch'[q].id] = "done"
               /\ rowid'[patch'[q].id] # 0 /\ q \notin overtaken'
                     => ValidTrim(Merged(q), duration[patch[q].id])'
    <3>1. q # p /\ patch'[q] = patch[q]
      BY <2>3, <2>5 DEF Idle
    <3>2. PICK d : d = patch[q].id
      OBVIOUS
    <3>3. d \in Clips
      BY <2>5, <3>1, <3>2 DEF TypeOK
    <3>4. /\ upload[d] = "done"
          /\ rowid[d] # 0 /\ q \notin overtaken => ValidTrim(Merged(q), duration[d])
      BY <2>5, <3>1, <3>2 DEF PatchInv
    <3>5. q \notin overtaken' => q \notin overtaken /\ window'[d] = window[d]
      BY <2>3, <3>1, <3>2, <3>3
    <3>6. q \notin overtaken' => Merged(q)' = Merged(q)
      BY <3>1, <3>2, <3>5 DEF Merged
    <3> QED  BY <2>3, <3>1, <3>2, <3>4, <3>5, <3>6 DEF ValidTrim
  <2>6. WindowsHold'
    <3> SUFFICES ASSUME NEW b \in Rows', b \notin skewed'
                 PROVE  \/ ValidTrim(window[b], duration[b])'
                        \/ (duration[b] = 0 /\ window[b] = NoWindow)'
      BY DEF WindowsHold
    <3>1. b \in Rows /\ b \in Clips /\ b \notin skewed
      BY <2>3 DEF Rows
    <3>2. CASE b = c
      BY <2>3, <2>4, <3>2 DEF ValidTrim
    <3>3. CASE b # c
      <4>1. ValidTrim(window[b], duration[b]) \/ (duration[b] = 0 /\ window[b] = NoWindow)
        BY <3>1 DEF PatchInv, WindowsHold
      <4>2. window'[b] = window[b] /\ duration'[b] = duration[b]
        BY <2>3, <3>1, <3>3
      <4> QED  BY <4>1, <4>2 DEF ValidTrim, NoWindow
    <3> QED  BY <3>2, <3>3
  <2> QED  BY <2>5, <2>6 DEF PatchInv
<1>5. ASSUME NEW p \in Patchers, PatchFails(p) PROVE PatchInv'
  <2>1. /\ rowid' = rowid /\ window' = window /\ duration' = duration /\ upload' = upload
        /\ skewed' = skewed /\ overtaken' = overtaken \ {p}
        /\ patch'[p] = Idle /\ \A q \in Patchers \ {p} : patch'[q] = patch[q]
    BY <1>5 DEF PatchFails, TypeOK, rowVars
  <2>2. WindowsHold'
    BY <2>1 DEF PatchInv, WindowsHold, Rows, ValidTrim
  <2>3. ASSUME NEW q \in Patchers, patch'[q].id # NoClip
        PROVE  /\ upload'[patch'[q].id] = "done"
               /\ rowid'[patch'[q].id] # 0 /\ q \notin overtaken'
                     => ValidTrim(Merged(q), duration[patch[q].id])'
    <3>1. q # p /\ patch'[q] = patch[q]
      BY <2>1, <2>3 DEF Idle
    <3> QED  BY <2>1, <2>3, <3>1 DEF PatchInv, Merged, ValidTrim
  <2> QED  BY <2>2, <2>3 DEF PatchInv
<1>6. ASSUME NEW c \in Clips, Delete(c) PROVE PatchInv'
  <2>1. /\ patch' = patch /\ overtaken' = overtaken /\ upload' = upload
        /\ rowid'[c] = 0 /\ skewed \ {c} \subseteq skewed'
        /\ \A b \in Clips \ {c} : /\ rowid'[b] = rowid[b] /\ window'[b] = window[b]
                                  /\ duration'[b] = duration[b]
    BY <1>6 DEF Delete, Forget, TypeOK
  <2>2. ASSUME NEW q \in Patchers, patch'[q].id # NoClip
        PROVE  /\ upload'[patch'[q].id] = "done"
               /\ rowid'[patch'[q].id] # 0 /\ q \notin overtaken'
                     => ValidTrim(Merged(q), duration[patch[q].id])'
    <3>1. PICK d : d = patch[q].id
      OBVIOUS
    <3>2. d \in Clips /\ upload[d] = "done"
      BY <2>1, <2>2, <3>1 DEF TypeOK, PatchInv
    <3>3. rowid[d] # 0 /\ q \notin overtaken => ValidTrim(Merged(q), duration[d])
      BY <2>1, <2>2, <3>1 DEF PatchInv
    <3>4. d # c => /\ rowid'[d] = rowid[d] /\ duration'[d] = duration[d]
                   /\ Merged(q)' = Merged(q)
      BY <2>1, <3>1, <3>2 DEF Merged
    <3> QED  BY <2>1, <3>1, <3>2, <3>3, <3>4 DEF ValidTrim
  <2>3. WindowsHold'
    <3> SUFFICES ASSUME NEW b \in Rows', b \notin skewed'
                 PROVE  \/ ValidTrim(window[b], duration[b])'
                        \/ (duration[b] = 0 /\ window[b] = NoWindow)'
      BY DEF WindowsHold
    <3>1. b # c /\ b \in Rows /\ b \in Clips /\ b \notin skewed
      BY <2>1 DEF Rows
    <3>2. ValidTrim(window[b], duration[b]) \/ (duration[b] = 0 /\ window[b] = NoWindow)
      BY <3>1 DEF PatchInv, WindowsHold
    <3> QED  BY <2>1, <3>1, <3>2 DEF ValidTrim, NoWindow
  <2> QED  BY <2>2, <2>3 DEF PatchInv
<1>7. CASE UNCHANGED vars
  BY <1>7 DEF vars, rowVars, history, PatchInv, WindowsHold, Rows, Merged, ValidTrim
<1> QED  BY <1>1, <1>2, <1>3, <1>4, <1>5, <1>6, <1>7 DEF Next, UploadStep, PatchStep

-----------------------------------------------------------------------------
(* The theorems. *)

LEMMA TimelineInvariant == Spec => []IInv
<1>1. IInv /\ [Next]_vars => IInv'
  BY TypeStep, RowStep, PlaceStep, PatchStepInv DEF IInv
<1> QED  BY InitInv, <1>1, PTL DEF Spec

\* Every variable has its type, the reads of uploads and patches included: a
\* query for a neighbour never returns two rows.
THEOREM TimelineTypes == Spec => []TypeOK
<1>1. IInv => TypeOK
  BY DEF IInv
<1> QED  BY TimelineInvariant, <1>1, PTL

\* The row an upload that was not misled inserts leaves the library sorted.
LEMMA PlacedStep ==
    ASSUME TypeOK, RowInv, PlaceInv, [Next]_vars,
           NEW c \in Clips \ misled, rowid[c] = 0, rowid'[c] # 0
    PROVE  Orderly'
<1>1. Insert(c)
  BY DEF Next, UploadStep, PatchStep, ReadMax, ReadPrev, ReadNext, Insert,
              UploadFails, PatchRead, PatchCommit, PatchFails, Delete, vars, rowVars,
              TypeOK
<1>2. upload[c] = "placed" /\ c \in InFlight \ misled
  BY <1>1 DEF Insert, InFlight
<1>3. Sound(c)
  BY <1>2 DEF PlaceInv
<1>4. /\ Rows' = Rows \cup {c} /\ at' = at
      /\ rowid'[c] = Max({rowid[b] : b \in Clips}) + 1 /\ index'[c] = Place(seen[c])
      /\ \A b \in Rows : b # c /\ rowid'[b] = rowid[b] /\ index'[b] = index[b]
  BY <1>1 DEF Insert, Rows, TypeOK
<1>5. \A b \in Rows : rowid[b] < rowid'[c]
  BY <1>4, NewRowid, RowTypes
<1>6. \A b \in Rows : /\ at[b] \in Int /\ at[c] \in Int
                      /\ rowid[b] \in Nat /\ rowid'[c] \in Nat
  BY <1>4, NewRowid, RowTypes
<1> SUFFICES ASSUME NEW a \in Rows', NEW b \in Rows', Earlier(a, b)'
             PROVE  index'[a] < index'[b]
  BY DEF Orderly
<1>7. CASE a \in Rows /\ b \in Rows
  BY <1>3, <1>4, <1>7 DEF Sound, Orderly, Earlier
<1>8. CASE a \in Rows /\ b = c
  <2>1. at[a] <= at[c]
    BY <1>4, <1>6, <1>8 DEF Earlier
  <2> QED  BY <1>2, <1>3, <1>4, <1>8, <2>1, PlaceBetween
<1>9. CASE a = c /\ b \in Rows
  <2>1. at[b] > at[c]
    <3>1. rowid'[b] = rowid[b] /\ rowid[b] < rowid'[c]
      BY <1>4, <1>5, <1>9
    <3>2. at[b] \in Int /\ at[c] \in Int /\ rowid[b] \in Nat /\ rowid'[c] \in Nat
      BY <1>6, <1>9
    <3>3. at[c] < at[b] \/ rowid'[c] < rowid'[b]
      BY <1>4, <1>9 DEF Earlier
    <3> QED  BY <3>1, <3>2, <3>3
  <2> QED  BY <1>2, <1>3, <1>4, <1>9, <2>1, PlaceBetween
<1>10. CASE a = c /\ b = c
  <2>1. at[c] \in Int /\ rowid'[c] \in Int
    BY <1>4, NewRowid, RowTypes
  <2> QED  BY <1>4, <1>10, <2>1 DEF Earlier
<1> QED  BY <1>4, <1>7, <1>8, <1>9, <1>10

\* Where the clocks have one offset, they differ as the moments do.
LEMMA ClocksTell == TypeOK /\ Orderly => Chronological
<1> SUFFICES ASSUME TypeOK, Orderly, NEW a \in Rows, NEW b \in Rows,
                    zone[a] = zone[b], Moment(a) < Moment(b)
             PROVE  index[a] < index[b]
  BY DEF Chronological
<1>1. at[a] \in Int /\ at[b] \in Int /\ zone[a] \in Int
  BY DEF TypeOK, Rows
<1>2. at[a] < at[b]
  BY <1>1 DEF Moment
<1> QED  BY <1>2 DEF Orderly, Earlier

\* The same after a step.
LEMMA ClocksTellNext ==
    ASSUME TypeOK', Orderly'
    PROVE  Chronological'
<1> SUFFICES ASSUME NEW a \in Rows', NEW b \in Rows',
                    zone'[a] = zone'[b], Moment(a)' < Moment(b)'
             PROVE  index'[a] < index'[b]
  BY DEF Chronological
<1>1. at'[a] \in Int /\ at'[b] \in Int /\ zone'[a] \in Int
  BY DEF TypeOK, Rows
<1>2. at'[a] < at'[b]
  BY <1>1 DEF Moment
<1> QED  BY <1>2 DEF Orderly, Earlier

Placed ==
    \A c \in Clips \ misled :
        rowid[c] = 0 /\ rowid'[c] # 0 /\ Orderly => Orderly' /\ Chronological'

\* _assign_sort_index: an upload that nothing overtakes keeps a library sorted
\* that is sorted by what the clocks showed, whatever is deleted between its reads;
\* and then clips of one offset are in chronological order.
THEOREM Placement == Spec => PlacedInOrder
<1>1. TypeOK /\ [Next]_vars /\ RowInv => TypeOK'
  BY TypeStep
<1>2. IInv /\ [Next]_vars => [Placed]_vars
  BY <1>1, ClocksTellNext, PlacedStep DEF IInv, Placed
<1> QED  BY TimelineInvariant, <1>2, PTL DEF Spec, PlacedInOrder, Placed

\* A library whose uploads come one at a time, whose PATCHes only trim, and in
\* which the neighbours of an upload leave a number between them.
Quiet ==
    /\ \A c, d \in InFlight : c = d
    /\ \A p \in Patchers : patch[p].index = {}
    /\ \A c \in Clips : upload[c] = "placed" =>
          \A p \in seen[c].prev, n \in seen[c].next : n - p # 1

\* One step of a quiet library.
LEMMA QuietStep ==
    ASSUME TypeOK, RowInv, PlaceInv, Quiet, Quiet', Orderly, misled = {}, [Next]_vars
    PROVE  Orderly' /\ misled' = {}
<1>1. ASSUME NEW c \in Clips, ReadMax(c) PROVE Orderly' /\ misled' = {}
  <2>1. c \notin Rows /\ Rows' = Rows /\ \A b \in Rows : at'[b] = at[b]
    BY <1>1 DEF ReadMax, RowInv, Rows, TypeOK
  <2> QED  BY <1>1, <2>1 DEF ReadMax, Orderly, Earlier
<1>2. ASSUME NEW c \in Clips, ReadPrev(c) PROVE Orderly' /\ misled' = {}
  BY <1>2 DEF ReadPrev, rowVars, history, Orderly, Earlier, Rows
<1>3. ASSUME NEW c \in Clips, ReadNext(c) PROVE Orderly' /\ misled' = {}
  <2>1. upload'[c] = "placed" /\ seen'[c].prev = seen[c].prev
    BY <1>3 DEF ReadNext, TypeOK
  <2>2. \A p \in seen[c].prev, n \in seen'[c].next : n - p # 1
    BY <2>1 DEF Quiet
  <2> QED  BY <1>3, <2>2 DEF ReadNext, rowVars, Orderly, Earlier, Rows
<1>4. ASSUME NEW c \in Clips, Insert(c) PROVE Orderly' /\ misled' = {}
  <2>1. c \in InFlight /\ rowid[c] = 0
    BY <1>4 DEF Insert, InFlight, RowInv
  <2>2. rowid'[c] # 0
    BY <1>4, NewRowid DEF Insert, TypeOK
  <2>3. Orderly'
    BY <2>1, <2>2, PlacedStep
  <2>4. InFlight \subseteq {c}
    BY <2>1 DEF Quiet
  <2> QED  BY <1>4, <2>3, <2>4 DEF Insert
<1>5. ASSUME NEW c \in Clips, UploadFails(c) PROVE Orderly' /\ misled' = {}
  <2>1. c \notin Rows /\ Rows' = Rows /\ \A b \in Rows : at'[b] = at[b]
    BY <1>5 DEF UploadFails, Forget, InFlight, RowInv, Rows, TypeOK
  <2> QED  BY <1>5, <2>1 DEF UploadFails, Orderly, Earlier
<1>6. ASSUME NEW c \in Clips, Delete(c) PROVE Orderly' /\ misled' = {}
  <2>1. /\ Rows' = Rows \ {c}
        /\ \A b \in Rows' : /\ at'[b] = at[b] /\ index'[b] = index[b]
                             /\ rowid'[b] = rowid[b]
    BY <1>6 DEF Delete, Forget, Rows, TypeOK
  <2> QED  BY <1>6, <2>1 DEF Delete, Orderly, Earlier
<1>7. ASSUME NEW p \in Patchers, NEW c \in Clips, NEW body \in Bodies, PatchRead(p, c, body)
      PROVE  Orderly' /\ misled' = {}
  BY <1>7 DEF PatchRead, rowVars, history, Orderly, Earlier, Rows
<1>8. ASSUME NEW p \in Patchers, PatchCommit(p) PROVE Orderly' /\ misled' = {}
  <2>1. patch[p].index = {}
    BY DEF Quiet
  <2>2. index' = index
    BY <1>8, <2>1 DEF PatchCommit, Given, TypeOK
  <2> QED  BY <1>8, <2>1, <2>2 DEF PatchCommit, Orderly, Earlier, Rows
<1>9. ASSUME NEW p \in Patchers, PatchFails(p) PROVE Orderly' /\ misled' = {}
  BY <1>9 DEF PatchFails, rowVars, Orderly, Earlier, Rows
<1>10. CASE UNCHANGED vars
  BY <1>10 DEF vars, rowVars, history, Orderly, Earlier, Rows
<1> QED  BY <1>1, <1>2, <1>3, <1>4, <1>5, <1>6, <1>7, <1>8, <1>9, <1>10
         DEF Next, UploadStep, PatchStep

\* Sorted, with every upload's reads still true.
InOrder == Orderly /\ misled = {}

\* _assign_sort_index over the life of a library: while uploads come one at a
\* time, PATCHes only trim and no gap is used up, the library is always sorted by
\* what the clocks showed, whatever is deleted and whichever uploads fail; so clips
\* whose clocks had one offset are always in the order they were recorded in.
THEOREM OrderKept == Spec /\ []Quiet => [](Orderly /\ Chronological)
<1>1. Init => InOrder
  BY DEF Init, InOrder, Orderly, Rows
<1>2. IInv /\ Quiet /\ Quiet' /\ InOrder /\ [Next]_vars => InOrder'
  BY QuietStep DEF IInv, InOrder
<1>3. IInv /\ InOrder => Orderly /\ Chronological
  BY ClocksTell DEF IInv, InOrder
<1> QED  BY TimelineInvariant, <1>1, <1>2, <1>3, PTL DEF Spec

\* PATCH /clips/{id}: the window of a clip is one its check accepted, unless two
\* patches of the clip each changed an end the other had read.
THEOREM Windows == Spec => []WindowsHold
<1>1. IInv => WindowsHold
  BY DEF IInv, PatchInv
<1> QED  BY TimelineInvariant, <1>1, PTL

=============================================================================
