-------------------------- MODULE SessionPoolProofs --------------------------
(***************************************************************************)
(* Proofs about SessionPool for any number of tabs, of players and of      *)
(* connections.                                                            *)
(*                                                                         *)
(* The argument: HolderInv says in which places a session has a connection *)
(* for certain, and where it has none; LossInv, how far the row is in each *)
(* place of the render, and which of its statements has failed when the    *)
(* row stays behind.                                                       *)
(***************************************************************************)
EXTENDS SessionPool, FiniteSetTheorems, TLAPS

RenderPlaces == RenderStatements \cup {"ffmpeg", "over"}
ClientPlaces == {"closed", "get", "streaming", "ending"}

\* A stream has a connection up to its end, and the render one while ffmpeg runs
\* and until the result is committed.
HolderInv ==
    /\ \A c \in Clients :
          /\ pc[c] \in ClientPlaces
          /\ pc[c] \in {"streaming", "ending"} => Holds(c)
          /\ pc[c] = "closed" => ~Holds(c)
    /\ pc[Render] \in RenderPlaces
    /\ pc[Render] \in {"ffmpeg", "complete"} => Holds(Render)
    /\ pc[Render] = "over" => ~Holds(Render)

PoolInv == TypeOK /\ HolderInv

LossInv ==
    /\ pc[Render] = "load" => job = "pending" /\ ~made
    /\ pc[Render] \in {"specs", "ffmpeg", "record"} => job = "running" /\ ~made
    /\ pc[Render] = "complete" => job = "running" /\ made
    /\ LossExplained

-----------------------------------------------------------------------------
(* Types and connections. *)

LEMMA HoldersFinite ==
    ASSUME TypeOK
    PROVE  IsFiniteSet(holders) /\ Cardinality(holders) \in Nat
<1>1. holders \subseteq Sessions /\ IsFiniteSet(Sessions)
  BY PoolAssumption DEF TypeOK
<1> QED  BY <1>1, FS_Subset, FS_CardinalityType

\* No more connections are out after one has been given back.
LEMMA ReleaseBounded ==
    ASSUME TypeOK, NEW s, Release(s)
    PROVE  holders' \subseteq Sessions /\ Cardinality(holders') <= PoolSize
<1>1. IsFiniteSet(holders) /\ Cardinality(holders) \in Nat
  BY HoldersFinite
<1>2. holders' \subseteq holders
  BY DEF Release
<1>3. Cardinality(holders') <= Cardinality(holders) /\ Cardinality(holders') \in Nat
  BY <1>1, <1>2, FS_Subset, FS_CardinalityType
<1> QED  BY <1>1, <1>2, <1>3, PoolAssumption DEF TypeOK

LEMMA AcquireBounded ==
    ASSUME TypeOK, NEW s \in Sessions, Acquire(s)
    PROVE  holders' \subseteq Sessions /\ Cardinality(holders') <= PoolSize
<1>1. IsFiniteSet(holders) /\ Cardinality(holders) \in Nat
  BY HoldersFinite
<1>2. Cardinality(holders') = Cardinality(holders) + 1
  BY <1>1, FS_AddElement DEF Acquire, Holds
<1> QED  BY <1>1, <1>2, PoolAssumption DEF Acquire, TypeOK

\* The render and the clients are different sessions.
LEMMA Sorts ==
    /\ Render \in Sessions
    /\ \A c \in Clients : c \in Sessions /\ c # Render
BY PoolAssumption DEF Sessions

LEMMA PoolInit == Init => PoolInv
<1> SUFFICES ASSUME Init PROVE PoolInv
  OBVIOUS
<1>1. Cardinality(holders) <= PoolSize
  BY FS_EmptySet, PoolAssumption DEF Init
<1> QED
  BY <1>1, Sorts
  DEF Init, PoolInv, TypeOK, HolderInv, Holds, RenderPlaces, ClientPlaces, Statements,
      RenderStatements

\* A step of one session that leaves every other session's place and connection.
LEMMA OneSession ==
    ASSUME PoolInv, NEW s \in Sessions, NEW place, Goto(s, place),
           holders' \subseteq Sessions, Cardinality(holders') <= PoolSize,
           \A t \in Sessions : t # s => (t \in holders' <=> t \in holders),
           IF s = Render
             THEN /\ place \in RenderPlaces
                  /\ place \in {"ffmpeg", "complete"} => s \in holders'
                  /\ place = "over" => s \notin holders'
             ELSE /\ place \in ClientPlaces
                  /\ place \in {"streaming", "ending"} => s \in holders'
                  /\ place = "closed" => s \notin holders',
           job' \in {"pending", "running", "complete", "failed"},
           channel' \in {"none", "open", "terminal", "taken"},
           made' \in BOOLEAN, gaveUp' \subseteq RenderStatements
    PROVE  PoolInv'
<1> USE Sorts DEF PoolInv, HolderInv, Goto, Holds, RenderPlaces, ClientPlaces
<1>1. pc \in [Sessions -> Statements \cup {"ffmpeg", "over", "closed", "streaming", "ending"}]
  BY DEF TypeOK
<1>2. \A t \in Sessions : pc'[t] = IF t = s THEN place ELSE pc[t]
  BY <1>1
<1>3. pc' \in [Sessions -> Statements \cup {"ffmpeg", "over", "closed", "streaming", "ending"}]
  <2>1. place \in Statements \cup {"ffmpeg", "over", "closed", "streaming", "ending"}
    BY DEF Statements, RenderStatements
  <2> QED  BY <1>1, <2>1
<1>4. \A t \in Sessions : pc'[t] \in {"over", "closed"} => ~Holds(t)'
  BY <1>2 DEF TypeOK, Statements, RenderStatements
<1>5. HolderInv'
  BY <1>2
<1> QED  BY <1>3, <1>4, <1>5 DEF TypeOK

\* One more connection.
LEMMA AcquireStep == ASSUME PoolInv, NEW s \in Sessions, Acquire(s) PROVE PoolInv'
<1>1. holders' \subseteq Sessions /\ Cardinality(holders') <= PoolSize
  BY AcquireBounded DEF PoolInv
<1>2. UNCHANGED <<pc, job, channel, made, gaveUp>> /\ holders' = holders \cup {s}
      /\ pc[s] \in Statements
  BY DEF Acquire
<1>3. \A t \in Sessions : pc[t] \in {"over", "closed"} => t # s
  BY <1>2 DEF Statements, RenderStatements
<1> QED
  BY <1>1, <1>2, <1>3, Sorts DEF PoolInv, TypeOK, HolderInv, Holds

LEMMA PoolStep == PoolInv /\ [Next]_vars => PoolInv'
<1> SUFFICES ASSUME PoolInv, [Next]_vars PROVE PoolInv'
  OBVIOUS
<1>types. /\ job \in {"pending", "running", "complete", "failed"}
          /\ channel \in {"none", "open", "terminal", "taken"}
          /\ made \in BOOLEAN /\ gaveUp \subseteq RenderStatements
          /\ holders \subseteq Sessions /\ Cardinality(holders) <= PoolSize
          /\ TypeOK
  BY DEF PoolInv, TypeOK
<1>release. ASSUME NEW s \in Sessions, Release(s)
            PROVE  /\ holders' \subseteq Sessions /\ Cardinality(holders') <= PoolSize
                   /\ s \notin holders'
                   /\ \A t \in Sessions : t # s => (t \in holders' <=> t \in holders)
  BY <1>release, <1>types, ReleaseBounded DEF Release
<1>1. CASE RenderStep
  <2> USE <1>types, <1>release, Sorts, OneSession DEF At, Holds, RenderPlaces, RenderStatements
  <2>1. CASE Acquire(Render)
    BY <2>1, AcquireStep
  <2>2. CASE RenderGivesUp
    <3>1. gaveUp' \subseteq RenderStatements /\ holders' = holders /\ UNCHANGED <<job, made>>
          /\ Render \notin holders
      BY <2>2 DEF RenderGivesUp
    <3>2. CASE pc[Render] \in {"specs", "complete"}
      BY <2>2, <3>1, <3>2 DEF RenderGivesUp
    <3>3. CASE pc[Render] \notin {"specs", "complete"}
      BY <2>2, <3>1, <3>3 DEF RenderGivesUp
    <3> QED  BY <3>2, <3>3
  <2>3. CASE Load
    BY <2>3 DEF Load
  <2>4. CASE ReadSpecs
    BY <2>4 DEF ReadSpecs
  <2>5. CASE FfmpegMakes
    BY <2>5 DEF FfmpegMakes, PoolInv, HolderInv
  <2>6. CASE FfmpegFails
    BY <2>6 DEF FfmpegFails
  <2>7. CASE CommitComplete
    BY <2>7 DEF CommitComplete
  <2>8. CASE RecordFailure
    BY <2>8 DEF RecordFailure
  <2> QED  BY <1>1, <2>1, <2>2, <2>3, <2>4, <2>5, <2>6, <2>7, <2>8 DEF RenderStep
<1>2. ASSUME NEW c \in Clients, ServeStep(c) \/ Open(c) \/ Leave(c) PROVE PoolInv'
  <2> USE <1>types, <1>release, Sorts, OneSession DEF At, Holds, ClientPlaces
  <2>1. CASE Acquire(c)
    BY <2>1, AcquireStep
  <2>2. CASE Answer(c)
    BY <2>2 DEF Answer
  <2>3. CASE TakeTerminal(c)
    BY <2>3 DEF TakeTerminal, PoolInv, HolderInv
  <2>4. CASE End(c)
    BY <2>4 DEF End
  <2>5. CASE GivesUp(c)
    BY <2>5 DEF GivesUp
  <2>6. CASE Open(c)
    BY <2>6 DEF Open
  <2>7. CASE Leave(c)
    BY <2>7 DEF Leave, PoolInv, HolderInv
  <2> QED  BY <1>2, <2>1, <2>2, <2>3, <2>4, <2>5, <2>6, <2>7 DEF ServeStep
<1>3. CASE UNCHANGED vars
  BY <1>3 DEF vars, PoolInv, TypeOK, HolderInv, Holds
<1> QED  BY <1>1, <1>2, <1>3 DEF Next

LEMMA PoolHolds == Spec => []PoolInv
BY PoolInit, PoolStep, PTL DEF Spec

\* Every variable has its type, no more connections are out than the pool has, and
\* a session that is over has given its own back.
THEOREM PoolTypes == Spec => []TypeOK
<1>1. PoolInv => TypeOK
  BY DEF PoolInv
<1> QED  BY <1>1, PoolHolds, PTL

-----------------------------------------------------------------------------
(* What an exhausted pool takes from the streams and from the render. *)

Streams == {c \in Clients : pc[c] \in {"streaming", "ending"}}

\* There are never more streams than connections, tabs and players together, and
\* one fewer while ffmpeg runs: the render keeps its connection to the end.
THEOREM StreamsBounded ==
    Spec => [](/\ Cardinality(Streams) <= PoolSize
               /\ pc[Render] \in {"ffmpeg", "complete"} => Cardinality(Streams) < PoolSize)
<1>1. ASSUME PoolInv
      PROVE  /\ Cardinality(Streams) <= PoolSize
             /\ pc[Render] \in {"ffmpeg", "complete"} => Cardinality(Streams) < PoolSize
  <2>1. IsFiniteSet(holders) /\ Cardinality(holders) \in Nat /\ Cardinality(holders) <= PoolSize
    BY <1>1, HoldersFinite DEF PoolInv, TypeOK
  <2>2. Streams \subseteq holders
    BY <1>1 DEF Streams, PoolInv, HolderInv, Holds
  <2>3. Cardinality(Streams) <= Cardinality(holders) /\ Cardinality(Streams) \in Nat
    BY <2>1, <2>2, FS_Subset, FS_CardinalityType
  <2>4. ASSUME pc[Render] \in {"ffmpeg", "complete"}
        PROVE  Cardinality(Streams) < Cardinality(holders)
    <3>1. Render \in holders /\ Render \notin Streams
      BY <1>1, <2>4, Sorts DEF PoolInv, HolderInv, Holds, Streams
    <3>2. Streams # holders
      BY <3>1
    <3>3. Cardinality(Streams) # Cardinality(holders)
      BY <2>1, <2>2, <3>2, FS_Subset
    <3> QED  BY <2>1, <2>3, <3>3
  <2> QED  BY <2>1, <2>3, <2>4, PoolAssumption
<1> QED  BY <1>1, PoolHolds, PTL

LEMMA LossInit == Init => LossInv
BY Sorts DEF Init, LossInv, LossExplained, At

LEMMA LossStep == PoolInv /\ LossInv /\ [Next]_vars => LossInv'
<1> SUFFICES ASSUME PoolInv, LossInv, [Next]_vars PROVE LossInv'
  OBVIOUS
<1> USE DEF LossInv, LossExplained, At
<1>types. /\ pc \in [Sessions -> Statements \cup {"ffmpeg", "over", "closed", "streaming", "ending"}]
          /\ pc[Render] \in RenderPlaces
          /\ job \in {"pending", "running", "complete", "failed"}
          /\ made \in BOOLEAN
  BY DEF PoolInv, TypeOK, HolderInv
<1>goto. \A place : Goto(Render, place) => pc'[Render] = place
  BY <1>types, Sorts DEF Goto
<1>1. CASE RenderStep
  <2> USE <1>types, <1>goto DEF RenderPlaces, RenderStatements
  <2>1. CASE Acquire(Render)
    BY <2>1 DEF Acquire
  <2>2. CASE RenderGivesUp
    <3>1. gaveUp' = gaveUp \cup {pc[Render]} /\ UNCHANGED <<job, made>>
          /\ pc[Render] \in RenderStatements
      BY <2>2 DEF RenderGivesUp
    <3>2. CASE pc[Render] = "specs"
      BY <2>2, <3>1, <3>2 DEF RenderGivesUp
    <3>3. CASE pc[Render] = "complete"
      <4>1. FALSE
        BY <2>2, <3>3 DEF RenderGivesUp, PoolInv, HolderInv
      <4> QED  BY <4>1
    <3>4. CASE pc[Render] = "load" \/ pc[Render] = "record"
      <4>1. pc'[Render] = "over"
        BY <2>2, <3>4 DEF RenderGivesUp
      <4> QED  BY <3>1, <3>4, <4>1
    <3> QED  BY <3>1, <3>2, <3>3, <3>4
  <2>3. CASE Load
    BY <2>3 DEF Load
  <2>4. CASE ReadSpecs
    BY <2>4 DEF ReadSpecs
  <2>5. CASE FfmpegMakes
    BY <2>5 DEF FfmpegMakes
  <2>6. CASE FfmpegFails
    BY <2>6 DEF FfmpegFails
  <2>7. CASE CommitComplete
    BY <2>7 DEF CommitComplete
  <2>8. CASE RecordFailure
    BY <2>8 DEF RecordFailure
  <2> QED  BY <1>1, <2>1, <2>2, <2>3, <2>4, <2>5, <2>6, <2>7, <2>8 DEF RenderStep
<1>2. ASSUME NEW c \in Clients, ServeStep(c) \/ Open(c) \/ Leave(c) PROVE LossInv'
  <2>1. UNCHANGED <<job, made, gaveUp>>
    BY <1>2 DEF ServeStep, Acquire, Answer, TakeTerminal, End, GivesUp, Open, Leave
  <2>2. c # Render
    BY Sorts
  <2>3. pc'[Render] = pc[Render]
    BY <1>2, <2>2, <1>types, Sorts
    DEF ServeStep, Acquire, Answer, TakeTerminal, End, GivesUp, Open, Leave, Goto
  <2> QED  BY <2>1, <2>3
<1>3. CASE UNCHANGED vars
  BY <1>3 DEF vars
<1> QED  BY <1>1, <1>2, <1>3 DEF Next

\* However many streams there are, a video that ffmpeg has made is never lost to
\* an exhausted pool: the last commit finds the connection still there.  A row
\* stays pending for the first statement of the task only, and running for that of
\* the failure handler.
THEOREM LossIsExplained == Spec => []LossExplained
<1>1. LossInv => LossExplained
  BY DEF LossInv
<1> QED  BY <1>1, LossInit, LossStep, PoolHolds, PTL DEF Spec

=============================================================================
