---------------------------- MODULE RenderProofs ----------------------------
(***************************************************************************)
(* The passes, the flags and the copy of the scene, frame after frame, for *)
(* any number of passes, render targets, frames and sizes (RenderPhases);  *)
(* and the GPU tier at work, for any size of the pyramid, any suns and any *)
(* failure of a creation (GpuTier).                                        *)
(*                                                                         *)
(* The list of passes has an invariant of its own: sorted tells the truth. *)
(* The flags of the dispatcher and the stages executed are joined by a     *)
(* second one: what ran has its flag, and nothing ran in a frame that has  *)
(* no phase yet.  The third says which frame a copy shows.                 *)
(*                                                                         *)
(* The tier is proved bottom up.  A call that binds loses nothing when     *)
(* nothing it binds is bound for writing elsewhere (SetPuts); a restore    *)
(* that covers what was touched therefore gives back a binding of the      *)
(* game's, whatever its groups and their order (InTurnBack).  Each pass is *)
(* then described by what it leaves, what it writes and what its draws     *)
(* read: the pyramid level by level (PyramidBuilt), the tables of the sky  *)
(* (SkyComputed), the clouds (CloudsExecute), and the stage they run in    *)
(* (StageRuns).  The invariant of the tier (TierInv) says what those       *)
(* descriptions need from one step to the next.                            *)
(***************************************************************************)
EXTENDS RenderPhases, GpuTier, FiniteSetTheorems, WellFoundedInduction, TLAPS

MidStages == StageNames \ {"PrePresent"}

\* Handles are handed out in order, and a list that is marked sorted is in order.
ListInv ==
  /\ \A i \in DOMAIN passes : passes[i].handle < nextHandle
  /\ \A i, j \in DOMAIN passes : passes[i].handle = passes[j].handle => i = j
  /\ \A i, j \in DOMAIN passes :
       /\ i < j
       /\ passes[i].stage = passes[j].stage /\ passes[i].priority = passes[j].priority
       => passes[i].handle < passes[j].handle
  /\ sorted => InOrder(passes)

\* A stage that ran in this frame keeps its flag until the frame ends, or until the
\* start of the dispatcher forgets it, once.
RanMarked(stage) ==
  /\ ran[stage] \in {0, 1, 2}
  /\ ran[stage] # 0 => stage \in dispatched \cup forgotten
  /\ ran[stage] = 2 => stage \in dispatched \cap forgotten
FlagInv ==
  /\ \A stage \in MidStages : RanMarked(stage)
  /\ forgotten \subseteq MidStages
  /\ starting \/ ~dispatcherUp => forgotten = {}
  /\ starting => dispatcherUp
  /\ ran["PrePresent"] <= 1
  /\ ~presenting => ran["PrePresent"] = 0
  /\ dispatched \subseteq MidStages
  /\ dispatched # {} => "dispatcher" \in callbacks /\ dispatcherUp
  /\ phase = "Unknown" \/ ~dispatcherUp => \A stage \in MidStages : ran[stage] = 0

\* A copy of the right size that is marked valid shows this frame.
SceneInv ==
  /\ sceneTex # NoTex => sceneTex <= size
  /\ sceneValid /\ size = sceneTex => sceneFrame = frame

FrameLeft == presenting => frame < MaxFrames

IInv == /\ TypeOK /\ ListInv /\ FlagInv /\ FlagsAreThisFrames /\ SceneInv /\ SceneIsRecent
        /\ FrameLeft

-----------------------------------------------------------------------------
(* Stages.                                                                 *)

LEMMA StageFacts ==
  /\ StageNames = {"PostDepthPrepass", "PostGeometry", "PostSky", "PreUI", "PrePresent"}
  /\ \A stage \in StageNames :
       Position(stage) \in 1 .. 5 /\ StageOrder[Position(stage)] = stage
<1>1. DOMAIN StageOrder = 1 .. 5
  BY DEF StageOrder
<1>2. 1 .. 5 = {1, 2, 3, 4, 5}
  OBVIOUS
<1>3. StageNames = {StageOrder[1], StageOrder[2], StageOrder[3], StageOrder[4], StageOrder[5]}
  BY <1>1, <1>2 DEF StageNames
<1>4. ASSUME NEW stage \in StageNames
      PROVE  Position(stage) \in DOMAIN StageOrder /\ StageOrder[Position(stage)] = stage
  <2>1. \E i \in DOMAIN StageOrder : StageOrder[i] = stage
    BY DEF StageNames
  <2> QED
    BY <2>1 DEF Position
<1> QED
  BY <1>1, <1>3, <1>4 DEF StageOrder

\* The stage a phase change ends is never the one at Present.
LEMMA StageOfType ==
  ASSUME NEW old, NEW new
  PROVE  StageOf(old, new) \in MidStages \cup {NoStage}
BY StageFacts DEF StageOf, MidStages, NoStage

LEMMA NoStageIsNone == NoStage \notin StageNames
BY StageFacts DEF NoStage

-----------------------------------------------------------------------------
(* The sort.  Before is a strict total order of the positions, so ranks    *)
(* are different, so every place of the sorted list is some pass's rank.   *)

LEMMA BeforeOrders ==
  ASSUME PipelineTypes, NEW i \in DOMAIN passes, NEW j \in DOMAIN passes,
         NEW k \in DOMAIN passes
  PROVE  /\ ~Before(i, i)
         /\ i # j => Before(i, j) \/ Before(j, i)
         /\ Before(i, j) /\ Before(j, k) => Before(i, k)
<1>1. /\ i \in Nat /\ j \in Nat /\ k \in Nat
      /\ passes[i] \in Pass /\ passes[j] \in Pass /\ passes[k] \in Pass
  BY DEF PipelineTypes
<1>2. \A p \in Pass : p.priority \in Nat /\ Position(p.stage) \in 1 .. 5
                        /\ StageOrder[Position(p.stage)] = p.stage
  BY StageFacts, PipelineAssumption DEF Pass, PipelineAssumption
<1>3. /\ passes[i].priority \in Nat /\ Position(passes[i].stage) \in 1 .. 5
      /\ passes[j].priority \in Nat /\ Position(passes[j].stage) \in 1 .. 5
      /\ passes[k].priority \in Nat /\ Position(passes[k].stage) \in 1 .. 5
      /\ Position(passes[i].stage) = Position(passes[j].stage) =>
           passes[i].stage = passes[j].stage
  BY <1>1, <1>2
<1> HIDE DEF Position
<1> QED
  BY <1>1, <1>3 DEF Before

\* Every place of the list is the rank of exactly one pass.
LEMMA RankFacts ==
  ASSUME PipelineTypes
  PROVE  /\ \A i, j \in DOMAIN passes : Before(i, j) => Rank(i) < Rank(j)
         /\ \A i \in DOMAIN passes : Rank(i) \in 0 .. Len(passes) - 1
         /\ \A k \in DOMAIN passes : \E i \in DOMAIN passes : Rank(i) = k - 1
<1> DEFINE D == DOMAIN passes
           B(i) == {j \in D : Before(j, i)}
<1>1. D = 1 .. Len(passes) /\ Len(passes) \in Nat
  BY DEF PipelineTypes
<1>2. IsFiniteSet(D) /\ Cardinality(D) = Len(passes)
  <2> DEFINE n == Len(passes)
  <2>1. 1 \in Int /\ n \in Int
    BY <1>1
  <2> HIDE DEF n
  <2>2. IsFiniteSet(1 .. n) /\ Cardinality(1 .. n) = IF 1 > n THEN 0 ELSE n - 1 + 1
    BY <2>1, FS_Interval, Zenon
  <2> QED
    BY <1>1, <2>2 DEF n
<1>3. ASSUME NEW i \in D
      PROVE  /\ IsFiniteSet(B(i)) /\ Rank(i) = Cardinality(B(i))
             /\ Rank(i) \in 0 .. Len(passes) - 1
  <2>1. B(i) \in SUBSET D /\ i \notin B(i)
    BY BeforeOrders
  <2>2. IsFiniteSet(B(i)) /\ Cardinality(B(i)) <= Cardinality(D) /\ Cardinality(B(i)) # Cardinality(D)
    BY <1>2, <2>1, FS_Subset
  <2>3. Cardinality(B(i)) \in Nat
    BY <2>2, FS_CardinalityType
  <2>4. Rank(i) = Cardinality(B(i))
    BY DEF Rank
  <2> QED
    BY <1>1, <1>2, <2>2, <2>3, <2>4
<1>4. ASSUME NEW i \in D, NEW j \in D, Before(i, j)
      PROVE  Rank(i) < Rank(j)
  <2>1. B(i) \in SUBSET B(j) /\ i \in B(j) /\ i \notin B(i)
    BY <1>4, BeforeOrders
  <2>2. Cardinality(B(i)) <= Cardinality(B(j)) /\ Cardinality(B(i)) # Cardinality(B(j))
    BY <2>1, <1>3, FS_Subset
  <2>3. Rank(i) = Cardinality(B(i)) /\ Rank(j) = Cardinality(B(j))
    BY <1>3
  <2>4. Rank(i) \in 0 .. Len(passes) - 1 /\ Rank(j) \in 0 .. Len(passes) - 1
    BY <1>3
  <2> HIDE DEF B, D
  <2> QED
    BY <2>2, <2>3, <2>4, <1>1
<1>5. ASSUME NEW k \in D, ~\E i \in D : Rank(i) = k - 1
      PROVE  FALSE
  <2> DEFINE T == 0 .. Len(passes) - 1
             f == [i \in D |-> Rank(i)]
  <2>1. IsFiniteSet(T) /\ Cardinality(T) = Len(passes)
    <3> DEFINE m == Len(passes) - 1
    <3>1. 0 \in Int /\ m \in Int
      BY <1>1
    <3> HIDE DEF m
    <3>2. IsFiniteSet(0 .. m) /\ Cardinality(0 .. m) = IF 0 > m THEN 0 ELSE m - 0 + 1
      BY <3>1, FS_Interval, Zenon
    <3> QED
      BY <1>1, <3>2 DEF m
  <2>2. k - 1 \in T
    BY <1>1
  <2>3. IsFiniteSet(T \ {k - 1}) /\ Cardinality(T \ {k - 1}) = Len(passes) - 1
    BY <2>1, <2>2, FS_RemoveElement
  <2>4. f \in [D -> T \ {k - 1}]
    BY <1>3, <1>5
  <2>5. Cardinality(T \ {k - 1}) < Cardinality(D)
    BY <2>3, <1>1, <1>2
  <2> HIDE DEF T, f
  <2>6. PICK x \in D : \E y \in D : x # y /\ f[x] = f[y]
    BY <2>3, <2>4, <2>5, <1>2, FS_PigeonHole
  <2>7. PICK y \in D : x # y /\ f[x] = f[y]
    BY <2>6
  <2>8. Rank(x) = Rank(y)
    BY <2>7 DEF f
  <2>9. Before(x, y) \/ Before(y, x)
    BY <2>7, BeforeOrders
  <2>10. Rank(x) \in 0 .. Len(passes) - 1
    BY <1>3
  <2>11. Rank(x) < Rank(y) \/ Rank(y) < Rank(x)
    BY <2>9, <1>4
  <2> HIDE DEF D
  <2> QED
    BY <2>8, <2>10, <2>11, <1>1
<1> QED
  BY <1>3, <1>4, <1>5

\* What the sort returns: a rearrangement of the list, in order.
LEMMA SortFacts ==
  ASSUME PipelineTypes, ListInv
  PROVE  /\ SortPasses \in Seq(Pass)
         /\ InOrder(SortPasses)
         /\ DOMAIN SortPasses = DOMAIN passes
         /\ \A k \in DOMAIN passes : SortPasses[k].handle < nextHandle
         /\ \A k, l \in DOMAIN passes : SortPasses[k].handle = SortPasses[l].handle => k = l
<1> DEFINE D == DOMAIN passes
           at(k) == CHOOSE i \in D : Rank(i) = k - 1
<1>1. D = 1 .. Len(passes) /\ Len(passes) \in Nat /\ \A i \in D : passes[i] \in Pass
  BY DEF PipelineTypes
<1>2. \A k \in D : at(k) \in D /\ Rank(at(k)) = k - 1
  BY RankFacts
<1>3. SortPasses = [k \in D |-> passes[at(k)]]
  BY DEF SortPasses
<1> HIDE DEF at
<1>4. SortPasses \in Seq(Pass) /\ DOMAIN SortPasses = D
  BY <1>1, <1>2, <1>3
<1>5. \A k, l \in D : at(k) = at(l) => k = l
  BY <1>1, <1>2
<1>6. ASSUME NEW k \in D, NEW l \in D, k < l
      PROVE  Before(at(k), at(l))
  <2>1. at(k) # at(l)
    BY <1>5, <1>6, <1>1
  <2>2. ~Before(at(l), at(k))
    <3>1. Rank(at(k)) = k - 1 /\ Rank(at(l)) = l - 1 /\ k \in Nat /\ l \in Nat
      BY <1>1, <1>2
    <3>2. Before(at(l), at(k)) => Rank(at(l)) < Rank(at(k))
      BY <1>2, RankFacts
    <3> HIDE DEF D
    <3> QED
      BY <3>1, <3>2, <1>6
  <2> QED
    BY <1>2, <2>1, <2>2, BeforeOrders
<1>7. InOrder(SortPasses)
  <2> SUFFICES ASSUME NEW k \in D, NEW l \in D, k < l,
                      SortPasses[k].stage = SortPasses[l].stage
               PROVE  \/ SortPasses[k].priority < SortPasses[l].priority
                      \/ /\ SortPasses[k].priority = SortPasses[l].priority
                         /\ SortPasses[k].handle < SortPasses[l].handle
    BY <1>4 DEF InOrder
  <2>1. SortPasses[k] = passes[at(k)] /\ SortPasses[l] = passes[at(l)]
    BY <1>3
  <2>2. \/ passes[at(k)].priority < passes[at(l)].priority
        \/ passes[at(k)].priority = passes[at(l)].priority /\ at(k) < at(l)
    <3>1. Position(passes[at(k)].stage) \in 1 .. 5
      BY <1>1, <1>2, StageFacts, PipelineAssumption DEF Pass, PipelineAssumption
    <3>2. Position(passes[at(k)].stage) = Position(passes[at(l)].stage)
      BY <2>1
    <3> HIDE DEF Position
    <3> QED
      BY <1>6, <3>1, <3>2 DEF Before
  <2> QED
    BY <2>1, <2>2, <1>2 DEF ListInv
<1> QED
  BY <1>2, <1>3, <1>4, <1>5, <1>7 DEF ListInv

-----------------------------------------------------------------------------
(* The operations of the pipeline.                                         *)

\* Executing a stage sorts the list if need be, and counts the stage.
LEMMA ExecuteKeeps ==
  ASSUME PipelineTypes, ListInv, NEW stage \in StageNames, ExecuteStage(stage)
  PROVE  /\ PipelineTypes' /\ ListInv'
         /\ pipelineUp' = pipelineUp
         /\ ~pipelineUp => UNCHANGED pipeline
         /\ pipelineUp => ran' = [ran EXCEPT ![stage] = @ + 1] /\ InOrder(passes')
<1>1. CASE ~pipelineUp
  <2>1. UNCHANGED pipeline
    BY <1>1 DEF ExecuteStage
  <2> QED
    BY <1>1, <2>1 DEF PipelineTypes, ListInv, pipeline
<1>2. CASE pipelineUp
  <2>1. /\ passes' = IF sorted THEN passes ELSE SortPasses
        /\ sorted' = TRUE /\ ran' = [ran EXCEPT ![stage] = @ + 1]
        /\ pipelineUp' = pipelineUp /\ nextHandle' = nextHandle
    BY <1>2 DEF ExecuteStage
  <2>2. passes' \in Seq(Pass) /\ InOrder(passes')
    BY <2>1, SortFacts DEF PipelineTypes, ListInv
  <2>3. PipelineTypes'
    BY <2>1, <2>2 DEF PipelineTypes
  <2>4. /\ \A i \in DOMAIN passes' : passes'[i].handle < nextHandle'
        /\ \A i, j \in DOMAIN passes' : passes'[i].handle = passes'[j].handle => i = j
    BY <2>1, SortFacts DEF ListInv
  <2>5. ASSUME NEW i \in DOMAIN passes', NEW j \in DOMAIN passes', i < j,
               passes'[i].stage = passes'[j].stage, passes'[i].priority = passes'[j].priority
        PROVE  passes'[i].handle < passes'[j].handle
    <3>1. passes'[i] \in Pass
      BY <2>2
    <3>2. passes'[i].priority \in Nat
      BY <3>1, PipelineAssumption DEF Pass, PipelineAssumption
    <3>3. \/ passes'[i].priority < passes'[j].priority
          \/ passes'[i].handle < passes'[j].handle
      BY <2>2, <2>5 DEF InOrder
    <3> QED
      BY <2>5, <3>2, <3>3
  <2>6. ListInv'
    BY <2>2, <2>4, <2>5 DEF ListInv, InOrder
  <2> QED
    BY <1>2, <2>1, <2>2, <2>3, <2>6
<1> QED
  BY <1>1, <1>2 DEF PipelineTypes

LEMMA AddKeeps ==
  ASSUME PipelineTypes, ListInv, NEW stage \in PassStages, NEW priority \in Priorities,
         AddPass(stage, priority)
  PROVE  PipelineTypes' /\ ListInv' /\ ran' = ran /\ pipelineUp' = pipelineUp
<1> DEFINE new == [handle |-> nextHandle, stage |-> stage, priority |-> priority]
<1>1. /\ nextHandle <= MaxPasses /\ passes' = Append(passes, new)
      /\ nextHandle' = nextHandle + 1 /\ sorted' = FALSE
      /\ pipelineUp' = pipelineUp /\ ran' = ran
  BY DEF AddPass, SortedAfterAdd
<1>2. new \in Pass /\ nextHandle \in Nat
  BY <1>1, PipelineAssumption DEF PipelineTypes, Pass, Handles, PipelineAssumption
<1>3. passes' \in Seq(Pass)
  BY <1>1, <1>2 DEF PipelineTypes
<1>4. nextHandle' \in 1 .. MaxPasses + 1
  BY <1>1, <1>2, PipelineAssumption DEF PipelineTypes, PipelineAssumption
<1>5. PipelineTypes'
  BY <1>1, <1>3, <1>4 DEF PipelineTypes
<1>6. /\ Len(passes) \in Nat /\ DOMAIN passes = 1 .. Len(passes)
      /\ DOMAIN passes' = 1 .. Len(passes) + 1
      /\ \A i \in DOMAIN passes : passes'[i] = passes[i] /\ passes[i].handle \in Nat
      /\ passes'[Len(passes) + 1] = new
  <2>1. passes \in Seq(Pass)
    BY DEF PipelineTypes
  <2>2. \A p \in Pass : p.handle \in Nat
    BY DEF Pass, Handles
  <2> HIDE DEF new
  <2>3. \A i \in DOMAIN passes : passes[i] \in Pass
    BY <2>1
  <2> QED
    BY <1>1, <1>2, <2>1, <2>2, <2>3
<1>7. \A i \in DOMAIN passes' : i \in DOMAIN passes \/ i = Len(passes) + 1
  BY <1>6
<1>8. new.handle = nextHandle /\ \A i \in DOMAIN passes : passes[i].handle < new.handle
  BY DEF ListInv
<1> HIDE DEF new
<1>9. \A i \in DOMAIN passes' : passes'[i].handle < nextHandle'
  BY <1>1, <1>2, <1>6, <1>7, <1>8
<1>10. ASSUME NEW i \in DOMAIN passes', NEW j \in DOMAIN passes',
              passes'[i].handle = passes'[j].handle
       PROVE  i = j
  <2>1. CASE i \in DOMAIN passes /\ j \in DOMAIN passes
    BY <1>6, <1>10, <2>1 DEF ListInv
  <2>2. CASE i = Len(passes) + 1 /\ j \in DOMAIN passes
    BY <1>2, <1>6, <1>8, <1>10, <2>2
  <2>3. CASE i \in DOMAIN passes /\ j = Len(passes) + 1
    BY <1>2, <1>6, <1>8, <1>10, <2>3
  <2> QED
    BY <1>7, <2>1, <2>2, <2>3
<1>11. ASSUME NEW i \in DOMAIN passes', NEW j \in DOMAIN passes', i < j,
              passes'[i].stage = passes'[j].stage, passes'[i].priority = passes'[j].priority
       PROVE  passes'[i].handle < passes'[j].handle
  <2>1. i \in DOMAIN passes
    BY <1>6, <1>7, <1>11
  <2>2. CASE j \in DOMAIN passes
    BY <1>6, <1>11, <2>1, <2>2 DEF ListInv
  <2>3. CASE j = Len(passes) + 1
    BY <1>6, <1>8, <2>1, <2>3
  <2> QED
    BY <1>7, <2>2, <2>3
<1> QED
  BY <1>1, <1>5, <1>9, <1>10, <1>11 DEF ListInv, InOrder

-----------------------------------------------------------------------------
(* A change of phase.                                                      *)

\* The dispatcher: a stage that runs had no flag, so it had not run, and gets one.
LEMMA DispatchKeeps ==
  ASSUME TypeOK, ListInv, FlagInv, FlagsAreThisFrames,
         NEW new \in Phases, new # "Unknown", phase' = new, Dispatch(phase, new),
         UNCHANGED <<callbacks, dispatcherUp, presenting, starting, forgotten, resetMissed>>
  PROVE  PipelineTypes' /\ ListInv' /\ FlagInv' /\ FlagsAreThisFrames'
<1> DEFINE stage == StageOf(phase, new)
           runs  == /\ "dispatcher" \in callbacks /\ dispatcherUp /\ enabled
                    /\ new # "Unknown" /\ pipelineUp
                    /\ MapsToStage(stage) /\ MayDispatch(stage)
<1>1. PipelineTypes
  BY DEF TypeOK
<1>2. CASE runs
  <2>1. stage \in MidStages
    BY <1>2, StageOfType DEF MapsToStage
  <2>2. dispatched' = dispatched \cup {stage} /\ ExecuteStage(stage)
    BY <1>2 DEF Dispatch
  <2>3. stage \notin dispatched /\ dispatcherUp /\ "dispatcher" \in callbacks /\ pipelineUp
    BY <1>2 DEF MayDispatch
  <2> HIDE DEF stage, runs
  <2>4. PipelineTypes' /\ ListInv' /\ ran' = [ran EXCEPT ![stage] = @ + 1]
    BY <1>1, <2>1, <2>2, <2>3, ExecuteKeeps DEF MidStages
  <2>5. ran \in [StageNames -> Nat]
    BY <1>1 DEF PipelineTypes
  <2>6. ran[stage] = 0 \/ (ran[stage] = 1 /\ stage \in forgotten)
    BY <2>1, <2>3 DEF FlagInv, RanMarked
  <2>7. /\ ran'[stage] = 1 \/ (ran'[stage] = 2 /\ stage \in forgotten)
        /\ \A other \in StageNames : other # stage => ran'[other] = ran[other]
    BY <2>1, <2>4, <2>5, <2>6 DEF MidStages
  <2>8. "PrePresent" \in StageNames /\ "PrePresent" # stage
    BY <2>1, StageFacts DEF MidStages
  <2>9. \A other \in MidStages : RanMarked(other)'
    BY <2>2, <2>7 DEF FlagInv, RanMarked, MidStages
  <2>10. FlagInv'
    BY <2>1, <2>2, <2>3, <2>7, <2>8, <2>9 DEF FlagInv
  <2>11. FlagsAreThisFrames'
    BY <2>1, <2>2, <2>7 DEF FlagsAreThisFrames, FlagInv, MidStages
  <2> QED
    BY <2>4, <2>10, <2>11
<1>3. CASE ~runs
  <2>1. dispatched' = dispatched /\ UNCHANGED pipeline
    BY <1>3 DEF Dispatch
  <2> HIDE DEF stage, runs
  <2>2. PipelineTypes' /\ ListInv'
    BY <1>1, <2>1 DEF PipelineTypes, ListInv, pipeline
  <2>3. FlagInv' /\ FlagsAreThisFrames'
    BY <2>1 DEF FlagInv, RanMarked, FlagsAreThisFrames, pipeline
  <2> QED
    BY <2>2, <2>3
<1> QED
  BY <1>2, <1>3

\* The copy: of the back buffer's size it shows this frame, of another it stays smaller.
LEMMA CaptureKeeps ==
  ASSUME TypeOK, SceneInv, SceneIsRecent, NEW old, NEW new, CaptureScene(old, new),
         UNCHANGED <<frame, size, shownValid>>
  PROVE  /\ SceneInv' /\ SceneIsRecent'
         /\ sceneTex' \in 0 .. NoTex /\ sceneFrame' \in 0 .. MaxFrames
         /\ sceneValid' \in BOOLEAN
<1>1. /\ frame \in 0 .. MaxFrames /\ size \in 0 .. MaxResizes /\ sceneTex \in 0 .. NoTex
      /\ sceneFrame \in 0 .. MaxFrames /\ MaxFrames \in Nat /\ MaxResizes \in Nat
  BY PhaseAssumption DEF TypeOK, PhaseAssumption
<1>2. sceneValid \in BOOLEAN
  BY DEF TypeOK
<1>3. CASE UNCHANGED capture
  BY <1>1, <1>2, <1>3 DEF capture, SceneInv, SceneIsRecent
<1>4. CASE ~UNCHANGED capture
  <2>1. PICK tex \in {sceneTex} \cup (IF sceneTex = NoTex THEN {size} ELSE {}) :
          /\ sceneTex' = tex
          /\ sceneFrame' = IF tex = size THEN frame ELSE sceneFrame
          /\ sceneValid' = (tex # NoTex \/ sceneValid)
    BY <1>4 DEF CaptureScene
  <2>2. sceneValid' \in BOOLEAN
    BY <2>1, <1>2, Zenon
  <2>3. tex \in 0 .. NoTex /\ (tex # NoTex => tex <= size) /\ size < NoTex
    BY <1>1, <2>1 DEF SceneInv, NoTex
  <2>4. sceneTex' \in 0 .. NoTex /\ sceneFrame' \in 0 .. MaxFrames
    BY <1>1, <2>1, <2>3
  <2>5. SceneInv'
    BY <2>1, <2>3 DEF SceneInv, NoTex
  <2>6. SceneIsRecent'
    BY <1>1, <2>1 DEF SceneIsRecent
  <2> QED
    BY <2>2, <2>4, <2>5, <2>6
<1> QED
  BY <1>3, <1>4

DetectorTypes ==
  /\ mainRTV \in RTs \cup {NoRT} /\ depthOnly \in BOOLEAN
  /\ viewport \in {"full", "near", "small"} /\ draws \in 0 .. GeometryDraws

RestTypes ==
  /\ callbacks \subseteq {"dispatcher", "capture"}
  /\ dispatcherUp \in BOOLEAN /\ enabled \in BOOLEAN /\ resetMissed \in BOOLEAN
  /\ overlay \in BOOLEAN /\ presenting \in BOOLEAN /\ starting \in BOOLEAN
  /\ frame \in 0 .. MaxFrames /\ size \in 0 .. MaxResizes /\ shownValid \in BOOLEAN

Parts ==
  /\ PipelineTypes /\ phase \in Phases /\ DetectorTypes /\ RestTypes
  /\ dispatched \subseteq StageNames /\ forgotten \subseteq StageNames
  /\ sceneTex \in 0 .. NoTex /\ sceneFrame \in 0 .. MaxFrames
  /\ sceneValid \in BOOLEAN

LEMMA TypeParts == (TypeOK <=> Parts) /\ (TypeOK' <=> Parts')
BY Zenon DEF TypeOK, Parts, DetectorTypes, RestTypes

\* A call of the game that changes the phase, or observes that it stays.
LEMMA HookKeeps ==
  ASSUME IInv, Hook, NEW new \in Phases, new = phase \/ new # "Unknown", SetPhase(new),
         DetectorTypes'
  PROVE  IInv'
<1>1. /\ UNCHANGED <<callbacks, dispatcherUp, enabled, starting, forgotten, resetMissed, overlay>>
      /\ UNCHANGED <<presenting, frame, size, shownValid>> /\ phase' = new
  BY DEF Hook, swapchain, SetPhase
<1>2. RestTypes' /\ FrameLeft'
  BY <1>1, TypeParts DEF IInv, Parts, RestTypes, FrameLeft
<1>3. CASE new = phase
  <2>1. UNCHANGED <<pipeline, dispatched, capture>>
    BY <1>3 DEF SetPhase
  <2>2. TypeOK'
    <3>1. Parts
      BY TypeParts DEF IInv
    <3>2. PipelineTypes'
      BY <2>1, <3>1 DEF Parts, PipelineTypes, pipeline
    <3> QED
      BY <1>1, <1>2, <1>3, <2>1, <3>1, <3>2, TypeParts DEF Parts, capture
  <2>3. ListInv' /\ SceneInv' /\ SceneIsRecent'
    BY <1>1, <2>1 DEF IInv, ListInv, SceneInv, SceneIsRecent, pipeline, capture
  <2>4. FlagInv' /\ FlagsAreThisFrames'
    BY <1>1, <1>3, <2>1 DEF IInv, FlagInv, RanMarked, FlagsAreThisFrames, pipeline
  <2> QED
    BY <1>2, <2>2, <2>3, <2>4 DEF IInv
<1>4. CASE new # phase
  <2>1. Dispatch(phase, new) /\ CaptureScene(phase, new) /\ new # "Unknown"
    BY <1>4 DEF SetPhase
  <2>2. PipelineTypes' /\ ListInv' /\ FlagInv' /\ FlagsAreThisFrames'
    BY <1>1, <2>1, DispatchKeeps DEF IInv
  <2>3. /\ SceneInv' /\ SceneIsRecent'
        /\ sceneTex' \in 0 .. NoTex /\ sceneFrame' \in 0 .. MaxFrames
        /\ sceneValid' \in BOOLEAN
    BY <1>1, <2>1, CaptureKeeps DEF IInv
  <2>4. dispatched' \subseteq StageNames
    BY <2>2 DEF FlagInv, MidStages
  <2>5. TypeOK'
    <3>1. phase' \in Phases /\ forgotten' \subseteq StageNames /\ DetectorTypes'
      BY <1>1, TypeParts DEF IInv, Parts
    <3> QED
      BY <1>2, <2>2, <2>3, <2>4, <3>1, TypeParts, Zenon DEF Parts
  <2> QED
    BY <1>2, <2>2, <2>3, <2>5 DEF IInv
<1> QED
  BY <1>3, <1>4

-----------------------------------------------------------------------------
(* The induction.                                                          *)

LEMMA InitKeeps == Init => IInv
<1> SUFFICES ASSUME Init PROVE IInv
  OBVIOUS
<1> USE DEF Init, PipelineInit
<1>1. /\ pipelineUp \in BOOLEAN /\ sorted \in BOOLEAN /\ depthOnly \in BOOLEAN
      /\ dispatcherUp \in BOOLEAN /\ enabled \in BOOLEAN /\ resetMissed \in BOOLEAN
      /\ overlay \in BOOLEAN /\ presenting \in BOOLEAN /\ starting \in BOOLEAN
      /\ sceneValid \in BOOLEAN /\ shownValid \in BOOLEAN
  BY Zenon
<1>2. /\ nextHandle = 1 /\ passes = <<>> /\ ran = NoneRan
      /\ phase = "Unknown" /\ mainRTV = NoRT /\ viewport = "small" /\ draws = 0
      /\ callbacks = {} /\ dispatched = {} /\ forgotten = {} /\ frame = 0 /\ size = 0
      /\ sceneTex = NoTex /\ sceneFrame = 0
  OBVIOUS
<1> HIDE DEF Init, PipelineInit
<1>3. TypeOK
  <2>1. nextHandle \in 1 .. MaxPasses + 1 /\ passes \in Seq(Pass)
    BY <1>2, PipelineAssumption DEF PipelineAssumption
  <2>2. ran \in [StageNames -> Nat]
    BY <1>2 DEF NoneRan
  <2>3. PipelineTypes
    BY <1>1, <2>1, <2>2, Zenon DEF PipelineTypes
  <2>4. draws \in 0 .. GeometryDraws /\ frame \in 0 .. MaxFrames /\ size \in 0 .. MaxResizes
    BY <1>2, PhaseAssumption DEF PhaseAssumption
  <2>5. DetectorTypes /\ RestTypes
    BY <1>1, <1>2, <2>4, Zenon DEF DetectorTypes, RestTypes
  <2>6. sceneTex \in 0 .. NoTex /\ sceneFrame \in 0 .. MaxFrames
    BY <1>2, PhaseAssumption DEF NoTex, PhaseAssumption
  <2>7. phase \in Phases /\ dispatched \subseteq StageNames /\ forgotten \subseteq StageNames
    BY <1>2 DEF Phases
  <2> QED
    BY <1>1, <2>3, <2>5, <2>6, <2>7, TypeParts, Zenon DEF Parts
<1> USE DEF Init, PipelineInit
<1>4. ListInv
  BY DEF ListInv, InOrder
<1>5. FlagInv /\ FlagsAreThisFrames
  BY StageFacts DEF FlagInv, RanMarked, FlagsAreThisFrames, NoneRan, MidStages
<1>6. SceneInv /\ SceneIsRecent /\ FrameLeft
  BY PhaseAssumption DEF SceneInv, SceneIsRecent, FrameLeft, PhaseAssumption
<1> QED
  BY <1>3, <1>4, <1>5, <1>6 DEF IInv

LEMMA GameKeeps ==
  ASSUME IInv, NEW rt \in RTs \cup {NoRT}, NEW depth \in BOOLEAN,
         NEW v \in {"full", "near", "small"}, NEW fullscreen \in BOOLEAN, NEW indexed \in BOOLEAN,
         OnRTChange(rt, depth) \/ OnViewportChange(v) \/ OnDraw(fullscreen, indexed)
  PROVE  IInv'
<1>1. DetectorTypes /\ phase \in Phases
  BY TypeParts DEF IInv, Parts
<1>2. CASE OnRTChange(rt, depth)
  <2>1. /\ Hook /\ SetPhase(PhaseOfTargets(rt, depth))
        /\ depthOnly' = (rt = NoRT /\ depth)
        /\ mainRTV' = IF BecomesMain(rt, depth) THEN rt ELSE mainRTV
        /\ UNCHANGED <<viewport, draws>>
    BY <1>2 DEF OnRTChange
  <2>2. depthOnly' \in BOOLEAN
    BY <2>1, Zenon
  <2>3. DetectorTypes'
    BY <1>1, <2>1, <2>2 DEF DetectorTypes
  <2>4. PhaseOfTargets(rt, depth) \in
          {"ShadowMap", "DepthPrepass", "GeometryMain", "PostProcess", "UI", phase}
    BY DEF PhaseOfTargets
  <2>5. /\ PhaseOfTargets(rt, depth) \in Phases
        /\ PhaseOfTargets(rt, depth) = phase \/ PhaseOfTargets(rt, depth) # "Unknown"
    BY <1>1, <2>4 DEF Phases
  <2> QED
    BY <2>1, <2>3, <2>5, HookKeeps
<1>3. CASE OnViewportChange(v)
  <2> DEFINE new == IF v = "small" /\ depthOnly THEN "ShadowMap" ELSE phase
  <2>1. /\ Hook /\ SetPhase(new) /\ viewport' = v
        /\ UNCHANGED <<mainRTV, depthOnly, draws>>
    BY <1>3 DEF OnViewportChange
  <2>2. DetectorTypes'
    BY <1>1, <2>1 DEF DetectorTypes
  <2>3. new \in Phases /\ (new = phase \/ new # "Unknown")
    BY <1>1 DEF Phases
  <2> HIDE DEF new
  <2> QED
    BY <2>1, <2>2, <2>3, HookKeeps
<1>4. CASE OnDraw(fullscreen, indexed)
  <2> DEFINE count == IF phase = "GeometryMain" /\ draws < GeometryDraws THEN draws + 1 ELSE draws
             new == CASE fullscreen /\ ~indexed /\ phase = "GeometryMain"
                           /\ count = GeometryDraws -> "PostProcess"
                      [] indexed /\ phase = "PostProcess" -> "UI"
                      [] OTHER -> phase
  <2>1. /\ Hook /\ SetPhase(new) /\ draws' = count
        /\ UNCHANGED <<mainRTV, depthOnly, viewport>>
    BY <1>4 DEF OnDraw
  <2>2. count \in 0 .. GeometryDraws
    BY <1>1, PhaseAssumption DEF DetectorTypes, PhaseAssumption
  <2>3. DetectorTypes'
    BY <1>1, <2>1, <2>2 DEF DetectorTypes
  <2>4. new \in {"PostProcess", "UI", phase}
    OBVIOUS
  <2> HIDE DEF new, count
  <2>5. new \in Phases /\ (new = phase \/ new # "Unknown")
    BY <1>1, <2>4 DEF Phases
  <2> QED
    BY <2>1, <2>3, <2>5, HookKeeps
<1> QED
  BY <1>2, <1>3, <1>4

\* Steps that leave a part of the state alone leave its invariants.
LEMMA PipelineStays ==
  ASSUME PipelineTypes, ListInv, UNCHANGED pipeline
  PROVE  PipelineTypes' /\ ListInv'
BY DEF PipelineTypes, ListInv, pipeline

LEMMA SceneStays ==
  ASSUME SceneInv, SceneIsRecent, UNCHANGED <<capture, frame, size, shownValid>>
  PROVE  SceneInv' /\ SceneIsRecent'
BY DEF SceneInv, SceneIsRecent, capture

LEMMA PresentKeeps ==
  ASSUME IInv, Present
  PROVE  IInv'
<1>1. /\ ~presenting /\ presenting' = TRUE
      /\ ExecuteStage("PrePresent") \/ UNCHANGED pipeline
      /\ UNCHANGED <<detector, callbacks, dispatcher, overlay, capture>>
      /\ UNCHANGED <<frame, size, shownValid>> /\ frame < MaxFrames
  BY DEF Present
<1>2. PipelineTypes /\ ran \in [StageNames -> Nat] /\ "PrePresent" \in StageNames
  BY StageFacts, TypeParts DEF IInv, Parts, PipelineTypes
<1>3. /\ PipelineTypes' /\ ListInv'
      /\ ran' = ran \/ ran' = [ran EXCEPT !["PrePresent"] = @ + 1]
  <2>1. CASE ExecuteStage("PrePresent")
    BY <1>2, <2>1, ExecuteKeeps DEF IInv, pipeline
  <2>2. CASE UNCHANGED pipeline
    BY <1>2, <2>2, PipelineStays DEF IInv, pipeline
  <2> QED
    BY <1>1, <2>1, <2>2
<1>4. /\ ran'["PrePresent"] <= 1
      /\ \A stage \in MidStages : ran'[stage] = ran[stage]
  BY <1>1, <1>2, <1>3 DEF IInv, FlagInv, MidStages
<1>5. presenting' \in BOOLEAN
  BY <1>1, Zenon
<1>6. DetectorTypes' /\ RestTypes'
  BY <1>1, <1>5, TypeParts DEF IInv, Parts, DetectorTypes, RestTypes, detector, dispatcher
<1>7. TypeOK'
  BY <1>1, <1>3, <1>6, TypeParts DEF IInv, Parts, detector, dispatcher, capture
<1>8. FlagInv' /\ FlagsAreThisFrames'
  BY <1>1, <1>4 DEF IInv, FlagInv, RanMarked, FlagsAreThisFrames, MidStages, detector,
     dispatcher
<1>9. SceneInv' /\ SceneIsRecent'
  BY <1>1, SceneStays DEF IInv
<1> QED
  BY <1>1, <1>3, <1>7, <1>8, <1>9 DEF IInv, FrameLeft

\* The end of a frame.  Without a phase nothing was dispatched in it; with one the
\* dispatcher is told, unless it is off.
LEMMA EndPresentKeeps ==
  ASSUME IInv, EndPresent
  PROVE  IInv'
<1>1. /\ presenting' = FALSE /\ callbacks' = callbacks \cup {"capture"}
      /\ shownValid' = sceneValid /\ sceneValid' = FALSE
      /\ phase' = "Unknown" /\ mainRTV' = NoRT /\ depthOnly' = FALSE
      /\ viewport' = "small" /\ draws' = 0
      /\ frame' = frame + 1 /\ ran' = NoneRan /\ forgotten' = {} /\ starting' = starting
      /\ resetMissed' = (~enabled \/ (phase = "Unknown" /\ resetMissed))
      /\ UNCHANGED <<pipelineUp, passes, sorted, nextHandle, dispatcherUp, enabled, overlay>>
      /\ UNCHANGED <<size, sceneTex, sceneFrame>>
  BY DEF EndPresent, ValidAfterSync
<1>2. \/ phase = "Unknown" /\ dispatched' = dispatched
      \/ /\ phase # "Unknown"
         /\ dispatched' = IF "dispatcher" \in callbacks /\ dispatcherUp /\ enabled
                          THEN {} ELSE dispatched
  BY DEF EndPresent, DispatchedAfterReset
<1>3. Parts
  BY TypeParts DEF IInv
<1>4. NoneRan \in [StageNames -> Nat] /\ \A stage \in StageNames : NoneRan[stage] = 0
  BY DEF NoneRan
<1>5. PipelineTypes'
  BY <1>1, <1>3, <1>4 DEF Parts, PipelineTypes
<1>6. ListInv'
  BY <1>1 DEF IInv, ListInv
<1>7. /\ presenting' \in BOOLEAN /\ depthOnly' \in BOOLEAN /\ resetMissed' \in BOOLEAN
      /\ sceneValid' \in BOOLEAN
  BY <1>1, Zenon
<1>8. shownValid' \in BOOLEAN
  BY <1>1, <1>3, Zenon DEF Parts
<1>9. frame' \in 0 .. MaxFrames
  <2>1. frame \in 0 .. MaxFrames /\ presenting
    BY <1>3 DEF Parts, RestTypes, EndPresent
  <2>2. frame < MaxFrames
    BY <2>1 DEF IInv, FrameLeft
  <2> QED
    BY <1>1, <2>1, <2>2, PhaseAssumption DEF PhaseAssumption
<1>10. RestTypes'
  <2>1. callbacks' \subseteq {"dispatcher", "capture"}
    BY <1>1, <1>3 DEF Parts, RestTypes
  <2> QED
    BY <1>1, <1>3, <1>7, <1>8, <1>9, <2>1, Zenon DEF Parts, RestTypes
<1>11. DetectorTypes'
  <2>1. draws' \in 0 .. GeometryDraws
    BY <1>1, PhaseAssumption DEF PhaseAssumption
  <2> QED
    BY <1>1, <1>7, <2>1, Zenon DEF DetectorTypes
<1>12. dispatched' \subseteq dispatched
  BY <1>2
<1>13. TypeOK'
  <2>1. phase' \in Phases
    BY <1>1 DEF Phases
  <2>2. dispatched' \subseteq StageNames
    BY <1>3, <1>12 DEF Parts
  <2> QED
    BY <1>1, <1>3, <1>5, <1>7, <1>10, <1>11, <2>1, <2>2, TypeParts, Zenon DEF Parts
<1>14. FlagInv'
  <2>1. "PrePresent" \in StageNames /\ MidStages \subseteq StageNames
    BY StageFacts DEF MidStages
  <2>2. dispatched' # {} => "dispatcher" \in callbacks' /\ dispatcherUp'
    BY <1>1, <1>12 DEF IInv, FlagInv
  <2> QED
    BY <1>1, <1>4, <1>12, <2>1, <2>2 DEF IInv, FlagInv, RanMarked
<1>15. FlagsAreThisFrames'
  <2>1. CASE resetMissed'
    BY <2>1 DEF FlagsAreThisFrames
  <2>2. CASE ~resetMissed'
    <3>1. enabled /\ (phase # "Unknown" \/ ~resetMissed)
      BY <1>1, <2>2
    <3>2. dispatched' = {}
      <4>1. CASE phase # "Unknown"
        BY <1>2, <3>1, <4>1 DEF IInv, FlagInv
      <4>2. CASE phase = "Unknown"
        <5>1. \A stage \in dispatched : stage \in MidStages /\ ran[stage] = 0 /\ ran[stage] > 0
          BY <3>1, <4>2 DEF IInv, FlagInv, FlagsAreThisFrames
        <5>2. dispatched = {}
          BY <5>1
        <5> QED
          BY <1>2, <4>2, <5>2
      <4> QED
        BY <4>1, <4>2
    <3> QED
      BY <3>2 DEF FlagsAreThisFrames
  <2> QED
    BY <2>1, <2>2
<1>16. SceneInv' /\ SceneIsRecent'
  <2>1. frame \in Nat
    BY <1>3, PhaseAssumption DEF Parts, RestTypes, PhaseAssumption
  <2> QED
    BY <1>1, <2>1 DEF IInv, SceneInv, SceneIsRecent
<1>17. FrameLeft'
  BY <1>1 DEF FrameLeft
<1> QED
  BY <1>6, <1>13, <1>14, <1>15, <1>16, <1>17 DEF IInv

\* A new size is one the copy never had.
LEMMA ResizeKeeps ==
  ASSUME IInv, ResizeBuffers
  PROVE  IInv'
<1>1. /\ size < MaxResizes /\ size' = size + 1
      /\ UNCHANGED <<pipeline, detector, callbacks, dispatcher, overlay, capture>>
      /\ UNCHANGED <<presenting, frame, shownValid>>
  BY DEF ResizeBuffers
<1>2. Parts /\ MaxResizes \in Nat
  BY TypeParts, PhaseAssumption DEF IInv, PhaseAssumption
<1>3. size' \in 0 .. MaxResizes /\ size \in Nat /\ sceneTex \in 0 .. NoTex
  BY <1>1, <1>2 DEF Parts, RestTypes
<1>4. PipelineTypes' /\ ListInv'
  BY <1>1, <1>2, PipelineStays DEF IInv, Parts
<1>5. DetectorTypes' /\ RestTypes'
  BY <1>1, <1>2, <1>3 DEF Parts, DetectorTypes, RestTypes, detector, dispatcher
<1>6. TypeOK'
  BY <1>1, <1>2, <1>4, <1>5, TypeParts DEF Parts, detector, dispatcher, capture
<1>7. FlagInv' /\ FlagsAreThisFrames' /\ FrameLeft'
  BY <1>1 DEF IInv, FlagInv, RanMarked, FlagsAreThisFrames, FrameLeft, pipeline, detector,
     dispatcher
<1>8. size' # sceneTex'
  BY <1>1, <1>2, <1>3 DEF IInv, SceneInv, NoTex, capture
<1>9. sceneTex' # NoTex => sceneTex' <= size'
  BY <1>1, <1>3 DEF IInv, SceneInv, capture
<1> QED
  BY <1>4, <1>6, <1>7, <1>8, <1>9 DEF IInv, SceneInv, SceneIsRecent

\* The plugin's own calls.
LEMMA PluginKeeps ==
  ASSUME IInv, PluginCalls
  PROVE  IInv'
<1>1. Parts /\ ListInv /\ FlagInv /\ FlagsAreThisFrames /\ SceneInv /\ SceneIsRecent /\ FrameLeft
  BY TypeParts DEF IInv
<1>2. UNCHANGED <<detector, capture, swapchain>>
  BY DEF PluginCalls, RegisterPrePresent, RegisterOnPhaseChange, InitPipeline,
     InitDispatcher, StartReset, ToggleDispatch, RegisterPass
<1>3. SceneInv' /\ SceneIsRecent' /\ FrameLeft'
  BY <1>1, <1>2, SceneStays DEF swapchain, FrameLeft
<1>4. PipelineTypes' /\ ListInv' /\ ran' = ran
  <2>1. CASE RegisterPass
    <3>1. PICK stage \in PassStages : \E priority \in Priorities : AddPass(stage, priority)
      BY <2>1 DEF RegisterPass
    <3>2. PICK priority \in Priorities : AddPass(stage, priority)
      BY <3>1
    <3> QED
      BY <1>1, <3>2, AddKeeps DEF Parts
  <2>2. CASE InitPipeline
    <3>1. pipelineUp' = TRUE /\ UNCHANGED <<passes, sorted, nextHandle, ran>>
      BY <2>2 DEF InitPipeline, Initialize
    <3>2. pipelineUp' \in BOOLEAN
      BY <3>1, Zenon
    <3> QED
      BY <1>1, <3>1, <3>2 DEF Parts, PipelineTypes, ListInv
  <2>3. CASE \/ RegisterPrePresent \/ RegisterOnPhaseChange \/ InitDispatcher
             \/ StartReset \/ ToggleDispatch
    <3>1. UNCHANGED pipeline
      BY <2>3 DEF RegisterPrePresent, RegisterOnPhaseChange, InitDispatcher, StartReset,
         ToggleDispatch
    <3> QED
      BY <1>1, <3>1, PipelineStays DEF Parts, pipeline
  <2> QED
    BY <2>1, <2>2, <2>3 DEF PluginCalls
<1>5. /\ callbacks \subseteq callbacks' /\ callbacks' \subseteq {"dispatcher", "capture"}
      /\ overlay' \in BOOLEAN /\ dispatcherUp' \in BOOLEAN /\ enabled' \in BOOLEAN
      /\ starting' \in BOOLEAN /\ resetMissed' = resetMissed
      /\ \/ UNCHANGED <<dispatched, dispatcherUp, starting, forgotten>>
         \/ /\ UNCHANGED <<dispatched, forgotten>>
            /\ dispatcherUp' = TRUE /\ ~dispatcherUp /\ starting' = TRUE
         \/ /\ starting /\ starting' = FALSE /\ dispatcherUp' = dispatcherUp
            /\ dispatched' = {} /\ forgotten' = dispatched \ {}
  BY <1>1, Zenon DEF PluginCalls, RegisterPrePresent, RegisterOnPhaseChange, InitPipeline,
     InitDispatcher, StartReset, DispatchedAfterReset, ToggleDispatch, RegisterPass, dispatcher,
     Parts, RestTypes
<1>6. DetectorTypes' /\ RestTypes'
  BY <1>1, <1>2, <1>5, Zenon DEF Parts, DetectorTypes, RestTypes, detector, swapchain
<1>7. TypeOK'
  <2>1. dispatched' \subseteq StageNames /\ forgotten' \subseteq StageNames /\ phase' \in Phases
    BY <1>1, <1>2, <1>5 DEF Parts, detector
  <2> QED
    BY <1>1, <1>2, <1>4, <1>6, <2>1, TypeParts DEF Parts, capture
<1>8. phase' = phase /\ presenting' = presenting
  BY <1>2 DEF detector, swapchain
<1>9. FlagInv' /\ FlagsAreThisFrames'
  <2>1. CASE UNCHANGED <<dispatched, dispatcherUp, starting, forgotten>>
    BY <1>1, <1>4, <1>5, <1>8, <2>1 DEF FlagInv, RanMarked, FlagsAreThisFrames
  <2>2. CASE /\ UNCHANGED <<dispatched, forgotten>>
             /\ dispatcherUp' = TRUE /\ ~dispatcherUp /\ starting' = TRUE
    BY <1>1, <1>4, <1>5, <1>8, <2>2 DEF FlagInv, RanMarked, FlagsAreThisFrames
  <2>3. CASE /\ starting /\ starting' = FALSE /\ dispatcherUp' = dispatcherUp
             /\ dispatched' = {} /\ forgotten' = dispatched \ {}
    <3>1. forgotten = {} /\ forgotten' = dispatched
      BY <1>1, <2>3 DEF FlagInv
    <3>2. \A stage \in MidStages : RanMarked(stage)'
      BY <1>1, <1>4, <2>3, <3>1 DEF FlagInv, RanMarked
    <3> QED
      BY <1>1, <1>4, <1>5, <1>8, <2>3, <3>1, <3>2 DEF FlagInv, FlagsAreThisFrames
  <2> QED
    BY <1>5, <2>1, <2>2, <2>3
<1> QED
  BY <1>3, <1>4, <1>7, <1>9 DEF IInv

LEMMA StepKeeps == IInv /\ [Next]_vars => IInv'
<1> SUFFICES ASSUME IInv, [Next]_vars PROVE IInv'
  OBVIOUS
<1>1. CASE \E rt \in RTs \cup {NoRT}, depth \in BOOLEAN : OnRTChange(rt, depth)
  <2>1. PICK rt \in RTs \cup {NoRT} : \E depth \in BOOLEAN : OnRTChange(rt, depth)
    BY <1>1
  <2>2. PICK depth \in BOOLEAN : OnRTChange(rt, depth)
    BY <2>1
  <2> QED
    BY <2>2, GameKeeps
<1>2. CASE \E v \in {"full", "near", "small"} : OnViewportChange(v)
  BY <1>2, GameKeeps
<1>3. CASE \E fullscreen, indexed \in BOOLEAN : OnDraw(fullscreen, indexed)
  <2>1. PICK fullscreen \in BOOLEAN : \E indexed \in BOOLEAN : OnDraw(fullscreen, indexed)
    BY <1>3
  <2>2. PICK indexed \in BOOLEAN : OnDraw(fullscreen, indexed)
    BY <2>1
  <2> QED
    BY <2>2, GameKeeps
<1>4. CASE Present
  BY <1>4, PresentKeeps
<1>5. CASE EndPresent
  BY <1>5, EndPresentKeeps
<1>6. CASE ResizeBuffers
  BY <1>6, ResizeKeeps
<1>7. CASE PluginCalls
  BY <1>7, PluginKeeps
<1>8. CASE UNCHANGED vars
  <2>1. UNCHANGED <<pipeline, detector, callbacks, dispatcher, overlay, capture, swapchain>>
    BY <1>8 DEF vars
  <2>2. Parts'
    BY <2>1, TypeParts DEF IInv, Parts, PipelineTypes, DetectorTypes, RestTypes, pipeline,
       detector, dispatcher, capture, swapchain
  <2>3. ListInv' /\ SceneInv' /\ SceneIsRecent'
    BY <2>1, PipelineStays, SceneStays, TypeParts DEF IInv, Parts, swapchain
  <2>4. FlagInv' /\ FlagsAreThisFrames' /\ FrameLeft'
    BY <2>1 DEF IInv, FlagInv, RanMarked, FlagsAreThisFrames, FrameLeft, pipeline, detector,
       dispatcher, swapchain
  <2> QED
    BY <2>2, <2>3, <2>4, TypeParts DEF IInv
<1> QED
  BY <1>1, <1>2, <1>3, <1>4, <1>5, <1>6, <1>7, <1>8 DEF Next, GameCalls

THEOREM Inductive == Spec => []IInv
<1> QED
  BY InitKeeps, StepKeeps, PTL DEF Spec

-----------------------------------------------------------------------------
\* The variables of the phases and of the pipeline keep their types, for any
\* stages, priorities, render targets and bounds.
THEOREM TypeCorrect == Spec => []TypeOK
<1>1. IInv => TypeOK
  BY DEF IInv
<1> QED
  BY <1>1, Inductive, PTL

\* No pass runs twice in a frame, in whatever order phases are detected, passes
\* registered and the dispatcher started and switched, but for the stages that its
\* start forgets (PhaseDispatcher.cpp: m_dispatched, Initialize).
THEOREM PassesRunOnce == Spec => []RanOnce
<1>1. IInv => RanOnce
  BY StageFacts DEF IInv, ListInv, FlagInv, RanMarked, RanOnce, MidStages
<1> QED
  BY <1>1, Inductive, PTL

\* A stage held back as already run did run in this frame, unless the dispatcher
\* missed the end of a frame because it was off (PhaseDispatcher.cpp: ResetFrame).
THEOREM FlagsKeepTheFrame == Spec => []FlagsAreThisFrames
<1>1. IInv => FlagsAreThisFrames
  BY DEF IInv
<1> QED
  BY <1>1, Inductive, PTL

\* A copy of the scene that is offered shows this frame or the one before, until the
\* back buffer is resized (WrappedSwapChain.cpp: OnPhaseChange, SyncPreUIState).
THEOREM SceneKeepsTheFrame == Spec => []SceneIsRecent
<1>1. IInv => SceneIsRecent
  BY DEF IInv
<1> QED
  BY <1>1, Inductive, PTL

\* Executing a stage leaves the list marked sorted.
LEMMA ExecutedSorted ==
  ASSUME IInv, [Next]_vars
  PROVE  ran' = ran \/ ran' = NoneRan \/ sorted' = TRUE
<1>1. \A stage \in StageNames : ExecuteStage(stage) => ran' = ran \/ sorted' = TRUE
  BY DEF ExecuteStage, pipeline
<1>2. ASSUME NEW old, NEW new, Dispatch(old, new)
      PROVE  ran' = ran \/ sorted' = TRUE
  <2>1. CASE UNCHANGED pipeline
    BY <2>1 DEF pipeline
  <2>2. CASE MapsToStage(StageOf(old, new)) /\ ExecuteStage(StageOf(old, new))
    BY <1>1, <2>2, StageOfType DEF MapsToStage, MidStages
  <2> QED
    BY <1>2, <2>1, <2>2 DEF Dispatch
<1>3. ASSUME NEW new, SetPhase(new)
      PROVE  ran' = ran \/ sorted' = TRUE
  <2>1. UNCHANGED pipeline \/ Dispatch(phase, new)
    BY <1>3 DEF SetPhase
  <2> QED
    BY <1>2, <2>1 DEF pipeline
<1>4. CASE \E rt \in RTs \cup {NoRT}, depth \in BOOLEAN : OnRTChange(rt, depth)
  BY <1>3, <1>4 DEF OnRTChange
<1>5. CASE \E v \in {"full", "near", "small"} : OnViewportChange(v)
  BY <1>3, <1>5 DEF OnViewportChange
<1>6. CASE \E fullscreen, indexed \in BOOLEAN : OnDraw(fullscreen, indexed)
  BY <1>3, <1>6 DEF OnDraw
<1>7. CASE Present
  BY <1>1, <1>7, StageFacts DEF Present, pipeline
<1>8. CASE EndPresent
  BY <1>8 DEF EndPresent
<1>9. CASE ResizeBuffers \/ UNCHANGED vars
  BY <1>9 DEF ResizeBuffers, vars, pipeline
<1>10. CASE PluginCalls
  BY <1>10 DEF PluginCalls, RegisterPrePresent, RegisterOnPhaseChange, InitPipeline,
     Initialize, InitDispatcher, StartReset, ToggleDispatch, RegisterPass, AddPass, pipeline
<1> QED
  BY <1>4, <1>5, <1>6, <1>7, <1>8, <1>9, <1>10 DEF Next, GameCalls

\* Passes run by priority, and in the order they were added when it is the same,
\* also those another thread registers between two stages
\* (RenderPipeline.cpp: AddPass, SortPasses, ExecuteStage).
THEOREM PassesRunInOrder == Spec => RanInOrder
<1>1. IInv /\ IInv' /\ [Next]_vars => [ran' \notin {ran, NoneRan} => InOrder(passes')]_pipeline
  <2> SUFFICES ASSUME IInv, IInv', [Next]_vars, ran' \notin {ran, NoneRan}
               PROVE  InOrder(passes')
    OBVIOUS
  <2>1. sorted' = TRUE
    BY ExecutedSorted
  <2> QED
    BY <2>1 DEF IInv, ListInv, InOrder
<1> QED
  BY <1>1, Inductive, PTL DEF Spec, RanInOrder

-----------------------------------------------------------------------------
(* The GPU tier.                                                           *)

\* What a device of the tier has: the fields of the initial state.
Fields == {"bound", "content", "drawn", "broken", "computeUp", "shaders", "passesUp", "defaultRS",
           "passShaders", "dynamicCB", "hizUp", "gameDepth", "atmoUp", "lastSun", "sunSeen", "atmoCB",
           "celestialCB", "unmapped", "injected", "cloudsUp", "cloudsOn", "noise", "frameIndex"}

\* A device: every slot and every resource is there, and only the tier's own
\* shaders were compiled.
ShaderNames == TableShaders \cup {"CelestialBodies"} \cup CloudShaders
IsDevice(g) ==
  /\ DOMAIN g = Fields /\ DOMAIN g.bound = Slots /\ DOMAIN g.content = Resources
  /\ g.shaders \in Seq(ShaderNames) /\ g.passShaders \in Seq({CompositeName})

\* What the game has bound while it draws: inputs of its own, a target and a depth.
Drawing(b) ==
  /\ DOMAIN b = Slots
  /\ \A s \in Inputs : b[s] \subseteq {"gameTexture"}
  /\ b["cs_u0"] = Null
  /\ \E t \in Targets : b["om_rtv"] \in {Null, {t}}
  /\ \E d \in MainDepths : b["om_dsv"] \in {Null, {d}}

\* Lists of the tier's own passes, each priority in it once.
Has(list, priority) == \E i \in DOMAIN list : list[i].priority = priority
Single(list) ==
  \A i, j \in DOMAIN list : list[i].priority = list[j].priority => i = j
OwnPasses(list) ==
  \A i \in DOMAIN list : list[i].stage = "PostGeometry" /\ list[i].priority \in {HiZPriority, CloudsPriority}

-----------------------------------------------------------------------------
(* Binding.                                                                *)

\* Two devices that differ in the fields named alone; what a call takes from
\* other slots; what is bound for writing.
Same(g, h, changed) == \A x \in Fields \ changed : h[x] = g[x]
Taken(f) == UNION {f[s] : s \in DOMAIN f \cap Outputs}
Busy(g) == UNION {g.bound[o] : o \in Outputs}

\* What is bound after a call that loses nothing.
Puts(g, h, f) ==
  /\ IsDevice(h) /\ Same(g, h, {"bound"})
  /\ \A s \in Slots : h.bound[s] = IF s \in DOMAIN f THEN f[s] ELSE g.bound[s]

LEMMA SetPuts ==
  ASSUME NEW g, IsDevice(g), NEW f, DOMAIN f \subseteq Slots,
         \A s \in DOMAIN f \cap Inputs : f[s] \cap Busy(g) = {},
         \A s \in Views \ DOMAIN f : g.bound[s] \cap Taken(f) = {}
  PROVE  Puts(g, Set(g, f), f)
<1> DEFINE slots == DOMAIN f
           empty == {s \in slots \cap Inputs : Meets(f[s], Busy(g))}
                      \cup IF Taken(f) = {} THEN {} ELSE {s \in Views \ slots : Meets(g.bound[s], Taken(f))}
           new == [s \in Slots |-> IF s \in empty THEN Null ELSE IF s \in slots THEN f[s] ELSE g.bound[s]]
           h == Set(g, f)
<1>1. h = [g EXCEPT !.bound = new]
  BY Zenon DEF Set, Taken, Busy
<1>2. empty = {}
  BY DEF Meets
<1>3. \A s \in Slots : new[s] = IF s \in DOMAIN f THEN f[s] ELSE g.bound[s]
  BY <1>2
<1>4. DOMAIN new = Slots
  OBVIOUS
<1> HIDE DEF new, h
<1>5. h.bound = new /\ DOMAIN h = Fields
  BY <1>1 DEF IsDevice, Fields
<1>6. Same(g, h, {"bound"})
  BY <1>1 DEF IsDevice, Same, Fields
<1>7. h.content = g.content /\ h.shaders = g.shaders /\ h.passShaders = g.passShaders
  BY <1>6 DEF Same, Fields
<1>8. IsDevice(h)
  BY <1>4, <1>5, <1>7 DEF IsDevice
<1> QED
  BY <1>3, <1>5, <1>6, <1>8 DEF Puts, h

\* A least element, from the order that the library shows to be well-founded.
LEMMA LeastNatural ==
  ASSUME NEW T \in SUBSET Nat, T # {}
  PROVE  \E x \in T : \A y \in T : x <= y
<1> DEFINE R == OpToRel(<, Nat)
<1>1. IsWellFoundedOn(R, Nat)
  BY NatLessThanWellFounded, Zenon
<1>2. PICK x \in T : \A y \in T : ~(<<y, x>> \in R)
  <2> HIDE DEF R
  <2> QED BY <1>1, WFMin
<1>3. \A y \in T : ~(y < x)
  BY <1>2, Zenon DEF OpToRel
<1> QED
  BY <1>3

Turns(h, n, g, f, groups) ==
  h = [k \in 0 .. n |-> IF k = 0 THEN g ELSE Set(h[k - 1], Restrict(f, groups[k] \cap DOMAIN f))]

LEMMA TurnsGrow ==
  ASSUME NEW g, NEW f, NEW groups, NEW n \in Nat, NEW h, Turns(h, n, g, f, groups)
  PROVE  \E more : Turns(more, n + 1, g, f, groups)
<1> DEFINE Next1(x, k) == Set(x, Restrict(f, groups[k] \cap DOMAIN f))
           more == [k \in 0 .. n + 1 |-> IF k = n + 1 THEN Next1(h[n], n + 1) ELSE h[k]]
<1>1. \A k \in 0 .. n : h[k] = IF k = 0 THEN g ELSE Next1(h[k - 1], k)
  BY DEF Turns
<1> HIDE DEF Next1
<1>2. \A k \in 0 .. n + 1 : more[k] = IF k = 0 THEN g ELSE Next1(more[k - 1], k)
  <2> TAKE k \in 0 .. n + 1
  <2>1. CASE k = n + 1
    <3>1. k # 0 /\ k - 1 \in 0 .. n + 1 /\ k - 1 # n + 1 /\ k - 1 = n
      BY <2>1
    <3>2. more[k] = Next1(h[n], n + 1) /\ more[k - 1] = h[n]
      BY <2>1, <3>1
    <3> HIDE DEF more
    <3> QED BY <2>1, <3>1, <3>2
  <2>2. CASE k = 0
    BY <2>2, <1>1
  <2>3. CASE k # 0 /\ k # n + 1
    <3>1. k \in 0 .. n /\ k - 1 \in 0 .. n + 1 /\ k - 1 # n + 1
      BY <2>3
    <3>2. more[k] = h[k] /\ more[k - 1] = h[k - 1]
      BY <2>3, <3>1
    <3> HIDE DEF more
    <3> QED BY <1>1, <2>3, <3>1, <3>2
  <2> QED BY <2>1, <2>2, <2>3
<1>3. more = [k \in 0 .. n + 1 |-> more[k]]
  OBVIOUS
<1> HIDE DEF more
<1>4. more = [k \in 0 .. n + 1 |-> IF k = 0 THEN g ELSE Next1(more[k - 1], k)]
  BY <1>2, <1>3
<1> QED
  BY <1>4 DEF Turns, Next1

LEMMA TurnsExist ==
  ASSUME NEW g, NEW f, NEW groups, NEW n \in Nat
  PROVE  \E h : Turns(h, n, g, f, groups)
<1> DEFINE T == {m \in Nat : ~ \E h : Turns(h, m, g, f, groups)}
<1>1. SUFFICES ASSUME T # {} PROVE FALSE
  OBVIOUS
<1>2. PICK m \in T : \A y \in T : m <= y
  <2>1. T \in SUBSET Nat
    OBVIOUS
  <2> HIDE DEF T
  <2> QED BY <1>1, <2>1, LeastNatural
<1>3. m # 0
  <2>1. Turns([k \in 0 .. 0 |-> g], 0, g, f, groups)
    <3>1. \A k \in 0 .. 0 : k = 0
      OBVIOUS
    <3> QED BY <3>1 DEF Turns
  <2> QED BY <2>1
<1>4. m - 1 \in Nat /\ ~ (m <= m - 1) /\ m - 1 + 1 = m
  BY <1>3
<1>5. PICK h : Turns(h, m - 1, g, f, groups)
  BY <1>2, <1>4
<1> QED
  BY <1>2, <1>4, <1>5, TurnsGrow

LEMMA InTurn ==
  ASSUME NEW g, NEW f, NEW groups, Len(groups) \in Nat
  PROVE  \E h : Turns(h, Len(groups), g, f, groups) /\ SetInTurn(g, f, groups) = h[Len(groups)]
<1> DEFINE n == Len(groups)
<1>1. PICK h : h = CHOOSE x : Turns(x, n, g, f, groups)
  OBVIOUS
<1>2. Turns(h, n, g, f, groups)
  BY <1>1, TurnsExist
<1>3. SetInTurn(g, f, groups) = h[n]
  BY <1>1, Zenon DEF SetInTurn, Turns
<1> QED
  BY <1>2, <1>3

LEMMA SlotKinds ==
  /\ Inputs \subseteq Views /\ Outputs \subseteq Views /\ Views \subseteq Slots
  /\ Views = Inputs \cup Outputs /\ Inputs \cap Outputs = {}
  /\ Outputs = {"om_rtv", "om_dsv", "cs_u0"}
BY DEF Inputs, CsInputs, PsInputs, Outputs, Views, Slots, States

\* A device whose bindings are those of d but for the slots left, which hold
\* nothing that d is to be given back.
Held(d) == UNION {d[o] : o \in Outputs}
Back(g, d, left) ==
  /\ IsDevice(g)
  /\ \A s \in Slots \ left : g.bound[s] = d[s]
  /\ \A o \in Outputs : "gameTexture" \notin g.bound[o]
  /\ \A s \in left \cap Views : g.bound[s] \cap Held(d) = {}

LEMMA DrawingParts ==
  ASSUME NEW d, Drawing(d)
  PROVE  /\ \A s \in Inputs : d[s] \subseteq {"gameTexture"}
         /\ \A o \in Outputs : "gameTexture" \notin d[o]
         /\ \A o, p \in Outputs : o # p => d[o] \cap d[p] = {}
         /\ Held(d) = d["om_rtv"] \cup d["om_dsv"]
<1>1. PICK t \in Targets : d["om_rtv"] \in {Null, {t}}
  BY DEF Drawing
<1>2. PICK x \in MainDepths : d["om_dsv"] \in {Null, {x}}
  BY DEF Drawing
<1>3. t # "gameTexture" /\ x # "gameTexture" /\ t # x
  BY DEF Targets, MainDepths
<1>4. d["cs_u0"] = {}
  BY DEF Drawing, Null
<1>5. d["om_rtv"] \cap d["om_dsv"] = {} /\ "gameTexture" \notin d["om_rtv"] /\ "gameTexture" \notin d["om_dsv"]
  BY <1>1, <1>2, <1>3 DEF Null
<1> QED
  BY <1>4, <1>5, SlotKinds DEF Drawing, Held

LEMMA GroupBack ==
  ASSUME NEW g, NEW d, NEW left, NEW T, Drawing(d), Back(g, d, left), T \subseteq Slots
  PROVE  LET h == Set(g, Restrict(d, T))
         IN  Back(h, d, left \ T) /\ Same(g, h, {"bound"})
<1> DEFINE f == Restrict(d, T)
           h == Set(g, f)
<1>1. DOMAIN f = T /\ \A s \in T : f[s] = d[s]
  BY DEF Restrict
<1>2. Taken(f) \subseteq Held(d)
  BY <1>1 DEF Taken, Held
<1>3. \A s \in DOMAIN f \cap Inputs : f[s] \cap Busy(g) = {}
  BY <1>1, DrawingParts DEF Back, Busy
<1>4. ASSUME NEW s \in Views \ DOMAIN f PROVE g.bound[s] \cap Taken(f) = {}
  <2>1. CASE s \in left
    BY <1>2, <2>1 DEF Back
  <2>2. CASE s \notin left
    <3>1. g.bound[s] = d[s]
      BY <2>2, SlotKinds DEF Back
    <3>2. CASE s \in Inputs
      BY <3>1, <3>2, <1>1, DrawingParts DEF Taken
    <3>3. CASE s \in Outputs
      <4>1. \A o \in DOMAIN f \cap Outputs : f[o] \cap d[s] = {}
        BY <1>1, <1>4, <3>3, DrawingParts
      <4> QED BY <3>1, <4>1 DEF Taken
    <3> QED BY <3>2, <3>3, SlotKinds
  <2> QED BY <2>1, <2>2
<1> HIDE DEF f, h
<1>5. Puts(g, h, f)
  BY <1>1, <1>3, <1>4, SetPuts DEF Back, h
<1>6. \A s \in Slots : h.bound[s] = IF s \in T THEN d[s] ELSE g.bound[s]
  BY <1>1, <1>5 DEF Puts
<1>7. \A s \in Slots \ (left \ T) : h.bound[s] = d[s]
  BY <1>6 DEF Back
<1>8. \A o \in Outputs : "gameTexture" \notin h.bound[o]
  BY <1>6, SlotKinds, DrawingParts DEF Back
<1>9. \A s \in (left \ T) \cap Views : h.bound[s] \cap Held(d) = {}
  BY <1>6, SlotKinds DEF Back
<1> QED
  BY <1>5, <1>7, <1>8, <1>9 DEF Back, Puts, h, f

\* Once the groups have been bound again, nothing of them is left.
LEMMA InTurnBack ==
  ASSUME NEW g, NEW d, NEW left, NEW T, NEW groups, Drawing(d), Back(g, d, left), T \subseteq Slots,
         Len(groups) \in Nat, left \subseteq T,
         \A s \in left : \E k \in 1 .. Len(groups) : s \in groups[k]
  PROVE  LET h == SetInTurn(g, Restrict(d, T), groups)
         IN  Back(h, d, {}) /\ Same(g, h, {"bound"})
<1> DEFINE n == Len(groups)
           f == Restrict(d, T)
           Left(k) == {s \in left : ~ \E j \in 1 .. k : s \in groups[j]}
<1>1. PICK h : Turns(h, n, g, f, groups) /\ SetInTurn(g, f, groups) = h[n]
  BY InTurn
<1>2. \A k \in 0 .. n : h[k] = IF k = 0 THEN g ELSE Set(h[k - 1], Restrict(f, groups[k] \cap DOMAIN f))
  BY <1>1 DEF Turns
<1> DEFINE Good(k) == Back(h[k], d, Left(k)) /\ Same(g, h[k], {"bound"})
           Bad == {k \in 0 .. n : ~Good(k)}
<1>3. Good(0)
  <2>1. Left(0) = left
    OBVIOUS
  <2>2. h[0] = g
    <3>1. 0 \in 0 .. n
      OBVIOUS
    <3> HIDE DEF n, f
    <3> QED BY <1>2, <3>1, Zenon
  <2> QED BY <2>1, <2>2 DEF Same
<1>4. ASSUME NEW k \in 1 .. n, Good(k - 1) PROVE Good(k)
  <2> DEFINE U == groups[k] \cap T
  <2>1. h[k] = Set(h[k - 1], Restrict(f, groups[k] \cap DOMAIN f))
    BY <1>2
  <2>2. Restrict(f, groups[k] \cap DOMAIN f) = Restrict(d, U)
    BY DEF Restrict
  <2>3. U \subseteq Slots /\ Left(k) = Left(k - 1) \ U
    <3>1. \A j : j \in 1 .. k <=> (j \in 1 .. k - 1 \/ j = k)
      OBVIOUS
    <3> QED BY <3>1
  <2> HIDE DEF U, Left
  <2>4. Back(h[k], d, Left(k)) /\ Same(h[k - 1], h[k], {"bound"})
    BY <1>4, <2>1, <2>2, <2>3, GroupBack
  <2> QED
    BY <1>4, <2>4 DEF Same
<1>5. Bad = {}
  <2> SUFFICES ASSUME Bad # {} PROVE FALSE
    OBVIOUS
  <2>1. Bad \in SUBSET Nat
    OBVIOUS
  <2>2. PICK k \in Bad : \A y \in Bad : k <= y
    <3> HIDE DEF Bad
    <3> QED BY <2>1, LeastNatural
  <2>3. k \in 0 .. n /\ ~Good(k)
    OBVIOUS
  <2> HIDE DEF Good
  <2>4. k # 0
    BY <1>3, <2>3
  <2>5. k \in 1 .. n /\ k - 1 \in 0 .. n /\ ~(k <= k - 1)
    BY <2>3, <2>4
  <2>6. Good(k - 1)
    BY <2>2, <2>5
  <2> QED
    BY <1>4, <2>3, <2>5, <2>6
<1>6. Good(n)
  <2>1. n \in 0 .. n
    OBVIOUS
  <2> HIDE DEF Good
  <2> QED BY <1>5, <2>1
<1>7. Left(n) = {}
  OBVIOUS
<1> QED
  BY <1>1, <1>6, <1>7

-----------------------------------------------------------------------------
(* Draws and dispatches.                                                   *)

Stamps(g, inputs) == [i \in inputs |-> {g.content[r] : r \in g.bound[i]}]
Draw(g, shader, inputs) == [shader |-> shader, stamps |-> Stamps(g, inputs)]

LEMMA IssueWrites ==
  ASSUME NEW g, IsDevice(g), NEW shader, NEW inputs, NEW outputs, NEW stamp
  PROVE  LET h == Issue(g, shader, inputs, outputs, stamp)
         IN  /\ IsDevice(h) /\ Same(g, h, {"content", "drawn"})
             /\ \A r \in Resources : h.content[r] = IF \E o \in outputs : r \in g.bound[o] THEN stamp
                                                                                           ELSE g.content[r]
             /\ h.drawn = g.drawn \cup {Draw(g, shader, inputs)}
<1> DEFINE written == UNION {g.bound[o] : o \in outputs}
           new == [r \in Resources |-> IF r \in written THEN stamp ELSE g.content[r]]
           more == g.drawn \cup {Draw(g, shader, inputs)}
           h == Issue(g, shader, inputs, outputs, stamp)
<1>1. h = [g EXCEPT !.content = new, !.drawn = more]
  BY Zenon DEF Issue, Draw, Stamps, IsDevice
<1>2. DOMAIN new = Resources
  OBVIOUS
<1>3. \A r \in Resources : new[r] = IF \E o \in outputs : r \in g.bound[o] THEN stamp ELSE g.content[r]
  OBVIOUS
<1> HIDE DEF new, more, h
<1>4. h.content = new /\ h.drawn = more /\ DOMAIN h = Fields
  BY <1>1 DEF IsDevice, Fields
<1>5. Same(g, h, {"content", "drawn"})
  BY <1>1 DEF IsDevice, Same, Fields
<1>6. h.bound = g.bound /\ h.shaders = g.shaders /\ h.passShaders = g.passShaders
  BY <1>5 DEF Same, Fields
<1>7. IsDevice(h)
  BY <1>2, <1>4, <1>6 DEF IsDevice
<1> QED
  BY <1>3, <1>4, <1>5, <1>7 DEF h, more

\* A resource is written.
LEMMA Writes ==
  ASSUME NEW g, IsDevice(g), NEW resource \in Resources, NEW stamp
  PROVE  LET h == Write(g, resource, stamp)
         IN  /\ IsDevice(h) /\ Same(g, h, {"content"})
             /\ \A r \in Resources : h.content[r] = IF r = resource THEN stamp ELSE g.content[r]
<1> DEFINE h == Write(g, resource, stamp)
           new == [g.content EXCEPT ![resource] = stamp]
<1>1. h = [g EXCEPT !.content = new]
  BY Zenon DEF Write
<1>2. DOMAIN new = Resources /\ \A r \in Resources : new[r] = IF r = resource THEN stamp ELSE g.content[r]
  BY DEF IsDevice
<1> HIDE DEF new, h
<1>3. h.content = new /\ DOMAIN h = Fields
  BY <1>1 DEF IsDevice, Fields
<1>4. Same(g, h, {"content"})
  BY <1>1 DEF IsDevice, Same, Fields
<1>5. h.bound = g.bound /\ h.shaders = g.shaders /\ h.passShaders = g.passShaders
  BY <1>4 DEF Same, Fields
<1> QED
  BY <1>2, <1>3, <1>4, <1>5 DEF IsDevice, h

-----------------------------------------------------------------------------
(* The pyramid.                                                            *)

LEMMA Levels ==
  /\ MipCount \in 1 .. 14
  /\ \A k \in 0 .. 13 : k + 1 \in DOMAIN MipNames /\ k + 1 \in 1 .. 14
  /\ Pyramid \subseteq Resources
<1> DEFINE powers(side) == {k \in 1 .. kMaxMips - 1 : 2 ^ k <= side}
<1>1. \A side : Cardinality(powers(side)) \in 0 .. 13
  <2> TAKE side
  <2>1. kMaxMips - 1 = 13 /\ powers(side) \subseteq 1 .. 13
    BY DEF kMaxMips
  <2> HIDE DEF powers
  <2>2. IsFiniteSet(1 .. 13) /\ Cardinality(1 .. 13) = 13
    <3>1. PICK n \in Nat : n = 13
      OBVIOUS
    <3>2. 1 \in Int /\ n \in Int
      OBVIOUS
    <3>4. IsFiniteSet(1 .. n) /\ Cardinality(1 .. n) = IF 1 > n THEN 0 ELSE n - 1 + 1
      BY <3>2, FS_Interval, Zenon
    <3>3. (IF 1 > n THEN 0 ELSE n - 1 + 1) = n
      BY <3>1
    <3> QED BY <3>1, <3>3, <3>4, Zenon
  <2>3. IsFiniteSet(powers(side)) /\ Cardinality(powers(side)) <= Cardinality(1 .. 13)
    BY <2>1, <2>2, FS_Subset
  <2>4. Cardinality(powers(side)) \in Nat
    BY <2>3, FS_CardinalityType
  <2> QED
    BY <2>2, <2>3, <2>4
<1>2. \E side : MipCount = 1 + Cardinality(powers(side))
  BY Zenon DEF MipCount
<1> HIDE DEF powers
<1>3. MipCount \in 1 .. 14
  BY <1>1, <1>2
<1>4. Len(MipNames) = 14 /\ DOMAIN MipNames = 1 .. 14
  BY DEF MipNames
<1> QED
  BY <1>3, <1>4 DEF Resources

OtherNames == Depths \cup Targets \cup Sky
              \cup {"gameTexture", "shapeNoise", "detailNoise", "cloud", "history", "sceneCopy"}
LEMMA MipsApart ==
  /\ \A i \in 1 .. 14 : MipNames[i] \notin OtherNames
  /\ \A i, j \in 1 .. 14 : MipNames[i] = MipNames[j] => i = j
  /\ Pyramid \cap OtherNames = {}
<1>1. \A i \in 1 .. 14 : i = 1 \/ i = 2 \/ i = 3 \/ i = 4 \/ i = 5 \/ i = 6 \/ i = 7
                          \/ i = 8 \/ i = 9 \/ i = 10 \/ i = 11 \/ i = 12 \/ i = 13 \/ i = 14
  OBVIOUS
<1>2. /\ MipNames[1] = "mip0" /\ MipNames[2] = "mip1" /\ MipNames[3] = "mip2" /\ MipNames[4] = "mip3"
      /\ MipNames[5] = "mip4" /\ MipNames[6] = "mip5" /\ MipNames[7] = "mip6" /\ MipNames[8] = "mip7"
      /\ MipNames[9] = "mip8" /\ MipNames[10] = "mip9" /\ MipNames[11] = "mip10" /\ MipNames[12] = "mip11"
      /\ MipNames[13] = "mip12" /\ MipNames[14] = "mip13"
  BY DEF MipNames
<1>3. \A i \in 1 .. 14 : MipNames[i] \notin OtherNames
  BY <1>1, <1>2 DEF OtherNames, Depths, MainDepths, Targets, Sky, Tables
<1>4. \A i, j \in 1 .. 14 : MipNames[i] = MipNames[j] => i = j
  BY <1>1, <1>2
<1>5. \A k \in 0 .. MipCount - 1 : Mip(k) \notin OtherNames
  BY <1>3, Levels DEF Mip
<1> QED
  BY <1>3, <1>4, <1>5 DEF Pyramid

\* The passes start from the game's inputs and no targets.
Calm(g) ==
  /\ IsDevice(g)
  /\ \A s \in Inputs : g.bound[s] \subseteq {"gameTexture"}
  /\ \A o \in Outputs : g.bound[o] = Null
Others == Slots \ {"cs", "cs_t0", "cs_u0", "cs_b0"}
Free(g, base) == IsDevice(g) /\ \A s \in Others : g.bound[s] = base.bound[s]

LEMMA OtherSlots ==
  /\ Inputs \ {"cs_t0"} \subseteq Others /\ {"om_rtv", "om_dsv"} \subseteq Others
  /\ {"cs", "cs_t0", "cs_u0", "cs_b0"} \subseteq Slots /\ "cs_t0" \in Inputs
  /\ "cs" \notin Views /\ "cs_b0" \notin Views
BY DEF Others, Slots, Views, Inputs, CsInputs, PsInputs, Outputs, States

LEMMA BindPuts ==
  ASSUME NEW base, Calm(base), NEW g, Free(g, base), NEW k \in 0 .. MipCount - 1, NEW input,
         Mip(k) \notin input, NEW h, h = Bind(g, input, k)
  PROVE  /\ IsDevice(h) /\ Same(g, h, {"bound"})
         /\ \A s \in Slots : h.bound[s] = IF s = "cs_t0" THEN input
                                          ELSE IF s = "cs_u0" THEN {Mip(k)} ELSE g.bound[s]
<1> DEFINE f1 == Nothing({"cs_u0"})
           f2 == [slot \in {"cs_t0"} |-> input]
           f3 == [slot \in {"cs_u0"} |-> {Mip(k)}]
<1>0. Mip(k) # "gameTexture" /\ IsDevice(g)
  BY MipsApart DEF Pyramid, OtherNames, Free
<1>1. /\ DOMAIN f1 = {"cs_u0"} /\ f1["cs_u0"] = {} /\ DOMAIN f2 = {"cs_t0"} /\ f2["cs_t0"] = input
      /\ DOMAIN f3 = {"cs_u0"} /\ f3["cs_u0"] = {Mip(k)}
  BY DEF Nothing, Null
<1>2. PICK g1 : g1 = Set(g, f1)
  OBVIOUS
<1>3. PICK g2 : g2 = Set(g1, f2)
  OBVIOUS
<1>4. h = Set(g2, f3)
  BY <1>2, <1>3 DEF Bind
<1> HIDE DEF f1, f2, f3
<1>6. Puts(g, g1, f1)
  BY <1>0, <1>1, <1>2, SlotKinds, OtherSlots, SetPuts DEF Taken
<1>7. Busy(g1) = {}
  BY <1>1, <1>6, SlotKinds, OtherSlots DEF Busy, Puts, Free, Calm, Null
<1>8. Puts(g1, g2, f2)
  BY <1>1, <1>3, <1>6, <1>7, SlotKinds, OtherSlots, SetPuts DEF Taken, Puts
<1>9. ASSUME NEW s \in Views \ DOMAIN f3 PROVE g2.bound[s] \cap Taken(f3) = {}
  <2>1. Taken(f3) = {Mip(k)}
    BY <1>1, SlotKinds DEF Taken
  <2>2. CASE s = "cs_t0"
    BY <1>1, <1>8, <2>1, <2>2, OtherSlots DEF Puts
  <2>3. CASE s \in Inputs \ {"cs_t0"}
    BY <1>0, <1>1, <1>6, <1>8, <2>1, <2>3, OtherSlots, SlotKinds DEF Puts, Free, Calm
  <2>4. CASE s \in {"om_rtv", "om_dsv"}
    BY <1>1, <1>6, <1>8, <2>1, <2>4, OtherSlots, SlotKinds DEF Puts, Free, Calm, Null
  <2> QED BY <1>1, <2>2, <2>3, <2>4, SlotKinds
<1>10. Puts(g2, h, f3)
  BY <1>1, <1>4, <1>8, <1>9, SlotKinds, OtherSlots, SetPuts DEF Puts
<1>11. Same(g, h, {"bound"})
  BY <1>6, <1>8, <1>10 DEF Puts, Same
<1>12. \A s \in Slots : h.bound[s] = IF s = "cs_t0" THEN input
                                     ELSE IF s = "cs_u0" THEN {Mip(k)} ELSE g.bound[s]
  BY <1>1, <1>6, <1>8, <1>10 DEF Puts
<1> QED
  BY <1>10, <1>11, <1>12 DEF Puts

\* A shader, a state or a buffer can be bound at any time.
LEMMA StatePuts ==
  ASSUME NEW g, IsDevice(g), NEW f, DOMAIN f \subseteq Slots \ Views
  PROVE  Puts(g, Set(g, f), f)
<1>1. DOMAIN f \cap Inputs = {} /\ DOMAIN f \cap Outputs = {} /\ DOMAIN f \subseteq Slots
  BY SlotKinds
<1>2. Taken(f) = {}
  BY <1>1 DEF Taken
<1> QED
  BY <1>1, <1>2, SetPuts

Seen(g, f) == \E m \in Depths : g.gameDepth = {m} /\ g.content[m] = f
PyramidDraw(x, g, f) ==
  /\ x.shader \in {"CopyCS", "DownsampleCS"}
  /\ Seen(g, f) => x.stamps["cs_t0"] = {IF x.shader = "CopyCS" THEN f ELSE -f}

\* The device after the levels up to k, for a pyramid begun on base.
Level(x, k, base, f) ==
  /\ Free(x, base) /\ Same(base, x, {"bound", "content", "drawn"})
  /\ \A r \in Resources \ Pyramid : x.content[r] = base.content[r]
  /\ Seen(base, f) => \A j \in 0 .. k : x.content[Mip(j)] = -f
  /\ base.drawn \subseteq x.drawn /\ \A y \in x.drawn \ base.drawn : PyramidDraw(y, base, f)

LEMMA CopyLevel ==
  ASSUME NEW base, Calm(base), NEW f \in Int, base.gameDepth \in {{m} : m \in Depths}
  PROVE  Level(Set(CopyDepth(base), [slot \in {"cs"} |-> {"DownsampleCS"}]), 0, base, f)
<1> DEFINE f1 == [slot \in {"cs"} |-> {"CopyCS"}]
           f2 == [slot \in {"cs_b0"} |-> {"HiZParams"}]
           f3 == [slot \in {"cs"} |-> {"DownsampleCS"}]
<1>1. /\ DOMAIN f1 = {"cs"} /\ DOMAIN f2 = {"cs_b0"} /\ DOMAIN f3 = {"cs"}
  OBVIOUS
<1>2. PICK m \in Depths : base.gameDepth = {m}
  OBVIOUS
<1>3. Mip(0) \in Pyramid /\ Mip(0) \in Resources /\ m \in Resources /\ m \notin Pyramid /\ 0 \in 0 .. MipCount - 1
  <2>1. 0 \in 0 .. MipCount - 1
    BY Levels
  <2> QED BY <2>1, Levels, MipsApart DEF Pyramid, Resources, OtherNames
<1>4. PICK g1 : g1 = Set(base, f1)
  OBVIOUS
<1>5. PICK g2 : g2 = Bind(g1, {m}, 0)
  OBVIOUS
<1>6. PICK g3 : g3 = Set(g2, f2)
  OBVIOUS
<1>7. PICK stamp : stamp = Reversed(StampAt(g3, "cs_t0"))
  OBVIOUS
<1>8. PICK g4 : g4 = Issue(g3, "CopyCS", {"cs_t0"}, {"cs_u0"}, stamp)
  OBVIOUS
<1>9. PICK h : h = Set(g4, f3)
  OBVIOUS
<1> HIDE DEF f1, f2, f3
<1>10. Puts(base, g1, f1)
  BY <1>1, <1>4, OtherSlots, StatePuts DEF Calm
<1>11. Free(g1, base) /\ DepthView(g1) = {m}
  <2>1. Free(g1, base)
    BY <1>1, <1>10 DEF Puts, Free, Others
  <2>2. g1.bound["om_dsv"] = {}
    BY <2>1, OtherSlots, SlotKinds DEF Free, Calm, Null
  <2>3. g1.gameDepth = {m}
    BY <1>2, <1>10 DEF Puts, Same, Fields
  <2> QED BY <2>1, <2>2, <2>3 DEF DepthView, Null
<1>12. /\ IsDevice(g2) /\ Same(g1, g2, {"bound"})
       /\ \A s \in Slots : g2.bound[s] = IF s = "cs_t0" THEN {m} ELSE IF s = "cs_u0" THEN {Mip(0)} ELSE g1.bound[s]
  <2>1. Mip(0) \notin {m}
    BY <1>3
  <2> QED BY <1>3, <1>5, <1>11, <2>1, BindPuts
<1>13. Puts(g2, g3, f2)
  BY <1>1, <1>6, <1>12, OtherSlots, StatePuts
<1>14. /\ IsDevice(g4) /\ Same(g3, g4, {"content", "drawn"})
       /\ \A r \in Resources : g4.content[r] = IF \E o \in {"cs_u0"} : r \in g3.bound[o] THEN stamp ELSE g3.content[r]
       /\ g4.drawn = g3.drawn \cup {Draw(g3, "CopyCS", {"cs_t0"})}
  BY <1>8, <1>13, IssueWrites DEF Puts
<1>15. Puts(g4, h, f3)
  BY <1>1, <1>9, <1>14, OtherSlots, StatePuts
<1>16. g3.bound["cs_t0"] = {m} /\ g3.bound["cs_u0"] = {Mip(0)}
  BY <1>1, <1>12, <1>13, OtherSlots DEF Puts
<1>17. g3.content = base.content /\ g3.drawn = base.drawn
  BY <1>10, <1>12, <1>13 DEF Puts, Same, Fields
<1>18. stamp = -base.content[m]
  <2>1. StampAt(g3, "cs_t0") = base.content[m]
    BY <1>16, <1>17 DEF StampAt, Null
  <2> QED BY <1>7, <2>1 DEF Reversed
<1>19. h.content = g4.content /\ h.drawn = g4.drawn
  BY <1>15 DEF Puts, Same, Fields
<1>20. Same(base, h, {"bound", "content", "drawn"})
  BY <1>10, <1>12, <1>13, <1>14, <1>15 DEF Puts, Same
<1>21. Free(h, base)
  <2>1. g4.bound = g3.bound
    BY <1>14 DEF Same, Fields
  <2> QED BY <1>1, <1>11, <1>12, <1>13, <1>15, <2>1 DEF Puts, Free, Others
<1>22. \A r \in Resources \ Pyramid : h.content[r] = base.content[r]
  BY <1>3, <1>14, <1>16, <1>17, <1>19
<1>23. Seen(base, f) => base.content[m] = f
  BY <1>2 DEF Seen
<1>24. Seen(base, f) => \A j \in 0 .. 0 : h.content[Mip(j)] = -f
  <2>1. h.content[Mip(0)] = stamp /\ \A j \in 0 .. 0 : j = 0
    BY <1>3, <1>14, <1>16, <1>19
  <2> QED BY <1>18, <1>23, <2>1
<1>25. PyramidDraw(Draw(g3, "CopyCS", {"cs_t0"}), base, f)
  BY <1>16, <1>17, <1>23 DEF PyramidDraw, Draw, Stamps
<1>26. Level(h, 0, base, f)
  BY <1>14, <1>17, <1>19, <1>20, <1>21, <1>22, <1>24, <1>25 DEF Level
<1>27. DepthView(base) = {m}
  <2>1. base.bound["om_dsv"] = {}
    BY SlotKinds DEF Calm, Null
  <2> QED BY <1>2, <2>1 DEF DepthView, Null
<1>28. CopyDepth(base) = g4
  BY <1>4, <1>5, <1>6, <1>7, <1>8, <1>27 DEF CopyDepth, f1, f2
<1> QED
  BY <1>9, <1>26, <1>28 DEF f3

LEMMA DownLevel ==
  ASSUME NEW base, Calm(base), NEW f \in Int, NEW k \in 1 .. MipCount - 1, NEW x, Level(x, k - 1, base, f)
  PROVE  Level(Downsample(x, k), k, base, f)
<1>1. /\ k \in 0 .. MipCount - 1 /\ k - 1 \in 0 .. MipCount - 1
      /\ k + 1 \in 1 .. 14 /\ k \in 1 .. 14 /\ k # k + 1 /\ (k - 1) + 1 = k
  BY Levels
<1>2. Mip(k) = MipNames[k + 1] /\ Mip(k - 1) = MipNames[k]
  BY <1>1 DEF Mip
<1>3. Mip(k) # Mip(k - 1)
  <2>1. MipNames[k + 1] # MipNames[k]
    BY <1>1, MipsApart
  <2> QED BY <1>2, <2>1
<1>4. Mip(k) \in Pyramid /\ Mip(k - 1) \in Pyramid /\ Mip(k) \in Resources /\ Mip(k - 1) \in Resources
  BY <1>1, Levels DEF Pyramid
<1>5. PICK g1 : g1 = Bind(x, {Mip(k - 1)}, k)
  OBVIOUS
<1>6. PICK stamp : stamp = Downsampled(StampAt(g1, "cs_t0"))
  OBVIOUS
<1>7. PICK h : h = Issue(g1, "DownsampleCS", {"cs_t0"}, {"cs_u0"}, stamp)
  OBVIOUS
<1>8. Downsample(x, k) = h
  BY <1>5, <1>6, <1>7 DEF Downsample
<1>9. /\ IsDevice(g1) /\ Same(x, g1, {"bound"})
      /\ \A s \in Slots : g1.bound[s] = IF s = "cs_t0" THEN {Mip(k - 1)}
                                        ELSE IF s = "cs_u0" THEN {Mip(k)} ELSE x.bound[s]
  <2>1. PICK input : input = {Mip(k - 1)}
    OBVIOUS
  <2>2. Mip(k) \notin input /\ Free(x, base) /\ g1 = Bind(x, input, k)
    BY <1>3, <1>5, <2>1 DEF Level
  <2>3. /\ IsDevice(g1) /\ Same(x, g1, {"bound"})
        /\ \A s \in Slots : g1.bound[s] = IF s = "cs_t0" THEN input
                                          ELSE IF s = "cs_u0" THEN {Mip(k)} ELSE x.bound[s]
    <3>1. k \in 0 .. MipCount - 1
      BY <1>1
    <3> QED BY <2>2, <3>1, BindPuts
  <2> QED BY <2>1, <2>3
<1>10. /\ IsDevice(h) /\ Same(g1, h, {"content", "drawn"})
       /\ \A r \in Resources : h.content[r] = IF \E o \in {"cs_u0"} : r \in g1.bound[o] THEN stamp ELSE g1.content[r]
       /\ h.drawn = g1.drawn \cup {Draw(g1, "DownsampleCS", {"cs_t0"})}
  BY <1>7, <1>9, IssueWrites
<1>11. g1.bound["cs_t0"] = {Mip(k - 1)} /\ g1.bound["cs_u0"] = {Mip(k)}
  BY <1>9, OtherSlots
<1>12. g1.content = x.content /\ g1.drawn = x.drawn /\ h.bound = g1.bound
  BY <1>9, <1>10 DEF Same, Fields
<1>13. stamp = x.content[Mip(k - 1)]
  BY <1>6, <1>11, <1>12 DEF StampAt, Null, Downsampled
<1>14. Free(h, base)
  BY <1>9, <1>10, <1>12 DEF Level, Free, Others
<1>15. Same(base, h, {"bound", "content", "drawn"})
  BY <1>9, <1>10 DEF Level, Same
<1>16. \A r \in Resources : h.content[r] = IF r = Mip(k) THEN stamp ELSE x.content[r]
  BY <1>10, <1>11, <1>12
<1>17. \A r \in Resources \ Pyramid : h.content[r] = base.content[r]
  BY <1>4, <1>16 DEF Level
<1>18. ASSUME Seen(base, f) PROVE x.content[Mip(k - 1)] = -f /\ \A j \in 0 .. k : h.content[Mip(j)] = -f
  <2>1. \A j \in 0 .. k - 1 : x.content[Mip(j)] = -f
    BY <1>18 DEF Level
  <2>2. k - 1 \in 0 .. k - 1
    BY <1>1
  <2>3. x.content[Mip(k - 1)] = -f
    BY <2>1, <2>2
  <2>4. ASSUME NEW j \in 0 .. k PROVE h.content[Mip(j)] = -f
    <3>1. CASE j = k
      BY <1>4, <1>13, <1>16, <2>3, <3>1
    <3>2. CASE j # k
      <4>1. j \in 0 .. k - 1 /\ j \in 0 .. MipCount - 1
        BY <1>1, <3>2, Levels
      <4>2. Mip(j) \in Resources
        BY <4>1, Levels DEF Pyramid
      <4> QED BY <1>13, <1>16, <2>1, <2>3, <4>1, <4>2
    <3> QED BY <3>1, <3>2
  <2> QED BY <2>3, <2>4
<1>19. PyramidDraw(Draw(g1, "DownsampleCS", {"cs_t0"}), base, f)
  BY <1>11, <1>12, <1>18 DEF PyramidDraw, Draw, Stamps
<1>20. Level(h, k, base, f)
  BY <1>10, <1>12, <1>14, <1>15, <1>17, <1>18, <1>19 DEF Level
<1> QED
  BY <1>8, <1>20

LevelsUpTo(h, n, g) ==
  h = [k \in 0 .. n |-> IF k = 0 THEN Set(CopyDepth(g), [slot \in {"cs"} |-> {"DownsampleCS"}])
                                 ELSE Downsample(h[k - 1], k)]

LEMMA LevelsGrow ==
  ASSUME NEW g, NEW n \in Nat, NEW h, LevelsUpTo(h, n, g)
  PROVE  \E more : LevelsUpTo(more, n + 1, g)
<1> DEFINE first == Set(CopyDepth(g), [slot \in {"cs"} |-> {"DownsampleCS"}])
           more == [k \in 0 .. n + 1 |-> IF k = n + 1 THEN Downsample(h[n], n + 1) ELSE h[k]]
<1>1. \A k \in 0 .. n : h[k] = IF k = 0 THEN first ELSE Downsample(h[k - 1], k)
  BY DEF LevelsUpTo
<1> HIDE DEF first
<1>2. \A k \in 0 .. n + 1 : more[k] = IF k = 0 THEN first ELSE Downsample(more[k - 1], k)
  <2> TAKE k \in 0 .. n + 1
  <2>1. CASE k = n + 1
    <3>1. k # 0 /\ k - 1 \in 0 .. n + 1 /\ k - 1 # n + 1 /\ k - 1 = n
      BY <2>1
    <3>2. more[k] = Downsample(h[n], n + 1) /\ more[k - 1] = h[n]
      BY <2>1, <3>1
    <3> HIDE DEF more
    <3> QED BY <2>1, <3>1, <3>2
  <2>2. CASE k = 0
    BY <2>2, <1>1
  <2>3. CASE k # 0 /\ k # n + 1
    <3>1. k \in 0 .. n /\ k - 1 \in 0 .. n + 1 /\ k - 1 # n + 1
      BY <2>3
    <3>2. more[k] = h[k] /\ more[k - 1] = h[k - 1]
      BY <2>3, <3>1
    <3> HIDE DEF more
    <3> QED BY <1>1, <2>3, <3>1, <3>2
  <2> QED BY <2>1, <2>2, <2>3
<1>3. more = [k \in 0 .. n + 1 |-> more[k]]
  OBVIOUS
<1> HIDE DEF more
<1>4. more = [k \in 0 .. n + 1 |-> IF k = 0 THEN first ELSE Downsample(more[k - 1], k)]
  BY <1>2, <1>3
<1> QED
  BY <1>4 DEF LevelsUpTo, first

LEMMA LevelsExist ==
  ASSUME NEW g, NEW n \in Nat
  PROVE  \E h : LevelsUpTo(h, n, g)
<1> DEFINE T == {m \in Nat : ~ \E h : LevelsUpTo(h, m, g)}
           first == Set(CopyDepth(g), [slot \in {"cs"} |-> {"DownsampleCS"}])
<1>1. SUFFICES ASSUME T # {} PROVE FALSE
  OBVIOUS
<1>2. PICK m \in T : \A y \in T : m <= y
  <2>1. T \in SUBSET Nat
    OBVIOUS
  <2> HIDE DEF T
  <2> QED BY <1>1, <2>1, LeastNatural
<1>3. m # 0
  <2>1. LevelsUpTo([k \in 0 .. 0 |-> first], 0, g)
    <3>1. \A k \in 0 .. 0 : k = 0
      OBVIOUS
    <3> HIDE DEF first
    <3>2. [k \in 0 .. 0 |-> first] = [k \in 0 .. 0 |-> IF k = 0 THEN first ELSE Downsample([i \in 0 .. 0 |-> first][k - 1], k)]
      BY <3>1
    <3> QED BY <3>2 DEF LevelsUpTo, first
  <2> QED BY <2>1
<1>4. m - 1 \in Nat /\ ~ (m <= m - 1) /\ m - 1 + 1 = m
  BY <1>3
<1>5. PICK h : LevelsUpTo(h, m - 1, g)
  BY <1>2, <1>4
<1> QED
  BY <1>2, <1>4, <1>5, LevelsGrow

\* All the levels, whatever the size of the back buffer.
LEMMA AllLevels ==
  ASSUME NEW g, Calm(g), NEW f \in Int, g.gameDepth \in {{m} : m \in Depths}
  PROVE  Level(BuildLevels(g), MipCount - 1, g, f)
<1>1. PICK n : n = MipCount - 1
  OBVIOUS
<1>2. n \in Nat
  BY <1>1, Levels
<1>3. PICK h : h = CHOOSE x : LevelsUpTo(x, n, g)
  OBVIOUS
<1>4. LevelsUpTo(h, n, g)
  BY <1>2, <1>3, LevelsExist
<1>5. BuildLevels(g) = h[n]
  BY <1>1, <1>3, Zenon DEF BuildLevels, LevelsUpTo
<1> DEFINE first == Set(CopyDepth(g), [slot \in {"cs"} |-> {"DownsampleCS"}])
           Good(k) == Level(h[k], k, g, f)
           Bad == {k \in 0 .. n : ~Good(k)}
<1>6. \A k \in 0 .. n : h[k] = IF k = 0 THEN first ELSE Downsample(h[k - 1], k)
  BY <1>4 DEF LevelsUpTo
<1>7. Good(0)
  <2>1. 0 \in 0 .. n
    BY <1>2
  <2>2. Level(first, 0, g, f)
    BY CopyLevel
  <2> HIDE DEF first
  <2>3. h[0] = first
    BY <1>6, <2>1, Zenon
  <2> QED BY <2>2, <2>3
<1>8. ASSUME NEW k \in 1 .. n, Good(k - 1) PROVE Good(k)
  <2>1. k \in 0 .. n /\ k # 0 /\ k \in 1 .. MipCount - 1
    BY <1>1, <1>2
  <2> HIDE DEF first
  <2>2. h[k] = Downsample(h[k - 1], k)
    BY <1>6, <2>1
  <2> QED BY <1>8, <2>1, <2>2, DownLevel
<1> HIDE DEF Good
<1>9. Bad = {}
  <2> SUFFICES ASSUME Bad # {} PROVE FALSE
    OBVIOUS
  <2>1. Bad \in SUBSET Nat
    BY <1>2
  <2>2. PICK k \in Bad : \A y \in Bad : k <= y
    <3> HIDE DEF Bad
    <3> QED BY <2>1, LeastNatural
  <2>3. k \in 0 .. n /\ ~Good(k)
    OBVIOUS
  <2>4. k # 0
    BY <1>7, <2>3
  <2>5. k \in 1 .. n /\ k - 1 \in 0 .. n /\ ~(k <= k - 1)
    BY <1>2, <2>3, <2>4
  <2>6. Good(k - 1)
    BY <2>2, <2>5
  <2> QED
    BY <1>8, <2>3, <2>5, <2>6
<1>10. Good(n)
  <2>1. n \in 0 .. n
    BY <1>2
  <2> QED BY <1>9, <2>1
<1> QED
  BY <1>1, <1>5, <1>10 DEF Good

LEMMA CalmDraws ==
  ASSUME NEW g, Calm(g)
  PROVE  Drawing(g.bound) /\ Held(g.bound) = {}
<1>1. "scene" \in Targets /\ "depth1" \in MainDepths
  BY DEF Targets, MainDepths
<1> QED
  BY <1>1, SlotKinds DEF Calm, IsDevice, Drawing, Held, Null

\* What a pass leaves as it was: everything that is bound, and what changed does not name.
Leaves(g, h, changed) ==
  /\ IsDevice(h) /\ Same(g, h, changed \cup {"bound"})
  /\ \A s \in Slots : h.bound[s] = g.bound[s]

LEMMA PyramidBuilt ==
  ASSUME NEW g, Calm(g), NEW f \in Int, g.gameDepth \in {Null} \cup {{m} : m \in Depths},
         NEW h, h = BuildPyramid(g)
  PROVE  /\ Leaves(g, h, {"content", "drawn"})
         /\ \A r \in Resources \ Pyramid : h.content[r] = g.content[r]
         /\ g.hizUp /\ Seen(g, f) => \A r \in Pyramid : h.content[r] = -f
         /\ g.drawn \subseteq h.drawn /\ \A y \in h.drawn \ g.drawn : PyramidDraw(y, g, f)
<1> DEFINE none == Nothing({"cs_u0"})
           T == {"cs", "cs_t0", "cs_u0", "cs_b0"}
           groups == <<{"cs"}, {"cs_t0"}, {"cs_u0"}, {"cs_b0"}>>
<1>1. CASE ~g.hizUp \/ DepthView(g) = Null
  <2>1. h = g
    BY <1>1 DEF BuildPyramid
  <2>2. DepthView(g) = g.gameDepth
    BY SlotKinds DEF Calm, DepthView
  <2>3. ~(g.hizUp /\ Seen(g, f))
    BY <1>1, <2>2 DEF Seen, Null
  <2> QED BY <2>1, <2>3 DEF Leaves, Same, Calm
<1>2. CASE g.hizUp /\ DepthView(g) # Null
  <2>1. g.gameDepth \in {{m} : m \in Depths}
    BY <1>2, SlotKinds DEF Calm, DepthView
  <2>2. PICK x : x = BuildLevels(g)
    OBVIOUS
  <2>3. Level(x, MipCount - 1, g, f)
    BY <2>1, <2>2, AllLevels
  <2>4. PICK empty : empty = Set(x, none)
    OBVIOUS
  <2>5. DOMAIN none = {"cs_u0"} /\ none["cs_u0"] = {}
    BY DEF Nothing, Null
  <2>6. h = SetInTurn(empty, Restrict(g.bound, T), groups)
    BY <1>2, <2>2, <2>4 DEF BuildPyramid, Get
  <2>7. Len(groups) = 4 /\ groups[1] = {"cs"} /\ groups[2] = {"cs_t0"} /\ groups[3] = {"cs_u0"}
        /\ groups[4] = {"cs_b0"}
    OBVIOUS
  <2>8. Puts(x, empty, none)
    <3>1. IsDevice(x)
      BY <2>3 DEF Level, Free
    <3> HIDE DEF none
    <3> QED BY <2>4, <2>5, <3>1, SlotKinds, OtherSlots, SetPuts DEF Taken
  <2> HIDE DEF none, groups
  <2>9. \A s \in Slots \ T : empty.bound[s] = g.bound[s]
    BY <2>3, <2>5, <2>8 DEF Level, Free, Others, Puts
  <2>10. \A o \in Outputs : empty.bound[o] = {}
    BY <2>5, <2>8, <2>9, SlotKinds, OtherSlots DEF Puts, Calm, Null
  <2>11. Back(empty, g.bound, T)
    BY <2>8, <2>9, <2>10, CalmDraws DEF Back, Puts
  <2>12. \A s \in T : \E k \in 1 .. Len(groups) : s \in groups[k]
    BY <2>7
  <2>13. Back(h, g.bound, {}) /\ Same(empty, h, {"bound"})
    BY <2>6, <2>7, <2>11, <2>12, CalmDraws, OtherSlots, InTurnBack
  <2>14. h.content = x.content /\ h.drawn = x.drawn
    BY <2>8, <2>13 DEF Same, Puts, Fields
  <2>15. Same(g, h, {"content", "drawn", "bound"})
    BY <2>3, <2>8, <2>13 DEF Level, Same, Puts
  <2>16. Seen(g, f) => \A r \in Pyramid : h.content[r] = -f
    BY <2>3, <2>14 DEF Level, Pyramid
  <2> QED BY <2>3, <2>13, <2>14, <2>15, <2>16 DEF Leaves, Back, Level
<1> QED
  BY <1>1, <1>2

-----------------------------------------------------------------------------
(* The compute manager.                                                    *)

LEMMA InputPuts ==
  ASSUME NEW g, IsDevice(g), NEW f, DOMAIN f \subseteq Slots, DOMAIN f \cap Outputs = {},
         \A s \in DOMAIN f \cap Inputs, o \in Outputs : f[s] \cap g.bound[o] = {},
         NEW h, h = Set(g, f)
  PROVE  Puts(g, h, f)
<1>1. Taken(f) = {}
  BY DEF Taken
<1>2. \A s \in DOMAIN f \cap Inputs : f[s] \cap Busy(g) = {}
  BY DEF Busy
<1> QED
  BY <1>1, <1>2, SetPuts

LEMMA UavPuts ==
  ASSUME NEW g, IsDevice(g), NEW f, DOMAIN f = {"cs_u0"},
         \A s \in Views \ {"cs_u0"} : g.bound[s] \cap f["cs_u0"] = {},
         NEW h, h = Set(g, f)
  PROVE  Puts(g, h, f)
<1>1. Taken(f) = f["cs_u0"] /\ DOMAIN f \subseteq Slots /\ DOMAIN f \cap Inputs = {}
  BY SlotKinds DEF Taken
<1> QED
  BY <1>1, SetPuts

LEMMA IdOfShader ==
  ASSUME NEW g, NEW name \in Range(g.shaders), NEW id, id = ShaderId(g, name)
  PROVE  id \in DOMAIN g.shaders /\ g.shaders[id] = name
<1>1. \E i \in DOMAIN g.shaders : g.shaders[i] = name
  BY DEF Range
<1> QED
  BY <1>1 DEF ShaderId

\* What a draw or dispatch made of g has read.
ReadFrom(g, y, shader, inputs) ==
  y.shader = shader /\ \A i \in inputs : y.stamps[i] = {g.content[r] : r \in g.bound[i]}

Ran(g, h, id, stamp) ==
  /\ IsDevice(h) /\ Same(g, h, {"bound", "content", "drawn"})
  /\ \A s \in Slots : h.bound[s] = IF s = "cs" THEN {g.shaders[id]} ELSE g.bound[s]
  /\ \A r \in Resources : h.content[r] = IF r \in g.bound["cs_u0"] THEN stamp ELSE g.content[r]
  /\ \E y : h.drawn = g.drawn \cup {y} /\ ReadFrom(g, y, g.shaders[id], CsInputs)

LEMMA Dispatched ==
  ASSUME NEW g, IsDevice(g), NEW id \in DOMAIN g.shaders, NEW stamp, NEW h, h = DispatchShader(g, id, stamp)
  PROVE  Ran(g, h, id, stamp)
<1> DEFINE f == [slot \in {"cs"} |-> {g.shaders[id]}]
<1>1. GetShader(g, id) = {g.shaders[id]} /\ GetShader(g, id) # Null
  BY DEF GetShader, Null
<1>2. PICK g1 : g1 = Set(g, f)
  OBVIOUS
<1>3. h = Issue(g1, g.shaders[id], CsInputs, {"cs_u0"}, stamp)
  BY <1>1, <1>2, Zenon DEF DispatchShader
<1>4. DOMAIN f = {"cs"} /\ f["cs"] = {g.shaders[id]}
  OBVIOUS
<1> HIDE DEF f
<1>5. Puts(g, g1, f)
  BY <1>2, <1>4, OtherSlots, StatePuts
<1>6. /\ IsDevice(h) /\ Same(g1, h, {"content", "drawn"})
      /\ \A r \in Resources : h.content[r] = IF \E o \in {"cs_u0"} : r \in g1.bound[o] THEN stamp ELSE g1.content[r]
      /\ h.drawn = g1.drawn \cup {Draw(g1, g.shaders[id], CsInputs)}
  BY <1>3, <1>5, IssueWrites DEF Puts
<1>7. g1.content = g.content /\ g1.drawn = g.drawn /\ h.bound = g1.bound
  BY <1>5, <1>6 DEF Puts, Same, Fields
<1>8. \A s \in Slots : g1.bound[s] = IF s = "cs" THEN {g.shaders[id]} ELSE g.bound[s]
  BY <1>4, <1>5 DEF Puts
<1>9. ReadFrom(g, Draw(g1, g.shaders[id], CsInputs), g.shaders[id], CsInputs)
  <2>1. \A i \in CsInputs : g1.bound[i] = g.bound[i]
    BY <1>8, SlotKinds, OtherSlots DEF Inputs
  <2> QED BY <1>7, <2>1 DEF ReadFrom, Draw, Stamps
<1>10. g1.bound["cs_u0"] = g.bound["cs_u0"]
  BY <1>8, OtherSlots
<1>11. Same(g, h, {"bound", "content", "drawn"})
  BY <1>5, <1>6 DEF Same, Puts
<1> QED
  BY <1>6, <1>7, <1>8, <1>9, <1>10, <1>11 DEF Ran

-----------------------------------------------------------------------------
(* The sky.                                                                *)

LEMMA HeldNames ==
  ASSUME NEW d, Drawing(d)
  PROVE  /\ Held(d) \subseteq Targets \cup MainDepths /\ d["cs_u0"] = {}
         /\ \A s \in Views : d[s] \subseteq {"gameTexture"} \cup Targets \cup MainDepths
<1>1. Held(d) \subseteq Targets \cup MainDepths /\ d["cs_u0"] = {}
  BY SlotKinds DEF Drawing, Held, Null
<1>2. \A s \in Outputs : d[s] \subseteq Held(d)
  BY DEF Held
<1>3. \A s \in Inputs : d[s] \subseteq {"gameTexture"}
  BY DEF Drawing
<1>4. \A s \in Views : s \in Inputs \/ s \in Outputs
  BY SlotKinds
<1> QED
  BY <1>1, <1>2, <1>3, <1>4

LEMMA SkyNames ==
  /\ Sky \subseteq Resources
  /\ Sky \cap (Targets \cup Depths \cup Pyramid \cup {"gameTexture", "shapeNoise", "detailNoise", "cloud", "history", "sceneCopy"}) = {}
  /\ {"transmittance", "scattering", "aerial", "celestial"} = Sky
<1>1. Sky \cap Pyramid = {}
  BY MipsApart DEF OtherNames
<1>2. Sky \cap (Targets \cup Depths \cup {"gameTexture", "shapeNoise", "detailNoise", "cloud", "history", "sceneCopy"}) = {}
  BY DEF Sky, Tables, Targets, Depths, MainDepths
<1> QED
  BY <1>1, <1>2 DEF Resources, Sky, Tables

\* Between two tables: only slots of the compute shader are not as in d.
Own == {"cs", "cs_t0", "cs_b0", "cs_s0"}
Turn(g, d) ==
  /\ IsDevice(g)
  /\ \A s \in Slots \ Own : g.bound[s] = d[s]
  /\ g.bound["cs_t0"] \subseteq {"gameTexture"}

LEMMA OwnSlots ==
  /\ Own \subseteq Slots /\ Views \ Own = Views \ {"cs_t0"} /\ Outputs \cap Own = {}
  /\ "cs_t0" \in Views /\ Own \ {"cs_t0"} \subseteq Slots \ Views
BY DEF Own, Slots, Views, Inputs, CsInputs, PsInputs, Outputs, States

Ready(d, g, ready, reads, target) ==
  /\ IsDevice(ready) /\ Same(g, ready, {"bound"})
  /\ \A s \in Slots \ (Own \cup {"cs_u0"}) : ready.bound[s] = d[s]
  /\ ready.bound["cs_u0"] = {target}
  /\ ready.bound["cs_t0"] \subseteq {"gameTexture", "transmittance"}
  /\ ready.bound["cs_t0"] = IF reads = Null THEN g.bound["cs_t0"] ELSE reads

\* What a table reads is bound, and the table itself for writing.
LEMMA TableReady ==
  ASSUME NEW d, Drawing(d), NEW g, Turn(g, d), NEW reads \in {Null, {"transmittance"}}, NEW target \in Sky,
         target \notin reads, NEW buffer,
         NEW given, given = CSSetCB(g, buffer),
         NEW read, read = IF reads = Null THEN given
                          ELSE CSSetSampler(CSSetSRVs(given, [slot \in {"cs_t0"} |-> reads]), "LinearSampler"),
         NEW ready, ready = CSSetUAV(read, {target})
  PROVE  Ready(d, g, ready, reads, target)
<1> DEFINE f1 == [slot \in {"cs_b0"} |-> {buffer}]
           f2 == [slot \in {"cs_t0"} |-> reads]
           f3 == [slot \in {"cs_s0"} |-> {"LinearSampler"}]
           f4 == [slot \in {"cs_u0"} |-> {target}]
<1>1. /\ DOMAIN f1 = {"cs_b0"} /\ DOMAIN f2 = {"cs_t0"} /\ f2["cs_t0"] = reads /\ DOMAIN f3 = {"cs_s0"}
      /\ DOMAIN f4 = {"cs_u0"} /\ f4["cs_u0"] = {target}
  OBVIOUS
<1>2. given = Set(g, f1) /\ ready = Set(read, f4)
  BY DEF CSSetCB, CSSetUAV
<1>3. {"cs_t0", "cs_t1", "cs_t2", "cs_t3"} \cap {"cs_t0"} = {"cs_t0"}
  OBVIOUS
<1>4. CSSetSRVs(given, f2) = Set(given, f2)
  BY <1>3 DEF CSSetSRVs
<1>5. \A x : CSSetSampler(x, "LinearSampler") = Set(x, f3)
  BY DEF CSSetSampler
<1> HIDE DEF f1, f3, f4
<1>6. Puts(g, given, f1)
  BY <1>1, <1>2, OwnSlots, OtherSlots, StatePuts DEF Turn
<1>7. /\ IsDevice(read) /\ Same(g, read, {"bound"})
      /\ \A s \in Slots \ Own : read.bound[s] = d[s]
      /\ read.bound["cs_t0"] \subseteq {"gameTexture", "transmittance"}
      /\ reads = Null => read.bound["cs_t0"] = g.bound["cs_t0"]
      /\ reads # Null => read.bound["cs_t0"] = reads
  <2>1. CASE reads = Null
    <3>1. \A s \in Slots \ Own : given.bound[s] = d[s]
      BY <1>1, <1>6, OwnSlots DEF Turn, Puts, Own
    <3>2. given.bound["cs_t0"] = g.bound["cs_t0"]
      BY <1>1, <1>6, OtherSlots DEF Puts
    <3> QED BY <1>6, <2>1, <3>1, <3>2 DEF Puts, Turn
  <2>2. CASE reads # Null
    <3>1. PICK mid : mid = Set(given, f2)
      OBVIOUS
    <3>2. read = Set(mid, f3)
      BY <1>4, <1>5, <2>2, <3>1
    <3> HIDE DEF f2
    <3>3. \A o \in Outputs : given.bound[o] = d[o]
      BY <1>1, <1>6, OwnSlots, SlotKinds DEF Puts, Turn
    <3>4. \A o \in Outputs : reads \cap d[o] = {}
      BY HeldNames, SkyNames DEF Held, Null, Depths
    <3>5. Puts(given, mid, f2)
      BY <1>1, <1>6, <3>1, <3>3, <3>4, SlotKinds, OtherSlots, InputPuts DEF Puts
    <3>6. Puts(mid, read, f3)
      BY <1>1, <3>2, <3>5, OwnSlots, StatePuts DEF Puts, Own
    <3>7. \A s \in Slots \ Own : read.bound[s] = d[s]
      BY <1>1, <1>6, <3>5, <3>6, OwnSlots DEF Turn, Puts, Own
    <3>8. read.bound["cs_t0"] = reads
      BY <1>1, <3>5, <3>6, OtherSlots DEF Puts
    <3>9. Same(g, read, {"bound"})
      BY <1>6, <3>5, <3>6 DEF Puts, Same
    <3> QED BY <2>2, <3>6, <3>7, <3>8, <3>9 DEF Puts
  <2> QED BY <2>1, <2>2
<1>8. ASSUME NEW s \in Views \ {"cs_u0"} PROVE read.bound[s] \cap {target} = {}
  <2>1. CASE s = "cs_t0"
    BY <1>7, <2>1, SkyNames DEF Turn
  <2>2. CASE s # "cs_t0"
    <3>1. read.bound[s] = d[s]
      BY <1>7, <1>8, <2>2, OwnSlots, SlotKinds
    <3>2. d[s] \subseteq {"gameTexture"} \cup Targets \cup MainDepths
      BY <1>8, HeldNames
    <3>3. target \notin {"gameTexture"} \cup Targets \cup MainDepths
      BY SkyNames DEF Depths
    <3> QED BY <3>1, <3>2, <3>3
  <2> QED BY <2>1, <2>2
<1>9. Puts(read, ready, f4)
  BY <1>1, <1>2, <1>7, <1>8, UavPuts
<1>10. IsDevice(ready) /\ Same(g, ready, {"bound"})
  BY <1>7, <1>9 DEF Puts, Same
<1>11. ready.bound["cs_u0"] = {target} /\ ready.bound["cs_t0"] = read.bound["cs_t0"]
  BY <1>1, <1>9, OtherSlots, OwnSlots DEF Puts
<1>12. \A s \in Slots \ (Own \cup {"cs_u0"}) : ready.bound[s] = d[s]
  BY <1>1, <1>7, <1>9, OtherSlots, OwnSlots DEF Puts
<1> QED
  BY <1>7, <1>10, <1>11, <1>12, OtherSlots, OwnSlots DEF Ready

SunOf(g, buffer) == IF buffer = "AtmosphereCB" THEN g.atmoCB ELSE g.celestialCB

Tabled(d, g, h, shader, reads, target, buffer) ==
  /\ Turn(h, d) /\ Same(g, h, {"bound", "content", "drawn"})
  /\ \A r \in Resources : h.content[r] = IF r = target THEN SunOf(g, buffer) ELSE g.content[r]
  /\ \E y : /\ h.drawn = g.drawn \cup {y} /\ y.shader = shader
            /\ reads # Null => y.stamps["cs_t0"] = {g.content["transmittance"]}

\* One table is written, whatever the game has bound to draw to.
LEMMA TableWrites ==
  ASSUME NEW d, Drawing(d), NEW g, Turn(g, d), NEW reads \in {Null, {"transmittance"}}, NEW target \in Sky,
         target \notin reads, NEW buffer, NEW shader \in Range(g.shaders),
         NEW h, h = Table(g, shader, reads, target, buffer)
  PROVE  Tabled(d, g, h, shader, reads, target, buffer)
<1>1. PICK given : given = CSSetCB(g, buffer)
  OBVIOUS
<1>2. PICK read : read = IF reads = Null THEN given
                         ELSE CSSetSampler(CSSetSRVs(given, [slot \in {"cs_t0"} |-> reads]), "LinearSampler")
  OBVIOUS
<1>3. PICK ready : ready = CSSetUAV(read, {target})
  OBVIOUS
<1>4. PICK id : id = ShaderId(g, shader)
  OBVIOUS
<1>5. PICK sun : sun = SunOf(g, buffer)
  OBVIOUS
<1>6. PICK done : done = DispatchShader(ready, id, sun)
  OBVIOUS
<1>7. PICK cleared : cleared = IF reads = Null THEN done ELSE CSClearSRVs(done, {"cs_t0"})
  OBVIOUS
<1>8. h = CSClearUAVs(cleared)
  BY <1>1, <1>2, <1>3, <1>4, <1>5, <1>6, <1>7, Zenon DEF Table, SunOf
<1>9. /\ IsDevice(ready) /\ Same(g, ready, {"bound"})
      /\ \A s \in Slots \ (Own \cup {"cs_u0"}) : ready.bound[s] = d[s]
      /\ ready.bound["cs_u0"] = {target}
      /\ ready.bound["cs_t0"] \subseteq {"gameTexture", "transmittance"}
      /\ reads = Null => ready.bound["cs_t0"] = g.bound["cs_t0"]
      /\ reads # Null => ready.bound["cs_t0"] = reads
  <2>1. Ready(d, g, ready, reads, target)
    BY <1>1, <1>2, <1>3, TableReady
  <2> QED BY <2>1 DEF Ready
<1>10. ready.shaders = g.shaders /\ ready.content = g.content /\ ready.drawn = g.drawn
  BY <1>9 DEF Same, Fields
<1>11. id \in DOMAIN ready.shaders /\ ready.shaders[id] = shader
  BY <1>4, <1>10, IdOfShader
<1>12. /\ IsDevice(done) /\ Same(ready, done, {"bound", "content", "drawn"})
       /\ \A s \in Slots : done.bound[s] = IF s = "cs" THEN {ready.shaders[id]} ELSE ready.bound[s]
       /\ \A r \in Resources : done.content[r] = IF r \in ready.bound["cs_u0"] THEN sun ELSE ready.content[r]
       /\ \E y : done.drawn = ready.drawn \cup {y} /\ ReadFrom(ready, y, ready.shaders[id], CsInputs)
  <2>1. IsDevice(ready)
    BY <1>9
  <2>2. Ran(ready, done, id, sun)
    BY <1>6, <1>11, <2>1, Dispatched
  <2> QED BY <2>2 DEF Ran
<1> DEFINE n1 == Nothing({"cs_t0"})
           n2 == Nothing({"cs_u0"})
<1>13. DOMAIN n1 = {"cs_t0"} /\ n1["cs_t0"] = {} /\ DOMAIN n2 = {"cs_u0"} /\ n2["cs_u0"] = {}
  BY DEF Nothing, Null
<1>14. h = Set(cleared, n2) /\ CSClearSRVs(done, {"cs_t0"}) = Set(done, n1)
  BY <1>8 DEF CSClearUAVs, CSClearSRVs
<1> HIDE DEF n1, n2
<1>15. /\ IsDevice(cleared) /\ Same(done, cleared, {"bound"})
       /\ \A s \in Slots \ {"cs_t0"} : cleared.bound[s] = done.bound[s]
       /\ cleared.bound["cs_t0"] \subseteq {"gameTexture", "transmittance"}
       /\ cleared.bound["cs_t0"] = {} \/ (reads = Null /\ cleared.bound["cs_t0"] = g.bound["cs_t0"])
  <2>1. CASE reads = Null
    BY <1>7, <1>9, <1>12, <2>1, OtherSlots DEF Same
  <2>2. CASE reads # Null
    <3>1. cleared = Set(done, n1)
      BY <1>7, <1>14, <2>2
    <3>2. Puts(done, cleared, n1)
      BY <1>12, <1>13, <3>1, SlotKinds, OtherSlots, InputPuts
    <3> QED BY <1>13, <3>2, OtherSlots DEF Puts
  <2> QED BY <2>1, <2>2
<1>16. Puts(cleared, h, n2)
  BY <1>13, <1>14, <1>15, SlotKinds, UavPuts
<1>17. Turn(h, d)
  <2>1. \A s \in Slots \ (Own \cup {"cs_u0"}) : h.bound[s] = d[s]
    BY <1>9, <1>12, <1>13, <1>15, <1>16, OwnSlots DEF Puts, Own
  <2>2. h.bound["cs_u0"] = d["cs_u0"]
    BY <1>13, <1>16, OtherSlots, HeldNames DEF Puts
  <2>3. h.bound["cs_t0"] \subseteq {"gameTexture"}
    BY <1>13, <1>15, <1>16, OtherSlots DEF Puts, Turn
  <2> QED BY <1>16, <2>1, <2>2, <2>3 DEF Turn, Puts
<1>18. h.content = done.content /\ h.drawn = done.drawn
  BY <1>15, <1>16 DEF Same, Puts, Fields
<1>19. Same(g, h, {"bound", "content", "drawn"})
  BY <1>9, <1>12, <1>15, <1>16 DEF Same, Puts
<1>20. \A r \in Resources : h.content[r] = IF r = target THEN sun ELSE g.content[r]
  BY <1>9, <1>10, <1>12, <1>18
<1>21. PICK y : done.drawn = ready.drawn \cup {y} /\ ReadFrom(ready, y, ready.shaders[id], CsInputs)
  BY <1>12
<1>22. y.shader = shader /\ (reads # Null => y.stamps["cs_t0"] = {g.content["transmittance"]})
  <2>1. "cs_t0" \in CsInputs
    BY DEF CsInputs
  <2> QED BY <1>9, <1>10, <1>11, <1>21, <2>1 DEF ReadFrom
<1> QED
  BY <1>5, <1>10, <1>17, <1>18, <1>19, <1>20, <1>21, <1>22 DEF Tabled

\* Everything is bound as it was in g.
Rebound(g, x, h) == IsDevice(h) /\ Same(x, h, {"bound"}) /\ \A s \in Slots : h.bound[s] = g.bound[s]

\* A compute pass has bound again what it saved.
LEMMA CSBack ==
  ASSUME NEW g, Drawing(g.bound), NEW x, NEW left, left \subseteq SavedCS, Back(x, g.bound, left),
         NEW h, h = RestoreCSState(x, SaveCSState(g))
  PROVE  Rebound(g, x, h)
<1> DEFINE groups == <<{"cs"}, CsInputs, {"cs_u0"}, {"cs_b0", "cs_s0"}>>
<1>1. h = SetInTurn(x, Restrict(g.bound, SavedCS), groups)
  BY DEF RestoreCSState, SaveCSState, SavedSlots, Get
<1>2. Len(groups) = 4 /\ groups[1] = {"cs"} /\ groups[2] = CsInputs /\ groups[3] = {"cs_u0"}
      /\ groups[4] = {"cs_b0", "cs_s0"}
  OBVIOUS
<1> HIDE DEF groups
<1>3. \A s \in left : \E k \in 1 .. Len(groups) : s \in groups[k]
  BY <1>2 DEF SavedCS
<1>4. SavedCS \subseteq Slots
  BY DEF SavedCS, Slots, Views, Inputs, Outputs, States
<1>5. Back(h, g.bound, {}) /\ Same(x, h, {"bound"})
  BY <1>1, <1>2, <1>3, <1>4, InTurnBack
<1> QED
  BY <1>5 DEF Back, Rebound

LEMMA TurnBack ==
  ASSUME NEW g, Drawing(g.bound), NEW x, Turn(x, g.bound), NEW h, h = RestoreCSState(x, SaveCSState(g))
  PROVE  Rebound(g, x, h)
<1>1. Own \subseteq SavedCS
  BY DEF Own, SavedCS, CsInputs
<1>2. \A o \in Outputs : "gameTexture" \notin x.bound[o]
  BY OwnSlots, SlotKinds, DrawingParts DEF Turn
<1>3. x.bound["cs_t0"] \cap Held(g.bound) = {}
  BY HeldNames DEF Turn, Targets, MainDepths
<1>4. Back(x, g.bound, Own)
  BY <1>2, <1>3, OwnSlots DEF Back, Turn
<1> QED
  BY <1>1, <1>4, CSBack

\* What a draw of the sky reads.
SkyDraw(y, h) ==
  /\ y.shader \in TableShaders \cup {"CelestialBodies"}
  /\ y.shader # "AtmoTransmittance" => y.stamps["cs_t0"] = {h.atmoCB}

LEMMA CelestialsWrite ==
  ASSUME NEW g, IsDevice(g), Drawing(g.bound), NEW sun, NEW mapped \in BOOLEAN, "CelestialBodies" \in Range(g.shaders),
         NEW h, h = RenderCelestials(g, sun, mapped)
  PROVE  /\ Leaves(g, h, {"content", "drawn", "celestialCB"})
         /\ \A r \in Resources \ {"celestial"} : h.content[r] = g.content[r]
         /\ mapped => h.content["celestial"] = sun
         /\ g.drawn \subseteq h.drawn
         /\ \A y \in h.drawn \ g.drawn :
              y.shader = "CelestialBodies" /\ y.stamps["cs_t0"] = {g.content["transmittance"]}
<1>1. CASE ~mapped
  <2>1. h = g
    BY <1>1 DEF RenderCelestials
  <2> QED BY <1>1, <2>1 DEF Leaves, Same
<1>2. CASE mapped
  <2>1. PICK b : b = [g EXCEPT !.celestialCB = sun]
    OBVIOUS
  <2>2. PICK x : x = Table(b, "CelestialBodies", {"transmittance"}, "celestial", "CelestialCB")
    OBVIOUS
  <2>3. h = RestoreCSState(x, SaveCSState(g))
    BY <1>2, <2>1, <2>2, Zenon DEF RenderCelestials
  <2>4. DOMAIN b = Fields /\ b.celestialCB = sun /\ Same(g, b, {"celestialCB"})
    BY <2>1 DEF IsDevice, Same, Fields
  <2>5. IsDevice(b) /\ b.bound = g.bound /\ b.shaders = g.shaders /\ b.content = g.content /\ b.drawn = g.drawn
    BY <2>4 DEF IsDevice, Same, Fields
  <2>6. Turn(b, g.bound)
    BY <2>5, SlotKinds DEF Turn, Drawing, Inputs, CsInputs
  <2>7. "celestial" \in Sky /\ "celestial" \notin {"transmittance"} /\ "celestial" \in Resources
    BY SkyNames
  <2>8. PICK reads : reads = {"transmittance"}
    OBVIOUS
  <2>9. reads \in {Null, {"transmittance"}} /\ "celestial" \notin reads /\ reads # Null
        /\ x = Table(b, "CelestialBodies", reads, "celestial", "CelestialCB")
    BY <2>2, <2>7, <2>8 DEF Null
  <2>10. /\ Turn(x, g.bound) /\ Same(b, x, {"bound", "content", "drawn"})
         /\ \A r \in Resources : x.content[r] = IF r = "celestial" THEN SunOf(b, "CelestialCB") ELSE b.content[r]
         /\ \E y : /\ x.drawn = b.drawn \cup {y} /\ y.shader = "CelestialBodies"
                   /\ reads # Null => y.stamps["cs_t0"] = {b.content["transmittance"]}
    <3>1. Tabled(g.bound, b, x, "CelestialBodies", reads, "celestial", "CelestialCB")
      BY <2>5, <2>6, <2>7, <2>9, TableWrites
    <3> QED BY <3>1 DEF Tabled
  <2>11. SunOf(b, "CelestialCB") = sun
    BY <2>4 DEF SunOf
  <2>12. IsDevice(h) /\ Same(x, h, {"bound"}) /\ \A s \in Slots : h.bound[s] = g.bound[s]
    BY <2>3, <2>10, TurnBack DEF Rebound
  <2>13. h.content = x.content /\ h.drawn = x.drawn
    BY <2>12 DEF Same, Fields
  <2>14. Same(g, h, {"content", "drawn", "celestialCB", "bound"})
    BY <2>4, <2>10, <2>12 DEF Same
  <2>15. Leaves(g, h, {"content", "drawn", "celestialCB"})
    BY <2>12, <2>14 DEF Leaves
  <2>16. /\ \A r \in Resources \ {"celestial"} : h.content[r] = g.content[r]
         /\ h.content["celestial"] = sun
    BY <2>5, <2>7, <2>10, <2>11, <2>13
  <2>17. PICK y : /\ x.drawn = b.drawn \cup {y} /\ y.shader = "CelestialBodies"
                  /\ reads # Null => y.stamps["cs_t0"] = {b.content["transmittance"]}
    BY <2>10
  <2> QED BY <2>5, <2>9, <2>13, <2>15, <2>16, <2>17
<1> QED
  BY <1>1, <1>2

\* What the update of the tables leaves: the sky as of the sun, or nothing new.
Computed(g, h, sun, mapped) ==
  /\ h.lastSun = ZenithOf(sun)
  /\ \A table \in Tables : h.content[table] = h.atmoCB
  /\ mapped[1] => h.atmoCB = sun
  /\ mapped[2] => h.content["celestial"] = sun
Updated(g, h, sun, mapped) ==
  /\ Leaves(g, h, {"content", "drawn", "lastSun", "atmoCB", "celestialCB"})
  /\ \A r \in Resources \ Sky : h.content[r] = g.content[r]
  /\ g.drawn \subseteq h.drawn /\ \A y \in h.drawn \ g.drawn : SkyDraw(y, h)
  /\ IF g.atmoUp /\ SunMoved(g, sun) THEN Computed(g, h, sun, mapped) ELSE h = g

LEMMA SkyComputed ==
  ASSUME NEW g, IsDevice(g), Drawing(g.bound), g.atmoUp => HasShaders(g, TableShaders \cup {"CelestialBodies"}),
         NEW sun, NEW mapped \in BOOLEAN \X BOOLEAN, NEW h, h = UpdateLUTs(g, sun, mapped)
  PROVE  Updated(g, h, sun, mapped)
<1>1. CASE ~g.atmoUp \/ ~SunMoved(g, sun)
  <2>1. h = g
    BY <1>1, Zenon DEF UpdateLUTs
  <2> QED BY <1>1, <2>1 DEF Updated, Leaves, Same
<1>2. CASE g.atmoUp /\ SunMoved(g, sun)
  <2>1. PICK atmo : atmo = IF mapped[1] THEN sun ELSE g.atmoCB
    OBVIOUS
  <2>2. PICK buffer : buffer = [g EXCEPT !.lastSun = ZenithOf(sun), !.atmoCB = atmo]
    OBVIOUS
  <2>3. PICK first : first = Table(buffer, "AtmoTransmittance", Null, "transmittance", "AtmosphereCB")
    OBVIOUS
  <2>4. PICK reads : reads = {"transmittance"}
    OBVIOUS
  <2>5. PICK second : second = Table(first, "AtmoMultiScatter", reads, "scattering", "AtmosphereCB")
    OBVIOUS
  <2>6. PICK third : third = Table(second, "AtmoAerial", reads, "aerial", "AtmosphereCB")
    OBVIOUS
  <2>7. PICK back : back = RestoreCSState(third, SaveCSState(g))
    OBVIOUS
  <2>8. h = RenderCelestials(back, sun, mapped[2])
    BY <1>2, <2>1, <2>2, <2>3, <2>4, <2>5, <2>6, <2>7, Zenon DEF UpdateLUTs
  <2>9. DOMAIN buffer = Fields /\ buffer.lastSun = ZenithOf(sun) /\ buffer.atmoCB = atmo
        /\ Same(g, buffer, {"lastSun", "atmoCB"})
    BY <2>2 DEF IsDevice, Same, Fields
  <2>10. /\ IsDevice(buffer) /\ buffer.bound = g.bound /\ buffer.shaders = g.shaders
         /\ buffer.content = g.content /\ buffer.drawn = g.drawn
    BY <2>9 DEF IsDevice, Same, Fields
  <2>11. Turn(buffer, g.bound)
    BY <2>10, SlotKinds DEF Turn, Drawing, Inputs, CsInputs
  <2>12. /\ "transmittance" \in Sky /\ "scattering" \in Sky /\ "aerial" \in Sky
         /\ "scattering" \notin reads /\ "aerial" \notin reads /\ "transmittance" \notin Null
         /\ reads \in {Null, {"transmittance"}} /\ reads # Null /\ Null \in {Null, {"transmittance"}}
    BY <2>4 DEF Sky, Tables, Null
  <2>13. /\ "AtmoTransmittance" \in Range(g.shaders) /\ "AtmoMultiScatter" \in Range(g.shaders)
         /\ "AtmoAerial" \in Range(g.shaders) /\ "CelestialBodies" \in Range(g.shaders)
    BY <1>2 DEF HasShaders, TableShaders
  <2>14. Tabled(g.bound, buffer, first, "AtmoTransmittance", Null, "transmittance", "AtmosphereCB")
    BY <2>3, <2>10, <2>11, <2>12, <2>13, TableWrites
  <2>15. Turn(first, g.bound) /\ Same(g, first, {"bound", "content", "drawn", "lastSun", "atmoCB"})
         /\ first.lastSun = ZenithOf(sun) /\ first.atmoCB = atmo /\ first.shaders = g.shaders
    BY <2>9, <2>10, <2>14 DEF Tabled, Same, Fields
  <2>16. Tabled(g.bound, first, second, "AtmoMultiScatter", reads, "scattering", "AtmosphereCB")
    BY <2>5, <2>12, <2>13, <2>15, TableWrites
  <2>17. Turn(second, g.bound) /\ Same(g, second, {"bound", "content", "drawn", "lastSun", "atmoCB"})
         /\ second.lastSun = ZenithOf(sun) /\ second.atmoCB = atmo /\ second.shaders = g.shaders
    BY <2>15, <2>16 DEF Tabled, Same, Fields
  <2>18. Tabled(g.bound, second, third, "AtmoAerial", reads, "aerial", "AtmosphereCB")
    BY <2>6, <2>12, <2>13, <2>17, TableWrites
  <2>19. Turn(third, g.bound) /\ Same(g, third, {"bound", "content", "drawn", "lastSun", "atmoCB"})
         /\ third.lastSun = ZenithOf(sun) /\ third.atmoCB = atmo /\ third.shaders = g.shaders
    BY <2>17, <2>18 DEF Tabled, Same, Fields
  <2>20. IsDevice(back) /\ Same(third, back, {"bound"}) /\ \A s \in Slots : back.bound[s] = g.bound[s]
    BY <2>7, <2>19, TurnBack DEF Rebound
  <2>21. /\ back.content = third.content /\ back.drawn = third.drawn /\ back.atmoCB = atmo
         /\ back.lastSun = ZenithOf(sun) /\ back.shaders = g.shaders
         /\ Same(g, back, {"bound", "content", "drawn", "lastSun", "atmoCB"})
    BY <2>19, <2>20 DEF Same, Fields
  <2>22. ASSUME NEW s \in Sky PROVE s \in Resources
    BY SkyNames
  <2>23. /\ \A r \in Resources \ Tables : back.content[r] = g.content[r]
         /\ \A r \in Tables : back.content[r] = atmo
         /\ first.content["transmittance"] = atmo /\ second.content["transmittance"] = atmo
    <3>1. \A r \in Resources : first.content[r] = IF r = "transmittance" THEN atmo ELSE g.content[r]
      BY <2>9, <2>10, <2>14 DEF Tabled, SunOf
    <3>2. \A r \in Resources : second.content[r] = IF r = "scattering" THEN atmo ELSE first.content[r]
      BY <2>15, <2>16 DEF Tabled, SunOf
    <3>3. \A r \in Resources : third.content[r] = IF r = "aerial" THEN atmo ELSE second.content[r]
      BY <2>17, <2>18 DEF Tabled, SunOf
    <3> QED BY <2>12, <2>21, <2>22, <3>1, <3>2, <3>3 DEF Tables
  <2>24. PICK y1 : first.drawn = g.drawn \cup {y1} /\ y1.shader = "AtmoTransmittance"
    BY <2>10, <2>14 DEF Tabled
  <2>25. PICK y2 : second.drawn = first.drawn \cup {y2} /\ y2.shader = "AtmoMultiScatter"
                   /\ y2.stamps["cs_t0"] = {atmo}
    BY <2>12, <2>16, <2>23 DEF Tabled
  <2>26. PICK y3 : back.drawn = second.drawn \cup {y3} /\ y3.shader = "AtmoAerial"
                   /\ y3.stamps["cs_t0"] = {atmo}
    BY <2>12, <2>18, <2>21, <2>23 DEF Tabled
  <2>27. Drawing(back.bound)
    BY <2>20, SlotKinds DEF Drawing, IsDevice
  <2>28. /\ Leaves(back, h, {"content", "drawn", "celestialCB"})
         /\ \A r \in Resources \ {"celestial"} : h.content[r] = back.content[r]
         /\ mapped[2] => h.content["celestial"] = sun
         /\ back.drawn \subseteq h.drawn
         /\ \A y \in h.drawn \ back.drawn :
              y.shader = "CelestialBodies" /\ y.stamps["cs_t0"] = {back.content["transmittance"]}
    <3>1. PICK m \in BOOLEAN : m = mapped[2]
      OBVIOUS
    <3>2. "CelestialBodies" \in Range(back.shaders)
      BY <2>13, <2>21
    <3> QED BY <2>8, <2>20, <2>27, <3>1, <3>2, CelestialsWrite
  <2>29. h.atmoCB = atmo /\ h.lastSun = ZenithOf(sun)
    BY <2>21, <2>28 DEF Leaves, Same, Fields
  <2>30. Leaves(g, h, {"content", "drawn", "lastSun", "atmoCB", "celestialCB"})
    BY <2>20, <2>21, <2>28 DEF Leaves, Same
  <2>31. \A r \in Resources \ Sky : h.content[r] = g.content[r]
    BY <2>23, <2>28 DEF Sky
  <2>32. g.drawn \subseteq h.drawn /\ \A y \in h.drawn \ g.drawn : SkyDraw(y, h)
    <3>1. back.content["transmittance"] = atmo
      BY <2>23 DEF Tables
    <3>2. SkyDraw(y1, h) /\ SkyDraw(y2, h) /\ SkyDraw(y3, h)
      BY <2>24, <2>25, <2>26, <2>29 DEF SkyDraw, TableShaders
    <3>3. \A y \in h.drawn \ back.drawn : SkyDraw(y, h)
      BY <2>28, <2>29, <3>1 DEF SkyDraw
    <3> QED BY <2>24, <2>25, <2>26, <2>28, <3>2, <3>3
  <2>33. Computed(g, h, sun, mapped)
    <3>1. \A table \in Tables : h.content[table] = h.atmoCB
      BY <2>22, <2>23, <2>28, <2>29 DEF Sky, Tables
    <3> QED BY <2>1, <2>28, <2>29, <3>1 DEF Computed
  <2> QED BY <1>2, <2>30, <2>31, <2>32, <2>33 DEF Updated
<1> QED
  BY <1>1, <1>2

-----------------------------------------------------------------------------
(* The clouds.                                                             *)

NoiseNames == {"shapeNoise", "detailNoise"}
LEMMA CloudNames ==
  /\ NoiseNames \cup {"cloud", "history", "sceneCopy", "scene"} \subseteq Resources
  /\ (NoiseNames \cup {"cloud", "history", "sceneCopy"}) \cap (Targets \cup Depths \cup Pyramid \cup Sky \cup {"gameTexture"}) = {}
  /\ "scene" \notin Pyramid \cup Depths \cup Sky /\ "scene" \in Targets
BY MipsApart, SkyNames DEF NoiseNames, Resources, Targets, Depths, MainDepths, OtherNames

Noised(d, g, h, shader, target) ==
  /\ Turn(h, d) /\ Same(g, h, {"bound", "content", "drawn"})
  /\ \A r \in Resources : h.content[r] = IF r = target THEN 1 ELSE g.content[r]
  /\ \E y : h.drawn = g.drawn \cup {y} /\ y.shader = shader

LEMMA NoisePass ==
  ASSUME NEW d, Drawing(d), NEW g, Turn(g, d), NEW target \in NoiseNames, NEW shader \in Range(g.shaders),
         NEW h, h = CSClearUAVs(DispatchShader(CSSetUAV(g, {target}), ShaderId(g, shader), 1))
  PROVE  Noised(d, g, h, shader, target)
<1> DEFINE f == [slot \in {"cs_u0"} |-> {target}]
           none == Nothing({"cs_u0"})
<1>1. PICK ready : ready = Set(g, f)
  OBVIOUS
<1>2. PICK id : id = ShaderId(g, shader)
  OBVIOUS
<1>3. PICK done : done = DispatchShader(ready, id, 1)
  OBVIOUS
<1>4. h = Set(done, none)
  BY <1>1, <1>2, <1>3 DEF CSClearUAVs, CSSetUAV
<1>5. DOMAIN f = {"cs_u0"} /\ f["cs_u0"] = {target} /\ DOMAIN none = {"cs_u0"} /\ none["cs_u0"] = {}
  BY DEF Nothing, Null
<1> HIDE DEF f, none
<1>6. ASSUME NEW s \in Views \ {"cs_u0"} PROVE g.bound[s] \cap {target} = {}
  <2>1. CASE s = "cs_t0"
    BY <2>1, CloudNames DEF Turn
  <2>2. CASE s # "cs_t0"
    <3>1. g.bound[s] = d[s]
      BY <1>6, <2>2, OwnSlots, SlotKinds DEF Turn
    <3>2. d[s] \subseteq {"gameTexture"} \cup Targets \cup MainDepths
      BY <1>6, HeldNames
    <3>3. target \notin Targets \cup MainDepths \cup {"gameTexture"}
      BY CloudNames DEF Depths
    <3> QED BY <3>1, <3>2, <3>3
  <2> QED BY <2>1, <2>2
<1>7. Puts(g, ready, f)
  BY <1>1, <1>5, <1>6, UavPuts DEF Turn
<1>8. ready.shaders = g.shaders /\ ready.content = g.content /\ ready.drawn = g.drawn
  BY <1>7 DEF Puts, Same, Fields
<1>9. id \in DOMAIN ready.shaders /\ ready.shaders[id] = shader
  BY <1>2, <1>8, IdOfShader
<1>10. Ran(ready, done, id, 1)
  <2>1. IsDevice(ready)
    BY <1>7 DEF Puts
  <2> QED BY <1>3, <1>9, <2>1, Dispatched
<1>11. Puts(done, h, none)
  BY <1>4, <1>5, <1>10, UavPuts DEF Ran
<1>12. Turn(h, d)
  <2>1. \A s \in Slots \ {"cs", "cs_u0"} : h.bound[s] = g.bound[s]
    BY <1>5, <1>7, <1>10, <1>11 DEF Puts, Ran
  <2>2. h.bound["cs_u0"] = d["cs_u0"]
    BY <1>5, <1>11, OtherSlots, HeldNames DEF Puts
  <2>3. "cs" \in Own /\ "cs_t0" \in Slots
    BY OtherSlots DEF Own
  <2> QED BY <1>11, <2>1, <2>2, <2>3 DEF Turn, Puts
<1>13. h.content = done.content /\ h.drawn = done.drawn
  BY <1>11 DEF Same, Puts, Fields
<1>14. Same(g, h, {"bound", "content", "drawn"})
  BY <1>7, <1>10, <1>11 DEF Same, Puts, Ran
<1>15. ready.bound["cs_u0"] = {target}
  BY <1>5, <1>7, OtherSlots DEF Puts
<1>16. \A r \in Resources : h.content[r] = IF r = target THEN 1 ELSE g.content[r]
  BY <1>8, <1>10, <1>13, <1>15 DEF Ran
<1>17. \E y : h.drawn = g.drawn \cup {y} /\ y.shader = shader
  BY <1>8, <1>9, <1>10, <1>13 DEF Ran, ReadFrom
<1> QED
  BY <1>12, <1>14, <1>16, <1>17 DEF Noised

\* The noise is there, or the clouds are off.
NoiseMade(g, h) ==
  /\ Leaves(g, h, {"content", "drawn", "noise", "cloudsOn"})
  /\ \A r \in Resources \ NoiseNames : h.content[r] = g.content[r]
  /\ h.noise => \A r \in NoiseNames : h.content[r] = 1
  /\ h.cloudsOn => h.noise
  /\ g.drawn \subseteq h.drawn
  /\ \A y \in h.drawn \ g.drawn : y.shader \in {"CloudShapeNoise", "CloudDetailNoise"}

LEMMA NoiseIsMade ==
  ASSUME NEW g, IsDevice(g), Drawing(g.bound), HasShaders(g, CloudShaders),
         g.noise => \A r \in NoiseNames : g.content[r] = 1, NEW h, h = GenerateNoise(g)
  PROVE  NoiseMade(g, h)
<1>1. CASE g.noise
  <2>1. h = g
    BY <1>1, Zenon DEF GenerateNoise
  <2> QED BY <1>1, <2>1 DEF NoiseMade, Leaves, Same
<1>2. CASE ~g.noise /\ g.broken \in {"shapeNoise", "detailNoise"}
  <2>1. h = [g EXCEPT !.cloudsOn = FALSE]
    BY <1>2, Zenon DEF GenerateNoise
  <2>2. DOMAIN h = Fields /\ h.cloudsOn = FALSE /\ Same(g, h, {"cloudsOn"})
    BY <2>1 DEF IsDevice, Same, Fields
  <2>3. /\ IsDevice(h) /\ h.bound = g.bound /\ h.content = g.content /\ h.drawn = g.drawn /\ h.noise = g.noise
    BY <2>2 DEF IsDevice, Same, Fields
  <2> QED BY <1>2, <2>2, <2>3 DEF NoiseMade, Leaves, Same
<1>3. CASE ~g.noise /\ g.broken \notin {"shapeNoise", "detailNoise"}
  <2>1. PICK shape : shape = CSClearUAVs(DispatchShader(CSSetUAV(g, {"shapeNoise"}), ShaderId(g, "CloudShapeNoise"), 1))
    OBVIOUS
  <2>2. PICK detail : detail = CSClearUAVs(DispatchShader(CSSetUAV(shape, {"detailNoise"}), ShaderId(shape, "CloudDetailNoise"), 1))
    OBVIOUS
  <2>3. PICK back : back = RestoreCSState(detail, SaveCSState(g))
    OBVIOUS
  <2>4. h = [back EXCEPT !.noise = TRUE]
    BY <1>3, <2>1, <2>2, <2>3, Zenon DEF GenerateNoise
  <2>5. "CloudShapeNoise" \in Range(g.shaders) /\ "CloudDetailNoise" \in Range(g.shaders)
        /\ "shapeNoise" \in NoiseNames /\ "detailNoise" \in NoiseNames
    BY DEF HasShaders, CloudShaders, NoiseNames
  <2>6. Turn(g, g.bound)
    BY SlotKinds DEF Turn, Drawing, Inputs, CsInputs
  <2>7. Noised(g.bound, g, shape, "CloudShapeNoise", "shapeNoise")
    BY <2>1, <2>5, <2>6, NoisePass
  <2>8. shape.shaders = g.shaders /\ Turn(shape, g.bound)
    BY <2>7 DEF Noised, Same, Fields
  <2>9. Noised(g.bound, shape, detail, "CloudDetailNoise", "detailNoise")
    BY <2>2, <2>5, <2>8, NoisePass
  <2>10. IsDevice(back) /\ Same(detail, back, {"bound"}) /\ \A s \in Slots : back.bound[s] = g.bound[s]
    BY <2>3, <2>9, TurnBack DEF Noised, Rebound
  <2>11. DOMAIN h = Fields /\ h.noise = TRUE /\ Same(back, h, {"noise"})
    BY <2>4, <2>10 DEF IsDevice, Same, Fields
  <2>12. IsDevice(h) /\ h.bound = back.bound /\ h.content = detail.content /\ h.drawn = detail.drawn
    BY <2>10, <2>11 DEF IsDevice, Same, Fields
  <2>13. Same(g, h, {"content", "drawn", "noise", "cloudsOn", "bound"})
    BY <2>7, <2>9, <2>10, <2>11 DEF Same, Noised
  <2>14. Leaves(g, h, {"content", "drawn", "noise", "cloudsOn"})
    BY <2>10, <2>12, <2>13 DEF Leaves
  <2>15. /\ \A r \in Resources \ NoiseNames : h.content[r] = g.content[r]
         /\ \A r \in NoiseNames : h.content[r] = 1
    BY <2>7, <2>9, <2>12, CloudNames DEF Noised, NoiseNames
  <2>16. /\ g.drawn \subseteq h.drawn
         /\ \A y \in h.drawn \ g.drawn : y.shader \in {"CloudShapeNoise", "CloudDetailNoise"}
    BY <2>7, <2>9, <2>12 DEF Noised
  <2> QED BY <2>11, <2>14, <2>15, <2>16 DEF NoiseMade
<1> QED
  BY <1>1, <1>2, <1>3

CloudViews(g) == [slot \in CsInputs |-> CASE slot = "cs_t0" -> {"shapeNoise"}
                                          [] slot = "cs_t1" -> {"detailNoise"}
                                          [] slot = "cs_t2" -> {"history"}
                                          [] slot = "cs_t3" -> CloudDepth(g)]

LEMMA CloudViewsAre ==
  ASSUME NEW g, NEW f, f = CloudViews(g)
  PROVE  /\ DOMAIN f = CsInputs /\ CsInputs = {"cs_t0", "cs_t1", "cs_t2", "cs_t3"}
         /\ f["cs_t0"] = {"shapeNoise"} /\ f["cs_t1"] = {"detailNoise"}
         /\ f["cs_t2"] = {"history"} /\ f["cs_t3"] = CloudDepth(g)
         /\ \A x : CSSetSRVs(x, f) = Set(x, f)
<1>1. CsInputs = {"cs_t0", "cs_t1", "cs_t2", "cs_t3"}
  BY DEF CsInputs
<1>2. /\ DOMAIN f = CsInputs /\ f["cs_t0"] = {"shapeNoise"} /\ f["cs_t1"] = {"detailNoise"}
      /\ f["cs_t2"] = {"history"} /\ f["cs_t3"] = CloudDepth(g)
  BY <1>1 DEF CloudViews
<1> DEFINE View(slot) == CASE slot = "cs_t0" -> {"shapeNoise"}
                           [] slot = "cs_t1" -> {"detailNoise"}
                           [] slot = "cs_t2" -> {"history"}
                           [] slot = "cs_t3" -> CloudDepth(g)
<1>3. f = [slot \in CsInputs |-> f[slot]]
  <2>1. f = [slot \in CsInputs |-> View(slot)]
    BY Zenon DEF CloudViews
  <2> HIDE DEF View
  <2> QED BY <2>1
<1>4. [slot \in {"cs_t0", "cs_t1", "cs_t2", "cs_t3"} \cap DOMAIN f |-> f[slot]] = f
  BY <1>1, <1>2, <1>3
<1>5. \A x : CSSetSRVs(x, f) = Set(x, f)
  BY <1>4 DEF CSSetSRVs
<1> QED
  BY <1>1, <1>2, <1>5

LEMMA ComputeSlots ==
  /\ CsInputs \subseteq Inputs /\ CsInputs \subseteq SavedCS /\ SavedCS \subseteq Slots
  /\ SavedCS = CsInputs \cup {"cs", "cs_u0", "cs_b0", "cs_s0"}
  /\ SavedCS \cap Outputs = {"cs_u0"} /\ {"cs", "cs_b0", "cs_s0"} \subseteq Slots \ Views
BY DEF SavedCS, CsInputs, Inputs, PsInputs, Outputs, Views, Slots, States

\* From calm, everything a compute pass has touched is bound again.
LEMMA CalmBack ==
  ASSUME NEW g, Calm(g), NEW x, IsDevice(x), \A s \in Slots \ SavedCS : x.bound[s] = g.bound[s],
         x.bound["cs_u0"] = {}, NEW h, h = RestoreCSState(x, SaveCSState(g))
  PROVE  Rebound(g, x, h)
<1>1. \A o \in Outputs : x.bound[o] = {}
  BY ComputeSlots, SlotKinds DEF Calm, Null
<1>2. Back(x, g.bound, SavedCS)
  BY <1>1, CalmDraws DEF Back
<1>3. PICK left : left = SavedCS
  OBVIOUS
<1>4. left \subseteq SavedCS /\ Drawing(g.bound) /\ Back(x, g.bound, left)
  BY <1>2, <1>3, CalmDraws
<1> QED
  BY <1>4, CSBack

Marched(g, h) ==
  /\ Leaves(g, h, {"content", "drawn"})
  /\ \A r \in Resources : h.content[r] = IF r \in {"cloud", "history"} THEN g.frameIndex ELSE g.content[r]
  /\ \E y : /\ h.drawn = g.drawn \cup {y} /\ y.shader = "CloudRaymarch"
            /\ y.stamps["cs_t0"] = {g.content["shapeNoise"]} /\ y.stamps["cs_t1"] = {g.content["detailNoise"]}
            /\ y.stamps["cs_t2"] = {g.content["history"]}
            /\ y.stamps["cs_t3"] = {g.content[r] : r \in CloudDepth(g)}

LEMMA RaymarchWrites ==
  ASSUME NEW g, Calm(g), g.gameDepth \in {Null} \cup {{m} : m \in Depths}, "CloudRaymarch" \in Range(g.shaders),
         NEW h, h = Raymarch(g)
  PROVE  Marched(g, h)
<1> DEFINE f2 == [slot \in {"cs_s0"} |-> {"TrilinearSampler"}]
           f3 == [slot \in {"cs_b0"} |-> {"CloudCB"}]
           f4 == [slot \in {"cs_u0"} |-> {"cloud"}]
           n1 == Nothing(CsInputs)
           n2 == Nothing({"cs_u0"})
<1>0. PICK f1 : f1 = CloudViews(g)
  OBVIOUS
<1>1. PICK inputs : inputs = CSSetSRVs(g, f1)
  OBVIOUS
<1>2. PICK sampled : sampled = Set(inputs, f2)
  OBVIOUS
<1>3. PICK given : given = Set(sampled, f3)
  OBVIOUS
<1>4. PICK ready : ready = Set(given, f4)
  OBVIOUS
<1>5. PICK id : id = ShaderId(g, "CloudRaymarch")
  OBVIOUS
<1>6. PICK stamp : stamp = g.frameIndex
  OBVIOUS
<1>7. PICK done : done = DispatchShader(ready, id, stamp)
  OBVIOUS
<1>8. PICK cleared : cleared = Set(done, n1)
  OBVIOUS
<1>9. PICK empty : empty = Set(cleared, n2)
  OBVIOUS
<1>10. PICK back : back = RestoreCSState(empty, SaveCSState(g))
  OBVIOUS
<1>11. h = Write(back, "history", done.content["cloud"])
  <2>1. ready = CSSetUAV(CSSetCB(CSSetSampler(inputs, "TrilinearSampler"), "CloudCB"), {"cloud"})
    BY <1>2, <1>3, <1>4 DEF CSSetUAV, CSSetCB, CSSetSampler
  <2>2. empty = CSClearUAVs(CSClearSRVs(done, CsInputs))
    BY <1>8, <1>9 DEF CSClearUAVs, CSClearSRVs
  <2> QED BY <1>0, <1>1, <1>5, <1>6, <1>7, <1>10, <2>1, <2>2, Zenon DEF Raymarch, CloudViews, CopiedToHistory
<1>12. /\ DOMAIN f1 = CsInputs /\ CsInputs = {"cs_t0", "cs_t1", "cs_t2", "cs_t3"}
       /\ f1["cs_t0"] = {"shapeNoise"} /\ f1["cs_t1"] = {"detailNoise"}
       /\ f1["cs_t2"] = {"history"} /\ f1["cs_t3"] = CloudDepth(g)
       /\ inputs = Set(g, f1)
  BY <1>0, <1>1, CloudViewsAre
<1>13. /\ DOMAIN f2 = {"cs_s0"} /\ DOMAIN f3 = {"cs_b0"} /\ DOMAIN f4 = {"cs_u0"} /\ f4["cs_u0"] = {"cloud"}
       /\ DOMAIN n1 = CsInputs /\ (\A s \in CsInputs : n1[s] = {}) /\ DOMAIN n2 = {"cs_u0"} /\ n2["cs_u0"] = {}
  BY DEF Nothing, Null
<1> HIDE DEF f2, f3, f4, n1, n2
<1>14. Puts(g, inputs, f1)
  <2>1. \A s \in DOMAIN f1 \cap Inputs, o \in Outputs : f1[s] \cap g.bound[o] = {}
    BY DEF Calm, Null
  <2>2. DOMAIN f1 \subseteq Slots /\ DOMAIN f1 \cap Outputs = {} /\ IsDevice(g)
    BY <1>12, ComputeSlots, SlotKinds DEF Calm
  <2> QED BY <1>12, <2>1, <2>2, InputPuts
<1>15. Puts(inputs, sampled, f2)
  BY <1>2, <1>13, <1>14, ComputeSlots, StatePuts DEF Puts
<1>16. Puts(sampled, given, f3)
  BY <1>3, <1>13, <1>15, ComputeSlots, StatePuts DEF Puts
<1>17. \A s \in Views : given.bound[s] = IF s \in CsInputs THEN f1[s] ELSE g.bound[s]
  BY <1>12, <1>13, <1>14, <1>15, <1>16, ComputeSlots, SlotKinds DEF Puts
<1>18. ASSUME NEW s \in Views \ {"cs_u0"} PROVE given.bound[s] \cap {"cloud"} = {}
  <2>1. CASE s = "cs_t3"
    <3>1. "cloud" \notin Pyramid /\ "cloud" \notin Depths
      BY CloudNames
    <3>2. "cloud" \notin CloudDepth(g)
      BY <3>1 DEF CloudDepth, Null
    <3> QED BY <1>12, <1>17, <1>18, <2>1, <3>2
  <2>2. CASE s \in {"cs_t0", "cs_t1", "cs_t2"}
    BY <1>12, <1>17, <1>18, <2>2
  <2>3. CASE s \notin CsInputs
    <3>1. given.bound[s] = g.bound[s]
      BY <1>17, <1>18, <2>3
    <3> QED BY <1>18, <3>1, SlotKinds DEF Calm, Null
  <2> QED BY <1>12, <2>1, <2>2, <2>3
<1>19. Puts(given, ready, f4)
  BY <1>4, <1>13, <1>16, <1>18, UavPuts DEF Puts
<1>20. Same(g, ready, {"bound"}) /\ IsDevice(ready)
  BY <1>14, <1>15, <1>16, <1>19 DEF Puts, Same
<1>21. ready.shaders = g.shaders /\ ready.content = g.content /\ ready.drawn = g.drawn
  BY <1>20 DEF Same, Fields
<1>22. id \in DOMAIN ready.shaders /\ ready.shaders[id] = "CloudRaymarch"
  BY <1>5, <1>21, IdOfShader
<1>23. Ran(ready, done, id, stamp)
  BY <1>7, <1>20, <1>22, Dispatched
<1>24. Puts(done, cleared, n1)
  <2>1. IsDevice(done) /\ DOMAIN n1 \subseteq Slots /\ DOMAIN n1 \cap Outputs = {}
    BY <1>13, <1>23, ComputeSlots, SlotKinds DEF Ran
  <2> QED BY <1>8, <1>13, <2>1, InputPuts
<1>25. Puts(cleared, empty, n2)
  BY <1>9, <1>13, <1>24, UavPuts DEF Puts
<1>26. empty.bound["cs_u0"] = {} /\ IsDevice(empty)
  BY <1>13, <1>25, OtherSlots DEF Puts
<1>27. \A s \in Slots \ SavedCS : empty.bound[s] = g.bound[s]
  BY <1>12, <1>13, <1>14, <1>15, <1>16, <1>19, <1>23, <1>24, <1>25, ComputeSlots DEF Puts, Ran
<1>28. IsDevice(back) /\ Same(empty, back, {"bound"}) /\ \A s \in Slots : back.bound[s] = g.bound[s]
  BY <1>10, <1>26, <1>27, CalmBack DEF Rebound
<1>29. back.content = done.content /\ back.drawn = done.drawn
  BY <1>24, <1>25, <1>28 DEF Puts, Same, Fields
<1>30. ready.bound["cs_u0"] = {"cloud"} /\ \A s \in CsInputs : ready.bound[s] = f1[s]
  <2>1. "cs_u0" \notin CsInputs /\ CsInputs \subseteq Slots /\ CsInputs \subseteq Views
    BY <1>12, ComputeSlots, SlotKinds
  <2> QED BY <1>13, <1>17, <1>19, <2>1, OtherSlots DEF Puts
<1>31. \A r \in Resources : done.content[r] = IF r = "cloud" THEN stamp ELSE g.content[r]
  BY <1>21, <1>23, <1>30 DEF Ran
<1>32. done.content["cloud"] = stamp /\ "history" \in Resources
  BY <1>31, CloudNames
<1>33. /\ IsDevice(h) /\ Same(back, h, {"content"})
       /\ \A r \in Resources : h.content[r] = IF r = "history" THEN stamp ELSE back.content[r]
  BY <1>11, <1>28, <1>32, Writes
<1>34. h.bound = back.bound /\ h.drawn = done.drawn
  BY <1>29, <1>33 DEF Same, Fields
<1>35. Same(g, h, {"content", "drawn", "bound"})
  BY <1>20, <1>23, <1>24, <1>25, <1>28, <1>33 DEF Same, Puts, Ran
<1>36. \A r \in Resources : h.content[r] = IF r \in {"cloud", "history"} THEN stamp ELSE g.content[r]
  BY <1>29, <1>31, <1>33
<1>37. PICK y : done.drawn = ready.drawn \cup {y} /\ ReadFrom(ready, y, ready.shaders[id], CsInputs)
  BY <1>23 DEF Ran
<1>38. /\ y.shader = "CloudRaymarch"
       /\ \A s \in CsInputs : y.stamps[s] = {g.content[r] : r \in f1[s]}
  BY <1>21, <1>22, <1>30, <1>37 DEF ReadFrom
<1>39. /\ y.stamps["cs_t0"] = {g.content["shapeNoise"]} /\ y.stamps["cs_t1"] = {g.content["detailNoise"]}
       /\ y.stamps["cs_t2"] = {g.content["history"]} /\ y.stamps["cs_t3"] = {g.content[r] : r \in CloudDepth(g)}
  BY <1>12, <1>38
<1> QED
  BY <1>6, <1>21, <1>28, <1>33, <1>34, <1>35, <1>36, <1>37, <1>38, <1>39 DEF Marched, Leaves

-----------------------------------------------------------------------------
(* The composite.                                                          *)

Geometry == {"ia_topology", "ia_layout", "ia_vb0", "ia_ib", "vs", "viewport", "rs"}
PassViews == {"ps_t0", "ps_t1", "ps_t2"}

LEMMA FullscreenSlots ==
  /\ PassSlots \subseteq Slots
  /\ PassSlots = Geometry \cup PassViews \cup {"ps", "vs_b0", "ps_b0", "ps_s0", "ps_s1", "om_rtv", "om_dsv", "blend", "depth_state"}
  /\ Geometry \cup {"ps", "vs_b0", "ps_b0", "ps_s0", "ps_s1", "blend", "depth_state"} \subseteq Slots \ Views
  /\ PassViews \subseteq PsInputs /\ PsInputs \subseteq Inputs /\ "ps_t23" \in PsInputs
  /\ {"om_rtv", "om_dsv"} \subseteq Outputs /\ Outputs \subseteq Slots
BY DEF PassSlots, Geometry, PassViews, Slots, Views, Inputs, CsInputs, PsInputs, Outputs, States

LEMMA OrderCovers ==
  /\ Len(RestoreOrder) = 14
  /\ \A s \in PassSlots : \E k \in 1 .. Len(RestoreOrder) : s \in RestoreOrder[k]
<1>1. /\ Len(RestoreOrder) = 14
      /\ RestoreOrder[1] = {"ia_layout", "ia_topology"} /\ RestoreOrder[2] = {"ia_vb0"}
      /\ RestoreOrder[3] = {"ia_ib"} /\ RestoreOrder[4] = {"vs"} /\ RestoreOrder[5] = {"vs_b0"}
      /\ RestoreOrder[6] = {"rs"} /\ RestoreOrder[7] = {"viewport"} /\ RestoreOrder[8] = {"ps"}
      /\ RestoreOrder[9] = {"ps_b0"} /\ RestoreOrder[10] = {"ps_t0", "ps_t1", "ps_t2"}
      /\ RestoreOrder[11] = {"ps_s0", "ps_s1"} /\ RestoreOrder[12] = {"om_rtv", "om_dsv"}
      /\ RestoreOrder[13] = {"blend"} /\ RestoreOrder[14] = {"depth_state"}
  BY DEF RestoreOrder
<1>2. \A k \in 1 .. 14 : k \in 1 .. Len(RestoreOrder)
  BY <1>1
<1>3. \A s \in PassSlots : \E k \in 1 .. 14 : s \in RestoreOrder[k]
  BY <1>1, FullscreenSlots DEF Geometry, PassViews
<1> QED
  BY <1>1, <1>2, <1>3

LEMMA PassBack ==
  ASSUME NEW g, Calm(g), NEW x, IsDevice(x), \A s \in Slots \ PassSlots : x.bound[s] = g.bound[s],
         \A o \in Outputs : "gameTexture" \notin x.bound[o],
         NEW h, h = RestorePipelineState(x, SavePipelineState(g))
  PROVE  Rebound(g, x, h)
<1>1. h = SetInTurn(x, Restrict(g.bound, PassSlots), RestoreOrder)
  BY DEF RestorePipelineState, SavePipelineState, Get
<1>2. PICK left : left = PassSlots
  OBVIOUS
<1>3. Back(x, g.bound, left) /\ Drawing(g.bound) /\ left \subseteq PassSlots
  BY <1>2, CalmDraws DEF Back
<1>4. Len(RestoreOrder) \in Nat /\ PassSlots \subseteq Slots
      /\ \A s \in left : \E k \in 1 .. Len(RestoreOrder) : s \in RestoreOrder[k]
  BY <1>2, OrderCovers, FullscreenSlots
<1>5. PICK groups : groups = RestoreOrder
  OBVIOUS
<1>6. PICK T : T = PassSlots
  OBVIOUS
<1>7. /\ h = SetInTurn(x, Restrict(g.bound, T), groups) /\ Len(groups) \in Nat /\ T \subseteq Slots /\ left \subseteq T
      /\ \A s \in left : \E k \in 1 .. Len(groups) : s \in groups[k]
  BY <1>1, <1>3, <1>4, <1>5, <1>6
<1>8. Back(h, g.bound, {}) /\ Same(x, h, {"bound"})
  BY <1>3, <1>7, InTurnBack
<1> QED
  BY <1>8 DEF Back, Rebound

\* What the composite binds before it looks for its buffer.
PassBound(g, x, exec) ==
  /\ IsDevice(x) /\ Same(g, x, {"bound"})
  /\ \A s \in Slots \ PassSlots : x.bound[s] = g.bound[s]
  /\ \A s \in PassViews : x.bound[s] = exec.srvs[s]
  /\ \A o \in Outputs : x.bound[o] = {}

LEMMA PassBinds ==
  ASSUME NEW g, Calm(g), NEW exec, DOMAIN exec.srvs = PassViews, DOMAIN exec.samplers = {"ps_s0", "ps_s1"},
         NEW h, h = BindPass(g, exec)
  PROVE  PassBound(g, h, exec)
<1> DEFINE f1 == [slot \in Geometry |-> CASE slot = "ia_topology" -> {"TriangleList"}
                                          [] slot = "vs"          -> {"FullscreenVS"}
                                          [] slot = "viewport"    -> exec.rtv
                                          [] slot = "rs"          -> IF g.defaultRS THEN {"DefaultRS"} ELSE Null
                                          [] OTHER                -> Null]
           f2 == [slot \in {"ps"} |-> {g.passShaders[exec.pass]}]
<1>1. DOMAIN f1 = Geometry /\ DOMAIN f2 = {"ps"}
  OBVIOUS
<1>2. PICK assembled : assembled = Set(g, f1)
  OBVIOUS
<1>3. PICK shaded : shaded = Set(assembled, f2)
  OBVIOUS
<1>4. PICK resources : resources = Set(shaded, exec.srvs)
  OBVIOUS
<1>5. h = Set(resources, exec.samplers)
  BY <1>2, <1>3, <1>4, Zenon DEF BindPass, Geometry
<1> HIDE DEF f1, f2
<1>6. Puts(g, assembled, f1)
  BY <1>1, <1>2, FullscreenSlots, StatePuts DEF Calm
<1>7. Puts(assembled, shaded, f2)
  BY <1>1, <1>3, <1>6, FullscreenSlots, StatePuts DEF Puts
<1>8. \A o \in Outputs : shaded.bound[o] = {}
  BY <1>1, <1>6, <1>7, SlotKinds, FullscreenSlots DEF Puts, Calm, Null
<1>9. Puts(shaded, resources, exec.srvs)
  <2>1. PICK f : f = exec.srvs
    OBVIOUS
  <2>2. IsDevice(shaded) /\ DOMAIN f \subseteq Slots /\ DOMAIN f \cap Outputs = {}
    BY <1>7, <2>1, FullscreenSlots, SlotKinds DEF Puts
  <2>3. \A s \in DOMAIN f \cap Inputs, o \in Outputs : f[s] \cap shaded.bound[o] = {}
    BY <1>8
  <2>4. Puts(shaded, resources, f)
    BY <1>4, <2>1, <2>2, <2>3, InputPuts
  <2> QED BY <2>1, <2>4
<1>10. Puts(resources, h, exec.samplers)
  BY <1>5, <1>9, FullscreenSlots, StatePuts DEF Puts
<1>11. Same(g, h, {"bound"}) /\ IsDevice(h)
  BY <1>6, <1>7, <1>9, <1>10 DEF Puts, Same
<1>12. \A s \in Slots \ PassSlots : h.bound[s] = g.bound[s]
  BY <1>1, <1>6, <1>7, <1>9, <1>10, FullscreenSlots DEF Puts
<1>13. \A s \in PassViews : h.bound[s] = exec.srvs[s]
  BY <1>9, <1>10, FullscreenSlots, SlotKinds DEF Puts, PassViews
<1>14. \A o \in Outputs : h.bound[o] = {}
  BY <1>8, <1>9, <1>10, FullscreenSlots, SlotKinds DEF Puts, PassViews
<1> QED
  BY <1>11, <1>12, <1>13, <1>14 DEF PassBound

\* Once the buffer and the targets are bound, nothing that is read is lost.
PassReady(g, x, exec) ==
  /\ IsDevice(x) /\ Same(g, x, {"bound"})
  /\ \A s \in Slots \ PassSlots : x.bound[s] = g.bound[s]
  /\ \A s \in PassViews : x.bound[s] = exec.srvs[s]
  /\ x.bound["om_rtv"] = exec.rtv /\ x.bound["om_dsv"] = {} /\ x.bound["cs_u0"] = {}

LEMMA PassTargets ==
  ASSUME NEW g, Calm(g), NEW exec, exec.rtv = {"scene"}, DOMAIN exec.srvs = PassViews,
         \A s \in PassViews : "scene" \notin exec.srvs[s],
         NEW x, PassBound(g, x, exec),
         NEW h, h = BindTargets(Set(x, [slot \in {"vs_b0", "ps_b0"} |-> {"DynamicCB"}]), exec)
  PROVE  PassReady(g, h, exec)
<1> DEFINE f1 == [slot \in {"vs_b0", "ps_b0"} |-> {"DynamicCB"}]
           f2 == [slot \in {"om_rtv", "om_dsv"} |-> IF slot = "om_rtv" THEN exec.rtv ELSE Null]
           f3 == [slot \in {"blend", "depth_state"} |-> Null]
<1>1. /\ DOMAIN f1 = {"vs_b0", "ps_b0"} /\ DOMAIN f3 = {"blend", "depth_state"}
      /\ DOMAIN f2 = {"om_rtv", "om_dsv"} /\ f2["om_rtv"] = {"scene"} /\ f2["om_dsv"] = {}
  BY DEF Null
<1>2. PICK buffered : buffered = Set(x, f1)
  OBVIOUS
<1>3. PICK targets : targets = Set(buffered, f2)
  OBVIOUS
<1>4. h = Set(targets, f3)
  BY <1>2, <1>3, Zenon DEF BindTargets
<1> HIDE DEF f1, f2, f3
<1>5. Puts(x, buffered, f1)
  BY <1>1, <1>2, FullscreenSlots, StatePuts DEF PassBound
<1>6. \A s \in Views : buffered.bound[s] = x.bound[s]
  BY <1>1, <1>5, FullscreenSlots, SlotKinds DEF Puts
<1>7. Taken(f2) = {"scene"}
  BY <1>1, SlotKinds DEF Taken
<1>8. ASSUME NEW s \in Views \ DOMAIN f2 PROVE buffered.bound[s] \cap Taken(f2) = {}
  <2>1. CASE s \in PassViews
    BY <1>6, <1>7, <2>1, FullscreenSlots, SlotKinds DEF PassBound
  <2>2. CASE s \in Outputs
    BY <1>6, <1>7, <2>2, SlotKinds DEF PassBound
  <2>3. CASE s \in Inputs \ PassViews
    <3>1. s \notin PassSlots
      BY <2>3, FullscreenSlots, SlotKinds
    <3>2. buffered.bound[s] \subseteq {"gameTexture"}
      BY <1>6, <2>3, <3>1, SlotKinds DEF PassBound, Calm
    <3> QED BY <1>7, <3>2
  <2> QED BY <1>8, <2>1, <2>2, <2>3, SlotKinds
<1>9. Puts(buffered, targets, f2)
  <2>1. IsDevice(buffered) /\ DOMAIN f2 \subseteq Slots /\ DOMAIN f2 \cap Inputs = {}
    BY <1>1, <1>5, SlotKinds, FullscreenSlots DEF Puts
  <2> QED BY <1>3, <1>8, <2>1, SetPuts
<1>10. Puts(targets, h, f3)
  BY <1>1, <1>4, <1>9, FullscreenSlots, StatePuts DEF Puts
<1>11. Same(g, h, {"bound"}) /\ IsDevice(h)
  BY <1>5, <1>9, <1>10 DEF Puts, Same, PassBound
<1>12. \A s \in Slots \ PassSlots : h.bound[s] = g.bound[s]
  BY <1>1, <1>5, <1>9, <1>10, FullscreenSlots DEF Puts, PassBound
<1>13. \A s \in PassViews : h.bound[s] = exec.srvs[s]
  BY <1>1, <1>5, <1>9, <1>10, FullscreenSlots, SlotKinds DEF Puts, PassViews, PassBound
<1>14. h.bound["om_rtv"] = exec.rtv /\ h.bound["om_dsv"] = {} /\ h.bound["cs_u0"] = {}
  BY <1>1, <1>5, <1>9, <1>10, FullscreenSlots, SlotKinds DEF Puts, PassBound
<1> QED
  BY <1>11, <1>12, <1>13, <1>14 DEF PassReady

\* The whole pass: one draw at most, and everything bound as before.
Executed(g, h, exec) ==
  /\ Leaves(g, h, {"content", "drawn", "dynamicCB"})
  /\ \A r \in Resources : h.content[r] = g.content[r]
  /\ g.drawn \subseteq h.drawn
  /\ \A y \in h.drawn \ g.drawn : /\ y.shader = CompositeName
                                  /\ \A s \in PassViews : y.stamps[s] = {g.content[r] : r \in exec.srvs[s]}

LEMMA PassExecutes ==
  ASSUME NEW g, Calm(g), NEW exec, exec.rtv = {"scene"}, DOMAIN exec.srvs = PassViews,
         DOMAIN exec.samplers = {"ps_s0", "ps_s1"}, \A s \in PassViews : "scene" \notin exec.srvs[s],
         \A s \in PassViews : "gameTexture" \notin exec.srvs[s], exec.stamp = g.content["scene"],
         NEW h, h = Execute(g, exec)
  PROVE  Executed(g, h, exec)
<1>1. CASE ~g.passesUp \/ exec.pass \notin DOMAIN g.passShaders
  <2>1. h = g
    BY <1>1, Zenon DEF Execute
  <2> QED BY <2>1 DEF Executed, Leaves, Same, Calm
<1>2. CASE ~(~g.passesUp \/ exec.pass \notin DOMAIN g.passShaders)
  <2>1. PICK bound : bound = BindPass(g, exec)
    OBVIOUS
  <2>2. PICK bytes : bytes = Buffer(g, exec)
    OBVIOUS
  <2>3. PICK ready : ready = BindTargets(Set(bound, [slot \in {"vs_b0", "ps_b0"} |-> {"DynamicCB"}]), exec)
    OBVIOUS
  <2>4. PICK drawn : drawn = Issue(ready, g.passShaders[exec.pass], PsInputs, {"om_rtv"}, exec.stamp)
    OBVIOUS
  <2>5. PICK unbound : unbound = Set(drawn, Nothing(DOMAIN exec.srvs))
    OBVIOUS
  <2>6. PICK early : early = RestorePipelineState(bound, SavePipelineState(g))
    OBVIOUS
  <2>7. PICK late : late = RestorePipelineState(unbound, SavePipelineState(g))
    OBVIOUS
  <2>8. h = IF bytes = 0 THEN early ELSE [late EXCEPT !.dynamicCB = bytes]
    BY <1>2, <2>1, <2>2, <2>3, <2>4, <2>5, <2>6, <2>7, Zenon DEF Execute
  <2>9. PassBound(g, bound, exec)
    BY <2>1, PassBinds
  <2>10. CASE bytes = 0
    <3>1. h = early
      BY <2>8, <2>10
    <3>2. Rebound(g, bound, h)
      BY <2>6, <2>9, <3>1, PassBack DEF PassBound
    <3>3. Same(g, h, {"bound"}) /\ h.content = g.content /\ h.drawn = g.drawn
      BY <2>9, <3>2 DEF PassBound, Rebound, Same, Fields
    <3> QED BY <3>2, <3>3 DEF Executed, Leaves, Rebound, Same
  <2>11. CASE bytes # 0
    <3>1. PassReady(g, ready, exec)
      BY <2>3, <2>9, PassTargets
    <3>2. PICK shader : shader = g.passShaders[exec.pass]
      OBVIOUS
    <3>3. shader = CompositeName
      BY <1>2, <3>2 DEF Calm, IsDevice
    <3>4. /\ IsDevice(drawn) /\ Same(ready, drawn, {"content", "drawn"})
          /\ \A r \in Resources : drawn.content[r] = IF \E o \in {"om_rtv"} : r \in ready.bound[o] THEN exec.stamp
                                                     ELSE ready.content[r]
          /\ drawn.drawn = ready.drawn \cup {Draw(ready, shader, PsInputs)}
      BY <2>4, <3>1, <3>2, IssueWrites DEF PassReady
    <3>5. ready.content = g.content /\ ready.drawn = g.drawn /\ drawn.bound = ready.bound
      BY <3>1, <3>4 DEF PassReady, Same, Fields
    <3>6. PICK none : none = Nothing(DOMAIN exec.srvs)
      OBVIOUS
    <3>7. DOMAIN none = PassViews /\ \A s \in PassViews : none[s] = {}
      BY <3>6 DEF Nothing, Null
    <3>8. Puts(drawn, unbound, none)
      <4>1. DOMAIN none \subseteq Slots /\ DOMAIN none \cap Outputs = {}
        BY <3>7, FullscreenSlots, SlotKinds
      <4>2. unbound = Set(drawn, none)
        BY <2>5, <3>6
      <4> QED BY <3>4, <3>7, <4>1, <4>2, InputPuts
    <3>9. \A s \in Slots \ PassSlots : unbound.bound[s] = g.bound[s]
      BY <3>1, <3>5, <3>7, <3>8, FullscreenSlots DEF Puts, PassReady
    <3>10. \A o \in Outputs : "gameTexture" \notin unbound.bound[o]
      BY <3>1, <3>5, <3>7, <3>8, FullscreenSlots, SlotKinds DEF Puts, PassReady
    <3>11. IsDevice(unbound)
      BY <3>8 DEF Puts
    <3>12. Rebound(g, unbound, late)
      BY <2>7, <3>9, <3>10, <3>11, PassBack
    <3>13. h = [late EXCEPT !.dynamicCB = bytes]
      BY <2>8, <2>11
    <3>14. DOMAIN h = Fields /\ Same(late, h, {"dynamicCB"})
      BY <3>12, <3>13 DEF Rebound, IsDevice, Same, Fields
    <3>15. IsDevice(h) /\ h.bound = late.bound /\ h.content = drawn.content /\ h.drawn = drawn.drawn
      BY <3>8, <3>12, <3>14 DEF Rebound, IsDevice, Same, Fields, Puts
    <3>16. Same(g, h, {"content", "drawn", "dynamicCB", "bound"})
      BY <3>1, <3>4, <3>8, <3>12, <3>14 DEF Same, Puts, Rebound, PassReady
    <3>17. Leaves(g, h, {"content", "drawn", "dynamicCB"})
      BY <3>12, <3>15, <3>16 DEF Leaves, Rebound
    <3>18. \A r \in Resources : h.content[r] = IF r = "scene" THEN exec.stamp ELSE g.content[r]
      BY <3>1, <3>4, <3>5, <3>15 DEF PassReady
    <3>19. \A s \in PassViews : Draw(ready, shader, PsInputs).stamps[s] = {g.content[r] : r \in exec.srvs[s]}
      BY <3>1, <3>5, FullscreenSlots DEF Draw, Stamps, PassReady
    <3>20. Draw(ready, shader, PsInputs).shader = CompositeName
      BY <3>3 DEF Draw
    <3> QED
      BY <3>4, <3>5, <3>15, <3>17, <3>18, <3>19, <3>20 DEF Executed
  <2> QED BY <2>10, <2>11
<1> QED
  BY <1>1, <1>2

LEMMA LeavesCalm ==
  ASSUME NEW g, Calm(g), NEW changed, NEW h, Leaves(g, h, changed)
  PROVE  Calm(h)
BY SlotKinds DEF Calm, Leaves

\* What the pyramid or the game's depth is, for the clouds.
LEMMA CloudDepths ==
  ASSUME NEW g, g.gameDepth \in {Null} \cup {{m} : m \in Depths}
  PROVE  /\ CloudDepth(g) \subseteq Resources
         /\ CloudDepth(g) \cap (NoiseNames \cup {"cloud", "history", "sceneCopy", "scene", "gameTexture"}) = {}
<1>1. CloudDepth(g) \subseteq Pyramid \cup Depths
  BY DEF CloudDepth, Null
<1>2. (Pyramid \cup Depths) \cap {"scene", "gameTexture"} = {}
  BY MipsApart DEF OtherNames, Depths, MainDepths, Targets
<1> QED
  BY <1>1, <1>2, CloudNames DEF Resources

Composed(g, h) ==
  /\ Leaves(g, h, {"content", "drawn", "dynamicCB"})
  /\ \A r \in Resources \ {"sceneCopy"} : h.content[r] = g.content[r]
  /\ g.drawn \subseteq h.drawn
  /\ \A y \in h.drawn \ g.drawn :
       /\ y.shader = CompositeName
       /\ y.stamps["ps_t0"] = {g.content["cloud"]} /\ y.stamps["ps_t2"] = {g.content["scene"]}
       /\ y.stamps["ps_t1"] = {g.content[r] : r \in CloudDepth(g)}

LEMMA CompositeWrites ==
  ASSUME NEW g, Calm(g), g.gameDepth \in {Null} \cup {{m} : m \in Depths}, NEW target, NEW memory,
         NEW h, h = Composite(g, target, memory)
  PROVE  Composed(g, h)
<1>1. CASE target # {"scene"} \/ ~memory.copy
  <2>1. h = g
    BY <1>1, Zenon DEF Composite
  <2> QED BY <2>1 DEF Composed, Leaves, Same, Calm
<1>2. CASE ~(target # {"scene"} \/ ~memory.copy)
  <2> DEFINE View(slot) == CASE slot = "ps_t0" -> {"cloud"}
                             [] slot = "ps_t1" -> CloudDepth(g)
                             [] slot = "ps_t2" -> {"sceneCopy"}
  <2>1. PICK copied : copied = Write(g, "sceneCopy", g.content["scene"])
    OBVIOUS
  <2>2. PICK srvs : srvs = [slot \in {"ps_t0", "ps_t1", "ps_t2"} |-> View(slot)]
    OBVIOUS
  <2>3. PICK points : points = IF Creates(g, "PointSampler") THEN {"PointSampler"} ELSE Null
    OBVIOUS
  <2>4. PICK samplers : samplers = [slot \in {"ps_s0", "ps_s1"} |->
                                      IF slot = "ps_s0" THEN points ELSE {"TrilinearSampler"}]
    OBVIOUS
  <2>5. PICK exec : exec = [pass |-> CompositeId(g), rtv |-> target, cbSize |-> CompositeSize,
                            memory |-> memory.buffer, stamp |-> g.content["scene"],
                            srvs |-> srvs, samplers |-> samplers]
    OBVIOUS
  <2>6. h = Execute(copied, exec)
    BY <1>2, <2>1, <2>2, <2>3, <2>4, <2>5, Zenon DEF Composite
  <2>7. /\ DOMAIN srvs = PassViews /\ srvs["ps_t0"] = {"cloud"} /\ srvs["ps_t1"] = CloudDepth(g)
        /\ srvs["ps_t2"] = {"sceneCopy"} /\ DOMAIN samplers = {"ps_s0", "ps_s1"}
    BY <2>2, <2>4 DEF PassViews
  <2> HIDE DEF View
  <2>8. exec.srvs = srvs /\ exec.samplers = samplers /\ exec.rtv = {"scene"} /\ exec.stamp = g.content["scene"]
    BY <1>2, <2>5
  <2>9. /\ IsDevice(copied) /\ Same(g, copied, {"content"})
        /\ \A r \in Resources : copied.content[r] = IF r = "sceneCopy" THEN g.content["scene"] ELSE g.content[r]
    BY <2>1, CloudNames, Writes DEF Calm
  <2>10. copied.bound = g.bound /\ copied.drawn = g.drawn /\ Calm(copied)
    BY <2>9 DEF Same, Fields, Calm
  <2>11. \A s \in PassViews : "scene" \notin exec.srvs[s] /\ "gameTexture" \notin exec.srvs[s]
    BY <2>7, <2>8, CloudDepths DEF PassViews
  <2>12. exec.stamp = copied.content["scene"]
    BY <2>8, <2>9, CloudNames
  <2>13. Executed(copied, h, exec)
    BY <2>6, <2>7, <2>8, <2>10, <2>11, <2>12, PassExecutes
  <2>14. Leaves(g, h, {"content", "drawn", "dynamicCB"})
    BY <2>9, <2>10, <2>13 DEF Executed, Leaves, Same
  <2>15. ASSUME NEW y \in h.drawn \ g.drawn
         PROVE  /\ y.shader = CompositeName
                /\ y.stamps["ps_t0"] = {g.content["cloud"]} /\ y.stamps["ps_t2"] = {g.content["scene"]}
                /\ y.stamps["ps_t1"] = {g.content[r] : r \in CloudDepth(g)}
    <3>1. y.shader = CompositeName /\ \A s \in PassViews : y.stamps[s] = {copied.content[r] : r \in srvs[s]}
      BY <2>8, <2>10, <2>13, <2>15 DEF Executed
    <3>2. copied.content["cloud"] = g.content["cloud"] /\ copied.content["sceneCopy"] = g.content["scene"]
      BY <2>9, CloudNames
    <3>3. \A r \in CloudDepth(g) : copied.content[r] = g.content[r]
      BY <2>9, CloudDepths
    <3>4. {copied.content[r] : r \in CloudDepth(g)} = {g.content[r] : r \in CloudDepth(g)}
      BY <3>3
    <3> QED BY <2>7, <3>1, <3>2, <3>4 DEF PassViews
  <2> QED BY <2>9, <2>10, <2>13, <2>14, <2>15 DEF Composed, Executed
<1> QED
  BY <1>1, <1>2

\* What the clouds draw with, when they left h after they began on g.
CloudDraw(y, g, h) ==
  \/ y.shader \in {"CloudShapeNoise", "CloudDetailNoise"}
  \/ /\ y.shader = "CloudRaymarch"
     /\ y.stamps["cs_t0"] = {1} /\ y.stamps["cs_t1"] = {1} /\ y.stamps["cs_t2"] = {h.frameIndex - 1}
     /\ y.stamps["cs_t3"] = {g.content[r] : r \in CloudDepth(g)}
  \/ /\ y.shader = CompositeName
     /\ y.stamps["ps_t0"] = {h.frameIndex} /\ y.stamps["ps_t2"] = {g.content["scene"]}
     /\ y.stamps["ps_t1"] = {g.content[r] : r \in CloudDepth(g)}

CloudNamesAll == NoiseNames \cup {"cloud", "history", "sceneCopy"}
HistoryKept(g) ==
  /\ g.frameIndex \in Nat /\ g.content["history"] = g.frameIndex
  /\ g.noise => \A r \in NoiseNames : g.content[r] = 1

Clouded(g, h) ==
  /\ Leaves(g, h, {"content", "drawn", "dynamicCB", "noise", "cloudsOn", "frameIndex"})
  /\ \A r \in Resources \ CloudNamesAll : h.content[r] = g.content[r]
  /\ HistoryKept(h)
  /\ g.drawn \subseteq h.drawn /\ \A y \in h.drawn \ g.drawn : CloudDraw(y, g, h)

LEMMA CloudsExecute ==
  ASSUME NEW g, Calm(g), g.gameDepth \in {Null} \cup {{m} : m \in Depths}, HistoryKept(g),
         g.cloudsUp => HasShaders(g, CloudShaders),
         NEW target, NEW memory, NEW h, h = ExecuteClouds(g, target, memory)
  PROVE  Clouded(g, h)
<1>1. CASE ~g.cloudsUp \/ ~g.cloudsOn
  <2>1. h = g
    BY <1>1, Zenon DEF ExecuteClouds
  <2> QED BY <2>1 DEF Clouded, Leaves, Same, Calm
<1>2. CASE g.cloudsUp /\ g.cloudsOn
  <2>1. PICK noisy : noisy = GenerateNoise(g)
    OBVIOUS
  <2>2. PICK next : next = [noisy EXCEPT !.frameIndex = @ + 1]
    OBVIOUS
  <2>3. PICK marched : marched = Raymarch(next)
    OBVIOUS
  <2>4. h = IF ~noisy.cloudsOn THEN noisy ELSE Composite(marched, target, memory)
    BY <1>2, <2>1, <2>2, <2>3, Zenon DEF ExecuteClouds
  <2>5. NoiseMade(g, noisy)
    <3>1. IsDevice(g) /\ Drawing(g.bound)
      BY CalmDraws DEF Calm
    <3> QED BY <1>2, <2>1, <3>1, NoiseIsMade DEF HistoryKept
  <2>6. Calm(noisy)
    BY <2>5, LeavesCalm DEF NoiseMade
  <2>7. /\ noisy.gameDepth = g.gameDepth /\ noisy.hizUp = g.hizUp /\ noisy.frameIndex = g.frameIndex
        /\ noisy.shaders = g.shaders
    BY <2>5 DEF NoiseMade, Leaves, Same, Fields
  <2>8. \A r \in Resources \ NoiseNames : noisy.content[r] = g.content[r]
    BY <2>5 DEF NoiseMade
  <2>9. noisy.content["history"] = g.frameIndex
    BY <2>8, CloudNames DEF HistoryKept, NoiseNames
  <2>10. CASE ~noisy.cloudsOn
    <3>1. h = noisy
      BY <2>4, <2>10
    <3>2. Leaves(g, h, {"content", "drawn", "dynamicCB", "noise", "cloudsOn", "frameIndex"})
      BY <2>5, <3>1 DEF NoiseMade, Leaves, Same
    <3>3. HistoryKept(h)
      BY <2>5, <2>7, <2>9, <3>1 DEF NoiseMade, HistoryKept
    <3> QED BY <2>5, <2>8, <3>1, <3>2, <3>3 DEF Clouded, NoiseMade, CloudDraw, CloudNamesAll
  <2>11. CASE noisy.cloudsOn
    <3>1. h = Composite(marched, target, memory)
      BY <2>4, <2>11
    <3>2. DOMAIN next = Fields /\ next.frameIndex = g.frameIndex + 1 /\ Same(noisy, next, {"frameIndex"})
      BY <2>2, <2>6, <2>7 DEF Calm, IsDevice, Same, Fields
    <3>3. /\ next.bound = noisy.bound /\ next.content = noisy.content /\ next.drawn = noisy.drawn
          /\ next.gameDepth = g.gameDepth /\ next.hizUp = g.hizUp /\ next.shaders = g.shaders
          /\ next.passShaders = noisy.passShaders
      BY <2>7, <3>2 DEF Same, Fields
    <3>4. Calm(next)
      BY <2>6, <2>7, <3>2, <3>3 DEF Calm, IsDevice
    <3>5. "CloudRaymarch" \in Range(next.shaders)
      BY <1>2, <3>3 DEF HasShaders, CloudShaders
    <3>6. Marched(next, marched)
      BY <2>3, <3>3, <3>4, <3>5, RaymarchWrites
    <3>7. Calm(marched)
      BY <3>4, <3>6, LeavesCalm DEF Marched
    <3>8. marched.gameDepth = g.gameDepth /\ marched.hizUp = g.hizUp /\ marched.frameIndex = g.frameIndex + 1
          /\ marched.noise = noisy.noise
      BY <3>2, <3>3, <3>6 DEF Marched, Leaves, Same, Fields
    <3>9. Composed(marched, h)
      BY <3>1, <3>7, <3>8, CompositeWrites
    <3>10. h.frameIndex = g.frameIndex + 1 /\ h.noise = noisy.noise
      BY <3>8, <3>9 DEF Composed, Leaves, Same, Fields
    <3>11. CloudDepth(next) = CloudDepth(g) /\ CloudDepth(marched) = CloudDepth(g)
      BY <3>3, <3>8 DEF CloudDepth
    <3>12. \A r \in CloudDepth(g) : next.content[r] = g.content[r] /\ marched.content[r] = g.content[r]
      BY <2>8, <3>3, <3>6, CloudDepths DEF Marched
    <3>13. /\ {next.content[r] : r \in CloudDepth(g)} = {g.content[r] : r \in CloudDepth(g)}
           /\ {marched.content[r] : r \in CloudDepth(g)} = {g.content[r] : r \in CloudDepth(g)}
      BY <3>12
    <3>14. noisy.noise /\ \A r \in NoiseNames : noisy.content[r] = 1
      BY <2>5, <2>11 DEF NoiseMade
    <3>15. Leaves(g, h, {"content", "drawn", "dynamicCB", "noise", "cloudsOn", "frameIndex"})
      BY <2>5, <3>2, <3>3, <3>6, <3>9 DEF NoiseMade, Marched, Composed, Leaves, Same
    <3>16. \A r \in Resources \ CloudNamesAll : h.content[r] = g.content[r]
      BY <2>8, <3>3, <3>6, <3>9 DEF Marched, Composed, CloudNamesAll
    <3>17. HistoryKept(h)
      <4>1. h.content["history"] = g.frameIndex + 1
        BY <3>2, <3>6, <3>9, CloudNames DEF Marched, Composed
      <4>2. \A r \in NoiseNames : h.content[r] = 1
        BY <3>3, <3>6, <3>9, <3>14, CloudNames DEF Marched, Composed, NoiseNames
      <4> QED BY <3>10, <4>1, <4>2 DEF HistoryKept
    <3>18. ASSUME NEW y \in marched.drawn \ noisy.drawn PROVE CloudDraw(y, g, h)
      <4>1. /\ y.shader = "CloudRaymarch"
            /\ y.stamps["cs_t0"] = {next.content["shapeNoise"]} /\ y.stamps["cs_t1"] = {next.content["detailNoise"]}
            /\ y.stamps["cs_t2"] = {next.content["history"]}
            /\ y.stamps["cs_t3"] = {next.content[r] : r \in CloudDepth(next)}
        BY <3>3, <3>6, <3>18 DEF Marched
      <4>2. next.content["shapeNoise"] = 1 /\ next.content["detailNoise"] = 1
            /\ next.content["history"] = h.frameIndex - 1
        BY <2>9, <3>3, <3>10, <3>14 DEF NoiseNames, HistoryKept
      <4> QED BY <3>11, <3>13, <4>1, <4>2 DEF CloudDraw
    <3>19. ASSUME NEW y \in h.drawn \ marched.drawn PROVE CloudDraw(y, g, h)
      <4>1. /\ y.shader = CompositeName
            /\ y.stamps["ps_t0"] = {marched.content["cloud"]} /\ y.stamps["ps_t2"] = {marched.content["scene"]}
            /\ y.stamps["ps_t1"] = {marched.content[r] : r \in CloudDepth(marched)}
        BY <3>9, <3>19 DEF Composed
      <4>2. marched.content["cloud"] = h.frameIndex /\ marched.content["scene"] = g.content["scene"]
        BY <2>8, <3>2, <3>3, <3>6, <3>10, CloudNames DEF Marched, NoiseNames
      <4> QED BY <3>11, <3>13, <4>1, <4>2 DEF CloudDraw
    <3>20. g.drawn \subseteq h.drawn /\ \A y \in h.drawn \ g.drawn : CloudDraw(y, g, h)
      <4>1. \A y \in noisy.drawn \ g.drawn : CloudDraw(y, g, h)
        BY <2>5 DEF NoiseMade, CloudDraw
      <4> QED BY <2>5, <3>3, <3>6, <3>9, <3>18, <3>19, <4>1 DEF NoiseMade, Marched, Composed
    <3> QED BY <3>15, <3>16, <3>17, <3>20 DEF Clouded
  <2> QED BY <2>10, <2>11
<1> QED
  BY <1>1, <1>2

-----------------------------------------------------------------------------
(* The stage: what is on the list, and in which order it runs.             *)

LEMMA SortRearranges ==
  ASSUME PipelineTypes, OwnPasses(passes), Single(passes)
  PROVE  /\ OwnPasses(SortPasses) /\ Single(SortPasses)
         /\ \A priority : Has(SortPasses, priority) <=> Has(passes, priority)
<1> DEFINE D == DOMAIN passes
           at(k) == CHOOSE i \in D : Rank(i) = k - 1
<1>1. D = 1 .. Len(passes) /\ Len(passes) \in Nat
  BY DEF PipelineTypes
<1>2. \A k \in D : at(k) \in D /\ Rank(at(k)) = k - 1
  BY RankFacts
<1>3. SortPasses = [k \in D |-> passes[at(k)]]
  BY DEF SortPasses
<1> HIDE DEF at
<1>4. DOMAIN SortPasses = D /\ \A k \in D : SortPasses[k] = passes[at(k)]
  BY <1>3
<1>5. \A k, l \in D : at(k) = at(l) => k = l
  BY <1>1, <1>2
<1>6. ASSUME NEW i \in D PROVE \E k \in D : at(k) = i
  <2>1. Rank(i) \in 0 .. Len(passes) - 1
    BY RankFacts
  <2>2. PICK k : k = Rank(i) + 1
    OBVIOUS
  <2>3. k \in D /\ k - 1 = Rank(i)
    BY <1>1, <2>1, <2>2
  <2>4. at(k) \in D /\ Rank(at(k)) = Rank(i)
    BY <1>2, <2>3
  <2>5. ~(Rank(i) < Rank(at(k))) /\ ~(Rank(at(k)) < Rank(i))
    BY <2>1, <2>4
  <2>6. ~Before(i, at(k)) /\ ~Before(at(k), i)
    BY <2>4, <2>5, RankFacts
  <2>7. at(k) = i
    BY <2>4, <2>6, BeforeOrders
  <2> QED BY <2>3, <2>7
<1>7. OwnPasses(SortPasses)
  BY <1>2, <1>4 DEF OwnPasses
<1>8. Single(SortPasses)
  BY <1>2, <1>4, <1>5 DEF Single
<1>9. \A priority : Has(SortPasses, priority) <=> Has(passes, priority)
  BY <1>2, <1>4, <1>6 DEF Has
<1> QED
  BY <1>7, <1>8, <1>9

LEMMA StageLists ==
  ASSUME PipelineTypes, OwnPasses(passes), Single(passes), NEW stage, ExecuteStage(stage)
  PROVE  /\ OwnPasses(passes') /\ Single(passes')
         /\ \A priority : Has(passes', priority) <=> Has(passes, priority)
<1>1. passes' = passes \/ passes' = SortPasses
  BY DEF ExecuteStage, pipeline
<1> QED
  BY <1>1, SortRearranges

\* The pyramid, then the clouds, and no third pass.
Plan(list) ==
  /\ Len(list) \in 0 .. 2
  /\ Len(list) = 1 => list[1].priority \in {HiZPriority, CloudsPriority}
  /\ Len(list) = 2 => list[1].priority = HiZPriority /\ list[2].priority = CloudsPriority

LEMMA PlanOfList ==
  ASSUME NEW list \in Seq(Pass), InOrder(list), OwnPasses(list), Single(list)
  PROVE  Plan(list) /\ DOMAIN list = 1 .. Len(list)
<1>1. DOMAIN list = 1 .. Len(list) /\ Len(list) \in Nat
  OBVIOUS
<1>2. \A i \in DOMAIN list : list[i].priority = 1 \/ list[i].priority = 80
  BY DEF OwnPasses, HiZPriority, CloudsPriority
<1>3. ~(Len(list) > 2)
  <2> SUFFICES ASSUME Len(list) > 2 PROVE FALSE
    OBVIOUS
  <2>1. 1 \in DOMAIN list /\ 2 \in DOMAIN list /\ 3 \in DOMAIN list
    BY <1>1
  <2> QED BY <1>2, <2>1 DEF Single
<1>4. Len(list) = 1 => list[1].priority \in {HiZPriority, CloudsPriority}
  <2>1. Len(list) = 1 => 1 \in DOMAIN list
    BY <1>1
  <2> QED BY <2>1 DEF OwnPasses
<1>5. ASSUME Len(list) = 2 PROVE list[1].priority = 1 /\ list[2].priority = 80
  <2>1. 1 \in DOMAIN list /\ 2 \in DOMAIN list /\ 1 < 2
    BY <1>1, <1>5
  <2>2. list[1].stage = list[2].stage /\ list[1].priority # list[2].priority
    BY <2>1 DEF OwnPasses, Single
  <2>3. list[1].priority < list[2].priority
    BY <2>1, <2>2 DEF InOrder
  <2> QED BY <1>2, <2>1, <2>3
<1>6. Len(list) \in 0 .. 2
  BY <1>1, <1>3
<1> QED
  BY <1>1, <1>4, <1>5, <1>6 DEF Plan, HiZPriority, CloudsPriority

RunsOf(x, n, g, list, target, memory) ==
  x = [k \in 0 .. n |-> IF k = 0 THEN g ELSE RunPass(x[k - 1], list[k].priority, target, memory)]

LEMMA RunsAre ==
  ASSUME NEW g, NEW list, NEW target, NEW memory, Len(list) \in 0 .. 2, NEW h,
         h = RunPasses(g, list, target, memory)
  PROVE  /\ Len(list) = 0 => h = g
         /\ Len(list) = 1 => h = RunPass(g, list[1].priority, target, memory)
         /\ Len(list) = 2 => h = RunPass(RunPass(g, list[1].priority, target, memory), list[2].priority, target, memory)
<1>1. PICK n : n = Len(list)
  OBVIOUS
<1>2. PICK r1 : r1 = RunPass(g, list[1].priority, target, memory)
  OBVIOUS
<1>3. PICK r2 : r2 = RunPass(r1, list[2].priority, target, memory)
  OBVIOUS
<1>4. \E x : RunsOf(x, n, g, list, target, memory)
  <2> DEFINE x == [k \in 0 .. n |-> IF k = 0 THEN g ELSE IF k = 1 THEN r1 ELSE r2]
  <2>1. \A k \in 0 .. n : k = 0 \/ k = 1 \/ k = 2
    BY <1>1
  <2>2. ASSUME NEW k \in 0 .. n
        PROVE  x[k] = IF k = 0 THEN g ELSE RunPass(x[k - 1], list[k].priority, target, memory)
    <3>1. CASE k = 0
      BY <3>1
    <3>2. CASE k = 1
      <4>1. x[1] = r1 /\ x[0] = g
        BY <1>1, <3>2
      <4> HIDE DEF x
      <4> QED BY <1>2, <3>2, <4>1
    <3>3. CASE k = 2
      <4>1. x[2] = r2 /\ x[1] = r1
        BY <1>1, <3>3
      <4> HIDE DEF x
      <4> QED BY <1>3, <3>3, <4>1
    <3> QED BY <2>1, <3>1, <3>2, <3>3
  <2>3. x = [k \in 0 .. n |-> x[k]]
    OBVIOUS
  <2> HIDE DEF x
  <2>4. RunsOf(x, n, g, list, target, memory)
    BY <2>2, <2>3 DEF RunsOf
  <2> QED BY <2>4
<1>5. PICK x : x = CHOOSE y : RunsOf(y, n, g, list, target, memory)
  OBVIOUS
<1>6. RunsOf(x, n, g, list, target, memory)
  BY <1>4, <1>5
<1>7. h = x[n]
  BY <1>1, <1>5, Zenon DEF RunPasses, RunsOf
<1>8. \A k \in 0 .. n : x[k] = IF k = 0 THEN g ELSE RunPass(x[k - 1], list[k].priority, target, memory)
  BY <1>6 DEF RunsOf
<1>9. 0 \in 0 .. n /\ (n >= 1 => 1 \in 0 .. n) /\ (n = 2 => 2 \in 0 .. n) /\ 1 - 1 = 0 /\ 2 - 1 = 1
  BY <1>1
<1>10. x[0] = g
  BY <1>8, <1>9
<1>11. n >= 1 => x[1] = r1
  BY <1>2, <1>8, <1>9, <1>10
<1>12. n = 2 => x[2] = r2
  BY <1>3, <1>8, <1>9, <1>11
<1> QED
  BY <1>1, <1>2, <1>3, <1>7, <1>10, <1>11, <1>12

\* A draw of the stage reads the depth of frame f, when that is known.
DepthOf(g, f) == IF g.hizUp THEN -f ELSE f
StageDraw(y, g, h, f) ==
  \/ PyramidDraw(y, g, f)
  \/ y.shader \in {"CloudShapeNoise", "CloudDetailNoise"}
  \/ /\ y.shader = "CloudRaymarch"
     /\ y.stamps["cs_t0"] = {1} /\ y.stamps["cs_t1"] = {1} /\ y.stamps["cs_t2"] = {h.frameIndex - 1}
     /\ Seen(g, f) => y.stamps["cs_t3"] = {DepthOf(g, f)}
  \/ /\ y.shader = CompositeName
     /\ y.stamps["ps_t0"] = {h.frameIndex} /\ y.stamps["ps_t2"] = {g.content["scene"]}
     /\ Seen(g, f) => y.stamps["ps_t1"] = {DepthOf(g, f)}

Changed == {"content", "drawn", "dynamicCB", "noise", "cloudsOn", "frameIndex"}
StageRun(g, h, f) ==
  /\ Leaves(g, h, Changed) /\ HistoryKept(h)
  /\ \A r \in Resources \ (Pyramid \cup CloudNamesAll) : h.content[r] = g.content[r]
  /\ g.drawn \subseteq h.drawn /\ \A y \in h.drawn \ g.drawn : StageDraw(y, g, h, f)

LEMMA PyramidFull == Pyramid # {} /\ Pyramid \cap (CloudNamesAll \cup {"scene"}) = {}
<1>1. 0 \in 0 .. MipCount - 1
  BY Levels
<1> QED
  BY <1>1, CloudNames DEF Pyramid, CloudNamesAll

\* What the clouds read of the depth they are given.
LEMMA DepthRead ==
  ASSUME NEW g, NEW f \in Int, Seen(g, f), g.hizUp => \A r \in Pyramid : g.content[r] = -f
  PROVE  {g.content[r] : r \in CloudDepth(g)} = {DepthOf(g, f)}
<1>1. CASE g.hizUp
  BY <1>1, PyramidFull DEF CloudDepth, DepthOf
<1>2. CASE ~g.hizUp
  BY <1>2 DEF CloudDepth, DepthOf, Seen
<1> QED
  BY <1>1, <1>2

LEMMA CloudsOnly ==
  ASSUME NEW g, Calm(g), g.gameDepth \in {Null} \cup {{m} : m \in Depths}, HistoryKept(g),
         g.cloudsUp => HasShaders(g, CloudShaders), NEW f \in Int,
         g.hizUp /\ Seen(g, f) => \A r \in Pyramid : g.content[r] = -f,
         NEW target, NEW memory, NEW h, h = ExecuteClouds(g, target, memory)
  PROVE  StageRun(g, h, f)
<1>1. Clouded(g, h)
  BY CloudsExecute
<1>2. ASSUME NEW y \in h.drawn \ g.drawn PROVE StageDraw(y, g, h, f)
  <2>1. CloudDraw(y, g, h)
    BY <1>1, <1>2 DEF Clouded
  <2>2. Seen(g, f) => {g.content[r] : r \in CloudDepth(g)} = {DepthOf(g, f)}
    BY DepthRead
  <2> QED BY <2>1, <2>2 DEF CloudDraw, StageDraw
<1> QED
  BY <1>1, <1>2 DEF Clouded, StageRun, Changed

LEMMA StageRuns ==
  ASSUME NEW g, Calm(g), g.gameDepth \in {Null} \cup {{m} : m \in Depths}, HistoryKept(g),
         g.cloudsUp => HasShaders(g, CloudShaders), NEW f \in Int, NEW list, Plan(list),
         DOMAIN list = 1 .. Len(list), g.hizUp => Has(list, HiZPriority),
         NEW target, NEW memory, NEW h, h = RunPasses(g, list, target, memory)
  PROVE  StageRun(g, h, f)
<1>1. Len(list) \in 0 .. 2
  BY DEF Plan
<1>2. HiZPriority # CloudsPriority
  BY DEF HiZPriority, CloudsPriority
<1>3. CASE Len(list) = 0
  <2>1. h = g
    BY <1>1, <1>3, RunsAre
  <2> QED BY <2>1 DEF StageRun, Leaves, Same, Calm
<1>4. PICK x : x = BuildPyramid(g)
  OBVIOUS
<1>5. /\ Leaves(g, x, {"content", "drawn"})
      /\ \A r \in Resources \ Pyramid : x.content[r] = g.content[r]
      /\ g.hizUp /\ Seen(g, f) => \A r \in Pyramid : x.content[r] = -f
      /\ g.drawn \subseteq x.drawn /\ \A y \in x.drawn \ g.drawn : PyramidDraw(y, g, f)
  BY <1>4, PyramidBuilt
<1>6. /\ x.frameIndex = g.frameIndex /\ x.noise = g.noise /\ x.gameDepth = g.gameDepth /\ x.hizUp = g.hizUp
      /\ x.cloudsUp = g.cloudsUp /\ x.shaders = g.shaders
  BY <1>5 DEF Leaves, Same, Fields
<1>7. HistoryKept(x)
  <2>1. \A r \in NoiseNames \cup {"history"} : r \in Resources \ Pyramid
    BY CloudNames
  <2> QED BY <1>5, <1>6, <2>1 DEF HistoryKept
<1>8. CASE Len(list) = 1
  <2>1. h = RunPass(g, list[1].priority, target, memory)
    BY <1>1, <1>8, RunsAre
  <2>2. CASE list[1].priority = HiZPriority
    <3>1. h = x
      BY <1>4, <2>1, <2>2 DEF RunPass
    <3> QED BY <1>5, <1>7, <3>1 DEF StageRun, StageDraw, Leaves, Same, Changed
  <2>3. CASE list[1].priority = CloudsPriority
    <3>1. h = ExecuteClouds(g, target, memory)
      BY <1>2, <2>1, <2>3 DEF RunPass
    <3>2. ~g.hizUp
      <4>1. \A i \in 1 .. 1 : i = 1
        OBVIOUS
      <4>2. ~Has(list, HiZPriority)
        BY <1>2, <1>8, <2>3, <4>1 DEF Has
      <4> QED BY <4>2
    <3> QED BY <3>1, <3>2, CloudsOnly
  <2> QED BY <1>8, <2>2, <2>3 DEF Plan
<1>9. CASE Len(list) = 2
  <2>1. list[1].priority = HiZPriority /\ list[2].priority = CloudsPriority
    BY <1>9 DEF Plan
  <2>2. h = RunPass(RunPass(g, list[1].priority, target, memory), list[2].priority, target, memory)
    BY <1>1, <1>9, RunsAre
  <2>3. RunPass(g, list[1].priority, target, memory) = x
    BY <1>4, <2>1 DEF RunPass
  <2>4. h = ExecuteClouds(x, target, memory)
    BY <1>2, <2>1, <2>2, <2>3 DEF RunPass
  <2>5. Calm(x)
    BY <1>5, LeavesCalm
  <2>6. Seen(x, f) <=> Seen(g, f)
    <3>1. \A m \in Depths : m \in Resources /\ m \notin Pyramid
      BY MipsApart DEF Resources, OtherNames
    <3> QED BY <1>5, <1>6, <3>1 DEF Seen
  <2>7. HasShaders(x, CloudShaders) <=> HasShaders(g, CloudShaders)
    BY <1>6 DEF HasShaders
  <2>8. StageRun(x, h, f)
    BY <1>5, <1>6, <1>7, <2>4, <2>5, <2>6, <2>7, CloudsOnly
  <2>9. Leaves(g, h, Changed)
    BY <1>5, <2>8 DEF StageRun, Leaves, Same, Changed
  <2>10. \A r \in Resources \ (Pyramid \cup CloudNamesAll) : h.content[r] = g.content[r]
    BY <1>5, <2>8 DEF StageRun
  <2>11. x.content["scene"] = g.content["scene"] /\ DepthOf(x, f) = DepthOf(g, f)
    BY <1>5, <1>6, CloudNames, PyramidFull DEF DepthOf
  <2>12. ASSUME NEW y \in h.drawn \ g.drawn PROVE StageDraw(y, g, h, f)
    <3>1. CASE y \in x.drawn
      BY <1>5, <2>12, <3>1 DEF StageDraw
    <3>2. CASE y \notin x.drawn
      <4>1. StageDraw(y, x, h, f)
        BY <2>8, <2>12, <3>2 DEF StageRun
      <4> QED BY <2>6, <2>11, <4>1 DEF StageDraw, PyramidDraw
    <3> QED BY <3>1, <3>2
  <2> QED BY <1>5, <2>8, <2>9, <2>10, <2>12 DEF StageRun
<1> QED
  BY <1>1, <1>3, <1>8, <1>9

-----------------------------------------------------------------------------
(* The game's state, put aside and bound again.                            *)

LEMMA BackupCovers ==
  /\ BackedUp \subseteq Slots /\ {"om_rtv", "om_dsv"} \subseteq BackedUp
  /\ Len(BackupOrder) \in Nat
  /\ \A s \in BackedUp : \E k \in 1 .. Len(BackupOrder) : s \in BackupOrder[k]
<1>1. /\ Len(BackupOrder) = 17
      /\ BackupOrder[1] = {"om_rtv", "om_dsv"} /\ BackupOrder[2] = {"blend"}
      /\ BackupOrder[3] = {"depth_state"} /\ BackupOrder[4] = {"rs"} /\ BackupOrder[5] = {"viewport"}
      /\ BackupOrder[6] = {"ia_layout"} /\ BackupOrder[7] = {"ia_topology"} /\ BackupOrder[8] = {"ia_ib"}
      /\ BackupOrder[9] = {"vs"} /\ BackupOrder[10] = {"ps"}
      /\ BackupOrder[11] = {"ps_t0", "ps_t1", "ps_t2"} /\ BackupOrder[12] = {"ps_s0", "ps_s1"}
      /\ BackupOrder[13] = {"ps_b0"} /\ BackupOrder[14] = {"vs_b0"} /\ BackupOrder[15] = {"cs"}
      /\ BackupOrder[16] = {"cs_u0"} /\ BackupOrder[17] = CsInputs
  BY DEF BackupOrder
<1>2. \A k \in 1 .. 17 : k \in 1 .. Len(BackupOrder)
  BY <1>1
<1>3. BackedUp = CsInputs \cup {"ps_t0", "ps_t1", "ps_t2", "om_rtv", "om_dsv", "cs_u0", "cs", "vs", "vs_b0",
                                "ps", "ps_b0", "ps_s0", "ps_s1", "ia_layout", "ia_topology", "ia_ib", "rs",
                                "viewport", "blend", "depth_state"}
  BY DEF BackedUp, Slots, Views, Inputs, CsInputs, PsInputs, Outputs, States
<1>4. \A s \in BackedUp : \E k \in 1 .. 17 : s \in BackupOrder[k]
  BY <1>1, <1>3
<1> QED
  BY <1>1, <1>2, <1>3, <1>4 DEF BackedUp

Restored(d, x, h) ==
  /\ IsDevice(h) /\ Same(x, h, {"bound"})
  /\ \A s \in Slots : h.bound[s] = d[s]

LEMMA AllBack ==
  ASSUME NEW d, Drawing(d), NEW left, left \subseteq BackedUp, NEW x, Back(x, d, left),
         NEW h, h = RestoreAll(x, Restrict(d, BackedUp))
  PROVE  Restored(d, x, h)
<1>1. PICK T : T = BackedUp
  OBVIOUS
<1>2. PICK groups : groups = BackupOrder
  OBVIOUS
<1>3. /\ h = SetInTurn(x, Restrict(d, T), groups) /\ Len(groups) \in Nat /\ T \subseteq Slots /\ left \subseteq T
      /\ \A s \in left : \E k \in 1 .. Len(groups) : s \in groups[k]
  BY <1>1, <1>2, BackupCovers DEF RestoreAll
<1>4. Back(h, d, {}) /\ Same(x, h, {"bound"})
  BY <1>3, InTurnBack
<1> QED
  BY <1>4 DEF Back, Restored

LEMMA QuietIs ==
  ASSUME NEW g, IsDevice(g), NEW h, h = Quiet(g)
  PROVE  IsDevice(h) /\ Same(g, h, {"drawn"}) /\ h.drawn = {}
<1>1. DOMAIN h = Fields /\ h.drawn = {} /\ Same(g, h, {"drawn"})
  BY DEF Quiet, IsDevice, Same, Fields
<1> QED
  BY <1>1 DEF IsDevice, Same, Fields

\* The passes of the stage leave everything bound as it was.
Staged(g, h, f) ==
  /\ Leaves(g, h, Changed) /\ HistoryKept(h)
  /\ \A r \in Resources \ (Pyramid \cup CloudNamesAll) : h.content[r] = g.content[r]
  /\ \A y \in h.drawn : StageDraw(y, g, h, f)

LEMMA GeometryRuns ==
  ASSUME NEW g, IsDevice(g), Drawing(g.bound), g.gameDepth \in {Null} \cup {{m} : m \in Depths},
         HistoryKept(g), g.cloudsUp => HasShaders(g, CloudShaders), NEW f \in Int,
         NEW list, Plan(list), DOMAIN list = 1 .. Len(list), g.hizUp => Has(list, HiZPriority),
         NEW target, NEW memory, NEW h,
         h = RestoreAll(RunPasses(TargetsUnbound(Quiet(g)), list, target, memory), Save(g))
  PROVE  Staged(g, h, f)
<1> DEFINE none == Nothing({"om_rtv", "om_dsv"})
<1>1. PICK quiet : quiet = Quiet(g)
  OBVIOUS
<1>2. PICK start : start = Set(quiet, none)
  OBVIOUS
<1>3. PICK done : done = RunPasses(start, list, target, memory)
  OBVIOUS
<1>4. h = RestoreAll(done, Restrict(g.bound, BackedUp))
  BY <1>1, <1>2, <1>3 DEF TargetsUnbound, Save, Get
<1>5. DOMAIN none = {"om_rtv", "om_dsv"} /\ none["om_rtv"] = {} /\ none["om_dsv"] = {}
  BY DEF Nothing, Null
<1> HIDE DEF none
<1>6. IsDevice(quiet) /\ Same(g, quiet, {"drawn"}) /\ quiet.drawn = {}
  BY <1>1, QuietIs
<1>7. Puts(quiet, start, none)
  BY <1>2, <1>5, <1>6, SlotKinds, SetPuts DEF Taken
<1>8. Same(g, start, {"bound", "drawn"}) /\ start.drawn = {}
  BY <1>6, <1>7 DEF Puts, Same, Fields
<1>9. /\ \A s \in Slots \ {"om_rtv", "om_dsv"} : start.bound[s] = g.bound[s]
      /\ start.bound["om_rtv"] = {} /\ start.bound["om_dsv"] = {}
  BY <1>5, <1>6, <1>7, SlotKinds DEF Puts, Same, Fields
<1>10. Calm(start)
  BY <1>7, <1>9, SlotKinds DEF Calm, Puts, Drawing, Null
<1>11. /\ start.gameDepth = g.gameDepth /\ start.cloudsUp = g.cloudsUp /\ start.hizUp = g.hizUp
       /\ start.shaders = g.shaders /\ start.content = g.content /\ start.noise = g.noise
       /\ start.frameIndex = g.frameIndex
  BY <1>8 DEF Same, Fields
<1>12. HistoryKept(start)
  BY <1>11 DEF HistoryKept
<1>13. start.cloudsUp => HasShaders(start, CloudShaders)
  BY <1>11 DEF HasShaders
<1>14. start.hizUp => Has(list, HiZPriority)
  BY <1>11
<1>15. StageRun(start, done, f)
  BY <1>3, <1>10, <1>11, <1>12, <1>13, <1>14, StageRuns
<1>16. PICK left : left = {"om_rtv", "om_dsv"}
  OBVIOUS
<1>17. Back(done, g.bound, left)
  <2>1. IsDevice(done) /\ \A s \in Slots : done.bound[s] = start.bound[s]
    BY <1>15 DEF StageRun, Leaves
  <2>2. \A s \in Slots \ left : done.bound[s] = g.bound[s]
    BY <1>9, <1>16, <2>1
  <2>3. \A o \in Outputs : done.bound[o] = {}
    BY <1>10, <2>1, SlotKinds DEF Calm, Null
  <2>4. left \subseteq Outputs
    BY <1>16, SlotKinds
  <2> QED BY <2>1, <2>2, <2>3, <2>4 DEF Back
<1>18. Restored(g.bound, done, h)
  BY <1>4, <1>16, <1>17, BackupCovers, AllBack
<1>19. h.content = done.content /\ h.drawn = done.drawn /\ h.frameIndex = done.frameIndex /\ h.noise = done.noise
  BY <1>18 DEF Restored, Same, Fields
<1>20. Leaves(g, h, Changed)
  BY <1>8, <1>15, <1>18 DEF Leaves, Restored, StageRun, Same, Changed
<1>21. HistoryKept(h)
  BY <1>15, <1>19 DEF HistoryKept, StageRun
<1>22. \A r \in Resources \ (Pyramid \cup CloudNamesAll) : h.content[r] = g.content[r]
  BY <1>11, <1>15, <1>19 DEF StageRun
<1>23. ASSUME NEW y \in h.drawn PROVE StageDraw(y, g, h, f)
  <2>1. StageDraw(y, start, done, f)
    BY <1>8, <1>15, <1>19, <1>23 DEF StageRun
  <2>2. (Seen(start, f) <=> Seen(g, f)) /\ DepthOf(start, f) = DepthOf(g, f)
    BY <1>11 DEF Seen, DepthOf
  <2> QED BY <1>11, <1>19, <2>1, <2>2 DEF StageDraw, PyramidDraw
<1> QED
  BY <1>20, <1>21, <1>22, <1>23 DEF Staged

\* What is done at the end of the frame loses the injected slots alone.
Presented(g, h, sun, mapped, updating) ==
  /\ IsDevice(h)
  /\ Same(g, h, {"bound", "content", "drawn", "lastSun", "sunSeen", "unmapped", "atmoCB", "celestialCB"})
  /\ \A s \in Slots : h.bound[s] = g.bound[s] \/ s \in g.injected
  /\ Drawing(h.bound)
  /\ \A r \in Resources \ Sky : h.content[r] = g.content[r]
  /\ \A y \in h.drawn : SkyDraw(y, h)
  /\ IF updating /\ SunMoved(g, sun) THEN Computed(g, h, sun, mapped) /\ h.unmapped = (mapped # <<TRUE, TRUE>>)
     ELSE h.content = g.content /\ h.lastSun = g.lastSun /\ h.unmapped = g.unmapped
  /\ h.sunSeen = IF updating THEN sun ELSE g.sunSeen

\* Update presents, and leaves every binding as it was.
Refreshed(g, h, sun, mapped, updating) ==
  Presented(g, h, sun, mapped, updating) /\ \A s \in Slots : h.bound[s] = g.bound[s]

LEMMA UpdateRuns ==
  ASSUME NEW g, IsDevice(g), Drawing(g.bound), g.atmoUp,
         HasShaders(g, TableShaders \cup {"CelestialBodies"}),
         NEW sun, NEW mapped \in BOOLEAN \X BOOLEAN, NEW h, h = Update(Quiet(g), sun, mapped)
  PROVE  Refreshed(g, h, sun, mapped, TRUE)
<1>1. PICK quiet : quiet = Quiet(g)
  OBVIOUS
<1>2. PICK x : x = UpdateLUTs(quiet, sun, mapped)
  OBVIOUS
<1>3. PICK unmapped : unmapped = IF SunMoved(quiet, sun) THEN mapped # <<TRUE, TRUE>> ELSE x.unmapped
  OBVIOUS
<1>4. h = [x EXCEPT !.sunSeen = sun, !.unmapped = unmapped]
  BY <1>1, <1>2, <1>3, Zenon DEF Update
<1>5. IsDevice(quiet) /\ Same(g, quiet, {"drawn"}) /\ quiet.drawn = {}
  BY <1>1, QuietIs
<1>6. /\ quiet.bound = g.bound /\ quiet.atmoUp = g.atmoUp /\ quiet.shaders = g.shaders
      /\ quiet.lastSun = g.lastSun /\ quiet.content = g.content /\ quiet.unmapped = g.unmapped
  BY <1>5 DEF Same, Fields
<1>7. HasShaders(quiet, TableShaders \cup {"CelestialBodies"}) /\ (SunMoved(quiet, sun) <=> SunMoved(g, sun))
  BY <1>6 DEF HasShaders, SunMoved
<1>8. Updated(quiet, x, sun, mapped)
  BY <1>2, <1>5, <1>6, <1>7, SkyComputed
<1>9. DOMAIN h = Fields /\ h.sunSeen = sun /\ h.unmapped = unmapped /\ Same(x, h, {"sunSeen", "unmapped"})
  BY <1>4, <1>8 DEF Updated, Leaves, IsDevice, Same, Fields
<1>10. /\ h.bound = x.bound /\ h.content = x.content /\ h.drawn = x.drawn /\ h.lastSun = x.lastSun
       /\ h.atmoCB = x.atmoCB /\ h.shaders = x.shaders /\ h.passShaders = x.passShaders
  BY <1>9 DEF Same, Fields
<1>11. IsDevice(h)
  BY <1>8, <1>9, <1>10 DEF IsDevice, Updated, Leaves
<1>12. Same(g, h, {"bound", "content", "drawn", "lastSun", "sunSeen", "unmapped", "atmoCB", "celestialCB"})
  BY <1>5, <1>8, <1>9 DEF Same, Updated, Leaves
<1>13. \A s \in Slots : h.bound[s] = g.bound[s]
  BY <1>6, <1>8, <1>10 DEF Updated, Leaves
<1>14. Drawing(h.bound)
  BY <1>11, <1>13, SlotKinds DEF Drawing, IsDevice
<1>15. \A r \in Resources \ Sky : h.content[r] = g.content[r]
  BY <1>6, <1>8, <1>10 DEF Updated
<1>16. \A y \in h.drawn : SkyDraw(y, h)
  BY <1>5, <1>8, <1>10 DEF Updated, SkyDraw
<1>17. CASE SunMoved(g, sun)
  <2>1. Computed(quiet, x, sun, mapped)
    BY <1>6, <1>7, <1>8, <1>17 DEF Updated
  <2>2. Computed(g, h, sun, mapped)
    BY <1>10, <2>1 DEF Computed
  <2>3. h.unmapped = (mapped # <<TRUE, TRUE>>)
    BY <1>3, <1>7, <1>9, <1>17
  <2> QED BY <1>9, <1>11, <1>12, <1>13, <1>14, <1>15, <1>16, <1>17, <2>2, <2>3 DEF Presented, Refreshed
<1>18. CASE ~SunMoved(g, sun)
  <2>1. x = quiet
    BY <1>7, <1>8, <1>18 DEF Updated
  <2>2. h.content = g.content /\ h.lastSun = g.lastSun /\ h.unmapped = g.unmapped
    BY <1>3, <1>6, <1>7, <1>9, <1>10, <1>18, <2>1
  <2> QED BY <1>9, <1>11, <1>12, <1>13, <1>14, <1>15, <1>16, <1>18, <2>2 DEF Presented, Refreshed
<1> QED
  BY <1>17, <1>18

LEMMA PresentRuns ==
  ASSUME NEW g, IsDevice(g), Drawing(g.bound), g.injected \subseteq {"ps_t23"},
         g.atmoUp => HasShaders(g, TableShaders \cup {"CelestialBodies"}),
         NEW sun, NEW mapped \in BOOLEAN \X BOOLEAN, NEW updating \in BOOLEAN, updating => g.atmoUp,
         NEW updated, updated = IF updating THEN Update(Quiet(g), sun, mapped) ELSE Quiet(g),
         NEW h, h = RestoreAll(ClearAll(updated), Save(g))
  PROVE  Presented(g, h, sun, mapped, updating)
<1>1. Presented(g, updated, sun, mapped, updating) /\ \A s \in Slots : updated.bound[s] = g.bound[s]
  <2>1. CASE updating
    <3>1. updated = Update(Quiet(g), sun, mapped)
      BY <2>1
    <3>2. g.atmoUp /\ HasShaders(g, TableShaders \cup {"CelestialBodies"})
      BY <2>1
    <3>3. Refreshed(g, updated, sun, mapped, TRUE)
      BY <3>1, <3>2, UpdateRuns
    <3>4. updating = TRUE
      BY <2>1
    <3> QED BY <3>3, <3>4 DEF Refreshed
  <2>2. CASE ~updating
    <3>1. updated = Quiet(g)
      BY <2>2
    <3>2. IsDevice(updated) /\ Same(g, updated, {"drawn"}) /\ updated.drawn = {}
      BY <3>1, QuietIs
    <3>3. /\ updated.bound = g.bound /\ updated.content = g.content /\ updated.lastSun = g.lastSun
          /\ updated.unmapped = g.unmapped /\ updated.sunSeen = g.sunSeen
      BY <3>2 DEF Same, Fields
    <3> QED BY <2>2, <3>2, <3>3 DEF Presented, Same
  <2> QED BY <2>1, <2>2
<1>2. PICK f : f = Nothing(updated.injected)
  OBVIOUS
<1>3. PICK x : x = Set(updated, f)
  OBVIOUS
<1>4. updated.injected = g.injected
  BY <1>1 DEF Presented, Same, Fields
<1>5. DOMAIN f = g.injected /\ \A s \in g.injected : f[s] = {}
  BY <1>2, <1>4 DEF Nothing, Null
<1>6. "ps_t23" \in Inputs /\ "ps_t23" \in Slots /\ "ps_t23" \notin Outputs /\ "ps_t23" \notin BackedUp
  BY SlotKinds DEF Inputs, PsInputs, Slots, BackedUp
<1>7. Puts(updated, x, f)
  <2>1. DOMAIN f \subseteq Slots /\ DOMAIN f \cap Outputs = {} /\ \A s \in DOMAIN f \cap Inputs : f[s] \cap Busy(updated) = {}
    BY <1>5, <1>6
  <2>2. Taken(f) = {}
    BY <2>1 DEF Taken
  <2> QED BY <1>1, <1>3, <2>1, <2>2, SetPuts DEF Presented
<1>8. PICK d : d = [s \in Slots |-> IF s = "ps_t23" THEN x.bound["ps_t23"] ELSE g.bound[s]]
  OBVIOUS
<1>9. /\ DOMAIN d = Slots /\ d["ps_t23"] = x.bound["ps_t23"]
      /\ \A s \in Slots \ {"ps_t23"} : d[s] = g.bound[s]
  BY <1>6, <1>8
<1>10. \A s \in Slots : x.bound[s] = d[s]
  BY <1>1, <1>5, <1>7, <1>9 DEF Puts
<1>11. Drawing(d)
  <2>1. d["ps_t23"] \subseteq {"gameTexture"}
    BY <1>1, <1>5, <1>6, <1>7, <1>9 DEF Puts, Drawing
  <2> QED BY <1>6, <1>9, <2>1, SlotKinds DEF Drawing
<1>12. PICK left : left = {}
  OBVIOUS
<1>13. Back(x, d, left)
  <2>1. \A o \in Outputs : "gameTexture" \notin d[o]
    BY <1>11, DrawingParts
  <2>2. \A o \in Outputs : "gameTexture" \notin x.bound[o]
    BY <1>10, <2>1, SlotKinds
  <2>3. IsDevice(x)
    BY <1>7 DEF Puts
  <2> QED BY <1>10, <1>12, <2>2, <2>3 DEF Back
<1>14. h = RestoreAll(x, Restrict(d, BackedUp))
  <2>1. Restrict(d, BackedUp) = Restrict(g.bound, BackedUp)
    <3>1. \A s \in BackedUp : d[s] = g.bound[s]
      BY <1>6, <1>9, BackupCovers
    <3> QED BY <3>1, Zenon DEF Restrict
  <2> QED BY <1>2, <1>3, <2>1 DEF Save, Get, ClearAll
<1>15. Restored(d, x, h)
  BY <1>11, <1>12, <1>13, <1>14, AllBack
<1>16. Same(updated, h, {"bound"}) /\ IsDevice(h) /\ \A s \in Slots : h.bound[s] = d[s]
  BY <1>7, <1>15 DEF Restored, Puts, Same
<1>17. /\ h.content = updated.content /\ h.drawn = updated.drawn /\ h.lastSun = updated.lastSun
       /\ h.sunSeen = updated.sunSeen /\ h.unmapped = updated.unmapped /\ h.atmoCB = updated.atmoCB
  BY <1>16 DEF Same, Fields
<1>18. \A s \in Slots : h.bound[s] = g.bound[s] \/ s \in g.injected
  BY <1>1, <1>5, <1>7, <1>9, <1>16 DEF Puts
<1>19. Drawing(h.bound)
  BY <1>11, <1>16, SlotKinds DEF Drawing, IsDevice
<1>20. Same(g, h, {"bound", "content", "drawn", "lastSun", "sunSeen", "unmapped", "atmoCB", "celestialCB"})
  BY <1>1, <1>16 DEF Presented, Same
<1>21. \A y \in h.drawn : SkyDraw(y, h)
  BY <1>1, <1>17 DEF Presented, SkyDraw
<1>22. updating /\ SunMoved(g, sun) => Computed(g, updated, sun, mapped) /\ updated.unmapped = (mapped # <<TRUE, TRUE>>)
  BY <1>1 DEF Presented
<1>23. updating /\ SunMoved(g, sun) => Computed(g, h, sun, mapped) /\ h.unmapped = (mapped # <<TRUE, TRUE>>)
  <2>1. Computed(g, updated, sun, mapped) => Computed(g, h, sun, mapped)
    BY <1>17 DEF Computed
  <2> QED BY <1>17, <1>22, <2>1
<1>24. /\ ~(updating /\ SunMoved(g, sun)) =>
              h.content = g.content /\ h.lastSun = g.lastSun /\ h.unmapped = g.unmapped
       /\ h.sunSeen = IF updating THEN sun ELSE g.sunSeen
  BY <1>1, <1>17 DEF Presented
<1>25. \A r \in Resources \ Sky : h.content[r] = g.content[r]
  BY <1>1, <1>17 DEF Presented
<1> QED
  BY <1>16, <1>18, <1>19, <1>20, <1>21, <1>23, <1>24, <1>25 DEF Presented

-----------------------------------------------------------------------------
(* The invariant of the tier.                                              *)

SkyShaders == TableShaders \cup {"CelestialBodies"}

\* What is bound while the game draws, and the depth the proxy offers.
DeviceInv ==
  /\ IsDevice(gpu) /\ gpu.injected \subseteq {"ps_t23"}
  /\ gpu.gameDepth \in {Null} \cup {{m} : m \in Depths}
  /\ mainDepth \in MainDepths /\ gameFrame \in Nat
  /\ progress \in {"drawn", "dispatched"} => Drawing(gpu.bound)

\* The sun the tables stand for, known as soon as one was seen.
SkyShows(g) ==
  g.sunSeen # Never /\ ~g.unmapped =>
    \E shown \in Suns :
      /\ \A table \in Sky : g.content[table] = shown
      /\ g.lastSun = ZenithOf(shown) /\ Distance(ZenithOf(g.sunSeen), g.lastSun) < Threshold
SunInv ==
  /\ SkyShows(gpu)
  /\ gpu.sunSeen = Never => gpu.lastSun = Never
  /\ gpu.lastSun \in Nat \cup {Never}
  /\ gpu.atmoUp => HasShaders(gpu, SkyShaders)

\* The list has the pyramid exactly when it was made, and the clouds once they
\* were added, each of them once.
PassInv ==
  /\ PipelineTypes /\ ListInv /\ OwnPasses(passes) /\ Single(passes)
  /\ setUp \in {"start", "managers", "pyramid", "done"} /\ (setUp # "start" => pipelineUp)
  /\ setUp \in {"start", "managers"} => ~gpu.hizUp /\ passes = <<>>
  /\ setUp \in {"pyramid", "done"} => (gpu.hizUp <=> Has(passes, HiZPriority))
  /\ loader # "none" => setUp = "done"
  /\ Has(passes, CloudsPriority) => loader \in {"added", "done"}

\* The clouds are up once all their shaders and the pass are there.
LoaderInv ==
  /\ loader \in {"none", "start"} => ~CompositeRegistered(gpu)
  /\ loader \in {"created", "added", "done"} => HasShaders(gpu, CloudShaders)
  /\ gpu.cloudsUp => loader = "done"

\* The history is of the last march, and what the game has drawn is of this frame.
FrameInv ==
  /\ HistoryKept(gpu)
  /\ progress = "drawn" => gpu.content[mainDepth] = gameFrame /\ gpu.content["scene"] = gameFrame

TierInv == DeviceInv /\ SunInv /\ PassInv /\ LoaderInv /\ FrameInv /\ InputsAreThisFrames

LEMMA SunFacts ==
  /\ Never \in Int /\ Never \notin Nat /\ Suns \subseteq Nat
  /\ \A sun \in Suns : ZenithOf(sun) \in Nat
  /\ \A a \in Nat : Distance(a, a) = 0 /\ 0 < Threshold /\ a # Never
<1>1. Threshold \in Nat \ {0} /\ Suns \subseteq Nat /\ \A sun \in Suns : ZenithOf(sun) \in Nat
  BY ThresholdAssumption, TierAssumption DEF ThresholdAssumption, TierAssumption
<1>2. \A a \in Nat : a - a = 0 /\ ~(a < a)
  OBVIOUS
<1> QED
  BY <1>1, <1>2 DEF Never, Distance

\* What a step of the setting up does to the device.
Prepared == {"drawn", "computeUp", "shaders", "passesUp", "defaultRS", "passShaders", "hizUp", "atmoUp",
             "injected", "cloudsUp"}
Prepares(g, h) ==
  /\ IsDevice(h) /\ Same(g, h, Prepared) /\ h.drawn = {}
  /\ Range(g.shaders) \subseteq Range(h.shaders) /\ h.injected \subseteq g.injected \cup {"ps_t23"}
  /\ h.atmoUp /\ ~g.atmoUp => HasShaders(h, SkyShaders)

LEMMA PreparingKeeps ==
  ASSUME DeviceInv, SunInv, FrameInv, Prepares(gpu, gpu'), UNCHANGED <<progress, gameFrame, mainDepth>>
  PROVE  DeviceInv' /\ SunInv' /\ FrameInv' /\ InputsAreThisFrames'
<1>1. /\ gpu'.bound = gpu.bound /\ gpu'.content = gpu.content /\ gpu'.gameDepth = gpu.gameDepth
      /\ gpu'.lastSun = gpu.lastSun /\ gpu'.sunSeen = gpu.sunSeen /\ gpu'.unmapped = gpu.unmapped
      /\ gpu'.frameIndex = gpu.frameIndex /\ gpu'.noise = gpu.noise
  BY DEF Prepares, Prepared, Same, Fields
<1>2. DeviceInv'
  BY <1>1 DEF DeviceInv, Prepares
<1>3. SunInv'
  <2>1. SkyShows(gpu)'
    BY <1>1 DEF SkyShows, SunInv
  <2>2. gpu'.atmoUp => HasShaders(gpu', SkyShaders)
    BY DEF SunInv, Prepares, HasShaders
  <2> QED BY <1>1, <2>1, <2>2 DEF SunInv
<1>4. FrameInv'
  BY <1>1 DEF FrameInv, HistoryKept
<1>5. InputsAreThisFrames'
  BY DEF InputsAreThisFrames, Prepares
<1> QED
  BY <1>2, <1>3, <1>4, <1>5

LEMMA CompileGrows ==
  ASSUME NEW g, IsDevice(g), NEW name \in ShaderNames, NEW h, h = CompileShader(g, name)
  PROVE  IsDevice(h) /\ Same(g, h, {"shaders"}) /\ Range(g.shaders) \subseteq Range(h.shaders)
<1>1. CASE CompiledId(g, name) = NoShader
  <2>1. h = g
    BY <1>1 DEF CompileShader
  <2> QED BY <2>1 DEF Same
<1>2. CASE CompiledId(g, name) # NoShader
  <2>1. PICK more : more = Append(g.shaders, name)
    OBVIOUS
  <2>2. h = [g EXCEPT !.shaders = more]
    BY <1>2, <2>1, Zenon DEF CompileShader
  <2>3. DOMAIN h = Fields /\ h.shaders = more /\ Same(g, h, {"shaders"})
    BY <2>2 DEF IsDevice, Same, Fields
  <2>4. more \in Seq(ShaderNames) /\ Range(g.shaders) \subseteq Range(more)
    BY <2>1 DEF IsDevice, Range
  <2>5. h.bound = g.bound /\ h.content = g.content /\ h.passShaders = g.passShaders
    BY <2>3 DEF Same, Fields
  <2> QED BY <2>3, <2>4, <2>5 DEF IsDevice
<1> QED
  BY <1>1, <1>2

LEMMA AtmosphereUp ==
  ASSUME NEW g, IsDevice(g), NEW h, h = InitializeAtmosphere(g)
  PROVE  /\ IsDevice(h) /\ Same(g, h, {"shaders", "atmoUp", "injected"})
         /\ Range(g.shaders) \subseteq Range(h.shaders) /\ h.injected \subseteq g.injected \cup {"ps_t23"}
         /\ h.atmoUp /\ ~g.atmoUp => HasShaders(h, SkyShaders)
<1>1. PICK first : first = CompileShader(g, "AtmoTransmittance")
  OBVIOUS
<1>2. PICK second : second = CompileShader(first, "AtmoMultiScatter")
  OBVIOUS
<1>3. PICK compiled : compiled = CompileShader(second, "AtmoAerial")
  OBVIOUS
<1>4. PICK injected : injected = compiled.injected \cup {"ps_t23"}
  OBVIOUS
<1>5. PICK registered : registered = [compiled EXCEPT !.injected = injected]
  OBVIOUS
<1>6. PICK celestial : celestial = CompileShader(registered, "CelestialBodies")
  OBVIOUS
<1>7. PICK up : up = [celestial EXCEPT !.atmoUp = TRUE]
  OBVIOUS
<1>8. h = IF ~g.computeUp THEN g
          ELSE IF ~HasShaders(compiled, TableShaders) \/ g.broken \in TableParts THEN compiled
          ELSE IF ~HasShaders(celestial, {"CelestialBodies"}) \/ g.broken \in {"celestial", "CelestialCB"}
               THEN celestial ELSE up
  BY <1>1, <1>2, <1>3, <1>4, <1>5, <1>6, <1>7, Zenon DEF InitializeAtmosphere
<1>9. /\ "AtmoTransmittance" \in ShaderNames /\ "AtmoMultiScatter" \in ShaderNames
      /\ "AtmoAerial" \in ShaderNames /\ "CelestialBodies" \in ShaderNames
  BY DEF ShaderNames, TableShaders
<1>10. IsDevice(first) /\ Same(g, first, {"shaders"}) /\ Range(g.shaders) \subseteq Range(first.shaders)
  BY <1>1, <1>9, CompileGrows
<1>11. IsDevice(second) /\ Same(first, second, {"shaders"}) /\ Range(first.shaders) \subseteq Range(second.shaders)
  BY <1>2, <1>9, <1>10, CompileGrows
<1>12. IsDevice(compiled) /\ Same(second, compiled, {"shaders"}) /\ Range(second.shaders) \subseteq Range(compiled.shaders)
  BY <1>3, <1>9, <1>11, CompileGrows
<1>13. Same(g, compiled, {"shaders"}) /\ Range(g.shaders) \subseteq Range(compiled.shaders)
  BY <1>10, <1>11, <1>12 DEF Same
<1>14. DOMAIN registered = Fields /\ registered.injected = injected /\ Same(compiled, registered, {"injected"})
  BY <1>5, <1>12 DEF IsDevice, Same, Fields
<1>15. /\ IsDevice(registered) /\ registered.shaders = compiled.shaders /\ compiled.injected = g.injected
  BY <1>12, <1>13, <1>14 DEF IsDevice, Same, Fields
<1>16. IsDevice(celestial) /\ Same(registered, celestial, {"shaders"})
       /\ Range(compiled.shaders) \subseteq Range(celestial.shaders)
  BY <1>6, <1>9, <1>15, CompileGrows
<1>17. Same(g, celestial, {"shaders", "injected"}) /\ Range(g.shaders) \subseteq Range(celestial.shaders)
       /\ celestial.injected = g.injected \cup {"ps_t23"}
  BY <1>4, <1>13, <1>14, <1>15, <1>16 DEF Same, Fields
<1>18. DOMAIN up = Fields /\ Same(celestial, up, {"atmoUp"})
  BY <1>7, <1>16 DEF IsDevice, Same, Fields
<1>19. /\ up.shaders = celestial.shaders /\ up.injected = celestial.injected /\ up.bound = celestial.bound
       /\ up.content = celestial.content /\ up.passShaders = celestial.passShaders
  BY <1>18 DEF Same, Fields
<1>20. IsDevice(up)
  BY <1>16, <1>18, <1>19 DEF IsDevice
<1>21. Same(g, up, {"shaders", "injected", "atmoUp"})
  BY <1>17, <1>18 DEF Same
<1>22. CASE h = g
  BY <1>22 DEF Same
<1>23. CASE h = compiled
  BY <1>12, <1>13, <1>15, <1>23 DEF Same, Fields
<1>24. CASE h = celestial
  BY <1>16, <1>17, <1>24 DEF Same, Fields
<1>25. CASE /\ h = up /\ HasShaders(compiled, TableShaders) /\ HasShaders(celestial, {"CelestialBodies"})
  <2>1. HasShaders(h, SkyShaders)
    BY <1>16, <1>19, <1>25 DEF HasShaders, SkyShaders
  <2> QED BY <1>17, <1>19, <1>20, <1>21, <1>25, <2>1
<1> QED
  BY <1>8, <1>22, <1>23, <1>24, <1>25

LEMMA CloudsCompile ==
  ASSUME NEW g, IsDevice(g), NEW h, h = CompileClouds(g)
  PROVE  IsDevice(h) /\ Same(g, h, {"shaders"}) /\ Range(g.shaders) \subseteq Range(h.shaders)
<1>1. PICK shape : shape = CompileShader(g, "CloudShapeNoise")
  OBVIOUS
<1>2. PICK detail : detail = CompileShader(shape, "CloudDetailNoise")
  OBVIOUS
<1>3. PICK march : march = CompileShader(detail, "CloudRaymarch")
  OBVIOUS
<1>4. h \in {shape, detail, march}
  BY <1>1, <1>2, <1>3, Zenon DEF CompileClouds
<1>5. "CloudShapeNoise" \in ShaderNames /\ "CloudDetailNoise" \in ShaderNames /\ "CloudRaymarch" \in ShaderNames
  BY DEF ShaderNames, CloudShaders
<1>6. IsDevice(shape) /\ Same(g, shape, {"shaders"}) /\ Range(g.shaders) \subseteq Range(shape.shaders)
  BY <1>1, <1>5, CompileGrows
<1>7. IsDevice(detail) /\ Same(shape, detail, {"shaders"}) /\ Range(shape.shaders) \subseteq Range(detail.shaders)
  BY <1>2, <1>5, <1>6, CompileGrows
<1>8. IsDevice(march) /\ Same(detail, march, {"shaders"}) /\ Range(detail.shaders) \subseteq Range(march.shaders)
  BY <1>3, <1>5, <1>7, CompileGrows
<1> QED
  BY <1>4, <1>6, <1>7, <1>8 DEF Same

LEMMA CompositeRegisters ==
  ASSUME NEW g, IsDevice(g), NEW h, h = RegisterComposite(g)
  PROVE  IsDevice(h) /\ Same(g, h, {"passShaders"})
<1>1. PICK more : more = Append(g.passShaders, CompositeName)
  OBVIOUS
<1>2. h = g \/ h = [g EXCEPT !.passShaders = more]
  BY <1>1, Zenon DEF RegisterComposite, RegisterFullscreenPass
<1>3. CASE h = g
  BY <1>3 DEF Same
<1>4. CASE h = [g EXCEPT !.passShaders = more]
  <2>1. DOMAIN h = Fields /\ h.passShaders = more /\ Same(g, h, {"passShaders"})
    BY <1>4 DEF IsDevice, Same, Fields
  <2>2. more \in Seq({CompositeName})
    BY <1>1 DEF IsDevice
  <2>3. h.bound = g.bound /\ h.content = g.content /\ h.shaders = g.shaders
    BY <2>1 DEF Same, Fields
  <2> QED BY <2>1, <2>2, <2>3 DEF IsDevice
<1> QED
  BY <1>2, <1>3, <1>4

\* The set-up on the main thread.
LEMMA ManagersKeep ==
  ASSUME TierInv, SetUpManagers
  PROVE  TierInv'
<1>1. PICK g : g = Quiet(gpu)
  OBVIOUS
<1>2. PICK up : up = [g EXCEPT !.computeUp = TRUE]
  OBVIOUS
<1>3. PICK rs : rs = Creates(up, "DefaultRS")
  OBVIOUS
<1>4. gpu' = up \/ gpu' = [up EXCEPT !.passesUp = TRUE, !.defaultRS = rs]
  BY <1>1, <1>2, <1>3, Zenon DEF SetUpManagers, InitializePasses
<1>5. /\ setUp = "start" /\ setUp' = "managers" /\ pipelineUp' = TRUE /\ loader' = loader
      /\ UNCHANGED <<progress, gameFrame, mainDepth, passes, sorted, nextHandle, ran>>
  BY DEF SetUpManagers, Initialize
<1>6. IsDevice(g) /\ Same(gpu, g, {"drawn"}) /\ g.drawn = {}
  BY <1>1, QuietIs DEF TierInv, DeviceInv
<1>7. DOMAIN up = Fields /\ Same(g, up, {"computeUp"})
  BY <1>2, <1>6 DEF IsDevice, Same, Fields
<1>8. DOMAIN gpu' = Fields /\ Same(up, gpu', {"passesUp", "defaultRS"})
  BY <1>4, <1>7 DEF Same, Fields
<1>9. Same(gpu, gpu', Prepared)
  BY <1>6, <1>7, <1>8 DEF Same, Prepared
<1>10. /\ gpu'.drawn = {} /\ gpu'.shaders = gpu.shaders /\ gpu'.injected = gpu.injected /\ gpu'.atmoUp = gpu.atmoUp
       /\ gpu'.hizUp = gpu.hizUp /\ gpu'.cloudsUp = gpu.cloudsUp /\ gpu'.bound = gpu.bound
       /\ gpu'.content = gpu.content /\ gpu'.passShaders = gpu.passShaders
  BY <1>6, <1>7, <1>8 DEF Same, Fields
<1>11. Prepares(gpu, gpu')
  BY <1>8, <1>9, <1>10 DEF Prepares, IsDevice, TierInv, DeviceInv
<1>12. DeviceInv' /\ SunInv' /\ FrameInv' /\ InputsAreThisFrames'
  BY <1>5, <1>11, PreparingKeeps DEF TierInv
<1>13. PipelineTypes' /\ ListInv'
  BY <1>5 DEF TierInv, PassInv, PipelineTypes, ListInv, InOrder
<1>14. PassInv'
  BY <1>5, <1>10, <1>13 DEF TierInv, PassInv
<1>15. LoaderInv'
  BY <1>5, <1>10 DEF TierInv, LoaderInv, HasShaders, CompositeRegistered
<1> QED
  BY <1>12, <1>14, <1>15 DEF TierInv

\* A pass of a new priority is added to the list.
LEMMA AddLists ==
  ASSUME PipelineTypes, OwnPasses(passes), Single(passes), NEW priority \in {HiZPriority, CloudsPriority},
         ~Has(passes, priority), AddPass("PostGeometry", priority)
  PROVE  /\ OwnPasses(passes') /\ Single(passes')
         /\ \A other : Has(passes', other) <=> Has(passes, other) \/ other = priority
<1> DEFINE new == [handle |-> nextHandle, stage |-> "PostGeometry", priority |-> priority]
<1>1. passes' = Append(passes, new) /\ passes \in Seq(Pass)
  BY DEF AddPass, PipelineTypes
<1>2. new.stage = "PostGeometry" /\ new.priority = priority
  OBVIOUS
<1> HIDE DEF new
<1>3. /\ Len(passes) \in Nat /\ DOMAIN passes = 1 .. Len(passes) /\ DOMAIN passes' = 1 .. Len(passes) + 1
      /\ \A i \in DOMAIN passes : passes'[i] = passes[i]
      /\ passes'[Len(passes) + 1] = new
  BY <1>1
<1>4. /\ \A i \in DOMAIN passes' : i \in DOMAIN passes \/ i = Len(passes) + 1
      /\ \A i \in DOMAIN passes : i \in DOMAIN passes' /\ i # Len(passes) + 1
      /\ Len(passes) + 1 \in DOMAIN passes'
  BY <1>3
<1>5. OwnPasses(passes')
  BY <1>2, <1>3, <1>4 DEF OwnPasses
<1>6. Single(passes')
  BY <1>2, <1>3, <1>4 DEF Single, Has
<1>7. \A other : Has(passes', other) <=> Has(passes, other) \/ other = priority
  BY <1>2, <1>3, <1>4 DEF Has
<1> QED
  BY <1>5, <1>6, <1>7

LEMMA OwnPriorities ==
  /\ HiZPriority \in Priorities /\ CloudsPriority \in Priorities /\ HiZPriority # CloudsPriority
  /\ "PostGeometry" \in PassStages /\ "PostGeometry" \in StageNames /\ "PrePresent" \in StageNames
<1>1. HiZPriority \in Priorities /\ CloudsPriority \in Priorities /\ "PostGeometry" \in PassStages
  BY TierAssumption DEF TierAssumption
<1> QED
  BY <1>1, StageFacts DEF HiZPriority, CloudsPriority

LEMMA PyramidKeeps ==
  ASSUME TierInv, SetUpPyramid
  PROVE  TierInv'
<1>1. PICK g : g = Quiet(gpu)
  OBVIOUS
<1>2. PICK all \in BOOLEAN : all = \A part \in PyramidParts : Creates(gpu, part)
  OBVIOUS
<1>3. IsDevice(g) /\ Same(gpu, g, {"drawn"}) /\ g.drawn = {} /\ IsDevice(gpu)
  BY <1>1, QuietIs DEF TierInv, DeviceInv
<1>4. /\ g.broken = gpu.broken /\ g.hizUp = gpu.hizUp /\ g.shaders = gpu.shaders /\ g.bound = gpu.bound
      /\ g.content = gpu.content /\ g.passShaders = gpu.passShaders
  BY <1>3 DEF Same, Fields
<1>5. /\ setUp = "managers" /\ setUp' = "pyramid" /\ loader' = loader
      /\ UNCHANGED <<progress, gameFrame, mainDepth>>
  BY DEF SetUpPyramid
<1>6. ~gpu.hizUp /\ passes = <<>> /\ loader = "none" /\ pipelineUp
  BY <1>5 DEF TierInv, PassInv
<1>7. gpu' = IF all THEN [g EXCEPT !.hizUp = TRUE] ELSE g
  BY <1>1, <1>2, <1>4 DEF SetUpPyramid, InitializePyramid, Creates
<1>8. DOMAIN gpu' = Fields /\ Same(g, gpu', {"hizUp"}) /\ (gpu'.hizUp <=> all)
  BY <1>3, <1>4, <1>6, <1>7 DEF IsDevice, Same, Fields
<1>9. /\ gpu'.drawn = {} /\ gpu'.shaders = gpu.shaders /\ gpu'.injected = gpu.injected /\ gpu'.atmoUp = gpu.atmoUp
      /\ gpu'.cloudsUp = gpu.cloudsUp /\ gpu'.bound = gpu.bound /\ gpu'.content = gpu.content
      /\ gpu'.passShaders = gpu.passShaders
  BY <1>3, <1>8 DEF Same, Fields
<1>10. Prepares(gpu, gpu')
  BY <1>3, <1>8, <1>9 DEF Prepares, Prepared, IsDevice, Same
<1>11. DeviceInv' /\ SunInv' /\ FrameInv' /\ InputsAreThisFrames'
  BY <1>5, <1>10, PreparingKeeps DEF TierInv
<1>12. LoaderInv'
  BY <1>5, <1>9 DEF TierInv, LoaderInv, HasShaders, CompositeRegistered
<1>13. IF all THEN AddPass("PostGeometry", HiZPriority) ELSE UNCHANGED pipeline
  <2>1. InitializePyramid(gpu).hizUp <=> all
    <3>1. InitializePyramid(gpu) = IF all THEN [gpu EXCEPT !.hizUp = TRUE] ELSE gpu
      BY <1>2 DEF InitializePyramid
    <3> QED BY <1>3, <1>6, <3>1 DEF IsDevice, Fields
  <2> QED BY <2>1 DEF SetUpPyramid
<1>14. CASE all
  <2>1. AddPass("PostGeometry", HiZPriority)
    BY <1>13, <1>14
  <2>2. PipelineTypes' /\ ListInv' /\ pipelineUp' = pipelineUp
    BY <2>1, AddKeeps, OwnPriorities DEF TierInv, PassInv
  <2>3. \A other : ~Has(passes, other)
    BY <1>6 DEF Has
  <2>4. /\ OwnPasses(passes') /\ Single(passes')
        /\ \A other : Has(passes', other) <=> other = HiZPriority
    <3>1. HiZPriority \in {HiZPriority, CloudsPriority}
      OBVIOUS
    <3> QED BY <2>1, <2>3, <3>1, AddLists DEF TierInv, PassInv
  <2>5. PassInv'
    BY <1>5, <1>6, <1>8, <1>14, <2>2, <2>4, OwnPriorities DEF PassInv
  <2> QED BY <1>11, <1>12, <2>5 DEF TierInv
<1>15. CASE ~all
  <2>1. UNCHANGED pipeline
    BY <1>13, <1>15
  <2>2. PipelineTypes' /\ ListInv'
    BY <2>1, PipelineStays DEF TierInv, PassInv
  <2>3. passes' = <<>> /\ pipelineUp'
    BY <1>6, <2>1 DEF pipeline
  <2>4. OwnPasses(passes') /\ Single(passes') /\ \A other : ~Has(passes', other)
    BY <2>3 DEF OwnPasses, Single, Has
  <2>5. PassInv'
    BY <1>5, <1>6, <1>8, <1>15, <2>2, <2>3, <2>4 DEF PassInv
  <2> QED BY <1>11, <1>12, <2>5 DEF TierInv
<1> QED
  BY <1>14, <1>15

LEMMA RenderersKeep ==
  ASSUME TierInv, SetUpRenderers
  PROVE  TierInv'
<1>1. PICK g : g = Quiet(gpu)
  OBVIOUS
<1>2. IsDevice(g) /\ Same(gpu, g, {"drawn"}) /\ g.drawn = {} /\ IsDevice(gpu)
  BY <1>1, QuietIs DEF TierInv, DeviceInv
<1>3. /\ setUp = "pyramid" /\ setUp' = "done" /\ loader' \in {"start", loader}
      /\ UNCHANGED <<progress, gameFrame, mainDepth>> /\ UNCHANGED pipeline
      /\ (gpu' = InitializeAtmosphere(g) \/ gpu' = g)
  BY <1>1 DEF SetUpRenderers
<1>4. /\ IsDevice(gpu') /\ Same(g, gpu', {"shaders", "atmoUp", "injected"})
      /\ Range(g.shaders) \subseteq Range(gpu'.shaders) /\ gpu'.injected \subseteq g.injected \cup {"ps_t23"}
      /\ gpu'.atmoUp /\ ~g.atmoUp => HasShaders(gpu', SkyShaders)
  <2>1. CASE gpu' = g
    BY <1>2, <2>1 DEF Same
  <2>2. CASE gpu' = InitializeAtmosphere(g)
    BY <1>2, <2>2, AtmosphereUp
  <2> QED BY <1>3, <2>1, <2>2
<1>5. /\ g.shaders = gpu.shaders /\ g.injected = gpu.injected /\ g.atmoUp = gpu.atmoUp
      /\ gpu'.drawn = {} /\ gpu'.hizUp = gpu.hizUp /\ gpu'.cloudsUp = gpu.cloudsUp
      /\ gpu'.passShaders = gpu.passShaders
  BY <1>2, <1>4 DEF Same, Fields
<1>6. Same(gpu, gpu', Prepared)
  BY <1>2, <1>4 DEF Same, Prepared
<1>7. Prepares(gpu, gpu')
  BY <1>4, <1>5, <1>6 DEF Prepares
<1>8. DeviceInv' /\ SunInv' /\ FrameInv' /\ InputsAreThisFrames'
  BY <1>3, <1>7, PreparingKeeps DEF TierInv
<1>9. PipelineTypes' /\ ListInv' /\ passes' = passes /\ pipelineUp' = pipelineUp
  BY <1>3, PipelineStays DEF TierInv, PassInv, pipeline
<1>10. loader = "none"
  BY <1>3 DEF TierInv, PassInv
<1>11. PassInv'
  BY <1>3, <1>5, <1>9, <1>10 DEF TierInv, PassInv
<1>12. LoaderInv'
  BY <1>3, <1>5, <1>10 DEF TierInv, LoaderInv, CompositeRegistered
<1> QED
  BY <1>8, <1>11, <1>12 DEF TierInv

\* The thread of the clouds.
LEMMA LoadShadersKeeps ==
  ASSUME TierInv, LoadShaders
  PROVE  TierInv'
<1>1. PICK g : g = Quiet(gpu)
  OBVIOUS
<1>2. IsDevice(g) /\ Same(gpu, g, {"drawn"}) /\ g.drawn = {} /\ IsDevice(gpu)
  BY <1>1, QuietIs DEF TierInv, DeviceInv
<1>3. PICK compiled : compiled = CompileClouds(g)
  OBVIOUS
<1>4. PICK passed : passed = IF CloudsCompiled(compiled) THEN RegisterComposite(compiled) ELSE compiled
  OBVIOUS
<1>5. /\ loader = "start" /\ loader' \in {"created", "failed"}
      /\ UNCHANGED <<setUp, progress, gameFrame, mainDepth>> /\ UNCHANGED pipeline
      /\ \/ gpu' = g /\ loader' = "failed"
         \/ gpu' = passed /\ (loader' = "created" => CompositeRegistered(passed))
  BY <1>1, <1>3, <1>4 DEF LoadShaders
<1>6. IsDevice(compiled) /\ Same(g, compiled, {"shaders"}) /\ Range(g.shaders) \subseteq Range(compiled.shaders)
  BY <1>2, <1>3, CloudsCompile
<1>7. IsDevice(passed) /\ Same(compiled, passed, {"passShaders"})
  BY <1>4, <1>6, CompositeRegisters DEF Same
<1>8. /\ g.shaders = gpu.shaders /\ g.passShaders = gpu.passShaders /\ compiled.passShaders = gpu.passShaders
      /\ passed.shaders = compiled.shaders /\ g.drawn = {} /\ passed.drawn = {}
      /\ g.injected = gpu.injected /\ passed.injected = gpu.injected
      /\ g.atmoUp = gpu.atmoUp /\ passed.atmoUp = gpu.atmoUp /\ g.cloudsUp = gpu.cloudsUp
      /\ passed.cloudsUp = gpu.cloudsUp /\ g.hizUp = gpu.hizUp /\ passed.hizUp = gpu.hizUp
  BY <1>2, <1>6, <1>7 DEF Same, Fields
<1>9. Same(gpu, passed, Prepared) /\ Same(gpu, g, Prepared)
  BY <1>2, <1>6, <1>7 DEF Same, Prepared
<1>10. Prepares(gpu, g) /\ Prepares(gpu, passed)
  BY <1>2, <1>6, <1>7, <1>8, <1>9 DEF Prepares
<1>11. Prepares(gpu, gpu')
  BY <1>5, <1>10
<1>12. DeviceInv' /\ SunInv' /\ FrameInv' /\ InputsAreThisFrames'
  BY <1>5, <1>11, PreparingKeeps DEF TierInv
<1>13. PipelineTypes' /\ ListInv' /\ passes' = passes /\ pipelineUp' = pipelineUp
  BY <1>5, PipelineStays DEF TierInv, PassInv, pipeline
<1>14. gpu'.cloudsUp = gpu.cloudsUp /\ gpu'.hizUp = gpu.hizUp
  BY <1>5, <1>8
<1>15. PassInv'
  BY <1>5, <1>13, <1>14 DEF TierInv, PassInv
<1>16. ASSUME loader' = "created" PROVE HasShaders(gpu', CloudShaders)
  <2>1. gpu' = passed /\ CompositeRegistered(passed) /\ ~CompositeRegistered(compiled)
    BY <1>5, <1>8, <1>16 DEF TierInv, LoaderInv, CompositeRegistered
  <2>2. CloudsCompiled(compiled)
    BY <1>4, <2>1
  <2> QED BY <1>8, <2>1, <2>2 DEF CloudsCompiled, HasShaders
<1>17. LoaderInv'
  BY <1>5, <1>14, <1>16 DEF TierInv, LoaderInv
<1> QED
  BY <1>12, <1>15, <1>17 DEF TierInv

LEMMA LoadPassKeeps ==
  ASSUME TierInv, LoadPass
  PROVE  TierInv'
<1>1. IsDevice(gpu') /\ Same(gpu, gpu', {"drawn"}) /\ gpu'.drawn = {} /\ IsDevice(gpu)
  <2>1. PICK g : g = Quiet(gpu)
    OBVIOUS
  <2>2. gpu' = g
    BY <2>1 DEF LoadPass
  <2> QED BY <2>1, <2>2, QuietIs DEF TierInv, DeviceInv
<1>2. /\ loader = "created" /\ loader' = "added" /\ AddPass("PostGeometry", CloudsPriority)
      /\ UNCHANGED <<setUp, progress, gameFrame, mainDepth>>
  BY DEF LoadPass
<1>3. /\ gpu'.shaders = gpu.shaders /\ gpu'.injected = gpu.injected /\ gpu'.atmoUp = gpu.atmoUp
      /\ gpu'.cloudsUp = gpu.cloudsUp /\ gpu'.hizUp = gpu.hizUp
  BY <1>1 DEF Same, Fields
<1>4. Prepares(gpu, gpu')
  BY <1>1, <1>3 DEF Prepares, Prepared, Same
<1>5. DeviceInv' /\ SunInv' /\ FrameInv' /\ InputsAreThisFrames'
  BY <1>2, <1>4, PreparingKeeps DEF TierInv
<1>6. PipelineTypes' /\ ListInv' /\ pipelineUp' = pipelineUp
  BY <1>2, AddKeeps, OwnPriorities DEF TierInv, PassInv
<1>7. /\ OwnPasses(passes') /\ Single(passes')
      /\ \A other : Has(passes', other) <=> Has(passes, other) \/ other = CloudsPriority
  <2>1. CloudsPriority \in {HiZPriority, CloudsPriority} /\ ~Has(passes, CloudsPriority)
    BY <1>2 DEF TierInv, PassInv
  <2> QED BY <1>2, <2>1, AddLists DEF TierInv, PassInv
<1>8. setUp = "done"
  BY <1>2 DEF TierInv, PassInv
<1>9. PassInv'
  BY <1>2, <1>3, <1>6, <1>7, <1>8, OwnPriorities DEF TierInv, PassInv
<1>10. LoaderInv'
  BY <1>2, <1>3 DEF TierInv, LoaderInv, HasShaders
<1> QED
  BY <1>5, <1>9, <1>10 DEF TierInv

LEMMA LoadDoneKeeps ==
  ASSUME TierInv, LoadDone
  PROVE  TierInv'
<1>1. PICK g : g = Quiet(gpu)
  OBVIOUS
<1>2. IsDevice(g) /\ Same(gpu, g, {"drawn"}) /\ g.drawn = {} /\ IsDevice(gpu)
  BY <1>1, QuietIs DEF TierInv, DeviceInv
<1>3. /\ loader = "added" /\ loader' = "done" /\ gpu' = [g EXCEPT !.cloudsUp = TRUE]
      /\ UNCHANGED <<setUp, progress, gameFrame, mainDepth>> /\ UNCHANGED pipeline
  BY <1>1 DEF LoadDone
<1>4. DOMAIN gpu' = Fields /\ Same(g, gpu', {"cloudsUp"})
  BY <1>2, <1>3 DEF IsDevice, Same, Fields
<1>5. /\ gpu'.shaders = gpu.shaders /\ gpu'.injected = gpu.injected /\ gpu'.atmoUp = gpu.atmoUp
      /\ gpu'.hizUp = gpu.hizUp /\ gpu'.drawn = {} /\ gpu'.bound = gpu.bound /\ gpu'.content = gpu.content
      /\ gpu'.passShaders = gpu.passShaders
  BY <1>2, <1>4 DEF Same, Fields
<1>6. Prepares(gpu, gpu')
  BY <1>2, <1>4, <1>5 DEF Prepares, Prepared, Same, IsDevice
<1>7. DeviceInv' /\ SunInv' /\ FrameInv' /\ InputsAreThisFrames'
  BY <1>3, <1>6, PreparingKeeps DEF TierInv
<1>8. PipelineTypes' /\ ListInv' /\ passes' = passes /\ pipelineUp' = pipelineUp
  BY <1>3, PipelineStays DEF TierInv, PassInv, pipeline
<1>9. PassInv'
  BY <1>3, <1>5, <1>8 DEF TierInv, PassInv
<1>10. LoaderInv'
  BY <1>3, <1>5 DEF TierInv, LoaderInv, HasShaders
<1> QED
  BY <1>7, <1>9, <1>10 DEF TierInv

\* The game's frame.  What a step leaves that touches neither the sky nor the
\* shaders.
Played == {"bound", "content", "drawn", "gameDepth", "dynamicCB", "noise", "cloudsOn", "frameIndex"}
Plays(g, h) ==
  /\ IsDevice(h) /\ Same(g, h, Played)
  /\ \A r \in Sky : h.content[r] = g.content[r]
  /\ h.gameDepth \in {Null} \cup {{m} : m \in Depths}

LEMMA PlayingKeeps ==
  ASSUME TierInv, Plays(gpu, gpu'), UNCHANGED <<setUp, loader>>,
         PipelineTypes', ListInv', pipelineUp' = pipelineUp, OwnPasses(passes'), Single(passes'),
         setUp = "done" \/ passes' = passes,
         \A priority : Has(passes', priority) <=> Has(passes, priority)
  PROVE  SunInv' /\ PassInv' /\ LoaderInv'
<1>1. /\ gpu'.lastSun = gpu.lastSun /\ gpu'.sunSeen = gpu.sunSeen /\ gpu'.unmapped = gpu.unmapped
      /\ gpu'.atmoUp = gpu.atmoUp /\ gpu'.shaders = gpu.shaders /\ gpu'.passShaders = gpu.passShaders
      /\ gpu'.cloudsUp = gpu.cloudsUp /\ gpu'.hizUp = gpu.hizUp
  BY DEF Plays, Played, Same, Fields
<1>2. SunInv'
  BY <1>1 DEF TierInv, SunInv, SkyShows, Plays, HasShaders
<1>3. PassInv'
  BY <1>1 DEF TierInv, PassInv
<1>4. LoaderInv'
  BY <1>1 DEF TierInv, LoaderInv, HasShaders, CompositeRegistered
<1> QED
  BY <1>2, <1>3, <1>4

LEMMA ListStays ==
  ASSUME TierInv, UNCHANGED <<pipelineUp, passes, sorted, nextHandle>>, ran' \in {ran, NoneRan}
  PROVE  /\ PipelineTypes' /\ ListInv' /\ OwnPasses(passes') /\ Single(passes')
         /\ \A priority : Has(passes', priority) <=> Has(passes, priority)
<1>1. NoneRan \in [StageNames -> Nat]
  BY DEF NoneRan
<1> QED
  BY <1>1 DEF TierInv, PassInv, PipelineTypes, ListInv

\* What the game draws is neither the sky nor kept by the clouds.
LEMMA GameNames ==
  /\ MainDepths \subseteq Depths /\ Depths \subseteq Resources /\ "scene" \in Resources
  /\ (Depths \cup {"scene"}) \cap (Sky \cup NoiseNames \cup {"history"}) = {}
  /\ "scene" \notin Depths
BY SkyNames, CloudNames DEF Resources, Depths, MainDepths, Targets

LEMMA ClearKeeps ==
  ASSUME TierInv, NEW texture \in Depths, ClearDepth(texture)
  PROVE  TierInv'
<1>1. PICK g : g = Quiet(gpu)
  OBVIOUS
<1>2. PICK w : w = Write(g, texture, 0)
  OBVIOUS
<1>3. IsDevice(g) /\ Same(gpu, g, {"drawn"}) /\ g.drawn = {} /\ IsDevice(gpu)
  BY <1>1, QuietIs DEF TierInv, DeviceInv
<1>4. texture \in Resources
  BY GameNames
<1>5. IsDevice(w) /\ Same(g, w, {"content"})
      /\ \A r \in Resources : w.content[r] = IF r = texture THEN 0 ELSE g.content[r]
  BY <1>2, <1>3, <1>4, Writes
<1>6. /\ gpu' = w \/ gpu' = [w EXCEPT !.gameDepth = {texture}]
      /\ progress = "start" /\ UNCHANGED <<config, setUp, loader, progress, gameFrame, mainDepth>>
      /\ UNCHANGED pipeline
  BY <1>1, <1>2 DEF ClearDepth, PreClearDepthCopy
<1>7. DOMAIN gpu' = Fields /\ Same(w, gpu', {"gameDepth"}) /\ gpu'.gameDepth \in {w.gameDepth, {texture}}
  BY <1>5, <1>6 DEF IsDevice, Same, Fields
<1>8. /\ gpu'.bound = gpu.bound /\ gpu'.content = w.content /\ g.content = gpu.content /\ gpu'.drawn = {}
      /\ gpu'.injected = gpu.injected /\ w.gameDepth = gpu.gameDepth /\ gpu'.frameIndex = gpu.frameIndex
      /\ gpu'.noise = gpu.noise /\ gpu'.shaders = gpu.shaders /\ gpu'.passShaders = gpu.passShaders
  BY <1>3, <1>5, <1>7 DEF Same, Fields
<1>9. IsDevice(gpu')
  BY <1>3, <1>5, <1>7, <1>8 DEF IsDevice
<1>10. Same(gpu, gpu', Played)
  BY <1>3, <1>5, <1>7 DEF Same, Played
<1>11. \A r \in Resources \ {texture} : gpu'.content[r] = gpu.content[r]
  BY <1>5, <1>8
<1>12. \A r \in Sky : gpu'.content[r] = gpu.content[r]
  BY <1>11, GameNames, SkyNames
<1>13. gpu'.gameDepth \in {Null} \cup {{m} : m \in Depths}
  BY <1>7, <1>8 DEF TierInv, DeviceInv
<1>14. Plays(gpu, gpu')
  BY <1>9, <1>10, <1>12, <1>13 DEF Plays
<1>15. /\ PipelineTypes' /\ ListInv' /\ OwnPasses(passes') /\ Single(passes')
       /\ passes' = passes /\ pipelineUp' = pipelineUp
       /\ \A priority : Has(passes', priority) <=> Has(passes, priority)
  BY <1>6, ListStays DEF pipeline
<1>16. SunInv' /\ PassInv' /\ LoaderInv'
  BY <1>6, <1>14, <1>15, PlayingKeeps
<1>17. DeviceInv'
  BY <1>6, <1>8, <1>9, <1>13 DEF TierInv, DeviceInv
<1>18. FrameInv'
  <2>1. HistoryKept(gpu')
    <3>1. \A r \in NoiseNames \cup {"history"} : gpu'.content[r] = gpu.content[r]
      BY <1>11, GameNames, CloudNames
    <3> QED BY <1>8, <3>1 DEF HistoryKept, TierInv, FrameInv
  <2> QED BY <1>6, <2>1 DEF FrameInv
<1>19. InputsAreThisFrames'
  BY <1>8 DEF InputsAreThisFrames
<1> QED
  BY <1>16, <1>17, <1>18, <1>19 DEF TierInv

LEMMA SceneKeeps ==
  ASSUME TierInv, NEW target \in Targets, NEW withDepth \in BOOLEAN, DrawScene(target, withDepth)
  PROVE  TierInv'
<1>1. PICK g : g = Quiet(gpu)
  OBVIOUS
<1>2. PICK w1 : w1 = Write(g, mainDepth, gameFrame)
  OBVIOUS
<1>3. PICK w2 : w2 = Write(w1, "scene", gameFrame)
  OBVIOUS
<1>4. PICK depth : depth = IF withDepth THEN {mainDepth} ELSE Null
  OBVIOUS
<1>5. PICK b : b = [GameBound EXCEPT !["om_rtv"] = {target}, !["om_dsv"] = depth]
  OBVIOUS
<1>6. /\ gpu' = [w2 EXCEPT !.bound = b] /\ progress' = "drawn"
      /\ UNCHANGED <<config, setUp, loader, gameFrame, mainDepth>> /\ UNCHANGED pipeline
  BY <1>1, <1>2, <1>3, <1>4, <1>5, Zenon DEF DrawScene
<1>7. IsDevice(g) /\ Same(gpu, g, {"drawn"}) /\ g.drawn = {} /\ IsDevice(gpu)
  BY <1>1, QuietIs DEF TierInv, DeviceInv
<1>8. mainDepth \in MainDepths /\ mainDepth \in Depths /\ mainDepth \in Resources /\ mainDepth # "scene"
  BY GameNames DEF TierInv, DeviceInv
<1>9. /\ IsDevice(w1) /\ Same(g, w1, {"content"})
      /\ \A r \in Resources : w1.content[r] = IF r = mainDepth THEN gameFrame ELSE g.content[r]
  BY <1>2, <1>7, <1>8, Writes
<1>10. /\ IsDevice(w2) /\ Same(w1, w2, {"content"})
       /\ \A r \in Resources : w2.content[r] = IF r = "scene" THEN gameFrame ELSE w1.content[r]
  BY <1>3, <1>9, GameNames, Writes
<1>11. DOMAIN gpu' = Fields /\ Same(w2, gpu', {"bound"}) /\ gpu'.bound = b
  BY <1>6, <1>10 DEF IsDevice, Same, Fields
<1>12. /\ gpu'.content = w2.content /\ g.content = gpu.content /\ gpu'.drawn = {}
       /\ gpu'.injected = gpu.injected /\ gpu'.gameDepth = gpu.gameDepth /\ gpu'.frameIndex = gpu.frameIndex
       /\ gpu'.noise = gpu.noise /\ gpu'.shaders = gpu.shaders /\ gpu'.passShaders = gpu.passShaders
  BY <1>7, <1>9, <1>10, <1>11 DEF Same, Fields
<1>13. Drawing(b)
  <2>1. DOMAIN GameBound = Slots /\ (\A s \in Inputs : GameBound[s] = {"gameTexture"})
        /\ GameBound["cs_u0"] = Null
    BY SlotKinds DEF GameBound
  <2>2. /\ DOMAIN b = Slots /\ \A s \in Slots \ {"om_rtv", "om_dsv"} : b[s] = GameBound[s]
        /\ b["om_rtv"] = {target} /\ b["om_dsv"] = depth
    BY <1>5, <2>1, SlotKinds
  <2> QED BY <1>4, <1>8, <2>1, <2>2, SlotKinds DEF Drawing
<1>14. IsDevice(gpu')
  BY <1>10, <1>11, <1>13 DEF IsDevice, Drawing, Same, Fields
<1>15. Same(gpu, gpu', Played)
  BY <1>7, <1>9, <1>10, <1>11 DEF Same, Played
<1>16. /\ \A r \in Resources \ {"scene", mainDepth} : gpu'.content[r] = gpu.content[r]
       /\ gpu'.content["scene"] = gameFrame /\ gpu'.content[mainDepth] = gameFrame
  BY <1>8, <1>9, <1>10, <1>12, GameNames
<1>17. \A r \in Sky : gpu'.content[r] = gpu.content[r]
  BY <1>8, <1>16, GameNames, SkyNames
<1>18. Plays(gpu, gpu')
  BY <1>12, <1>14, <1>15, <1>17 DEF Plays, TierInv, DeviceInv
<1>19. /\ PipelineTypes' /\ ListInv' /\ OwnPasses(passes') /\ Single(passes')
       /\ passes' = passes /\ pipelineUp' = pipelineUp
       /\ \A priority : Has(passes', priority) <=> Has(passes, priority)
  BY <1>6, ListStays DEF pipeline
<1>20. SunInv' /\ PassInv' /\ LoaderInv'
  BY <1>6, <1>18, <1>19, PlayingKeeps
<1>21. DeviceInv'
  BY <1>6, <1>11, <1>12, <1>13, <1>14 DEF TierInv, DeviceInv
<1>22. FrameInv'
  <2>1. HistoryKept(gpu')
    <3>1. \A r \in NoiseNames \cup {"history"} : gpu'.content[r] = gpu.content[r]
      BY <1>8, <1>16, GameNames, CloudNames
    <3> QED BY <1>12, <3>1 DEF HistoryKept, TierInv, FrameInv
  <2> QED BY <1>6, <1>16, <2>1 DEF FrameInv
<1>23. InputsAreThisFrames'
  BY <1>12 DEF InputsAreThisFrames
<1> QED
  BY <1>20, <1>21, <1>22, <1>23 DEF TierInv

\* What a draw of the stage has read is right once the frame has been drawn.
LEMMA StageReadsRight ==
  ASSUME NEW g, NEW h, NEW f, NEW depth, NEW y, StageDraw(y, g, h, f), g.content["scene"] = f,
         depth \in Depths, g.content[depth] = f, h.gameDepth = g.gameDepth, h.hizUp = g.hizUp,
         gpu' = h, mainDepth' = depth, gameFrame' = f
  PROVE  ReadsRight(y)'
<1>1. KnownDepth' => Seen(g, f)
  BY DEF KnownDepth, Seen
<1>2. DepthStamp' = DepthOf(g, f)
  BY DEF DepthStamp, DepthOf
<1>3. CASE PyramidDraw(y, g, f)
  BY <1>1, <1>3 DEF PyramidDraw, ReadsRight
<1>4. CASE y.shader \in {"CloudShapeNoise", "CloudDetailNoise"}
  BY <1>4 DEF ReadsRight
<1>5. CASE /\ y.shader = "CloudRaymarch"
           /\ y.stamps["cs_t0"] = {1} /\ y.stamps["cs_t1"] = {1} /\ y.stamps["cs_t2"] = {h.frameIndex - 1}
           /\ Seen(g, f) => y.stamps["cs_t3"] = {DepthOf(g, f)}
  BY <1>1, <1>2, <1>5 DEF ReadsRight
<1>6. CASE /\ y.shader = CompositeName
           /\ y.stamps["ps_t0"] = {h.frameIndex} /\ y.stamps["ps_t2"] = {g.content["scene"]}
           /\ Seen(g, f) => y.stamps["ps_t1"] = {DepthOf(g, f)}
  BY <1>1, <1>2, <1>6 DEF ReadsRight, CompositeName
<1> QED
  BY <1>3, <1>4, <1>5, <1>6 DEF StageDraw

\* The stage of the geometry runs on a list in order, once everything is set up.
LEMMA GeometryStages ==
  ASSUME TierInv, setUp = "done", NEW memory \in Memory, EndGeometry(memory),
         NEW g, g = gpu, NEW h, h = gpu', NEW f \in Int, f = gameFrame
  PROVE  /\ Staged(g, h, f)
         /\ PipelineTypes' /\ ListInv' /\ pipelineUp' = pipelineUp /\ OwnPasses(passes') /\ Single(passes')
         /\ \A priority : Has(passes', priority) <=> Has(passes, priority)
<1>1. PICK target : target = gpu.bound["om_rtv"]
  OBVIOUS
<1>2. PICK list : list = passes'
  OBVIOUS
<1>3. /\ ExecuteStage("PostGeometry")
      /\ gpu' = RestoreAll(RunPasses(TargetsUnbound(Quiet(gpu)), list, target, memory), Save(gpu))
  BY <1>1, <1>2 DEF EndGeometry
<1>4. pipelineUp /\ (gpu.hizUp <=> Has(passes, HiZPriority))
  BY DEF TierInv, PassInv
<1>5. PipelineTypes' /\ ListInv' /\ pipelineUp' = pipelineUp /\ InOrder(passes')
  BY <1>3, <1>4, ExecuteKeeps, OwnPriorities DEF TierInv, PassInv
<1>6. /\ OwnPasses(passes') /\ Single(passes')
      /\ \A priority : Has(passes', priority) <=> Has(passes, priority)
  BY <1>3, StageLists DEF TierInv, PassInv
<1>7. Plan(list) /\ DOMAIN list = 1 .. Len(list)
  BY <1>2, <1>5, <1>6, PlanOfList DEF PipelineTypes
<1>8. g.hizUp => Has(list, HiZPriority)
  BY <1>2, <1>4, <1>6
<1>9. /\ IsDevice(g) /\ Drawing(g.bound) /\ g.gameDepth \in {Null} \cup {{m} : m \in Depths}
      /\ HistoryKept(g) /\ (g.cloudsUp => HasShaders(g, CloudShaders))
  BY DEF EndGeometry, TierInv, DeviceInv, FrameInv, LoaderInv
<1>10. h = RestoreAll(RunPasses(TargetsUnbound(Quiet(g)), list, target, memory), Save(g))
  BY <1>3
<1>11. Staged(g, h, f)
  BY <1>7, <1>8, <1>9, <1>10, GeometryRuns
<1> QED
  BY <1>5, <1>6, <1>11

LEMMA GeometryKeeps ==
  ASSUME TierInv, NEW memory \in Memory, EndGeometry(memory)
  PROVE  TierInv'
<1>1. /\ progress = "drawn" /\ progress' = "dispatched"
      /\ UNCHANGED <<config, setUp, loader, gameFrame, mainDepth>>
  BY DEF EndGeometry
<1>2. /\ IsDevice(gpu) /\ Drawing(gpu.bound) /\ mainDepth \in Depths /\ gameFrame \in Nat
      /\ gpu.content[mainDepth] = gameFrame /\ gpu.content["scene"] = gameFrame
  BY <1>1, GameNames DEF TierInv, DeviceInv, FrameInv
<1>3. CASE setUp # "done"
  <2>1. PICK g : g = Quiet(gpu)
    OBVIOUS
  <2>2. gpu' = g /\ UNCHANGED pipeline
    BY <1>3, <2>1 DEF EndGeometry
  <2>3. IsDevice(g) /\ Same(gpu, g, {"drawn"}) /\ g.drawn = {}
    BY <1>2, <2>1, QuietIs
  <2>4. /\ g.bound = gpu.bound /\ g.content = gpu.content /\ g.injected = gpu.injected
        /\ g.gameDepth = gpu.gameDepth /\ g.frameIndex = gpu.frameIndex /\ g.noise = gpu.noise
    BY <2>3 DEF Same, Fields
  <2>5. Plays(gpu, gpu')
    BY <2>2, <2>3, <2>4 DEF Plays, Same, Played, TierInv, DeviceInv
  <2>6. /\ PipelineTypes' /\ ListInv' /\ OwnPasses(passes') /\ Single(passes')
        /\ passes' = passes /\ pipelineUp' = pipelineUp
        /\ \A priority : Has(passes', priority) <=> Has(passes, priority)
    BY <2>2, ListStays DEF pipeline
  <2>7. SunInv' /\ PassInv' /\ LoaderInv'
    BY <1>1, <2>5, <2>6, PlayingKeeps
  <2>8. DeviceInv' /\ FrameInv' /\ InputsAreThisFrames'
    BY <1>1, <2>2, <2>3, <2>4 DEF TierInv, DeviceInv, FrameInv, HistoryKept, InputsAreThisFrames
  <2> QED BY <2>7, <2>8 DEF TierInv
<1>4. CASE setUp = "done"
  <2>1. gpu.gameDepth \in {Null} \cup {{m} : m \in Depths}
    BY DEF TierInv, DeviceInv
  <2>2. PICK f \in Int : f = gameFrame
    BY <1>2
  <2>3. PICK g : g = gpu
    OBVIOUS
  <2>4. PICK h : h = gpu'
    OBVIOUS
  <2>5. Staged(g, h, f)
    BY <1>4, <2>2, <2>3, <2>4, GeometryStages
  <2>6. /\ PipelineTypes' /\ ListInv' /\ pipelineUp' = pipelineUp /\ OwnPasses(passes') /\ Single(passes')
        /\ \A priority : Has(passes', priority) <=> Has(passes, priority)
    BY <1>4, <2>2, <2>3, <2>4, GeometryStages
  <2>7. /\ h.gameDepth = g.gameDepth /\ h.hizUp = g.hizUp /\ h.injected = g.injected
    BY <2>5 DEF Staged, Leaves, Same, Changed, Fields
  <2>8. InputsAreThisFrames'
    <3>1. SUFFICES ASSUME NEW y \in gpu'.drawn PROVE ReadsRight(y)'
      BY DEF InputsAreThisFrames
    <3>2. StageDraw(y, g, h, f)
      BY <2>4, <2>5, <3>1 DEF Staged
    <3>3. PICK depth : depth = mainDepth
      OBVIOUS
    <3>4. /\ g.content["scene"] = f /\ depth \in Depths /\ g.content[depth] = f
          /\ gpu' = h /\ mainDepth' = depth /\ gameFrame' = f
      BY <1>1, <1>2, <2>2, <2>3, <2>4, <3>3
    <3> QED BY <2>7, <3>2, <3>4, StageReadsRight
  <2>9. \A s \in Slots : h.bound[s] = g.bound[s]
    BY <2>5 DEF Staged, Leaves
  <2>10. Drawing(h.bound)
    BY <1>2, <2>3, <2>5, <2>9, SlotKinds DEF Drawing, Staged, Leaves, IsDevice
  <2>11. DeviceInv'
    BY <1>1, <2>3, <2>4, <2>5, <2>7, <2>10 DEF TierInv, DeviceInv, Staged, Leaves
  <2>12. FrameInv'
    BY <1>1, <2>4, <2>5 DEF FrameInv, Staged
  <2>13. \A r \in Sky : r \in Resources \ (Pyramid \cup CloudNamesAll)
    BY SkyNames, CloudNames DEF CloudNamesAll, NoiseNames
  <2>14. Plays(gpu, gpu')
    <3>1. \A r \in Sky : h.content[r] = g.content[r]
      BY <2>5, <2>13 DEF Staged
    <3> QED BY <2>1, <2>3, <2>4, <2>5, <2>7, <3>1 DEF Plays, Played, Changed, Staged, Leaves, Same
  <2>15. SunInv' /\ PassInv' /\ LoaderInv'
    BY <1>1, <1>4, <2>6, <2>14, PlayingKeeps
  <2> QED BY <2>8, <2>11, <2>12, <2>15 DEF TierInv
<1> QED
  BY <1>3, <1>4

LEMMA EndFrameKeeps ==
  ASSUME TierInv, NEW resized \in BOOLEAN, EndFrame(resized)
  PROVE  TierInv'
<1>1. PICK g : g = Quiet(gpu)
  OBVIOUS
<1>2. PICK none : none = [slot \in Outputs \cap {"om_rtv", "om_dsv"} |-> Null]
  OBVIOUS
<1>3. /\ gpu' = Set(g, none) /\ progress' = "start" /\ gameFrame' = gameFrame + 1
      /\ mainDepth' \in {mainDepth, "depth2"} /\ ran' = NoneRan
      /\ UNCHANGED <<config, setUp, loader, pipelineUp, passes, sorted, nextHandle>>
  BY <1>1, <1>2 DEF EndFrame
<1>4. IsDevice(g) /\ Same(gpu, g, {"drawn"}) /\ g.drawn = {} /\ IsDevice(gpu)
  BY <1>1, QuietIs DEF TierInv, DeviceInv
<1>5. DOMAIN none \subseteq Outputs /\ \A s \in DOMAIN none : none[s] = {}
  BY <1>2 DEF Null
<1>6. Puts(g, gpu', none)
  <2>1. DOMAIN none \subseteq Slots /\ DOMAIN none \cap Inputs = {} /\ Taken(none) = {}
    BY <1>5, SlotKinds DEF Taken
  <2> QED BY <1>3, <1>4, <2>1, SetPuts
<1>7. /\ gpu'.content = gpu.content /\ gpu'.drawn = {} /\ gpu'.injected = gpu.injected
      /\ gpu'.gameDepth = gpu.gameDepth /\ gpu'.frameIndex = gpu.frameIndex /\ gpu'.noise = gpu.noise
  BY <1>4, <1>6 DEF Puts, Same, Fields
<1>8. Plays(gpu, gpu')
  BY <1>4, <1>6, <1>7 DEF Plays, Puts, Same, Played, TierInv, DeviceInv
<1>9. /\ PipelineTypes' /\ ListInv' /\ OwnPasses(passes') /\ Single(passes')
      /\ \A priority : Has(passes', priority) <=> Has(passes, priority)
  BY <1>3, ListStays
<1>10. SunInv' /\ PassInv' /\ LoaderInv'
  BY <1>3, <1>8, <1>9, PlayingKeeps
<1>11. DeviceInv'
  BY <1>3, <1>6, <1>7 DEF TierInv, DeviceInv, Puts, MainDepths
<1>12. FrameInv' /\ InputsAreThisFrames'
  BY <1>3, <1>7 DEF TierInv, FrameInv, HistoryKept, InputsAreThisFrames
<1> QED
  BY <1>10, <1>11, <1>12 DEF TierInv

LEMMA PresentPresents ==
  ASSUME TierInv, NEW sun \in Suns, NEW mapped \in Mapped, NEW updates \in BOOLEAN,
         AtPresent(sun, mapped, updates), NEW g, g = gpu, NEW h, h = gpu'
  PROVE  \E updating \in BOOLEAN : Presented(g, h, sun, mapped, updating)
<1>1. /\ progress \in {"drawn", "dispatched"} /\ progress' = "presented"
  BY DEF AtPresent
<1>2. IsDevice(gpu) /\ Drawing(gpu.bound) /\ sun \in Nat /\ mapped \in BOOLEAN \X BOOLEAN
  BY <1>1, TierAssumption DEF TierInv, DeviceInv, TierAssumption
<1>3. PICK updating \in BOOLEAN : updating <=> setUp = "done" /\ updates /\ gpu.atmoUp
  OBVIOUS
<1>4. Presented(g, h, sun, mapped, updating)
  <2>1. CASE setUp = "done"
    <3>1. PICK updated : updated = IF updates /\ gpu.atmoUp THEN Update(Quiet(gpu), sun, mapped) ELSE Quiet(gpu)
      OBVIOUS
    <3>2. gpu' = RestoreAll(ClearAll(updated), Save(gpu))
      BY <2>1, <3>1, Zenon DEF AtPresent
    <3>3. updated = IF updating THEN Update(Quiet(g), sun, mapped) ELSE Quiet(g)
      BY <1>3, <2>1, <3>1
    <3>4. h = RestoreAll(ClearAll(updated), Save(g))
      BY <3>2
    <3>5. /\ IsDevice(g) /\ Drawing(g.bound) /\ g.injected \subseteq {"ps_t23"} /\ (updating => g.atmoUp)
          /\ g.atmoUp => HasShaders(g, TableShaders \cup {"CelestialBodies"})
      BY <1>2, <1>3 DEF TierInv, DeviceInv, SunInv, SkyShaders
    <3> QED BY <1>2, <3>3, <3>4, <3>5, PresentRuns
  <2>2. CASE setUp # "done"
    <3>1. gpu' = Quiet(gpu)
      BY <2>2, Zenon DEF AtPresent
    <3>2. IsDevice(h) /\ Same(g, h, {"drawn"}) /\ h.drawn = {}
      BY <1>2, <3>1, QuietIs
    <3>3. /\ h.bound = g.bound /\ h.content = g.content /\ h.lastSun = g.lastSun
          /\ h.sunSeen = g.sunSeen /\ h.unmapped = g.unmapped
      BY <3>2 DEF Same, Fields
    <3> QED BY <1>2, <1>3, <2>2, <3>2, <3>3 DEF Presented, Same
  <2> QED BY <2>1, <2>2
<1> QED
  BY <1>4

LEMMA PresentKeepsTier ==
  ASSUME TierInv, NEW sun \in Suns, NEW mapped \in Mapped, NEW updates \in BOOLEAN,
         AtPresent(sun, mapped, updates)
  PROVE  TierInv'
<1>1. /\ progress \in {"drawn", "dispatched"} /\ progress' = "presented"
      /\ UNCHANGED <<config, setUp, loader, gameFrame, mainDepth>>
  BY DEF AtPresent
<1>2. IsDevice(gpu) /\ Drawing(gpu.bound) /\ sun \in Nat /\ mapped \in BOOLEAN \X BOOLEAN
  BY <1>1, TierAssumption DEF TierInv, DeviceInv, TierAssumption
<1>3. PICK g : g = gpu
  OBVIOUS
<1>4. PICK h : h = gpu'
  OBVIOUS
<1>5. PICK updating \in BOOLEAN : Presented(g, h, sun, mapped, updating)
  BY <1>3, <1>4, PresentPresents
<1>6. /\ h.injected = g.injected /\ h.gameDepth = g.gameDepth /\ h.atmoUp = g.atmoUp /\ h.shaders = g.shaders
      /\ h.passShaders = g.passShaders /\ h.cloudsUp = g.cloudsUp /\ h.hizUp = g.hizUp
      /\ h.frameIndex = g.frameIndex /\ h.noise = g.noise
  BY <1>5 DEF Presented, Same, Fields
<1>7. DeviceInv'
  BY <1>1, <1>3, <1>4, <1>5, <1>6 DEF TierInv, DeviceInv, Presented
<1>8. FrameInv'
  <2>1. \A r \in NoiseNames \cup {"history"} : h.content[r] = g.content[r]
    BY <1>5, CloudNames DEF Presented
  <2>2. HistoryKept(h)
    BY <1>3, <1>6, <2>1 DEF TierInv, FrameInv, HistoryKept
  <2> QED BY <1>1, <1>4, <2>2 DEF FrameInv
<1>9. LoaderInv'
  BY <1>1, <1>3, <1>4, <1>6 DEF TierInv, LoaderInv, HasShaders, CompositeRegistered
<1>10. SunInv'
  <2>1. h.sunSeen = Never => h.lastSun = Never
    BY <1>2, <1>3, <1>5, SunFacts DEF TierInv, SunInv, Presented, Computed
  <2>2. h.lastSun \in Nat \cup {Never}
    BY <1>2, <1>3, <1>5, SunFacts DEF TierInv, SunInv, Presented, Computed
  <2>3. h.atmoUp => HasShaders(h, SkyShaders)
    BY <1>3, <1>6 DEF TierInv, SunInv, HasShaders
  <2>4. ASSUME h.sunSeen # Never, ~h.unmapped
        PROVE  \E shown \in Suns :
                 /\ \A table \in Sky : h.content[table] = shown
                 /\ h.lastSun = ZenithOf(shown) /\ Distance(ZenithOf(h.sunSeen), h.lastSun) < Threshold
    <3>1. CASE updating /\ SunMoved(g, sun)
      <4>1. Computed(g, h, sun, mapped) /\ h.unmapped = (mapped # <<TRUE, TRUE>>) /\ h.sunSeen = sun
        BY <1>5, <3>1 DEF Presented
      <4>2. mapped[1] /\ mapped[2]
        <5>1. mapped = <<TRUE, TRUE>>
          BY <2>4, <4>1
        <5> QED BY <5>1
      <4>3. h.content["celestial"] = sun /\ h.lastSun = ZenithOf(sun) /\ \A table \in Tables : h.content[table] = sun
        BY <4>1, <4>2 DEF Computed
      <4>4. Distance(ZenithOf(sun), ZenithOf(sun)) < Threshold
        BY <1>2, SunFacts
      <4> QED BY <4>1, <4>3, <4>4 DEF Sky
    <3>2. CASE ~(updating /\ SunMoved(g, sun))
      <4>1. h.content = g.content /\ h.lastSun = g.lastSun /\ h.unmapped = g.unmapped
        BY <1>5, <3>2 DEF Presented
      <4>2. CASE updating
        <5>1. h.sunSeen = sun /\ Distance(ZenithOf(sun), g.lastSun) < Threshold /\ g.lastSun # Never
          <6>1. /\ ~(Distance(ZenithOf(sun), g.lastSun) >= Threshold)
                /\ g.lastSun # Never /\ g.lastSun \in Nat
            BY <1>3, <3>2, <4>2 DEF SunMoved, TierInv, SunInv
          <6>2. Distance(ZenithOf(sun), g.lastSun) \in Int /\ Threshold \in Int
            BY <6>1, SunFacts, ThresholdAssumption DEF Distance, ThresholdAssumption
          <6> QED BY <1>5, <4>2, <6>1, <6>2 DEF Presented
        <5>2. g.sunSeen # Never /\ ~g.unmapped
          BY <1>3, <2>4, <4>1, <5>1 DEF TierInv, SunInv
        <5> QED BY <1>3, <4>1, <5>1, <5>2 DEF TierInv, SunInv, SkyShows
      <4>3. CASE ~updating
        <5>1. h.sunSeen = g.sunSeen
          BY <1>5, <4>3 DEF Presented
        <5> QED BY <1>3, <2>4, <4>1, <5>1 DEF TierInv, SunInv, SkyShows
      <4> QED BY <4>2, <4>3
    <3> QED BY <3>1, <3>2
  <2> QED BY <1>4, <2>1, <2>2, <2>3, <2>4 DEF SunInv, SkyShows
<1>11. InputsAreThisFrames'
  <2>1. SUFFICES ASSUME NEW y \in gpu'.drawn PROVE ReadsRight(y)'
    BY DEF InputsAreThisFrames
  <2>2. SkyDraw(y, h)
    BY <1>4, <1>5 DEF Presented
  <2> QED BY <1>4, <2>2 DEF SkyDraw, ReadsRight, TableShaders
<1>12. PassInv'
  <2>1. CASE setUp = "done"
    <3>1. ExecuteStage("PrePresent")
      BY <2>1, Zenon DEF AtPresent
    <3>2. PipelineTypes' /\ ListInv' /\ pipelineUp' = pipelineUp
      BY <3>1, ExecuteKeeps, OwnPriorities DEF TierInv, PassInv
    <3>3. /\ OwnPasses(passes') /\ Single(passes')
          /\ \A priority : Has(passes', priority) <=> Has(passes, priority)
      BY <3>1, StageLists DEF TierInv, PassInv
    <3> QED BY <1>1, <1>3, <1>4, <1>6, <2>1, <3>2, <3>3 DEF TierInv, PassInv
  <2>2. CASE setUp # "done"
    <3>1. UNCHANGED pipeline
      BY <2>2, Zenon DEF AtPresent
    <3>2. PipelineTypes' /\ ListInv' /\ passes' = passes /\ pipelineUp' = pipelineUp
      BY <3>1, PipelineStays DEF TierInv, PassInv, pipeline
    <3> QED BY <1>1, <1>3, <1>4, <1>6, <3>2 DEF TierInv, PassInv
  <2> QED BY <2>1, <2>2
<1> QED
  BY <1>7, <1>8, <1>9, <1>10, <1>11, <1>12 DEF TierInv

LEMMA TierInitKeeps == TierInit => TierInv
<1> SUFFICES ASSUME TierInit PROVE TierInv
  OBVIOUS
<1>1. PICK failure \in Failures :
        gpu = [bound |-> GameBound, content |-> [r \in Resources |-> 0], drawn |-> {},
               broken |-> failure, computeUp |-> FALSE, shaders |-> <<>>, passesUp |-> FALSE,
               defaultRS |-> FALSE, passShaders |-> <<>>, dynamicCB |-> 0, hizUp |-> FALSE,
               gameDepth |-> Null, atmoUp |-> FALSE, lastSun |-> Never, sunSeen |-> Never,
               atmoCB |-> Never, celestialCB |-> Never, unmapped |-> FALSE, injected |-> {},
               cloudsUp |-> FALSE, cloudsOn |-> CloudsOn, noise |-> FALSE, frameIndex |-> 0]
  BY Zenon DEF TierInit
<1>2. PICK content : content = [r \in Resources |-> 0]
  OBVIOUS
<1>3. /\ DOMAIN gpu = Fields /\ gpu.bound = GameBound /\ gpu.content = content /\ gpu.drawn = {}
      /\ gpu.shaders = <<>> /\ gpu.passShaders = <<>> /\ gpu.hizUp = FALSE /\ gpu.gameDepth = Null
      /\ gpu.atmoUp = FALSE /\ gpu.lastSun = Never /\ gpu.sunSeen = Never /\ gpu.injected = {}
      /\ gpu.cloudsUp = FALSE /\ gpu.noise = FALSE /\ gpu.frameIndex = 0
  BY <1>1, <1>2 DEF Fields
<1>4. /\ setUp = "start" /\ loader = "none" /\ progress = "start" /\ gameFrame = 1 /\ mainDepth = "depth1"
      /\ PipelineInit
  BY DEF TierInit
<1>5. IsDevice(gpu)
  <2>1. DOMAIN GameBound = Slots /\ DOMAIN content = Resources
    BY <1>2 DEF GameBound
  <2> QED BY <1>3, <2>1 DEF IsDevice
<1>6. DeviceInv
  BY <1>3, <1>4, <1>5 DEF DeviceInv, MainDepths
<1>7. SunInv
  BY <1>3 DEF SunInv, SkyShows
<1>8. PassInv
  <2>1. PipelineTypes
    <3>1. nextHandle \in 1 .. MaxPasses + 1 /\ passes \in Seq(Pass)
      BY <1>4, PipelineAssumption DEF PipelineInit, PipelineAssumption
    <3>2. ran \in [StageNames -> Nat]
      BY <1>4 DEF PipelineInit, NoneRan
    <3>3. pipelineUp = FALSE /\ sorted = FALSE
      BY <1>4 DEF PipelineInit
    <3> QED BY <3>1, <3>2, <3>3 DEF PipelineTypes
  <2>2. passes = <<>>
    BY <1>4 DEF PipelineInit
  <2>3. ListInv /\ OwnPasses(passes) /\ Single(passes) /\ \A priority : ~Has(passes, priority)
    BY <1>4, <2>2 DEF PipelineInit, ListInv, InOrder, OwnPasses, Single, Has
  <2> QED BY <1>3, <1>4, <2>1, <2>2, <2>3 DEF PassInv
<1>9. LoaderInv
  BY <1>3, <1>4 DEF LoaderInv, CompositeRegistered
<1>10. FrameInv
  <2>1. gpu.content["history"] = 0
    BY <1>2, <1>3, CloudNames
  <2> QED BY <1>3, <1>4, <2>1 DEF FrameInv, HistoryKept
<1>11. InputsAreThisFrames
  BY <1>3 DEF InputsAreThisFrames
<1> QED
  BY <1>6, <1>7, <1>8, <1>9, <1>10, <1>11 DEF TierInv

LEMMA TierStays ==
  ASSUME TierInv, UNCHANGED tierVars
  PROVE  TierInv'
<1>1. UNCHANGED <<gpu, setUp, loader, progress, gameFrame, mainDepth>> /\ UNCHANGED pipeline
  BY DEF tierVars, own
<1>2. PipelineTypes' /\ ListInv' /\ passes' = passes /\ pipelineUp' = pipelineUp
  BY <1>1, PipelineStays DEF TierInv, PassInv, pipeline
<1>3. PassInv'
  BY <1>1, <1>2 DEF TierInv, PassInv
<1>4. DeviceInv' /\ SunInv' /\ LoaderInv' /\ FrameInv'
  BY <1>1 DEF TierInv, DeviceInv, SunInv, SkyShows, LoaderInv, FrameInv
<1>5. InputsAreThisFrames'
  BY <1>1 DEF TierInv, InputsAreThisFrames, ReadsRight, KnownDepth, DepthStamp
<1> QED
  BY <1>3, <1>4, <1>5 DEF TierInv

LEMMA TierStepKeeps == TierInv /\ [TierNext]_tierVars => TierInv'
<1> SUFFICES ASSUME TierInv, [TierNext]_tierVars PROVE TierInv'
  OBVIOUS
<1>1. CASE UNCHANGED tierVars
  BY <1>1, TierStays
<1>2. CASE SetUpManagers
  BY <1>2, ManagersKeep
<1>3. CASE SetUpPyramid
  BY <1>3, PyramidKeeps
<1>4. CASE SetUpRenderers
  BY <1>4, RenderersKeep
<1>5. CASE LoadShaders
  BY <1>5, LoadShadersKeeps
<1>6. CASE LoadPass
  BY <1>6, LoadPassKeeps
<1>7. CASE LoadDone
  BY <1>7, LoadDoneKeeps
<1>8. CASE \E texture \in Depths : ClearDepth(texture)
  BY <1>8, ClearKeeps
<1>9. CASE \E target \in Targets, withDepth \in BOOLEAN : DrawScene(target, withDepth)
  BY <1>9, SceneKeeps
<1>10. CASE \E memory \in Memory : EndGeometry(memory)
  BY <1>10, GeometryKeeps
<1>11. CASE \E sun \in Suns, mapped \in Mapped, updates \in BOOLEAN : AtPresent(sun, mapped, updates)
  BY <1>11, PresentKeepsTier
<1>12. CASE \E resized \in BOOLEAN : EndFrame(resized)
  BY <1>12, EndFrameKeeps
<1> QED
  BY <1>1, <1>2, <1>3, <1>4, <1>5, <1>6, <1>7, <1>8, <1>9, <1>10, <1>11, <1>12 DEF TierNext

\* The invariant holds in every state.
THEOREM TierInductive == TierSpec => []TierInv
<1> QED
  BY TierInitKeeps, TierStepKeeps, PTL DEF TierSpec

\* Every shader of the tier reads what it is meant to, of the frame it is meant
\* to, whatever fails to be created and in whatever order the set-up, the
\* compiling thread and the frames come, for any size of the pyramid
\* (PhaseDispatcher.cpp: OnPhaseChange; HiZPyramid.cpp: BuildPyramid;
\* VolumetricClouds.cpp: Execute; AtmosphereRenderer.cpp: UpdateLUTs).
THEOREM InputsFresh == TierSpec => []InputsAreThisFrames
<1>1. TierInv => InputsAreThisFrames
  BY DEF TierInv
<1> QED
  BY <1>1, TierInductive, PTL

\* The tables of the sky show one sun, of the zenith last seen to within the threshold,
\* for any suns, whatever their zeniths, and any threshold
\* (AtmosphereRenderer.cpp: UpdateLUTs, RenderCelestials).
THEOREM SkyFollows == TierSpec => []SkyFollowsSun
<1>1. TierInv => SkyFollowsSun
  BY DEF TierInv, SunInv, SkyShows, SkyFollowsSun
<1> QED
  BY <1>1, TierInductive, PTL

\* The stage of the geometry leaves every slot as it was.
LEMMA GeometryBinds ==
  ASSUME TierInv, NEW memory \in Memory, EndGeometry(memory), NEW slot \in Slots
  PROVE  gpu'.bound[slot] = gpu.bound[slot]
<1>1. progress = "drawn" /\ IsDevice(gpu) /\ Drawing(gpu.bound) /\ gameFrame \in Int
  BY DEF EndGeometry, TierInv, DeviceInv
<1>2. CASE setUp # "done"
  <2>1. PICK g : g = Quiet(gpu)
    OBVIOUS
  <2>2. gpu' = g
    BY <1>2, <2>1 DEF EndGeometry
  <2>3. g.bound = gpu.bound
    BY <1>1, <2>1, QuietIs DEF Same, Fields
  <2> QED BY <2>2, <2>3
<1>3. CASE setUp = "done"
  <2>1. PICK g : g = gpu
    OBVIOUS
  <2>2. PICK h : h = gpu'
    OBVIOUS
  <2>3. PICK f \in Int : f = gameFrame
    BY <1>1
  <2>4. Staged(g, h, f)
    BY <1>3, <2>1, <2>2, <2>3, GeometryStages
  <2> QED BY <2>1, <2>2, <2>4 DEF Staged, Leaves
<1> QED
  BY <1>2, <1>3

\* What the game had bound is bound again after the passes and at the end of the
\* frame, but for the injected slots, whichever pass ran, failed or stopped half
\* way (PhaseDispatcher.cpp: OnPhaseChange; D3D11StateBackup.h: Restore;
\* D3D11Hook.cpp: the end of the frame).
THEOREM BindingsReturn == TierSpec => BindingsKept
<1> DEFINE Returns == progress' \in {"dispatched", "presented"} /\ progress' # progress =>
                        \A slot \in Slots : \/ gpu'.bound[slot] = gpu.bound[slot]
                                            \/ progress' = "presented" /\ slot \in gpu.injected
<1>1. TierInv /\ [TierNext]_tierVars => [Returns]_tierVars
  <2> SUFFICES ASSUME TierInv, TierNext, progress' \in {"dispatched", "presented"}, progress' # progress,
                      NEW slot \in Slots
               PROVE  \/ gpu'.bound[slot] = gpu.bound[slot]
                      \/ progress' = "presented" /\ slot \in gpu.injected
    OBVIOUS
  <2>1. CASE SetUpManagers \/ SetUpPyramid \/ SetUpRenderers
    BY <2>1, Zenon DEF SetUpManagers, SetUpPyramid, SetUpRenderers
  <2>2. CASE LoadShaders \/ LoadPass \/ LoadDone
    BY <2>2, Zenon DEF LoadShaders, LoadPass, LoadDone
  <2>3. CASE \E texture \in Depths : ClearDepth(texture)
    BY <2>3, Zenon DEF ClearDepth
  <2>4. CASE \E target \in Targets, withDepth \in BOOLEAN : DrawScene(target, withDepth)
    <3>1. progress' = "drawn"
      BY <2>4, Zenon DEF DrawScene
    <3> QED BY <3>1
  <2>5. CASE \E memory \in Memory : EndGeometry(memory)
    BY <2>5, GeometryBinds
  <2>6. CASE \E sun \in Suns, mapped \in Mapped, updates \in BOOLEAN : AtPresent(sun, mapped, updates)
    <3>1. PICK sun \in Suns, mapped \in Mapped, updates \in BOOLEAN : AtPresent(sun, mapped, updates)
      BY <2>6
    <3>2. PICK g : g = gpu
      OBVIOUS
    <3>3. PICK h : h = gpu'
      OBVIOUS
    <3>4. PICK updating \in BOOLEAN : Presented(g, h, sun, mapped, updating)
      BY <3>1, <3>2, <3>3, PresentPresents
    <3>5. progress' = "presented"
      BY <3>1, Zenon DEF AtPresent
    <3> QED BY <3>2, <3>3, <3>4, <3>5 DEF Presented
  <2>7. CASE \E resized \in BOOLEAN : EndFrame(resized)
    <3>1. progress' = "start"
      BY <2>7, Zenon DEF EndFrame
    <3> QED BY <3>1
  <2> QED
    BY <2>1, <2>2, <2>3, <2>4, <2>5, <2>6, <2>7 DEF TierNext
<1> QED
  BY <1>1, TierInductive, PTL DEF TierSpec, BindingsKept

=============================================================================
