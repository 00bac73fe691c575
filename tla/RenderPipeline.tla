---------------------------- MODULE RenderPipeline ----------------------------
(***************************************************************************)
(* The registry of the plugin's render passes (core/RenderPipeline.cpp).   *)
(* Passes are added by the main thread and by the thread that compiles the *)
(* cloud shaders, and run by the thread that renders; each operation holds *)
(* m_passMutex throughout.  What a pass draws is left out: executing a     *)
(* stage runs the passes registered for it in the order of the list, and   *)
(* that it was executed is recorded.  No code switches or removes a pass:  *)
(* every entry stays alive and enabled.                                    *)
(***************************************************************************)
EXTENDS Naturals, Sequences, FiniteSets

CONSTANTS
  PassStages,    \* stages that passes are registered for
  Priorities,
  MaxPasses      \* bound: passes ever added

\* PipelineStage, in its order.
StageOrder == <<"PostDepthPrepass", "PostGeometry", "PostSky", "PreUI", "PrePresent">>
StageNames == {StageOrder[i] : i \in DOMAIN StageOrder}
Position(stage) == CHOOSE i \in DOMAIN StageOrder : StageOrder[i] = stage

ASSUME PipelineAssumption ==
  MaxPasses \in Nat /\ Priorities \subseteq Nat /\ PassStages \subseteq StageNames

VARIABLES
  pipelineUp,    \* m_initialized
  passes,        \* m_passes
  sorted,        \* m_sorted
  nextHandle,
  ran            \* observation: how often each stage was executed in this frame

pipeline == <<pipelineUp, passes, sorted, nextHandle, ran>>

NoneRan == [stage \in StageNames |-> 0]

Handles == 1 .. MaxPasses
Pass == [handle : Handles, stage : PassStages, priority : Priorities]

PipelineTypes ==
  /\ pipelineUp \in BOOLEAN /\ sorted \in BOOLEAN
  /\ nextHandle \in 1 .. MaxPasses + 1
  /\ passes \in Seq(Pass) /\ ran \in [StageNames -> Nat]

PipelineInit ==
  /\ pipelineUp = FALSE /\ passes = <<>> /\ sorted = FALSE /\ nextHandle = 1
  /\ ran = NoneRan

Initialize ==
  /\ ~pipelineUp
  /\ pipelineUp' = TRUE
  /\ UNCHANGED <<passes, sorted, nextHandle, ran>>

\* Wrong: the order is taken to survive an addition.
StillSorted == sorted

\* m_sorted, once a pass has been appended.
SortedAfterAdd == FALSE

AddPass(stage, priority) ==
  /\ nextHandle <= MaxPasses
  /\ passes' = Append(passes, [handle |-> nextHandle, stage |-> stage, priority |-> priority])
  /\ nextHandle' = nextHandle + 1
  /\ sorted' = SortedAfterAdd
  /\ UNCHANGED <<pipelineUp, ran>>

\* By stage, then priority; the sort is stable.
Before(i, j) ==
  LET p == passes[i]
      q == passes[j]
  IN  \/ Position(p.stage) < Position(q.stage)
      \/ p.stage = q.stage /\ p.priority < q.priority
      \/ p.stage = q.stage /\ p.priority = q.priority /\ i < j

\* The place of a pass is told by how many come before it.
Rank(i) == Cardinality({j \in DOMAIN passes : Before(j, i)})

SortPasses ==
  [k \in DOMAIN passes |-> passes[CHOOSE i \in DOMAIN passes : Rank(i) = k - 1]]

\* A pass that throws is logged, and the ones after it run all the same.
ExecuteStage(stage) ==
  IF pipelineUp
  THEN /\ passes' = IF sorted THEN passes ELSE SortPasses
       /\ sorted' = TRUE
       /\ ran' = [ran EXCEPT ![stage] = @ + 1]
       /\ UNCHANGED <<pipelineUp, nextHandle>>
  ELSE UNCHANGED pipeline

-----------------------------------------------------------------------------
\* The list p has the passes of a stage by priority, and in the order they were
\* added when it is the same.
InOrder(p) ==
  \A i, j \in DOMAIN p :
    i < j /\ p[i].stage = p[j].stage =>
      \/ p[i].priority < p[j].priority
      \/ p[i].priority = p[j].priority /\ p[i].handle < p[j].handle

\* Whenever a stage is executed its passes run in order, also those that another
\* thread added since the last stage
\* (RenderPipeline.h: "Lower runs first within stage"; SortPasses, m_sorted).
RanInOrder == [][ran' \notin {ran, NoneRan} => InOrder(passes')]_pipeline
=============================================================================
