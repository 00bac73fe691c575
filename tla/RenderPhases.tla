----------------------------- MODULE RenderPhases -----------------------------
(***************************************************************************)
(* One frame after another through the proxy: the detector that guesses    *)
(* the rendering phase from the game's calls                               *)
(* (d3d11_proxy/RenderPhaseDetector.cpp), the plugin's dispatcher that     *)
(* runs a stage of the pass pipeline when a phase ends                     *)
(* (core/PhaseDispatcher.cpp), the copy of the scene taken before the HUD  *)
(* and the Present that closes the frame (d3d11_proxy/WrappedSwapChain.cpp).*)
(* A viewport is "full" from 0.9 of the size the detector was given when   *)
(* the device was created, "near" from 0.8, else "small".  No code         *)
(* registers a sky shader: a shader bind never changes the phase, and Sky, *)
(* AlphaBlend and Decals are not entered.  Safe mode, where none of this   *)
(* runs, is left out.                                                      *)
(***************************************************************************)
EXTENDS RenderPipeline

CONSTANTS
  RTs,             \* colour render targets
  NoRT,            \* none
  GeometryDraws,   \* 10 in the code: draws that make geometry of a phase
  MaxFrames,       \* bound: frames presented
  MaxResizes       \* bound: sizes of the back buffer

ASSUME PhaseAssumption ==
  /\ GeometryDraws \in Nat \ {0} /\ MaxFrames \in Nat /\ MaxResizes \in Nat
  /\ NoRT \notin RTs

VARIABLES
  phase, mainRTV, depthOnly, viewport, draws,   \* the detector
  callbacks,                         \* who is told of a phase change
  dispatcherUp, enabled, dispatched, \* the dispatcher
  starting,                          \* Initialize is between its flags and ResetFrame
  forgotten,                         \* observation: stages whose flags that ResetFrame
                                     \* cleared in this frame
  resetMissed,                       \* observation: it was off when the last frame
                                     \* that had a phase ended, or since
  overlay,                           \* the plugin's pre-present callback
  presenting, frame, size,           \* inside Present; frames; back buffer
  sceneTex, sceneFrame, sceneValid,  \* the copy: its size, the frame it shows
  shownValid                         \* the flag in the proxy interface

detector   == <<phase, mainRTV, depthOnly, viewport, draws>>
dispatcher == <<dispatcherUp, enabled, dispatched, starting, forgotten, resetMissed>>
capture    == <<sceneTex, sceneFrame, sceneValid>>
swapchain  == <<presenting, frame, size, shownValid>>
vars == <<pipeline, detector, callbacks, dispatcher, overlay, capture, swapchain>>

Phases == {"Unknown", "DepthPrepass", "ShadowMap", "GeometryMain", "Decals", "Sky",
           "AlphaBlend", "PostProcess", "UI"}
NoTex  == MaxResizes + 1

TypeOK ==
  /\ PipelineTypes
  /\ phase \in Phases /\ mainRTV \in RTs \cup {NoRT}
  /\ depthOnly \in BOOLEAN
  /\ viewport \in {"full", "near", "small"} /\ draws \in 0 .. GeometryDraws
  /\ callbacks \subseteq {"dispatcher", "capture"}
  /\ dispatcherUp \in BOOLEAN /\ enabled \in BOOLEAN /\ resetMissed \in BOOLEAN
  /\ dispatched \subseteq StageNames
  /\ starting \in BOOLEAN /\ forgotten \subseteq StageNames
  /\ overlay \in BOOLEAN /\ presenting \in BOOLEAN
  /\ frame \in 0 .. MaxFrames /\ size \in 0 .. MaxResizes
  /\ sceneTex \in 0 .. NoTex /\ sceneFrame \in 0 .. MaxFrames
  /\ sceneValid \in BOOLEAN /\ shownValid \in BOOLEAN

Init ==
  /\ PipelineInit
  /\ phase = "Unknown" /\ mainRTV = NoRT /\ depthOnly = FALSE
  /\ viewport = "small" /\ draws = 0
  /\ callbacks = {} /\ overlay = FALSE
  /\ dispatcherUp = FALSE /\ enabled = TRUE /\ dispatched = {}
  /\ starting = FALSE /\ forgotten = {} /\ resetMissed = FALSE
  /\ presenting = FALSE /\ frame = 0 /\ size = 0
  /\ sceneTex = NoTex /\ sceneFrame = 0 /\ sceneValid = FALSE /\ shownValid = FALSE

-----------------------------------------------------------------------------
(* What a phase change sets off, in the call that caused it.               *)

\* The stage that ends when the phase goes from one to another.
NoStage == "None"

StageOf(old, new) ==
  CASE old = "DepthPrepass" -> "PostDepthPrepass"
    [] old = "GeometryMain" /\ new \in {"Sky", "AlphaBlend", "Decals", "PostProcess"}
         -> "PostGeometry"
    [] old = "Sky" /\ new \in {"AlphaBlend", "PostProcess"} -> "PostSky"
    [] old = "PostProcess" /\ new = "UI" -> "PreUI"
    [] OTHER -> NoStage

\* The sentinel of no matching transition.
MapsToStage(stage) == stage # NoStage

\* Wrong: a stage runs as often as its phase ends.
MayRepeat(stage) == TRUE

\* Each stage at most once per frame.
MayDispatch(stage) == stage \notin dispatched

\* Wrong: ResetFrame forgets the last mid-frame stage.
ResetMost == dispatched \cap {"PreUI"}

\* What ResetFrame leaves in m_dispatched.
DispatchedAfterReset == {}

\* PhaseDispatcher::OnPhaseChange.
Dispatch(old, new) ==
  LET stage == StageOf(old, new)
      runs  == /\ "dispatcher" \in callbacks /\ dispatcherUp /\ enabled
               /\ new # "Unknown" /\ pipelineUp
               /\ MapsToStage(stage) /\ MayDispatch(stage)
      resets == "dispatcher" \in callbacks /\ dispatcherUp /\ enabled /\ new = "Unknown"
  IN  /\ dispatched' = IF runs THEN dispatched \cup {stage}
                       ELSE IF resets THEN DispatchedAfterReset ELSE dispatched
      /\ IF runs THEN ExecuteStage(stage) ELSE UNCHANGED pipeline

\* WrappedSwapChain.cpp OnPhaseChange: the texture is created when there is none,
\* whatever its size, and a copy between sizes changes nothing but the flag.
CaptureScene(old, new) ==
  \/ /\ "capture" \in callbacks /\ new = "UI" /\ old # "UI"
     /\ \E tex \in {sceneTex} \cup (IF sceneTex = NoTex THEN {size} ELSE {}) :
          /\ sceneTex' = tex
          /\ sceneFrame' = IF tex = size THEN frame ELSE sceneFrame
          /\ sceneValid' = (tex # NoTex \/ sceneValid)
  \/ \* not concerned, or GetBuffer fails
     UNCHANGED capture

\* SetPhase.
SetPhase(new) ==
  /\ phase' = new
  /\ IF new = phase
     THEN UNCHANGED <<pipeline, dispatched, capture>>
     ELSE Dispatch(phase, new) /\ CaptureScene(phase, new)

\* A hook of the game's context, between two Presents.
Hook ==
  /\ ~presenting /\ frame < MaxFrames
  /\ UNCHANGED <<callbacks, dispatcherUp, enabled, starting, forgotten, resetMissed, overlay,
                 swapchain>>

-----------------------------------------------------------------------------
(* The game's calls.                                                       *)

\* The phase that binding rt and a depth buffer (or none) announces.
BecomesMain(rt, depth) == mainRTV = NoRT /\ depth /\ viewport = "full" /\ rt # NoRT

PhaseOfTargets(rt, depth) ==
  CASE rt = NoRT /\ depth -> IF viewport = "small" THEN "ShadowMap" ELSE "DepthPrepass"
    [] BecomesMain(rt, depth) -> "GeometryMain"
    [] rt # NoRT /\ rt = mainRTV -> IF depth THEN "GeometryMain" ELSE "PostProcess"
    [] rt # NoRT /\ rt # mainRTV /\ ~depth ->
         IF viewport = "full" THEN "PostProcess" ELSE "UI"
    [] OTHER -> phase

OnRTChange(rt, depth) ==
  /\ Hook
  /\ depthOnly' = (rt = NoRT /\ depth)
  /\ mainRTV' = IF BecomesMain(rt, depth) THEN rt ELSE mainRTV
  /\ SetPhase(PhaseOfTargets(rt, depth))
  /\ UNCHANGED <<viewport, draws>>

OnViewportChange(v) ==
  /\ Hook
  /\ viewport' = v
  /\ SetPhase(IF v = "small" /\ depthOnly THEN "ShadowMap" ELSE phase)
  /\ UNCHANGED <<mainRTV, depthOnly, draws>>

\* A draw is counted in the phase it is made in before it can end that phase.
OnDraw(fullscreen, indexed) ==
  LET count == IF phase = "GeometryMain" /\ draws < GeometryDraws THEN draws + 1 ELSE draws
  IN  /\ Hook
      /\ draws' = count
      /\ SetPhase(CASE fullscreen /\ ~indexed /\ phase = "GeometryMain"
                         /\ count = GeometryDraws -> "PostProcess"
                    [] indexed /\ phase = "PostProcess" -> "UI"
                    [] OTHER -> phase)
      /\ UNCHANGED <<mainRTV, depthOnly, viewport>>

\* Present, up to and including the callbacks.  DoOverlayWork runs its stage unless
\* it was disabled after faults or the passes were switched off (F9).
Present ==
  /\ ~presenting /\ frame < MaxFrames
  /\ presenting' = TRUE
  /\ \/ overlay /\ ExecuteStage("PrePresent")
     \/ UNCHANGED pipeline
  /\ UNCHANGED <<detector, callbacks, dispatcher, overlay, capture, frame, size, shownValid>>

\* Wrong: the flag is not reset for the next frame.
ValidKept == sceneValid

\* s_preUISceneValid, once it has been shown.
ValidAfterSync == FALSE

\* The rest of Present: InitPreUICapture, SyncPreUIState, the detector's OnPresent.
EndPresent ==
  /\ presenting
  /\ presenting' = FALSE
  /\ callbacks' = callbacks \cup {"capture"}
  /\ shownValid' = sceneValid
  /\ sceneValid' = ValidAfterSync
  /\ phase' = "Unknown"
  /\ IF phase = "Unknown" THEN UNCHANGED dispatched
     ELSE dispatched' = IF "dispatcher" \in callbacks /\ dispatcherUp /\ enabled
                        THEN DispatchedAfterReset ELSE dispatched
  /\ mainRTV' = NoRT /\ depthOnly' = FALSE
  /\ viewport' = "small" /\ draws' = 0
  /\ frame' = frame + 1
  /\ ran' = NoneRan /\ forgotten' = {}
  /\ resetMissed' = (~enabled \/ (phase = "Unknown" /\ resetMissed))
  /\ UNCHANGED <<pipelineUp, passes, sorted, nextHandle, dispatcherUp, enabled, starting,
                 overlay, size, sceneTex, sceneFrame>>

\* A back buffer of a size it never had before: neither the detector nor the copy
\* is told.
ResizeBuffers ==
  /\ ~presenting /\ size < MaxResizes
  /\ size' = size + 1
  /\ UNCHANGED <<pipeline, detector, callbacks, dispatcher, overlay, capture, presenting,
                 frame, shownValid>>

-----------------------------------------------------------------------------
(* The plugin's other threads, at any moment of the frame.                 *)

\* D3D11Hook::Init, through the proxy interface.
RegisterPrePresent ==
  /\ ~overlay
  /\ overlay' = TRUE
  /\ UNCHANGED <<pipeline, detector, callbacks, dispatcher, capture, swapchain>>

RegisterOnPhaseChange ==
  /\ overlay
  /\ callbacks' = callbacks \cup {"dispatcher"}
  /\ UNCHANGED <<pipeline, detector, dispatcher, overlay, capture, swapchain>>

InitPipeline ==
  /\ "dispatcher" \in callbacks
  /\ Initialize
  /\ UNCHANGED <<detector, callbacks, dispatcher, overlay, capture, swapchain>>

\* PhaseDispatcher::Initialize raises its flags, and the rendering thread may dispatch,
InitDispatcher ==
  /\ pipelineUp /\ ~dispatcherUp
  /\ dispatcherUp' = TRUE /\ enabled' = TRUE /\ starting' = TRUE
  /\ UNCHANGED <<pipeline, detector, callbacks, dispatched, forgotten, resetMissed, overlay,
                 capture, swapchain>>

\* before it resets the frame, which may be a later one by then.
StartReset ==
  /\ starting
  /\ starting' = FALSE
  /\ dispatched' = DispatchedAfterReset /\ forgotten' = dispatched \ DispatchedAfterReset
  /\ UNCHANGED <<pipeline, detector, callbacks, dispatcherUp, enabled, resetMissed, overlay,
                 capture, swapchain>>

\* F7.
ToggleDispatch ==
  /\ "dispatcher" \in callbacks
  /\ enabled' = ~enabled
  /\ UNCHANGED <<pipeline, detector, callbacks, dispatcherUp, dispatched, starting, forgotten,
                 resetMissed, overlay, capture, swapchain>>

RegisterPass ==
  /\ pipelineUp
  /\ \E stage \in PassStages, priority \in Priorities : AddPass(stage, priority)
  /\ UNCHANGED <<detector, callbacks, dispatcher, overlay, capture, swapchain>>

GameCalls ==
  \/ \E rt \in RTs \cup {NoRT}, depth \in BOOLEAN : OnRTChange(rt, depth)
  \/ \E v \in {"full", "near", "small"} : OnViewportChange(v)
  \/ \E fullscreen, indexed \in BOOLEAN : OnDraw(fullscreen, indexed)
  \/ Present \/ EndPresent \/ ResizeBuffers

PluginCalls ==
  \/ RegisterPrePresent \/ RegisterOnPhaseChange \/ InitPipeline \/ InitDispatcher
  \/ StartReset \/ ToggleDispatch \/ RegisterPass

Next == GameCalls \/ PluginCalls
Spec == Init /\ [][Next]_vars

-----------------------------------------------------------------------------
\* No pass runs twice in a frame, however often the phases of the frame come
\* and go: no stage is executed twice, and no pass is listed twice.  The one
\* exception is the frame in which Initialize gets to its ResetFrame: a stage that
\* ran before that is forgotten, and may run once more
\* (RenderPipeline.h: execute is "Called once per frame at the pass's stage";
\* PhaseDispatcher.cpp: m_dispatched, Initialize).
RanOnce ==
  /\ \A stage \in StageNames : ran[stage] <= (IF stage \in forgotten THEN 2 ELSE 1)
  /\ \A i, j \in DOMAIN passes : passes[i].handle = passes[j].handle => i = j

\* A stage is held back as already run only if it did run in this frame, unless
\* the dispatcher was switched off at a frame's end and no frame with a phase ended
\* since: ResetFrame is not missed otherwise (PhaseDispatcher.cpp:69-79, and
\* RenderPhaseDetector.cpp SetPhase, which tells nobody of Unknown to Unknown).
FlagsAreThisFrames == resetMissed \/ \A stage \in dispatched : ran[stage] > 0

\* While the back buffer keeps the size it had when the copy was created, a copy
\* that the interface offers shows this frame or the one before
\* (WrappedSwapChain.cpp OnPhaseChange, SyncPreUIState).
SceneIsRecent == shownValid /\ size = sceneTex => sceneFrame + 1 >= frame
=============================================================================
