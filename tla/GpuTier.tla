-------------------------------- MODULE GpuTier --------------------------------
(***************************************************************************)
(* The GPU tier at work: the main thread sets it up (core/main.cpp), a     *)
(* thread of its own compiles the clouds, and the game's frames run the    *)
(* passes in the middle (core/PhaseDispatcher.cpp) and the atmosphere at   *)
(* the end (core/D3D11Hook.cpp), each time with the game's state of the    *)
(* context put aside and bound again.  The proxy tells which depth is the  *)
(* game's (d3d11_proxy/WrappedSwapChain.cpp).  The passes are those of     *)
(* RenderPipeline, known by their priorities.                              *)
(* A frame is: depth cleared, scene drawn, end of the geometry, present.   *)
(***************************************************************************)
EXTENDS VolumetricClouds, RenderPipeline

CONSTANTS
  Configs,       \* [atmosphere, clouds]: the switches of GPU.ini
  CloudsOn,      \* what m_enabled of the clouds starts as
  Failures,      \* creations that may fail, one of them in a run
  Suns,          \* directions of the sun
  Mapped,        \* whether the atmosphere's two buffers can be written
  Memory,        \* [copy, buffer]: what the composite pass can allocate
  MaxFrame       \* bound: frames

HiZPriority == 1
CloudsPriority == 80

ASSUME TierAssumption ==
  /\ "PostGeometry" \in PassStages /\ {HiZPriority, CloudsPriority} \subseteq Priorities
  /\ Configs \subseteq [atmosphere : BOOLEAN, clouds : BOOLEAN] /\ CloudsOn \in BOOLEAN
  /\ Suns \subseteq Nat /\ (\A sun \in Suns : ZenithOf(sun) \in Nat) /\ Mapped \subseteq BOOLEAN \X BOOLEAN
  /\ Memory \subseteq [copy : BOOLEAN, buffer : BOOLEAN] /\ MaxFrame \in Nat \ {0}

MainDepths == {"depth1", "depth2"}   \* the game's, before and after a resize
Depths     == MainDepths \cup {"shadow"}
Targets    == {"scene", "other"}     \* only the first has the colours of a scene
Resources  == Depths \cup Targets \cup Pyramid \cup Sky
              \cup {"gameTexture", "shapeNoise", "detailNoise", "cloud", "history", "sceneCopy"}

VARIABLES
  gpu,         \* the device, the managers and the renderers
  config,
  setUp,       \* how far the main thread is
  loader,      \* how far the thread of the clouds is
  progress,    \* of the frame
  gameFrame,
  mainDepth    \* the depth texture the game has now

own == <<gpu, config, setUp, loader, progress, gameFrame, mainDepth>>
tierVars == <<own, pipeline>>

\* The state the game works with; the slots of the targets change.
GameBound == [slot \in Slots |-> IF slot \in Inputs THEN {"gameTexture"}
                                 ELSE IF slot \in Outputs THEN Null ELSE {"game"}]

TierInit ==
  /\ config \in Configs
  /\ \E failure \in Failures :
       gpu = [bound |-> GameBound, content |-> [r \in Resources |-> 0], drawn |-> {},
              broken |-> failure, computeUp |-> FALSE, shaders |-> <<>>, passesUp |-> FALSE,
              defaultRS |-> FALSE, passShaders |-> <<>>, dynamicCB |-> 0, hizUp |-> FALSE,
              gameDepth |-> Null, atmoUp |-> FALSE, lastSun |-> Never, sunSeen |-> Never,
              atmoCB |-> Never, celestialCB |-> Never, unmapped |-> FALSE, injected |-> {},
              cloudsUp |-> FALSE, cloudsOn |-> CloudsOn, noise |-> FALSE, frameIndex |-> 0]
  /\ setUp = "start" /\ loader = "none"
  /\ progress = "start" /\ gameFrame = 1 /\ mainDepth = "depth1"
  /\ PipelineInit

Quiet(g) == [g EXCEPT !.drawn = {}]

-----------------------------------------------------------------------------
(* The main thread, when the game's data is loaded. *)

SetUpManagers ==
  /\ setUp = "start"
  /\ gpu' = InitializePasses([Quiet(gpu) EXCEPT !.computeUp = TRUE])
  /\ setUp' = "managers"
  /\ Initialize
  /\ UNCHANGED <<config, loader, progress, gameFrame, mainDepth>>

SetUpPyramid ==
  /\ setUp = "managers"
  /\ gpu' = InitializePyramid(Quiet(gpu))
  /\ setUp' = "pyramid"
  /\ IF InitializePyramid(gpu).hizUp THEN AddPass("PostGeometry", HiZPriority) ELSE UNCHANGED pipeline
  /\ UNCHANGED <<config, loader, progress, gameFrame, mainDepth>>

\* The dispatcher can run from here on; the clouds get a thread of their own.
SetUpRenderers ==
  /\ setUp = "pyramid"
  /\ gpu' = IF config.atmosphere THEN InitializeAtmosphere(Quiet(gpu)) ELSE Quiet(gpu)
  /\ loader' = IF config.clouds THEN "start" ELSE loader
  /\ setUp' = "done"
  /\ UNCHANGED <<config, progress, gameFrame, mainDepth, pipeline>>

-----------------------------------------------------------------------------
(* The thread that compiles the clouds. *)

LoadShaders ==
  /\ loader = "start"
  /\ IF gpu.computeUp /\ gpu.passesUp /\ pipelineUp
     THEN LET compiled == CompileClouds(Quiet(gpu))
              passed   == IF CloudsCompiled(compiled) THEN RegisterComposite(compiled) ELSE compiled
          IN  /\ gpu' = passed
              /\ loader' = IF CompositeRegistered(passed) /\ CloudsCreated(passed)
                           THEN "created" ELSE "failed"
     ELSE loader' = "failed" /\ gpu' = Quiet(gpu)
  /\ UNCHANGED <<config, setUp, progress, gameFrame, mainDepth, pipeline>>

LoadPass ==
  /\ loader = "created"
  /\ AddPass("PostGeometry", CloudsPriority)
  /\ gpu' = Quiet(gpu)
  /\ loader' = "added"
  /\ UNCHANGED <<config, setUp, progress, gameFrame, mainDepth>>

LoadDone ==
  /\ loader = "added"
  /\ gpu' = [Quiet(gpu) EXCEPT !.cloudsUp = TRUE]
  /\ loader' = "done"
  /\ UNCHANGED <<config, setUp, progress, gameFrame, mainDepth, pipeline>>

-----------------------------------------------------------------------------
(* The game's frame. *)

\* The first large depth to be cleared is the one the proxy offers from then on.
PreClearDepthCopy(g, texture) == IF g.gameDepth # Null THEN g ELSE [g EXCEPT !.gameDepth = {texture}]

ClearDepth(texture) ==
  /\ progress = "start" /\ texture \in {mainDepth, "shadow"}
  /\ gpu' = PreClearDepthCopy(Write(Quiet(gpu), texture, 0), texture)
  /\ UNCHANGED <<config, setUp, loader, progress, gameFrame, mainDepth, pipeline>>

\* The scene is drawn, and the game turns to the target it ends with.
DrawScene(target, withDepth) ==
  /\ progress = "start"
  /\ progress' = "drawn"
  /\ gpu' = [Write(Write(Quiet(gpu), mainDepth, gameFrame), "scene", gameFrame) EXCEPT
               !.bound = [GameBound EXCEPT !["om_rtv"] = {target},
                                           !["om_dsv"] = IF withDepth THEN {mainDepth} ELSE Null]]
  /\ UNCHANGED <<config, setUp, loader, gameFrame, mainDepth, pipeline>>

\* D3D11StateBackup: no buffers and samplers of compute shaders, no vertex
\* buffers, and twenty pixel shader inputs.
BackedUp == Slots \ {"cs_b0", "cs_s0", "ia_vb0", "ps_t23"}

Save(g) == Get(g, BackedUp)

\* The targets first, the views of compute shaders last.
BackupOrder ==
  << {"om_rtv", "om_dsv"}, {"blend"}, {"depth_state"}, {"rs"}, {"viewport"}, {"ia_layout"},
     {"ia_topology"}, {"ia_ib"}, {"vs"}, {"ps"}, {"ps_t0", "ps_t1", "ps_t2"}, {"ps_s0", "ps_s1"},
     {"ps_b0"}, {"vs_b0"}, {"cs"}, {"cs_u0"}, CsInputs >>

RestoreAll(g, saved) == SetInTurn(g, saved, BackupOrder)

\* Wrong: the passes run with the game's targets still bound.
StillBound(g) == g

\* What the passes start from.
TargetsUnbound(g) == Set(g, Nothing({"om_rtv", "om_dsv"}))

RunPass(g, priority, target, memory) ==
  IF priority = HiZPriority THEN BuildPyramid(g) ELSE ExecuteClouds(g, target, memory)

\* The passes of the stage, one after the other.
RunPasses(g, list, target, memory) ==
  LET after[k \in 0 .. Len(list)] ==
        IF k = 0 THEN g ELSE RunPass(after[k - 1], list[k].priority, target, memory)
  IN  after[Len(list)]

\* The end of the geometry, dispatched once the main thread is through.
EndGeometry(memory) ==
  /\ progress = "drawn"
  /\ progress' = "dispatched"
  /\ IF setUp = "done"
     THEN /\ ExecuteStage("PostGeometry")
          /\ LET start == TargetsUnbound(Quiet(gpu))
                 done  == RunPasses(start, passes', gpu.bound["om_rtv"], memory)
             IN  gpu' = RestoreAll(done, Save(gpu))
     ELSE UNCHANGED pipeline /\ gpu' = Quiet(gpu)
  /\ UNCHANGED <<config, setUp, loader, gameFrame, mainDepth>>

\* SRVInjector: the slots it has a view for are emptied.
ClearAll(g) == Set(g, Nothing(g.injected))

\* DoFrameUpdate's part of the tier; what it saw is noted.
Update(g, sun, mapped) ==
  [UpdateLUTs(g, sun, mapped) EXCEPT
     !.sunSeen = sun,
     !.unmapped = IF SunMoved(g, sun) THEN mapped # <<TRUE, TRUE>> ELSE @]

\* The work at the end of the frame: the update unless the player has switched
\* it off (F8), the stage of the last passes (there are none), the injected
\* slots, all between saving and restoring.
AtPresent(sun, mapped, updates) ==
  /\ progress \in {"drawn", "dispatched"}
  /\ progress' = "presented"
  /\ IF setUp = "done"
     THEN LET updated == IF updates /\ gpu.atmoUp THEN Update(Quiet(gpu), sun, mapped) ELSE Quiet(gpu)
          IN  ExecuteStage("PrePresent") /\ gpu' = RestoreAll(ClearAll(updated), Save(gpu))
     ELSE UNCHANGED pipeline /\ gpu' = Quiet(gpu)
  /\ UNCHANGED <<config, setUp, loader, gameFrame, mainDepth>>

\* A resize gives the game a new depth; nothing of the tier is made again.
EndFrame(resized) ==
  /\ progress = "presented" /\ gameFrame < MaxFrame
  /\ progress' = "start" /\ gameFrame' = gameFrame + 1
  /\ mainDepth' = IF resized THEN "depth2" ELSE mainDepth
  /\ gpu' = Set(Quiet(gpu), [slot \in Outputs \cap {"om_rtv", "om_dsv"} |-> Null])
  /\ ran' = NoneRan
  /\ UNCHANGED <<config, setUp, loader, pipelineUp, passes, sorted, nextHandle>>

TierNext ==
  \/ SetUpManagers \/ SetUpPyramid \/ SetUpRenderers
  \/ LoadShaders \/ LoadPass \/ LoadDone
  \/ \E texture \in Depths : ClearDepth(texture)
  \/ \E target \in Targets, withDepth \in BOOLEAN : DrawScene(target, withDepth)
  \/ \E memory \in Memory : EndGeometry(memory)
  \/ \E sun \in Suns, mapped \in Mapped, updates \in BOOLEAN : AtPresent(sun, mapped, updates)
  \/ \E resized \in BOOLEAN : EndFrame(resized)

TierSpec == TierInit /\ [][TierNext]_tierVars

-----------------------------------------------------------------------------
\* What a draw or dispatch reads is of the frame and the turn it is meant to be;
\* the depth counts when the proxy has found the one the game draws to.
KnownDepth == gpu.gameDepth = {mainDepth}
DepthStamp == IF gpu.hizUp THEN -gameFrame ELSE gameFrame
ReadsRight(draw) ==
  LET Reads(slot, stamp) == draw.stamps[slot] = {stamp}
  IN  /\ draw.shader = "CopyCS" /\ KnownDepth => Reads("cs_t0", gameFrame)
      /\ draw.shader = "DownsampleCS" /\ KnownDepth => Reads("cs_t0", -gameFrame)
      /\ draw.shader \in {"AtmoMultiScatter", "AtmoAerial", "CelestialBodies"} => Reads("cs_t0", gpu.atmoCB)
      /\ draw.shader = "CloudRaymarch" =>
           /\ Reads("cs_t0", 1) /\ Reads("cs_t1", 1) /\ Reads("cs_t2", gpu.frameIndex - 1)
           /\ KnownDepth => Reads("cs_t3", DepthStamp)
      /\ draw.shader = "CloudComposite" =>
           /\ Reads("ps_t0", gpu.frameIndex) /\ Reads("ps_t2", gameFrame)
           /\ KnownDepth => Reads("ps_t1", DepthStamp)

\* Whatever order the set-up, the compiling thread and the frames come in,
\* every shader reads what it is meant to, of the frame it is meant to: the
\* pyramid and the composite this frame's depth, the march the last result, the
\* tables one another's.  An input the device has emptied, because the game's
\* target still holds it, has no stamp
\* (PhaseDispatcher.cpp:151-160; VolumetricClouds.cpp:1055, "fresh during
\* mid-frame dispatch"; main.cpp:632-640, the priorities).
InputsAreThisFrames == \A draw \in gpu.drawn : ReadsRight(draw)

\* What the game had bound is bound again after the passes, whichever of them
\* ran, failed or stopped half way; only the injected slots are lost, at the end
\* of the frame (D3D11StateBackup.h: "The game relies on D3D11 state persisting
\* between API calls"; D3D11Hook.cpp:206, "Restore ALL D3D11 state").
BindingsKept ==
  [][progress' \in {"dispatched", "presented"} /\ progress' # progress =>
       \A slot \in Slots : \/ gpu'.bound[slot] = gpu.bound[slot]
                           \/ progress' = "presented" /\ slot \in gpu.injected]_tierVars

\* The tables and the bodies of the sky show one and the same sun, and what is
\* passed as its zenith is that of the last update to within the threshold, however
\* slowly it moves; a buffer that could not be written is made good when the zenith
\* moves again.  The azimuth is that of the last recomputation, and may be any
\* (AtmosphereRenderer.cpp:616, "Skip recomputation if sun hasn't moved
\* significantly", compares the zenith alone).
SkyFollowsSun ==
  gpu.sunSeen # Never /\ ~gpu.unmapped =>
    \E shown \in Suns :
      /\ \A table \in Sky : gpu.content[table] = shown
      /\ Distance(ZenithOf(gpu.sunSeen), ZenithOf(shown)) < Threshold
=============================================================================
