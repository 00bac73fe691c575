---------------------------- MODULE VolumetricClouds ----------------------------
(***************************************************************************)
(* The volumetric clouds (core/VolumetricClouds.cpp): two noise textures   *)
(* made at the first frame, a march at a quarter of the resolution that    *)
(* reads its own last result, and a fullscreen pass that lays the result   *)
(* over the scene.  A device g also has                                    *)
(*   cloudsUp, cloudsOn   m_initialized, m_enabled                         *)
(*   noise                m_noiseGenerated                                 *)
(*   frameIndex           m_frameIndex                                     *)
(* The stamp of a result is the index of the frame it was marched in.      *)
(***************************************************************************)
EXTENDS HiZPyramid, AtmosphereRenderer, RenderPassManager

CloudShaders == {"CloudShapeNoise", "CloudDetailNoise", "CloudRaymarch"}
CompositeName == "CloudComposite"
CompositeSize == 32

\* The march and the noise are compiled in turn, the first failure ends it.
CompileClouds(g) ==
  LET shape  == CompileShader(g, "CloudShapeNoise")
      detail == CompileShader(shape, "CloudDetailNoise")
  IN  IF ~HasShaders(shape, {"CloudShapeNoise"}) THEN shape
      ELSE IF ~HasShaders(detail, {"CloudDetailNoise"}) THEN detail
      ELSE CompileShader(detail, "CloudRaymarch")

CloudsCompiled(g) == HasShaders(g, CloudShaders)

RegisterComposite(g) == RegisterFullscreenPass(g, CompositeName)
CompositeId(g) == CHOOSE id \in DOMAIN g.passShaders : g.passShaders[id] = CompositeName
CompositeRegistered(g) == \E id \in DOMAIN g.passShaders : g.passShaders[id] = CompositeName

\* CreateCloudTextures.
CloudTextures == {"cloud", "history"}
CloudParts == {"CloudCB", "CompositeCB", "TrilinearSampler"}
CloudsCreated(g) == \A part \in CloudParts \cup CloudTextures : Creates(g, part)

\* A failure is for good: the clouds are switched off.
GenerateNoise(g) ==
  LET pass(d, shader, target) ==
        CSClearUAVs(DispatchShader(CSSetUAV(d, {target}), ShaderId(d, shader), 1))
      shape  == pass(g, "CloudShapeNoise", "shapeNoise")
      detail == pass(shape, "CloudDetailNoise", "detailNoise")
  IN  IF g.noise THEN g
      ELSE IF g.broken \in {"shapeNoise", "detailNoise"} THEN [g EXCEPT !.cloudsOn = FALSE]
      ELSE [RestoreCSState(detail, SaveCSState(g)) EXCEPT !.noise = TRUE]

\* The pyramid when there is one, or else the game's own depth.
CloudDepth(g) == IF g.hizUp THEN Pyramid ELSE g.gameDepth

\* What the history is a copy of.
CopiedToHistory(g, marched) == marched.content["cloud"]

Raymarch(g) ==
  LET inputs == CSSetSRVs(g, [slot \in CsInputs |->
                                CASE slot = "cs_t0" -> {"shapeNoise"}
                                  [] slot = "cs_t1" -> {"detailNoise"}
                                  [] slot = "cs_t2" -> {"history"}
                                  [] slot = "cs_t3" -> CloudDepth(g)])
      ready  == CSSetUAV(CSSetCB(CSSetSampler(inputs, "TrilinearSampler"), "CloudCB"), {"cloud"})
      done   == DispatchShader(ready, ShaderId(g, "CloudRaymarch"), g.frameIndex)
      empty  == CSClearUAVs(CSClearSRVs(done, CsInputs))
  IN  Write(RestoreCSState(empty, SaveCSState(g)), "history", CopiedToHistory(g, done))

\* Laid over the target the game draws to, when it has the colours of a scene
\* and a copy of it can be made.
Composite(g, target, memory) ==
  LET copied == Write(g, "sceneCopy", g.content["scene"])
      points == IF Creates(g, "PointSampler") THEN {"PointSampler"} ELSE Null
  IN  IF target # {"scene"} \/ ~memory.copy THEN g
      ELSE Execute(copied,
             [pass |-> CompositeId(g), rtv |-> target, cbSize |-> CompositeSize, memory |-> memory.buffer,
              stamp |-> g.content["scene"],
              srvs |-> [slot \in {"ps_t0", "ps_t1", "ps_t2"} |->
                          CASE slot = "ps_t0" -> {"cloud"}
                            [] slot = "ps_t1" -> CloudDepth(g)
                            [] slot = "ps_t2" -> {"sceneCopy"}],
              samplers |-> [slot \in {"ps_s0", "ps_s1"} |->
                              IF slot = "ps_s0" THEN points ELSE {"TrilinearSampler"}]])

ExecuteClouds(g, target, memory) ==
  LET noisy == GenerateNoise(g)
  IN  IF ~g.cloudsUp \/ ~g.cloudsOn THEN g
      ELSE IF ~noisy.cloudsOn THEN noisy
      ELSE Composite(Raymarch([noisy EXCEPT !.frameIndex = @ + 1]), target, memory)
=============================================================================
