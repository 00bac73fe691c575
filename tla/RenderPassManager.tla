--------------------------- MODULE RenderPassManager ---------------------------
(***************************************************************************)
(* The fullscreen passes of the plugin (core/RenderPassManager.cpp): a     *)
(* pass is a pixel shader compiled once; executing it saves the state of   *)
(* the context, binds what the pass asks for, draws one triangle and       *)
(* rebinds what was there.  A device g also has                            *)
(*   passesUp    m_initialized                                             *)
(*   defaultRS   m_defaultRS was created                                   *)
(*   passShaders m_passes: the pixel shaders registered                    *)
(*   dynamicCB   m_dynamicCB and m_dynamicCBSize; 0 when there is none     *)
(* Meshes, several targets and vertex shaders of a pass's own are open to  *)
(* a caller, and no pass of the plugin asks for them: they are left out.   *)
(***************************************************************************)
EXTENDS D3D11Context

InitializePasses(g) ==
  IF g.passesUp \/ ~Creates(g, "FullscreenVS") THEN g
  ELSE [g EXCEPT !.passesUp = TRUE, !.defaultRS = Creates(g, "DefaultRS")]

\* The id of the new pass, 0 when its shader does not compile.
RegisteredId(g, name) == IF g.passesUp /\ Creates(g, name) THEN Len(g.passShaders) + 1 ELSE 0

RegisterFullscreenPass(g, name) ==
  IF RegisteredId(g, name) = 0 THEN g ELSE [g EXCEPT !.passShaders = Append(@, name)]

-----------------------------------------------------------------------------
PassSlots == (Slots \ (CsInputs \cup {"cs", "cs_u0", "cs_b0", "cs_s0", "ps_t23"}))

SavePipelineState(g) == Get(g, PassSlots)

\* The groups of slots in the order they are bound again, the targets last.
RestoreOrder ==
  << {"ia_layout", "ia_topology"}, {"ia_vb0"}, {"ia_ib"}, {"vs"}, {"vs_b0"},
     {"rs"}, {"viewport"}, {"ps"}, {"ps_b0"}, {"ps_t0", "ps_t1", "ps_t2"},
     {"ps_s0", "ps_s1"}, {"om_rtv", "om_dsv"}, {"blend"}, {"depth_state"} >>

RestorePipelineState(g, saved) == SetInTurn(g, saved, RestoreOrder)

Grown(size) == ((size + 15) \div 16) * 16

\* The buffer the data goes into: kept while it is large enough.
Buffer(g, exec) ==
  IF Grown(exec.cbSize) > g.dynamicCB
  THEN IF exec.memory THEN Grown(exec.cbSize) ELSE 0
  ELSE g.dynamicCB

\* What is bound for one triangle over the whole target: no geometry, the
\* built-in vertex shader, then the pixel shader with what it reads.
BindPass(g, exec) ==
  LET assembled == Set(g, [slot \in {"ia_topology", "ia_layout", "ia_vb0", "ia_ib", "vs",
                                     "viewport", "rs"} |->
                             CASE slot = "ia_topology" -> {"TriangleList"}
                               [] slot = "vs"          -> {"FullscreenVS"}
                               [] slot = "viewport"    -> exec.rtv
                               [] slot = "rs"          -> IF g.defaultRS THEN {"DefaultRS"} ELSE Null
                               [] OTHER                -> Null])
      shaded    == Set(assembled, [slot \in {"ps"} |-> {g.passShaders[exec.pass]}])
      resources == Set(shaded, exec.srvs)
  IN  Set(resources, exec.samplers)

BindTargets(g, exec) ==
  LET targets == Set(g, [slot \in {"om_rtv", "om_dsv"} |-> IF slot = "om_rtv" THEN exec.rtv ELSE Null])
  IN  Set(targets, [slot \in {"blend", "depth_state"} |-> Null])

\* exec: pass, rtv, srvs, samplers, cbSize, stamp and whether there is memory
\* for a larger buffer.
Execute(g, exec) ==
  IF ~g.passesUp \/ exec.pass \notin DOMAIN g.passShaders THEN g
  ELSE LET saved == SavePipelineState(g)
           bound == BindPass(g, exec)
           size  == Buffer(g, exec)
           buffered == Set(bound, [slot \in {"vs_b0", "ps_b0"} |-> {"DynamicCB"}])
           drawn == Issue(BindTargets(buffered, exec), g.passShaders[exec.pass],
                          PsInputs, {"om_rtv"}, exec.stamp)
           unbound == Set(drawn, Nothing(DOMAIN exec.srvs))
       IN  IF size = 0
           THEN RestorePipelineState(bound, saved)
           ELSE [RestorePipelineState(unbound, saved) EXCEPT !.dynamicCB = size]
=============================================================================
