---------------------------- MODULE ComputeManager ----------------------------
(***************************************************************************)
(* The compute shaders of the plugin and the calls they are run with       *)
(* (core/ComputeManager.cpp).  A device g also has                         *)
(*   computeUp  m_initialized                                              *)
(*   shaders    m_shaders: the names of what was compiled                  *)
(* Reading back, structured buffers, views of one mip and the saving of    *)
(* the output merger have no caller and are left out.                      *)
(***************************************************************************)
EXTENDS D3D11Context

NoShader == 0

\* The id a compilation returns, and the device after it.
CompiledId(g, name) == IF g.computeUp /\ Creates(g, name) THEN Len(g.shaders) + 1 ELSE NoShader

CompileShader(g, name) ==
  IF CompiledId(g, name) = NoShader THEN g ELSE [g EXCEPT !.shaders = Append(@, name)]

GetShader(g, id) == IF id \in DOMAIN g.shaders THEN {g.shaders[id]} ELSE Null

\* A texture comes with all the views asked for, or not at all.
CreateTexture2D(g, name) == g.computeUp /\ Creates(g, name)
CreateConstantBuffer(g, name) == g.computeUp /\ Creates(g, name)

-----------------------------------------------------------------------------
SavedCS == CsInputs \cup {"cs", "cs_u0", "cs_b0", "cs_s0"}

\* Wrong: the constant buffers are forgotten.
SavedCSNoBuffers == SavedCS \ {"cs_b0"}

\* m_savedState, for the slots of the context that are kept here.
SavedSlots == SavedCS

SaveCSState(g) == Get(g, SavedSlots)

\* One call per kind of slot: the shader and the inputs, then the views to
\* write through, then buffers and samplers.
RestoreCSState(g, saved) == SetInTurn(g, saved, <<{"cs"}, CsInputs, {"cs_u0"}, {"cs_b0", "cs_s0"}>>)

CSSetSRVs(g, views) ==
  Set(g, [slot \in {"cs_t0", "cs_t1", "cs_t2", "cs_t3"} \cap DOMAIN views |-> views[slot]])
CSSetUAV(g, view)      == Set(g, [slot \in {"cs_u0"} |-> view])
CSSetCB(g, buffer)     == Set(g, [slot \in {"cs_b0"} |-> {buffer}])
CSSetSampler(g, state) == Set(g, [slot \in {"cs_s0"} |-> {state}])
CSClearSRVs(g, slots)  == Set(g, Nothing(slots))
CSClearUAVs(g)         == Set(g, Nothing({"cs_u0"}))

DispatchShader(g, id, stamp) ==
  IF GetShader(g, id) = Null THEN g
  ELSE Issue(Set(g, [slot \in {"cs"} |-> GetShader(g, id)]), g.shaders[id],
             CsInputs, {"cs_u0"}, stamp)
=============================================================================
