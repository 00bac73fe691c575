----------------------------- MODULE ProxyContext -----------------------------
(***************************************************************************)
(* The proxy's wrapper around the game's immediate context: its filter of  *)
(* redundant state calls (d3d11_proxy/WrappedContext.cpp), the plugin's    *)
(* passes that run on the real context behind it, mid-frame                *)
(* (core/PhaseDispatcher.cpp) and at Present (core/D3D11Hook.cpp), and the *)
(* backup they take (core/D3D11StateBackup.h).  A binding is a pipeline    *)
(* state, with all its parameters, or a pixel-shader resource slot; only   *)
(* the first CachedSlots slots are cached, and the backup covers them all. *)
(* All of it happens on the thread that renders.                           *)
(***************************************************************************)
EXTENDS CBDirtyTracker

CONSTANTS
  States,        \* blend, depth-stencil and rasterizer state
  NumSlots,      \* 20 in the code: slots the backup covers
  CachedSlots,   \* 16 in the code: kMaxPSSRVSlots
  Objects,       \* state objects and views of the game
  Own,           \* those of the plugin's passes
  Null           \* nothing bound, D3D11's default

ASSUME BindingAssumption ==
  /\ NumSlots \in Nat /\ CachedSlots \in 0 .. NumSlots
  /\ States \cap (0 .. NumSlots - 1) = {}
  /\ Null \notin Objects \cup Own

VARIABLES
  real,     \* what the real context holds
  cache,    \* what the wrapper takes it to hold
  direct,   \* what it would hold if every call of the game reached it
  mode,     \* whose calls are being made
  saved,    \* the running dispatch's backup
  stale     \* bindings that changed without the cache being told, until a call
            \* that sets them reaches the context

bindings == <<real, cache, direct, mode, saved, stale>>
vars     == <<bindings, buffers>>

Slots    == 0 .. NumSlots - 1
Bindings == States \cup Slots
Cached   == States \cup (0 .. CachedSlots - 1)
Values   == Objects \cup Own \cup {Null}
Unset    == [n \in Bindings |-> Null]

TypeOK ==
  /\ real \in [Bindings -> Values] /\ direct \in [Bindings -> Values]
  /\ saved \in [Bindings -> Values] /\ cache \in [Cached -> Values]
  /\ mode \in {"game", "stage", "overlay", "frameend"}
  /\ stale \in SUBSET Bindings
  /\ BufferTypes

\* Wrong: the slots are forgotten when the cache is reset.
ResetStates == [n \in Cached |-> IF n \in States THEN Null ELSE cache[n]]

\* ResetStateCache: every cached binding is taken to be the default.
ResetCache == [n \in Cached |-> Null]

Init ==
  /\ real = Unset /\ direct = Unset /\ saved = Unset
  /\ cache = [n \in Cached |-> Null]
  /\ mode = "game" /\ stale = {}
  /\ BuffersInit

\* g with the bindings that f covers replaced.
Over(g, f) ==
  [n \in DOMAIN g \cup DOMAIN f |-> IF n \in DOMAIN f THEN f[n] ELSE g[n]]

Redundant(f) == \A n \in DOMAIN f \cap DOMAIN cache : cache[n] = f[n]

-----------------------------------------------------------------------------
(* Calls of the game.                                                      *)

\* A call the cache covers is dropped if it changes nothing the cache knows of.
Filter(f) ==
  /\ direct' = Over(direct, f)
  /\ IF Redundant(f)
     THEN UNCHANGED <<real, cache, stale>>
     ELSE /\ real' = Over(real, f)
          /\ cache' = Over(cache, f)
          /\ stale' = stale \ DOMAIN f

\* OMSetBlendState, OMSetDepthStencilState, RSSetState.
SetState(n, v) ==
  /\ mode = "game"
  /\ Filter([k \in {n} |-> v])
  /\ UNCHANGED <<mode, saved, buffers>>

\* StartSlot + NumViews <= kMaxPSSRVSlots
Fits(last) == last < CachedSlots

\* A call that reaches past the cache is forwarded and not recorded.
Forward(f) ==
  /\ direct' = Over(direct, f)
  /\ real' = Over(real, f)
  /\ stale' = (stale \ DOMAIN f) \cup (DOMAIN f \cap Cached)
  /\ UNCHANGED cache

PSSetShaderResources(last, f) ==
  /\ mode = "game"
  /\ IF Fits(last) THEN Filter(f) ELSE Forward(f)
  /\ UNCHANGED <<mode, saved, buffers>>

\* The game binds the resource of view t as a render target: D3D11 takes it out
\* of the slots it is bound to, as PhaseDispatcher.cpp:151-155 relies on.
Without(g, t) == [n \in DOMAIN g |-> IF n \in Slots /\ g[n] = t THEN Null ELSE g[n]]

OMSetRenderTargets(t) ==
  /\ mode = "game"
  /\ real' = Without(real, t)
  /\ direct' = Without(direct, t)
  /\ stale' = stale \cup {n \in Slots \cap Cached : real[n] = t}
  /\ UNCHANGED <<cache, mode, saved, buffers>>

\* ExecuteCommandList without RestoreContextState leaves the default state.
ExecuteCommandList ==
  /\ mode = "game"
  /\ real' = Unset /\ direct' = Unset
  /\ stale' = stale \cup {n \in Cached : cache[n] # Null}
  /\ UNCHANGED <<cache, mode, saved, buffers>>

ClearState ==
  /\ mode = "game"
  /\ cache' = ResetCache
  /\ OnClearState
  /\ real' = Unset /\ direct' = Unset
  /\ stale' = {}
  /\ UNCHANGED <<mode, saved>>

Map(b, v) ==
  /\ mode = "game"
  /\ InterceptMap(b, v)
  /\ UNCHANGED bindings

Unmap(b) ==
  /\ mode = "game"
  /\ InterceptUnmap(b)
  /\ UNCHANGED bindings

CreateBuffer(b, v) ==
  /\ mode = "game"
  /\ Recreate(b, v)
  /\ UNCHANGED bindings

-----------------------------------------------------------------------------
(* The plugin's passes, on the real context.                               *)

\* OnPhaseChange reaches a stage, inside a call of the game.
BeginStage ==
  /\ mode = "game"
  /\ mode' = "stage"
  /\ saved' = real
  /\ UNCHANGED <<real, cache, direct, stale, buffers>>

\* Present: the plugin's callback, if it is registered and not disabled.
Present ==
  /\ mode = "game" /\ open = {}
  /\ \/ mode' = "overlay" /\ saved' = real
     \/ mode' = "frameend" /\ UNCHANGED saved
  /\ UNCHANGED <<real, cache, direct, stale, buffers>>

PassBinds(n, v) ==
  /\ mode \in {"stage", "overlay"}
  /\ real' = [real EXCEPT ![n] = v]
  /\ UNCHANGED <<cache, direct, mode, saved, stale, buffers>>

\* Wrong: the passes' state is left behind.
NotRestored == real

\* What D3D11StateBackup::Restore leaves in the context.
Restored == saved

AfterPasses == IF mode = "stage" THEN "game" ELSE "frameend"

\* Restore, Release, InvalidateStateCache.
EndPasses ==
  /\ mode \in {"stage", "overlay"}
  /\ real' = Restored
  /\ saved' = Unset
  /\ cache' = ResetCache
  /\ mode' = AfterPasses
  /\ UNCHANGED <<direct, stale, buffers>>

\* An access violation in DoOverlayWork: the handler skips Restore and the rest.
OverlayFaults ==
  /\ mode = "overlay"
  /\ stale' = stale \cup {n \in Bindings : real[n] # saved[n]}
  /\ saved' = Unset
  /\ mode' = "frameend"
  /\ UNCHANGED <<real, cache, direct, buffers>>

\* The rest of Present.
EndFrame ==
  /\ mode = "frameend"
  /\ OnFrameEnd
  /\ mode' = "game"
  /\ UNCHANGED <<real, cache, direct, saved, stale>>

StateCalls ==
  \/ \E n \in States, v \in Objects \cup {Null} : SetState(n, v)
  \/ \E first \in Slots : \E last \in first .. NumSlots - 1 :
       \E f \in [first .. last -> Objects \cup {Null}] : PSSetShaderResources(last, f)
  \/ \E t \in Objects : OMSetRenderTargets(t)
  \/ ExecuteCommandList \/ ClearState

BufferCalls ==
  \E b \in Buffers :
    \/ \E v \in Contents : Map(b, v) \/ CreateBuffer(b, v)
    \/ Unmap(b)

Passes ==
  \/ BeginStage \/ Present \/ EndPasses \/ OverlayFaults \/ EndFrame
  \/ \E n \in Bindings, v \in Own \cup {Null} : PassBinds(n, v)

Next == StateCalls \/ BufferCalls \/ Passes
Spec == Init /\ [][Next]_vars

-----------------------------------------------------------------------------
(* What the game finds in the context when its calls are next served.      *)
Home == IF mode \in {"stage", "overlay"} THEN saved ELSE real

\* A binding the cache holds something for, and that did not change behind it,
\* holds just that: a call dropped for naming it again is redundant
\* (WrappedContext.cpp: the comparisons with the cached state).
CacheIsCurrent ==
  \A n \in Cached \ stale : cache[n] # Null => cache[n] = Home[n]

\* The only call the filter and the passes between them ever take from the game
\* is one that returns a cached binding to its default, unless the binding is
\* stale; the slots the cache does not cover are exact
\* (WrappedContext.cpp, D3D11StateBackup.h, D3D11Hook.cpp DoOverlayWork).
OnlyDefaultsLost ==
  \A n \in Bindings \ stale :
    Home[n] # direct[n] => n \in Cached /\ direct[n] = Null

=============================================================================
