-------------------------- MODULE ProxyContextProofs --------------------------
(***************************************************************************)
(* What the proxy's filters may take from the game, for any number of      *)
(* states, slots, cached slots, objects, buffers and contents; and what    *)
(* its G-buffer does to the game's shaders and targets, for any programs.  *)
(*                                                                         *)
(* The inductive invariant joins what the filters know (the cache and the  *)
(* shadows are current) to what they lose (only defaults, only zeroes):    *)
(* neither half is inductive alone, since a call is dropped because the    *)
(* cache names its value, and is lost only if the cache is wrong.          *)
(*                                                                         *)
(* A patched program is followed instruction by instruction: it is in the  *)
(* state of the original up to the moves, which leave the first target as  *)
(* it is.  What holds at every position is proved from the least position  *)
(* at which it would not.                                                  *)
(***************************************************************************)
EXTENDS ProxyContext, GBuffer, FiniteSetTheorems, WellFoundedInduction, TLAPS

StateInv  == CacheIsCurrent /\ OnlyDefaultsLost
BufferInv == ShadowIsCurrent /\ OnlyZeroesLost
IInv      == TypeOK /\ StateInv /\ BufferInv

-----------------------------------------------------------------------------
(* Functions on bindings.                                                  *)

LEMMA BindingFacts ==
  /\ Cached \subseteq Bindings /\ States \subseteq Cached
  /\ Null \in Values /\ Objects \subseteq Values /\ Own \subseteq Values
  /\ Unset \in [Bindings -> Values] /\ ResetCache \in [Cached -> Values]
<1>1. Cached \subseteq Bindings /\ States \subseteq Cached
  BY BindingAssumption, SMT DEF BindingAssumption, Cached, Bindings, Slots
<1> QED
  BY <1>1 DEF Values, Unset, ResetCache

\* Replacing some of the bindings of a function keeps its type and the others.
LEMMA OverLemma ==
  ASSUME NEW D, NEW g \in [D -> Values], NEW E, NEW f \in [E -> Values], E \subseteq D
  PROVE  /\ Over(g, f) \in [D -> Values]
         /\ \A n \in D : Over(g, f)[n] = IF n \in E THEN f[n] ELSE g[n]
<1>1. DOMAIN g = D /\ DOMAIN f = E /\ D \cup E = D
  OBVIOUS
<1>2. Over(g, f) = [n \in D |-> IF n \in E THEN f[n] ELSE g[n]]
  BY <1>1, Zenon DEF Over
<1> QED
  BY <1>2

-----------------------------------------------------------------------------
(* The buffer tracker: one lemma per operation.                            *)

LEMMA MapKeeps ==
  ASSUME BufferTypes, BufferInv, NEW b \in Buffers, NEW v \in Contents, InterceptMap(b, v)
  PROVE  BufferTypes' /\ BufferInv'
<1>1. BufferTypes'
  BY ZeroAssumption DEF BufferTypes, InterceptMap, ShadowAtMap, ZeroAssumption
<1>2. ShadowIsCurrent'
  BY ZeroAssumption DEF BufferTypes, BufferInv, ShadowIsCurrent, InterceptMap,
     ShadowAtMap, ZeroAssumption
<1>3. OnlyZeroesLost'
  BY DEF BufferInv, OnlyZeroesLost, InterceptMap
<1> QED
  BY <1>1, <1>2, <1>3 DEF BufferInv

LEMMA UnmapKeeps ==
  ASSUME BufferTypes, BufferInv, NEW b \in Buffers, InterceptUnmap(b)
  PROVE  BufferTypes' /\ BufferInv'
<1>1. CASE SkipUpdate(b)
  <2>1. BufferTypes'
    BY <1>1 DEF BufferTypes, SkipUpdate, Close
  <2>2. ShadowIsCurrent'
    BY <1>1 DEF BufferTypes, BufferInv, ShadowIsCurrent, SkipUpdate, Close
  <2>3. b \in tracked
    BY <1>1 DEF BufferTypes, SkipUpdate
  <2> QED
    BY <1>1, <2>1, <2>2, <2>3 DEF BufferTypes, BufferInv, ShadowIsCurrent,
       OnlyZeroesLost, SkipUpdate, Close, Unchanged
<1>2. CASE CommitUpdate(b)
  BY <1>2 DEF BufferTypes, BufferInv, ShadowIsCurrent, OnlyZeroesLost, CommitUpdate, Close
<1>3. CASE CommitFails(b)
  BY <1>3 DEF BufferTypes, BufferInv, ShadowIsCurrent, OnlyZeroesLost, CommitFails, Close
<1>4. CASE UnmapLost(b)
  BY <1>4 DEF BufferTypes, BufferInv, ShadowIsCurrent, OnlyZeroesLost, UnmapLost, Close
<1> QED
  BY <1>1, <1>2, <1>3, <1>4 DEF InterceptUnmap

LEMMA FrameEndKeeps ==
  ASSUME BufferTypes, BufferInv, OnFrameEnd
  PROVE  BufferTypes' /\ BufferInv'
<1>1. idle' \in [Buffers -> 0 .. 2]
  BY DEF BufferTypes, OnFrameEnd
<1>2. BufferTypes'
  BY <1>1 DEF BufferTypes, OnFrameEnd, Survivors
<1>3. ASSUME NEW b \in tracked' PROVE idle'[b] < 2
  BY <1>3 DEF BufferTypes, BufferInv, ShadowIsCurrent, OnFrameEnd, Survivors
<1>4. ShadowIsCurrent'
  BY <1>3 DEF BufferTypes, BufferInv, ShadowIsCurrent, OnFrameEnd, Survivors
<1>5. OnlyZeroesLost'
  BY DEF BufferInv, OnlyZeroesLost, OnFrameEnd
<1> QED
  BY <1>2, <1>4, <1>5 DEF BufferInv

LEMMA ClearStateKeeps ==
  ASSUME BufferTypes, BufferInv, OnClearState
  PROVE  BufferTypes' /\ BufferInv'
BY DEF BufferTypes, BufferInv, ShadowIsCurrent, OnlyZeroesLost, OnClearState

LEMMA RecreateKeeps ==
  ASSUME BufferTypes, BufferInv, NEW b \in Buffers, NEW v \in Contents, Recreate(b, v)
  PROVE  BufferTypes' /\ BufferInv'
<1>1. BufferTypes'
  BY DEF BufferTypes, Recreate, entries
<1>2. ShadowIsCurrent'
  BY DEF BufferTypes, BufferInv, ShadowIsCurrent, Recreate, entries
<1>3. OnlyZeroesLost'
  BY DEF BufferTypes, BufferInv, OnlyZeroesLost, Recreate, entries
<1> QED
  BY <1>1, <1>2, <1>3 DEF BufferInv

LEMMA BuffersStay ==
  ASSUME BufferTypes, BufferInv, UNCHANGED buffers
  PROVE  BufferTypes' /\ BufferInv'
BY DEF BufferTypes, BufferInv, ShadowIsCurrent, OnlyZeroesLost, buffers, entries

-----------------------------------------------------------------------------
(* The state filter: one lemma per operation.                              *)

\* A call that the cache covers, dropped or forwarded.
LEMMA FilterKeeps ==
  ASSUME TypeOK, StateInv, mode = "game", UNCHANGED <<mode, saved>>,
         NEW E \in SUBSET Cached, NEW f \in [E -> Values], Filter(f)
  PROVE  /\ real' \in [Bindings -> Values] /\ direct' \in [Bindings -> Values]
         /\ cache' \in [Cached -> Values] /\ stale' \in SUBSET Bindings
         /\ StateInv'
<1> USE BindingFacts
<1>1. /\ E \subseteq Bindings /\ DOMAIN f = E /\ DOMAIN cache = Cached
      /\ real \in [Bindings -> Values] /\ direct \in [Bindings -> Values]
      /\ cache \in [Cached -> Values] /\ stale \in SUBSET Bindings
      /\ Home = real /\ Home' = real'
  BY DEF TypeOK, Home
<1>2. /\ direct' \in [Bindings -> Values]
      /\ \A n \in Bindings : direct'[n] = IF n \in E THEN f[n] ELSE direct[n]
  BY <1>1, OverLemma DEF Filter
<1>3. CASE Redundant(f)
  <2>1. UNCHANGED <<real, cache, stale>>
    BY <1>3 DEF Filter
  <2>2. \A n \in E : cache[n] = f[n]
    BY <1>1, <1>3 DEF Redundant
  <2>3. CacheIsCurrent'
    BY <1>1, <2>1 DEF StateInv, CacheIsCurrent
  <2>4. ASSUME NEW n \in Bindings \ stale, real[n] # direct'[n]
        PROVE  n \in Cached /\ direct'[n] = Null
    <3>1. CASE n \in E
      BY <1>1, <1>2, <2>2, <2>4, <3>1 DEF StateInv, CacheIsCurrent
    <3>2. CASE n \notin E
      BY <1>1, <1>2, <2>4, <3>2 DEF StateInv, OnlyDefaultsLost
    <3> QED BY <3>1, <3>2
  <2>5. OnlyDefaultsLost'
    BY <1>1, <2>1, <2>4 DEF OnlyDefaultsLost
  <2> QED
    BY <1>1, <1>2, <2>1, <2>3, <2>5 DEF StateInv
<1>4. CASE ~Redundant(f)
  <2>1. real' = Over(real, f) /\ cache' = Over(cache, f) /\ stale' = stale \ E
    BY <1>1, <1>4 DEF Filter
  <2>2. /\ real' \in [Bindings -> Values]
        /\ \A n \in Bindings : real'[n] = IF n \in E THEN f[n] ELSE real[n]
    BY <1>1, <2>1, OverLemma
  <2>3. /\ cache' \in [Cached -> Values]
        /\ \A n \in Cached : cache'[n] = IF n \in E THEN f[n] ELSE cache[n]
    BY <1>1, <2>1, OverLemma
  <2>4. CacheIsCurrent'
    BY <1>1, <2>1, <2>2, <2>3 DEF StateInv, CacheIsCurrent
  <2>5. OnlyDefaultsLost'
    BY <1>1, <1>2, <2>1, <2>2 DEF StateInv, OnlyDefaultsLost
  <2> QED
    BY <1>1, <1>2, <2>1, <2>2, <2>3, <2>4, <2>5 DEF StateInv
<1> QED
  BY <1>3, <1>4

\* A call that reaches past the cache.
LEMMA ForwardKeeps ==
  ASSUME TypeOK, StateInv, mode = "game", UNCHANGED <<mode, saved>>,
         NEW E \in SUBSET Bindings, NEW f \in [E -> Values], Forward(f)
  PROVE  /\ real' \in [Bindings -> Values] /\ direct' \in [Bindings -> Values]
         /\ cache' \in [Cached -> Values] /\ stale' \in SUBSET Bindings
         /\ StateInv'
<1> USE BindingFacts
<1>1. /\ DOMAIN f = E /\ real \in [Bindings -> Values] /\ direct \in [Bindings -> Values]
      /\ cache \in [Cached -> Values] /\ stale \in SUBSET Bindings
      /\ Home = real /\ Home' = real' /\ cache' = cache
      /\ stale' = (stale \ E) \cup (E \cap Cached)
  BY DEF TypeOK, Home, Forward
<1>2. /\ direct' \in [Bindings -> Values]
      /\ \A n \in Bindings : direct'[n] = IF n \in E THEN f[n] ELSE direct[n]
  BY <1>1, OverLemma DEF Forward
<1>3. /\ real' \in [Bindings -> Values]
      /\ \A n \in Bindings : real'[n] = IF n \in E THEN f[n] ELSE real[n]
  BY <1>1, OverLemma DEF Forward
<1>4. CacheIsCurrent'
  BY <1>1, <1>3 DEF StateInv, CacheIsCurrent
<1>5. OnlyDefaultsLost'
  BY <1>1, <1>2, <1>3 DEF StateInv, OnlyDefaultsLost
<1> QED
  BY <1>1, <1>2, <1>3, <1>4, <1>5 DEF StateInv

LEMMA SetStateKeeps ==
  ASSUME IInv, NEW n \in States, NEW v \in Values, SetState(n, v)
  PROVE  IInv'
<1>1. /\ {n} \in SUBSET Cached /\ [k \in {n} |-> v] \in [{n} -> Values]
      /\ TypeOK /\ StateInv /\ mode = "game" /\ UNCHANGED <<mode, saved>>
      /\ Filter([k \in {n} |-> v])
  BY BindingFacts DEF IInv, SetState
<1>2. /\ real' \in [Bindings -> Values] /\ direct' \in [Bindings -> Values]
      /\ cache' \in [Cached -> Values] /\ stale' \in SUBSET Bindings /\ StateInv'
  BY <1>1, FilterKeeps
<1>3. BufferTypes' /\ BufferInv'
  BY BuffersStay DEF IInv, TypeOK, SetState
<1> QED
  BY <1>2, <1>3 DEF IInv, TypeOK, SetState

LEMMA SetResourcesKeeps ==
  ASSUME IInv, NEW first \in Slots, NEW last \in first .. NumSlots - 1,
         NEW f \in [first .. last -> Values], PSSetShaderResources(last, f)
  PROVE  IInv'
<1>1. TypeOK /\ StateInv /\ mode = "game" /\ UNCHANGED <<mode, saved>>
  BY DEF IInv, PSSetShaderResources
<1>2. first .. last \in SUBSET Bindings
  BY BindingAssumption DEF BindingAssumption, Slots, Bindings
<1>3. /\ real' \in [Bindings -> Values] /\ direct' \in [Bindings -> Values]
      /\ cache' \in [Cached -> Values] /\ stale' \in SUBSET Bindings /\ StateInv'
  <2>1. CASE Fits(last)
    <3>1. first .. last \in SUBSET Cached
      BY <2>1, BindingAssumption DEF BindingAssumption, Fits, Slots, Cached
    <3> QED
      BY <1>1, <2>1, <3>1, FilterKeeps DEF PSSetShaderResources
  <2>2. CASE ~Fits(last)
    BY <1>1, <1>2, <2>2, ForwardKeeps DEF PSSetShaderResources
  <2> QED
    BY <2>1, <2>2
<1>4. BufferTypes' /\ BufferInv'
  BY BuffersStay DEF IInv, TypeOK, PSSetShaderResources
<1> QED
  BY <1>3, <1>4 DEF IInv, TypeOK, PSSetShaderResources

LEMMA SetTargetsKeeps ==
  ASSUME IInv, NEW t \in Objects, OMSetRenderTargets(t)
  PROVE  IInv'
<1> USE BindingFacts
<1>1. /\ real \in [Bindings -> Values] /\ direct \in [Bindings -> Values]
      /\ DOMAIN real = Bindings /\ DOMAIN direct = Bindings
      /\ stale' = stale \cup {n \in Slots \cap Cached : real[n] = t}
      /\ Home = real /\ Home' = real' /\ cache' = cache /\ t # Null
      /\ UNCHANGED <<mode, saved, buffers>>
  BY BindingAssumption DEF BindingAssumption, IInv, TypeOK, Home, OMSetRenderTargets
<1>2. /\ real' \in [Bindings -> Values]
      /\ \A n \in Bindings : real'[n] = IF n \in Slots /\ real[n] = t THEN Null ELSE real[n]
  BY <1>1 DEF OMSetRenderTargets, Without
<1>3. /\ direct' \in [Bindings -> Values]
      /\ \A n \in Bindings :
           direct'[n] = IF n \in Slots /\ direct[n] = t THEN Null ELSE direct[n]
  BY <1>1 DEF OMSetRenderTargets, Without
<1>4. CacheIsCurrent'
  BY <1>1, <1>2 DEF IInv, StateInv, CacheIsCurrent
<1>5. OnlyDefaultsLost'
  BY <1>1, <1>2, <1>3 DEF IInv, StateInv, OnlyDefaultsLost
<1>6. BufferTypes' /\ BufferInv'
  BY <1>1, BuffersStay DEF IInv, TypeOK
<1>7. stale' \in SUBSET Bindings
  BY <1>1 DEF IInv, TypeOK
<1> QED
  BY <1>1, <1>2, <1>3, <1>4, <1>5, <1>6, <1>7 DEF IInv, TypeOK, StateInv

LEMMA CommandListKeeps ==
  ASSUME IInv, ExecuteCommandList
  PROVE  IInv'
<1> USE BindingFacts
<1>1. /\ real' = Unset /\ direct' = Unset /\ Home' = Unset
      /\ stale' = stale \cup {n \in Cached : cache[n] # Null}
      /\ UNCHANGED <<cache, mode, saved, buffers>>
  BY DEF IInv, TypeOK, Home, ExecuteCommandList
<1>2. CacheIsCurrent' /\ OnlyDefaultsLost'
  BY <1>1 DEF CacheIsCurrent, OnlyDefaultsLost
<1>3. BufferTypes' /\ BufferInv'
  BY <1>1, BuffersStay DEF IInv, TypeOK
<1>4. stale' \in SUBSET Bindings
  BY <1>1 DEF IInv, TypeOK
<1> QED
  BY <1>1, <1>2, <1>3, <1>4 DEF IInv, TypeOK, StateInv

LEMMA ClearKeeps ==
  ASSUME IInv, ClearState
  PROVE  IInv'
<1> USE BindingFacts
<1>1. /\ real' = Unset /\ direct' = Unset /\ Home' = Unset /\ cache' = ResetCache
      /\ stale' = {} /\ UNCHANGED <<mode, saved>>
  BY DEF IInv, TypeOK, Home, ClearState
<1>2. CacheIsCurrent' /\ OnlyDefaultsLost'
  BY <1>1 DEF CacheIsCurrent, OnlyDefaultsLost, ResetCache
<1>3. BufferTypes' /\ BufferInv'
  BY ClearStateKeeps DEF IInv, TypeOK, ClearState
<1> QED
  BY <1>1, <1>2, <1>3 DEF IInv, TypeOK, StateInv

-----------------------------------------------------------------------------
(* The passes, and the frame's end.                                        *)

LEMMA PassesKeep ==
  ASSUME IInv, BeginStage \/ Present \/ EndPasses \/ OverlayFaults
  PROVE  IInv'
<1> USE BindingFacts
<1>1. BufferTypes' /\ BufferInv'
  BY BuffersStay DEF IInv, TypeOK, BeginStage, Present, EndPasses, OverlayFaults
<1>2. CASE BeginStage \/ Present
  BY <1>1, <1>2 DEF IInv, TypeOK, StateInv, CacheIsCurrent, OnlyDefaultsLost, Home,
     BeginStage, Present
<1>3. CASE EndPasses
  <2>1. Home = saved /\ Home' = saved
    BY <1>3 DEF Home, EndPasses, AfterPasses, Restored
  <2>2. CacheIsCurrent' /\ OnlyDefaultsLost'
    BY <1>3, <2>1 DEF IInv, StateInv, CacheIsCurrent, OnlyDefaultsLost, EndPasses, ResetCache
  <2> QED
    BY <1>1, <1>3, <2>2 DEF IInv, TypeOK, StateInv, EndPasses, AfterPasses, Restored
<1>4. CASE OverlayFaults
  <2>1. Home = saved /\ Home' = real
    BY <1>4 DEF Home, OverlayFaults
  <2>2. \A n \in Bindings \ stale' : real[n] = saved[n] /\ n \notin stale
    BY <1>4 DEF OverlayFaults
  <2>3. CacheIsCurrent'
    BY <1>4, <2>1, <2>2 DEF IInv, StateInv, CacheIsCurrent, OverlayFaults
  <2>4. OnlyDefaultsLost'
    BY <1>4, <2>1, <2>2 DEF IInv, StateInv, OnlyDefaultsLost, OverlayFaults
  <2>5. stale' \in SUBSET Bindings
    BY <1>4 DEF IInv, TypeOK, OverlayFaults
  <2> QED
    BY <1>1, <1>4, <2>3, <2>4, <2>5 DEF IInv, TypeOK, StateInv, OverlayFaults
<1> QED
  BY <1>2, <1>3, <1>4

LEMMA PassBindsKeeps ==
  ASSUME IInv, NEW n \in Bindings, NEW v \in Values, PassBinds(n, v)
  PROVE  IInv'
<1>1. BufferTypes' /\ BufferInv'
  BY BuffersStay DEF IInv, TypeOK, PassBinds
<1>2. Home' = Home
  BY DEF Home, PassBinds
<1> QED
  BY <1>1, <1>2 DEF IInv, TypeOK, StateInv, CacheIsCurrent, OnlyDefaultsLost, PassBinds

LEMMA BufferCallsKeep ==
  ASSUME IInv, NEW b \in Buffers,
         (\E v \in Contents : Map(b, v) \/ CreateBuffer(b, v)) \/ Unmap(b)
  PROVE  IInv'
<1>1. UNCHANGED bindings
  BY DEF Map, CreateBuffer, Unmap
<1>2. BufferTypes' /\ BufferInv'
  BY MapKeeps, UnmapKeeps, RecreateKeeps DEF IInv, TypeOK, Map, CreateBuffer, Unmap
<1> QED
  BY <1>1, <1>2 DEF IInv, TypeOK, StateInv, CacheIsCurrent, OnlyDefaultsLost, Home, bindings

LEMMA EndFrameKeeps ==
  ASSUME IInv, EndFrame
  PROVE  IInv'
<1>1. BufferTypes' /\ BufferInv'
  BY FrameEndKeeps DEF IInv, TypeOK, EndFrame
<1>2. Home' = Home
  BY DEF Home, EndFrame
<1> QED
  BY <1>1, <1>2 DEF IInv, TypeOK, StateInv, CacheIsCurrent, OnlyDefaultsLost, EndFrame

-----------------------------------------------------------------------------

LEMMA InitInv == Init => IInv
<1> SUFFICES ASSUME Init PROVE IInv
  OBVIOUS
<1> USE BindingFacts
<1>1. BufferTypes /\ BufferInv
  BY ZeroAssumption DEF Init, BuffersInit, BufferTypes, BufferInv, ShadowIsCurrent,
     OnlyZeroesLost, ZeroAssumption
<1>2. cache \in [Cached -> Values] /\ \A n \in Cached : cache[n] = Null
  BY DEF Init
<1>3. TypeOK
  BY <1>1, <1>2 DEF Init, TypeOK
<1>4. CacheIsCurrent /\ OnlyDefaultsLost
  BY <1>2 DEF Init, CacheIsCurrent, OnlyDefaultsLost, Home
<1> QED
  BY <1>1, <1>3, <1>4 DEF IInv, StateInv

LEMMA StepInv == IInv /\ [Next]_vars => IInv'
<1> SUFFICES ASSUME IInv, [Next]_vars PROVE IInv'
  OBVIOUS
<1>0. Objects \cup {Null} \subseteq Values /\ Own \cup {Null} \subseteq Values
  BY BindingFacts
<1>1. CASE StateCalls
  <2>1. CASE \E n \in States, v \in Objects \cup {Null} : SetState(n, v)
    BY <1>0, <2>1, SetStateKeeps
  <2>2. CASE \E first \in Slots : \E last \in first .. NumSlots - 1 :
               \E f \in [first .. last -> Objects \cup {Null}] : PSSetShaderResources(last, f)
    <3>1. PICK first \in Slots : \E last \in first .. NumSlots - 1 :
                 \E f \in [first .. last -> Objects \cup {Null}] : PSSetShaderResources(last, f)
      BY <2>2
    <3>2. PICK last \in first .. NumSlots - 1 :
                 \E f \in [first .. last -> Objects \cup {Null}] : PSSetShaderResources(last, f)
      BY <3>1
    <3>3. PICK f \in [first .. last -> Objects \cup {Null}] : PSSetShaderResources(last, f)
      BY <3>2
    <3>4. f \in [first .. last -> Values]
      BY <1>0, <3>3
    <3> QED
      BY <3>3, <3>4, SetResourcesKeeps
  <2>3. CASE \E t \in Objects : OMSetRenderTargets(t)
    BY <2>3, SetTargetsKeeps
  <2> QED
    BY <1>1, <2>1, <2>2, <2>3, CommandListKeeps, ClearKeeps DEF StateCalls
<1>2. CASE BufferCalls
  BY <1>2, BufferCallsKeep DEF BufferCalls
<1>3. CASE Passes
  BY <1>0, <1>3, PassesKeep, PassBindsKeeps, EndFrameKeeps DEF Passes
<1>4. CASE UNCHANGED vars
  <2>1. BufferTypes' /\ BufferInv'
    BY <1>4, BuffersStay DEF IInv, TypeOK, vars
  <2> QED
    BY <1>4, <2>1 DEF IInv, TypeOK, StateInv, CacheIsCurrent, OnlyDefaultsLost, Home,
       vars, bindings
<1> QED
  BY <1>1, <1>2, <1>3, <1>4 DEF Next

\* The inductive invariant: what the cache and the shadows hold, and what the
\* filters may lose (WrappedContext.cpp, CBDirtyTracker.cpp).
THEOREM Invariance == Spec => []IInv
BY InitInv, StepInv, PTL DEF Spec

\* No call writes outside the cache, whatever slots it names
\* (WrappedContext.cpp PSSetShaderResources: the bound on the cached slots).
THEOREM TypeCorrect == Spec => []TypeOK
<1>1. IInv => TypeOK
  BY DEF IInv
<1> QED
  BY <1>1, Invariance, PTL

\* A call dropped for naming what the cache holds is redundant
\* (WrappedContext.cpp: the comparisons with the cached state).
THEOREM CacheTellsTheTruth == Spec => []CacheIsCurrent
<1>1. IInv => CacheIsCurrent
  BY DEF IInv, StateInv
<1> QED
  BY <1>1, Invariance, PTL

\* Of all the game's state calls, whatever the passes do behind them, only a
\* return to the default can be lost (WrappedContext.cpp, D3D11StateBackup.h).
THEOREM OnlyReturnsAreLost == Spec => []OnlyDefaultsLost
<1>1. IInv => OnlyDefaultsLost
  BY DEF IInv, StateInv
<1> QED
  BY <1>1, Invariance, PTL

\* Of all the game's constant-buffer writes, only a write of zeroes can be
\* withheld (CBDirtyTracker.cpp InterceptUnmap, OnFrameEnd).
THEOREM OnlyZeroWritesAreLost == Spec => []OnlyZeroesLost
<1>1. IInv => OnlyZeroesLost
  BY DEF IInv, BufferInv
<1> QED
  BY <1>1, Invariance, PTL

-----------------------------------------------------------------------------
(* The patched shader: programs as the device runs them.                   *)

LEMMA LeastNatural ==
  ASSUME NEW T \in SUBSET Nat, T # {}
  PROVE  \E x \in T : \A y \in T : x <= y
<1> DEFINE R == OpToRel(<, Nat)
<1>1. IsWellFoundedOn(R, Nat)
  BY NatLessThanWellFounded, Zenon
<1>2. PICK x \in T : \A y \in T : ~(<<y, x>> \in R)
  <2> HIDE DEF R
  <2> QED BY <1>1, WFMin
<1>3. \A y \in T : ~(y < x)
  BY <1>2, Zenon DEF OpToRel
<1> QED
  BY <1>3

Continues(h, n, code, taken) ==
  h = [k \in 0 .. n |-> IF k = 0 THEN Start ELSE Execute(h[k - 1], code[k], taken)]

\* One instruction more.
LEMMA HistoryGrows ==
  ASSUME NEW code, NEW taken, NEW n \in Nat, NEW h, Continues(h, n, code, taken)
  PROVE  \E g : Continues(g, n + 1, code, taken)
<1> DEFINE g == [k \in 0 .. n + 1 |-> IF k = n + 1 THEN Execute(h[n], code[n + 1], taken) ELSE h[k]]
<1>1. \A k \in 0 .. n : h[k] = IF k = 0 THEN Start ELSE Execute(h[k - 1], code[k], taken)
  BY DEF Continues
<1>2. \A k \in 0 .. n + 1 : g[k] = IF k = 0 THEN Start ELSE Execute(g[k - 1], code[k], taken)
  <2> TAKE k \in 0 .. n + 1
  <2>1. CASE k = n + 1
    <3>1. k # 0 /\ k - 1 \in 0 .. n + 1 /\ k - 1 # n + 1 /\ k - 1 = n
      BY <2>1
    <3>2. g[k] = Execute(h[n], code[k], taken) /\ g[k - 1] = h[n]
      BY <2>1, <3>1
    <3> HIDE DEF g
    <3> QED BY <3>1, <3>2
  <2>2. CASE k = 0
    BY <2>2, <1>1
  <2>3. CASE k # 0 /\ k # n + 1
    <3>1. k \in 0 .. n /\ k - 1 \in 0 .. n + 1 /\ k - 1 # n + 1
      BY <2>3
    <3>2. g[k] = h[k] /\ g[k - 1] = h[k - 1]
      BY <2>3, <3>1
    <3> HIDE DEF g
    <3> QED BY <1>1, <2>3, <3>1, <3>2
  <2> QED BY <2>1, <2>2, <2>3
<1>3. g = [k \in 0 .. n + 1 |-> IF k = 0 THEN Start ELSE Execute(g[k - 1], code[k], taken)]
  <2>1. g = [k \in 0 .. n + 1 |-> g[k]]
    OBVIOUS
  <2> HIDE DEF g
  <2> QED BY <1>2, <2>1
<1> HIDE DEF g
<1> QED
  BY <1>3 DEF Continues

LEMMA HistoryExists ==
  ASSUME NEW code, NEW taken, NEW n \in Nat
  PROVE  \E h : Continues(h, n, code, taken)
<1> DEFINE T == {m \in Nat : ~ \E h : Continues(h, m, code, taken)}
<1>1. SUFFICES ASSUME T # {} PROVE FALSE
  OBVIOUS
<1>2. PICK m \in T : \A y \in T : m <= y
  <2>1. T \in SUBSET Nat
    OBVIOUS
  <2> HIDE DEF T
  <2> QED BY <1>1, <2>1, LeastNatural
<1>3. m # 0
  <2>1. Continues([k \in 0 .. 0 |-> Start], 0, code, taken)
    <3>1. \A k \in 0 .. 0 : k = 0
      OBVIOUS
    <3> QED BY <3>1 DEF Continues
  <2> QED BY <2>1
<1>4. m - 1 \in Nat /\ ~ (m <= m - 1) /\ m - 1 + 1 = m
  BY <1>3
<1>5. PICK h : Continues(h, m - 1, code, taken)
  BY <1>2, <1>4
<1> QED
  BY <1>2, <1>4, <1>5, HistoryGrows

\* A sequence, of whatever instructions.
IsCode(code) == \E S : code \in Seq(S)

LEMMA CodeLength ==
  ASSUME NEW code, IsCode(code)
  PROVE  Len(code) \in Nat
BY DEF IsCode

\* History is what executing one instruction after another gives.
LEMMA HistorySteps ==
  ASSUME NEW code, IsCode(code), NEW taken
  PROVE  /\ History(code, taken)[0] = Start
         /\ \A k \in 1 .. Len(code) :
              History(code, taken)[k] = Execute(History(code, taken)[k - 1], code[k], taken)
<1> DEFINE h == History(code, taken)
<1>1. h = CHOOSE g : Continues(g, Len(code), code, taken)
  BY DEF History, Continues
<1>2. Continues(h, Len(code), code, taken)
  <2>1. Len(code) \in Nat
    BY CodeLength
  <2> HIDE DEF h
  <2> QED BY <1>1, <2>1, HistoryExists
<1>3. \A k \in 0 .. Len(code) : h[k] = IF k = 0 THEN Start ELSE Execute(h[k - 1], code[k], taken)
  <2> HIDE DEF h
  <2> QED BY <1>2 DEF Continues
<1> HIDE DEF h
<1>4. h[0] = Start /\ \A k \in 1 .. Len(code) : h[k] = Execute(h[k - 1], code[k], taken)
  BY <1>3, CodeLength
<1> QED
  BY <1>4 DEF h

LEMMA Interval ==
  ASSUME NEW a \in Nat, NEW b \in Nat, NEW S, a \in S, \A k \in a .. b - 1 : k \in S => k + 1 \in S
  PROVE  \A k \in a .. b : k \in S
<1> DEFINE T == {k \in a .. b : k \notin S}
<1>1. SUFFICES ASSUME T # {} PROVE FALSE
  OBVIOUS
<1>2. PICK m \in T : \A y \in T : m <= y
  <2>1. T \in SUBSET Nat
    OBVIOUS
  <2> HIDE DEF T
  <2> QED BY <1>1, <2>1, LeastNatural
<1>3. m # a /\ m \in a .. b
  OBVIOUS
<1>4. m - 1 \in a .. b - 1 /\ m - 1 \in a .. b /\ ~ (m <= m - 1) /\ m - 1 + 1 = m
  BY <1>3
<1>5. m - 1 \in S
  BY <1>2, <1>4
<1> QED
  BY <1>2, <1>4, <1>5

IsState(s) == s = [values |-> s.values, ended |-> s.ended] /\ s.ended \in BOOLEAN

LEMMA EndedRecord ==
  ASSUME NEW x, NEW e, NEW f
  PROVE  [[values |-> x, ended |-> e] EXCEPT !.ended = f] = [values |-> x, ended |-> f]
OBVIOUS

LEMMA ExecuteState ==
  ASSUME NEW s, IsState(s), NEW insn, NEW taken
  PROVE  IsState(Execute(s, insn, taken))
<1> DEFINE v == [at \in DOMAIN s.values \cup {insn.writes} |->
                   IF at = insn.writes THEN Result(s.values, insn) ELSE s.values[at]]
<1>1. \/ Execute(s, insn, taken) = [s EXCEPT !.ended = TRUE]
      \/ Execute(s, insn, taken) = s
      \/ Execute(s, insn, taken) = [s EXCEPT !.values = v]
  BY DEF Execute
<1> HIDE DEF v
<1>2. PICK x, e : s = [values |-> x, ended |-> e] /\ e \in BOOLEAN
  BY DEF IsState
<1>3. [s EXCEPT !.ended = TRUE] = [values |-> x, ended |-> TRUE]
  BY <1>2, EndedRecord, Zenon
<1>4. [s EXCEPT !.values = v] = [values |-> v, ended |-> e]
  BY <1>2
<1> QED
  BY <1>1, <1>2, <1>3, <1>4 DEF IsState

LEMMA HistoryStates ==
  ASSUME NEW code, IsCode(code), NEW taken
  PROVE  \A k \in 0 .. Len(code) : IsState(History(code, taken)[k])
<1> DEFINE h == History(code, taken)
           T == {k \in Nat : IsState(h[k])}
<1>1. h[0] = Start /\ \A k \in 1 .. Len(code) : h[k] = Execute(h[k - 1], code[k], taken)
  BY HistorySteps
<1> HIDE DEF h
<1>2. 0 \in T
  <2>1. IsState(Start)
    <3> DEFINE none == [at \in {} |-> {}]
    <3>1. Start = [values |-> none, ended |-> FALSE]
      BY DEF Start
    <3> HIDE DEF none
    <3>2. Start.values = none /\ Start.ended = FALSE
      BY <3>1
    <3> QED BY <3>1, <3>2 DEF IsState
  <2> QED BY <1>1, <2>1
<1>3. ASSUME NEW k \in 0 .. Len(code) - 1, k \in T PROVE k + 1 \in T
  <2>1. k + 1 \in 1 .. Len(code) /\ k + 1 - 1 = k /\ k + 1 \in Nat
    BY <1>3, CodeLength
  <2>2. h[k + 1] = Execute(h[k], code[k + 1], taken)
    BY <1>1, <2>1
  <2>3. IsState(h[k + 1])
    BY <1>3, <2>2, ExecuteState
  <2> QED BY <2>1, <2>3
<1>4. \A k \in 0 .. Len(code) : k \in T
  <2> HIDE DEF T
  <2>1. Len(code) \in Nat
    BY CodeLength
  <2> QED BY <1>2, <1>3, <2>1, Interval
<1> QED
  BY <1>4 DEF h

\* Where a program has ended, nothing changes; a declaration changes nothing.
LEMMA ExecuteIdle ==
  ASSUME NEW s, IsState(s), NEW insn, NEW taken, s.ended \/ insn.op = "dcl_output"
  PROVE  Execute(s, insn, taken) = s
<1>1. PICK x, e : s = [values |-> x, ended |-> e] /\ e \in BOOLEAN
  BY DEF IsState
<1>2. CASE s.ended
  <2>1. e = TRUE
    BY <1>1, <1>2
  <2>2. [s EXCEPT !.ended = TRUE] = s
    BY <1>1, <2>1, EndedRecord, Zenon
  <2> QED BY <1>2, <2>2 DEF Execute
<1>3. CASE ~s.ended /\ insn.op = "dcl_output"
  <2>1. ~Ends(insn, taken)
    BY <1>3 DEF Ends
  <2> QED BY <1>3, <2>1 DEF Execute
<1> QED
  BY <1>2, <1>3

Keeps(s, t) ==
  /\ s.ended = t.ended
  /\ Output(0) \in DOMAIN s.values <=> Output(0) \in DOMAIN t.values
  /\ Output(0) \in DOMAIN s.values => s.values[Output(0)] = t.values[Output(0)]

IsMove(insn) == insn.op = "mov" /\ insn.writes \in {Output(1), Output(2), Output(3)}

LEMMA ExecuteMove ==
  ASSUME NEW s, IsState(s), NEW insn, IsMove(insn), NEW taken
  PROVE  Keeps(s, Execute(s, insn, taken))
<1> DEFINE v == [at \in DOMAIN s.values \cup {insn.writes} |->
                   IF at = insn.writes THEN Result(s.values, insn) ELSE s.values[at]]
<1>1. CASE s.ended
  BY <1>1, ExecuteIdle DEF Keeps
<1>2. CASE ~s.ended
  <2>1. ~Ends(insn, taken)
    BY DEF Ends, IsMove
  <2>2. Execute(s, insn, taken) = s \/ Execute(s, insn, taken) = [s EXCEPT !.values = v]
    BY <1>2, <2>1 DEF Execute
  <2>3. Output(0) # insn.writes
    BY DEF IsMove, Output
  <2>4. Output(0) \in DOMAIN s.values <=> Output(0) \in DOMAIN v
    BY <2>3
  <2>5. Output(0) \in DOMAIN s.values => s.values[Output(0)] = v[Output(0)]
    BY <2>3
  <2> HIDE DEF v
  <2>6. PICK x, e : s = [values |-> x, ended |-> e] /\ e \in BOOLEAN
    BY DEF IsState
  <2>7. [s EXCEPT !.values = v] = [values |-> v, ended |-> e]
    BY <2>6
  <2> QED BY <2>2, <2>4, <2>5, <2>6, <2>7 DEF Keeps
<1> QED
  BY <1>1, <1>2

LEMMA MovesMove ==
  ASSUME NEW program, NEW type
  PROVE  \E m \in 2 .. 3 :
           /\ Len(Moves(program, type)) = m /\ DOMAIN Moves(program, type) = 1 .. m
           /\ \A j \in 1 .. m : IsMove(Moves(program, type)[j])
<1>1. CASE SampleDest(program, 1) >= 0
  <2> DEFINE M == << MovFromTemp(1, SampleDest(program, 0)), MovFromTemp(2, SampleDest(program, 1)),
                     MovFromImm(3, type) >>
  <2>1. Moves(program, type) = M
    BY <1>1 DEF Moves
  <2>2. Len(M) = 3 /\ DOMAIN M = 1 .. 3
    OBVIOUS
  <2>3. IsMove(M[1]) /\ IsMove(M[2]) /\ IsMove(M[3])
    BY DEF IsMove, MovFromTemp, MovFromImm
  <2> HIDE DEF M
  <2>4. \A j \in 1 .. 3 : j = 1 \/ j = 2 \/ j = 3
    OBVIOUS
  <2> QED BY <2>1, <2>2, <2>3, <2>4
<1>2. CASE ~(SampleDest(program, 1) >= 0)
  <2> DEFINE M == << MovFromTemp(1, SampleDest(program, 0)), MovFromImm(2, type) >>
  <2>1. Moves(program, type) = M
    BY <1>2 DEF Moves
  <2>2. Len(M) = 2 /\ DOMAIN M = 1 .. 2
    OBVIOUS
  <2>3. IsMove(M[1]) /\ IsMove(M[2])
    BY DEF IsMove, MovFromTemp, MovFromImm
  <2> HIDE DEF M
  <2>4. \A j \in 1 .. 2 : j = 1 \/ j = 2
    OBVIOUS
  <2> QED BY <2>1, <2>2, <2>3, <2>4
<1> QED
  BY <1>1, <1>2

Joins(r, s, t) ==
  /\ Len(r) = Len(s) + Len(t)
  /\ \A k \in 1 .. Len(s) : r[k] = s[k]
  /\ \A k \in 1 .. Len(t) : r[Len(s) + k] = t[k]

LEMMA ConcatJoins ==
  ASSUME NEW S, NEW s \in Seq(S), NEW t \in Seq(S), NEW r, r = s \o t
  PROVE  r \in Seq(S) /\ Joins(r, s, t)
<1>1. r \in Seq(S) /\ Len(r) = Len(s) + Len(t) /\ \A k \in 1 .. Len(s) : r[k] = s[k]
  OBVIOUS
<1>2. ASSUME NEW k \in 1 .. Len(t) PROVE r[Len(s) + k] = t[k]
  <2>1. Len(s) + k \in 1 .. Len(s) + Len(t) /\ ~ (Len(s) + k <= Len(s)) /\ Len(s) + k - Len(s) = k
    OBVIOUS
  <2> QED BY <2>1
<1> QED
  BY <1>1, <1>2 DEF Joins

At(c, s, n) == \A k \in 1 .. Len(s) : c[n + k] = s[k]

Row(s1, s2, s3, s4, s5) == s1 \o s2 \o s3 \o s4 \o s5

\* Where the elements of five sequences in a row are.
LEMMA FiveParts ==
  ASSUME NEW S, NEW s1 \in Seq(S), NEW s2 \in Seq(S), NEW s3 \in Seq(S), NEW s4 \in Seq(S), NEW s5 \in Seq(S),
         NEW c, c = Row(s1, s2, s3, s4, s5)
  PROVE  /\ IsCode(c) /\ Len(c) = Len(s1) + Len(s2) + Len(s3) + Len(s4) + Len(s5)
         /\ At(c, s1, 0) /\ At(c, s2, Len(s1)) /\ At(c, s3, Len(s1) + Len(s2))
         /\ At(c, s4, Len(s1) + Len(s2) + Len(s3)) /\ At(c, s5, Len(s1) + Len(s2) + Len(s3) + Len(s4))
<1>0. PICK n1 \in Nat, n2 \in Nat, n3 \in Nat, n4 \in Nat :
        n1 = Len(s1) /\ n2 = n1 + Len(s2) /\ n3 = n2 + Len(s3) /\ n4 = n3 + Len(s4)
  <2>1. /\ Len(s1) \in Nat /\ Len(s1) + Len(s2) \in Nat /\ Len(s1) + Len(s2) + Len(s3) \in Nat
        /\ Len(s1) + Len(s2) + Len(s3) + Len(s4) \in Nat
    OBVIOUS
  <2> QED BY <2>1
<1>1. PICK a : a = s1 \o s2
  OBVIOUS
<1>2. PICK b : b = a \o s3
  OBVIOUS
<1>3. PICK d : d = b \o s4
  OBVIOUS
<1>4. c = d \o s5
  BY <1>1, <1>2, <1>3 DEF Row
<1>5. a \in Seq(S) /\ Joins(a, s1, s2)
  BY <1>1, ConcatJoins
<1>6. b \in Seq(S) /\ Joins(b, a, s3)
  BY <1>2, <1>5, ConcatJoins
<1>7. d \in Seq(S) /\ Joins(d, b, s4)
  BY <1>3, <1>6, ConcatJoins
<1>8. c \in Seq(S) /\ Joins(c, d, s5)
  BY <1>4, <1>7, ConcatJoins
<1>9. Len(a) = n2 /\ Len(b) = n3 /\ Len(d) = n4
  BY <1>0, <1>5, <1>6, <1>7 DEF Joins
<1>10. /\ Len(s1) \in Nat /\ Len(s2) \in Nat /\ Len(s3) \in Nat /\ Len(s4) \in Nat
       /\ n1 <= n2 /\ n2 <= n3 /\ n3 <= n4
  BY <1>0
<1>11. \A k \in 1 .. n4 : c[k] = d[k]
  BY <1>8, <1>9 DEF Joins
<1>12. \A k \in 1 .. n3 : k \in 1 .. n4 /\ d[k] = b[k]
  BY <1>7, <1>9, <1>10 DEF Joins
<1>13. \A k \in 1 .. n2 : k \in 1 .. n3 /\ b[k] = a[k]
  BY <1>6, <1>9, <1>10 DEF Joins
<1>14. \A k \in 1 .. n1 : k \in 1 .. n2 /\ a[k] = s1[k]
  BY <1>0, <1>5, <1>9, <1>10 DEF Joins
<1>15. \A k \in 1 .. Len(s2) : n1 + k \in 1 .. n2 /\ a[n1 + k] = s2[k]
  BY <1>0, <1>5, <1>9, <1>10 DEF Joins
<1>16. \A k \in 1 .. Len(s3) : n2 + k \in 1 .. n3 /\ b[n2 + k] = s3[k]
  BY <1>0, <1>6, <1>9, <1>10 DEF Joins
<1>17. \A k \in 1 .. Len(s4) : n3 + k \in 1 .. n4 /\ d[n3 + k] = s4[k]
  BY <1>0, <1>7, <1>9, <1>10 DEF Joins
<1>18. \A k \in 1 .. Len(s5) : c[n4 + k] = s5[k]
  BY <1>0, <1>8, <1>9 DEF Joins
<1>19. Len(c) = n4 + Len(s5)
  BY <1>8, <1>9 DEF Joins
<1>20. \A k \in 1 .. Len(s1) : c[0 + k] = s1[k]
  <2>1. \A k \in 1 .. Len(s1) : c[k] = s1[k]
    BY <1>0, <1>11, <1>12, <1>13, <1>14, Zenon
  <2>2. \A k \in 1 .. Len(s1) : 0 + k = k
    OBVIOUS
  <2> QED BY <2>1, <2>2
<1>21. \A k \in 1 .. Len(s2) : c[n1 + k] = s2[k]
  BY <1>11, <1>12, <1>13, <1>15, Zenon
<1>22. \A k \in 1 .. Len(s3) : c[n2 + k] = s3[k]
  BY <1>11, <1>12, <1>16, Zenon
<1>23. \A k \in 1 .. Len(s4) : c[n3 + k] = s4[k]
  BY <1>11, <1>17, Zenon
<1> QED
  BY <1>0, <1>8, <1>18, <1>19, <1>20, <1>21, <1>22, <1>23 DEF At, IsCode

LEMMA EndedStays ==
  ASSUME NEW code, IsCode(code), NEW taken, NEW l \in 0 .. Len(code), History(code, taken)[l].ended
  PROVE  History(code, taken)[Len(code)] = History(code, taken)[l]
<1>1. PICK n \in Nat : n = Len(code)
  BY CodeLength
<1>2. PICK h : h = History(code, taken)
  OBVIOUS
<1>3. \A k \in 1 .. n : h[k] = Execute(h[k - 1], code[k], taken)
  BY <1>1, <1>2, HistorySteps
<1>4. IsState(h[l]) /\ h[l].ended
  BY <1>1, <1>2, HistoryStates
<1> DEFINE T == {k \in Nat : h[k] = h[l]}
<1>5. l \in T /\ l \in Nat /\ n \in l .. n
  BY <1>1
<1>6. ASSUME NEW k \in l .. n - 1, k \in T PROVE k + 1 \in T
  <2>1. k + 1 \in 1 .. n /\ k + 1 - 1 = k /\ k + 1 \in Nat
    BY <1>1
  <2>2. h[k + 1] = Execute(h[l], code[k + 1], taken)
    BY <1>3, <1>6, <2>1
  <2>3. h[k + 1] = h[l]
    BY <1>4, <2>2, ExecuteIdle
  <2> QED BY <2>1, <2>3
<1>7. \A k \in l .. n : k \in T
  <2> HIDE DEF T
  <2> QED BY <1>5, <1>6, Interval
<1> QED
  BY <1>1, <1>2, <1>5, <1>7

LEMMA EndedKeeps ==
  ASSUME NEW s, NEW t, IsState(s), IsState(t), Keeps(s, t), NEW insn, NEW taken, Ends(insn, taken),
         NEW u, u = Execute(s, insn, taken), NEW v, v = Execute(t, insn, taken)
  PROVE  Keeps(u, v) /\ u.ended /\ v.ended
<1>1. PICK x, e : s = [values |-> x, ended |-> e]
  BY DEF IsState
<1>2. PICK y, o : t = [values |-> y, ended |-> o]
  BY DEF IsState
<1>3. u = [s EXCEPT !.ended = TRUE] /\ v = [t EXCEPT !.ended = TRUE]
  BY DEF Execute
<1>4. u = [values |-> x, ended |-> TRUE] /\ v = [values |-> y, ended |-> TRUE]
  BY <1>1, <1>2, <1>3, EndedRecord, Zenon
<1>5. u.values = s.values /\ v.values = t.values /\ u.ended = TRUE /\ v.ended = TRUE
  BY <1>1, <1>2, <1>4
<1> QED
  BY <1>5 DEF Keeps

\* Stretches of two programs: the same instructions, declarations, moves.
Same(code, c, a, b, d) == \A k \in a + 1 .. b : c[k + d] = code[k]
Declares(c, a, m) == \A j \in 1 .. m : c[a + j].op = "dcl_output"
Moving(c, a, m) == \A j \in 1 .. m : IsMove(c[a + j])

LEMMA SameStretch ==
  ASSUME NEW code, IsCode(code), NEW c, IsCode(c), NEW taken,
         NEW a \in Nat, NEW b \in Nat, NEW d \in Nat, a <= b, b <= Len(code), b + d <= Len(c),
         Same(code, c, a, b, d),
         History(c, taken)[a + d] = History(code, taken)[a]
  PROVE  History(c, taken)[b + d] = History(code, taken)[b]
<1>1. PICK h, g : h = History(code, taken) /\ g = History(c, taken)
  OBVIOUS
<1>2. /\ \A k \in 1 .. Len(code) : h[k] = Execute(h[k - 1], code[k], taken)
      /\ \A k \in 1 .. Len(c) : g[k] = Execute(g[k - 1], c[k], taken)
  BY <1>1, HistorySteps
<1> DEFINE T == {k \in Nat : g[k + d] = h[k]}
<1>3. a \in T /\ b \in a .. b
  BY <1>1
<1>4. ASSUME NEW k \in a .. b - 1, k \in T PROVE k + 1 \in T
  <2>1. /\ k + 1 \in 1 .. Len(code) /\ k + 1 + d \in 1 .. Len(c) /\ k + 1 \in a + 1 .. b
        /\ k + 1 - 1 = k /\ k + 1 \in Nat /\ k + 1 + d - 1 = k + d
    BY CodeLength
  <2>2. h[k + 1] = Execute(h[k], code[k + 1], taken)
    BY <1>2, <2>1
  <2>3. g[k + 1 + d] = Execute(g[k + d], c[k + 1 + d], taken)
    BY <1>2, <2>1
  <2>4. g[k + 1 + d] = h[k + 1]
    BY <1>4, <2>1, <2>2, <2>3 DEF Same
  <2> QED BY <2>1, <2>4
<1>5. \A k \in a .. b : k \in T
  <2> HIDE DEF T
  <2> QED BY <1>3, <1>4, Interval
<1> QED
  BY <1>1, <1>3, <1>5

LEMMA IdleStretch ==
  ASSUME NEW c, IsCode(c), NEW taken, NEW a \in Nat, NEW m \in Nat, a + m <= Len(c),
         Declares(c, a, m)
  PROVE  History(c, taken)[a + m] = History(c, taken)[a]
<1>1. PICK g : g = History(c, taken)
  OBVIOUS
<1>2. /\ \A k \in 1 .. Len(c) : g[k] = Execute(g[k - 1], c[k], taken)
      /\ \A k \in 0 .. Len(c) : IsState(g[k])
  BY <1>1, HistorySteps, HistoryStates
<1> DEFINE T == {j \in Nat : g[a + j] = g[a]}
<1>3. 0 \in T /\ 0 \in Nat /\ m \in 0 .. m
  OBVIOUS
<1>4. ASSUME NEW j \in 0 .. m - 1, j \in T PROVE j + 1 \in T
  <2>1. /\ a + (j + 1) \in 1 .. Len(c) /\ a + (j + 1) - 1 = a + j /\ j + 1 \in 1 .. m /\ j + 1 \in Nat
        /\ a \in 0 .. Len(c)
    BY CodeLength
  <2>2. g[a + (j + 1)] = Execute(g[a + j], c[a + (j + 1)], taken)
    BY <1>2, <2>1
  <2>3. g[a + j] = g[a] /\ IsState(g[a]) /\ c[a + (j + 1)].op = "dcl_output"
    BY <1>2, <1>4, <2>1 DEF Declares
  <2>4. g[a + (j + 1)] = g[a]
    BY <2>2, <2>3, ExecuteIdle
  <2> QED BY <2>1, <2>4
<1>5. \A j \in 0 .. m : j \in T
  <2> HIDE DEF T
  <2> QED BY <1>3, <1>4, Interval
<1> QED
  BY <1>1, <1>3, <1>5

LEMMA MoveStretch ==
  ASSUME NEW c, IsCode(c), NEW taken, NEW a \in Nat, NEW m \in Nat, a + m <= Len(c),
         Moving(c, a, m)
  PROVE  Keeps(History(c, taken)[a], History(c, taken)[a + m])
<1>1. PICK g : g = History(c, taken)
  OBVIOUS
<1>2. /\ \A k \in 1 .. Len(c) : g[k] = Execute(g[k - 1], c[k], taken)
      /\ \A k \in 0 .. Len(c) : IsState(g[k])
  BY <1>1, HistorySteps, HistoryStates
<1> DEFINE T == {j \in Nat : Keeps(g[a], g[a + j])}
<1>3. 0 \in T /\ 0 \in Nat /\ m \in 0 .. m
  BY DEF Keeps
<1>4. ASSUME NEW j \in 0 .. m - 1, j \in T PROVE j + 1 \in T
  <2>1. /\ a + (j + 1) \in 1 .. Len(c) /\ a + (j + 1) - 1 = a + j /\ j + 1 \in 1 .. m /\ j + 1 \in Nat
        /\ a + j \in 0 .. Len(c)
    BY CodeLength
  <2>2. g[a + (j + 1)] = Execute(g[a + j], c[a + (j + 1)], taken)
    BY <1>2, <2>1
  <2>3. IsState(g[a + j]) /\ IsMove(c[a + (j + 1)])
    BY <1>2, <2>1 DEF Moving
  <2>4. Keeps(g[a + j], g[a + (j + 1)])
    BY <2>2, <2>3, ExecuteMove
  <2>5. Keeps(g[a], g[a + (j + 1)])
    BY <1>4, <2>4 DEF Keeps
  <2> QED BY <2>1, <2>5
<1>5. \A j \in 0 .. m : j \in T
  <2> HIDE DEF T
  <2> QED BY <1>3, <1>4, Interval
<1> QED
  BY <1>1, <1>3, <1>5

Part(s, code, a, b) == Len(s) = b - a /\ \A k \in a + 1 .. b : s[k - a] = code[k]

LEMMA SubSeqIsPart ==
  ASSUME NEW S, NEW code \in Seq(S), NEW a \in Nat, NEW b \in Nat, a <= b, b <= Len(code),
         NEW s, s = SubSeq(code, a + 1, b)
  PROVE  s \in Seq(S) /\ Part(s, code, a, b)
BY DEF Part

LEMMA PartAt ==
  ASSUME NEW a \in Nat, NEW b \in Nat, NEW d \in Nat, a <= b,
         NEW s, NEW code, NEW c, Part(s, code, a, b), At(c, s, a + d)
  PROVE  Same(code, c, a, b, d)
<1>1. SUFFICES ASSUME NEW k \in a + 1 .. b PROVE c[k + d] = code[k]
  BY DEF Same
<1>2. k - a \in 1 .. Len(s) /\ a + d + (k - a) = k + d
  BY DEF Part
<1>3. c[a + d + (k - a)] = s[k - a]
  BY <1>2 DEF At
<1> QED
  BY <1>2, <1>3 DEF Part

\* The code with declarations after position a and moves after position b.
LEMMA SpliceFacts ==
  ASSUME NEW S, NEW code \in Seq(S), NEW a \in Nat, NEW b \in Nat, a <= b, b <= Len(code), NEW m \in Nat,
         NEW dcls \in Seq(S), NEW moves \in Seq(S), Len(dcls) = m, Len(moves) = m,
         NEW c, c = Row(SubSeq(code, 1, a), dcls, SubSeq(code, a + 1, b), moves, SubSeq(code, b + 1, Len(code)))
  PROVE  /\ IsCode(c) /\ Len(c) = Len(code) + 2 * m
         /\ Same(code, c, 0, a, 0) /\ At(c, dcls, a) /\ Same(code, c, a, b, m) /\ At(c, moves, b + m)
         /\ Same(code, c, b, Len(code), 2 * m)
<1>1. PICK n \in Nat : n = Len(code)
  OBVIOUS
<1>2. PICK s1, s3, s5 : s1 = SubSeq(code, 0 + 1, a) /\ s3 = SubSeq(code, a + 1, b) /\ s5 = SubSeq(code, b + 1, n)
  OBVIOUS
<1>3. /\ s1 \in Seq(S) /\ Part(s1, code, 0, a)
      /\ s3 \in Seq(S) /\ Part(s3, code, a, b)
      /\ s5 \in Seq(S) /\ Part(s5, code, b, n)
  <2>1. 0 \in Nat /\ 0 <= a /\ a <= Len(code) /\ n <= Len(code) /\ b <= n
    BY <1>1
  <2> QED BY <1>2, <2>1, SubSeqIsPart
<1>4. Len(s1) = a /\ Len(s3) = b - a /\ Len(s5) = n - b
  BY <1>3 DEF Part
<1>5. PICK n2, n3, n4 : n2 = a + m /\ n3 = a + m + (b - a) /\ n4 = a + m + (b - a) + m
  OBVIOUS
<1>6. c = Row(s1, dcls, s3, moves, s5)
  BY <1>1, <1>2
<1>7. /\ IsCode(c) /\ Len(c) = n4 + (n - b)
      /\ At(c, s1, 0) /\ At(c, dcls, a) /\ At(c, s3, n2) /\ At(c, moves, n3) /\ At(c, s5, n4)
  <2>1. /\ IsCode(c) /\ Len(c) = Len(s1) + Len(dcls) + Len(s3) + Len(moves) + Len(s5)
        /\ At(c, s1, 0) /\ At(c, dcls, Len(s1)) /\ At(c, s3, Len(s1) + Len(dcls))
        /\ At(c, moves, Len(s1) + Len(dcls) + Len(s3))
        /\ At(c, s5, Len(s1) + Len(dcls) + Len(s3) + Len(moves))
    BY <1>3, <1>6, FiveParts
  <2> QED BY <1>4, <1>5, <2>1
<1>8. Len(c) = n + 2 * m /\ n2 = a + m /\ n3 = b + m /\ n4 = b + 2 * m
  BY <1>1, <1>5, <1>7
<1>9. Same(code, c, 0, a, 0)
  <2>1. 0 \in Nat /\ 0 <= a /\ 0 + 0 = 0
    OBVIOUS
  <2> QED BY <1>3, <1>7, <2>1, PartAt
<1>10. Same(code, c, a, b, m)
  BY <1>3, <1>7, <1>8, PartAt
<1>11. Same(code, c, b, n, 2 * m)
  <2>1. 2 * m \in Nat /\ b <= n
    BY <1>1
  <2> QED BY <1>3, <1>7, <1>8, <2>1, PartAt
<1> QED
  BY <1>1, <1>7, <1>8, <1>9, <1>10, <1>11

\* Up to the moves.
LEMMA BeforeMoves ==
  ASSUME NEW code, IsCode(code), NEW c, IsCode(c), NEW taken, NEW a \in Nat, NEW b \in Nat, NEW m \in Nat,
         a <= b, b + 1 <= Len(code), Len(c) = Len(code) + 2 * m,
         Same(code, c, 0, a, 0),
         Declares(c, a, m),
         Same(code, c, a, b, m)
  PROVE  History(c, taken)[b + m] = History(code, taken)[b]
<1>1. PICK h, g : h = History(code, taken) /\ g = History(c, taken)
  OBVIOUS
<1>2. h[0] = Start /\ g[0] = Start
  BY <1>1, HistorySteps
\* Up to the declarations the two programs are the same,
<1>3. g[a + 0] = h[a]
  <2>1. 0 \in Nat /\ 0 <= a /\ a <= Len(code) /\ a + 0 <= Len(c)
    BY CodeLength
  <2>2. History(c, taken)[0 + 0] = History(code, taken)[0]
    BY <1>1, <1>2
  <2>3. History(c, taken)[a + 0] = History(code, taken)[a]
    BY <2>1, <2>2, SameStretch
  <2> QED BY <1>1, <2>3
\* the declarations change nothing,
<1>4. g[a + m] = h[a]
  <2>1. a + m <= Len(c) /\ a + 0 = a
    BY CodeLength
  <2>2. History(c, taken)[a + m] = History(c, taken)[a]
    BY <2>1, IdleStretch
  <2> QED BY <1>1, <1>3, <2>1, <2>2
\* the instructions up to the last return run as before,
<1>5. g[b + m] = h[b]
  <2>1. b <= Len(code) /\ b + m <= Len(c)
    BY CodeLength
  <2>2. History(c, taken)[a + m] = History(code, taken)[a]
    BY <1>1, <1>4
  <2>3. History(c, taken)[b + m] = History(code, taken)[b]
    BY <2>1, <2>2, SameStretch
  <2> QED BY <1>1, <2>3
<1> QED
  BY <1>1, <1>5

LEMMA Spliced ==
  ASSUME NEW code, IsCode(code), NEW c, IsCode(c), NEW taken, NEW a \in Nat, NEW b \in Nat, NEW m \in Nat,
         a <= b, b + 1 <= Len(code), Len(c) = Len(code) + 2 * m, code[b + 1].op = "ret",
         Same(code, c, 0, a, 0),
         Declares(c, a, m),
         Same(code, c, a, b, m),
         Moving(c, b + m, m),
         c[b + 1 + 2 * m] = code[b + 1]
  PROVE  Keeps(History(code, taken)[Len(code)], History(c, taken)[Len(c)])
<1>1. PICK h, g : h = History(code, taken) /\ g = History(c, taken)
  OBVIOUS
<1>5. g[b + m] = h[b]
  BY <1>1, BeforeMoves
\* the moves keep the first target,
<1>6. Keeps(h[b], g[b + m + m])
  <2>1. b + m \in Nat /\ b + m + m <= Len(c)
    BY CodeLength
  <2>2. Keeps(History(c, taken)[b + m], History(c, taken)[b + m + m])
    BY <2>1, MoveStretch
  <2> QED BY <1>1, <1>5, <2>2
\* and at the return both end.
<1>7. PICK z \in Nat, y \in Nat : z = b + 1 + 2 * m /\ y = b + 1
  OBVIOUS
<1>8. /\ z \in 1 .. Len(c) /\ z \in 0 .. Len(c) /\ z - 1 = b + m + m /\ z - 1 \in 0 .. Len(c)
      /\ y \in 1 .. Len(code) /\ y \in 0 .. Len(code) /\ y - 1 = b /\ y - 1 \in 0 .. Len(code)
  BY <1>7, CodeLength
<1>9. Keeps(h[y], g[z]) /\ h[y].ended /\ g[z].ended
  <2>1. IsState(h[y - 1]) /\ IsState(g[z - 1]) /\ Keeps(h[y - 1], g[z - 1])
    BY <1>1, <1>6, <1>8, HistoryStates
  <2>2. h[y] = Execute(h[y - 1], code[y], taken)
    BY <1>1, <1>8, HistorySteps
  <2>3. g[z] = Execute(g[z - 1], c[z], taken)
    BY <1>1, <1>8, HistorySteps
  <2>4. Ends(code[y], taken) /\ c[z] = code[y]
    BY <1>7 DEF Ends
  <2> QED BY <2>1, <2>2, <2>3, <2>4, EndedKeeps
<1>10. /\ History(code, taken)[Len(code)] = History(code, taken)[y]
       /\ History(c, taken)[Len(c)] = History(c, taken)[z]
  <2>1. History(code, taken)[y].ended /\ History(c, taken)[z].ended
    BY <1>1, <1>9
  <2> QED BY <1>8, <2>1, EndedStays
<1> QED
  BY <1>1, <1>9, <1>10

LEMMA MovesSeq ==
  ASSUME NEW program, NEW type
  PROVE  \E T : Moves(program, type) \in Seq(T)
<1> DEFINE M3 == << MovFromTemp(1, SampleDest(program, 0)), MovFromTemp(2, SampleDest(program, 1)),
                    MovFromImm(3, type) >>
           M2 == << MovFromTemp(1, SampleDest(program, 0)), MovFromImm(2, type) >>
<1>1. Moves(program, type) = M3 \/ Moves(program, type) = M2
  BY DEF Moves
<1>2. M3 \in Seq({M3[1], M3[2], M3[3]}) /\ M2 \in Seq({M2[1], M2[2]})
  OBVIOUS
<1> QED
  BY <1>1, <1>2

LEMMA LowestIn ==
  ASSUME NEW T \in SUBSET Nat, T # {}
  PROVE  Lowest(T) \in T /\ \A n \in T : Lowest(T) <= n
BY LeastNatural DEF Lowest

LEMMA HighestIn ==
  ASSUME NEW n \in Nat, NEW T \in SUBSET (1 .. n), T # {}
  PROVE  Highest(T) \in T /\ \A k \in T : Highest(T) >= k
<1> DEFINE U == {n - y : y \in T}
<1>1. \A y \in T : n - y \in Nat
  OBVIOUS
<1>2. U \in SUBSET Nat /\ U # {}
  BY <1>1
<1>3. PICK x \in U : \A y \in U : x <= y
  <2> HIDE DEF U
  <2> QED BY <1>2, LeastNatural
<1>4. PICK m \in T : x = n - m
  BY <1>3
<1>5. \A y \in T : x <= n - y
  BY <1>3
<1>6. \A y \in T : m >= y
  BY <1>4, <1>5
<1> QED
  BY <1>4, <1>6 DEF Highest

\* A patched program: declarations after position a, moves after position b,
\* before the last return.
Shape(program, type, code, c, a, b, m) ==
  /\ code = program.code /\ c = PatchForGBufferOutput(program, type).code
  /\ IsCode(code) /\ IsCode(c) /\ Len(c) = Len(code) + 2 * m
  /\ a <= b /\ b + 1 <= Len(code) /\ b + 1 \in DOMAIN code
  /\ Same(code, c, 0, a, 0) /\ Declares(c, a, m) /\ Same(code, c, a, b, m)
  /\ Moving(c, b + m, m) /\ At(c, Moves(program, type), b + m) /\ Len(Moves(program, type)) = m
  /\ code[b + 1].op = "ret" /\ c[b + 1 + 2 * m] = code[b + 1]

LEMMA PatchShape ==
  ASSUME NEW program, IsProgram(program), Patchable(program), NEW type
  PROVE  \E code, c : \E a \in Nat, b \in Nat, m \in 2 .. 3 : Shape(program, type, code, c, a, b, m)
<1>1. PICK code : code = program.code
  OBVIOUS
<1>2. PICK patched : patched = PatchForGBufferOutput(program, type)
  OBVIOUS
<1>3. PICK moves : moves = Moves(program, type)
  OBVIOUS
<1>4. PICK m \in 2 .. 3 : /\ Len(moves) = m /\ DOMAIN moves = 1 .. m
                          /\ \A j \in 1 .. m : IsMove(moves[j])
  BY <1>3, MovesMove
<1>5. PICK dcls : dcls = [k \in 1 .. m |-> DclOutput(k)]
  OBVIOUS
<1>6. PICK S : code \in Seq(S) /\ dcls \in Seq(S) /\ moves \in Seq(S)
  <2> DEFINE U == ToSet(code) \cup ToSet(dcls) \cup ToSet(moves)
  <2>1. code \in Seq(U)
    <3>1. code \in Seq(Instructions)
      BY <1>1 DEF IsProgram
    <3>2. \A k \in 1 .. Len(code) : code[k] \in ToSet(code)
      BY <3>1 DEF ToSet
    <3> QED BY <3>1, <3>2
  <2>2. dcls \in Seq(U)
    <3>1. dcls \in Seq({DclOutput(k) : k \in 1 .. m})
      BY <1>5
    <3>2. \A k \in 1 .. m : dcls[k] \in ToSet(dcls)
      BY <1>5 DEF ToSet
    <3> QED BY <1>5, <3>1, <3>2
  <2>3. moves \in Seq(U)
    <3>1. \E T : moves \in Seq(T)
      BY <1>3, MovesSeq
    <3>2. \A k \in 1 .. m : moves[k] \in ToSet(moves)
      BY <1>4 DEF ToSet
    <3> QED BY <1>4, <3>1, <3>2
  <2> HIDE DEF U
  <2> QED BY <2>1, <2>2, <2>3
<1>7. PICK n \in Nat : n = Len(code) /\ DOMAIN code = 1 .. n
  BY <1>6
<1>8. PICK first \in 1 .. n : first = Lowest(Positions(program, IsPlain)) /\ \A k \in 1 .. n : IsPlain(code[k]) => first <= k
  <2> DEFINE T == {k \in 1 .. n : IsPlain(code[k])}
  <2>1. Positions(program, IsPlain) = T
    BY <1>1, <1>7 DEF Positions
  <2>2. T # {} /\ T \in SUBSET Nat
    BY <2>1 DEF Patchable
  <2>3. Lowest(T) \in T /\ \A k \in T : Lowest(T) <= k
    <3> HIDE DEF T
    <3> QED BY <2>2, LowestIn
  <2> QED BY <2>1, <2>3
<1>9. PICK last \in first .. n : last = LastReturn(program) /\ code[last].op = "ret"
  <2> DEFINE T == {k \in 1 .. n : code[k].op = "ret"}
  <2>1. Positions(program, LAMBDA insn : insn.op = "ret") = T
    BY <1>1, <1>7 DEF Positions
  <2>2. T # {} /\ T \in SUBSET (1 .. n)
    BY <2>1 DEF Patchable
  <2>3. Highest(T) \in T
    <3> HIDE DEF T
    <3> QED BY <1>7, <2>2, HighestIn
  <2>4. first <= Highest(T)
    BY <1>8, <2>3 DEF IsPlain
  <2>5. LastReturn(program) = Highest(T)
    BY <1>1, <1>7 DEF LastReturn, Positions
  <2> HIDE DEF T
  <2>6. Highest(T) \in 1 .. n /\ code[Highest(T)].op = "ret"
    BY <2>3 DEF T
  <2> QED BY <2>4, <2>5, <2>6
<1>10. PICK c : c = PatchedCode(program, type)
  OBVIOUS
<1>11. patched.code = c
  BY <1>2, <1>10 DEF PatchForGBufferOutput, IsProgram
<1>12. PICK a \in Nat, b \in Nat : a = first - 1 /\ b = last - 1
  OBVIOUS
<1>13. c = Row(SubSeq(code, 1, a), dcls, SubSeq(code, a + 1, b), moves, SubSeq(code, b + 1, Len(code)))
  <2>1. first = a + 1 /\ last = b + 1
    BY <1>12
  <2> QED BY <1>1, <1>3, <1>4, <1>5, <1>7, <1>8, <1>9, <1>10, <1>12, <2>1, Zenon DEF PatchedCode, Row
<1>14. a <= b /\ b <= Len(code) /\ b + 1 <= Len(code) /\ b + 1 = last /\ m \in Nat /\ Len(dcls) = m
  BY <1>5, <1>7, <1>12
<1>15. /\ IsCode(c) /\ Len(c) = Len(code) + 2 * m
       /\ Same(code, c, 0, a, 0) /\ At(c, dcls, a) /\ Same(code, c, a, b, m) /\ At(c, moves, b + m)
       /\ Same(code, c, b, Len(code), 2 * m)
  BY <1>4, <1>6, <1>13, <1>14, SpliceFacts
<1>16. Declares(c, a, m)
  <2>1. \A j \in 1 .. m : dcls[j].op = "dcl_output"
    BY <1>5 DEF DclOutput
  <2> QED BY <1>14, <1>15, <2>1 DEF At, Declares
<1>17. Moving(c, b + m, m)
  BY <1>4, <1>15 DEF At, Moving
<1>18. c[b + 1 + 2 * m] = code[b + 1]
  BY <1>7, <1>14, <1>15 DEF Same
<1>19. IsCode(code) /\ code[b + 1].op = "ret"
  BY <1>6, <1>9, <1>14 DEF IsCode
<1>20. c = PatchForGBufferOutput(program, type).code
  BY <1>2, <1>11
<1>21. b + 1 \in DOMAIN code
  BY <1>7, <1>14
<1> QED
  BY <1>1, <1>3, <1>4, <1>14, <1>15, <1>16, <1>17, <1>18, <1>19, <1>20, <1>21 DEF Shape

LEMMA PatchKeepsImage ==
  ASSUME NEW program, IsProgram(program), Patchable(program), NEW type, NEW taken
  PROVE  Written(PatchForGBufferOutput(program, type), taken, 0) = Written(program, taken, 0)
<1>1. PICK code, c : \E a \in Nat, b \in Nat, m \in 2 .. 3 : Shape(program, type, code, c, a, b, m)
  BY PatchShape
<1>2. PICK a \in Nat, b \in Nat, m \in 2 .. 3 : Shape(program, type, code, c, a, b, m)
  BY <1>1
<1>3. Keeps(History(code, taken)[Len(code)], History(c, taken)[Len(c)])
  <2>1. m \in Nat
    OBVIOUS
  <2> HIDE DEF Same
  <2> QED BY <1>2, <2>1, Spliced DEF Shape
<1> QED
  BY <1>2, <1>3 DEF Shape, Keeps, Written, Run

-----------------------------------------------------------------------------
(* The targets of the G-buffer.                                            *)

TargetsThere == outputs = "gbuffer" => \A t \in Names : targets[t] # "absent"
Tables == DOMAIN targets = Names /\ DOMAIN published = Names
FramesInv == Tables /\ TargetsThere /\ GBufferIsThisFrames

LEMMA FramesInit == GBufferInit => FramesInv
BY DEF GBufferInit, FramesInv, Tables, TargetsThere, GBufferIsThisFrames

LEMMA FramesStep == FramesInv /\ [GBufferNext]_gbufferVars => FramesInv'
<1> SUFFICES ASSUME FramesInv, [GBufferNext]_gbufferVars PROVE FramesInv'
  OBVIOUS
<1> USE DEF FramesInv, Tables, TargetsThere, GBufferIsThisFrames
<1>1. ASSUME UNCHANGED <<surface, enabled, outputs, published, disturbed>> PROVE FramesInv'
  BY <1>1 DEF surface
<1>2. CASE \E p \in Pointers, program \in PixelNames, accepted \in BOOLEAN : CreatePixelShader(p, program, accepted)
  BY <1>1, <1>2 DEF CreatePixelShader
<1>3. CASE \E p \in VertexPointers, program \in VertexNames : CreateVertexShader(p, program)
  BY <1>1, <1>3 DEF CreateVertexShader
<1>4. CASE \E p \in Pointers \cup VertexPointers : ReleaseShader(p)
  BY <1>1, <1>4 DEF ReleaseShader
<1>5. CASE \E kind \in Kinds, p \in Pointers \cup VertexPointers \cup {Nothing} : SetShader(kind, p)
  BY <1>1, <1>5 DEF SetShader
<1>6. ASSUME NEW width \in Sizes \cup {0}, ResizeBuffers(width) PROVE FramesInv'
  <2>1. /\ outputs' # "gbuffer" \/ (outputs' = outputs /\ targets' = targets)
        /\ DOMAIN targets' = Names /\ DOMAIN published' = Names /\ disturbed' = TRUE
    <3>1. CASE width = made
      BY <1>6, <3>1 DEF ResizeBuffers, OnResize
    <3>2. CASE width # made
      BY <1>6, <3>2 DEF ResizeBuffers, OnResize, CreateAllRTs
    <3> QED BY <3>1, <3>2
  <2> QED BY <2>1
<1>7. CASE \E views \in 1 .. 2, depth, geometry \in BOOLEAN : SetTargets(views, depth, geometry)
  BY <1>7 DEF SetTargets, surface, InjectGBufferRTs
<1>8. CASE OMSetRenderTargetsAndUnorderedAccessViews \/ ClearShaders
  BY <1>8 DEF OMSetRenderTargetsAndUnorderedAccessViews, ClearShaders, surface
<1>9. CASE Draw
  BY <1>9 DEF Draw, Exists
<1>10. CASE PresentGBuffer
  <2>1. PICK made1 : made1 = IF initialized THEN targets ELSE Initialize(targets)
    OBVIOUS
  <2>2. PICK ready \in BOOLEAN : ready = (initialized \/ Exists(made1["albedo"]))
    OBVIOUS
  <2>3. /\ targets' = (IF ready THEN OnPresent(made1) ELSE made1) /\ initialized' = ready
        /\ published' = Published(targets') /\ enabled' = enabled /\ outputs' = outputs
    BY <1>10, <2>1, <2>2 DEF PresentGBuffer
  <2>4. DOMAIN made1 = Names /\ \A t \in Names : targets[t] # "absent" => made1[t] # "absent"
    BY <2>1 DEF Initialize, CreateRT
  <2>5. DOMAIN targets' = Names /\ DOMAIN published' = Names
    BY <2>3, <2>4 DEF OnPresent, Published
  <2>6. \A t \in Names : targets[t] # "absent" => targets'[t] # "absent"
    BY <2>3, <2>4 DEF OnPresent, Aged
  <2>7. ASSUME ready, enabled PROVE \A t \in Names : targets'[t] \in {"absent", "clear"}
    BY <2>3, <2>4, <2>7 DEF OnPresent, Exists, Aged
  <2>8. \A t \in Names : published'[t] = IF Exists(targets'[t]) THEN "live" ELSE "none"
    BY <2>3 DEF Published
  <2> QED BY <2>3, <2>5, <2>6, <2>7, <2>8
<1>11. CASE \E on \in BOOLEAN : SetEnabled(on)
  BY <1>11 DEF SetEnabled, surface
<1>12. CASE UNCHANGED gbufferVars
  BY <1>1, <1>12 DEF gbufferVars
<1> QED
  BY <1>2, <1>3, <1>4, <1>5, <1>6, <1>7, <1>8, <1>9, <1>10, <1>11, <1>12 DEF GBufferNext, ResizeBuffers1

\* While the pipeline is in use, every target that is offered is one that is
\* drawn to and holds this frame or nothing, whichever targets could be made,
\* whatever the sizes (WrappedSwapChain.cpp:453).
THEOREM FramesOwn == GBufferSpec => []GBufferIsThisFrames
<1>1. FramesInv => GBufferIsThisFrames
  BY DEF FramesInv
<1> QED
  BY <1>1, FramesInit, FramesStep, PTL DEF GBufferSpec

LossInv ==
  failing = {} => lost \in Nat /\ lost <= Cardinality(Names) /\ (~initialized => lost = 0)

LEMMA NamesCount ==
  /\ Cardinality(Names) \in Nat
  /\ \A S \in SUBSET Names : Cardinality(S) \in Nat /\ Cardinality(S) <= Cardinality(Names)
<1>1. IsFiniteSet(Names)
  <2>1. IsFiniteSet({}) BY FS_EmptySet
  <2>2. IsFiniteSet({} \cup {"albedo"}) BY <2>1, FS_AddElement
  <2>3. IsFiniteSet({} \cup {"albedo"} \cup {"normals"}) BY <2>2, FS_AddElement
  <2>4. IsFiniteSet({} \cup {"albedo"} \cup {"normals"} \cup {"material"}) BY <2>3, FS_AddElement
  <2>5. Names = {} \cup {"albedo"} \cup {"normals"} \cup {"material"} BY DEF Names
  <2> QED BY <2>4, <2>5
<1> QED
  BY <1>1, FS_CardinalityType, FS_Subset

LEMMA LossInit == GBufferInit => LossInv
BY NamesCount DEF GBufferInit, LossInv

LEMMA LossStep == LossInv /\ [GBufferNext]_gbufferVars => LossInv'
<1> SUFFICES ASSUME LossInv, [GBufferNext]_gbufferVars PROVE LossInv'
  OBVIOUS
<1> USE DEF LossInv
<1>1. ASSUME UNCHANGED <<initialized, lost, failing>> PROVE LossInv'
  BY <1>1
<1>2. ASSUME NEW width \in Sizes \cup {0}, ResizeBuffers(width) PROVE LossInv'
  <2>1. UNCHANGED <<initialized, failing>>
    BY <1>2 DEF ResizeBuffers
  <2>2. lost' = lost \/ lost' = LET more == lost + 0 IN IF more > MaxLost THEN MaxLost ELSE more
    <3>1. {t \in Names : DestroyAllRTs[t] # "absent" /\ CreateRT(t) = "raw"} = {}
      BY DEF DestroyAllRTs
    <3>2. Cardinality({}) = 0
      BY FS_EmptySet
    <3> QED BY <1>2, <3>1, <3>2 DEF ResizeBuffers, OnResize, CreateAllRTs
  <2>3. failing = {} => lost' \in Nat /\ lost' <= lost
    BY <2>2, GBufferAssumption DEF GBufferAssumption
  <2> QED BY <2>1, <2>3, NamesCount
<1>3. CASE PresentGBuffer
  <2>1. failing' = failing
    BY <1>3 DEF PresentGBuffer
  <2>2. CASE failing # {}
    BY <2>1, <2>2
  <2>3. CASE failing = {} /\ initialized
    <3>1. initialized' /\ lost' = IF lost > MaxLost THEN MaxLost ELSE lost
      BY <1>3, <2>3 DEF PresentGBuffer
    <3> QED BY <2>1, <2>3, <3>1, NamesCount, GBufferAssumption DEF GBufferAssumption
  <2>4. CASE failing = {} /\ ~initialized
    <3>1. PICK more : more = Cardinality({t \in Names : Exists(targets[t]) /\ CreateRT(t) = "raw"})
      OBVIOUS
    <3>2. more \in Nat /\ more <= Cardinality(Names)
      BY <3>1, NamesCount
    <3>3. initialized'
      BY <1>3, <2>4 DEF PresentGBuffer, Initialize, CreateRT, Exists, Names
    <3>4. lost' = IF lost + more > MaxLost THEN MaxLost ELSE lost + more
      BY <1>3, <2>4, <3>1 DEF PresentGBuffer
    <3> QED BY <2>4, <3>2, <3>3, <3>4, NamesCount, GBufferAssumption DEF GBufferAssumption
  <2> QED BY <2>2, <2>3, <2>4
<1>4. CASE \/ \E p \in Pointers, program \in PixelNames, accepted \in BOOLEAN : CreatePixelShader(p, program, accepted)
           \/ \E p \in VertexPointers, program \in VertexNames : CreateVertexShader(p, program)
           \/ \E p \in Pointers \cup VertexPointers : ReleaseShader(p)
           \/ \E kind \in Kinds, p \in Pointers \cup VertexPointers \cup {Nothing} : SetShader(kind, p)
  BY <1>1, <1>4 DEF CreatePixelShader, CreateVertexShader, ReleaseShader, SetShader, surface
<1>5. CASE \/ \E views \in 1 .. 2, depth, geometry \in BOOLEAN : SetTargets(views, depth, geometry)
           \/ OMSetRenderTargetsAndUnorderedAccessViews \/ Draw \/ ClearShaders
           \/ \E on \in BOOLEAN : SetEnabled(on)
  BY <1>1, <1>5 DEF SetTargets, OMSetRenderTargetsAndUnorderedAccessViews, Draw, ClearShaders, SetEnabled, surface
<1>6. CASE UNCHANGED gbufferVars
  BY <1>1, <1>6 DEF gbufferVars, surface
<1> QED
  BY <1>2, <1>3, <1>4, <1>5, <1>6 DEF GBufferNext, ResizeBuffers1

\* With every allocation granted, resizes and Presents in any order lose at most
\* one set of targets (MaterialPipeline.cpp:201-239).
THEOREM FewLost == GBufferSpec => []LeaksOnce
<1>1. LossInv => LeaksOnce
  BY DEF LossInv, LeaksOnce
<1> QED
  BY <1>1, LossInit, LossStep, PTL DEF GBufferSpec

-----------------------------------------------------------------------------
(* The shaders of the G-buffer.                                            *)

Hashes ==
  /\ DOMAIN live = Pointers \cup VertexPointers
  /\ DOMAIN toHash \subseteq Pointers \cup VertexPointers
  /\ \A p \in Pointers \cup VertexPointers : live[p] # Nothing => p \in DOMAIN toHash /\ toHash[p] = live[p]
Replacements == \A n \in psReplacements : n \in PixelNames /\ Patchable(Programs[n])
Meanings ==
  /\ DOMAIN bound = Kinds /\ DOMAIN meant = Kinds
  /\ \A k \in Kinds : \/ bound[k] = Original(meant[k])
                      \/ bound[k] = Replacement(meant[k]) /\ meant[k] \in psReplacements
ShaderInv == Hashes /\ Replacements /\ Meanings

LEMMA ShadersInit == GBufferInit => ShaderInv
BY DEF GBufferInit, ShaderInv, Hashes, Replacements, Meanings

LEMMA ShadersStep == ShaderInv /\ [GBufferNext]_gbufferVars => ShaderInv'
<1> SUFFICES ASSUME ShaderInv, [GBufferNext]_gbufferVars PROVE ShaderInv'
  OBVIOUS
<1> USE DEF ShaderInv
<1>1. ASSUME UNCHANGED <<live, toHash, psReplacements, binding>> PROVE ShaderInv'
  BY <1>1 DEF binding, Hashes, Replacements, Meanings
<1>2. ASSUME NEW p \in Pointers \cup VertexPointers, NEW program,
             live' = [live EXCEPT ![p] = program], toHash' = OnShaderCreated(p, program)
      PROVE Hashes'
  BY <1>2 DEF Hashes, OnShaderCreated
<1>3. ASSUME NEW p \in Pointers, NEW program \in PixelNames, NEW accepted \in BOOLEAN,
             CreatePixelShader(p, program, accepted)
      PROVE ShaderInv'
  <2>1. Hashes'
    BY <1>2, <1>3 DEF CreatePixelShader
  <2>2. Replacements' /\ psReplacements \subseteq psReplacements'
    BY <1>3 DEF CreatePixelShader, OnPixelShaderCreated, Replacements
  <2>3. Meanings'
    BY <1>3, <2>2 DEF CreatePixelShader, binding, Meanings
  <2> QED BY <2>1, <2>2, <2>3
<1>4. ASSUME NEW p \in VertexPointers, NEW program \in VertexNames, CreateVertexShader(p, program)
      PROVE ShaderInv'
  <2>1. Hashes'
    BY <1>2, <1>4 DEF CreateVertexShader
  <2>2. Replacements' /\ Meanings'
    BY <1>4 DEF CreateVertexShader, binding, Meanings, Replacements
  <2> QED BY <2>1, <2>2
<1>5. ASSUME NEW p \in Pointers \cup VertexPointers, ReleaseShader(p) PROVE ShaderInv'
  <2>1. Hashes'
    BY <1>5 DEF ReleaseShader, Hashes
  <2>2. Replacements' /\ Meanings'
    BY <1>5 DEF ReleaseShader, binding, Meanings, Replacements
  <2> QED BY <2>1, <2>2
<1>6. ASSUME NEW kind \in Kinds, NEW p \in Pointers \cup VertexPointers \cup {Nothing}, SetShader(kind, p)
      PROVE ShaderInv'
  <2>1. Hashes' /\ Replacements'
    BY <1>6 DEF SetShader, tracking, Hashes, Replacements
  <2>2. PICK program : /\ program = IF p = Nothing THEN Nothing ELSE live[p]
                       /\ meant' = [meant EXCEPT ![kind] = program]
                       /\ bound' = [bound EXCEPT ![kind] = IF HasReplacement(kind, p) THEN Replacement(toHash[p])
                                                           ELSE Original(program)]
                       /\ psReplacements' = psReplacements
                       /\ p = Nothing \/ (p \in Places(kind) /\ live[p] # Nothing)
    BY <1>6 DEF SetShader, tracking
  <2>3. HasReplacement(kind, p) => toHash[p] = program /\ program \in psReplacements
    <3>1. Nothing \notin Pointers \cup VertexPointers
      BY GBufferAssumption DEF GBufferAssumption
    <3> QED BY <2>2, <3>1 DEF HasReplacement, Hashes
  <2>4. Meanings'
    BY <2>2, <2>3 DEF Meanings
  <2> QED BY <2>1, <2>4
<1>7. CASE ClearShaders
  BY <1>7 DEF ClearShaders, tracking, Hashes, Replacements, Meanings
<1>8. ASSUME NEW width \in Sizes \cup {0}, ResizeBuffers(width) PROVE ShaderInv'
  BY <1>1, <1>8 DEF ResizeBuffers, tracking
<1>9. CASE \/ \E views \in 1 .. 2, depth, geometry \in BOOLEAN : SetTargets(views, depth, geometry)
           \/ OMSetRenderTargetsAndUnorderedAccessViews \/ Draw \/ PresentGBuffer
           \/ \E on \in BOOLEAN : SetEnabled(on)
  BY <1>1, <1>9 DEF SetTargets, OMSetRenderTargetsAndUnorderedAccessViews, Draw, PresentGBuffer, SetEnabled, tracking
<1>10. CASE UNCHANGED gbufferVars
  BY <1>1, <1>10 DEF gbufferVars, tracking
<1> QED
  BY <1>3, <1>4, <1>5, <1>6, <1>7, <1>8, <1>9, <1>10 DEF GBufferNext, ResizeBuffers1

LEMMA ImageKept == ShaderInv => GameImageKept
<1> SUFFICES ASSUME ShaderInv, NEW kind \in Kinds, bound[kind] # Original(meant[kind]), NEW taken \in BOOLEAN
             PROVE  Written(Code(bound[kind]), taken, 0) = Written(Code(Original(meant[kind])), taken, 0)
  BY DEF GameImageKept
<1>1. PICK n : n = meant[kind]
  OBVIOUS
<1>2. bound[kind] = Replacement(n) /\ n \in PixelNames /\ Patchable(Programs[n])
  BY <1>1 DEF ShaderInv, Meanings, Replacements
<1>3. n # Nothing /\ IsProgram(Programs[n])
  BY <1>2, GBufferAssumption DEF GBufferAssumption, PixelNames, IsProgram
<1>4. PICK type : type = ClassifyFromDXBC(Programs[n])
  OBVIOUS
<1>5. Code(bound[kind]) = PatchForGBufferOutput(Programs[n], type)
  BY <1>2, <1>3, <1>4 DEF Code, Replacement, Patched
<1>6. Code(Original(n)) = Programs[n]
  BY <1>3 DEF Code, Original
<1> QED
  BY <1>1, <1>2, <1>3, <1>5, <1>6, PatchKeepsImage

\* Whatever programs the game has and in whatever order their pointers are used
\* again, a replacement writes to the game's own target what the program it stands
\* for writes, on either branch of every conditional return
\* (ShaderManager.h:69-85; MaterialPipeline.cpp:356-417).
THEOREM ImageSafe == GBufferSpec => []GameImageKept
BY ShadersInit, ShadersStep, ImageKept, PTL DEF GBufferSpec

-----------------------------------------------------------------------------
(* What the moves leave in the targets.                                    *)

\* What an instruction does that neither ends the program nor declares anything.
Assigned(values, insn) ==
  [at \in DOMAIN values \cup {insn.writes} |-> IF at = insn.writes THEN Result(values, insn) ELSE values[at]]

LEMMA ExecuteWrites ==
  ASSUME NEW s, IsState(s), ~s.ended, NEW insn, NEW taken, ~Ends(insn, taken), insn.op # "dcl_output",
         NEW u, u = Execute(s, insn, taken)
  PROVE  /\ IsState(u) /\ ~u.ended
         /\ u.values = IF insn.writes = Nowhere THEN s.values ELSE Assigned(s.values, insn)
<1>1. PICK x, e : s = [values |-> x, ended |-> e]
  BY DEF IsState
<1>2. CASE insn.writes = Nowhere
  BY <1>2 DEF Execute
<1>3. CASE insn.writes # Nowhere
  <2>1. PICK v : v = Assigned(s.values, insn)
    OBVIOUS
  <2>2. u = [s EXCEPT !.values = v]
    BY <1>3, <2>1 DEF Execute, Assigned
  <2>3. u = [values |-> v, ended |-> e]
    BY <1>1, <2>2
  <2>4. u.values = v /\ u.ended = e /\ s.ended = e
    BY <1>1, <2>3
  <2>5. IsState(u)
    BY <2>3, <2>4 DEF IsState
  <2> QED BY <1>3, <2>1, <2>4, <2>5
<1> QED
  BY <1>2, <1>3

LEMMA PassesOn ==
  ASSUME NEW values, NEW insn, insn.op \notin {"add", "mul"}, NEW at, insn.reads = {at}
  PROVE  Result(values, insn) = ValueOf(values, at)
<1>1. UNION {ValueOf(values, x) : x \in {at}} = ValueOf(values, at)
  OBVIOUS
<1> QED
  BY <1>1 DEF Result

\* Only registers and outputs are written.
Registers(values) == \A at \in DOMAIN values : at[1] \in {"none", "temp", "output"}

\* Up to a position before which there is no return.
NoReturn(code, b) == \A k \in 1 .. b : code[k].op # "ret"

LEMMA RunsOn ==
  ASSUME NEW code \in Seq(Instructions), NEW taken, ~taken, NEW b \in Nat, b <= Len(code), NoReturn(code, b)
  PROVE  \A k \in 0 .. b : LET s == History(code, taken)[k]
                           IN  IsState(s) /\ ~s.ended /\ Registers(s.values)
<1> USE DEF NoReturn
<1>1. PICK h : h = History(code, taken)
  OBVIOUS
<1>2. IsCode(code)
  BY DEF IsCode
<1>3. /\ h[0] = Start /\ \A k \in 1 .. Len(code) : h[k] = Execute(h[k - 1], code[k], taken)
      /\ \A k \in 0 .. Len(code) : IsState(h[k])
  BY <1>1, <1>2, HistorySteps, HistoryStates
<1> DEFINE T == {k \in Nat : IsState(h[k]) /\ ~h[k].ended /\ Registers(h[k].values)}
<1>4. 0 \in T
  <2>1. ~h[0].ended /\ Registers(h[0].values)
    BY <1>3 DEF Start, Registers
  <2> QED BY <1>3, <2>1
<1>5. ASSUME NEW k \in 0 .. b - 1, k \in T PROVE k + 1 \in T
  <2>1. k + 1 \in 1 .. Len(code) /\ k + 1 \in 1 .. b /\ k + 1 - 1 = k /\ k + 1 \in Nat
    OBVIOUS
  <2>2. PICK insn \in Instructions : insn = code[k + 1]
    BY <2>1
  <2>3. ~Ends(insn, taken)
    BY <2>1, <2>2 DEF Ends
  <2>4. h[k + 1] = Execute(h[k], insn, taken)
    <3>1. h[k + 1] = Execute(h[k + 1 - 1], code[k + 1], taken)
      BY <1>3, <2>1
    <3> QED BY <2>1, <2>2, <3>1
  <2>5. CASE insn.op = "dcl_output"
    <3>1. h[k + 1] = h[k]
      BY <1>5, <2>4, <2>5, ExecuteIdle
    <3> QED BY <1>5, <2>1, <3>1
  <2>6. CASE insn.op # "dcl_output"
    <3>1. /\ IsState(h[k + 1]) /\ ~h[k + 1].ended
          /\ h[k + 1].values = IF insn.writes = Nowhere THEN h[k].values ELSE Assigned(h[k].values, insn)
      BY <1>5, <2>3, <2>4, <2>6, ExecuteWrites
    <3>2. insn.writes[1] \in {"none", "temp", "output"}
      BY <2>2 DEF Instructions
    <3>3. Registers(h[k + 1].values)
      BY <1>5, <3>1, <3>2 DEF Registers, Assigned
    <3> QED BY <2>1, <3>1, <3>3
  <2> QED BY <2>5, <2>6
<1>6. \A k \in 0 .. b : k \in T
  <2> HIDE DEF T
  <2> QED BY <1>4, <1>5, Interval
<1> QED
  BY <1>1, <1>6

\* A register that is written once, by a sample, holds what the sample reads.
Once(code, b, p, slot, r) ==
  /\ p \in 1 .. b /\ IsSampleOp(code[p]) /\ code[p].reads = {Resource(slot)} /\ code[p].writes = Temp(r)
  /\ \A k \in 1 .. b : code[k].writes = Temp(r) => k = p
Holds(s, r, slot) == Temp(r) \in DOMAIN s.values /\ s.values[Temp(r)] = {Resource(slot)}

LEMMA SampleStays ==
  ASSUME NEW code \in Seq(Instructions), NEW taken, ~taken, NEW b \in Nat, b <= Len(code), NoReturn(code, b),
         NEW p, NEW slot, NEW r, Once(code, b, p, slot, r)
  PROVE  Holds(History(code, taken)[b], r, slot)
<1> USE DEF NoReturn, Once, Holds
<1>1. PICK h : h = History(code, taken)
  OBVIOUS
<1>2. IsCode(code)
  BY DEF IsCode
<1>3. /\ \A k \in 1 .. Len(code) : h[k] = Execute(h[k - 1], code[k], taken)
      /\ \A k \in 0 .. b : IsState(h[k]) /\ ~h[k].ended /\ Registers(h[k].values)
  BY <1>1, <1>2, HistorySteps, RunsOn
<1> DEFINE T == {k \in Nat : Temp(r) \in DOMAIN h[k].values /\ h[k].values[Temp(r)] = {Resource(slot)}}
<1>4. p \in T /\ p \in Nat /\ b \in p .. b
  <2>1. p \in Nat /\ p - 1 \in 0 .. b /\ p \in 1 .. Len(code) /\ b \in p .. b
    OBVIOUS
  <2>2. PICK insn : insn = code[p]
    OBVIOUS
  <2>3. ~Ends(insn, taken) /\ insn.op \notin {"dcl_output", "add", "mul"} /\ insn.writes # Nowhere
    BY <2>2 DEF Ends, IsSampleOp, SampleOps, Temp, Nowhere
  <2>4. h[p].values = Assigned(h[p - 1].values, insn)
    BY <1>3, <2>1, <2>2, <2>3, ExecuteWrites
  <2>5. Resource(slot) \notin DOMAIN h[p - 1].values
    BY <1>3, <2>1 DEF Registers, Resource
  <2>6. Result(h[p - 1].values, insn) = {Resource(slot)}
    BY <2>2, <2>3, <2>5, PassesOn DEF ValueOf
  <2> QED BY <2>1, <2>2, <2>4, <2>6 DEF Assigned
<1>5. ASSUME NEW k \in p .. b - 1, k \in T PROVE k + 1 \in T
  <2>1. k + 1 \in 1 .. Len(code) /\ k + 1 \in 1 .. b /\ k \in 0 .. b /\ k + 1 - 1 = k /\ k + 1 \in Nat /\ k + 1 # p
    OBVIOUS
  <2>2. PICK insn : insn = code[k + 1]
    OBVIOUS
  <2>3. ~Ends(insn, taken) /\ insn.writes # Temp(r)
    BY <2>1, <2>2 DEF Ends
  <2>4. h[k + 1] = Execute(h[k], insn, taken)
    <3>1. h[k + 1] = Execute(h[k + 1 - 1], code[k + 1], taken)
      BY <1>3, <2>1
    <3> QED BY <2>1, <2>2, <3>1
  <2>5. CASE insn.op = "dcl_output"
    <3>1. IsState(h[k])
      BY <1>3, <2>1
    <3>2. h[k + 1] = h[k]
      BY <2>4, <2>5, <3>1, ExecuteIdle
    <3> QED BY <1>5, <2>1, <3>2
  <2>6. CASE insn.op # "dcl_output"
    <3>1. h[k + 1].values = IF insn.writes = Nowhere THEN h[k].values ELSE Assigned(h[k].values, insn)
      BY <1>3, <2>1, <2>3, <2>4, <2>6, ExecuteWrites
    <3> QED BY <1>5, <2>1, <2>3, <3>1 DEF Assigned
  <2> QED BY <2>5, <2>6
<1>6. \A k \in p .. b : k \in T
  <2> HIDE DEF T
  <2> QED BY <1>4, <1>5, Interval
<1> QED
  BY <1>1, <1>4, <1>6

Runs(s) == IsState(s) /\ ~s.ended /\ Registers(s.values)
MovesTo(insn, i, x) == insn.op = "mov" /\ insn.writes = Output(i) /\ insn.reads = {x}
Filled(s, u, i, x) ==
  /\ DOMAIN u.values = DOMAIN s.values \cup {Output(i)}
  /\ u.values[Output(i)] = ValueOf(s.values, x)
  /\ \A at \in DOMAIN s.values : at # Output(i) => u.values[at] = s.values[at]

LEMMA MoveFills ==
  ASSUME NEW s, Runs(s), NEW insn, NEW i, NEW x, MovesTo(insn, i, x), NEW taken,
         NEW u, u = Execute(s, insn, taken)
  PROVE  Runs(u) /\ Filled(s, u, i, x)
<1> USE DEF Runs, MovesTo, Filled
<1>1. ~Ends(insn, taken) /\ insn.op \notin {"dcl_output", "add", "mul"} /\ insn.writes # Nowhere
  BY DEF Ends, Output, Nowhere
<1>2. IsState(u) /\ ~u.ended /\ u.values = Assigned(s.values, insn)
  BY <1>1, ExecuteWrites
<1>3. Result(s.values, insn) = ValueOf(s.values, x)
  BY <1>1, PassesOn
<1>4. Output(i)[1] = "output"
  BY DEF Output
<1> QED
  BY <1>2, <1>3, <1>4 DEF Assigned, Registers

\* What the moves leave, given what the two registers hold.
LEMMA MovesFill ==
  ASSUME NEW s, Runs(s), NEW taken, NEW type,
         NEW r0, NEW r1, Temp(r0) \in DOMAIN s.values, Temp(r1) \in DOMAIN s.values,
         NEW u1, u1 = Execute(s, MovFromTemp(1, r0), taken),
         NEW u2, u2 = Execute(u1, MovFromTemp(2, r1), taken),
         NEW u3, u3 = Execute(u2, MovFromImm(3, type), taken)
  PROVE  /\ IsState(u3) /\ {Output(1), Output(2), Output(3)} \subseteq DOMAIN u3.values
         /\ u3.values[Output(1)] = s.values[Temp(r0)] /\ u3.values[Output(2)] = s.values[Temp(r1)]
         /\ u3.values[Output(3)] = {<<"material", GetDefaults(type)>>}
<1>1. /\ Output(1) # Output(2) /\ Output(1) # Output(3) /\ Output(2) # Output(3)
      /\ \A r : Temp(r) # Output(1) /\ Temp(r) # Output(2)
  BY DEF Output, Temp
<1>2. PICK x : x = <<"material", GetDefaults(type)>>
  OBVIOUS
<1>3. Runs(u1) /\ Filled(s, u1, 1, Temp(r0))
  <2>1. MovesTo(MovFromTemp(1, r0), 1, Temp(r0))
    BY DEF MovesTo, MovFromTemp
  <2> QED BY <2>1, MoveFills
<1>4. Runs(u2) /\ Filled(u1, u2, 2, Temp(r1))
  <2>1. MovesTo(MovFromTemp(2, r1), 2, Temp(r1))
    BY DEF MovesTo, MovFromTemp
  <2> QED BY <1>3, <2>1, MoveFills
<1>5. Runs(u3) /\ Filled(u2, u3, 3, x)
  <2>1. MovesTo(MovFromImm(3, type), 3, x)
    BY <1>2 DEF MovesTo, MovFromImm
  <2> QED BY <1>4, <2>1, MoveFills
<1>6. x \notin DOMAIN u2.values
  <2>1. x[1] = "material"
    BY <1>2
  <2> QED BY <1>4, <2>1 DEF Runs, Registers
<1>7. ValueOf(u2.values, x) = {x}
  BY <1>6 DEF ValueOf
<1>8. ValueOf(s.values, Temp(r0)) = s.values[Temp(r0)]
  BY DEF ValueOf
<1>9. ValueOf(u1.values, Temp(r1)) = s.values[Temp(r1)]
  BY <1>1, <1>3 DEF ValueOf, Filled
<1> QED
  BY <1>1, <1>2, <1>3, <1>4, <1>5, <1>7, <1>8, <1>9 DEF Runs, Filled

\* The sample whose register is taken.
LEMMA Sampled ==
  ASSUME NEW program, IsProgram(program), NEW slot, SampleDest(program, slot) >= 0
  PROVE  \E p \in 1 .. Len(program.code) :
           /\ IsSampleOp(program.code[p]) /\ InsnUsesResource(program.code[p], slot)
           /\ program.code[p].writes = Temp(SampleDest(program, slot))
<1>1. PICK found : found = Positions(program, LAMBDA insn :
                 /\ IsSampleOp(insn) /\ InsnUsesResource(insn, slot)
                 /\ InsnDestTempReg(insn) >= 0)
  OBVIOUS
<1>2. PICK code \in Seq(Instructions) : code = program.code
  BY DEF IsProgram
<1>3. found \in SUBSET Nat /\ \A k \in found : /\ k \in 1 .. Len(code) /\ IsSampleOp(code[k])
                                              /\ InsnUsesResource(code[k], slot) /\ InsnDestTempReg(code[k]) >= 0
  BY <1>1, <1>2 DEF Positions
<1>4. PICK p : p = Lowest(found)
  OBVIOUS
<1>5. /\ found # {}
      /\ SampleDest(program, slot) = InsnDestTempReg(code[p])
  BY <1>1, <1>2, <1>4 DEF SampleDest, Positions
<1>6. p \in found
  BY <1>3, <1>4, <1>5, LowestIn
<1>7. PICK insn \in Instructions : insn = code[p]
  BY <1>3, <1>6
<1>8. insn.writes \in {"none", "temp", "output"} \X Int
  BY <1>7 DEF Instructions
<1>9. insn.writes[1] = "temp" /\ insn.writes[2] = SampleDest(program, slot)
  BY <1>3, <1>5, <1>6, <1>7 DEF InsnDestTempReg
<1>10. insn.writes = Temp(SampleDest(program, slot))
  BY <1>8, <1>9 DEF Temp
<1> QED
  BY <1>2, <1>3, <1>6, <1>7, <1>10

LEMMA OnlyWriter ==
  ASSUME NEW program, IsProgram(program), NEW slot, WrittenOnce(program, slot),
         NEW p \in 1 .. Len(program.code), program.code[p].writes = Temp(SampleDest(program, slot)),
         NEW k \in 1 .. Len(program.code), program.code[k].writes = Temp(SampleDest(program, slot))
  PROVE  k = p
<1>1. PICK T : T = Positions(program, LAMBDA insn : insn.writes = Temp(SampleDest(program, slot)))
  OBVIOUS
<1>2. Len(program.code) \in Nat /\ DOMAIN program.code = 1 .. Len(program.code)
  BY DEF IsProgram
<1>3. T \subseteq 1 .. Len(program.code) /\ k \in T /\ p \in T
  BY <1>1, <1>2 DEF Positions
<1>4. IsFiniteSet(T)
  <2>1. IsFiniteSet(1 .. Len(program.code))
    <3>1. 1 \in Int /\ Len(program.code) \in Int
      BY <1>2
    <3> QED BY <3>1, FS_Interval
  <2>2. T \in SUBSET (1 .. Len(program.code))
    BY <1>3
  <2> QED BY <2>1, <2>2, FS_Subset, Zenon
<1>5. Cardinality(T) = 1
  BY <1>1 DEF WrittenOnce
<1> QED
  BY <1>3, <1>4, <1>5, FS_Singleton

Serves(program, type, taken) ==
  LET shader == PatchForGBufferOutput(program, type)
  IN  /\ Written(shader, taken, 1) = {Resource(0)}
      /\ Written(shader, taken, 2) = {Resource(1)}
      /\ Written(shader, taken, 3) = {<<"material", GetDefaults(type)>>}

LEMMA PatchFills ==
  ASSUME NEW program, IsProgram(program), Patchable(program), Straight(program),
         WrittenOnce(program, 0), WrittenOnce(program, 1), NEW type, NEW taken, ~taken
  PROVE  Serves(program, type, taken)
<1>1. PICK code, c : \E a \in Nat, b \in Nat, m \in 2 .. 3 : Shape(program, type, code, c, a, b, m)
  BY PatchShape
<1>2. PICK a \in Nat, b \in Nat, m \in 2 .. 3 : Shape(program, type, code, c, a, b, m)
  BY <1>1
<1>3. PICK r0, r1 : r0 = SampleDest(program, 0) /\ r1 = SampleDest(program, 1)
  OBVIOUS
<1>4. code = program.code /\ code \in Seq(Instructions) /\ DOMAIN code = 1 .. Len(code) /\ Len(code) \in Nat
  BY <1>2 DEF Shape, IsProgram
\* The moves are the last before the only return.
<1>5. b + 1 = Len(code) /\ b <= Len(code) /\ \A k \in 1 .. b : k \in 1 .. Len(code) /\ code[k].op # "ret"
  <2>1. code[b + 1].op = "ret" /\ b + 1 \in DOMAIN code
    BY <1>2 DEF Shape
  <2>2. \A k \in DOMAIN code : code[k].op = "ret" => k = Len(code)
    BY <1>4 DEF Straight
  <2>3. b + 1 = Len(code)
    BY <2>1, <2>2
  <2>4. \A k \in 1 .. b : k \in 1 .. Len(code) /\ k # Len(code)
    BY <2>3
  <2> QED BY <1>4, <2>2, <2>3, <2>4
<1>6. r0 >= 0 /\ r1 >= 0
  BY <1>3 DEF WrittenOnce
<1>7. ASSUME NEW slot \in {0, 1}, NEW r, r = SampleDest(program, slot), r >= 0, WrittenOnce(program, slot)
      PROVE  LET s == History(code, taken)[b]
             IN  Holds(s, r, slot)
  <2>1. PICK p \in 1 .. Len(code) : /\ IsSampleOp(code[p]) /\ InsnUsesResource(code[p], slot)
                                    /\ code[p].writes = Temp(r)
    BY <1>4, <1>7, Sampled
  <2>2. p \in 1 .. b
    BY <1>2, <1>5, <2>1 DEF Shape, IsSampleOp, SampleOps
  <2>3. code[p].reads = {Resource(slot)}
    BY <1>4, <2>1 DEF Straight
  <2>4. \A k \in 1 .. b : code[k].writes = Temp(r) => k = p
    BY <1>4, <1>5, <1>7, <2>1, OnlyWriter
  <2>5. Once(code, b, p, slot, r)
    BY <2>1, <2>2, <2>3, <2>4 DEF Once
  <2> QED BY <1>4, <1>5, <2>5, SampleStays DEF NoReturn
<1>8. PICK s : s = History(code, taken)[b]
  OBVIOUS
<1>9. /\ Temp(r0) \in DOMAIN s.values /\ s.values[Temp(r0)] = {Resource(0)}
      /\ Temp(r1) \in DOMAIN s.values /\ s.values[Temp(r1)] = {Resource(1)}
  BY <1>3, <1>6, <1>7, <1>8 DEF Holds
<1>10. Runs(s)
  <2>1. b \in 0 .. b
    OBVIOUS
  <2> QED BY <1>4, <1>5, <1>8, <2>1, RunsOn DEF Runs, NoReturn
<1>11. m = 3 /\ c[b + m + 1] = MovFromTemp(1, r0) /\ c[b + m + 2] = MovFromTemp(2, r1)
             /\ c[b + m + 3] = MovFromImm(3, type)
  <2>1. PICK moves : moves = Moves(program, type)
    OBVIOUS
  <2>2. moves = << MovFromTemp(1, r0), MovFromTemp(2, r1), MovFromImm(3, type) >>
    BY <1>3, <1>6, <2>1 DEF Moves
  <2>3. Len(moves) = 3 /\ moves[1] = MovFromTemp(1, r0) /\ moves[2] = MovFromTemp(2, r1) /\ moves[3] = MovFromImm(3, type)
    BY <2>2
  <2>4. At(c, moves, b + m) /\ m = 3
    BY <1>2, <2>1, <2>3 DEF Shape
  <2>5. 1 \in 1 .. 3 /\ 2 \in 1 .. 3 /\ 3 \in 1 .. 3
    OBVIOUS
  <2> QED BY <2>3, <2>4, <2>5 DEF At
<1>12. PICK g : g = History(c, taken)
  OBVIOUS
<1>13. g[b + 3] = s
  <2>1. m \in Nat
    OBVIOUS
  <2>2. g[b + m] = s
    <3>1. /\ IsCode(code) /\ IsCode(c) /\ a <= b /\ b + 1 <= Len(code) /\ Len(c) = Len(code) + 2 * m
          /\ Same(code, c, 0, a, 0) /\ Declares(c, a, m) /\ Same(code, c, a, b, m)
      BY <1>2 DEF Shape
    <3>2. History(c, taken)[b + m] = History(code, taken)[b]
      BY <2>1, <3>1, BeforeMoves
    <3> QED BY <1>8, <1>12, <3>2
  <2> QED BY <1>11, <2>2
<1>14. Len(c) = b + 7 /\ IsCode(c)
  BY <1>2, <1>5, <1>11 DEF Shape
<1>15. /\ g[b + 4] = Execute(g[b + 3], MovFromTemp(1, r0), taken)
       /\ g[b + 5] = Execute(g[b + 4], MovFromTemp(2, r1), taken)
       /\ g[b + 6] = Execute(g[b + 5], MovFromImm(3, type), taken)
       /\ g[b + 7] = Execute(g[b + 6], code[b + 1], taken)
  <2>1. \A k \in 1 .. Len(c) : g[k] = Execute(g[k - 1], c[k], taken)
    BY <1>12, <1>14, HistorySteps
  <2>2. /\ b + 4 \in 1 .. Len(c) /\ b + 5 \in 1 .. Len(c) /\ b + 6 \in 1 .. Len(c) /\ b + 7 \in 1 .. Len(c)
        /\ b + 4 - 1 = b + 3 /\ b + 5 - 1 = b + 4 /\ b + 6 - 1 = b + 5 /\ b + 7 - 1 = b + 6
    BY <1>14
  <2>3. /\ c[b + 4] = MovFromTemp(1, r0) /\ c[b + 5] = MovFromTemp(2, r1) /\ c[b + 6] = MovFromImm(3, type)
    BY <1>11
  <2>4. c[b + 7] = code[b + 1]
    BY <1>2, <1>11 DEF Shape
  <2> QED BY <2>1, <2>2, <2>3, <2>4
<1>16. PICK u3 : u3 = g[b + 6]
  OBVIOUS
<1>17. /\ IsState(u3) /\ {Output(1), Output(2), Output(3)} \subseteq DOMAIN u3.values
       /\ u3.values[Output(1)] = {Resource(0)} /\ u3.values[Output(2)] = {Resource(1)}
       /\ u3.values[Output(3)] = {<<"material", GetDefaults(type)>>}
  BY <1>9, <1>10, <1>13, <1>15, <1>16, MovesFill
<1>18. g[b + 7].values = u3.values
  <2>1. Ends(code[b + 1], taken)
    BY <1>2 DEF Shape, Ends
  <2>2. g[b + 7] = [u3 EXCEPT !.ended = TRUE]
    BY <1>15, <1>16, <2>1 DEF Execute
  <2>3. PICK x, e : u3 = [values |-> x, ended |-> e]
    BY <1>17 DEF IsState
  <2>4. g[b + 7] = [values |-> x, ended |-> TRUE]
    BY <2>2, <2>3, EndedRecord, Zenon
  <2> QED BY <2>3, <2>4
<1>19. Run(PatchForGBufferOutput(program, type), taken) = u3.values
  BY <1>2, <1>12, <1>14, <1>18 DEF Run, Shape
<1> QED
  BY <1>17, <1>19 DEF Serves, Written

LEMMA TargetsServed ==
  (\A n \in PixelNames : Straight(Programs[n])) /\ ShaderInv => TargetsHoldTheirKind
<1> SUFFICES ASSUME \A n \in PixelNames : Straight(Programs[n]), ShaderInv,
                    bound["pixel"].patched,
                    WrittenOnce(Programs[bound["pixel"].program], 0),
                    WrittenOnce(Programs[bound["pixel"].program], 1)
             PROVE  \A taken \in BOOLEAN : ~taken =>
                      LET shader == bound["pixel"]
                      IN  /\ Written(Code(shader), taken, 1) = {Resource(0)}
                          /\ Written(Code(shader), taken, 2) = {Resource(1)}
                          /\ Written(Code(shader), taken, 3) =
                               {<<"material", GetDefaults(ClassifyFromDXBC(Programs[shader.program]))>>}
  BY Zenon DEF TargetsHoldTheirKind
<1>1. PICK n : n = meant["pixel"]
  OBVIOUS
<1>2. bound["pixel"] = Replacement(n) /\ n \in PixelNames /\ Patchable(Programs[n])
  BY <1>1 DEF ShaderInv, Meanings, Replacements, Original, Kinds
<1>3. n # Nothing /\ IsProgram(Programs[n])
  BY <1>2, GBufferAssumption DEF GBufferAssumption, PixelNames, IsProgram
<1>4. PICK type : type = ClassifyFromDXBC(Programs[n])
  OBVIOUS
<1>5. bound["pixel"].program = n
  BY <1>2 DEF Replacement
<1>6. Code(bound["pixel"]) = PatchForGBufferOutput(Programs[n], type)
  BY <1>2, <1>3, <1>4 DEF Code, Replacement, Patched
<1>7. ASSUME NEW taken \in BOOLEAN, ~taken PROVE Serves(Programs[n], type, taken)
  BY <1>2, <1>3, <1>5, <1>7, PatchFills
<1> QED
  BY <1>4, <1>5, <1>6, <1>7 DEF Serves

\* If the game's programs are straight, a replacement whose two registers are
\* written once leaves in each target what the target is for
\* (MaterialPipeline.h:5-9 and 15-16).
THEOREM TargetsServe ==
  ASSUME \A n \in PixelNames : Straight(Programs[n])
  PROVE  GBufferSpec => []TargetsHoldTheirKind
<1>1. ShaderInv => TargetsHoldTheirKind
  BY TargetsServed
<1> QED
  BY <1>1, ShadersInit, ShadersStep, PTL DEF GBufferSpec
=============================================================================
