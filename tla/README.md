# SkyrimBridge: models, checks and proofs

SkyrimBridge is an SKSE plugin (`src/core`, `src/*.cpp`), a `d3d11.dll` proxy
the game loads in place of the system's (`src/d3d11_proxy`), clients in other
processes (`tools/`), ENB shaders, INI files and validators. This directory
holds TLA+ modules of the parts whose correctness depends on the order of steps
of several actors, TLC configurations for small instances, and proofs that TLAPS
checks for all values of the constants. `PROJECT.json` lists, for every
definition, the lines of the source it was translated from; paths below are
relative to the repository.

Contents: [the system](#1-the-system) · [modules](#2-modules) ·
[runs](#3-runs-and-bounds) · [fairness](#4-fairness) · [proofs](#5-proofs) ·
[disagreements](#6-where-code-and-text-disagree) ·
[not modelled](#7-what-is-not-modelled) · [plan](#8-plan)

## 1. The system

### Threads and processes

| actor | runs |
|---|---|
| SKSE main thread | `OnMessage` (`src/core/main.cpp`): bring-up at kPostLoad, kPostPostLoad and kDataLoaded, revival at kNewGame and kPostLoadGame |
| frame thread (the one that renders) | ENB's callback or the hooked Present, then `DoFrameUpdate`; every call into the d3d11 proxy; the passes |
| window thread | hotkeys F7 to F11 and WM_DESTROY in `HookedWndProc` |
| script threads | Papyrus natives (`PapyrusBridge.cpp`) |
| loader threads | the texture detour (`TextureLoadHook.cpp`) |
| detached threads | the texture scan, the compilation of cloud shaders |
| other plugins | the ABI of `SkyrimBridgeAPI.h` on any thread |
| other processes | `tools/sb_command_client.py`, `SkyrimBridgeClient.h`, readers of the shared region |

### Components

Per component: what it keeps, what it does, what is hard, what makes it correct.
The status of each is in section 7 and in `PROJECT.json`.

**External command channel** (`BridgeCommand.cpp`, `SB_CommandLayout.h`, the
two clients). A named block with a request and a response number, verb,
arguments, status and result, plus the plugin's private `m_lastHandled`. A
client fills the block and stores the request number last; `Poll` runs near the end of
a frame update, dispatches under an SEH guard and stores the response number last. No
lock; either process may die and come back; a client may give up and retry; an update
may fault before it polls, and after five faults in a row there are no more updates. A
call must run at most once, its answer must be its own, a request must stand
still while it is dispatched and must be answered as long as the game is updated.

**Plugin ABI** (`BridgeApi.cpp`). Two slots of the data block under a mutex, an
atomic frame index and a valid flag read without it, a teardown latch. A copy
must be one frame, labelled with it, and no older than an index the consumer has
seen; nothing may be published after teardown.

**Frame driver** (`main.cpp`, `D3D11Hook.cpp`). `s_gameReady`,
`s_frameUpdateDisabled`, fault counts. An update collects the trackers' data,
sanitizes it and writes four channels in turn: ENB parameters, the ABI, the
shared region, the Papyrus cache. Faults may cut it anywhere. Values must be
finite, channels in order, a frame measured once, updates stopped only by a
streak of faults, and nothing written after exit.

**Shared-memory publisher** (`SharedMemoryBridge.cpp`): header with a counter,
then the body, with no sequence lock. **ENB push** (`ENBInterface.cpp`): the SDK
found at run time and a cache of sent values. **Papyrus natives**: getters over
a cached copy, and natives that act on the weather editor, textures and models.

**Trackers** (`BridgeData.cpp`, `*Tracker.cpp`, `main.cpp`): twenty collectors
that read engine objects into one record. Each keeps statics of its own (the
accumulated wetness, the last position), is disabled after a streak of exceptions
and retried later; an access violation in one ends the whole collection. What is
published must have been read in the update that publishes it.

**Weather parameters and write-back** (`WeatherParameterComputer.cpp`,
`WriteBackProcessor.cpp`): parameters per category of weather from a file that may
be edited during the game, moved towards the present weather's value; rules that
write engine values. A shader and a reader of the region must see the same value.

**d3d11 proxy**. `WrappedContext` forwards the game's calls, drops redundant
ones, and tells the `RenderPhaseDetector`, which guesses the phase of the frame
from bound targets, viewports and draws. `CBDirtyTracker` holds back writes of
constant buffers that change nothing. `WrappedSwapChain` closes the frame: it
calls the plugin, publishes the copy of the scene taken before the HUD and
resets the detector. What the game finds in the context must be what it put
there, and a write held back must be one that changes nothing.

**Passes**. `PhaseDispatcher` maps a change of phase to a stage of
`RenderPipeline`, saves the state (`D3D11StateBackup`), runs the passes
registered for the stage, restores and resets the proxy's cache. A stage must
run at most once a frame, its passes in order, also when a background thread
registers one meanwhile.

**GPU tier** (`ComputeManager`, `RenderPassManager`, `HiZPyramid`,
`AtmosphereRenderer`, `VolumetricClouds`, `SRVInjector`). Tables of shaders and
resources that are created once and may fail to be, save and restore of what
they bind, a flag per renderer that says it is up. The pyramid and the clouds run
at the end of the geometry, the sky at present time; the clouds are compiled by a
thread of their own. A shader must read this frame's depth and the last
frame's result, never an older one or an input that the device has unbound, and
the game must get back what it had bound.

**G-buffer** (`ShaderManager`, `MaterialPipeline`). Hashes of shaders by address,
a replacement for each that lights a surface, three more targets that are
injected, cleared, published and made again on a resize. A replacement must
never change what the game itself would draw, and the targets must hold what
their names say, of this frame. **Occlusion** (`OcclusionCuller`): a depth
read-back one frame late.

**Weather editor** (`WeatherEditor.cpp`): captured, edited and original
snapshots of a weather, forced weather, INI presets and hot reload, used by
script threads and the frame thread. A weather must never be given another's
values, and what has nothing left to apply must be what the game shows.
**ParmLink** (`ParmLinkCompat.cpp`): expressions compiled once and evaluated per
frame, which must mean what they say.

**Native parts** (`CompatDetect`, `EditorIDCache`, `WorldspaceWeatherlist`,
`KreateProfile`, `KreateRecords`, `SkyLighting`, `EnbLightInventoryFix`; compiled
with `SKYRIMBRIDGE_NATIVE_REPLACEMENTS`). Each stands in for another plugin and
stands down where that one is loaded, which is looked for twice. They keep names
of forms, swap ENB's weather list by worldspace in a directory that outlives the
game, and lay record profiles over the engine's forms. Exactly one of a part and
its original must own a feature; the list in place must be the one routed
when the player came; a profile must change what its lines say, to what they say.

**Textures** (`TextureAutoConvert.cpp`, `TextureLoadHook.cpp`): a scan on a
detached thread writes .dds siblings; the loader's detour converts into a cache
under a mutex and remembers the answer. Files outlive the process and change
behind it. What is served must be whole and current, and a repeated scan must do
nothing.

**Codecs** (`TextureCodec`, `TextureBC7`, `Inflate`, `ModelCodec`, ...): pure
functions. **Reflection, region walker, script report, engine patches,
diagnostics**: see section 7.

### How they interact

    main thread --Init--> proxy interface (callback lists) --> WrappedSwapChain
         |                                                          | Present
         v                                                          v
    RenderPipeline <--AddPass-- cloud thread        ProxyPrePresentCallback
         ^                                           |           |
         | ExecuteStage                              v           v
    PhaseDispatcher <--phase-- RenderPhaseDetector  RunFrameUpdate  PrePresent stage
         |                          ^                |
         v save, restore, reset     | hooks          +-> ENB -> ABI -> shared -> Papyrus
    WrappedContext <------------ the game            +-> BridgeCommand::Poll <-> tools

## 2. Modules

| module | models | state and actions |
|---|---|---|
| `CommandRpc` | what the channel promises | one phase per call; send, execute, answer, lose |
| `CommandChannel` | mailbox, plugin, both clients | every field access the other side can see is a step: `PollTake`, `DispatchVerb`, `DispatchRun`, `PollStatus`, `PollPublish` are `Poll` and `Dispatch`; `InitializeHead`, `InitializeTail` the zeroing of the block; `FinishUpdate`, `Fault`, `Revive` the update around the poll; `PyBegin` to `Collect` a client's call, `GiveUp` its deadline, `Exit` a crash or shutdown |
| `SnapshotCell` | what the ABI promises | an atomic cell with a counter |
| `BridgeApi` | the ABI | the block is a set of words copied one by one; mutex, slots, the two late stores, locked copies, unlocked reads, teardown |
| `FrameDriver` | bring-up, both drivers, one update step by step, faults, revival, exit | `fpc` is the place in `DoFrameUpdate`, `mpc` that in `OnMessage`; data is the number of the update that took it and whether it is finite |
| `CBDirtyTracker` | the buffer tracker | entries, shadows, staging copies; intercepted Map and Unmap, commit and its failure, eviction, reuse of an address |
| `ProxyContext` | the redundancy filter, the passes behind it, the backup | `real`, `cache` and `direct` are what the context holds, what the wrapper believes, and what it would hold without wrapper and passes |
| `RenderPipeline` | the pass registry | `AddPass`, `SortPasses`, `ExecuteStage` |
| `RenderPhases` | detector, dispatcher, pre-HUD copy, Present | one action per hook the game's calls reach; the chain from a change of phase to stage and copy is part of the action that changed it; `InitDispatcher` and `StartReset` are the two halves of the dispatcher's `Initialize`, between which it may be called |
| `Trackers` | the twenty collectors | an operator per tracker: from an abstract engine and what the tracker kept, the group it returns and what it keeps |
| `WeatherParams` | the parameter computer | load, hot reload, category, blending, push to ENB by shader file, group and name, look-up by name alone |
| `FrameData` | the data of one update | `Update` is `DoFrameUpdate` from collection to the shared region; `AbortedUpdate` one that an access violation ends; `EditIni` the player |
| `D3D11Context` | external: the device and its context | binding with the read/write rule, writing, drawing; a resource's contents are the frame, sun or number they were made from |
| `ComputeManager`, `RenderPassManager`, `HiZPyramid`, `AtmosphereRenderer`, `VolumetricClouds` | the GPU tier | functions from the state of the device and the tables to the next, a step per call the sources make |
| `GpuTier` | their composition | set-up on the main thread, the clouds' thread, the game's clear, draw, end of geometry, present and resize; uses `RenderPipeline` for the passes |
| `ShaderPatch` | patching of shaders | a program is a signature with its table and the names behind it, declarations and instructions over registers; `PatchForGBufferOutput` adds the outputs and moves and writes over names, `Run` is the device |
| `GBuffer` | shader manager, material pipeline, swap chain | shaders created, released and bound; targets made, injected, drawn, cleared, published, resized |
| `WeatherEditor` | the editor | `BeginUpdate` to `EndApply` are `Update` in the steps between which the other thread can come; the natives, in steps of their own and at any step of an update; `LoadKreateProfile` and `EngineReflectVerifyStrict` the natives that write fields of a record past the editor; the player's edits |
| `ParmLink` | parameter links | load, initialise, update, shut down, over any language of expressions |
| `ExprParser` | that language | the parser and the evaluator as recursive operators over tokens and exact fractions |
| `SBConfig` | the INI reader | lines, sections, entries and values over tokens |
| `CompatDetect`, `EditorIDCache`, `WorldspaceWeatherlist`, `KreateProfile` | native parts | detection; hooks, names and references; routing, import and backup; overrides, keys and conversions |
| `NativeSuite` | their life | modules loading, both messages, frames, scripts, others at the weather lists (`OthersTouchLists`), the end of the game and the next session |
| `TextureConversion` | scan, detour, conversion, files | `Ask` to `Reopen` are the detour, `RunScan` to `EndScan` the scan, `Decode`, `Open`, `Write` the conversion into either place; files keep version and time across `Restart` |

`CommandChannel` instantiates `CommandRpc` and `BridgeApi` instantiates
`SnapshotCell` under a refinement mapping. `ProxyContext` is composed with
`CBDirtyTracker` (`ClearState` and the end of a frame act on both),
`RenderPhases` with `RenderPipeline` (a stage runs inside the call that changed
the phase). `GpuTier` is composed with
`RenderPipeline` too (the passes a stage runs are the registered ones, in their
order), `FrameData` of `Trackers` and `WeatherParams`, `NativeSuite` of its three
parts. `MCProxyContext` runs the filter and the G-buffer, and `MCNativeSuite` the
expressions and the native parts, side by side in one run, a variable `part`
telling which one a behaviour is about, as they share nothing.
Two seams are abstracted rather than composed. The publication to
the ABI is one step of `FrameDriver`, and `BridgeApi` shows that it may be taken
for one. `BeginStage` of `ProxyContext` may happen at any call of the game,
which includes those where `RenderPhases` dispatches.

Abstractions common to all: payloads are the number of the call, frame or
version that wrote them; GPU objects are model values; logging, formatting and
drawing are left out. Variables marked "observation" record history for a
property; no guard of code reads them. Definitions marked "Wrong:" are plausible
mistakes, used by no specification: replacing the definition after it by the
mistake must make the property named in `PROJECT.json` fail.

## 3. Runs and bounds

| run | instance | shows |
|---|---|---|
| `channel_patient` | both clients, 3 calls, 5 numbers, 3 game processes, updates disabled by 2 faults in a row instead of 5, no time-out while a game can answer | at most once, stable requests, refinement of `CommandRpc` (which has the own answers), answers arrive while updates are not disabled |
| `channel_retry` | Python client, 4 calls, 3 numbers, time-outs at any moment, 2 processes | an answer is still its own, also where the number outgrows its field |
| `bridge_api` | 2 consumers, a producer, a closer, 2 words, 3 frames | coherent, fresh copies; refinement of `SnapshotCell` (which has the teardown) |
| `frame_driver` | 4 updates, limits of 2 instead of 5 and 3 | channels in order, frames measured once, quiet after exit, under faults at every step |
| `proxy_context` | one state, one cached and one uncached slot, one buffer; 6 programs, 2 sizes, at most one creation that fails | all that filter, passes and tracker ever take from the game; the game's image, the targets' contents and their life |
| `render_phases` | 2 passes, 2 targets, 3 frames, one resize, a geometry draw count of 1; passes, a resize and a start-up that forgets a stage not in one behaviour (`Apart`) | stages once, but for what the start-up forgot, and in order; no flag or copy outlives its frame |
| `texture_conversion` | 2 loaders, 2 kinds of source, 2 versions, 2 processes | the cache serves what is whole and current; conversion and scan are idempotent |
| `frame_data` | 3 worlds (a fight, a loading screen, the main menu), one faulty tracker, one refused group, 2 parameter files, with a name in two groups and a name twice in one, an edit | published data is of its update; ENB, region and parameters agree |
| `weather_editor` | 2 weathers that share a form, 4 parts, one write of a file, 3 native calls of 9 kinds, at any step of an update | up to the first race no weather gets another's values; the game shows the snapshot |
| `gpu_tier` | 4 by 3 pixels, 3 frames, 4 suns of 3 zeniths, one creation that fails, one resize | inputs of the right frame, bindings kept, a sky that follows the sun |
| `native_suite` | 14,000 expression files in 3 worlds; at most 3 other plugins; 3 routings, 3 sessions' starts, 4 worldspaces, lists present, missing and locked in turn; 2 forms, 2 readers; 4 profiles | expressions mean what they say; one owner; the list in place; routes survive import; names hold; records as the profiles' lines have them |
| `shipped_weatherlist` | as `native_suite` | section 6 |

Why the bounds suffice. *Channel*: three calls put one before and one after the
call a hazard is about; three processes put a restart on each side; five numbers
do not wrap in the patient run (a wrap needs 2^32 calls), and the retry run has
so few that they do; a limit of two faults has one that delays an answer and a streak
that ends the polling. *ABI*: two words can tear, the third frame reuses a slot.
*Driver*: an unfinished, a faulting and a finished update and one after them fit
in four; a limit of two distinguishes a streak from scattered faults.
*Proxy*: the filter treats bindings independently except that one call may
cover several slots, which one slot on each side of the limit of the cache
shows. *Phases*: a stale flag needs one frame to be set in and one to be found
in, a stale copy one more; what `Apart` keeps apart changes no
variable in common. *Textures*: staleness needs two versions, preference
two kinds, a torn file two loaders, a memory that is lost two processes.
*Frame data*: a group is left over only between two updates in different worlds, so
that two frames and a third update after them show it; a threshold and an
interval of 1 give streak, disabling, retry and the wrap of the counter, and that one
faulty tracker is enough follows from the theorem `Fresh`, which is about any set of
them. *Editor*: a leak needs two
weathers that keep a field in one form, a lost edit a reload under an apply; three
calls are a capture, an edit and an apply, or a race and the capture that mends it. *GPU*: a stale input needs a frame to be set in and one to be read in, a
resize a third; a height and a width that are not powers of two round; the
threshold of 2 over three zeniths lets a drift of single steps add up, and two suns of one
zenith move unseen. *G-buffer*: two
shaders in one place, one candidate and one not, with sample registers apart and
together. *Native parts*: three plugins put one before, between and after the probes;
two sessions let a directory be found as the other left it; every operator stands
once around every other, at both sides.
The theorems of section 5 free many of these properties from their bounds.

Deadlock is checked where the program never ends (`proxy_context`, `render_phases`,
`texture_conversion`, `frame_data`, `weather_editor`). The other runs come to an end
when a bound is used up or the game is gone, and say `CHECK_DEADLOCK FALSE`.

`MCNativeSuite` is the one module that reaches recursive operators (`ExprParser`, which
it gives to `ParmLink` as the language); it is used by no proof.

## 4. Fairness

Only `CommandChannel` states liveness. `FairSpec` assumes: the update goes on to its
next step while it is enabled, as the game renders frames and each calls it
(`WF_vars(RunFrameUpdate)`; the step may be a fault, so nothing makes an update reach
`Poll`); a client that started a call goes on to its next statement; and a waiting client's
deadline comes. Nothing makes a client call, a game start, a game exit or a revival of
disabled updates. Under this, `RequestsAnswered` says that a request in the block of a
running game gets answered or refused, unless that process ends or its updates are
disabled: faults short of a streak only delay it.

No other specification states fairness. Frame updates may stop for good after
faults, by design; a tracker that was disabled is retried only as long as it is
called, and after its first failed retry on every frame (section 6); a refused ENB
parameter, a missing texture and a locked weather list are never tried again. What
could be promised of these is what `HealthyMeansFresh` and `EnbIsCurrent` say as
invariants.

## 5. Proofs

| module | invariant that is inductive | theorems |
|---|---|---|
| `CommandChannelProofs` | `TypeOK`, `NumbersPast`, `NumberFresh`, `Gate`, `PayloadOwn`, `RunsOnce`, `ResultOwn`, `FateOpen` | types; the gates agree; for patient clients: at most once, own answers, stable requests, `Spec => RpcSpec` |
| `CommandChannelProofs`, for the Python client | `PyInv`: `PyNumbers`, `PyQuiet`, `PyPayload`, `PyResult` | own answers, also to those that give up and retry |
| `BridgeApiProofs` | `TypeOK`, `MutexOwner`, `SlotsWhole`, `CounterLag`, `FlagMeaning`, `CopyInProgress` | types, `CopyCoherent`, `CopyNotStale`, `FlagIsAccurate`, `TeardownFinal`, `CounterMonotonic`, `Spec => CellSpec` |
| `FrameDriverProofs` | `TypeOK`, `Finite`, `Waiting`, `Paced`, `Silent`, `Faults`, `Crashing`, `Ordered`, `Counted` | types, finite channels, `ChannelsInOrder`, `MeasuredOnce`, updates wait for data, `QuietAfterExit`, scattered faults, counters |
| `ProxyContextProofs` | `TypeOK`, `CacheIsCurrent`, `OnlyDefaultsLost`, `ShadowIsCurrent`, `OnlyZeroesLost` | types, `CacheIsCurrent`, `OnlyDefaultsLost`, `OnlyZeroesLost` |
| `RenderProofs` | `TypeOK`, `ListInv`, `FlagInv`, `FlagsAreThisFrames`, `SceneInv`, `SceneIsRecent`, `FrameLeft` | types, `RanOnce`, `RanInOrder`, `FlagsAreThisFrames`, `SceneIsRecent` |
| `RenderProofs`, on `GpuTier` | `TierInv`: `DeviceInv`, `SunInv`, `PassInv`, `LoaderInv`, `FrameInv`, `InputsAreThisFrames` | `InputsAreThisFrames`, `SkyFollowsSun`, `BindingsKept` |
| `ProxyContextProofs`, on `GBuffer` | what the textures hold and when they were made; shaders and replacements in step; `LeaksOnce` | `GBufferIsThisFrames`, `LeaksOnce`, `GameImageKept`, `TargetsHoldTheirKind` |
| `TextureConversionProofs` | `TypeOK`, `InThePast`, `Owned`, `MadeBefore`, `Resolved`, `CacheIsWhole`, `Remembered`, `Scanned` | types, `ServedIsCurrent`, `TranscodedOnce`, `ScanIsIdempotent` |
| `FrameDataProofs` | `FreshInv`; what ENB was sent last is what the region says, outside the refused groups | `HealthyMeansFresh`, `EnbIsCurrent`, `ReadersAgree` |
| `PluginProofs`, on `WeatherEditor` | up to the first race: a snapshot's weather, and what each field of it came from; outside a race: nothing left to apply but to cells others wrote | `NoForeignValues`, `GameShowsSnapshot` |
| `PluginProofs`, on `NativeSuite` | the list in place and the last route; names and references; what detection saw; an imported routing is the legacy list, written down (`ImportInv`) | `ActiveListInPlace`, `ReferencesHold`, `OneOwner`, `RoutesSurviveImport` |
| `PluginProofs`, on `ParmLink` | `LinkInv`: what was compiled is the file's lines, and the last update left their values | `DefinitionsHold` |

The theorems on types, finite channels, gates, streaks, teardown and counters name
properties that no run lists: they hold for every bound, and the runs ask the
deeper questions.

Assumptions. Each component names what it assumes of its constants
(`ChannelAssumption`, `BridgeAssumption`, `FrameAssumption`, `ZeroAssumption`,
`BindingAssumption`, `PipelineAssumption`, `PhaseAssumption`, `TextureAssumption`,
`NamesAssumption`, `FrameDataAssumption`, `WeatherEditorAssumption`,
`NobodyAssumption`, `FormTypesAssumption`, `PyramidAssumption`,
`ThresholdAssumption`, `TierAssumption`): that bounds are numbers, special values are apart and the sets that hold them are what they are called;
no set is assumed finite. `FilesAssumption` has the parameter files be lists of
sections, `ProfilesAssumption` a profile's directory a list of lines, `NativeAssumption` the three originals that are looked for at kPostLoad
be no late ones (SKSE loads its plugins before), a directory have its files and another
program's list be a finite text, `LinkAssumption` a file of parameter links be of finite length, and
`GBufferAssumption` what the game compiles be programs: lists of instructions, the
registers apart from the outputs.

Some theorems name a hypothesis of their own. Those about patient clients have `NoWrap`
(fewer calls than sequence numbers) and `Patient` (no client gives up on a call a game
can answer). The first is a true restriction, 2^32 calls; without the second they are
false, as sections 3 and 6 show. That the gates agree needs neither, and that a late
answer is not taken for another call's only `PyOnly`, that the Python client is the one
in use: numbers may run out and the client give up as it likes. `TargetsServe` has that the
game's programs are `Straight`, with one return, at their end, and samples of one texture each, and
`ImportsSurvive` that no name of a section of the list to be imported has an "="
(`PlainHeaders`; with one it is false, section 6).

Arguments. *Channel*: the invariant orders the numbers in the block. A number a
client is about to publish is newer than all that were handled (`NumberFresh`),
so the plugin's gate opens exactly once for it, and while it is open every field
carries the number of that one call or is blank (`PayloadOwn`). The Python client numbers
its calls upward and stops at a number that no longer fits the field, so that a late answer
has a smaller number than the one that is waited for (`PyNumbers`, `PyQuiet`), whatever was
given up in between. *ABI*: whoever is between
two words holds the mutex (`MutexOwner`), hence only the slot that nobody reads
can be part-written (`SlotsWhole`); the index lags the mutex-protected one by at
most the stores of the publisher in progress (`CounterLag`). *Driver*: the
place in the update tells which channels already carry the current one
(`Ordered`), so that a fault leaves a later channel behind an earlier one and never
ahead. *Proxy*: a binding the cache holds
something for is what the context will hold when the passes have gone, unless it
is `stale`; while passes run, that is the backup, which nothing they bind can change. *Phases*: the ranks of a strict total order are a bijection
(a pigeonhole argument over `Cardinality`), hence sorting by rank rearranges the
list without loss; `FlagInv` ties a stage's flag to its executions this frame.
*GPU tier*: a call that binds takes away what is bound
for writing elsewhere, and that is all it can lose (`SetPuts`). While the game draws,
none of its inputs is one of its targets (`Drawing`), so that a restore gives everything
back that its groups cover, in whatever order they come (`InTurnBack`); what they do not
cover the backup of the dispatcher does, and what that omits no pass touches
(`BackupCovers`). Each pass is then described by what it leaves bound, what it writes and
what its draws read: the pyramid level by level (`PyramidBuilt`), the tables of the sky
(`SkyComputed`), the noise and the march of the clouds with their history
(`CloudsExecute`), the composite, which may stop half way (`Executed`), and the stage that runs
those that came up, the pyramid first (`StageRuns`). What these descriptions ask for is
kept from one step to the next: the list has a pass only when it was made and has it
once (`PassInv`), a renderer is up only with all its shaders (`LoaderInv`, `SunInv`), the
history is of the last march (`FrameInv`). `Configs` may turn on the sky and the clouds
together; then the thread that compiles the clouds' shaders adds to the vector that the
frames look shaders up in (`ComputeManager.cpp:80,88-89`), without a lock. The model
takes each such call as one step and the theorems hold at that grain; what a
reallocation under a reader does is not modelled, and the run keeps to one renderer at a
time.
*Textures*: nothing on the disk is newer than now (`InThePast`), so that an edit
outdates every file made before it. The holder of the mutex has passed missing
sources only, and what it converts it has not converted in that version
(`Resolved`). A cache nobody is writing was made of a source that any later edit,
of it or of a preferred one, makes look newer (`CacheIsWhole`, `MadeOf`): when it
looks fresh it is the one to serve. For the scan, the entries it has visited need
nothing done (`Scanned`). All this holds until a foreign step sets `disturbed`.
*Frame data*: a tracker that is not tried is disabled, and it was an error that
disabled it, so one without errors has had its turn whenever the game was not loading.
What ENB was sent last is the body of the region: a group that is not dirty needs no
push. A name of a parameter leads to its last section, which is the last one pushed to its
place.
*Editor*: a snapshot is of the weather it names, field by field; what is applied is
that snapshot or the original of its target. While no two threads are at it, a capture, a
reload or an apply that is under way is one thread's, and its last step finds what its
first step left. *Native parts*: the list in
place is that of the file the router takes for active, and this is the one wanted where
the last copy could be made; a reference is to a
form of its name; who stands down was seen to be there.
An imported routing is what `EmitRouting` writes of a list nobody changes. A loop over a
text is a function of the lines taken (`TextFold`, and likewise for tokens, selections and
identifiers); with that the document of a written routing is given line by line
(`RoutingDocument`), each line read as its entry and the entry as its rule
(`RuleReadBack`, `IDsReadBack`), and what was read of a legacy section is such a rule
(`LegacyRead`). *Parameter links*: the values after each line of an update are those of the
lines so far; a name that is assigned once and uses names above it only has, at the end,
what its line computes from the values at the end.
*G-buffer*: the patched program runs as the original does up to the moves, and these
write outputs that the original has none of; hence the game's image. The moves read the
registers that the first samples wrote, so that each target gets what it is for.

Only model-checked: liveness (`RequestsAnswered`), which is beyond the prover as is
`ENABLED`; that records have what the lines of the profiles say (`RecordsAsWritten`), a
comparison of two readings of a text; and that the parser compiles what was meant (`CompiledAsMeant`): the parser is
`RECURSIVE` operators, in a module reached by no proof, and what it computes for every
text would be an induction over texts. The library's induction theorems take an
operator, which the provers cannot instantiate. Where a proof needs induction over
numbers, as for runs of a program and texts of lists, it takes the least
counterexample instead (`LeastNatural`, from the well-foundedness of the naturals).

## 6. Where code and text disagree

One run checks what the repository says of itself, and fails:

- `shipped_weatherlist`: `config/WeatherRouting.example.ini:24` has the shipped list
  kept as a backup and restored where no route applies;
  `WorldspaceWeatherlist.cpp:140-146,168-170` takes the backup from what is in place
  when the session first routes, which after a session that ended in a routed
  worldspace is that route's list.

Further disagreements, and surprises the models contain that no run singles out.

*Channel.* `SB_CommandLayout.h:16-17` has every field "stable before the publishing
store"; a client that times out and retries (`sb_command_client.py:83-94`) rewrites
the request under dispatch. The C++ client numbers a call by the last answer
(`SkyrimBridgeClient.h:70`), so the call after one that timed out can take the
earlier one's late answer. Both are why the theorems assume patience. `Poll` is reached only
near the end of an update (`main.cpp:355`): one that faults earlier skips it, and five in a row
disable the updates (`:423-424`), after which a request waits for the game world to load.

*Driver.* kPostLoadGame re-enables updates with two plain stores
(`main.cpp:688-692`), between which the fault handler can disable them again.

*Proxy.* After a dispatch the cache is reset to D3D11's defaults
(`WrappedContext.cpp:64`, from `D3D11Hook.cpp:201,204`) while the context is restored to
the game's bindings, so that a return to a default that follows is dropped. A new
entry's shadow is zeroes whatever the buffer holds (`CBDirtyTracker.cpp:39`), so that a
first write of zeroes is dropped. `OnlyDefaultsLost` and `OnlyZeroesLost` are the
other side: nothing beyond that is ever lost. The copy of the scene is not made anew
after a resize, and its flag is published after the callbacks that would use it. The
dispatcher raises its flags before it resets the frame (`PhaseDispatcher.cpp:34-37`) with the
callback registered already (`D3D11Hook.cpp:306`): a stage that runs in between is forgotten,
and may run again in that frame. `RanOnce` excepts those stages in that frame.

*G-buffer.* A patched program writes its outputs before the last return only, from
the registers its first samples wrote: an early return, or a register written
again, leaves other contents in the targets (`MaterialPipeline.cpp:699`), and operands
with extended tokens are not recognised. The new elements of the output signature are
written where the names of the old ones are (`:734-756`, from `8+osgnElements*24` on), and no
offset is moved: the name they "reuse" (`:741`), "SV_Target1..3" of
`MaterialPipeline.h:13`, is overwritten. The model overwrites it too (`PatchedNames`), leaves
open whether the device takes the program (`MayBeCreated`), and `TargetsHoldTheirKind` is of
the output registers of one that it takes. A resize to a size with a zero in it, which stands
for that of the window, does not reach the targets (`WrappedSwapChain.cpp:546,820`). After a resize or a switch the
published views dangle or are stale until the next Present. If the albedo target
cannot be made, the other two are lost at every Present (`:211`).

*Trackers.* A tracker that fails its retry keeps the old frame of its disabling
(`main.cpp:182,210`) and is retried on every frame. `LightTracker` looks at the first
64 candidates, which need not hold the nearest (`BridgeData.h:209`). Written-back values are written
before the record is sanitized, and a smoothed one stays NaN once it is.
A parameter that ENB refused is remembered as sent (`ENBInterface.cpp:156,163,181`).
Weather parameters are pushed by shader file, group and name
(`WeatherParameterComputer.cpp:354-359`) and looked up by the name alone (`:236`): where a
name stands in two files or groups, a reader gets the value of the last section, and the
other shader keeps its own. `ReadersAgree` compares with the last section's place.

*GPU tier.* The clouds never draw, although `GPU.ini:7-9` and `docs/GPU.md:19-22`
have them come online: `m_enabled` is false (`VolumetricClouds.h:82`) and `SetEnabled`
has no caller. The models switch them on, so as to say something of the pass.
`docs/GPU.md:7` has the tier off by default; `main.cpp:95` and `GPU.ini:24` have it on.
Slots filled by `SRVInjector` are emptied at present time and not given back, against
`D3D11Hook.cpp:206`. After a resize the depth offered is that of the old size. The sky is recomputed when the sun's
zenith has changed (`AtmosphereRenderer.cpp:617-618`), though tables and bodies use its
azimuth too (`:637,704,355`); and what `main.cpp:329-332` passes as zenith is the y of the
direction, where `CelestialTracker.cpp:91` keeps the elevation in z. A sun that moves with y
unchanged moves unseen; `SkyFollowsSun` is of what is passed as zenith.

*Editor.* `USER-GUIDE.md:70-71` has the compare flag show the original weather; what it
shows is what was captured last. Nothing keeps the natives out of the steps of
an update (`WeatherEditor.cpp:345`). In the model they come at any step. When one is in an
operation on the snapshot while the update is in another and one of the two changes it, that
is a data race, after which a field can have passed from one weather to another:
`NoForeignValues` is of the behaviours up to there, and `GameShowsSnapshot` resumes with the
next capture that has nobody in its way. Profiles, dumps and write-back rules write the same
records past the editor (`PapyrusBridge.cpp:170,218,243`): the game then shows theirs, and
`GameShowsSnapshot` is of the other fields. A line removed from
a preset keeps its edit on hot reload.

*Native parts.* One static `func` holds the original `SetFormEditorID` of every hooked
type (`EditorIDCache.cpp:94,99-101`): the last one hooked serves all. With an outside
provider of names every lookup overwrites one buffer. A plugin that KiLoader
brings in after kDataLoaded is not seen, and both then own the feature. A weather list that is
missing or locked is not tried again while the player stays, though it may have come or been
unlocked, as the worldspace is noted first (`WorldspaceWeatherlist.cpp:190-202`): the list of an
earlier worldspace stays in place, and `ActiveListInPlace` says which. An interior at the start of a
session has the number that means none (`WorldspaceWeatherlist.h`), and gets no list. Others
may add, remove, lock and unlock lists in the model; that they write over the one in place is
left out. A rule is imported under the name of its section,
unescaped (`WorldspaceWeatherlist.cpp:56,75`): an "=" in it would end the label when the
routing is read. Image spaces are written whole,
omitted keys as zeroes. `KreateRecords.h:38` says that ID and Optional are
stripped from the body; they stay in it, unread.

*Textures.* A miss is remembered for the session; a partly written .dds stays under
its final name after a crash.

## 7. What is not modelled

The status of each component, with a note, is in `PROJECT.json`. Within the modelled
components: code without a caller in the repository (`SetPassEnabled`,
`RemovePass`, most `Shutdown`s, `RegisterSkyShaderHash`, `DeletePreset`, `ListPresets`,
`SetPreviewToD`, ParmLink's `CheckHotReload`); the proxy's safe mode, where nothing
is hooked; the depth capture at the end of a frame; other textures than one; an
exception that leaves `RunScan`; parsing of write-back rules; what shaders compute.

Not modelled at all:

- *occlusion culler*: a read-back one frame late, whose answer nothing in the
  repository asks for;
- *asset codecs*: functions over bytes and floating-point geometry without state
  between calls; inputs small enough to enumerate do not reach past their headers;
- *engine reflection, region walker, cell report, model spawning*: tables of offsets
  into the engine's memory, which is not this program's state; they are the
  effect of a command in `CommandChannel`;
- *script report*: requests to the script engine, which is not in the repository;
- *sky lighting per frame, light fix detour*: arithmetic on the engine's colours and
  lights; who owns them is modelled (`CompatDetect`);
- *engine fixes*: byte patches at start; *diagnostics*: recording and logging, whose
  frame hooks have no caller;
- *readers of the shared region*: other processes that are not in the
  repository; with no sequence lock a reader can see a torn body;
- forwarding and reference counts of `WrappedDevice`, shaders, scripts, validators.

## 8. Plan

Most important first: the interfaces other programs rely on, then what runs inside
every frame, then the rest.

1. `CommandChannel`, refining `CommandRpc`. Done, proved.
2. `BridgeApi`, refining `SnapshotCell`. Done, proved.
3. `FrameDriver`. Done, proved.
4. `CBDirtyTracker` and `ProxyContext`. Done, proved.
5. `RenderPipeline` and `RenderPhases`. Done, proved.
6. `TextureConversion`. Done, proved.
7. `Trackers`, `WeatherParams`, `FrameData`. Done, proved.
8. `WeatherEditor`. Done, proved.
9. `ShaderPatch` and `GBuffer`. Done, proved. `GpuTier` with its parts. Done,
   proved.
10. `ParmLink`, `SBConfig`, the native parts. Done, proved but for the parser.
11. Left to model: sky lighting's blending between weathers; the occlusion culler's
    read-back against resize; canonical Huffman codes of `Inflate`.
