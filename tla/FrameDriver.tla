----------------------------- MODULE FrameDriver -----------------------------
(***************************************************************************)
(* The plugin's life and its per-frame update (core/main.cpp), with the    *)
(* present hook that drives it when ENB does not (core/D3D11Hook.cpp).     *)
(* The main thread brings the plugin up from SKSE messages and revives the *)
(* updates when a game is loaded; the frame thread measures the game and   *)
(* publishes the measurement to four channels, and may meet an access      *)
(* violation wherever engine memory is read.  A measurement is abstracted  *)
(* to the number of the update that took it and to whether it is finite.   *)
(***************************************************************************)
EXTENDS Naturals

CONSTANTS
  MaxUpdates,    \* bound: updates begun
  MaxFaults,     \* 5 in the code: faults in a row before updates are disabled
  MaxCrashes     \* 3 in the code: faults in a row before the overlay is disabled

ASSUME FrameAssumption ==
  /\ MaxUpdates \in Nat
  /\ MaxFaults \in Nat \ {0} /\ MaxCrashes \in Nat \ {0}

VARIABLES
  mpc, enbDrives, hooked, gameReady,     \* main thread, who drives, what is up
  fpc, caller, seen,                     \* frame thread: where, for whom, a loaded count
  data,                                  \* the live AllData block
  frameCount, avCount, updateDisabled,
  crashes, overlayDisabled,
  enb, snapshot, shared, papyrus,        \* what each channel last published
  frameIndex, teardown,                  \* core/BridgeApi.cpp
  sharedActive, sharedCount, command,    \* shared memory and command channel
  updates, measured, turn, exited, streak \* observation

main     == <<mpc, enbDrives, hooked, gameReady>>
faulting == <<seen, avCount, updateDisabled, streak>>
overlay  == <<crashes, overlayDisabled>>
api      == <<snapshot, frameIndex, teardown>>
sharing  == <<shared, sharedActive, sharedCount>>
channels == <<api, sharing, enb, papyrus, command>>
pace     == <<updates, measured, turn>>
vars     == <<main, fpc, caller, data, frameCount, faulting, overlay, channels,
              pace, exited>>

Measurement == [update : 0 .. MaxUpdates, finite : BOOLEAN]
NoData      == [update |-> 0, finite |-> TRUE]

\* DoFrameUpdate, step by step; engine memory is read in the Faulting ones.
UpdateSteps == {"collect", "sanitize", "push", "publish", "compute", "header",
                "body", "link", "papyrus", "tail", "count"}
Faulting    == {"collect", "compute", "body", "link", "tail"}

TypeOK ==
  /\ mpc \in {"enb", "shared", "command", "hook", "ready", "idle", "revive"}
  /\ fpc \in UpdateSteps \cup {"idle", "catch", "judge", "passes"}
  /\ caller \in {"callback", "present"} /\ turn \in {"present", "begin"}
  /\ enbDrives \in BOOLEAN /\ hooked \in BOOLEAN /\ gameReady \in BOOLEAN
  /\ updateDisabled \in BOOLEAN /\ overlayDisabled \in BOOLEAN
  /\ teardown \in BOOLEAN /\ sharedActive \in BOOLEAN /\ command \in BOOLEAN
  /\ exited \in BOOLEAN
  /\ data \in Measurement /\ enb \in Measurement /\ snapshot \in Measurement
  /\ shared \in Measurement /\ papyrus \in Measurement
  /\ updates \in 0 .. MaxUpdates /\ streak \in 0 .. MaxUpdates
  /\ frameCount \in 0 .. MaxUpdates /\ frameIndex \in 0 .. MaxUpdates
  /\ sharedCount \in 0 .. MaxUpdates
  /\ avCount \in 0 .. MaxUpdates /\ seen \in 0 .. MaxUpdates
  /\ crashes \in 0 .. MaxCrashes /\ measured \in 0 .. 1

Init ==
  /\ mpc = "enb" /\ enbDrives = FALSE /\ hooked = FALSE /\ gameReady = FALSE
  /\ fpc = "idle" /\ caller = "callback" /\ seen = 0
  /\ data = NoData
  /\ frameCount = 0 /\ avCount = 0 /\ updateDisabled = FALSE
  /\ crashes = 0 /\ overlayDisabled = FALSE
  /\ enb = NoData /\ snapshot = NoData /\ shared = NoData /\ papyrus = NoData
  /\ frameIndex = 0 /\ teardown = FALSE
  /\ sharedActive = FALSE /\ sharedCount = 0 /\ command = FALSE
  /\ updates = 0 /\ measured = 0 /\ turn = "present" /\ exited = FALSE /\ streak = 0

-----------------------------------------------------------------------------
(* Main thread: OnMessage.                                                 *)

\* kPostPostLoad: ENB is there or it is not; if it is, its callback drives.
PostPostLoad ==
  /\ mpc = "enb"
  /\ enbDrives' \in BOOLEAN
  /\ mpc' = "shared"
  /\ UNCHANGED <<hooked, gameReady, fpc, caller, data, frameCount, faulting, overlay,
                 channels, pace, exited>>

\* kDataLoaded, in its order: channels (each may fail or be off), hook, flag.
OpenShared ==
  /\ mpc = "shared"
  /\ sharedActive' \in BOOLEAN
  /\ mpc' = "command"
  /\ UNCHANGED <<enbDrives, hooked, gameReady, fpc, caller, data, frameCount, faulting,
                 overlay, api, shared, sharedCount, enb, papyrus, command, pace, exited>>

OpenCommand ==
  /\ mpc = "command"
  /\ command' \in BOOLEAN
  /\ mpc' = "hook"
  /\ UNCHANGED <<enbDrives, hooked, gameReady, fpc, caller, data, frameCount, faulting,
                 overlay, api, sharing, enb, papyrus, pace, exited>>

\* The GPU tier may be off in GPU.ini, or the hook may fail.
InstallHook ==
  /\ mpc = "hook"
  /\ hooked' \in BOOLEAN
  /\ mpc' = "ready"
  /\ UNCHANGED <<enbDrives, gameReady, fpc, caller, data, frameCount, faulting, overlay,
                 channels, pace, exited>>

SetGameReady ==
  /\ mpc = "ready"
  /\ gameReady' = TRUE
  /\ mpc' = "idle"
  /\ UNCHANGED <<enbDrives, hooked, fpc, caller, data, frameCount, faulting, overlay,
                 channels, pace, exited>>

\* kNewGame and kPostLoadGame: two plain stores, with no lock and no order
\* that the frame thread is bound to see them in as one.
Revive ==
  /\ mpc = "idle" /\ updateDisabled
  /\ updateDisabled' = FALSE
  /\ mpc' = "revive"
  /\ UNCHANGED <<enbDrives, hooked, gameReady, fpc, caller, data, frameCount, seen,
                 avCount, streak, overlay, channels, pace, exited>>

ReviveCount ==
  /\ mpc = "revive"
  /\ avCount' = 0
  /\ mpc' = "idle"
  /\ UNCHANGED <<enbDrives, hooked, gameReady, fpc, caller, data, frameCount, seen,
                 updateDisabled, streak, overlay, channels, pace, exited>>

\* WM_DESTROY in the hooked window procedure, on the window's thread.
WindowDestroyed ==
  /\ mpc = "idle" /\ hooked
  /\ ~enbDrives
  /\ teardown' = TRUE
  /\ UNCHANGED <<main, fpc, caller, data, frameCount, faulting, overlay, snapshot,
                 frameIndex, sharing, enb, papyrus, command, pace, exited>>

-----------------------------------------------------------------------------
(* Frame thread: who calls RunFrameUpdate.                                 *)

\* Both early returns of RunFrameUpdate.
UpdateRuns    == gameReady /\ ~updateDisabled

StartUpdate(from) ==
  /\ updates < MaxUpdates
  /\ updates' = updates + 1
  /\ fpc' = "collect" /\ caller' = from

\* ENB's BeginFrame callback, once after each present.
BeginFrame ==
  /\ fpc = "idle" /\ turn = "begin"
  /\ turn' = "present"
  /\ \/ enbDrives /\ UpdateRuns /\ StartUpdate("callback") /\ measured' = measured + 1
     \/ ~(enbDrives /\ UpdateRuns) /\ UNCHANGED <<fpc, caller, updates, measured>>
  /\ UNCHANGED <<main, data, frameCount, faulting, overlay, channels, exited>>

\* One present.  With the hook in and the overlay alive it runs DoOverlayWork:
\* the update, unless ENB drives it or F8 has switched it off, then the passes.
StandaloneAlways == UpdateRuns
StandaloneRuns   == ~enbDrives /\ UpdateRuns

Present ==
  /\ fpc = "idle" /\ turn = "present"
  /\ turn' = "begin"
  /\ \/ /\ hooked /\ ~overlayDisabled
        /\ \/ StandaloneRuns /\ StartUpdate("present") /\ measured' = 1
           \/ fpc' = "passes" /\ measured' = 0 /\ UNCHANGED <<caller, updates>>
     \/ /\ ~hooked \/ overlayDisabled
        /\ measured' = 0 /\ UNCHANGED <<fpc, caller, updates>>
  /\ UNCHANGED <<main, data, frameCount, faulting, overlay, channels, exited>>

Return == fpc' = IF caller = "present" THEN "passes" ELSE "idle"

CrashLimit       == crashes + 1 >= MaxCrashes

\* The passes run under the overlay's own handler, which counts to MaxCrashes.
PassesDone ==
  /\ fpc = "passes"
  /\ fpc' = "idle" /\ crashes' = 0
  /\ UNCHANGED <<main, caller, data, frameCount, faulting, overlayDisabled, channels,
                 pace, exited>>

PassesCrash ==
  /\ fpc = "passes"
  /\ fpc' = "idle" /\ crashes' = crashes + 1
  /\ overlayDisabled' = (overlayDisabled \/ CrashLimit)
  /\ UNCHANGED <<main, caller, data, frameCount, faulting, channels, pace, exited>>

-----------------------------------------------------------------------------
(* Frame thread: DoFrameUpdate.                                            *)

At(step)   == fpc = step
GoTo(step) == fpc' = step

CacheFirst(step) ==
  CASE step = "collect" -> "sanitize" [] step = "sanitize" -> "papyrus"
    [] step = "papyrus" -> "push"     [] step = "push"     -> "publish"
    [] step = "publish" -> "compute"  [] step = "compute"  -> "header"
    [] step = "header"  -> "body"     [] step = "body"     -> "link"
    [] step = "link"    -> "tail"     [] step = "tail"     -> "count"

After(step) ==
  CASE step = "collect" -> "sanitize" [] step = "sanitize" -> "push"
    [] step = "push"    -> "publish"  [] step = "publish"  -> "compute"
    [] step = "compute" -> "header"   [] step = "header"   -> "body"
    [] step = "body"    -> "link"     [] step = "link"     -> "papyrus"
    [] step = "papyrus" -> "tail"     [] step = "tail"     -> "count"

\* The trackers and the write-back rules fill the live block with anything.
Collect ==
  /\ At("collect")
  /\ \E finite \in BOOLEAN : data' = [update |-> updates, finite |-> finite]
  /\ GoTo(After("collect"))
  /\ UNCHANGED <<main, caller, frameCount, faulting, overlay, channels, pace, exited>>

Sanitized   == [data EXCEPT !.finite = TRUE]

SanitizeAllData ==
  /\ At("sanitize")
  /\ data' = Sanitized
  /\ GoTo(After("sanitize"))
  /\ UNCHANGED <<main, caller, frameCount, faulting, overlay, channels, pace, exited>>

PushAllData ==
  /\ At("push")
  /\ enb' = IF enbDrives THEN data ELSE enb
  /\ GoTo(After("push"))
  /\ UNCHANGED <<main, caller, data, frameCount, faulting, overlay, api, sharing,
                 papyrus, command, pace, exited>>

NextIndex   == frameIndex + 1

\* MarkFramePublished; BridgeApi.tla has its steps and its mutex.
MarkFramePublished ==
  /\ At("publish")
  /\ IF teardown
       THEN UNCHANGED <<snapshot, frameIndex>>
       ELSE snapshot' = data /\ frameIndex' = NextIndex
  /\ GoTo(After("publish"))
  /\ UNCHANGED <<main, caller, data, frameCount, faulting, overlay, teardown, sharing,
                 enb, papyrus, command, pace, exited>>

\* Steps that leave the four channels alone: WeatherParameterComputer, the
\* command poll with the queued reports and ParmLink, the weather workshop.
Consume(step) ==
  /\ At(step) /\ GoTo(After(step))
  /\ UNCHANGED <<main, caller, data, frameCount, faulting, overlay, channels, pace, exited>>

WriteAnyway == TRUE
WriteActive == sharedActive

\* WriteFrame stores the frame counter, reads the sky, then copies the block.
WriteHeader ==
  /\ At("header")
  /\ \/ WriteActive /\ sharedCount' = frameCount /\ GoTo(After("header"))
     \/ ~WriteActive /\ UNCHANGED sharedCount /\ GoTo(After("body"))
  /\ UNCHANGED <<main, caller, data, frameCount, faulting, overlay, api, shared,
                 sharedActive, enb, papyrus, command, pace, exited>>

WriteBody ==
  /\ At("body")
  /\ shared' = data
  /\ GoTo(After("body"))
  /\ UNCHANGED <<main, caller, data, frameCount, faulting, overlay, api, sharedActive,
                 sharedCount, enb, papyrus, command, pace, exited>>

UpdateCache ==
  /\ At("papyrus")
  /\ papyrus' = data
  /\ GoTo(After("papyrus"))
  /\ UNCHANGED <<main, caller, data, frameCount, faulting, overlay, api, sharing, enb,
                 command, pace, exited>>

CountClear == 0

\* The frame counter advances last, and a whole update clears the fault count.
FinishUpdate ==
  /\ At("count")
  /\ frameCount' = frameCount + 1
  /\ avCount' = CountClear /\ streak' = 0
  /\ Return
  /\ UNCHANGED <<main, caller, data, seen, updateDisabled, overlay, channels, pace, exited>>

\* The structured handler of RunFrameUpdate: whatever the update had done by
\* then stays done.  A fault among the trackers leaves their part of the block.
Fault ==
  /\ fpc \in Faulting
  /\ \/ At("collect") /\ \E finite \in BOOLEAN :
          data' = [update |-> updates, finite |-> finite]
     \/ UNCHANGED data
  /\ seen' = avCount
  /\ GoTo("catch")
  /\ UNCHANGED <<main, caller, frameCount, avCount, updateDisabled, streak, overlay,
                 channels, pace, exited>>

Catch ==
  /\ At("catch")
  /\ avCount' = seen + 1 /\ streak' = streak + 1
  /\ GoTo("judge")
  /\ UNCHANGED <<main, caller, data, frameCount, seen, updateDisabled, overlay, channels,
                 pace, exited>>

Judge ==
  /\ At("judge")
  /\ updateDisabled' = (updateDisabled \/ avCount >= MaxFaults)
  /\ Return
  /\ UNCHANGED <<main, caller, data, frameCount, seen, avCount, streak, overlay,
                 channels, pace, exited>>

\* ENB's OnExit callback.  The game leaves its message loop first, so kDataLoaded
\* is over; the callbacks and the presents may go on.
OnExit ==
  /\ At("idle") /\ enbDrives /\ mpc = "idle"
  /\ teardown' = TRUE
  /\ sharedActive' = FALSE /\ command' = FALSE
  /\ exited' = TRUE
  /\ UNCHANGED <<main, fpc, caller, data, frameCount, faulting, overlay, snapshot,
                 frameIndex, shared, sharedCount, enb, papyrus, pace>>

-----------------------------------------------------------------------------
OnMessage == PostPostLoad \/ OpenShared \/ OpenCommand \/ InstallHook \/ SetGameReady
               \/ Revive \/ ReviveCount

DoFrameUpdate ==
  \/ Collect \/ SanitizeAllData \/ PushAllData \/ MarkFramePublished
  \/ Consume("compute") \/ Consume("link") \/ Consume("tail")
  \/ WriteHeader \/ WriteBody \/ UpdateCache \/ FinishUpdate

Next == \/ OnMessage \/ WindowDestroyed
        \/ BeginFrame \/ Present \/ PassesDone \/ PassesCrash \/ OnExit
        \/ DoFrameUpdate \/ Fault \/ Catch \/ Judge

Spec == Init /\ [][Next]_vars

-----------------------------------------------------------------------------
(* Properties.                                                             *)

\* No channel ever carries a NaN or an infinity ("Prevents corrupt floats from
\* propagating to ENB shaders or shared memory"), whatever update was cut short.
FinitePublished ==
  enb.finite /\ snapshot.finite /\ shared.finite /\ papyrus.finite

\* A later channel is never ahead of an earlier one: whoever has seen an update
\* through Papyrus finds it in shared memory, in the ABI and in ENB, also after
\* faults that cut updates short at any step.
ChannelsInOrder ==
  ~teardown =>
    /\ papyrus.update <= snapshot.update
    /\ sharedActive => papyrus.update <= shared.update /\ shared.update <= snapshot.update
    /\ enbDrives => snapshot.update <= enb.update

\* "the frame is never measured twice": at most one update between two presents,
\* whichever of the callback and the hook drives.
MeasuredOnce == measured <= 1

\* No update runs before kDataLoaded has brought every subsystem up.
ReadyMeansInitialised == fpc \in UpdateSteps => mpc \in {"idle", "revive"}

\* Scattered faults do not stop the updates: they are disabled only by an unbroken
\* run of MaxFaults faulting updates, however recovery interleaves.
DisabledByStreak == updateDisabled => streak >= MaxFaults

\* The three counters a consumer can see: shared memory never shows a number the
\* driver has not reached, and the ABI has published every update counted.
CountersAgree ==
  /\ sharedCount <= frameCount
  /\ ~teardown => frameCount <= frameIndex
  /\ frameIndex <= snapshot.update

\* Nothing is published through the ABI or shared memory after ENB's exit, though
\* the frame updates themselves are not stopped.
QuietAfterExit == [][exited => UNCHANGED <<api, sharing, command>>]_vars

=============================================================================
