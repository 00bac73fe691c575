-------------------------- MODULE FrameDriverProofs --------------------------
(***************************************************************************)
(* Proofs about FrameDriver, for any number of updates and any fault and   *)
(* crash limits.  The inductive invariant has one part per property: what  *)
(* each part needs beyond the property is where the frame thread is.       *)
(***************************************************************************)
EXTENDS FrameDriver, TLAPS

Running == UpdateSteps \cup {"catch", "judge"}   \* inside RunFrameUpdate
Clean   == UpdateSteps \ {"collect", "sanitize"} \* after SanitizeAllData
Unpublished == {"collect", "sanitize", "push", "publish"}
Published   == UpdateSteps \ Unpublished         \* after MarkFramePublished
Shared      == {"link", "papyrus", "tail", "count"} \* after WriteFrame

Flags ==
  /\ enbDrives \in BOOLEAN /\ hooked \in BOOLEAN /\ gameReady \in BOOLEAN
  /\ updateDisabled \in BOOLEAN /\ overlayDisabled \in BOOLEAN
  /\ teardown \in BOOLEAN /\ sharedActive \in BOOLEAN /\ command \in BOOLEAN
  /\ exited \in BOOLEAN

Values ==
  /\ mpc \in {"enb", "shared", "command", "hook", "ready", "idle", "revive"}
  /\ fpc \in UpdateSteps \cup {"idle", "catch", "judge", "passes"}
  /\ caller \in {"callback", "present"} /\ turn \in {"present", "begin"}
  /\ data \in Measurement /\ enb \in Measurement /\ snapshot \in Measurement
  /\ shared \in Measurement /\ papyrus \in Measurement
  /\ updates \in 0 .. MaxUpdates /\ streak \in 0 .. MaxUpdates
  /\ frameCount \in 0 .. MaxUpdates /\ frameIndex \in 0 .. MaxUpdates
  /\ sharedCount \in 0 .. MaxUpdates
  /\ avCount \in 0 .. MaxUpdates /\ seen \in 0 .. MaxUpdates
  /\ crashes \in 0 .. MaxCrashes /\ measured \in 0 .. 1

Finite ==
  /\ FinitePublished
  /\ fpc \in Clean => data.finite

\* Before kDataLoaded is over nothing has been measured.
Waiting ==
  /\ gameReady => mpc \in {"idle", "revive"}
  /\ fpc \in Running => gameReady
  /\ ~gameReady => updates = 0 /\ measured = 0
  /\ exited => mpc \in {"idle", "revive"}

Paced ==
  /\ measured \in 0 .. 1
  /\ turn = "begin" /\ enbDrives => measured = 0

Silent ==
  /\ exited => teardown /\ ~sharedActive /\ ~command
  /\ fpc = "body" => sharedActive

Faults ==
  /\ avCount <= streak /\ streak <= updates
  /\ fpc = "catch" => seen <= streak
  /\ updateDisabled => streak >= MaxFaults
  /\ fpc \in Running => ~updateDisabled
  /\ fpc \in UpdateSteps \cup {"catch"} => streak < updates

Crashing ==
  /\ ~overlayDisabled => crashes < MaxCrashes
  /\ fpc = "passes" \/ (fpc \in Running /\ caller = "present") => ~overlayDisabled

Ordered ==
  /\ enb.update <= updates /\ snapshot.update <= updates
  /\ shared.update <= updates /\ papyrus.update <= updates
  /\ fpc \in UpdateSteps \ {"collect"} => data.update = updates
  /\ fpc \in Unpublished => snapshot.update < updates
  /\ enbDrives /\ fpc \in {"publish"} \cup Published => enb.update = updates
  /\ ~teardown /\ fpc \in Published => snapshot.update = updates
  /\ sharedActive /\ fpc \in Shared => shared.update = updates
  /\ ChannelsInOrder

Counted ==
  /\ sharedCount <= frameCount
  /\ frameIndex <= snapshot.update
  /\ frameCount <= updates
  /\ fpc \in UpdateSteps => frameCount < updates
  /\ ~teardown => frameCount <= frameIndex
  /\ ~teardown /\ fpc \in Published => frameCount < frameIndex

IInv == /\ TypeOK /\ Finite /\ Waiting /\ Paced /\ Silent
        /\ Faults /\ Crashing /\ Ordered /\ Counted

-----------------------------------------------------------------------------
(* The invariant is inductive, part by part.                               *)

LEMMA Afters ==
  /\ After("collect") = "sanitize" /\ After("sanitize") = "push"
  /\ After("push") = "publish" /\ After("publish") = "compute"
  /\ After("compute") = "header" /\ After("header") = "body" /\ After("body") = "link"
  /\ After("link") = "papyrus" /\ After("papyrus") = "tail" /\ After("tail") = "count"
BY DEF After

LEMMA NextFlags == ASSUME IInv, [Next]_vars PROVE Flags'
<1> USE DEF main, faulting, overlay, api, sharing, channels, pace
<1>0. Flags BY DEF IInv, TypeOK, Flags
<1>1. CASE OnMessage
  <2>1. CASE PostPostLoad
    BY <1>0, <2>1 DEF PostPostLoad, Flags
  <2>2. CASE OpenShared
    BY <1>0, <2>2 DEF OpenShared, Flags
  <2>3. CASE OpenCommand
    BY <1>0, <2>3 DEF OpenCommand, Flags
  <2>4. CASE InstallHook
    BY <1>0, <2>4 DEF InstallHook, Flags
  <2>5. CASE SetGameReady
    BY <1>0, <2>5 DEF SetGameReady, Flags
  <2>6. CASE Revive
    BY <1>0, <2>6 DEF Revive, Flags
  <2>7. CASE ReviveCount
    BY <1>0, <2>7 DEF ReviveCount, Flags
  <2> QED BY <1>1, <2>1, <2>2, <2>3, <2>4, <2>5, <2>6, <2>7 DEF OnMessage
<1>2. CASE WindowDestroyed
  BY <1>0, <1>2 DEF WindowDestroyed, Flags
<1>3. CASE BeginFrame \/ Present \/ PassesDone \/ PassesCrash \/ OnExit
  <2>1. CASE BeginFrame
    BY <1>0, <2>1 DEF BeginFrame, Flags
  <2>2. CASE Present
    BY <1>0, <2>2 DEF Present, Flags
  <2>3. CASE PassesDone
    BY <1>0, <2>3 DEF PassesDone, Flags
  <2>4. CASE PassesCrash
    BY <1>0, <2>4 DEF PassesCrash, Flags
  <2>5. CASE OnExit
    BY <1>0, <2>5 DEF OnExit, Flags
  <2> QED BY <1>3, <2>1, <2>2, <2>3, <2>4, <2>5
<1>4. CASE DoFrameUpdate
  <2>1. CASE Collect
    BY <1>0, <2>1 DEF Collect, Flags
  <2>2. CASE SanitizeAllData
    BY <1>0, <2>2 DEF SanitizeAllData, Flags
  <2>3. CASE PushAllData
    BY <1>0, <2>3 DEF PushAllData, Flags
  <2>4. CASE MarkFramePublished
    BY <1>0, <2>4 DEF MarkFramePublished, Flags
  <2>5. CASE Consume("compute")
    BY <1>0, <2>5 DEF Consume, Flags
  <2>6. CASE Consume("link")
    BY <1>0, <2>6 DEF Consume, Flags
  <2>7. CASE Consume("tail")
    BY <1>0, <2>7 DEF Consume, Flags
  <2>8. CASE WriteHeader
    BY <1>0, <2>8 DEF WriteHeader, Flags
  <2>9. CASE WriteBody
    BY <1>0, <2>9 DEF WriteBody, Flags
  <2>10. CASE UpdateCache
    BY <1>0, <2>10 DEF UpdateCache, Flags
  <2>11. CASE FinishUpdate
    BY <1>0, <2>11 DEF FinishUpdate, Flags
  <2> QED BY <1>4, <2>1, <2>2, <2>3, <2>4, <2>5, <2>6, <2>7, <2>8, <2>9, <2>10, <2>11 DEF DoFrameUpdate
<1>5. CASE Fault \/ Catch \/ Judge
  <2>1. CASE Fault
    BY <1>0, <2>1 DEF Fault, Flags
  <2>2. CASE Catch
    BY <1>0, <2>2 DEF Catch, Flags
  <2>3. CASE Judge
    BY <1>0, <2>3 DEF Judge, Flags
  <2> QED BY <1>5, <2>1, <2>2, <2>3
<1>6. CASE UNCHANGED vars
  BY <1>0, <1>6 DEF vars, Flags
<1> QED BY <1>1, <1>2, <1>3, <1>4, <1>5, <1>6 DEF Next

LEMMA NextValues == ASSUME IInv, [Next]_vars PROVE Values'
<1> USE FrameAssumption DEF FrameAssumption, IInv, main, faulting, overlay, api,
        sharing, channels, pace
<1>1. CASE OnMessage
  BY <1>1 DEF OnMessage, PostPostLoad, OpenShared, OpenCommand, InstallHook,
       SetGameReady, Revive, ReviveCount, Values, TypeOK, Measurement, UpdateSteps,
       Running, Faults, Crashing, Counted, Paced
<1>2. CASE WindowDestroyed
  BY <1>2 DEF WindowDestroyed, Values, TypeOK, Measurement, UpdateSteps, Running,
       Faults, Crashing, Counted, Paced
<1>3. CASE BeginFrame \/ Present \/ PassesDone \/ PassesCrash \/ OnExit
  BY <1>3 DEF BeginFrame, Present, PassesDone, PassesCrash, OnExit, StartUpdate,
       StandaloneRuns, UpdateRuns, CrashLimit, Return, Values, TypeOK, Measurement,
       UpdateSteps, Running, Faults, Crashing, Counted, Paced
<1>4. CASE DoFrameUpdate
  <2> USE Afters, <1>4 DEF Values, TypeOK, Measurement, UpdateSteps, At, GoTo
  <2>1. CASE Collect
    BY <2>1 DEF Collect
  <2>2. CASE SanitizeAllData
    BY <2>2 DEF SanitizeAllData, Sanitized
  <2>3. CASE PushAllData
    BY <2>3 DEF PushAllData
  <2>4. CASE MarkFramePublished
    BY <2>4 DEF MarkFramePublished, NextIndex, Ordered, Unpublished, Counted
  <2>5. CASE Consume("compute") \/ Consume("link") \/ Consume("tail")
    BY <2>5 DEF Consume
  <2>6. CASE WriteHeader
    BY <2>6 DEF WriteHeader
  <2>7. CASE WriteBody \/ UpdateCache
    BY <2>7 DEF WriteBody, UpdateCache
  <2>8. CASE FinishUpdate
    BY <2>8 DEF FinishUpdate, CountClear, Return, Counted
  <2> QED BY <2>1, <2>2, <2>3, <2>4, <2>5, <2>6, <2>7, <2>8 DEF DoFrameUpdate
<1>5. CASE Fault \/ Catch \/ Judge
  BY <1>5 DEF Fault, Catch, Judge, At, GoTo, Return, Faulting, Values, TypeOK,
       Measurement, UpdateSteps, Running, Faults, Crashing, Counted, Paced
<1>6. CASE UNCHANGED vars
  BY <1>6 DEF vars, Values, TypeOK, Measurement, UpdateSteps, Running, Faults,
       Crashing, Counted, Paced
<1> QED BY <1>1, <1>2, <1>3, <1>4, <1>5, <1>6 DEF Next

LEMMA NextFinite == ASSUME IInv, [Next]_vars PROVE Finite'
<1> USE FrameAssumption DEF FrameAssumption, IInv, main, faulting, overlay, api,
        sharing, channels, pace
<1>1. CASE OnMessage
  BY <1>1 DEF OnMessage, PostPostLoad, OpenShared, OpenCommand, InstallHook,
       SetGameReady, Revive, ReviveCount, TypeOK, Measurement, Finite,
       FinitePublished, Clean, UpdateSteps
<1>2. CASE WindowDestroyed
  BY <1>2 DEF WindowDestroyed, TypeOK, Measurement, Finite, FinitePublished, Clean,
       UpdateSteps
<1>3. CASE BeginFrame \/ Present \/ PassesDone \/ PassesCrash \/ OnExit
  BY <1>3 DEF BeginFrame, Present, PassesDone, PassesCrash, OnExit, StartUpdate,
       StandaloneRuns, UpdateRuns, CrashLimit, Return, TypeOK, Measurement, Finite,
       FinitePublished, Clean, UpdateSteps
<1>4. CASE DoFrameUpdate
  BY Afters, <1>4 DEF DoFrameUpdate, Collect, SanitizeAllData, PushAllData,
       MarkFramePublished, Consume, WriteHeader, WriteBody, UpdateCache, FinishUpdate,
       Sanitized, NextIndex, WriteActive, CountClear, At, GoTo, Return, TypeOK,
       Measurement, Finite, FinitePublished, Clean, UpdateSteps
<1>5. CASE Fault \/ Catch \/ Judge
  BY <1>5 DEF Fault, Catch, Judge, At, GoTo, Return, Faulting, TypeOK, Measurement,
       Finite, FinitePublished, Clean, UpdateSteps
<1>6. CASE UNCHANGED vars
  BY <1>6 DEF vars, TypeOK, Measurement, Finite, FinitePublished, Clean, UpdateSteps
<1> QED BY <1>1, <1>2, <1>3, <1>4, <1>5, <1>6 DEF Next

LEMMA NextWaiting == ASSUME IInv, [Next]_vars PROVE Waiting'
<1> USE FrameAssumption DEF FrameAssumption, IInv, main, faulting, overlay, api,
        sharing, channels, pace
<1>1. CASE OnMessage
  BY <1>1 DEF OnMessage, PostPostLoad, OpenShared, OpenCommand, InstallHook,
       SetGameReady, Revive, ReviveCount, TypeOK, Waiting, Running, UpdateSteps
<1>2. CASE WindowDestroyed
  BY <1>2 DEF WindowDestroyed, TypeOK, Waiting, Running, UpdateSteps
<1>3. CASE BeginFrame \/ Present \/ PassesDone \/ PassesCrash \/ OnExit
  BY <1>3 DEF BeginFrame, Present, PassesDone, PassesCrash, OnExit, StartUpdate,
       StandaloneRuns, UpdateRuns, CrashLimit, Return, TypeOK, Waiting, Running,
       UpdateSteps
<1>4. CASE DoFrameUpdate
  BY Afters, <1>4 DEF DoFrameUpdate, Collect, SanitizeAllData, PushAllData,
       MarkFramePublished, Consume, WriteHeader, WriteBody, UpdateCache, FinishUpdate,
       Sanitized, NextIndex, WriteActive, CountClear, At, GoTo, Return, TypeOK,
       Waiting, Running, UpdateSteps
<1>5. CASE Fault \/ Catch \/ Judge
  BY <1>5 DEF Fault, Catch, Judge, At, GoTo, Return, Faulting, TypeOK, Waiting,
       Running, UpdateSteps
<1>6. CASE UNCHANGED vars
  BY <1>6 DEF vars, TypeOK, Waiting, Running, UpdateSteps
<1> QED BY <1>1, <1>2, <1>3, <1>4, <1>5, <1>6 DEF Next

LEMMA NextPaced == ASSUME IInv, [Next]_vars PROVE Paced'
<1> USE FrameAssumption DEF FrameAssumption, IInv, main, faulting, overlay, api,
        sharing, channels, pace
<1>1. CASE OnMessage
  BY <1>1 DEF OnMessage, PostPostLoad, OpenShared, OpenCommand, InstallHook,
       SetGameReady, Revive, ReviveCount, TypeOK, Waiting, Paced
<1>2. CASE WindowDestroyed
  BY <1>2 DEF WindowDestroyed, TypeOK, Waiting, Paced
<1>3. CASE BeginFrame \/ Present \/ PassesDone \/ PassesCrash \/ OnExit
  BY <1>3 DEF BeginFrame, Present, PassesDone, PassesCrash, OnExit, StartUpdate,
       StandaloneRuns, UpdateRuns, CrashLimit, Return, TypeOK, Waiting, Paced
<1>4. CASE DoFrameUpdate
  BY Afters, <1>4 DEF DoFrameUpdate, Collect, SanitizeAllData, PushAllData,
       MarkFramePublished, Consume, WriteHeader, WriteBody, UpdateCache, FinishUpdate,
       Sanitized, NextIndex, WriteActive, CountClear, At, GoTo, Return, TypeOK,
       Waiting, Paced
<1>5. CASE Fault \/ Catch \/ Judge
  BY <1>5 DEF Fault, Catch, Judge, At, GoTo, Return, Faulting, TypeOK, Waiting, Paced
<1>6. CASE UNCHANGED vars
  BY <1>6 DEF vars, TypeOK, Waiting, Paced
<1> QED BY <1>1, <1>2, <1>3, <1>4, <1>5, <1>6 DEF Next

LEMMA NextSilent == ASSUME IInv, [Next]_vars PROVE Silent'
<1> USE FrameAssumption DEF FrameAssumption, IInv, main, faulting, overlay, api,
        sharing, channels, pace
<1>1. CASE OnMessage
  <2>1. CASE PostPostLoad
    BY <2>1 DEF PostPostLoad, TypeOK, Silent, Waiting
  <2>2. CASE OpenShared
    <3>1. ~exited /\ fpc # "body"
      BY <2>2 DEF OpenShared, Waiting, Running, UpdateSteps
    <3> QED BY <2>2, <3>1 DEF OpenShared, Silent
  <2>3. CASE OpenCommand
    BY <2>3 DEF OpenCommand, TypeOK, Silent, Waiting
  <2>4. CASE InstallHook
    BY <2>4 DEF InstallHook, TypeOK, Silent, Waiting
  <2>5. CASE SetGameReady
    BY <2>5 DEF SetGameReady, TypeOK, Silent, Waiting
  <2>6. CASE Revive
    BY <2>6 DEF Revive, TypeOK, Silent, Waiting
  <2>7. CASE ReviveCount
    BY <2>7 DEF ReviveCount, TypeOK, Silent, Waiting
  <2> QED BY <1>1, <2>1, <2>2, <2>3, <2>4, <2>5, <2>6, <2>7 DEF OnMessage
<1>2. CASE WindowDestroyed
  BY <1>2 DEF WindowDestroyed, TypeOK, Silent, Waiting
<1>3. CASE BeginFrame \/ Present \/ PassesDone \/ PassesCrash \/ OnExit
  <2>1. CASE BeginFrame
    BY <2>1 DEF BeginFrame, StartUpdate, StandaloneRuns, UpdateRuns, TypeOK,
         Silent, Waiting
  <2>2. CASE Present
    BY <2>2 DEF Present, StartUpdate, StandaloneRuns, UpdateRuns, TypeOK,
         Silent, Waiting
  <2>3. CASE PassesDone
    BY <2>3 DEF PassesDone, TypeOK, Silent, Waiting
  <2>4. CASE PassesCrash
    BY <2>4 DEF PassesCrash, Silent, Waiting
  <2>5. CASE OnExit
    BY <2>5 DEF OnExit, At, Silent
  <2> QED BY <1>3, <2>1, <2>2, <2>3, <2>4, <2>5
<1>4. CASE DoFrameUpdate
  BY Afters, <1>4 DEF DoFrameUpdate, Collect, SanitizeAllData, PushAllData,
       MarkFramePublished, Consume, WriteHeader, WriteBody, UpdateCache, FinishUpdate,
       Sanitized, NextIndex, WriteActive, CountClear, At, GoTo, Return, TypeOK,
       Silent, Waiting
<1>5. CASE Fault \/ Catch \/ Judge
  BY <1>5 DEF Fault, Catch, Judge, At, GoTo, Return, Faulting, TypeOK, Silent, Waiting
<1>6. CASE UNCHANGED vars
  BY <1>6 DEF vars, TypeOK, Silent, Waiting
<1> QED BY <1>1, <1>2, <1>3, <1>4, <1>5, <1>6 DEF Next

LEMMA NextFaults == ASSUME IInv, [Next]_vars PROVE Faults'
<1> USE FrameAssumption DEF FrameAssumption, IInv, main, faulting, overlay, api,
        sharing, channels, pace
<1>1. CASE OnMessage
  BY <1>1 DEF OnMessage, PostPostLoad, OpenShared, OpenCommand, InstallHook,
       SetGameReady, Revive, ReviveCount, TypeOK, Faults, Running, UpdateSteps
<1>2. CASE WindowDestroyed
  BY <1>2 DEF WindowDestroyed, TypeOK, Faults, Running, UpdateSteps
<1>3. CASE BeginFrame \/ Present \/ PassesDone \/ PassesCrash \/ OnExit
  BY <1>3 DEF BeginFrame, Present, PassesDone, PassesCrash, OnExit, StartUpdate,
       StandaloneRuns, UpdateRuns, CrashLimit, Return, TypeOK, Faults, Running,
       UpdateSteps
<1>4. CASE DoFrameUpdate
  BY Afters, <1>4 DEF DoFrameUpdate, Collect, SanitizeAllData, PushAllData,
       MarkFramePublished, Consume, WriteHeader, WriteBody, UpdateCache, FinishUpdate,
       Sanitized, NextIndex, WriteActive, CountClear, At, GoTo, Return, TypeOK,
       Faults, Running, UpdateSteps
<1>5. CASE Fault \/ Catch \/ Judge
  BY <1>5 DEF Fault, Catch, Judge, At, GoTo, Return, Faulting, TypeOK, Faults,
       Running, UpdateSteps
<1>6. CASE UNCHANGED vars
  BY <1>6 DEF vars, TypeOK, Faults, Running, UpdateSteps
<1> QED BY <1>1, <1>2, <1>3, <1>4, <1>5, <1>6 DEF Next

LEMMA NextCrashing == ASSUME IInv, [Next]_vars PROVE Crashing'
<1> USE FrameAssumption DEF FrameAssumption, IInv, main, faulting, overlay, api,
        sharing, channels, pace
<1>1. CASE OnMessage
  BY <1>1 DEF OnMessage, PostPostLoad, OpenShared, OpenCommand, InstallHook,
       SetGameReady, Revive, ReviveCount, TypeOK, Crashing, Running, UpdateSteps
<1>2. CASE WindowDestroyed
  BY <1>2 DEF WindowDestroyed, TypeOK, Crashing, Running, UpdateSteps
<1>3. CASE BeginFrame \/ Present \/ PassesDone \/ PassesCrash \/ OnExit
  <2>1. CASE BeginFrame
    BY <2>1 DEF BeginFrame, StartUpdate, StandaloneRuns, UpdateRuns, TypeOK,
         Crashing, Running, UpdateSteps
  <2>2. CASE Present
    BY <2>2 DEF Present, StartUpdate, StandaloneRuns, UpdateRuns, TypeOK,
         Crashing, Running, UpdateSteps
  <2>3. CASE PassesDone
    BY <2>3 DEF PassesDone, TypeOK, Crashing, Running, UpdateSteps
  <2>4. CASE PassesCrash
    <3>1. ~overlayDisabled' => ~CrashLimit /\ ~overlayDisabled
      BY <2>4 DEF PassesCrash
    <3>2. ~CrashLimit => crashes' < MaxCrashes
      BY <2>4 DEF PassesCrash, CrashLimit, TypeOK
    <3>3. fpc' = "idle"
      BY <2>4 DEF PassesCrash
    <3> QED BY <3>1, <3>2, <3>3 DEF Crashing, Running, UpdateSteps
  <2>5. CASE OnExit
    BY <2>5 DEF OnExit, TypeOK, Crashing, Running, UpdateSteps
  <2> QED BY <1>3, <2>1, <2>2, <2>3, <2>4, <2>5
<1>4. CASE DoFrameUpdate
  BY Afters, <1>4 DEF DoFrameUpdate, Collect, SanitizeAllData, PushAllData,
       MarkFramePublished, Consume, WriteHeader, WriteBody, UpdateCache, FinishUpdate,
       Sanitized, NextIndex, WriteActive, CountClear, At, GoTo, Return, TypeOK,
       Crashing, Running, UpdateSteps
<1>5. CASE Fault \/ Catch \/ Judge
  BY <1>5 DEF Fault, Catch, Judge, At, GoTo, Return, Faulting, TypeOK, Crashing,
       Running, UpdateSteps
<1>6. CASE UNCHANGED vars
  BY <1>6 DEF vars, TypeOK, Crashing, Running, UpdateSteps
<1> QED BY <1>1, <1>2, <1>3, <1>4, <1>5, <1>6 DEF Next

LEMMA NextOrdered == ASSUME IInv, [Next]_vars PROVE Ordered'
<1> USE FrameAssumption DEF FrameAssumption, IInv, main, faulting, overlay, api,
        sharing, channels, pace
<1>1. CASE OnMessage
  BY <1>1 DEF OnMessage, PostPostLoad, OpenShared, OpenCommand, InstallHook,
       SetGameReady, Revive, ReviveCount, TypeOK, Measurement, Ordered,
       ChannelsInOrder, Waiting, Running, Unpublished, Published, Shared, UpdateSteps
<1>2. CASE WindowDestroyed
  BY <1>2 DEF WindowDestroyed, TypeOK, Measurement, Ordered, ChannelsInOrder, Waiting,
       Running, Unpublished, Published, Shared, UpdateSteps
<1>3. CASE BeginFrame \/ Present \/ PassesDone \/ PassesCrash \/ OnExit
  BY <1>3 DEF BeginFrame, Present, PassesDone, PassesCrash, OnExit, StartUpdate,
       StandaloneRuns, UpdateRuns, CrashLimit, Return, TypeOK, Measurement, Ordered,
       ChannelsInOrder, Waiting, Running, Unpublished, Published, Shared, UpdateSteps
<1>4. CASE DoFrameUpdate
  BY Afters, <1>4 DEF DoFrameUpdate, Collect, SanitizeAllData, PushAllData,
       MarkFramePublished, Consume, WriteHeader, WriteBody, UpdateCache, FinishUpdate,
       Sanitized, NextIndex, WriteActive, CountClear, At, GoTo, Return, TypeOK,
       Measurement, Ordered, ChannelsInOrder, Waiting, Running, Unpublished,
       Published, Shared, UpdateSteps
<1>5. CASE Fault \/ Catch \/ Judge
  BY <1>5 DEF Fault, Catch, Judge, At, GoTo, Return, Faulting, TypeOK, Measurement,
       Ordered, ChannelsInOrder, Waiting, Running, Unpublished, Published, Shared,
       UpdateSteps
<1>6. CASE UNCHANGED vars
  BY <1>6 DEF vars, TypeOK, Measurement, Ordered, ChannelsInOrder, Waiting, Running,
       Unpublished, Published, Shared, UpdateSteps
<1> QED BY <1>1, <1>2, <1>3, <1>4, <1>5, <1>6 DEF Next

LEMMA NextCounted == ASSUME IInv, [Next]_vars PROVE Counted'
<1> USE FrameAssumption DEF FrameAssumption, IInv, main, faulting, overlay, api,
        sharing, channels, pace
<1>1. CASE OnMessage
  BY <1>1 DEF OnMessage, PostPostLoad, OpenShared, OpenCommand, InstallHook,
       SetGameReady, Revive, ReviveCount, TypeOK, Measurement, Ordered, Counted,
       Published, Unpublished, UpdateSteps
<1>2. CASE WindowDestroyed
  BY <1>2 DEF WindowDestroyed, TypeOK, Measurement, Ordered, Counted, Published,
       Unpublished, UpdateSteps
<1>3. CASE BeginFrame \/ Present \/ PassesDone \/ PassesCrash \/ OnExit
  BY <1>3 DEF BeginFrame, Present, PassesDone, PassesCrash, OnExit, StartUpdate,
       StandaloneRuns, UpdateRuns, CrashLimit, Return, TypeOK, Measurement, Ordered,
       Counted, Published, Unpublished, UpdateSteps
<1>4. CASE DoFrameUpdate
  BY Afters, <1>4 DEF DoFrameUpdate, Collect, SanitizeAllData, PushAllData,
       MarkFramePublished, Consume, WriteHeader, WriteBody, UpdateCache, FinishUpdate,
       Sanitized, NextIndex, WriteActive, CountClear, At, GoTo, Return, TypeOK,
       Measurement, Ordered, Counted, Published, Unpublished, UpdateSteps
<1>5. CASE Fault \/ Catch \/ Judge
  BY <1>5 DEF Fault, Catch, Judge, At, GoTo, Return, Faulting, TypeOK, Measurement,
       Ordered, Counted, Published, Unpublished, UpdateSteps
<1>6. CASE UNCHANGED vars
  BY <1>6 DEF vars, TypeOK, Measurement, Ordered, Counted, Published, Unpublished,
       UpdateSteps
<1> QED BY <1>1, <1>2, <1>3, <1>4, <1>5, <1>6 DEF Next

-----------------------------------------------------------------------------
LEMMA InitIInv == Init => IInv
<1> SUFFICES ASSUME Init PROVE IInv OBVIOUS
<1>1. Flags BY DEF Init, Flags
<1>2. Values
  BY FrameAssumption DEF FrameAssumption, Init, Values, Measurement, NoData, UpdateSteps
<1>3. TypeOK BY <1>1, <1>2 DEF TypeOK, Flags, Values
<1>4. Finite
  BY DEF Init, Finite, FinitePublished, NoData, Clean, UpdateSteps
<1>5. Waiting /\ Paced /\ Silent
  BY DEF Init, Waiting, Running, UpdateSteps, Paced, Silent
<1>6. Faults /\ Crashing
  BY FrameAssumption DEF FrameAssumption, Init, Faults, Crashing, Running, UpdateSteps
<1>7. Ordered /\ Counted
  BY DEF Init, NoData, Ordered, ChannelsInOrder, Counted, Unpublished, Published, Shared,
     UpdateSteps
<1> QED BY <1>3, <1>4, <1>5, <1>6, <1>7 DEF IInv

LEMMA Invariance == Spec => []IInv
<1>1. IInv /\ [Next]_vars => IInv'
  <2> SUFFICES ASSUME IInv, [Next]_vars PROVE IInv' OBVIOUS
  <2>1. TypeOK' BY NextFlags, NextValues DEF TypeOK, Flags, Values
  <2> QED BY <2>1, NextFinite, NextWaiting, NextPaced, NextSilent, NextFaults,
             NextCrashing, NextOrdered, NextCounted DEF IInv
<1> QED BY InitIInv, <1>1, PTL DEF Spec

-----------------------------------------------------------------------------
(* Theorems.                                                               *)

\* The type invariant, bounds included.
THEOREM TypeCorrect == Spec => []TypeOK
<1>1. IInv => TypeOK BY DEF IInv
<1> QED BY <1>1, Invariance, PTL

\* No channel carries a number that is not finite.
THEOREM ChannelsAreFinite == Spec => []FinitePublished
<1>1. IInv => FinitePublished BY DEF IInv, Finite
<1> QED BY <1>1, Invariance, PTL

\* A later channel is never ahead of an earlier one.
THEOREM ChannelsKeepOrder == Spec => []ChannelsInOrder
<1>1. IInv => ChannelsInOrder BY DEF IInv, Ordered
<1> QED BY <1>1, Invariance, PTL

\* At most one update between two presents.
THEOREM FramesMeasuredOnce == Spec => []MeasuredOnce
<1>1. IInv => MeasuredOnce BY DEF IInv, Paced, MeasuredOnce
<1> QED BY <1>1, Invariance, PTL

\* No update before the plugin is up.
THEOREM UpdatesWaitForData == Spec => []ReadyMeansInitialised
<1>1. IInv => ReadyMeansInitialised
  BY DEF IInv, Waiting, Running, ReadyMeansInitialised
<1> QED BY <1>1, Invariance, PTL

\* Only an unbroken run of faults disables the updates.
THEOREM ScatteredFaultsAreHarmless == Spec => []DisabledByStreak
<1>1. IInv => DisabledByStreak BY DEF IInv, Faults, DisabledByStreak
<1> QED BY <1>1, Invariance, PTL

\* The frame counters of the channels agree.
THEOREM CountersStayInStep == Spec => []CountersAgree
<1>1. IInv => CountersAgree BY DEF IInv, Counted, CountersAgree
<1> QED BY <1>1, Invariance, PTL

\* Nothing is published after ENB's exit.
THEOREM ExitIsQuiet == Spec => QuietAfterExit
<1>1. ASSUME IInv, [Next]_vars, exited PROVE UNCHANGED <<api, sharing, command>>
  <2> USE DEF main, faulting, overlay, api, sharing, channels, pace
  <2>1. teardown /\ ~sharedActive /\ ~command /\ mpc \in {"idle", "revive"}
        /\ fpc # "body"
    BY <1>1 DEF IInv, Silent, Waiting
  <2>2. CASE OnMessage
    BY <2>1, <2>2 DEF OnMessage, PostPostLoad, OpenShared, OpenCommand, InstallHook,
       SetGameReady, Revive, ReviveCount
  <2>3. CASE WindowDestroyed \/ OnExit
    BY <1>1, <2>1, <2>3 DEF WindowDestroyed, OnExit, IInv, TypeOK
  <2>4. CASE BeginFrame \/ Present \/ PassesDone \/ PassesCrash
    BY <2>4 DEF BeginFrame, Present, PassesDone, PassesCrash
  <2>5. CASE DoFrameUpdate
    BY <2>1, <2>5 DEF DoFrameUpdate, Collect, SanitizeAllData, PushAllData, At,
       MarkFramePublished, Consume, WriteHeader, WriteActive, WriteBody, UpdateCache,
       FinishUpdate
  <2>6. CASE Fault \/ Catch \/ Judge
    BY <2>6 DEF Fault, Catch, Judge
  <2>7. CASE UNCHANGED vars
    BY <2>7 DEF vars
  <2> QED BY <1>1, <2>2, <2>3, <2>4, <2>5, <2>6, <2>7 DEF Next
<1> QED BY <1>1, Invariance, PTL DEF Spec, QuietAfterExit

=============================================================================
