----------------------------- MODULE FrameData -----------------------------
(***************************************************************************)
(* What one frame update does with the data: twenty trackers under their   *)
(* health records, the write-back rules, the sanitizing, the push to ENB   *)
(* with its memory of what was sent, the weather parameters, and the       *)
(* shared region.                                                          *)
(*                                                                         *)
(* An update runs on one thread and nothing of it can be seen in between,  *)
(* so it is one action; the engine's state (the world) is another one each *)
(* time.  A tracker of Faulty may throw, which its health record counts,   *)
(* or fault, which ends the whole update (see FrameDriver).                *)
(***************************************************************************)
EXTENDS Trackers, WeatherParams

CONSTANTS Worlds,           \* the states the engine may be in
          Faulty,           \* the trackers that may throw or fault
          DisableThreshold, \* TrackerHealth::kDisableThreshold
          RetryInterval,    \* TrackerHealth::kRetryInterval
          Frames,           \* the frame counter wraps here (2^32 in the code)
          Rules,            \* the write-back rules: records
          Refusable         \* groups whose parameters ENB may refuse

ASSUME FrameDataAssumption ==
    /\ DisableThreshold \in Nat \ {0}
    /\ RetryInterval \in Nat /\ Frames \in Nat /\ RetryInterval < Frames

VARIABLES data,     \* s_data: one record per group
          kept,     \* the trackers' statics
          health,   \* s_trackerHealth
          frame,    \* s_frameCount
          stamped,  \* the groups written in the last complete update or since
          played,   \* whether the game was not loading in that update
          fov,      \* the field of view in the engine, which a rule may write
          rule,     \* every rule's smoothed value, Nil before its first run
          sent,     \* ENBInterface's copy of what it sent, Nil before
          enb,      \* what ENB holds for every group
          refused,  \* the groups whose last push ENB refused
          shm       \* the header of the shared region

frameVars == <<data, kept, health, frame, stamped, played, fov, rule, sent, enb, refused, shm>>
vars == <<wpVars, frameVars>>

\* In the order of the update.
AlwaysFirst == <<"celestial", "atmosphere", "fog", "weather", "player", "camera", "interior",
                 "shadow", "effects", "render", "imageSpace", "uiState", "equipment">>
WhilePlaying == <<"lights", "actorValues", "crosshair", "quest", "region", "npcDetect">>
Groups == Range(AlwaysFirst) \cup Range(WhilePlaying) \cup {"audio"}

Loading(w) == w.menus # Nil /\ "loading" \in w.menus
\* Wrong: the flag is taken from what was published last.
ScheduleStale(w) == AlwaysFirst \o (IF data["uiState"].loading = 1 THEN <<>> ELSE WhilePlaying) \o <<"audio">>

\* The trackers to be tried in this update: six of them rest while the game loads.
Schedule(w) == AlwaysFirst \o (IF Loading(w) THEN <<>> ELSE WhilePlaying) \o <<"audio">>

-----------------------------------------------------------------------------
\* TrackerHealth: disabled after a streak of errors, tried again later.
Healthy == [errors |-> 0, disabled |-> FALSE, since |-> 0]
OnSuccess(h) == Healthy
OnError(h) ==
    LET errors == Min({h.errors + 1, DisableThreshold})   \* more are as many
    IN IF errors = DisableThreshold /\ ~h.disabled
       THEN [errors |-> errors, disabled |-> TRUE, since |-> frame]
       ELSE [h EXCEPT !.errors = errors]

\* The subtraction is unsigned and wraps with the counter.
ShouldRun(h) == ~h.disabled \/ (frame - h.since) % Frames >= RetryInterval
Runs(g) == g \in Faulty => ShouldRun(health[g])

\* The groups that the trackers return, and what they keep.
Samples(w) ==
    [celestial |-> CelestialUpdate(w), atmosphere |-> AtmosphereUpdate(w), fog |-> FogUpdate(w),
     weather |-> WeatherUpdate(w, kept.wet, kept.whitened).group,
     player |-> PlayerUpdate(w, kept.player).group, camera |-> CameraUpdate(w, kept.camera).group,
     interior |-> InteriorUpdate(w), shadow |-> ShadowUpdate(w), effects |-> EffectsUpdate(w),
     render |-> RenderUpdate(w, kept.calls).group, imageSpace |-> ImageSpaceUpdate(w),
     uiState |-> UIStateUpdate(w), equipment |-> EquipmentUpdate(w), lights |-> LightUpdate(w),
     actorValues |-> ActorValueUpdate(w), crosshair |-> CrosshairUpdate(w), quest |-> QuestUpdate(w),
     region |-> RegionUpdate(w), npcDetect |-> NPCDetectUpdate(w), audio |-> AudioUpdate(w)]
KeptAfter(read, w) ==
    LET weather == WeatherUpdate(w, kept.wet, kept.whitened) IN
    [wet |-> IF "weather" \in read THEN weather.wet ELSE kept.wet,
     whitened |-> IF "weather" \in read THEN weather.whitened ELSE kept.whitened,
     player |-> IF "player" \in read THEN PlayerUpdate(w, kept.player).last ELSE kept.player,
     camera |-> IF "camera" \in read THEN CameraUpdate(w, kept.camera).last ELSE kept.camera,
     calls |-> IF "render" \in read THEN RenderUpdate(w, kept.calls).calls ELSE kept.calls]

\* The groups whose trackers are called: those that are tried, up to the
\* first that faults.
Called(w, faults) ==
    LET order == Schedule(w)
        tried == {i \in DOMAIN order : Runs(order[i])}
        ends == {i \in tried : order[i] \in faults}
    IN {order[i] : i \in {j \in tried : \A k \in ends : j <= k}}

\* Collect the groups: a tracker that throws leaves its group as it was.
\* (A quantifier over one value names it, so that TLC computes it once.)
Collect(w, called, throws, faults) ==
    \E samples \in {Samples(w)} :
        LET read == called \ (throws \cup faults)
        IN /\ data' = [g \in Groups |-> IF g \in read THEN samples[g] ELSE data[g]]
           /\ kept' = KeptAfter(read, w)
           /\ health' = [g \in Faulty |-> IF g \in read THEN OnSuccess(health[g])
                                          ELSE IF g \in called \cap throws THEN OnError(health[g])
                                          ELSE health[g]]

-----------------------------------------------------------------------------
\* The write-back rules, in order, on the data as it was collected.
ResolveSource(r, d) ==
    CASE r.source = "Fixed" -> r.value
      [] r.source = "AllDataField" -> d[r.group][r.field]
      [] r.source = "ENBParameter" -> IF r.param \in Names THEN shader[r.param] ELSE 0
Transformed(r, d) == Min({r.clampMax, Max({r.clampMin, ResolveSource(r, d) * r.scale + r.offset})})
\* The first run takes the value; later ones go part of the way to it.
NextValues(i, d) ==
    LET to == Transformed(Rules[i], d) IN
    IF rule[i] = Nil \/ Rules[i].instant THEN {to} ELSE Span(rule[i], to)
\* Only the field of view is an engine value that a tracker reads back.
FovRules == {i \in DOMAIN Rules : Rules[i].enabled /\ Rules[i].target = "CameraFOV"}
Execute(w) ==
    \E now \in [DOMAIN Rules -> UNION {NextValues(i, data') : i \in DOMAIN Rules}] :
        /\ \A i \in DOMAIN Rules : now[i] \in NextValues(i, data')
        /\ rule' = [i \in DOMAIN Rules |-> IF Rules[i].enabled THEN now[i] ELSE rule[i]]
        /\ fov' = IF FovRules = {} \/ w.cameraState = Nil THEN fov ELSE now[Max(FovRules)]

-----------------------------------------------------------------------------
\* Wrong: compared with what was collected last, not with what was pushed last.
DirtySinceCollected == {g \in Groups : sent = Nil \/ data'[g] # data[g]}

\* The groups that changed since the last push; after it all count as sent,
\* whatever ENB answered.
Dirty == {g \in Groups : sent = Nil \/ data'[g] # sent[g]}
PushAllData(refuses) ==
    /\ enb' = [g \in Groups |-> IF g \in Dirty \ refuses THEN data'[g] ELSE enb[g]]
    /\ refused' = (refused \ Dirty) \cup (Dirty \cap refuses)
    /\ sent' = data'

Header(w) == [weather |-> w.weather.id, category |-> category']
\* The weather's part of the header stays as it is while there is no weather.
WriteFrame(w) ==
    shm' = [weather |-> IF HasWeather(w) THEN Header(w) ELSE shm.weather,
            interior |-> data'["interior"].is, inMenu |-> data'["uiState"].inMenu,
            loading |-> data'["uiState"].loading, body |-> data',
            params |-> [n \in Names |-> GetValue(params', index', n)]]

Empty == [celestial |-> NoCelestial, atmosphere |-> NoAtmosphere, fog |-> NoFog,
          weather |-> NoWeatherData, player |-> NoPlayer, camera |-> NoCamera @@ [prev |-> NoCamera],
          interior |-> NoInterior, shadow |-> [light |-> Zero, strength |-> Zero],
          effects |-> EffectsUpdate([player |-> FALSE]), render |-> [frame |-> 0, size |-> Zero, paused |-> Zero],
          imageSpace |-> NoImageSpace, uiState |-> UIStateUpdate([menus |-> Nil]),
          equipment |-> NoEquipment, lights |-> [lights |-> <<>>, count |-> 0, nearest |-> Zero],
          actorValues |-> [armour |-> Zero, load |-> Zero], crosshair |-> NoCrosshair, quest |-> NoQuest,
          region |-> NoRegion, npcDetect |-> NoActors, audio |-> NoAudio]
DefaultFov == 65
Init ==
    /\ WpInit
    /\ data = Empty /\ kept = [wet |-> 0, whitened |-> 0, player |-> Nil, camera |-> Nil, calls |-> 0]
    /\ health = [g \in Faulty |-> Healthy]
    /\ frame = 0 /\ stamped = {} /\ played = FALSE
    /\ fov = DefaultFov /\ rule = [i \in DOMAIN Rules |-> Nil]
    /\ sent = Nil /\ enb = Empty /\ refused = {}
    /\ shm = [weather |-> [weather |-> 0, category |-> "Clear"], interior |-> 0, inMenu |-> 0,
              loading |-> 0, body |-> Empty, params |-> [n \in Names |-> 0]]

World(w) == [w EXCEPT !.fov = fov]

\* A whole update; throws are the trackers that throw in it.
Update ==
    \E w \in {World(c) : c \in Worlds} :
    \E called \in {Called(w, {})} :
    \E throws \in SUBSET (Faulty \cap called) :
        /\ Collect(w, called, throws, {})
        /\ stamped' = called \ throws
        /\ played' = ~Loading(w)
        /\ frame' = (frame + 1) % Frames
        /\ Execute(w)
        /\ \E refuses \in SUBSET (Refusable \cap Dirty) : PushAllData(refuses)
        /\ UpdateParams(w)
        /\ WriteFrame(w)

\* An update that a tracker's access violation ends: what was collected stays.
AbortedUpdate ==
    \E w \in {World(c) : c \in Worlds}, g \in Faulty :
    \E called \in {Called(w, {g})} :
        /\ g \in called
        /\ Collect(w, called, {}, {g})
        /\ stamped' = stamped \cup (called \ {g})
        /\ UNCHANGED <<wpVars, frame, played, fov, rule, sent, enb, refused, shm>>

Next == Update \/ AbortedUpdate \/ (EditIni /\ UNCHANGED frameVars)

Spec == Init /\ [][Next]_vars

-----------------------------------------------------------------------------
\* A group whose tracker has no errors was read from the engine in the last
\* complete update or since, in one that a fault cut short: no group of it
\* is left over from before a loading screen or from before its disabling
\* (main.cpp DoFrameUpdate, SB_SAFE_UPDATE).
HealthyMeansFresh ==
    played => \A g \in Groups : (g \in Faulty => health[g].errors = 0) => g \in stamped

\* ENB holds of every group what the shared region says, except of a group
\* whose last push it refused: the memory of what was sent survives updates
\* that a fault cut short after they collected (ENBInterface::PushAllData).
EnbIsCurrent == sent # Nil => \A g \in Groups \ refused : enb[g] = shm.body[g]

\* A reader of the region, who asks by name, gets the value that the shader parameter
\* of the last section of that name has, or none yet after a reload, with repeated
\* sections too: the value of every shader that has the name, when one place uses it
\* (WeatherParameterComputer::PushAllToENB, GetValue).
LastNamed(n) == Max({i \in DOMAIN params : params[i].name = n})
ReadersAgree ==
    \A n \in DOMAIN index :
        GetValue(params, index, n) \in {0, shader[Place(params[LastNamed(n)])]}

=============================================================================
