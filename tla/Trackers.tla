------------------------------ MODULE Trackers ------------------------------
(***************************************************************************)
(* The data trackers: each reads the engine once per update and returns    *)
(* its group of the published data.  A world w is what the engine holds    *)
(* at that moment; a missing engine object is Nil.  Values that are copied *)
(* through unread are represented by one field; a normalised vector by the *)
(* direction it has, a flag by a Boolean, a fraction by its numerator.     *)
(*                                                                         *)
(* Where a tracker returns early, its group has the default value: zero in *)
(* every field.  What a tracker keeps between updates (the camera's and    *)
(* the player's last position, the accumulated wetness) is a parameter and *)
(* its new value part of the result.                                       *)
(***************************************************************************)
EXTENDS Integers, Sequences, FiniteSetsExt, SequencesExt, TLC

CONSTANTS Nil,              \* no such engine object
          LightCandidates,  \* how many lights of a cell are looked at
          CloudLayers,      \* how many layers of clouds the engine has
          Soaked,           \* the wetness or snow at which no more collects
          JitterCycle       \* after how many frames the jitter repeats

-----------------------------------------------------------------------------
(***************************************************************************)
(* What turns the game hour into weights: the segments of the day that     *)
(* CelestialTracker publishes, and the quadrant interpolation that         *)
(* AtmosphereTracker and FogTracker share.                                 *)
(*                                                                         *)
(* Hours are counted in units of ten minutes, as the climate records do.   *)
(* A weight of a segment is a product of cubic ramps; what a shader tells  *)
(* apart is whether it is off, partly on or full, so a ramp is one of      *)
(* None, Part and Full.                                                    *)
(***************************************************************************)
Hour == 6                        \* ten-minute units in an hour

None == 0
Part == 1
Full == 2

\* smoothstep(from, to, h): nothing before from, everything from to on.
Rise(from, to, h) == IF h <= from THEN None ELSE IF h >= to THEN Full ELSE Part
Fall(from, to, h) == Full - Rise(from, to, h)
\* The product of two ramps is zero when one of them is.
Both(a, b) == IF a = None \/ b = None THEN None ELSE IF a = Full /\ b = Full THEN Full ELSE Part
Stronger(a, b) == IF a > b THEN a ELSE b

DefaultClimate == [riseBegin |-> 6 * Hour, riseEnd |-> 8 * Hour,
                   setBegin |-> 17 * Hour, setEnd |-> 19 * Hour + Hour \div 2]

\* From dusk to the evening's midnight, and from midnight to the dawn.
NightWeight(h, dawnStart, duskEnd) ==
    IF h > 12 * Hour THEN Rise(duskEnd, duskEnd + Hour \div 2, h)
                     ELSE Fall(dawnStart - Hour \div 2, dawnStart, h)

Segments(c, h) ==
    LET half == Hour \div 2
        dawnStart == c.riseBegin - Hour
        duskEnd == c.setEnd + Hour
    IN [dawn |-> Both(Rise(dawnStart, c.riseBegin, h), Fall(c.riseBegin, c.riseEnd, h)),
        sunrise |-> Both(Rise(c.riseBegin, c.riseBegin + half, h), Fall(c.riseEnd - half, c.riseEnd, h)),
        day |-> Both(Rise(c.riseEnd, c.riseEnd + half, h), Fall(c.setBegin - half, c.setBegin, h)),
        sunset |-> Both(Rise(c.setBegin, c.setBegin + half, h), Fall(c.setEnd - half, c.setEnd, h)),
        dusk |-> Both(Rise(c.setEnd - half, c.setEnd, h), Fall(c.setEnd, duskEnd, h)),
        night |-> NightWeight(h, dawnStart, duskEnd),
        golden |-> Stronger(Both(Rise(c.riseBegin, c.riseEnd, h), Fall(c.riseEnd, c.riseEnd + Hour, h)),
                            Both(Rise(c.setBegin - Hour, c.setBegin, h), Fall(c.setBegin, c.setEnd, h))),
        blue |-> Stronger(Both(Rise(dawnStart, c.riseBegin, h), Fall(c.riseBegin, c.riseBegin + half, h)),
                          Both(Rise(c.setEnd - half, c.setEnd, h), Fall(c.setEnd, duskEnd, h)))]

NoSegments == [s \in {"dawn", "sunrise", "day", "sunset", "dusk", "night", "golden", "blue"} |-> None]

-----------------------------------------------------------------------------
\* The four colour slots of a weather, and where in the day each is reached.
Slots == {"sunrise", "day", "sunset", "night"}
Between(a, b, from, to, h) == [from |-> a, to |-> b, part |-> h - from, of |-> to - from]
Held(a) == [from |-> a, to |-> a, part |-> 0, of |-> 1]

Quadrant(h) ==
    LET at(x) == x * Hour IN
    CASE h < at(3) \/ h >= at(21) -> Held("night")
      [] h >= at(3) /\ h < at(9) -> Between("night", "sunrise", at(3), at(9), h)
      [] h >= at(9) /\ h < at(12) -> Between("sunrise", "day", at(9), at(12), h)
      [] h >= at(12) /\ h < at(15) -> Held("day")
      [] h >= at(15) /\ h < at(18) -> Between("day", "sunset", at(15), at(18), h)
      [] OTHER -> Between("sunset", "night", at(18), at(21), h)

\* The units in which a colour is interpolated without a remainder.
Grain == 6 * Hour
Interpolated(colour, h) ==
    LET q == Quadrant(h)
    IN Grain * colour[q.from] + (colour[q.to] - colour[q.from]) * q.part * (Grain \div q.of)

\* The fog's distances move between a day and a night value instead.
NightFactor(h) ==
    CASE h < 6 * Hour -> 2 * Hour
      [] h >= 6 * Hour /\ h < 8 * Hour -> 8 * Hour - h
      [] h >= 8 * Hour /\ h < 18 * Hour -> 0
      [] h >= 18 * Hour /\ h < 20 * Hour -> h - 18 * Hour
      [] OTHER -> 2 * Hour
FogDistance(day, night, h) == day * (2 * Hour - NightFactor(h)) + night * NightFactor(h)

\* Blending with the weather that is going, by percent of the transition.
Percent == 2
Blended(cur, prev, pct) == Percent * prev + (cur - prev) * pct

-----------------------------------------------------------------------------
Zero == 0
HeadHeight == 2             \* the height of the head above the feet

HasWeather(w) == w.sky /\ w.weather # Nil
HasCell(w) == w.player /\ w.cell # Nil
Flag(b) == IF b THEN 1 ELSE 0
HourOr(w, h) == IF w.calendar THEN w.hour ELSE h

\* A sky object that is absent or culled has no position.
SkyObjectDir(object) == IF object = Nil \/ object.culled THEN Zero ELSE object.dir
Distance(a, b) == IF a > b THEN a - b ELSE b - a

\* The moons run through eight phases, Secunda half a cycle after Masser.
PhaseBrightness(day, offset) ==
    LET phase == (day + offset) % 8
    IN IF phase <= 4 THEN 4 - phase ELSE phase - 4

NoCelestial == [sun |-> Zero, masser |-> Zero, moonlight |-> Zero, hour |-> Zero,
                segments |-> NoSegments]
CelestialUpdate(w) ==
    IF ~w.sky THEN NoCelestial
    ELSE [sun |-> SkyObjectDir(w.sun),
          masser |-> SkyObjectDir(w.masser),
          moonlight |-> IF w.masser = Nil \/ w.masser.culled THEN Zero
                        ELSE IF w.calendar THEN PhaseBrightness(w.day, 0) ELSE 4,
          hour |-> HourOr(w, Zero),
          segments |-> Segments(IF w.climate = Nil THEN DefaultClimate ELSE w.climate,
                                HourOr(w, Zero))]

\* The colour of the weather, blended with that of the weather that is going.
ShadeOf(w, kind) ==
    LET hour == HourOr(w, 12 * Hour)
        current == Interpolated(w.weather[kind], hour)
    IN IF w.last = Nil \/ w.pct >= Percent THEN Percent * current
       ELSE Blended(current, Interpolated(w.last[kind], hour), w.pct)

NoAtmosphere == [sky |-> Zero, glare |-> Zero]
AtmosphereUpdate(w) ==
    IF ~HasWeather(w) THEN NoAtmosphere
    ELSE [sky |-> ShadeOf(w, "skyColour"), glare |-> w.weather.glare]

NoFog == [colour |-> Zero, near |-> Zero, interior |-> Zero, water |-> Zero, height |-> Zero]
FogUpdate(w) ==
    IF ~HasWeather(w) THEN NoFog
    ELSE LET hour == HourOr(w, 12 * Hour)
             near(x) == FogDistance(x.fogDay, x.fogNight, hour)
         IN [colour |-> ShadeOf(w, "fogColour"),
             near |-> IF w.last = Nil \/ w.pct >= Percent THEN Percent * near(w.weather)
                      ELSE Blended(near(w.weather), near(w.last), w.pct),
             interior |-> IF HasCell(w) THEN Flag(w.cell.interior) ELSE Zero,
             water |-> IF HasCell(w) THEN w.cell.water ELSE Zero,
             height |-> IF w.player THEN w.height ELSE Zero]

\* Wetness and snow build up while it falls and go again while it does not;
\* they are kept from update to update, and not touched without a weather.
Accumulated(old, falls, strength) ==
    IF falls THEN Min({Soaked, old + 5 * strength}) ELSE Max({0, old - 2})
NoWeatherData == [id |-> Zero, outgoing |-> Zero, rain |-> Zero, snow |-> Zero, falling |-> Zero,
                  wet |-> Zero, whitened |-> Zero, clouds |-> Zero]
WeatherUpdate(w, wet, whitened) ==
    IF ~HasWeather(w) THEN [group |-> NoWeatherData, wet |-> wet, whitened |-> whitened]
    ELSE LET falls == w.weather.rain \/ w.weather.snow
             strength == IF falls THEN Min({w.pct, Percent}) ELSE Zero
             wetter == Accumulated(wet, w.weather.rain, strength)
             whiter == Accumulated(whitened, w.weather.snow, strength)
             covered == SelectSeq(SubSeq(w.clouds, 1, Min({Len(w.clouds), CloudLayers})), LAMBDA a : a > 0)
         IN [group |-> [id |-> w.weather.id,
                        outgoing |-> IF w.last = Nil THEN Zero ELSE w.last.id,
                        rain |-> Flag(w.weather.rain), snow |-> Flag(w.weather.snow),
                        falling |-> strength, wet |-> wetter, whitened |-> whiter,
                        clouds |-> Max({0} \cup ToSet(covered))],
             wet |-> wetter, whitened |-> whiter]

-----------------------------------------------------------------------------
\* The speed is the way since the last update that read the player, and
\* there is none the first time.
NoPlayer == [at |-> Zero, above |-> Zero, health |-> Zero, moved |-> Zero, fights |-> Zero,
             drawn |-> Zero, killCam |-> Zero, beast |-> Zero, enemies |-> Zero,
             underwater |-> Zero, depth |-> Zero, wading |-> Zero]
PlayerUpdate(w, last) ==
    IF ~w.player THEN [group |-> NoPlayer, last |-> last]
    ELSE LET water == IF w.cell = Nil THEN Zero ELSE w.cell.water
             head == w.height + HeadHeight
             under == head < water
         IN [group |-> [at |-> w.at, above |-> w.height - water,
                        health |-> IF w.maxHealth > 0 THEN w.health ELSE Zero,
                        moved |-> IF last = Nil THEN Zero ELSE Distance(w.at, last),
                        fights |-> Flag(w.fights), drawn |-> Flag(w.drawn),
                        killCam |-> Flag(w.cameraState = "vats"), beast |-> w.beast,
                        enemies |-> IF w.fights THEN w.opponents ELSE Zero,
                         underwater |-> Flag(under), depth |-> IF under THEN water - head ELSE Zero,
                        wading |-> Flag(~under /\ w.height < water)],
             last |-> w.at]

\* The camera's last position is published beside its present one; the
\* first time both are the present one.  last is Nil before that.
NoCamera == [at |-> Zero, fov |-> Zero]
CameraUpdate(w, last) ==
    LET now == IF w.camera = Nil THEN NoCamera
               ELSE [at |-> w.camera, fov |-> IF w.cameraState = Nil THEN 65 ELSE w.fov]
    IN [group |-> now @@ [prev |-> IF last = Nil THEN now ELSE last], last |-> now]

NoInterior == [is |-> Zero, template |-> Zero, ambient |-> Zero]
InteriorUpdate(w) ==
    IF ~HasCell(w) \/ ~w.cell.interior THEN NoInterior
    ELSE [is |-> 1, template |-> Flag(w.cell.lighting # Nil),
          ambient |-> IF w.cell.lighting = Nil THEN Zero ELSE w.cell.lighting]

\* Unlike the celestial group, the shadow's light follows a sun that is
\* culled, and there is none without the sun's node.
ShadowUpdate(w) ==
    IF ~w.sky \/ w.sun = Nil THEN [light |-> Zero, strength |-> Zero]
    ELSE [light |-> w.sun.dir, strength |-> Flag(w.sun.dir # Zero)]

\* The magic effects that are running on the player.
Running(w) == {e \in ToSet(w.effects) : e.active}
EffectsUpdate(w) ==
    LET has(kind) == Flag(w.player /\ \E e \in Running(w) : e.kind = kind)
    IN [nightEye |-> has("nightEye"), detectLife |-> has("detectLife"), ethereal |-> has("ethereal"),
        slowTime |-> has("slowTime"), fire |-> has("fire"), frost |-> has("frost"), shock |-> has("shock"), poison |-> has("poison"),
        invisible |-> has("invisible"), paralysed |-> has("paralysed")]

\* Counts its own calls, modulo the cycle of the jitter.
RenderUpdate(w, calls) ==
    [group |-> [frame |-> (calls + 1) % JitterCycle, size |-> w.screen, paused |-> Flag(w.frozen)],
     calls |-> (calls + 1) % JitterCycle]

NoImageSpace == [hdr |-> Zero, modified |-> Zero]
DamageKinds == {"fire", "frost", "shock", "poison"}
ImageSpaceUpdate(w) ==
    IF w.imageSpace = Nil THEN NoImageSpace
    ELSE [hdr |-> w.imageSpace,
          modified |-> Flag(w.player /\ \E e \in Running(w) : e.kind \in DamageKinds \cup {"value"})]

Opened(w, menu) == Flag(w.menus # Nil /\ menu \in w.menus)
UIStateUpdate(w) ==
    [inMenu |-> Flag(w.menus # Nil /\ w.menus \ {"hud"} # {}), dialogue |-> Opened(w, "dialogue"),
     inventory |-> Opened(w, "inventory"), map |-> Opened(w, "map"),
     hud |-> Opened(w, "hud"), crosshair |-> Flag(w.menus = {"hud"}),
     cinematic |-> Flag(w.menus # Nil /\ w.cameraState \in {"tween", "vats", "bleedout"}),
     loading |-> Opened(w, "loading"), crafting |-> Opened(w, "crafting"),
     book |-> Opened(w, "book"), lockpick |-> Opened(w, "lockpick"), console |-> Opened(w, "console")]

NoEquipment == [right |-> Zero, left |-> Zero, spell |-> Zero, heavy |-> Zero, light |-> Zero,
                cloth |-> Zero, drawn |-> Zero, bow |-> Zero, torch |-> Zero, twoHands |-> Zero]
Shield == 20                \* the left hand's type of a shield
EquipmentUpdate(w) ==
    IF ~w.player THEN NoEquipment
    ELSE LET right == IF w.right # Nil /\ w.right.kind = "weapon" THEN w.right.type ELSE Zero
             left == IF w.left = Nil THEN "nothing" ELSE w.left.kind
             worn(class) == Flag(class \in w.worn)
         IN [right |-> right,
             left |-> CASE left = "weapon" -> w.left.type [] left = "shield" -> Shield [] OTHER -> Zero,
             spell |-> Flag(left = "spell"), heavy |-> worn("heavy"), light |-> worn("light"),
             cloth |-> worn("cloth"), drawn |-> Flag(w.drawn), bow |-> Flag(right \in {7, 9}),
             torch |-> Flag(left = "torch"), twoHands |-> Flag(right \in {5, 6})]

-----------------------------------------------------------------------------
\* The trackers that are skipped while the game loads.

\* The first LightCandidates lights in reach, nearest first; three are published.
NearestFirst(lights) == SortSeq(lights, LAMBDA a, b : a.distance < b.distance)
First(n, s) == SubSeq(s, 1, Min({n, Len(s)}))
Candidates(cell) == First(LightCandidates, SelectSeq(cell.lights, LAMBDA l : l.enabled))
LightUpdate(w) ==
    LET found == IF HasCell(w) THEN NearestFirst(Candidates(w.cell)) ELSE <<>>
    IN [lights |-> First(3, found), count |-> Len(found),
        nearest |-> IF found = <<>> THEN Zero ELSE Head(found).distance]

ActorValueUpdate(w) ==
    IF ~w.player THEN [armour |-> Zero, load |-> Zero]
    ELSE [armour |-> w.armour, load |-> IF w.carry > 0 THEN w.burden ELSE Zero]

NoCrosshair == [hit |-> Zero, distance |-> Zero, actor |-> Zero, hostile |-> Zero]
CrosshairUpdate(w) ==
    IF w.target = Nil THEN NoCrosshair
    ELSE [hit |-> 1, distance |-> IF w.player THEN Distance(w.target.at, w.at) ELSE Zero,
          actor |-> Flag(w.target.actor),
          hostile |-> Flag(w.target.actor /\ w.player /\ w.target.hostile)]

NoQuest == [done |-> Zero, active |-> Zero, objectives |-> Zero, main |-> Zero]
QuestUpdate(w) ==
    IF ~w.player \/ w.quests = Nil THEN NoQuest
    ELSE LET active == {q \in w.quests : q.active} IN
         [done |-> Cardinality({q \in w.quests : q.done}), active |-> Cardinality(active),
          objectives |-> MapThenSumSet(LAMBDA q : q.shown, active),
          main |-> Max({0} \cup {q.stage : q \in {a \in active : a.main}})]

\* Only an exterior cell has a list of regions, and only its first counts.
NoRegion == [cell |-> Zero, location |-> Zero, worldspace |-> Zero, region |-> Zero, override |-> Zero]
RegionUpdate(w) ==
    IF ~HasCell(w) THEN NoRegion
    ELSE LET first == IF w.cell.interior \/ w.cell.regions = <<>> THEN Nil ELSE Head(w.cell.regions)
         IN [cell |-> w.cell.id, location |-> w.location, worldspace |-> w.worldspace,
             region |-> IF first = Nil THEN Zero ELSE first.id,
             override |-> Flag(first # Nil /\ first.weather)]

\* Living actors in reach; the nearest of all, of the foes and of the friends.
Nearest(actors) == CHOOSE a \in actors : \A b \in actors : a.distance <= b.distance
NoActors == [nearest |-> Zero, hostile |-> Zero, foes |-> Zero, friends |-> Zero,
             nearFoe |-> Zero, nearFriend |-> Zero, detected |-> Zero]
NPCDetectUpdate(w) ==
    IF ~w.player \/ w.actors = Nil THEN NoActors
    ELSE LET near == {a \in w.actors : ~a.dead /\ a.distance <= w.reach}
             foes == {a \in near : a.hostile}
             distance(actors, none) == IF actors = {} THEN none ELSE Nearest(actors).distance
         IN [nearest |-> distance(near, 0), hostile |-> Flag(near # {} /\ Nearest(near).hostile),
             foes |-> Cardinality(foes), friends |-> Cardinality(near \ foes),
             nearFoe |-> distance(foes, -1), nearFriend |-> distance(near \ foes, -1),
             detected |-> Max({0} \cup {a.alert : a \in foes})]

-----------------------------------------------------------------------------
\* Not skipped: the audio state.  The cell and the weather are read again.
NoAudio == [combat |-> Zero, dungeon |-> Zero, outdoors |-> Zero, weather |-> Zero]
AudioUpdate(w) ==
    IF w.audio = Nil \/ ~w.player THEN NoAudio
    ELSE [combat |-> Flag(w.fights), dungeon |-> Flag(w.dungeon),
          outdoors |-> Flag(HasCell(w) /\ ~w.cell.interior),
          weather |-> Flag(HasWeather(w) /\ (w.weather.rain \/ w.weather.snow))]
=============================================================================
