----------------------------- MODULE MCFrameData -----------------------------
(***************************************************************************)
(* The engine's states and the files for the runs of FrameData: the main   *)
(* menu, the loading of an inn, a fight in a storm.                        *)
(***************************************************************************)
EXTENDS FrameData

Colour(a, b) == [sunrise |-> a, day |-> b, sunset |-> a, night |-> 0]
Clear == [id |-> 1, skyColour |-> Colour(3, 9), fogColour |-> Colour(1, 5), fogDay |-> 4, fogNight |-> 1,
          glare |-> 1, rain |-> FALSE, snow |-> FALSE, pleasant |-> TRUE, cloudy |-> FALSE,
          windy |-> FALSE, solstheim |-> FALSE, thunder |-> FALSE, foggy |-> FALSE]
Storm == [Clear EXCEPT !.id = 2, !.rain = TRUE, !.thunder = TRUE, !.pleasant = FALSE, !.glare = 0]

Lamp(d) == [enabled |-> TRUE, distance |-> d]
Inn == [id |-> 1, interior |-> TRUE, water |-> 0, lighting |-> 3,
        lights |-> <<Lamp(4), Lamp(2), [enabled |-> FALSE, distance |-> 1], Lamp(3), Lamp(1)>>, regions |-> <<>>]
Lake == [id |-> 2, interior |-> FALSE, water |-> 5, lighting |-> Nil, lights |-> <<>>,
         regions |-> <<[id |-> 7, weather |-> TRUE]>>]

Outdoors ==
    [sky |-> TRUE, sun |-> [culled |-> FALSE, dir |-> 1], masser |-> [culled |-> TRUE, dir |-> 2], day |-> 3,
     calendar |-> TRUE, hour |-> 61, climate |-> Nil, weather |-> Clear, last |-> Nil, pct |-> 2,
     clouds |-> <<1, 0>>, player |-> TRUE, at |-> 3, height |-> 6, health |-> 5, maxHealth |-> 9,
     fights |-> FALSE, opponents |-> 0, drawn |-> FALSE, beast |-> 0, cell |-> Lake, camera |-> 3,
     cameraState |-> "thirdPerson", fov |-> 65, effects |-> <<>>, screen |-> 2, frozen |-> FALSE,
     imageSpace |-> 1, menus |-> {"hud"}, right |-> Nil, left |-> Nil, worn |-> {"cloth"}, armour |-> 0,
     carry |-> 3, burden |-> 1, target |-> Nil, quests |-> {}, location |-> 1, worldspace |-> 1,
     actors |-> {}, reach |-> 4, audio |-> 1, dungeon |-> FALSE]
Fight == [Outdoors EXCEPT !.weather = Storm, !.last = Clear, !.pct = 1, !.hour = 110, !.height = 4,
            !.fights = TRUE, !.opponents = 1, !.drawn = TRUE, !.right = [kind |-> "weapon", type |-> 5],
            !.left = [kind |-> "shield", type |-> 0],
            !.effects = <<[active |-> TRUE, kind |-> "fire"], [active |-> FALSE, kind |-> "poison"]>>,
            !.target = [at |-> 7, actor |-> TRUE, hostile |-> TRUE],
            !.quests = {[active |-> TRUE, done |-> FALSE, shown |-> 2, main |-> TRUE, stage |-> 4]},
            !.actors = {[dead |-> FALSE, distance |-> 2, hostile |-> TRUE, alert |-> 3],
                        [dead |-> TRUE, distance |-> 1, hostile |-> FALSE, alert |-> 0]}]
Loads == [Outdoors EXCEPT !.cell = Inn, !.height = 0, !.last = Storm, !.pct = 0, !.menus = {"loading"},
            !.sun = [culled |-> TRUE, dir |-> 1]]
MainMenu == [Loads EXCEPT !.sky = FALSE, !.player = FALSE, !.cell = Nil, !.menus = {"main"},
                !.cameraState = Nil]
AnyWorld == {Fight, Loads, MainMenu}

Param(group, name, clear, storm, broken) ==
    [shader |-> "effect", group |-> group, name |-> name, values |-> [c \in {"Clear", "ThunderRain"} |-> IF c = "Clear" THEN clear ELSE storm],
     low |-> 0, high |-> 1, broken |-> broken]
\* A name in two groups; and in one group twice, with a number that does not parse.
TwoGroups  == <<Param("day", "bloom", 1, 0, FALSE), Param("night", "bloom", 0, 1, FALSE)>>
BrokenFile == <<Param("day", "bloom", 1, 0, FALSE), Param("day", "bloom", 0, 1, TRUE),
                Param("day", "grain", 1, 1, FALSE)>>
AllFiles == {TwoGroups, BrokenFile}
NoOverrides == <<>>

FromCamera == [enabled |-> TRUE, target |-> "CameraFOV", source |-> "AllDataField", group |-> "camera",
               field |-> "at", scale |-> 1, offset |-> 64, clampMin |-> 65, clampMax |-> 66, instant |-> TRUE]
AllRules == <<FromCamera>>
=============================================================================
