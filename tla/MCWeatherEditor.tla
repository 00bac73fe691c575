-------------------------- MODULE MCWeatherEditor --------------------------
(* Two weathers: each has a colour of its own, the clear one has an image
   space, which the rain does not have, and they share a volumetric light,
   whose day and night are one form. *)
EXTENDS WeatherEditor

MCFields == <<"colour", "bright", "beamDay", "beamNight">>
MCGroup == [f \in FieldSet |-> CASE f = "colour" -> "record" [] f = "bright" -> "imageSpace"
                                 [] f = "beamDay" -> "day" [] OTHER -> "night"]
MCCells == {"clearColour", "rainColour", "bright", "beam"}
MCLives ==
    [w \in Weathers |-> [f \in FieldSet |->
        CASE f = "colour" -> IF w = "clear" THEN "clearColour" ELSE "rainColour"
          [] f = "bright" -> IF w = "clear" THEN f ELSE Nil
          [] OTHER -> "beam"]]
MCPristine == [c \in Cells |-> CASE c = "clearColour" -> 1 [] c = "rainColour" -> 2
                                 [] c = "bright" -> 3 [] OTHER -> 255]
\* A part of a record, one of the beams; a part that the rain does not have,
\* and a beam that is out of range.
MCLines ==
    [w \in Weathers |->
        IF w = "clear" THEN {[colour |-> 40000, beamDay |-> -5]}
        ELSE {[bright |-> 60000, beamNight |-> 1200000]}]
\* A dump of the rain's record that somebody has edited.
MCDumps == [c \in Cells |-> IF c = "rainColour" THEN {6} ELSE {}]
=============================================================================
