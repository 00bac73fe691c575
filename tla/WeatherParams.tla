--------------------------- MODULE WeatherParams ---------------------------
(***************************************************************************)
(* The weather parameter computer: shader parameters with one value per    *)
(* category of weather, read from an INI file that the player may edit     *)
(* while the game runs, moved towards the present weather's value in every *)
(* update, pushed to ENB by shader file, group and name, and looked up by  *)
(* the name alone for the shared region.                                   *)
(*                                                                         *)
(* A section of the file is a parameter; "broken" in it is a number that   *)
(* does not parse, at which the load throws and leaves what it had loaded. *)
(* What is pushed besides under a section's SBParam is left out.           *)
(***************************************************************************)
EXTENDS Trackers, Functions, TLC

CONSTANTS Files,        \* the texts WeatherParams.ini may have, each a sequence of sections
          Overrides     \* WeatherClasses.ini: weather identities to categories,
                        \* taken not to change: a reload reads the same again

\* A file is a sequence of sections, and each of them has its name.
ASSUME FilesAssumption ==
    \A file \in Files :
        /\ file \in Seq(Range(file))
        /\ \A i \in DOMAIN file : {"shader", "group", "name", "broken"} \subseteq DOMAIN file[i]

VARIABLES params,       \* m_params: the sections loaded, each with its current value
          index,        \* m_paramIndex: from a name to a place in params
          category,     \* m_currentCat
          ini,          \* the file: its text, and when it was written
          stamp,        \* m_lastParamMod
          shader        \* what ENB holds, by shader file, group and name

wpVars == <<params, index, category, ini, stamp, shader>>

MaxEdits == 1           \* bound: how often the file is edited
Whole == 2              \* a whole transition, in units of its progress

\* By identity first, then by flags: the most specific that fits.
Fits(weather) ==
    IF weather.id \in DOMAIN Overrides THEN Overrides[weather.id]
    ELSE IF weather.snow THEN (IF weather.windy THEN "Blizzard" ELSE "Snow")
    ELSE IF weather.solstheim /\ ~weather.pleasant /\ ~weather.rain THEN "Ash"
    ELSE IF weather.rain THEN (IF weather.thunder THEN "ThunderRain" ELSE "Rain")
    ELSE IF weather.foggy THEN "Foggy" ELSE IF weather.cloudy THEN "Cloudy" ELSE "Clear"
Classify(weather) == IF weather = Nil THEN "Clear" ELSE Fits(weather)

\* The sections before the first that is broken are loaded, and that one
\* with the values it had read: its current value starts at zero.
Loaded(file) ==
    LET last == Min({Len(file)} \cup {i \in DOMAIN file : file[i].broken})
    IN [i \in 1 .. last |->
           [key \in DOMAIN file[i] \cup {"now"} |-> IF key = "now" THEN 0 ELSE file[i][key]]]
\* Wrong: a name that occurs twice leads to its first section.
IndexOfFirst(loaded) ==
    [n \in {loaded[i].name : i \in DOMAIN loaded} |-> Min({i \in DOMAIN loaded : loaded[i].name = n})]

\* A name that occurs twice leads to its last section.
IndexOf(loaded) ==
    [n \in {loaded[i].name : i \in DOMAIN loaded} |-> Max({i \in DOMAIN loaded : loaded[i].name = n})]

LoadParameterINI(file) == params' = Loaded(file) /\ index' = IndexOf(Loaded(file))

Names == UNION {{section.name : section \in Range(file)} : file \in Files}

\* The parameter of a shader that a section is about.
Place(section) == <<section.shader, section.group, section.name>>
Places == UNION {{Place(section) : section \in Range(file)} : file \in Files}

\* Initialize runs outside of any handler: with a broken file there is no game.
WpInit ==
    \E file \in {f \in Files : \A i \in DOMAIN f : ~f[i].broken} :
        /\ params = Loaded(file) /\ index = IndexOf(Loaded(file))
        /\ category = "Clear"
        /\ ini = [text |-> file, written |-> 0] /\ stamp = 0
        /\ shader = [place \in Places |-> 0]

\* The player saves the file.
EditIni ==
    /\ ini.written < MaxEdits
    /\ \E file \in Files : ini' = [text |-> file, written |-> ini.written + 1]
    /\ UNCHANGED <<params, index, category, stamp, shader>>

-----------------------------------------------------------------------------
\* Anything from one value to the other: the blend, and then the smoothing,
\* each go part of the way, by a fraction that floating point decides.
Span(a, b) == IF a <= b THEN a .. b ELSE b .. a
Targets(param, to, from, pct) ==
    IF pct <= 0 THEN {param.values[from]}
    ELSE IF pct >= Whole THEN {param.values[to]}
    ELSE Span(param.values[from], param.values[to])
Clamped(v, param) == Max({param.low, Min({v, param.high})})
\* The values that a parameter may have after an update.
Moved(param, to, from, pct) ==
    {Clamped(v, param) : v \in UNION {Span(param.now, t) : t \in Targets(param, to, from, pct)}}

\* Every section is pushed in turn: a later one of the same shader, group and name
\* writes over an earlier one.
PushAllToENB(ps) ==
    shader' = [place \in Places |-> LET at == {i \in DOMAIN ps : Place(ps[i]) = place} IN
                                    IF at = {} THEN shader[place] ELSE ps[Max(at)].now]

\* Looked at every other second at most: due says whether it is time.
CheckHotReload(due, ps) ==
    IF due /\ ini.written # stamp
    THEN LoadParameterINI(ini.text) /\ stamp' = ini.written
    ELSE params' = ps /\ UNCHANGED <<index, stamp>>

\* Without a sky nothing is done; without a weather the last one's category stays.
UpdateParams(w) ==
    IF ~w.sky THEN UNCHANGED wpVars
    ELSE LET to == IF w.weather = Nil THEN category ELSE Classify(w.weather)
             from == IF w.last = Nil THEN to ELSE Classify(w.last)
         IN \E now \in [DOMAIN params -> UNION {Moved(params[i], to, from, w.pct) : i \in DOMAIN params}] :
               LET ps == [i \in DOMAIN params |-> [params[i] EXCEPT !.now = now[i]]] IN
               /\ \A i \in DOMAIN params : now[i] \in Moved(params[i], to, from, w.pct)
               /\ category' = to
               /\ PushAllToENB(ps)
               /\ \E due \in {FALSE, ini.written # stamp} : CheckHotReload(due, ps)
               /\ UNCHANGED ini

\* What the shared region is given for a name.  The place is not checked:
\* past the end it would be undefined what is read.
Undefined == -99
GetValue(ps, places, n) ==
    IF n \notin DOMAIN places THEN 0 ELSE IF places[n] \in DOMAIN ps THEN ps[places[n]].now ELSE Undefined

=============================================================================
