---------------------------- MODULE MCNativeSuite ----------------------------
(***************************************************************************)
(* Parameter links and the native parts beside them.  They share nothing,  *)
(* so that each, and each concern of the native parts, is explored while   *)
(* the others rest.                                                        *)
(***************************************************************************)
EXTENDS ParmLink, ExprParser, NativeSuite

VARIABLE part

Num(n) == <<"num", <<n, 1>>>>
Var(name) == <<"var", name>>
Ops == {"||", "&&", "<", "!=", "-", "+", "/", "%"}
Around(S) ==
    S \cup {<<u, a>> : u \in {"-", "!"}, a \in S}
      \cup {<<op, a, b>> : op \in Ops, a \in S, b \in S}
      \cup {<<"call", "max", <<a, b>>>> : a \in S, b \in S}
      \cup {<<"?", a, b, c>> : a \in S, b \in S, c \in S}
\* An operator of each kind around operators of each kind.
Inner == {Num(2), Var("wet"), <<"-", Num(2)>>, <<"!", Var("wet")>>,
          <<"?", Num(1), Var("wet"), Num(3)>>, <<"call", "max", <<Num(1), Num(2)>>>>}
      \cup {<<op, Num(1), Var("wet")>> : op \in Ops}
MCWorlds == {[rain |-> <<0, 1>>, hour |-> <<7, 1>>], [rain |-> <<-5, 2>>, hour |-> <<31, 2>>],
             [rain |-> <<1, 1>>, hour |-> <<0, 1>>]}
MCRegistered == <<[name |-> "wet", from |-> "hour"], [name |-> "hour", from |-> "hour"],
                  [name |-> "wet", from |-> "rain"]>>

\* Lines over a name above and the built-ins; the last three have errors.
Line(name, tree) == [name |-> name, text |-> Printed(tree), meant |-> tree]
Faulty(name, text) == [name |-> name, text |-> text, meant |-> <<>>]
Lines(name, below) ==
    {Line(name, <<"%", Var("hour"), <<"-", Num(4)>>>>),
     Line(name, <<"?", <<">=", Var("hour"), Num(7)>>, <<"/", Var(below), Var("wet")>>,
                  <<"call", "step", <<Var("wet"), Num(0)>>>>>>),
     Faulty(name, <<<<"(">>, <<"id", below>>, <<"*">>, <<"-">>, <<"id", "frac">>, <<"(">>, <<"id", "wet">>, <<")">>>>),
     Faulty(name, <<<<"id", "lerp">>, <<"(">>, <<"id", below>>, <<",">>, <<"id", "hour">>, <<",">>,
                    <<"id", "wet">>, <<"end">>, Num(1)>>),
     Faulty(name, <<>>)}
MCFiles ==
    {<<Line("a", tree)>> : tree \in Around(Inner)}
    \cup {<<s, Faulty("", <<>>), t, u>> : s \in Lines("a", "hour"), t \in Lines("b", "a"), u \in Lines("c", "b")}
    \cup {<<Line("wet", Num(9)), Line("a", Var("b")), Line("b", Var("wet"))>>}

-----------------------------------------------------------------------------
\* Texts: a header, an entry, a note.
Head2(words) == <<Sign("[")>> \o words \o <<Sign("]")>>
Entry(key, value) == W(key) \o <<Sign("=")>> \o value
Note == <<Sign("note"), Word("note")>>
Comma == <<Sign("comma")>>
N(n) == <<Number(n)>>
Skyrim == W(<<"Skyrim.ini">>)
Solstheim == W(<<"my">>) \o <<Sign(":")>> \o W(<<"Solstheim.ini">>)
MCFolders ==
    {[routing |-> r, legacy |-> l, lists |-> files, installed |-> i, locked |-> k, imported |-> FALSE] :
        r \in {Absent,
               <<Entry(<<"early">>, N(1)), Note, Head2(Routes), Entry(<<"Tamriel">>, N(60) \o <<Sign(":")>> \o Skyrim \o Note),
                 Entry(<<"none">>, <<Sign(":")>> \o Skyrim), Entry(<<"half">>, N(62)), W(<<"junk">>),
                 Entry(<<"Both">>, N(60) \o Comma \o N(61) \o <<Sign(":")>> \o Solstheim), Head2(Options), Entry(<<"Default">>, <<>>)>>,
               <<Head2(Options), Entry(<<"Default">>, Skyrim), Head2(Routes), Entry(<<"S">>, N(61) \o <<Sign(":")>> \o Solstheim)>>},
        l \in {Absent,
               <<Head2(W(<<"WEATHERLIST", "01">>)), Entry(<<"FileName">>, Skyrim), Entry(<<"WorldspaceIDs">>, N(60)),
                 Head2(W(<<"WEATHERLIST", "02">>)), Entry(<<"WorldspaceIDs">>, N(61) \o Comma \o Comma \o N(62) \o Comma),
                 Entry(<<"FileName">>, Solstheim), Entry(<<"FileName">>, Skyrim),
                 Head2(W(<<"WEATHERLIST", "03">>)), Entry(<<"FileName">>, Skyrim), Head2(W(<<"OTHER">>)), Entry(<<"FileName">>, Skyrim)>>},
        files \in {{Skyrim}, {Skyrim, Solstheim}}, i \in {Shipped, Absent}, k \in BOOLEAN}
FoldersOfENB == {f \in MCFolders : f.installed = Shipped}
MCWorldspaces == {0, 60, 61, 62}
MCInis == {<<>>, <<Head2(W(<<"Native">>)), Entry(<<"WeatherRouting">>, W(<<"no">>)), Entry(<<"Sky">>, N(0) \o Note)>>,
           <<Head2(W(<<"Native">>)), Entry(<<"EnbLightInventoryFix">>, W(<<"on">>)), Entry(<<"Sky">>, W(<<"maybe">>))>>}

MCFormTypes == <<"TESWeather", "TESQuest", "ActorValueInfo">>
MCForms == [f \in {1, 2} |-> [type |-> IF f = 1 THEN "TESWeather" ELSE "TESQuest", dynamic |-> f = 2]]
MCOutside == {[f \in {1, 2} |-> ""], [f \in {1, 2} |-> IF f = 1 THEN "outside" ELSE "elsewhere"]}

\* One record of every kind, and what may be said of them.
Fresh(keys) ==
    [f \in UNION {s.to : s \in keys} |->
        LET kind == (CHOOSE s \in keys : f \in s.to).kind
        IN CASE kind \in {"rgb", "rgb0"} -> <<7, 8, 9>> [] kind = "rgba" -> <<7, 8, 9, 4>> [] kind = "size" -> <<3, 4>>
             [] kind = "on" -> TRUE [] kind = "text" -> <<>>
             [] kind \in {"float", "float0", "byte", "alpha"} -> 5 [] OTHER -> NoForm]
MCRecords == (10 :> [type |-> "Weather", fields |-> Fresh(WeatherKeys)]) @@ (11 :> [type |-> "Template", fields |-> Fresh(TemplateKeys)])
          @@ (12 :> [type |-> "Volumetric", fields |-> Fresh(VolumetricKeys)]) @@ (13 :> [type |-> "Particle", fields |-> Fresh(ParticleKeys)])
          @@ (14 :> [type |-> "ImageSpace", fields |-> ImageDefaults])
ID(n) == Entry(<<"ID">>, N(n))
Nowhere == [d \in Directories |-> <<>>]
MCProfiles ==
    ("weather" :> [Nowhere EXCEPT !["Weathers"] =
        <<<<ID(10), Head2(W(<<"Misc">>)), Entry(<<"ImageSpaceID", "Day">>, N(14)), Entry(<<"VolumetricLightingID", "Day">>, N(14)),
            Entry(<<"LightningColor">>, N(300) \o Comma \o N(-4)), Entry(<<"SunGlare">>, N(259)), Head2(W(<<"DirAmbient">>)),
            Entry(<<"Middle", "Night">>, Comma \o N(20)), Head2(W(<<"Clouds">>)), Entry(<<"Layer", "31", "Enabled">>, W(<<"perhaps">>)),
            Entry(<<"Layer", "0", "Color", "Day">>, N(1) \o Comma \o N(2) \o Comma \o N(3) \o Comma \o N(4))>>,
          <<Head2(W(<<"Misc">>)), ID(10)>>, <<ID(11), Head2(W(<<"Fog">>)), Entry(<<"DayNear">>, N(1))>>>>])
    @@ ("later" :> [Nowhere EXCEPT !["Weathers"] =
        <<<<ID(10), Head2(W(<<"Misc">>)), Entry(<<"ImageSpaceID", "Day">>, N(0)), Entry(<<"VolumetricLightingID", "Day">>, N(12)),
            Head2(W(<<"Fog">>)), Entry(<<"DayFar">>, N(70) \o Note), Entry(<<"DayNear">>, W(<<"far">>)), Head2(W(<<"Colors">>)),
            Entry(<<"SkyUpper", "Day">>, N(1) \o Comma \o N(2)), Head2(W(<<"Precipitation">>)), ID(13), Head2(W(<<"Fog">>)),
            Entry(<<"DayNear">>, N(6))>>>>])
    @@ ("lights" :> [Nowhere EXCEPT !["LightingTemplates"] =
        <<<<ID(11), Entry(<<"Ambient">>, N(40)), Entry(<<"FogNear">>, N(2)), Head2(W(<<"DirectionalAmbient">>)), Entry(<<"Top">>, N(90))>>>>,
        !["VolumetricLighting"] = <<<<ID(12), Entry(<<"Density">>, N(2)), Entry(<<"CustomColor">>, N(1) \o Comma \o N(2))>>>>,
        !["ShaderParticleGeometries"] = <<<<ID(13), Entry(<<"ParticleSize">>, N(1)), Entry(<<"BoxSize">>, W(<<"big">>))>>>>])
    @@ ("image" :> [Nowhere EXCEPT !["ImageSpaces"] =
        <<<<Entry(<<"White">>, N(3)), ID(14), Entry(<<"BloomBlurReadius">>, N(6)),
            Entry(<<"Tint">>, N(1) \o Comma \o N(2) \o Head2(W(<<"DepthOfField">>))), Entry(<<"Range">>, N(8))>>, <<Entry(<<"White">>, N(4))>>>>])

\* Which concern a behaviour is about.
InPart ==
    /\ Cardinality(modules') <= 3
    /\ part # "owners" => modules' \subseteq (IF part = "names" THEN {"po3_Tweaks"} ELSE {}) /\ native'.wants = Defaults
    /\ part # "routing" => router'.last = router.last /\ enbseries' = enbseries /\ session' = session
    /\ part # "names" => cache' = cache /\ reader' = reader
    /\ part # "profiles" => loaded' = loaded
Plainest == CHOOSE f \in MCFolders : f.routing # Absent /\ f.legacy = Absent /\ f.installed = Shipped
SuiteInit ==
    /\ LinkInit /\ NativeInit /\ part \in {"links", "owners", "routing", "names", "profiles"}
    /\ part # "routing" => enbseries = Plainest
    /\ part # "owners" => isAE
    /\ part # "links" => world = CHOOSE w \in Worlds : TRUE
SuiteNext ==
    /\ UNCHANGED part
    /\ \/ part = "links" /\ LinkNext /\ UNCHANGED <<stage, session, native, present, isAE, modules, exports, compat, ids, vtable, cache, known,
                                                buffer, reader, enbseries, router, visit, forms, loaded>>
       \/ part # "links" /\ NativeNext /\ InPart /\ UNCHANGED linkVars
SuiteSpec == SuiteInit /\ [][SuiteNext]_<<part, linkVars, suiteVars, componentVars>>
=============================================================================
