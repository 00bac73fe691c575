---------------------------- MODULE KreateProfile ----------------------------
(***************************************************************************)
(* Record profiles: a directory of small texts, each naming a form of the  *)
(* game and the values that some of its fields get.  A form is a function  *)
(* of its fields; a colour is a triple of bytes, a number of a text is an  *)
(* integer of the unit its field counts in.                                *)
(***************************************************************************)
EXTENDS SBConfig, TLC

CONSTANTS NoForm,       \* an empty link
          Records,      \* the game's forms, functions of identifiers: [type, fields]
          Tods,         \* times of day, of kToD
          ColorTypes,   \* of kCT
          Layers,       \* of the 32 layers of clouds
          Profiles      \* a function of names: functions of directories to lists of texts

Directories == {"ImageSpaces", "Weathers", "LightingTemplates", "VolumetricLighting", "ShaderParticleGeometries"}
ASSUME ProfilesAssumption ==
    \A name \in DOMAIN Profiles : \A dir \in Directories : Profiles[name][dir] \in Seq(Range(Profiles[name][dir]))

VARIABLES forms,    \* the fields of the game's forms
          loaded    \* LoadedName and what was loaded: [name, overrides]

profileVars == <<forms, loaded>>
FreshForms == [id \in DOMAIN Records |-> Records[id].fields]
Unloaded == [name |-> "", overrides |-> <<>>]
ProfileInit == forms = FreshForms /\ loaded = Unloaded

W(words) == [i \in DOMAIN words |-> Word(words[i])]

-----------------------------------------------------------------------------
\* What the keys of a section set: each key a kind of value and its fields.
Key(section, key, kind, to) == [in |-> W(section), key |-> W(key), kind |-> kind, to |-> to]
Cube(section, tod, suffix) ==
    {Key(section, <<"Top">> \o suffix, "rgb", {<<"ambient", tod, "z+">>}),
     Key(section, <<"Bottom">> \o suffix, "rgb", {<<"ambient", tod, "z-">>}),
     Key(section, <<"Middle">> \o suffix, "rgb", {<<"ambient", tod, side>> : side \in {"x+", "x-", "y+", "y-"}})}
Plain(section, kind, keys) == {Key(section, <<k>>, kind, {<<k>>}) : k \in keys}

DirAmbient == UNION {Cube(<<"DirAmbient">>, tod, <<tod>>) : tod \in Tods}
WColors == {Key(<<"Colors">>, <<c, tod>>, "rgb", {<<"color", c, tod>>}) : c \in ColorTypes, tod \in Tods}
WFog == Plain(<<"Fog">>, "float", {"DayNear", "DayFar", "DayCurve", "DayMax",
                                   "NightNear", "NightFar", "NightCurve", "NightMax"})
WClouds ==
    {Key(<<"Clouds">>, <<"Layer", i, "Speed", x>>, "byte", {<<"cloudSpeed", i, x>>}) : i \in Layers, x \in {"X", "Y"}}
    \cup {Key(<<"Clouds">>, <<"Layer", i, "Enabled">>, "on", {<<"cloudEnabled", i>>}) : i \in Layers}
    \cup {Key(<<"Clouds">>, <<"Layer", i, "Color", tod>>, "rgb", {<<"cloudColor", i, tod>>}) : i \in Layers, tod \in Tods}
    \cup {Key(<<"Clouds">>, <<"Layer", i, "Color", tod>>, "alpha", {<<"cloudAlpha", i, tod>>}) : i \in Layers, tod \in Tods}
WWind == Plain(<<"Wind">>, "byte", {"Speed", "Direction", "DirRange"})
WMisc ==
    Plain(<<"Misc">>, "byte", {"TransDelta", "SunGlare", "SunDamage", "LightningBeginFadeIn",
                               "LightningEndFadeOut", "LightningFrequency"})
    \cup Plain(<<"Misc">>, "rgb0", {"LightningColor"})
    \cup {Key(<<"Misc">>, <<link, tod>>, link, {<<link, tod>>}) : link \in {"ImageSpaceID", "VolumetricLightingID"}, tod \in Tods}
    \cup Plain(<<"Misc">>, "SolarLensFlareID", {"SolarLensFlareID"})
WPrecip ==
    Plain(<<"Precipitation">>, "byte", {"BeginFadeIn", "EndFadeOut"})
    \cup {Key(<<"Precipitation">>, <<"ID">>, "ShaderParticleID", {<<"precipitationData">>})}
WVisualEffect ==
    Plain(<<"VisualEffect">>, "byte", {"Begin", "End"})
    \cup {Key(<<"VisualEffect">>, <<"ID">>, "ReferenceEffectID", {<<"referenceEffect">>})}
WeatherKeys == DirAmbient \cup WColors \cup WFog \cup WClouds \cup WWind \cup WMisc \cup WPrecip \cup WVisualEffect

TemplateKeys ==
    Plain(<<>>, "rgb", {"Ambient", "Directional", "FogColorNear", "FogColorFar"})
    \cup Plain(<<>>, "float", {"DirectionalRotXY", "DirectionalRotZ", "DirectionalFade", "FogNear", "FogFar",
                               "FogClipDist", "FogPower", "FogMax", "LightFadeStart", "LightFadeEnd"})
    \cup Cube(<<"DirectionalAmbient">>, "", <<>>)
VolumetricKeys ==
    Plain(<<>>, "float", {"Intensity", "Density", "Size", "WindSpeed", "FallingSpeed", "Phase", "Scattering", "RangeFactor"})
    \cup {Key(<<>>, <<"CustomColor">>, "rgba", {<<"CustomColor">>})}
ParticleKeys ==
    Plain(<<>>, "float0", {"GravityVelocity", "RotationVelocity", "CenterOffsetMin", "CenterOffsetMax", "InitialRotationRange",
                           "SubtextureCountX", "SubtextureCountY", "Shader", "BoxSize", "ParticleDensity"})
    \cup Plain(<<>>, "size", {"ParticleSize"}) \cup Plain(<<>>, "text", {"ParticleTexture"})

\* The form that a link's kind can point at; one that is not there leaves
\* the link as it was, and zero clears it.
Linked(kind, id, old) ==
    IF id = 0 THEN NoForm
    ELSE IF id \in DOMAIN Records /\ <<Records[id].type, kind>> \in
                {<<"Volumetric", "VolumetricLightingID">>, <<"ImageSpace", "ImageSpaceID">>, <<"Particle", "ShaderParticleID">>}
    THEN id ELSE old
Byte8(n) == IF n < 0 THEN 0 ELSE IF n > 255 THEN 255 ELSE n
Color(v, def) == LET c == AsColor4(v, def) IN [i \in DOMAIN c |-> Byte8(c[i])]
Converted(kind, v, old) ==
    CASE kind = "rgb" -> Color(v, old)
      [] kind = "rgb0" -> Color(v, <<0, 0, 0>>)
      [] kind = "rgba" -> AsColor4(v, old)
      [] kind = "alpha" -> AsColor4(v, <<0, 0, 0, old>>)[4]
      [] kind = "size" -> AsColor4(v, <<0, 0>>)
      [] kind = "float" -> AsNumber(v, old)
      [] kind = "float0" -> AsNumber(v, 0)
      [] kind = "byte" -> IF v = <<>> THEN old ELSE AsNumber(v, old) % 256
      [] kind = "on" -> AsBool(v, FALSE)
      [] kind = "text" -> v
      [] OTHER -> Linked(kind, AsFormID(v), old)

-----------------------------------------------------------------------------
\* ApplyWeather, ApplyLightingTemplate, ApplyVolumetric, ApplyShaderParticle:
\* an override sets the fields that it has keys for.
Says(doc, s) == HasSection(doc, s.in) /\ HasKey(Section(doc, s.in), s.key)
Set2(fields, doc, keys) ==
    LET said == {s \in keys : Says(doc, s)}
        New(f) == LET s == CHOOSE s \in said : f \in s.to
                  IN Converted(s.kind, Find(Section(doc, s.in), s.key), fields[f])
    IN [f \in DOMAIN fields |-> IF \E s \in said : f \in s.to THEN New(f) ELSE fields[f]]

\* Wrong: the volumetric light's values are not read before they are set.
VolumetricUnread(fields, doc) ==
    Set2([f \in DOMAIN fields |-> IF f = <<"CustomColor">> THEN <<0, 0, 0, 0>> ELSE 0], doc, VolumetricKeys)
ApplyVolumetric(fields, doc) == Set2(fields, doc, VolumetricKeys)

\* Image spaces are parsed apart: what a text does not say becomes zero, and
\* a header may be glued to the end of a value.
ImageKeys ==
    Plain(<<>>, "float", {"EyeAdaptSpeed", "EyeAdaptStrength", "BloomBlurRadius", "BloomThreshold", "BloomScale",
        "ReceiveBloomThreshold", "White", "SunlightScale", "SkyScale", "Saturation", "Brightness", "Contrast"})
    \cup {Key(<<>>, <<"BloomBlurReadius">>, "float", {<<"BloomBlurRadius">>})}
    \cup Plain(<<>>, "rgba", {"Tint"}) \cup Plain(<<"DepthOfField">>, "float", {"Strength", "Distance", "Range"})
ImageLine(done, line) ==
    LET value == After(line, "=")
        key == Before(line, "=")
        said == {s \in ImageKeys : s.in = done.section /\ s.key = key}
        v == Before(value, "[")
        ahead == IF Has(value, "]") THEN Before(After(value, "["), "]") ELSE <<>>
    IN IF line = <<>> \/ line[1][1] \in {"note", "//"} THEN done
       ELSE IF line[1][1] = "[" THEN [done EXCEPT !.section = Before(Tail(line), "]")]
       ELSE IF ~Has(line, "=") THEN done
       ELSE [section |-> IF ahead = <<>> THEN done.section ELSE ahead,
             id |-> IF done.section = <<>> /\ key = W(<<"ID">>) THEN <<AsFormID(v)>> ELSE done.id,
             fields |-> [f \in DOMAIN done.fields |->
                 LET s == {t \in said : f \in t.to} IN IF s = {} THEN done.fields[f] ELSE
                     Converted((CHOOSE t \in s : TRUE).kind, v, done.fields[f])]]
ImageDefaults == [f \in UNION {s.to : s \in ImageKeys} |-> IF f = <<"Tint">> THEN <<0, 0, 0, 0>> ELSE 0]
ParseImageSpaceIni(text) == FoldLeft(ImageLine, [section |-> <<>>, id |-> <<>>, fields |-> ImageDefaults], text)

-----------------------------------------------------------------------------
\* An override of the other four: it needs the identifier of a form.
ParseOverride(text) ==
    LET doc == ParseText(text)
    IN [id |-> IF HasSection(doc, <<>>) THEN AsFormID(Get(Section(doc, <<>>), W(<<"ID">>))) ELSE 0, doc |-> doc]

Type(dir) ==
    CASE dir = "ImageSpaces" -> "ImageSpace" [] dir = "Weathers" -> "Weather" [] dir = "LightingTemplates" -> "Template"
      [] dir = "VolumetricLighting" -> "Volumetric" [] dir = "ShaderParticleGeometries" -> "Particle"
\* The texts of a directory, in the order in which it lists them; what has no
\* identifier is of no form.
LoadDir(dir, texts) ==
    [i \in DOMAIN texts |->
        IF dir = "ImageSpaces" THEN LET p == ParseImageSpaceIni(texts[i]) IN [dir |-> dir, id |-> p.id, body |-> p.fields]
        ELSE LET o == ParseOverride(texts[i]) IN [dir |-> dir, id |-> IF o.id = 0 THEN <<>> ELSE <<o.id>>, body |-> o.doc]]
LoadFrom(profile) ==
    LET In(dir) == LoadDir(dir, profile[dir])
    IN In("ImageSpaces") \o In("Weathers") \o In("LightingTemplates") \o In("VolumetricLighting")
       \o In("ShaderParticleGeometries")

KeysOf(dir) == CASE dir = "Weathers" -> WeatherKeys [] dir = "LightingTemplates" -> TemplateKeys
               [] dir = "VolumetricLighting" -> VolumetricKeys [] OTHER -> ParticleKeys
ApplyOverride(all, o) ==
    LET id == o.id[1]
    IN IF o.id = <<>> \/ id \notin DOMAIN Records \/ Records[id].type # Type(o.dir) THEN all
       ELSE [all EXCEPT ![id] =
           CASE o.dir = "ImageSpaces" -> o.body
             [] o.dir = "VolumetricLighting" -> ApplyVolumetric(@, o.body)
             [] OTHER -> Set2(@, o.body, KeysOf(o.dir))]
ApplyLoaded(all, overrides) ==
    LET after[k \in 0 .. Len(overrides)] ==
            IF k = 0 THEN all ELSE ApplyOverride(after[k - 1], overrides[k])
    IN after[Len(overrides)]

\* The script's LoadKreateProfile: what was loaded before is dropped, what
\* it has changed is not undone.
LoadAndApply(name) ==
    \E overrides \in {LoadFrom(Profiles[name])} :
        loaded' = [name |-> name, overrides |-> overrides] /\ forms' = ApplyLoaded(forms, overrides)

-----------------------------------------------------------------------------
\* A text, read line by line: the header a line is under, by its place; the
\* lines of the first stretch under a header of that name; what the first of
\* them for a key says.
HeaderAt(text, k) == Max({0} \cup {j \in 1 .. k : text[j] # <<>> /\ text[j][1][1] = "["})
HeaderName(text, j) == IF j = 0 THEN <<>> ELSE Before(Tail(text[j]), "]")
Stretch(text, name) ==
    LET heads == {j \in {HeaderAt(text, k) : k \in DOMAIN text} : HeaderName(text, j) = name}
    IN {k \in DOMAIN text : heads # {} /\ HeaderAt(text, k) = Min(heads)}
LinesFor(text, name, key) ==
    {k \in Stretch(text, name) : Has(text[k], "=") /\ text[k][1][1] \notin {"note", "#", "["} /\ Before(text[k], "=") = key}
ValueFor(text, name, key) == Before(After(text[Min(LinesFor(text, name, key))], "="), "note")
IsOf(text, id) == LinesFor(text, <<>>, W(<<"ID">>)) # {} /\ ValueFor(text, <<>>, W(<<"ID">>)) = <<Number(id)>>
\* What the texts of a directory make of one field of one form.
AsWritten(dir, texts, id, f, old) ==
    LET Line(value, text) ==
            LET said == {s \in KeysOf(dir) : f \in s.to /\ LinesFor(text, s.in, s.key) # {}}
            IN IF ~IsOf(text, id) \/ said = {} THEN value
               ELSE LET s == CHOOSE s \in said : TRUE IN Converted(s.kind, ValueFor(text, s.in, s.key), value)
    IN FoldLeft(Line, old, texts)

\* Profile upon profile, a field of a record has what the last line for it
\* says, in the order of the texts, and where no line does what it had: no
\* default, no value of another text, form or earlier profile (KreateProfile::
\* LoadProfile; "keys the file omits keep the form's current values",
\* KreateRecords.h).  Image spaces, written whole, are the exception.
RecordsAsWritten ==
    [][loaded' # Unloaded => \A dir \in Directories \ {"ImageSpaces"} :
          \A id \in {i \in DOMAIN forms : Records[i].type = Type(dir)} : \A f \in DOMAIN forms[id] :
              forms'[id][f] = AsWritten(dir, Profiles[loaded'.name][dir], id, f, forms[id][f])]_profileVars
=============================================================================
