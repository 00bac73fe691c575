----------------------------- MODULE NativeSuite -----------------------------
(***************************************************************************)
(* The native parts that stand in for other plugins, in a build that has   *)
(* them, from the loading of plugins to the end of the game and into the   *)
(* next session.  Where the original of a part is there, the part stands   *)
(* down.                                                                   *)
(***************************************************************************)
EXTENDS EditorIDCache, WorldspaceWeatherlist, KreateProfile

CONSTANTS Inis,         \* texts that SkyrimBridge.ini may have
          LatePlugins,  \* plugins that a host may load at any time
          OutsideNames, \* what another provider answers, functions of forms
          Folders,      \* what ENB's directory may be before the first session
          Sessions      \* bound: sessions of the game

\* "SKSE plugins are all loaded by kPostLoad" (CompatDetect.cpp:36); a directory
\* has its files, and a list of another program is a text.
ASSUME NativeAssumption ==
    /\ LatePlugins \cap {"ELIF", "NativeEditorIDFix", "po3_Tweaks"} = {}
    /\ \A f \in Folders :
         /\ DOMAIN f = {"routing", "legacy", "lists", "installed", "locked", "imported"}
         /\ ~f.imported /\ (f.legacy = Absent \/ IsText(f.legacy))

VARIABLES stage,    \* "loading", "posted", "running"
          session,  \* how many there have been
          native,   \* s_native and what else Initialize leaves: which parts are on
          present,  \* the plugins that were there when the data had loaded
          isAE      \* the runtime is the one the light fix was made for

suiteVars == <<stage, session, native, present, isAE>>
componentVars == <<modules, exports, compat, idVars, listVars, profileVars>>

Defaults == [WeatherRouting |-> TRUE, Sky |-> TRUE, EnbLightInventoryFix |-> FALSE]
Off == [lightFix |-> FALSE, sky |-> FALSE, kreate |-> FALSE]

FreshNative == [wants |-> Defaults, on |-> Off]
NativeInit ==
    /\ stage = "loading" /\ native = FreshNative /\ present = {} /\ modules = {} /\ exports = {}
    /\ compat = FreshCompat /\ EditorIDInit /\ ProfileInit /\ router = NoRouter /\ visit = NoVisit
    /\ enbseries \in Folders /\ session = 1 /\ isAE \in BOOLEAN

-----------------------------------------------------------------------------
\* Plugins load before the message that all have; what a host loads may come
\* at any time.
LoadModule(m, exporting) ==
    /\ m \notin modules /\ (stage = "loading" \/ m \in LatePlugins)
    /\ modules' = modules \cup {m}
    /\ exports' = IF exporting /\ m \in Range(EditorIDProviders) THEN exports \cup {m} ELSE exports
    /\ UNCHANGED <<compat, idVars, listVars, profileVars, suiteVars>>

\* LoadNativeConfig.
Wants(ini) ==
    LET doc == ParseText(ini)
        Asked(part) == IF HasSection(doc, W(<<"Native">>))
                       THEN AsBool(Get(Section(doc, W(<<"Native">>)), W(<<part>>)), Defaults[part]) ELSE Defaults[part]
    IN [part \in DOMAIN Defaults |-> Asked(part)]
\* EnbLightInventoryFix::Install.
InstallLightFix(c, wants) == wants.EnbLightInventoryFix /\ "ELIF" \notin c.has /\ isAE

PostLoad ==
    \E ini \in Inis, c \in {Detected(compat)} :
        /\ stage = "loading" /\ stage' = "posted" /\ compat' = c
        /\ native' = [wants |-> Wants(ini), on |-> [Off EXCEPT !.lightFix = InstallLightFix(c, Wants(ini))]]
        /\ InstallEditorIDs(Detected(c))
        /\ UNCHANGED <<modules, exports, listVars, profileVars, session, present, isAE>>

\* Wrong: the plugins are looked for once.
ProbedOnce == compat
Reprobed == Detected(compat)

\* SkyLighting::Initialize, with a Sky.ini.
InitializeSky(c) == native.wants.Sky /\ ~HasExternalCelestialProvider(c)
InitializeList(c) ==
    IF ~native.wants.WeatherRouting \/ "ENBWorldspaceWeatherlists" \in c.has THEN UNCHANGED listVars
    ELSE InitializeRouter
DataLoaded ==
    /\ stage = "posted" /\ stage' = "running" /\ present' = modules
    /\ compat' = Reprobed
    /\ native' = [native EXCEPT !.on.kreate = "KreatE" \notin compat'.has, !.on.sky = InitializeSky(compat')]
    /\ InitializeList(compat')
    /\ UNCHANGED <<modules, exports, idVars, profileVars, session, isAE>>

SetName(form, name) ==
    /\ stage \in {"posted", "running"} /\ SetFormEditorID(form, name)
    /\ UNCHANGED <<modules, exports, compat, listVars, profileVars, suiteVars>>
AskName(r, form, outside) ==
    /\ stage = "running" /\ LookupName(r, form, outside)
    /\ UNCHANGED <<modules, exports, compat, listVars, profileVars, suiteVars>>
TakeName(r) ==
    /\ CopyName(r) /\ UNCHANGED <<modules, exports, compat, listVars, profileVars, suiteVars>>

\* A frame, with the player in a worldspace.
NativeFrame(ws) ==
    /\ stage = "running" /\ UpdateRouter(ws)
    /\ UNCHANGED <<modules, exports, compat, idVars, profileVars, suiteVars>>

\* What others do to the lists, whatever the game is doing.
OthersTouchLists ==
    /\ \E files \in {f.lists : f \in Folders}, locked \in BOOLEAN : ListsChange(files, locked)
    /\ UNCHANGED <<modules, exports, compat, idVars, profileVars, suiteVars>>

\* A script loads a profile; without a root there is none to be found.
LoadProfile(name) ==
    /\ stage = "running" /\ native.on.kreate /\ LoadAndApply(name)
    /\ UNCHANGED <<modules, exports, compat, idVars, listVars, suiteVars>>

\* The game ends, whatever it was doing; only the directory stays.
Restart ==
    /\ stage # "loading" /\ stage' = "loading" /\ session < Sessions /\ session' = session + 1
    /\ native' = FreshNative /\ present' = {} /\ modules' = {} /\ exports' = {}
    /\ compat' = FreshCompat /\ FreshIDs /\ forms' = FreshForms /\ loaded' = Unloaded /\ router' = NoRouter /\ visit' = NoVisit
    /\ UNCHANGED <<enbseries, isAE>>

NativeNext ==
    \/ \E m \in Range(EditorIDProviders) \cup Range(Originals) \cup {"KiLoader", "SBProxy"}, e \in BOOLEAN : LoadModule(m, e)
    \/ PostLoad \/ DataLoaded \/ Restart \/ OthersTouchLists
    \/ \E f \in DOMAIN Forms, n \in Names : SetName(f, n)
    \/ \E r \in Readers, f \in DOMAIN Forms, o \in OutsideNames : AskName(r, f, o)
    \/ \E r \in Readers : TakeName(r)
    \/ \E ws \in Worldspaces : NativeFrame(ws)
    \/ \E p \in DOMAIN Profiles : LoadProfile(p)

NativeSpec == NativeInit /\ [][NativeNext]_<<suiteVars, componentVars>>

-----------------------------------------------------------------------------
Exactly(one, other) == one # other
\* Of what a native part and its original both do, exactly one of them does
\* it: whoever loaded while the game was starting, in whatever order, the
\* original wins, and without it the part does not stand down either
\* (CompatDetect::Detect at both messages, the guards of each Initialize).
OneOwner ==
    stage = "running" =>
        /\ Exactly(native.on.kreate, "KreatE" \in present)
        /\ native.wants.Sky => Exactly(native.on.sky, present \cap {"AELAS", "EVLaS"} # {})
        /\ native.on.lightFix => "ELIF" \notin present
        /\ router.active => "ENBWorldspaceWeatherlists" \notin present
        /\ Exactly("thunk" \in Range(vtable), ids.provider # Nobody)
        /\ Range(EditorIDProviders) \cap present \cap exports # {} => ids.provider \in present
=============================================================================
