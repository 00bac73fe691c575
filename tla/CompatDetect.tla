---------------------------- MODULE CompatDetect ----------------------------
(***************************************************************************)
(* Which other plugins are there: those that provide editor identifiers,   *)
(* the originals of our native parts, and our own proxy of the device.     *)
(***************************************************************************)
EXTENDS Sequences, SequencesExt, FiniteSets, Functions

CONSTANT Nobody   \* no plugin

ASSUME NobodyAssumption == Nobody \notin {"NativeEditorIDFix", "po3_Tweaks"}

VARIABLES modules,  \* what the process has loaded
          exports,  \* which of it exports GetFormEditorID
          compat    \* CompatDetect: [has, provider, detected]

EditorIDProviders == <<"NativeEditorIDFix", "po3_Tweaks">>
Originals == <<"KreatE", "ELIF", "EVLaS", "AELAS", "ENBWorldspaceWeatherlists">>

FreshCompat == [has |-> {}, provider |-> Nobody, detected |-> <<>>]

\* The plugins of a kind that have not been seen before, in the order of the
\* probes; each is recorded the first time that it is seen.
Arrived(c, plugins) == SelectSeq(plugins, LAMBDA plugin : plugin \in modules \ c.has)
Probed(c, plugins) ==
    [c EXCEPT !.has = @ \cup (modules \cap Range(plugins)), !.detected = @ \o Arrived(c, plugins)]
\* The first provider with the export is asked for names; the Fix, when it is
\* seen, takes the place of the other.
DetectEditorIDPlugins(c) ==
    LET answering == (modules \cap exports) \ c.has
    IN [Probed(c, EditorIDProviders) EXCEPT
           !.provider = IF "NativeEditorIDFix" \in answering THEN "NativeEditorIDFix"
                        ELSE IF "po3_Tweaks" \in answering /\ @ = Nobody THEN "po3_Tweaks" ELSE @]
DetectKitsuunePlugins(c) == Probed(c, Originals)
\* The host of the late plugins and the proxy of the device overlap with nothing.
DetectHosts(c) == [c EXCEPT !.has = @ \cup (modules \cap {"KiLoader", "SBProxy"})]
Detected(c) == DetectHosts(DetectKitsuunePlugins(DetectEditorIDPlugins(c)))

HasExternalEditorIDProvider(c) == c.has \cap {"NativeEditorIDFix", "po3_Tweaks"} # {}
HasExternalCelestialProvider(c) == c.has \cap {"AELAS", "EVLaS"} # {}
=============================================================================
