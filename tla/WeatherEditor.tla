---------------------------- MODULE WeatherEditor ----------------------------
(***************************************************************************)
(* The weather workshop: it captures the record of the present weather     *)
(* into a snapshot, overlays the snapshot with a preset file, writes it    *)
(* back to the game, and follows the file while the player edits it.       *)
(*                                                                         *)
(* The frame thread runs Update; the script thread runs the natives, at    *)
(* any step of an update, for nothing keeps the two apart; the player      *)
(* edits the files at any moment.  The record has other writers: a         *)
(* write-back rule in every frame, before Update, and the natives that     *)
(* apply a profile or a dump, or write a field back that they have read.   *)
(*                                                                         *)
(* Of an operation that reads or writes a whole snapshot, the model keeps  *)
(* the first step and the last: what the two threads do to each other in   *)
(* between is for the build to say, and raced notes that it may have been. *)
(*                                                                         *)
(* A record is a few fields, all of them bytes, which a snapshot keeps as  *)
(* millionths of 255 and a file as six digits; the fields that are floats  *)
(* are copied as they are.  Where a field is kept is a cell: the fields of *)
(* an image space or of a volumetric light are in a form of their own,     *)
(* which several hours of the day and several weathers may share.          *)
(***************************************************************************)
EXTENDS Integers, Sequences, FiniteSets, Functions, SequencesExt

CONSTANTS Weathers,     \* the weathers, each with its EditorID
          Fields,       \* the fields of a record, in the order they are written
          Cells,        \* where fields are kept
          Group,        \* Group[f]: the part of the record that a field is of
          Lives,        \* Lives[w][f]: its cell, or Nil: the weather has no such part
          Pristine,     \* what the cells hold when the game starts
          Lines,        \* the preset texts of the player: from fields to values
          Ruled,        \* the cells that a write-back rule writes
          RuleValues,   \* what it writes there
          Dumps,        \* Dumps[c]: what a profile or a dump writes there
          Natives,      \* the natives that scripts call
          MaxEdits,     \* bound: how often files are written
          MaxCalls,     \* bound: how often natives are called
          Nil

FieldSet == ToSet(Fields)
Bytes == 0 .. 255

\* A native of several steps: where it is, and what it has in hand, which is
\* the weather whose preset file it has named, or a cell and the byte that it
\* read there.
Stage(name, at, of) == [name |-> name, at |-> at, of |-> of]
Callables == {"capture", "apply", "revert", "load", "save", "verify"}
Stages == {"copy", "read", "write", "clear", "file", "back"}
Hands == Weathers \cup (Cells \X Bytes) \cup {Nil}

ASSUME WeatherEditorAssumption ==
    /\ Nil \notin Weathers \cup Cells
    /\ \A name \in Callables, at \in Stages, of \in Hands : Stage(name, at, of) # Nil
    /\ Fields \in Seq(FieldSet)
    /\ Lives \in [Weathers -> [FieldSet -> Cells \cup {Nil}]]
    /\ Pristine \in [Cells -> Bytes] /\ RuleValues \subseteq Bytes
    /\ Dumps \in [Cells -> SUBSET Bytes]
    /\ \A w \in Weathers : \A lines \in Lines[w] :
          DOMAIN lines \subseteq FieldSet /\ \A f \in DOMAIN lines : lines[f] \in Int

VARIABLES game,         \* what the cells hold
          sky,          \* the present weather, or Nil
          target,       \* m_targetWeather
          original,     \* m_original: its weather, its values, its valid parts
          current,      \* m_current
          active, dirty, compare,
          lastId,       \* m_lastWeatherID
          preset,       \* the preset files: their lines, and when written
          mtime,        \* m_presetMtime, or Nil
          update,       \* where the frame thread is in Update
          named,        \* the weather whose preset file Update has named
          script,       \* the native that the script thread is in, and where
          edits,        \* counts the writes of files, and dates them
          calls,        \* counts the natives
          raced,        \* observation: have the threads been at the snapshot together?
          outside       \* observation: the cells that others wrote since the
                        \* snapshot was read from them or written to them

snapshots == <<target, original, current, active, dirty>>
files == <<preset, edits>>
frame == <<compare, lastId, mtime, update, named>>
vars == <<game, sky, snapshots, files, frame, script, calls, raced, outside>>

\* A byte as a fraction of 255, to six digits, and a fraction as a byte.
Norm(b) == (2000000 * b + 255) \div 510
Byte(x) == (255 * (IF x < 0 THEN 0 ELSE IF x > 1000000 THEN 1000000 ELSE x) + 500000) \div 1000000

\* A part that the weather does not have is marked and keeps its old values.
Held(w) == {f \in FieldSet : Lives[w][f] # Nil}
Parts(fields) == {Group[f] : f \in fields}
ReadFromWeather(s, w) ==
    [id |-> w, valid |-> Parts(Held(w)),
     value |-> [f \in FieldSet |-> IF f \in Held(w) THEN Norm(game[Lives[w][f]]) ELSE s.value[f]]]

\* The fields are written one after the other: the last one that is kept in
\* a cell is what remains there.
WriteToWeather(s, w) ==
    LET into(c) == {i \in DOMAIN Fields : /\ Lives[w][Fields[i]] = c
                                         /\ Group[Fields[i]] \in s.valid}
    IN [c \in Cells |-> IF into(c) = {} THEN game[c] ELSE Byte(s.value[Fields[Max(into(c))]])]
Reached(s, w) == {Lives[w][f] : f \in {g \in Held(w) : Group[g] \in s.valid}}

\* A preset overlays the snapshot and makes valid the parts that it names.
LoadSnapshotFromINI(s, lines) ==
    [s EXCEPT !.value = [f \in FieldSet |-> IF f \in DOMAIN lines THEN lines[f] ELSE s.value[f]],
              !.valid = @ \cup Parts(DOMAIN lines)]
SaveSnapshotToINI(s) == [f \in {g \in FieldSet : Group[g] \in s.valid} |-> s.value[f]]

HasPreset(w) == w # Nil /\ preset[w] # Nil
WriteFile(w, lines) ==
    /\ edits < MaxEdits
    /\ edits' = edits + 1
    /\ preset' = [preset EXCEPT ![w] = [lines |-> lines, written |-> edits + 1]]

Blank == [id |-> Nil, value |-> [f \in FieldSet |-> 0], valid |-> {}]
Init ==
    /\ game = Pristine /\ sky = Nil /\ target = Nil
    /\ original = Blank /\ current = Blank
    /\ active = FALSE /\ dirty = FALSE /\ compare = FALSE /\ lastId = Nil
    /\ preset = [w \in Weathers |-> Nil] /\ mtime = Nil
    /\ update = "idle" /\ named = Nil /\ script = Nil /\ edits = 0 /\ calls = 0
    /\ raced = "never" /\ outside = {}

-----------------------------------------------------------------------------
\* Where the threads are, and whether they are at the snapshot together: each
\* in an operation on it, and one of the two changes it.
Goes(to) == update' = to
Called == script # Nil /\ UNCHANGED calls
Within(name, at) == Called /\ script.name = name /\ script.at = at
Then(name, at, of) == script' = Stage(name, at, of)
Call(name) == script = Nil /\ name \in Natives /\ calls < MaxCalls /\ calls' = calls + 1

UpdateBusy == update \in {"copy", "autoRead", "hotRead", "clear"}
NativeBusy == script # Nil /\ script.name # "verify"
Changing == update \in {"copy", "autoRead", "hotRead"} \/ script.name \in {"capture", "revert", "load"}
Racing == UpdateBusy /\ NativeBusy /\ Changing

\* A capture that begins with nobody in its way makes good what a race did.
BeginsCapture ==
    \/ update # "copy" /\ update' = "copy"
    \/ script = Nil /\ script' = Stage("capture", "copy", Nil)
Observe == raced' = IF Racing' THEN "yes"
                    ELSE IF raced = "yes" /\ BeginsCapture THEN "mended" ELSE raced

-----------------------------------------------------------------------------
\* The steps that both threads run.

\* Wrong: the snapshot is taken, but the target of the last one stays.
RetargetNever == target' = IF target = Nil THEN sky ELSE target

\* CaptureCurrentWeather: the record into the original, ...
Retarget == target' = sky
ReadOriginal ==
    /\ Retarget
    /\ original' = ReadFromWeather(original, sky)
    /\ outside' = {}
    /\ UNCHANGED <<game, current, active, dirty>>
\* ... and the original into the snapshot that is edited.
CopyOriginal ==
    /\ current' = original
    /\ active' = TRUE /\ dirty' = FALSE
    /\ UNCHANGED <<game, target, original, outside>>

\* Wrong: the reload forgets to ask for an apply.
ReloadQuietly(lines) == current' = LoadSnapshotFromINI(current, lines) /\ UNCHANGED dirty

Reload(lines) == current' = LoadSnapshotFromINI(current, lines) /\ dirty' = TRUE
ReadPreset(w) ==
    /\ Reload(preset[w].lines)
    /\ UNCHANGED <<game, target, original, active, outside>>

\* ApplyToGame: the snapshot into the record, and then the flag.
WriteRecord ==
    /\ IF target = Nil THEN UNCHANGED <<game, outside>>
       ELSE game' = WriteToWeather(current, target) /\ outside' = outside \ Reached(current, target)
    /\ UNCHANGED snapshots
ClearDirty ==
    /\ dirty' = IF target = Nil THEN dirty ELSE FALSE
    /\ UNCHANGED <<game, target, original, current, active, outside>>

-----------------------------------------------------------------------------
\* The frame thread.

\* The write-back rules of this frame, and then the start of Update.
BeginUpdate ==
    /\ update = "idle" /\ sky # Nil
    /\ LET ruled == Ruled \cap Range(Lives[sky])
       IN  /\ game' \in IF ruled = {} THEN {game}
                        ELSE {[c \in Cells |-> IF c \in ruled THEN v ELSE game[c]] : v \in RuleValues}
           /\ outside' = outside \cup ruled
    /\ lastId' = sky
    /\ Goes(IF sky # lastId THEN "capture" ELSE "reload")
    /\ UNCHANGED <<calls, sky, snapshots, compare, files, mtime, named, script>>
    /\ Observe

UpdateCapture ==
    /\ update = "capture"
    /\ IF sky = Nil THEN UNCHANGED <<game, snapshots, outside>> /\ Goes("autoLoad")
       ELSE ReadOriginal /\ Goes("copy")
    /\ UNCHANGED <<calls, sky, compare, lastId, files, mtime, named, script>>
    /\ Observe
UpdateCopy ==
    /\ update = "copy" /\ CopyOriginal /\ Goes("autoLoad")
    /\ UNCHANGED <<calls, sky, compare, lastId, files, mtime, named, script>>
    /\ Observe

\* A weather that has a preset gets it; the date is taken after the lines.
AutoLoad ==
    /\ update = "autoLoad"
    /\ IF HasPreset(current.id)
       THEN named' = current.id /\ Goes("autoRead") /\ UNCHANGED mtime
       ELSE mtime' = Nil /\ Goes("reload") /\ UNCHANGED named
    /\ UNCHANGED <<calls, game, sky, snapshots, compare, lastId, files, script, outside>>
    /\ Observe
AutoRead ==
    /\ update = "autoRead" /\ ReadPreset(named) /\ Goes("autoDate")
    /\ UNCHANGED <<calls, sky, compare, lastId, files, mtime, named, script>>
    /\ Observe
AutoDate ==
    /\ update = "autoDate"
    /\ mtime' = preset[named].written /\ named' = Nil
    /\ Goes("reload")
    /\ UNCHANGED <<calls, game, sky, snapshots, compare, lastId, files, script, outside>>
    /\ Observe

\* Every sixtieth frame the file's date is looked at: due tells whether this is one.
Changed == active /\ HasPreset(current.id) /\ preset[current.id].written # mtime
LookAtFile ==
    /\ update = "reload"
    /\ \E due \in BOOLEAN :
          IF due /\ Changed
          THEN mtime' = preset[current.id].written /\ named' = current.id /\ Goes("hotRead")
          ELSE Goes("apply") /\ UNCHANGED <<mtime, named>>
    /\ UNCHANGED <<calls, game, sky, snapshots, compare, lastId, files, script, outside>>
    /\ Observe
HotReload ==
    /\ update = "hotRead" /\ ReadPreset(named) /\ named' = Nil /\ Goes("apply")
    /\ UNCHANGED <<calls, sky, compare, lastId, files, mtime, script>>
    /\ Observe

AutoApply ==
    /\ update = "apply"
    /\ IF active /\ dirty /\ ~compare THEN WriteRecord /\ Goes("clear")
       ELSE Goes("idle") /\ UNCHANGED <<game, snapshots, outside>>
    /\ UNCHANGED <<calls, sky, compare, lastId, files, mtime, named, script>>
    /\ Observe
EndApply ==
    /\ update = "clear" /\ ClearDirty /\ Goes("idle")
    /\ UNCHANGED <<calls, sky, compare, lastId, files, mtime, named, script>>
    /\ Observe

-----------------------------------------------------------------------------
\* The script thread: one native at a time, at any step of an update.

CaptureWeather ==
    \/ Call("capture") /\ sky # Nil /\ ReadOriginal /\ Then("capture", "copy", Nil)
    \/ Within("capture", "copy") /\ CopyOriginal /\ script' = Nil
ApplyWeather ==
    /\ Call("apply") /\ dirty' = TRUE /\ Then("apply", "write", Nil)
    /\ UNCHANGED <<game, target, original, current, active, outside>>
RevertWeather ==
    /\ Call("revert") /\ target # Nil
    /\ current' = original /\ Then("revert", "write", Nil)
    /\ UNCHANGED <<game, target, original, active, dirty, outside>>
\* The present weather's own preset; another name is another file.
LoadWeatherPreset ==
    \/ /\ Call("load") /\ HasPreset(current.id)
       /\ Then("load", "read", current.id)
       /\ UNCHANGED <<game, snapshots, outside>>
    \/ Within("load", "read") /\ ReadPreset(script.of) /\ Then("load", "write", Nil)
\* Three of them end with ApplyToGame.
NativeWrites == Called /\ script.at = "write" /\ WriteRecord /\ Then(script.name, "clear", Nil)
NativeClears == Called /\ script.at = "clear" /\ ClearDirty /\ script' = Nil
OnSnapshots ==
    /\ CaptureWeather \/ ApplyWeather \/ RevertWeather \/ LoadWeatherPreset \/ NativeWrites \/ NativeClears
    /\ UNCHANGED <<sky, files, frame>>
    /\ Observe

SaveWeatherPreset ==
    /\ \/ /\ Call("save") /\ current.id # Nil
          /\ Then("save", "file", current.id) /\ UNCHANGED files
       \/ /\ Within("save", "file") /\ script' = Nil
          /\ WriteFile(script.of, SaveSnapshotToINI(current)) \/ UNCHANGED files
    /\ UNCHANGED <<game, sky, snapshots, frame, outside>>
    /\ Observe
\* Nothing but the flag is set.
SetWeatherCompare ==
    /\ Call("compare")
    /\ compare' = ~compare
    /\ UNCHANGED <<game, sky, snapshots, lastId, files, mtime, update, named, script, outside>>
    /\ Observe
ForceWeather ==
    /\ Call("force")
    /\ sky' \in Weathers
    /\ UNCHANGED <<game, snapshots, files, frame, script, outside>>
    /\ Observe

\* The natives that write the fields of a record one by one, of any weather:
\* what a profile or a dump says, or what was read there a moment ago.
WriteCell(c, b) == game' = [game EXCEPT ![c] = b] /\ outside' = outside \cup {c}
LoadKreateProfile ==
    /\ Call("reflect")
    /\ \E c \in Cells : \E b \in Dumps[c] : WriteCell(c, b)
    /\ UNCHANGED <<sky, snapshots, files, frame, script>>
    /\ Observe
EngineReflectVerifyStrict ==
    /\ \/ /\ Call("verify")
          /\ \E c \in Cells : Then("verify", "back", <<c, game[c]>>)
          /\ UNCHANGED <<game, outside>>
       \/ Within("verify", "back") /\ WriteCell(script.of[1], script.of[2]) /\ script' = Nil
    /\ UNCHANGED <<sky, snapshots, files, frame>>
    /\ Observe

-----------------------------------------------------------------------------
\* The engine changes the weather; the player saves a preset file.
ChangeWeather ==
    /\ sky' \in Weathers \cup {Nil}
    /\ UNCHANGED <<calls, game, snapshots, files, frame, script, outside>>
    /\ Observe
EditPreset ==
    /\ \E w \in Weathers : \E lines \in Lines[w] : WriteFile(w, lines)
    /\ UNCHANGED <<calls, game, sky, snapshots, frame, script, outside>>
    /\ Observe

-----------------------------------------------------------------------------
UpdateStep ==
    \/ BeginUpdate \/ UpdateCapture \/ UpdateCopy \/ AutoLoad \/ AutoRead \/ AutoDate
    \/ LookAtFile \/ HotReload \/ AutoApply \/ EndApply
NativeStep ==
    \/ OnSnapshots \/ SaveWeatherPreset \/ SetWeatherCompare \/ ForceWeather
    \/ LoadKreateProfile \/ EngineReflectVerifyStrict
Next == UpdateStep \/ NativeStep \/ ChangeWeather \/ EditPreset

Spec == Init /\ [][Next]_vars

-----------------------------------------------------------------------------
\* What a cell may hold: what it held at the start, what a rule, a profile or
\* a dump writes there, and what some weather that keeps a field there gets
\* from a preset of its own.
OwnValues(c) ==
    LET own(w) == UNION {{Byte(lines[f]) : f \in {g \in DOMAIN lines : Lives[w][g] = c}} : lines \in Lines[w]}
    IN {Pristine[c]} \cup Dumps[c] \cup (IF c \in Ruled THEN RuleValues ELSE {}) \cup UNION {own(w) : w \in Weathers}

\* Until the two threads have once been at the snapshot together, the
\* workshop leaks no weather into another: however the weather changes, is
\* forced, captured, edited, saved, loaded and reverted, and whoever else
\* writes its record, a cell holds to the byte what it came with, what
\* another writer put there, or what a preset of a weather that uses it says
\* (CaptureCurrentWeather, ApplyToGame, LoadSnapshotFromINI).
NoForeignValues == raced = "never" => \A c \in Cells : game[c] \in OwnValues(c)

\* Whenever neither thread is at the snapshot, one that has nothing left to
\* apply is what the game shows, but for the cells that others wrote since;
\* after a race, from the next capture that has nobody in its way.
GameShowsSnapshot ==
    ~UpdateBusy /\ ~NativeBusy /\ raced # "yes" /\ active /\ ~dirty
        => \A c \in Cells \ outside : WriteToWeather(current, target)[c] = game[c]

=============================================================================
