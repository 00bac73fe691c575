----------------------------- MODULE PluginProofs -----------------------------
(***************************************************************************)
(* Proofs about three parts of the plugin that share no state.             *)
(*                                                                         *)
(* WeatherEditor, for any weathers, parts, presets, rules and profiles,     *)
(* with natives between any two steps of an update.                        *)
(*                                                                         *)
(* NativeSuite, for any plugins, form types, directories and worldspaces;  *)
(* what its texts say is at the end.                                       *)
(*                                                                         *)
(* ParmLink, for any files, built-ins, data and language of expressions.   *)
(***************************************************************************)
EXTENDS WeatherEditor, NativeSuite, ParmLink, WellFoundedInduction, TLAPS

(***************************************************************************)
(* A byte survives the way into a snapshot and back.  (The numbers are too *)
(* large for a prover that writes them in unary.)                          *)
(***************************************************************************)
LEMMA RoundTrip == ASSUME NEW b \in Bytes PROVE Norm(b) \in Int /\ Byte(Norm(b)) = b
BY SMTT(60) DEF Norm, Byte, Bytes
LEMMA ByteInRange == ASSUME NEW x \in Int PROVE Byte(x) \in Bytes
BY SMT DEF Byte, Bytes

LEMMA LeastNatural ==
  ASSUME NEW T \in SUBSET Nat, T # {}
  PROVE  \E x \in T : \A y \in T : x <= y
<1> DEFINE R == OpToRel(<, Nat)
<1>1. IsWellFoundedOn(R, Nat)
  BY NatLessThanWellFounded, Zenon
<1>2. PICK x \in T : \A y \in T : ~(<<y, x>> \in R)
  <2> HIDE DEF R
  <2> QED BY <1>1, WFMin
<1>3. \A y \in T : ~(y < x)
  BY <1>2, Zenon DEF OpToRel
<1> QED
  BY <1>3

LEMMA MaxInRange ==
  ASSUME NEW n \in Nat, NEW S \in SUBSET (1 .. n), S # {}
  PROVE  Max(S) \in S
<1> DEFINE T == {n - y : y \in S}
<1>1. \A y \in S : n - y \in Nat
  OBVIOUS
<1>2. T \in SUBSET Nat /\ T # {}
  BY <1>1
<1>3. PICK x \in T : \A y \in T : x <= y
  <2> HIDE DEF T
  <2> QED BY <1>2, LeastNatural
<1>4. PICK m \in S : x = n - m
  BY <1>3
<1>5. \A y \in S : x <= n - y
  BY <1>3
<1>6. \A y \in S : m >= y
  BY <1>4, <1>5
<1> QED
  BY <1>4, <1>6 DEF Max

(***************************************************************************)
(* What WriteToWeather puts into a cell is a field that the weather keeps  *)
(* there, or it leaves the cell alone.                                     *)
(***************************************************************************)
Into(s, w, c) == {i \in DOMAIN Fields : Lives[w][Fields[i]] = c /\ Group[Fields[i]] \in s.valid}
Top(s, w, c) == Byte(s.value[Fields[Max(Into(s, w, c))]])

LEMMA WriteIsTop ==
  ASSUME NEW s, NEW w
  PROVE  WriteToWeather(s, w) = [c \in Cells |-> IF Into(s, w, c) = {} THEN game[c] ELSE Top(s, w, c)]
BY DEF WriteToWeather, Into, Top

LEMMA TopIsField ==
  ASSUME NEW s, NEW w, NEW c \in Cells, Into(s, w, c) # {}
  PROVE  \E f \in FieldSet : Lives[w][f] = c /\ Top(s, w, c) = Byte(s.value[f])
<1> DEFINE into == Into(s, w, c)
<1>1. Len(Fields) \in Nat /\ DOMAIN Fields = 1 .. Len(Fields) /\ \A i \in DOMAIN Fields : Fields[i] \in FieldSet
  BY WeatherEditorAssumption
<1>2. into \in SUBSET (1 .. Len(Fields))
  BY <1>1 DEF Into
<1>3. Max(into) \in into
  <2> HIDE DEF into
  <2>1. into # {}
    BY DEF into
  <2> QED BY <1>1, <1>2, <2>1, MaxInRange
<1>4. Fields[Max(into)] \in FieldSet /\ Lives[w][Fields[Max(into)]] = c
  BY <1>1, <1>3 DEF Into
<1> QED
  BY <1>4 DEF Top

(***************************************************************************)
(* The inductive invariant has three parts.  Types holds always.  Sound    *)
(* holds until the threads race, and again from a capture that nobody is   *)
(* in the way of: but for the middle of a capture, both snapshots are of   *)
(* the target, and what has nothing left to apply is in the game.  Own     *)
(* holds until the first race: a snapshot, a preset file and what a native *)
(* has in hand are, for the fields of their own weather, what the cells of *)
(* these fields may hold.                                                  *)
(***************************************************************************)
Snapshot(s) ==
    /\ s = [id |-> s.id, valid |-> s.valid, value |-> s.value]
    /\ s.id \in Weathers \cup {Nil} /\ s.value \in [FieldSet -> Int]
File(w) ==
    /\ DOMAIN preset[w].lines \subseteq FieldSet
    /\ \A f \in DOMAIN preset[w].lines : preset[w].lines[f] \in Int
InHand ==
    /\ script = Stage(script.name, script.at, script.of)
    /\ \/ script.name = "verify" /\ script.at = "back" /\ script.of \in Cells \X Bytes
       \/ script.name = "save" /\ script.at = "file" /\ script.of \in Weathers
       \/ script.name = "load" /\ script.at = "read" /\ script.of \in Weathers /\ File(script.of)
       \/ script.name = "capture" /\ script.at = "copy"
       \/ script.name \in {"apply", "revert", "load"} /\ script.at \in {"write", "clear"}
Types ==
    /\ game \in [Cells -> Bytes] /\ DOMAIN preset = Weathers
    /\ sky \in Weathers \cup {Nil} /\ target \in Weathers \cup {Nil}
    /\ Snapshot(original) /\ Snapshot(current)
    /\ \A w \in Weathers : preset[w] # Nil => File(w)
    /\ update \in {"autoRead", "hotRead"} => named \in Weathers /\ File(named)
    /\ script # Nil => InHand

ScriptAt(places) == script # Nil /\ script.at \in places
Copying == update = "copy" \/ ScriptAt({"copy"})
Clearing == update = "clear" \/ ScriptAt({"clear"})
Reverting == ScriptAt({"write"}) /\ script.name = "revert"
\* What of the snapshot is in the cells that nobody else has written since.
InGame(s, w, g, others) == \A c \in Cells \ others : Into(s, w, c) # {} => g[c] = Top(s, w, c)
Targets ==
    /\ original.id = target
    /\ ~Copying => current.id = target
    /\ active \/ Copying => target # Nil
    /\ update \in {"autoRead", "hotRead"} => named = current.id
    /\ ScriptAt({"read", "file"}) => script.of = current.id
Shows ==
    /\ active /\ ~dirty /\ ~Copying /\ ~Reverting => InGame(current, target, game, outside)
    /\ Clearing /\ target # Nil => InGame(current, target, game, outside)
    /\ Copying => InGame(original, target, game, outside)
Sound == ~Racing /\ Targets /\ Shows

OwnFields(w, value) ==
    w # Nil => \A f \in DOMAIN value \cap FieldSet :
                  \A c \in Cells : Lives[w][f] = c => Byte(value[f]) \in OwnValues(c)
OwnFile(w) == OwnFields(w, preset[w].lines)
OwnFiles ==
    /\ \A w \in Weathers : preset[w] # Nil => OwnFile(w)
    /\ update \in {"autoRead", "hotRead"} => OwnFile(named)
    /\ ScriptAt({"read"}) => OwnFile(script.of)
OwnGame == \A c \in Cells : game[c] \in OwnValues(c)
OwnHand == ScriptAt({"back"}) => script.of[2] \in OwnValues(script.of[1])
Own ==
    /\ OwnGame /\ OwnFiles /\ OwnHand
    /\ OwnFields(original.id, original.value) /\ OwnFields(current.id, current.value)
EditorInv == Types /\ (raced # "yes" => Sound) /\ (raced = "never" => Own)

LEMMA InitEditor == Init => EditorInv
<1> SUFFICES ASSUME Init PROVE EditorInv
  OBVIOUS
<1>1. Snapshot(Blank)
  BY DEF Snapshot, Blank
<1>2. Own
  BY DEF Init, Own, OwnGame, OwnFiles, OwnHand, OwnFields, OwnValues, Blank, ScriptAt
<1>3. Types
  BY <1>1, WeatherEditorAssumption DEF Init, Types
<1>4. Sound
  BY DEF Init, Sound, Racing, UpdateBusy, Targets, Shows, Copying, Clearing, ScriptAt, Blank
<1> QED
  BY <1>2, <1>3, <1>4 DEF EditorInv

\* What the observation asks of a step: all but the beginning of a capture
\* may start from a sound state.
Keeps == Types' /\ (~Racing' /\ (Sound \/ BeginsCapture) => Sound') /\ (Own /\ Sound /\ ~Racing' => Own')
LEMMA Observed == ASSUME EditorInv, Observe, Keeps PROVE EditorInv'
<1>1. raced' = "yes" \/ (raced' # "yes" /\ ~Racing' /\ (raced # "yes" \/ BeginsCapture))
  BY DEF Observe
<1>2. raced' = "never" => raced = "never" /\ ~Racing'
  BY DEF Observe
<1> QED
  BY <1>1, <1>2 DEF EditorInv, Keeps

(***************************************************************************)
(* What the operators of the model keep of it.                             *)
(***************************************************************************)

\* What is read of a record is its own, and writing it back changes nothing.
LEMMA ReadIsOwn ==
  ASSUME Types, NEW w \in Weathers, NEW s, Snapshot(s),
         NEW t, t = ReadFromWeather(s, w)
  PROVE  /\ Snapshot(t) /\ t.id = w /\ InGame(t, w, game, {})
         /\ OwnGame => OwnFields(w, t.value)
<1>1. /\ t = [id |-> t.id, valid |-> t.valid, value |-> t.value]
      /\ t.id = w /\ t.value = [f \in FieldSet |-> IF f \in Held(w) THEN Norm(game[Lives[w][f]]) ELSE s.value[f]]
  BY DEF ReadFromWeather
<1>2. ASSUME NEW f \in FieldSet, NEW c \in Cells, Lives[w][f] = c
      PROVE  t.value[f] = Norm(game[c]) /\ game[c] \in Bytes /\ Byte(t.value[f]) = game[c]
  <2>1. f \in Held(w)
    BY <1>2, WeatherEditorAssumption DEF Held
  <2>2. game[c] \in Bytes
    BY DEF Types
  <2>3. t.value[f] = Norm(game[c])
    BY <1>1, <1>2, <2>1
  <2> QED
    BY <2>2, <2>3, RoundTrip
<1>3. ASSUME NEW f \in FieldSet
      PROVE  t.value[f] \in Int
  <2>1. CASE f \in Held(w)
    <3>1. Lives[w][f] \in Cells
      BY <2>1, WeatherEditorAssumption DEF Held
    <3> QED
      BY <3>1, <1>2, RoundTrip
  <2>2. CASE f \notin Held(w)
    BY <1>1, <2>2 DEF Snapshot
  <2> QED
    BY <2>1, <2>2
<1>4. t.value \in [FieldSet -> Int]
  BY <1>1, <1>3
<1>5. OwnGame => OwnFields(w, t.value)
  BY <1>2 DEF OwnFields, OwnGame
<1>6. InGame(t, w, game, {})
  <2> SUFFICES ASSUME NEW c \in Cells, Into(t, w, c) # {} PROVE game[c] = Top(t, w, c)
    BY DEF InGame
  <2> QED
    BY <1>2, TopIsField
<1> QED
  BY <1>1, <1>4, <1>5, <1>6 DEF Snapshot

\* A preset leaves the snapshot one of its weather, and its values own if
\* the preset is of that weather.
LEMMA LoadIsOwn ==
  ASSUME NEW s, Snapshot(s), NEW w, File(w), NEW t, t = LoadSnapshotFromINI(s, preset[w].lines)
  PROVE  /\ Snapshot(t) /\ t.id = s.id
         /\ OwnFields(s.id, preset[w].lines) /\ OwnFields(s.id, s.value) => OwnFields(s.id, t.value)
<1> DEFINE lines == preset[w].lines
<1>1. /\ t = [id |-> t.id, valid |-> t.valid, value |-> t.value]
      /\ t.id = s.id
      /\ t.value = [f \in FieldSet |-> IF f \in DOMAIN lines THEN lines[f] ELSE s.value[f]]
  <2>1. t = [s EXCEPT !.value = [f \in FieldSet |-> IF f \in DOMAIN lines THEN lines[f] ELSE s.value[f]],
                      !.valid = @ \cup Parts(DOMAIN lines)]
    BY DEF LoadSnapshotFromINI
  <2>2. s = [id |-> s.id, valid |-> s.valid, value |-> s.value]
    BY DEF Snapshot
  <2> HIDE DEF lines
  <2> QED
    BY <2>1, <2>2
<1>2. DOMAIN lines \subseteq FieldSet /\ \A f \in DOMAIN lines : lines[f] \in Int
  BY DEF File
<1>3. s.value \in [FieldSet -> Int] /\ s.id \in Weathers \cup {Nil}
  BY DEF Snapshot
<1> HIDE DEF lines
<1>4. t.value \in [FieldSet -> Int]
  BY <1>1, <1>2, <1>3
<1>5. OwnFields(s.id, lines) /\ OwnFields(s.id, s.value) => OwnFields(s.id, t.value)
  BY <1>1, <1>2, <1>3 DEF OwnFields
<1> QED
  BY <1>1, <1>3, <1>4, <1>5 DEF Snapshot, lines

\* A snapshot is in the game once it is written, and gives a weather of its
\* own only the weather's values.
LEMMA WriteIsOwn ==
  ASSUME Types, NEW s, Snapshot(s), NEW w \in Weathers,
         NEW g, g = WriteToWeather(s, w)
  PROVE  /\ g \in [Cells -> Bytes] /\ \A others : InGame(s, w, g, others)
         /\ OwnGame /\ OwnFields(w, s.value) => \A c \in Cells : g[c] \in OwnValues(c)
<1>1. g = [c \in Cells |-> IF Into(s, w, c) = {} THEN game[c] ELSE Top(s, w, c)]
  BY WriteIsTop
<1>2. ASSUME NEW c \in Cells, Into(s, w, c) # {}
      PROVE  Top(s, w, c) \in Bytes /\ (OwnFields(w, s.value) => Top(s, w, c) \in OwnValues(c))
  <2>1. PICK f \in FieldSet : Lives[w][f] = c /\ Top(s, w, c) = Byte(s.value[f])
    BY <1>2, TopIsField
  <2>2. s.value[f] \in Int /\ f \in DOMAIN s.value \cap FieldSet
    BY <2>1 DEF Snapshot
  <2>3. OwnFields(w, s.value) => Byte(s.value[f]) \in OwnValues(c)
    BY <2>1, <2>2, WeatherEditorAssumption DEF OwnFields
  <2> QED
    BY <2>1, <2>2, <2>3, ByteInRange
<1>3. \A c \in Cells : game[c] \in Bytes /\ (OwnGame => game[c] \in OwnValues(c))
  BY DEF Types, OwnGame
<1> QED
  BY <1>1, <1>2, <1>3 DEF InGame

\* Others may write what they like: the snapshot stays in the cells that they
\* did not write.
LEMMA OthersWrite ==
  ASSUME NEW s, NEW w, NEW g, NEW h, NEW others, NEW more,
         InGame(s, w, g, others), \A c \in Cells \ more : h[c] = g[c]
  PROVE  InGame(s, w, h, others \cup more)
BY DEF InGame

\* A file that is written holds values of its own weather, if they were.
LEMMA FilesAreOwn ==
  ASSUME Types, NEW w \in Weathers, NEW lines, WriteFile(w, lines),
         DOMAIN lines \subseteq FieldSet, \A f \in DOMAIN lines : lines[f] \in Int
  PROVE  /\ DOMAIN preset' = Weathers
         /\ \A v \in Weathers : preset'[v] # Nil => File(v)'
         /\ \A v \in Weathers : File(v) => File(v)'
         /\ OwnFields(w, lines) => /\ OwnFiles => \A v \in Weathers : preset'[v] # Nil => OwnFile(v)'
                                  /\ \A v \in Weathers : OwnFile(v) => OwnFile(v)'
<1>1. preset' = [preset EXCEPT ![w] = [lines |-> lines, written |-> edits + 1]]
  BY DEF WriteFile
<1>2. DOMAIN preset = Weathers /\ \A v \in Weathers : preset[v] # Nil => File(v)
  BY DEF Types
<1>3. preset'[w].lines = lines
  BY <1>1, <1>2
<1>4. File(w)' /\ (OwnFields(w, lines) => OwnFile(w)')
  BY <1>3 DEF File, OwnFile, OwnFields, OwnValues
<1>5. \A v \in Weathers \ {w} : /\ preset'[v] = preset[v]
                               /\ (File(v)' <=> File(v)) /\ (OwnFile(v)' <=> OwnFile(v))
  BY <1>1, <1>2 DEF File, OwnFile, OwnFields, OwnValues
<1> QED
  BY <1>1, <1>2, <1>4, <1>5 DEF OwnFiles

LEMMA EditedIsOwn ==
  ASSUME NEW w \in Weathers, NEW lines \in Lines[w]
  PROVE  DOMAIN lines \subseteq FieldSet /\ (\A f \in DOMAIN lines : lines[f] \in Int) /\ OwnFields(w, lines)
<1>1. ASSUME NEW f \in DOMAIN lines, NEW c \in Cells, Lives[w][f] = c
      PROVE  Byte(lines[f]) \in OwnValues(c)
  BY <1>1 DEF OwnValues
<1> QED
  BY <1>1, WeatherEditorAssumption DEF OwnFields

LEMMA SavedIsOwn ==
  ASSUME NEW s, Snapshot(s), NEW lines, lines = SaveSnapshotToINI(s)
  PROVE  /\ DOMAIN lines \subseteq FieldSet /\ (\A f \in DOMAIN lines : lines[f] \in Int)
         /\ OwnFields(s.id, s.value) => OwnFields(s.id, lines)
BY DEF Snapshot, SaveSnapshotToINI, OwnFields

(***************************************************************************)
(* Every step keeps it.  What is beside the record, the snapshots, the     *)
(* files and the places of the two threads plays no part.                  *)
(***************************************************************************)
placed == <<game, target, original, current, active, dirty, outside, preset, script>>

LEMMA CaptureIsSome == Stage("capture", "copy", Nil) # Nil
BY WeatherEditorAssumption DEF Callables, Stages, Hands

\* Update moves between two places where it is not at the snapshot.
Away == {"idle", "capture", "autoLoad", "autoDate", "reload", "apply"}
LEMMA Moves ==
  ASSUME Types, UNCHANGED placed, sky' \in Weathers \cup {Nil},
         UNCHANGED <<update, named>> \/ (update \in Away /\ update' \in Away)
  PROVE  Keeps
<1>1. update' = "copy" => update = "copy"
  BY DEF Away
<1>2. ~BeginsCapture
  BY <1>1, WeatherEditorAssumption DEF BeginsCapture, placed, Callables, Stages, Hands
<1>3. Types'
  BY DEF Types, placed, File, InHand, Away
<1>4. Sound => Sound'
  BY DEF Sound, Racing, UpdateBusy, NativeBusy, Changing, Targets, Shows, Copying, Clearing, Reverting, ScriptAt, placed, Away
<1>5. Own => Own'
  BY DEF Own, OwnGame, OwnFiles, OwnFile, OwnHand, OwnFields, OwnValues, ScriptAt, placed, Away
<1> QED
  BY <1>2, <1>3, <1>4, <1>5 DEF Keeps

\* Others write the record.
LEMMA Writes ==
  ASSUME Types, UNCHANGED <<target, original, current, active, dirty, preset, sky>>,
         NEW more, outside' = outside \cup more,
         game' \in [Cells -> Bytes], \A c \in Cells \ more : game'[c] = game[c],
         Own => OwnGame',
         \/ UNCHANGED <<update, named, script>>
         \/ update \in Away /\ update' \in Away /\ UNCHANGED script
         \/ script # Nil /\ script.name = "verify" /\ script' = Nil /\ UNCHANGED <<update, named>>
  PROVE  Keeps
<1>1. update' = "copy" => update = "copy"
  BY DEF Away
<1>2. ~BeginsCapture
  BY <1>1, WeatherEditorAssumption DEF BeginsCapture, Callables, Stages, Hands
<1>3. Types'
  BY DEF Types, File, InHand, Away
<1>4. \A s, w : InGame(s, w, game, outside) => InGame(s, w, game', outside')
  BY OthersWrite
<1>5. script' = script \/ (script' = Nil /\ script # Nil /\ script.at = "back")
  BY DEF Types, InHand
<1>6. Sound => Sound'
  <2> SUFFICES ASSUME Sound PROVE Sound'
    OBVIOUS
  <2>1. ~Racing'
    BY DEF Sound, Racing, UpdateBusy, NativeBusy, Changing, Away
  <2>2. Targets'
    BY <1>5 DEF Sound, Targets, Copying, ScriptAt, Away
  <2>3. Shows'
    BY <1>4, <1>5 DEF Sound, Shows, Copying, Clearing, Reverting, ScriptAt, Away
  <2> QED
    BY <2>1, <2>2, <2>3 DEF Sound
<1>7. Own => Own'
  BY <1>5 DEF Own, OwnFiles, OwnFile, OwnHand, OwnFields, OwnValues, ScriptAt, Away
<1> QED
  BY <1>2, <1>3, <1>6, <1>7 DEF Keeps

\* A capture begins: with nobody in its way, what is captured is the game's.
LEMMA Captures ==
  ASSUME Types, sky # Nil, ReadOriginal, UNCHANGED <<preset, sky, named>>,
         \/ update = "capture" /\ update' = "copy" /\ UNCHANGED script
         \/ script = Nil /\ script' = Stage("capture", "copy", Nil) /\ UNCHANGED update
  PROVE  Keeps
<1>1. /\ sky \in Weathers /\ target' = sky /\ original' = ReadFromWeather(original, sky)
      /\ outside' = {} /\ UNCHANGED <<game, current, active, dirty>>
  BY DEF ReadOriginal, Retarget, Types
<1>2. /\ Snapshot(original') /\ original'.id = sky /\ InGame(original', sky, game, {})
      /\ OwnGame => OwnFields(sky, original'.value)
  BY <1>1, ReadIsOwn DEF Types
<1>3. \/ script' = script /\ update' = "copy"
      \/ /\ script = Nil /\ script' # Nil /\ script' = Stage("capture", "copy", Nil)
         /\ script'.name = "capture" /\ script'.at = "copy" /\ UNCHANGED update
  BY WeatherEditorAssumption DEF Callables, Stages, Hands, Stage
<1>4. Types'
  <2>1. script' # Nil => InHand'
    BY <1>3 DEF Types, InHand, File, Stage
  <2> QED
    BY <1>1, <1>2, <2>1 DEF Types, File
<1>5. ~Racing' => Sound'
  <2> SUFFICES ASSUME ~Racing' PROVE Sound'
    OBVIOUS
  <2>5. script = Nil \/ script.name = "verify" \/ script' # script
    BY DEF Racing, UpdateBusy, NativeBusy, Changing
  <2>6. script = Nil \/ (script.name = "verify" => script.at = "back")
    BY DEF Types, InHand
  <2>7. script' # Nil => script'.at \in {"back", "copy"}
    BY <1>3, <2>5, <2>6
  <2>8. ~(update' \in {"clear", "autoRead", "hotRead"})
    BY <1>3 DEF Racing, UpdateBusy, NativeBusy, Changing
  <2>1. Copying' /\ ~Clearing' /\ ~Reverting'
    BY <1>3, <2>7, <2>8 DEF Copying, Clearing, Reverting, ScriptAt
  <2>2. ~ScriptAt({"read", "file"})' /\ ~(update' \in {"autoRead", "hotRead"})
    BY <2>7, <2>8 DEF ScriptAt
  <2>3. Targets'
    BY <1>1, <1>2, <2>1, <2>2, WeatherEditorAssumption DEF Targets
  <2>4. Shows'
    BY <1>1, <1>2, <2>1 DEF Shows
  <2> QED
    BY <2>3, <2>4 DEF Sound
<1>6. Own => Own'
  <2> SUFFICES ASSUME Own PROVE Own'
    OBVIOUS
  <2>1. OwnFields(original.id, original.value)'
    BY <1>1, <1>2 DEF Own, OwnFields, OwnValues
  <2> QED
    BY <1>1, <1>3, <2>1 DEF Own, OwnGame, OwnFiles, OwnFile, OwnHand, OwnFields, OwnValues, ScriptAt
<1> QED
  BY <1>4, <1>5, <1>6 DEF Keeps

\* ... and ends.
LEMMA Copies ==
  ASSUME Types, CopyOriginal, UNCHANGED <<preset, sky, named>>,
         \/ update = "copy" /\ update' = "autoLoad" /\ UNCHANGED script
         \/ script # Nil /\ script.at = "copy" /\ script' = Nil /\ UNCHANGED update
  PROVE  Keeps
<1>1. /\ current' = original /\ active' = TRUE /\ dirty' = FALSE
      /\ UNCHANGED <<game, target, original, outside>>
  BY DEF CopyOriginal
<1>2. ~BeginsCapture
  BY WeatherEditorAssumption DEF BeginsCapture, Callables, Stages, Hands
<1>3. Types'
  BY <1>1 DEF Types, File, InHand
<1>4. Sound => Sound'
  <2> SUFFICES ASSUME Sound PROVE Sound'
    OBVIOUS
  <2>1. script # Nil /\ script.at \in {"copy", "read", "file", "write", "clear"} => NativeBusy
    BY DEF NativeBusy, Types, InHand
  <2>2. script # Nil /\ script.at = "copy" => script.name = "capture"
    BY DEF Types, InHand
  <2>3. Copying /\ ~Copying' /\ ~Clearing' /\ ~Reverting' /\ ~ScriptAt({"read", "file"})'
    BY <2>1, <2>2 DEF Sound, Racing, UpdateBusy, Changing, Copying, Clearing, Reverting, ScriptAt
  <2>4. ~Racing' /\ ~(update' \in {"autoRead", "hotRead"})
    BY <2>1, <2>2 DEF Sound, Racing, UpdateBusy, NativeBusy, Changing
  <2>5. Targets'
    BY <1>1, <2>3, <2>4 DEF Sound, Targets
  <2>6. Shows'
    BY <1>1, <2>3 DEF Sound, Shows
  <2> QED
    BY <2>4, <2>5, <2>6 DEF Sound
<1>5. Own => Own'
  BY <1>1 DEF Own, OwnGame, OwnFiles, OwnFile, OwnHand, OwnFields, OwnValues, ScriptAt
<1> QED
  BY <1>2, <1>3, <1>4, <1>5 DEF Keeps

\* A preset file is named: it is that of the snapshot.
LEMMA NamesFile ==
  ASSUME Types, UNCHANGED <<game, sky, target, original, current, active, dirty, outside, preset>>,
         current.id # Nil,
         \/ /\ update \in Away /\ update' \in {"autoRead", "hotRead"} /\ named' = current.id
            /\ HasPreset(current.id) /\ UNCHANGED script
         \/ /\ script = Nil /\ script' = Stage("load", "read", current.id)
            /\ HasPreset(current.id) /\ UNCHANGED <<update, named>>
         \/ /\ script = Nil /\ script' = Stage("save", "file", current.id) /\ UNCHANGED <<update, named>>
  PROVE  Keeps
<1>1. current.id \in Weathers /\ (HasPreset(current.id) => File(current.id))
  BY DEF Types, Snapshot, HasPreset
<1>2. \/ /\ update \in Away /\ update' \in {"autoRead", "hotRead"} /\ named' = current.id
         /\ HasPreset(current.id) /\ script' = script
      \/ /\ script = Nil /\ script' # Nil /\ script' = Stage(script'.name, script'.at, current.id)
         /\ script'.of = current.id /\ update' = update /\ named' = named
         /\ \/ script'.name = "load" /\ script'.at = "read" /\ HasPreset(current.id)
            \/ script'.name = "save" /\ script'.at = "file"
  BY <1>1, WeatherEditorAssumption DEF Callables, Stages, Hands, Stage
<1>3. ~BeginsCapture
  <2>1. ~(update # "copy" /\ update' = "copy")
    BY <1>2
  <2>2. ~(script = Nil /\ script' = Stage("capture", "copy", Nil))
    <3>1. Stage("capture", "copy", Nil).at = "copy" /\ Stage("capture", "copy", Nil) # Nil
      BY WeatherEditorAssumption DEF Callables, Stages, Hands, Stage
    <3> QED
      BY <1>2, <3>1
  <2> QED
    BY <2>1, <2>2 DEF BeginsCapture
<1>4. Types'
  <2>1. script' # Nil => InHand'
    BY <1>1, <1>2 DEF Types, InHand, File
  <2>2. update' \in {"autoRead", "hotRead"} => (named \in Weathers /\ File(named))'
    BY <1>1, <1>2 DEF Types, File
  <2> QED
    BY <2>1, <2>2 DEF Types, File
<1>5. Sound /\ ~Racing' => Sound'
  <2> SUFFICES ASSUME Sound, ~Racing' PROVE Sound'
    OBVIOUS
  <2>1. (Copying' <=> Copying) /\ (Clearing' <=> Clearing) /\ (Reverting' <=> Reverting)
    BY <1>2 DEF Copying, Clearing, Reverting, ScriptAt, Away
  <2>2. update' \in {"autoRead", "hotRead"} => named' = current.id
    BY <1>2 DEF Sound, Targets
  <2>3. ScriptAt({"read", "file"})' => script'.of = current.id
    BY <1>2 DEF Sound, Targets, ScriptAt
  <2>4. Targets'
    BY <2>1, <2>2, <2>3 DEF Sound, Targets
  <2>5. Shows'
    BY <2>1 DEF Sound, Shows
  <2> QED
    BY <2>4, <2>5 DEF Sound
<1>6. Own => Own'
  <2> SUFFICES ASSUME Own PROVE Own'
    OBVIOUS
  <2>1. HasPreset(current.id) => OwnFile(current.id)
    BY <1>1 DEF Own, OwnFiles, HasPreset
  <2>2. OwnFiles'
    BY <1>2, <2>1 DEF Own, OwnFiles, OwnFile, OwnFields, OwnValues, ScriptAt
  <2>3. OwnHand'
    BY <1>2 DEF Own, OwnHand, OwnValues, ScriptAt
  <2> QED
    BY <2>2, <2>3 DEF Own, OwnGame, OwnFields, OwnValues
<1> QED
  BY <1>3, <1>4, <1>5, <1>6 DEF Keeps

\* It is read into the snapshot.
LEMMA ReadsFile ==
  ASSUME Types, UNCHANGED <<sky, preset>>, NEW w, ReadPreset(w),
         \/ /\ update \in {"autoRead", "hotRead"} /\ w = named
            /\ update' \in Away /\ UNCHANGED script
         \/ /\ script # Nil /\ script.name = "load" /\ script.at = "read" /\ w = script.of
            /\ script' = Stage("load", "write", Nil) /\ UNCHANGED <<update, named>>
  PROVE  Keeps
<1>1. /\ current' = LoadSnapshotFromINI(current, preset[w].lines) /\ dirty' = TRUE
      /\ UNCHANGED <<game, target, original, active, outside>>
  BY DEF ReadPreset, Reload
<1>2. \/ /\ update \in {"autoRead", "hotRead"} /\ w = named /\ update' \in Away /\ script' = script
      \/ /\ script # Nil /\ script.name = "load" /\ script.at = "read" /\ w = script.of
         /\ script' # Nil /\ script' = Stage(script'.name, script'.at, script'.of)
         /\ script'.name = "load" /\ script'.at = "write" /\ update' = update /\ named' = named
  BY WeatherEditorAssumption DEF Callables, Stages, Hands, Stage
<1>3. w \in Weathers /\ File(w)
  BY <1>2 DEF Types, InHand
<1>4. /\ Snapshot(current') /\ current'.id = current.id
      /\ OwnFields(current.id, preset[w].lines) /\ OwnFields(current.id, current.value)
            => OwnFields(current.id, current'.value)
  BY <1>1, <1>3, LoadIsOwn DEF Types
<1>5. ~BeginsCapture
  BY <1>2, CaptureIsSome DEF BeginsCapture, Away
<1>6. Types'
  <2>1. script' # Nil => InHand'
    BY <1>2 DEF Types, InHand, File
  <2>2. update' \in {"autoRead", "hotRead"} => (named \in Weathers /\ File(named))'
    BY <1>2 DEF Types, File, Away
  <2> QED
    BY <1>1, <1>4, <2>1, <2>2 DEF Types, File
<1>7. Sound => w = current.id
  BY <1>2 DEF Sound, Targets, ScriptAt
<1>8. Sound => ~Racing'
  BY <1>2 DEF Sound, Racing, UpdateBusy, NativeBusy, Changing, Away
<1>9. Sound => Sound'
  <2> SUFFICES ASSUME Sound PROVE Sound'
    OBVIOUS
  <2>1. NativeBusy => script.name # "verify"
    BY DEF NativeBusy
  <2>2. ScriptAt({"copy", "read", "file", "write", "clear"}) => NativeBusy
    BY DEF NativeBusy, ScriptAt, Types, InHand
  <2>3. ~Copying' /\ ~Clearing' /\ (update' \in {"autoRead", "hotRead"} => named' = named /\ update' = update)
    BY <1>2, <2>2 DEF Sound, Racing, UpdateBusy, Changing, Copying, Clearing, ScriptAt, Away
  <2>4. ~Copying /\ ~ScriptAt({"read", "file"})'
    BY <1>2, <2>2 DEF Sound, Racing, UpdateBusy, Changing, Copying, ScriptAt
  <2>5. Targets'
    BY <1>1, <1>4, <2>3, <2>4 DEF Sound, Targets
  <2>6. Shows'
    BY <1>1, <2>3 DEF Shows
  <2> QED
    BY <1>8, <2>5, <2>6 DEF Sound
<1>10. Own /\ Sound => Own'
  <2> SUFFICES ASSUME Own, Sound PROVE Own'
    OBVIOUS
  <2>1. OwnFile(w)
    BY <1>2 DEF Own, OwnFiles, ScriptAt
  <2>2. OwnFields(current.id, current.value)'
    BY <1>4, <1>7, <2>1 DEF Own, OwnFile, OwnFields, OwnValues
  <2>3. OwnFiles' /\ OwnHand'
    BY <1>2 DEF Own, OwnFiles, OwnHand, OwnFile, OwnFields, OwnValues, ScriptAt, Away
  <2> QED
    BY <1>1, <2>2, <2>3 DEF Own, OwnGame, OwnFields, OwnValues
<1> QED
  BY <1>5, <1>6, <1>9, <1>10 DEF Keeps

\* The snapshot is written to the record ...
LEMMA Applies ==
  ASSUME Types, WriteRecord, UNCHANGED <<sky, preset, named>>,
         \/ update = "apply" /\ update' = "clear" /\ UNCHANGED script
         \/ /\ script # Nil /\ script.at = "write" /\ script' = Stage(script.name, "clear", Nil)
            /\ UNCHANGED update
  PROVE  Keeps
<1>1. UNCHANGED <<target, original, current, active, dirty>>
  BY DEF WriteRecord, snapshots
<1>2. \/ update = "apply" /\ update' = "clear" /\ script' = script
      \/ /\ script # Nil /\ script.at = "write" /\ script.name \in {"apply", "revert", "load"}
         /\ script' # Nil /\ script' = Stage(script'.name, script'.at, script'.of)
         /\ script'.name = script.name /\ script'.at = "clear" /\ update' = update
  <2>1. script # Nil /\ script.at = "write" => script.name \in {"apply", "revert", "load"}
    BY DEF Types, InHand
  <2>2. \A name \in {"apply", "revert", "load"} : Stage(name, "clear", Nil) # Nil
    BY WeatherEditorAssumption DEF Callables, Stages, Hands
  <2> QED
    BY <2>1, <2>2 DEF Stage
<1>3. ~BeginsCapture
  BY <1>2, CaptureIsSome DEF BeginsCapture
<1>4. /\ game' \in [Cells -> Bytes]
      /\ target # Nil => \A others : InGame(current, target, game', others)
      /\ OwnGame /\ OwnFields(target, current.value) => OwnGame'
  <2>1. CASE target = Nil
    BY <2>1 DEF WriteRecord, Types, OwnGame, OwnValues
  <2>2. CASE target # Nil
    <3>1. target \in Weathers /\ game' = WriteToWeather(current, target)
      BY <2>2 DEF WriteRecord, Types
    <3>2. /\ game' \in [Cells -> Bytes] /\ \A others : InGame(current, target, game', others)
          /\ OwnGame /\ OwnFields(target, current.value) => \A c \in Cells : game'[c] \in OwnValues(c)
      BY <3>1, WriteIsOwn DEF Types
    <3> QED
      BY <3>2 DEF OwnGame, OwnValues
  <2> QED
    BY <2>1, <2>2
<1>5. Types'
  <2>1. script' # Nil => InHand'
    BY <1>2 DEF Types, InHand, File
  <2> QED
    BY <1>1, <1>2, <1>4, <2>1 DEF Types, File
<1>6. ~Racing' => ~Copying /\ ~Copying'
  <2>1. script # Nil /\ script.at = "copy" => script.name = "capture"
    BY DEF Types, InHand
  <2> QED
    BY <1>2, <2>1 DEF Racing, UpdateBusy, NativeBusy, Changing, Copying, ScriptAt
<1>7. Sound /\ ~Racing' => Sound'
  <2> SUFFICES ASSUME Sound, ~Racing' PROVE Sound'
    OBVIOUS
  <2>1. Targets'
    BY <1>1, <1>2, <1>6 DEF Sound, Targets, ScriptAt
  <2>2. active => target # Nil
    BY DEF Sound, Targets
  <2>3. Shows'
    BY <1>1, <1>4, <1>6, <2>2 DEF Shows
  <2> QED
    BY <2>1, <2>3 DEF Sound
<1>8. Own /\ Sound /\ ~Racing' => Own'
  <2> SUFFICES ASSUME Own, Sound, ~Racing' PROVE Own'
    OBVIOUS
  <2>1. OwnGame'
    BY <1>4, <1>6 DEF Own, Sound, Targets
  <2>2. OwnFiles' /\ OwnHand'
    BY <1>2 DEF Own, OwnFiles, OwnHand, OwnFile, OwnFields, OwnValues, ScriptAt
  <2> QED
    BY <1>1, <2>1, <2>2 DEF Own, OwnFields, OwnValues
<1> QED
  BY <1>3, <1>5, <1>7, <1>8 DEF Keeps

\* ... and the flag is cleared.
LEMMA Clears ==
  ASSUME Types, ClearDirty, UNCHANGED <<sky, preset, named>>,
         \/ update = "clear" /\ update' = "idle" /\ UNCHANGED script
         \/ script # Nil /\ script.at = "clear" /\ script' = Nil /\ UNCHANGED update
  PROVE  Keeps
<1>1. /\ UNCHANGED <<game, target, original, current, active, outside>>
      /\ target # Nil => dirty' = FALSE
      /\ target = Nil => dirty' = dirty
  BY DEF ClearDirty
<1>2. ~BeginsCapture
  BY CaptureIsSome DEF BeginsCapture
<1>3. Types'
  BY <1>1 DEF Types, File, InHand
<1>4. Sound => Sound'
  <2> SUFFICES ASSUME Sound PROVE Sound'
    OBVIOUS
  <2>1. Clearing /\ (Copying' <=> Copying) /\ (Reverting' <=> Reverting) /\ (Clearing' => Clearing)
    BY DEF Clearing, Copying, Reverting, ScriptAt
  <2>2. Targets'
    BY <1>1, <2>1 DEF Sound, Targets, ScriptAt
  <2>3. Shows'
    BY <1>1, <2>1 DEF Sound, Targets, Shows
  <2>4. ~Racing'
    BY DEF Sound, Racing, UpdateBusy, NativeBusy, Changing
  <2> QED
    BY <2>2, <2>3, <2>4 DEF Sound
<1>5. Own => Own'
  BY <1>1 DEF Own, OwnGame, OwnFiles, OwnFile, OwnHand, OwnFields, OwnValues, ScriptAt
<1> QED
  BY <1>2, <1>3, <1>4, <1>5 DEF Keeps

\* An apply is asked for, or the original is taken back.
LEMMA Asks ==
  ASSUME Types, UNCHANGED <<game, sky, target, original, active, outside, preset, update, named>>,
         script = Nil,
         \/ script' = Stage("apply", "write", Nil) /\ dirty' = TRUE /\ UNCHANGED current
         \/ script' = Stage("revert", "write", Nil) /\ current' = original /\ UNCHANGED dirty
  PROVE  Keeps
<1>1. /\ script' # Nil /\ script' = Stage(script'.name, script'.at, script'.of) /\ script'.at = "write"
      /\ \/ script'.name = "apply" /\ dirty' = TRUE /\ current' = current
         \/ script'.name = "revert" /\ current' = original /\ dirty' = dirty
  BY WeatherEditorAssumption DEF Callables, Stages, Hands, Stage
<1>2. ~BeginsCapture
  BY <1>1 DEF BeginsCapture, Stage
<1>3. Types'
  <2>1. InHand'
    BY <1>1 DEF InHand
  <2> QED
    BY <1>1, <2>1 DEF Types, File
<1>4. Sound /\ ~Racing' => Sound'
  <2> SUFFICES ASSUME Sound, ~Racing' PROVE Sound'
    OBVIOUS
  <2>1. (Copying' <=> Copying) /\ (Clearing' <=> Clearing) /\ ~ScriptAt({"read", "file"})'
    BY <1>1 DEF Clearing, Copying, ScriptAt
  <2>2. script'.name = "revert" => ~Copying /\ ~Clearing /\ ~(update \in {"autoRead", "hotRead"})
    BY <1>1 DEF Racing, UpdateBusy, NativeBusy, Changing, Copying, Clearing, ScriptAt
  <2>3. Targets'
    BY <1>1, <2>1, <2>2 DEF Sound, Targets
  <2>4. script'.name = "revert" => Reverting'
    BY <1>1 DEF Reverting, ScriptAt
  <2>5. Shows'
    BY <1>1, <2>1, <2>2, <2>4 DEF Sound, Shows
  <2> QED
    BY <2>3, <2>5 DEF Sound
<1>5. Own => Own'
  BY <1>1 DEF Own, OwnGame, OwnFiles, OwnFile, OwnHand, OwnFields, OwnValues, ScriptAt
<1> QED
  BY <1>2, <1>3, <1>4, <1>5 DEF Keeps

\* A preset file is written, by the player or by the native that saves.
LEMMA WritesFile ==
  ASSUME Types, UNCHANGED <<game, sky, target, original, current, active, dirty, outside, update, named>>,
         NEW w \in Weathers, NEW lines, WriteFile(w, lines),
         DOMAIN lines \subseteq FieldSet, \A f \in DOMAIN lines : lines[f] \in Int,
         Own /\ Sound => OwnFields(w, lines),
         UNCHANGED script \/ (script # Nil /\ script.at = "file" /\ script' = Nil)
  PROVE  Keeps
<1>1. /\ DOMAIN preset' = Weathers
      /\ \A v \in Weathers : preset'[v] # Nil => File(v)'
      /\ \A v \in Weathers : File(v) => File(v)'
      /\ OwnFields(w, lines) => /\ OwnFiles => \A v \in Weathers : preset'[v] # Nil => OwnFile(v)'
                                /\ \A v \in Weathers : OwnFile(v) => OwnFile(v)'
  BY FilesAreOwn
<1>2. ~BeginsCapture
  BY CaptureIsSome DEF BeginsCapture
<1>3. Types'
  <2>1. script' # Nil => InHand'
    BY <1>1 DEF Types, InHand
  <2>2. update \in {"autoRead", "hotRead"} => named \in Weathers /\ File(named)'
    BY <1>1 DEF Types
  <2> QED
    BY <1>1, <2>1, <2>2 DEF Types, Snapshot
<1>4. Sound => Sound'
  BY DEF Sound, Racing, UpdateBusy, NativeBusy, Changing, Targets, Shows, Copying, Clearing, Reverting, ScriptAt
<1>5. Own /\ Sound => Own'
  <2> SUFFICES ASSUME Own, Sound PROVE Own'
    OBVIOUS
  <2>1. ScriptAt({"read"}) => script.of \in Weathers
    BY DEF ScriptAt, Types, InHand
  <2>2. update \in {"autoRead", "hotRead"} => named \in Weathers
    BY DEF Types
  <2>3. OwnFiles'
    BY <1>1, <2>1, <2>2 DEF Own, OwnFiles, ScriptAt
  <2> QED
    BY <2>3 DEF Own, OwnGame, OwnHand, OwnFields, OwnValues, ScriptAt
<1> QED
  BY <1>2, <1>3, <1>4, <1>5 DEF Keeps

LEMMA StepUpdate == ASSUME Types, UpdateStep PROVE Keeps
<1> USE DEF Goes, snapshots, files, frame
<1>1. CASE BeginUpdate
  <2>1. PICK ruled : ruled = Ruled \cap Range(Lives[sky])
    OBVIOUS
  <2>2. /\ sky \in Weathers /\ update \in Away /\ update' \in Away
        /\ UNCHANGED <<target, original, current, active, dirty, preset, sky, script>>
        /\ outside' = outside \cup ruled
    BY <1>1, <2>1 DEF BeginUpdate, Away, Types
  <2>3. ruled \in SUBSET Ruled
    BY <2>1
  <2>4. \/ game' = game
        \/ \E v \in RuleValues : game' = [c \in Cells |-> IF c \in ruled THEN v ELSE game[c]]
    BY <1>1, <2>1 DEF BeginUpdate
  <2>5. /\ game' \in [Cells -> Bytes] /\ \A c \in Cells \ ruled : game'[c] = game[c]
        /\ Own => OwnGame'
    BY <2>3, <2>4, WeatherEditorAssumption DEF Types, Own, OwnGame, OwnValues
  <2> QED
    BY <2>2, <2>5, Writes
<1>2. CASE UpdateCapture
  BY <1>2, Moves, Captures DEF UpdateCapture, placed, Away, Types
<1>3. CASE UpdateCopy
  BY <1>3, Copies DEF UpdateCopy
<1>4. CASE AutoLoad
  <2>1. /\ UNCHANGED <<game, sky, target, original, current, active, dirty, outside, preset, script>>
        /\ sky' \in Weathers \cup {Nil} /\ update = "autoLoad"
        /\ \/ HasPreset(current.id) /\ named' = current.id /\ update' = "autoRead"
           \/ update' = "reload"
    BY <1>4 DEF AutoLoad, Types
  <2>2. CASE update' = "reload"
    BY <2>1, <2>2, Moves DEF placed, Away
  <2>3. CASE HasPreset(current.id) /\ named' = current.id /\ update' = "autoRead"
    <3>1. current.id # Nil
      BY <2>3 DEF HasPreset
    <3> QED
      BY <2>1, <2>3, <3>1, NamesFile DEF Away
  <2> QED
    BY <2>1, <2>2, <2>3
<1>5. CASE AutoRead
  BY <1>5, ReadsFile DEF AutoRead, Away
<1>6. CASE AutoDate
  BY <1>6, Moves DEF AutoDate, placed, Away, Types
<1>7. CASE LookAtFile
  <2>1. /\ UNCHANGED <<game, sky, target, original, current, active, dirty, outside, preset, script>>
        /\ sky' \in Weathers \cup {Nil} /\ update = "reload"
        /\ \/ HasPreset(current.id) /\ named' = current.id /\ update' = "hotRead"
           \/ update' = "apply"
    BY <1>7 DEF LookAtFile, Changed, Types
  <2>2. CASE update' = "apply"
    BY <2>1, <2>2, Moves DEF placed, Away
  <2>3. CASE HasPreset(current.id) /\ named' = current.id /\ update' = "hotRead"
    <3>1. current.id # Nil
      BY <2>3 DEF HasPreset
    <3> QED
      BY <2>1, <2>3, <3>1, NamesFile DEF Away
  <2> QED
    BY <2>1, <2>2, <2>3
<1>8. CASE HotReload
  BY <1>8, ReadsFile DEF HotReload, Away
<1>9. CASE AutoApply
  BY <1>9, Moves, Applies DEF AutoApply, placed, Away, Types
<1>10. CASE EndApply
  BY <1>10, Clears DEF EndApply
<1> QED
  BY <1>1, <1>2, <1>3, <1>4, <1>5, <1>6, <1>7, <1>8, <1>9, <1>10 DEF UpdateStep

LEMMA StepNative == ASSUME Types, NativeStep PROVE Keeps
<1> USE DEF snapshots, files, frame
<1>1. CASE OnSnapshots
  <2>1. UNCHANGED <<sky, preset, update, named>>
    BY <1>1 DEF OnSnapshots
  <2>2. CASE CaptureWeather
    BY <2>1, <2>2, Captures, Copies DEF CaptureWeather, Call, Within, Called, Then
  <2>3. CASE ApplyWeather
    BY <2>1, <2>3, Asks DEF ApplyWeather, Call, Then
  <2>4. CASE RevertWeather
    BY <2>1, <2>4, Asks DEF RevertWeather, Call, Then
  <2>5. CASE LoadWeatherPreset
    <3>1. CASE /\ Call("load") /\ HasPreset(current.id) /\ Then("load", "read", current.id)
               /\ UNCHANGED <<game, snapshots, outside>>
      <4>1. current.id # Nil /\ script = Nil /\ script' = Stage("load", "read", current.id)
        BY <3>1 DEF HasPreset, Call, Then
      <4> QED
        BY <2>1, <3>1, <4>1, NamesFile
    <3>2. CASE Within("load", "read") /\ ReadPreset(script.of) /\ Then("load", "write", Nil)
      <4>1. PICK w : w = script.of
        OBVIOUS
      <4>2. ReadPreset(w)
        BY <3>2, <4>1
      <4>3. /\ script # Nil /\ script.name = "load" /\ script.at = "read" /\ w = script.of
            /\ script' = Stage("load", "write", Nil)
        BY <3>2, <4>1 DEF Within, Called, Then
      <4> QED
        BY <2>1, <4>2, <4>3, ReadsFile
    <3> QED
      BY <2>5, <3>1, <3>2 DEF LoadWeatherPreset
  <2>6. CASE NativeWrites
    BY <2>1, <2>6, Applies DEF NativeWrites, Called, Then
  <2>7. CASE NativeClears
    BY <2>1, <2>7, Clears DEF NativeClears, Called
  <2> QED
    BY <1>1, <2>2, <2>3, <2>4, <2>5, <2>6, <2>7 DEF OnSnapshots
<1>2. CASE SaveWeatherPreset
  <2>1. UNCHANGED <<game, sky, target, original, current, active, dirty, outside, update, named>>
    BY <1>2 DEF SaveWeatherPreset
  <2>2. CASE script = Nil /\ current.id # Nil /\ script' = Stage("save", "file", current.id) /\ UNCHANGED preset
    BY <2>1, <2>2, NamesFile
  <2>3. CASE Within("save", "file") /\ script' = Nil /\ WriteFile(script.of, SaveSnapshotToINI(current))
    <3>1. script # Nil /\ script.at = "file" /\ script.name = "save"
      BY <2>3 DEF Within, Called
    <3>2. PICK w \in Weathers : w = script.of
      BY <3>1 DEF Types, InHand
    <3>3. PICK lines : lines = SaveSnapshotToINI(current)
      OBVIOUS
    <3>4. /\ DOMAIN lines \subseteq FieldSet /\ \A f \in DOMAIN lines : lines[f] \in Int
          /\ OwnFields(current.id, current.value) => OwnFields(current.id, lines)
      BY <3>3, SavedIsOwn DEF Types
    <3>5. Own /\ Sound => OwnFields(w, lines)
      BY <3>1, <3>2, <3>4 DEF Own, Sound, Targets, ScriptAt
    <3> QED
      BY <2>1, <2>3, <3>1, <3>2, <3>3, <3>4, <3>5, WritesFile
  <2>4. CASE Within("save", "file") /\ script' = Nil /\ UNCHANGED preset
    <3>1. script # Nil /\ script.at = "file"
      BY <2>4 DEF Within, Called
    <3>2. ~BeginsCapture
      BY <2>1, <2>4, CaptureIsSome DEF BeginsCapture
    <3>3. Types'
      BY <2>1, <2>4 DEF Types, File, InHand
    <3>4. Sound => Sound'
      BY <2>1, <2>4, <3>1 DEF Sound, Racing, UpdateBusy, NativeBusy, Changing, Targets, Shows, Copying, Clearing, Reverting, ScriptAt
    <3>5. Own => Own'
      BY <2>1, <2>4 DEF Own, OwnGame, OwnFiles, OwnFile, OwnHand, OwnFields, OwnValues, ScriptAt
    <3> QED
      BY <3>2, <3>3, <3>4, <3>5 DEF Keeps
  <2> QED
    BY <1>2, <2>2, <2>3, <2>4 DEF SaveWeatherPreset, Call, Then
<1>3. CASE SetWeatherCompare
  BY <1>3, Moves DEF SetWeatherCompare, placed, Types
<1>4. CASE ForceWeather
  BY <1>4, Moves DEF ForceWeather, placed, Types
<1>5. CASE LoadKreateProfile
  <2>1. PICK c \in Cells : \E b \in Dumps[c] : WriteCell(c, b)
    BY <1>5 DEF LoadKreateProfile
  <2>2. PICK b \in Dumps[c] : WriteCell(c, b)
    BY <2>1
  <2>3. b \in Bytes /\ b \in OwnValues(c)
    BY WeatherEditorAssumption DEF OwnValues
  <2>4. game' = [game EXCEPT ![c] = b] /\ outside' = outside \cup {c}
    BY <2>2 DEF WriteCell
  <2>5. /\ game' \in [Cells -> Bytes] /\ \A d \in Cells \ {c} : game'[d] = game[d]
        /\ Own => OwnGame'
    BY <2>3, <2>4 DEF Types, Own, OwnGame, OwnValues
  <2>6. UNCHANGED <<target, original, current, active, dirty, preset, sky, update, named, script>>
    BY <1>5 DEF LoadKreateProfile
  <2> QED
    BY <2>4, <2>5, <2>6, Writes
<1>6. CASE EngineReflectVerifyStrict
  <2>1. UNCHANGED <<target, original, current, active, dirty, preset, sky, update, named>>
    BY <1>6 DEF EngineReflectVerifyStrict
  <2>2. CASE Call("verify") /\ (\E c \in Cells : Then("verify", "back", <<c, game[c]>>)) /\ UNCHANGED <<game, outside>>
    <3>1. PICK c \in Cells : script' = Stage("verify", "back", <<c, game[c]>>)
      BY <2>2 DEF Then
    <3>2. script = Nil /\ game[c] \in Bytes
      BY <2>2 DEF Call, Types
    <3>3. /\ script' # Nil /\ script' = Stage(script'.name, script'.at, script'.of)
          /\ script'.name = "verify" /\ script'.at = "back" /\ script'.of = <<c, game[c]>>
      BY <3>1, <3>2, WeatherEditorAssumption DEF Callables, Stages, Hands, Stage
    <3>4. ~BeginsCapture
      BY <2>1, <3>3, CaptureIsSome DEF BeginsCapture, Stage
    <3>5. Types'
      <4>1. InHand'
        BY <3>2, <3>3 DEF InHand
      <4> QED
        BY <2>1, <2>2, <4>1 DEF Types, File
    <3>6. Sound => Sound'
      BY <2>1, <2>2, <3>2, <3>3 DEF Sound, Racing, UpdateBusy, NativeBusy, Changing, Targets, Shows, Copying, Clearing, Reverting, ScriptAt
    <3>7. Own => Own'
      BY <2>1, <2>2, <3>3 DEF Own, OwnGame, OwnFiles, OwnFile, OwnHand, OwnFields, OwnValues, ScriptAt
    <3> QED
      BY <3>4, <3>5, <3>6, <3>7 DEF Keeps
  <2>3. CASE Within("verify", "back") /\ WriteCell(script.of[1], script.of[2]) /\ script' = Nil
    <3>1. script # Nil /\ script.name = "verify" /\ script.at = "back" /\ script.of \in Cells \X Bytes
      BY <2>3 DEF Within, Called, Types, InHand
    <3>2. PICK c \in Cells : c = script.of[1]
      BY <3>1
    <3>3. PICK b \in Bytes : b = script.of[2]
      BY <3>1
    <3>4. game' = [game EXCEPT ![c] = b] /\ outside' = outside \cup {c}
      BY <2>3, <3>2, <3>3 DEF WriteCell
    <3>5. Own => b \in OwnValues(c)
      BY <3>1, <3>2, <3>3 DEF Own, OwnHand, ScriptAt
    <3>6. /\ game' \in [Cells -> Bytes] /\ \A d \in Cells \ {c} : game'[d] = game[d]
          /\ Own => OwnGame'
      BY <3>4, <3>5 DEF Types, Own, OwnGame, OwnValues
    <3> QED
      BY <2>1, <2>3, <3>1, <3>4, <3>6, Writes
  <2> QED
    BY <1>6, <2>2, <2>3 DEF EngineReflectVerifyStrict
<1> QED
  BY <1>1, <1>2, <1>3, <1>4, <1>5, <1>6 DEF NativeStep

LEMMA StepEditor == ASSUME EditorInv, [Next]_vars PROVE EditorInv'
<1> USE DEF snapshots, files, frame
<1>0. Types
  BY DEF EditorInv
<1>1. CASE UpdateStep
  <2>1. Observe
    BY <1>1 DEF UpdateStep, BeginUpdate, UpdateCapture, UpdateCopy, AutoLoad, AutoRead, AutoDate, LookAtFile, HotReload, AutoApply, EndApply
  <2> QED
    BY <1>0, <1>1, <2>1, StepUpdate, Observed
<1>2. CASE NativeStep
  <2>1. Observe
    BY <1>2 DEF NativeStep, OnSnapshots, SaveWeatherPreset, SetWeatherCompare, ForceWeather, LoadKreateProfile, EngineReflectVerifyStrict
  <2> QED
    BY <1>0, <1>2, <2>1, StepNative, Observed
<1>3. CASE ChangeWeather
  <2>1. Keeps
    BY <1>0, <1>3, Moves DEF ChangeWeather, placed
  <2> QED
    BY <1>3, <2>1, Observed DEF ChangeWeather
<1>4. CASE EditPreset
  <2>1. PICK w \in Weathers : \E lines \in Lines[w] : WriteFile(w, lines)
    BY <1>4 DEF EditPreset
  <2>2. PICK lines \in Lines[w] : WriteFile(w, lines)
    BY <2>1
  <2>3. DOMAIN lines \subseteq FieldSet /\ (\A f \in DOMAIN lines : lines[f] \in Int) /\ OwnFields(w, lines)
    BY EditedIsOwn
  <2>4. UNCHANGED <<game, sky, target, original, current, active, dirty, outside, update, named, script>>
    BY <1>4 DEF EditPreset
  <2>5. Keeps
    BY <1>0, <2>2, <2>3, <2>4, WritesFile
  <2> QED
    BY <1>4, <2>5, Observed DEF EditPreset
<1>5. CASE UNCHANGED vars
  <2>1. Keeps
    BY <1>0, <1>5, Moves DEF vars, placed, Types
  <2>2. raced' = raced /\ (Sound => Sound') /\ (Own => Own')
    BY <1>5 DEF vars, Sound, Racing, UpdateBusy, NativeBusy, Changing, Targets, Shows, Copying, Clearing, Reverting, ScriptAt,
                Own, OwnGame, OwnFiles, OwnFile, OwnHand, OwnFields, OwnValues
  <2> QED
    BY <2>1, <2>2 DEF EditorInv, Keeps
<1> QED
  BY <1>1, <1>2, <1>3, <1>4, <1>5 DEF Next

LEMMA EditorInvariant == Spec => []EditorInv
<1>1. EditorInv /\ [Next]_vars => EditorInv'
  BY StepEditor
<1> QED
  BY <1>1, InitEditor, PTL DEF Spec

\* No weather gets the values of another, whoever else writes its record,
\* until the two threads have once been at the snapshot together
\* (CaptureCurrentWeather, ApplyToGame, LoadSnapshotFromINI).
THEOREM NoLeak == Spec => []NoForeignValues
<1>1. EditorInv => NoForeignValues
  BY DEF EditorInv, Own, OwnGame, NoForeignValues
<1> QED
  BY <1>1, EditorInvariant, PTL

\* What is applied is what the game shows, but for what others wrote, until
\* something else is captured, edited or loaded; a race breaks it only to
\* the next capture (WeatherEditor::Update, ApplyToGame).
THEOREM Applied == Spec => []GameShowsSnapshot
<1>1. EditorInv => GameShowsSnapshot
  <2> SUFFICES ASSUME EditorInv, ~UpdateBusy, ~NativeBusy, raced # "yes", active, ~dirty, NEW c \in Cells \ outside
               PROVE  WriteToWeather(current, target)[c] = game[c]
    BY DEF GameShowsSnapshot
  <2>1. ~Copying /\ ~Reverting
    BY DEF Copying, Reverting, ScriptAt, UpdateBusy, NativeBusy, EditorInv, Types, InHand
  <2>2. InGame(current, target, game, outside)
    BY <2>1 DEF EditorInv, Sound, Shows
  <2> QED
    BY <2>2, WriteIsTop DEF InGame
<1> QED
  BY <1>1, EditorInvariant, PTL

-----------------------------------------------------------------------------
(***************************************************************************)
(* The native parts.  Their invariants share the stage and the router.     *)
(***************************************************************************)
Providers == {"NativeEditorIDFix", "po3_Tweaks"}

-----------------------------------------------------------------------------
(* What is detected. *)

IsCompat(c) == DOMAIN c = {"has", "provider", "detected"}
Kitsuune == {"KreatE", "ELIF", "EVLaS", "AELAS", "ENBWorldspaceWeatherlists"}

LEMMA KnownPlugins == Range(EditorIDProviders) = Providers /\ Range(Originals) = Kitsuune
<1>1. DOMAIN EditorIDProviders = 1 .. 2 /\ DOMAIN Originals = 1 .. 5
  BY DEF EditorIDProviders, Originals
<1>2. \A k \in 1 .. 2 : k = 1 \/ k = 2
  OBVIOUS
<1>3. \A k \in 1 .. 5 : k = 1 \/ k = 2 \/ k = 3 \/ k = 4 \/ k = 5
  OBVIOUS
<1>4. /\ EditorIDProviders[1] = "NativeEditorIDFix" /\ EditorIDProviders[2] = "po3_Tweaks"
      /\ Originals[1] = "KreatE" /\ Originals[2] = "ELIF" /\ Originals[3] = "EVLaS"
      /\ Originals[4] = "AELAS" /\ Originals[5] = "ENBWorldspaceWeatherlists"
  BY DEF EditorIDProviders, Originals
<1>5. /\ Range(EditorIDProviders) = {EditorIDProviders[k] : k \in 1 .. 2}
      /\ Range(Originals) = {Originals[k] : k \in 1 .. 5}
  BY <1>1 DEF Range
<1>6. 1 \in 1 .. 2 /\ 2 \in 1 .. 2 /\ 1 \in 1 .. 5 /\ 2 \in 1 .. 5 /\ 3 \in 1 .. 5 /\ 4 \in 1 .. 5 /\ 5 \in 1 .. 5
  OBVIOUS
<1> QED
  BY <1>2, <1>3, <1>4, <1>5, <1>6 DEF Providers, Kitsuune

LEMMA ProbedFacts ==
  ASSUME NEW c, IsCompat(c), NEW plugins, NEW d, d = Probed(c, plugins)
  PROVE  IsCompat(d) /\ d.has = c.has \cup (modules \cap Range(plugins)) /\ d.provider = c.provider
<1>1. PICK more : more = Arrived(c, plugins)
  OBVIOUS
<1>2. d = [c EXCEPT !.has = @ \cup (modules \cap Range(plugins)), !.detected = @ \o more]
  BY <1>1 DEF Probed
<1> QED
  BY <1>2 DEF IsCompat

Asked(c) ==
  LET answering == (modules \cap exports) \ c.has
  IN  IF "NativeEditorIDFix" \in answering THEN "NativeEditorIDFix"
      ELSE IF "po3_Tweaks" \in answering /\ c.provider = Nobody THEN "po3_Tweaks" ELSE c.provider

LEMMA DetectedFacts ==
  ASSUME NEW c, IsCompat(c), NEW d, d = Detected(c)
  PROVE  /\ IsCompat(d) /\ d.provider = Asked(c)
         /\ d.has = c.has \cup (modules \cap (Providers \cup Kitsuune \cup {"KiLoader", "SBProxy"}))
<1>1. PICK c1 : c1 = Probed(c, EditorIDProviders)
  OBVIOUS
<1>2. PICK c2 : c2 = DetectEditorIDPlugins(c)
  OBVIOUS
<1>3. PICK c3 : c3 = Probed(c2, Originals)
  OBVIOUS
<1>4. IsCompat(c1) /\ c1.has = c.has \cup (modules \cap Providers) /\ c1.provider = c.provider
  BY <1>1, ProbedFacts, KnownPlugins
<1>5. c2 = [c1 EXCEPT !.provider = Asked(c)]
  BY <1>1, <1>2, <1>4 DEF DetectEditorIDPlugins, Asked
<1>6. IsCompat(c2) /\ c2.has = c1.has /\ c2.provider = Asked(c)
  BY <1>4, <1>5 DEF IsCompat
<1>7. IsCompat(c3) /\ c3.has = c2.has \cup (modules \cap Kitsuune) /\ c3.provider = c2.provider
  BY <1>3, <1>6, ProbedFacts, KnownPlugins
<1>8. d = [c3 EXCEPT !.has = @ \cup (modules \cap {"KiLoader", "SBProxy"})]
  BY <1>2, <1>3 DEF Detected, DetectKitsuunePlugins, DetectHosts
<1> QED
  BY <1>4, <1>6, <1>7, <1>8 DEF IsCompat

-----------------------------------------------------------------------------
(* Weather lists. *)

IsRouter(r) == DOMAIN r = {"active", "rules", "default", "last", "file", "backup"}
IsFolder(f) == DOMAIN f = {"routing", "legacy", "lists", "installed", "locked", "imported"}
IsVisit(v) == DOMAIN v = {"at", "served"}

\* The list in place is the one the router takes for active, and the router
\* has noted where the player is.
Placing ==
  /\ IsRouter(router) /\ IsFolder(enbseries) /\ IsVisit(visit)
  /\ router.active => enbseries.installed = Source(router.file) /\ visit.at = router.last /\ ActiveListInPlace
ListInv ==
  /\ Placing
  /\ stage # "running" => router = NoRouter

LEMMA Resting == IsRouter(NoRouter) /\ ~NoRouter.active /\ NoRouter.file = <<>> /\ NoRouter.last = 0
                 /\ IsVisit(NoVisit) /\ NoVisit.at = 0 /\ NoVisit.served = {}
BY DEF IsRouter, NoRouter, IsVisit, NoVisit

LEMMA ListInit == NativeInit => ListInv
BY Resting, NativeAssumption DEF NativeInit, ListInv, Placing, IsFolder, NativeAssumption

LEMMA ListStarts ==
  ASSUME Placing, InitializeRouter
  PROVE  Placing'
<1>1. PICK read : /\ router' = IF read.rules = <<>> THEN NoRouter
                               ELSE [NoRouter EXCEPT !.active = TRUE, !.rules = read.rules, !.default = read.default,
                                                     !.backup = enbseries.installed]
                  /\ enbseries' = IF enbseries.routing = Absent /\ read.rules # <<>>
                                  THEN [enbseries EXCEPT !.routing = EmitRouting(read.rules, <<>>), !.imported = TRUE]
                                  ELSE enbseries
                  /\ visit' = NoVisit
  BY Zenon DEF InitializeRouter
<1>2. IsFolder(enbseries') /\ enbseries'.installed = enbseries.installed
  <2>1. PICK text : text = EmitRouting(read.rules, <<>>)
    OBVIOUS
  <2>2. \/ enbseries' = enbseries
        \/ enbseries' = [enbseries EXCEPT !.routing = text, !.imported = TRUE]
    BY <1>1, <2>1
  <2> QED BY <2>2 DEF Placing, IsFolder
<1>3. /\ IsRouter(router')
      /\ router'.active => router'.last = 0 /\ router'.file = <<>> /\ router'.backup = enbseries.installed
  BY <1>1, Resting DEF IsRouter
<1>4. Source(<<>>)' = router'.backup
  BY DEF Source
<1> QED
  BY <1>1, <1>2, <1>3, <1>4, Resting DEF Placing, ActiveListInPlace

\* What a file name stands for does not change while the router runs.
LEMMA SourceStays == ASSUME router'.backup = router.backup, NEW file PROVE Source(file)' = Source(file)
BY DEF Source
LEMMA ContentIs == ASSUME NEW file, Content(file) # Absent PROVE Content(file) = Source(file)
BY DEF Content, Source

LEMMA WantedSame ==
  ASSUME NEW r, NEW s, r.rules = s.rules, r.default = s.default, NEW ws
  PROVE  Wanted(r, ws) = Wanted(s, ws)
BY DEF Wanted

\* Where no list changes place and no worldspace is newly served.
LEMMA PlaceStays ==
  ASSUME Placing, IsRouter(router'), IsFolder(enbseries'), IsVisit(visit'),
         router'.active = router.active, router'.rules = router.rules, router'.default = router.default,
         router'.file = router.file, router'.backup = router.backup, enbseries'.installed = enbseries.installed,
         visit'.served = visit.served, router.active => visit'.at = router'.last
  PROVE  Placing'
<1>1. ASSUME router.active PROVE enbseries'.installed = Source(router.file)'
  BY <1>1, SourceStays DEF Placing
<1>2. ASSUME NEW ws PROVE Source(Wanted(router, ws))' = Source(Wanted(router, ws))
  <2>1. PICK file : file = Wanted(router, ws)
    OBVIOUS
  <2>2. Wanted(router', ws) = file
    BY <2>1, WantedSame
  <2> QED BY <2>1, <2>2 DEF Source
<1>3. ASSUME router.active PROVE ActiveListInPlace'
  BY <1>2, <1>3 DEF Placing, ActiveListInPlace
<1> QED
  BY <1>1, <1>3 DEF Placing

\* Where the player comes to a worldspace whose list is then in place.
LEMMA PlaceServed ==
  ASSUME NEW ws, IsRouter(router'), IsFolder(enbseries'), IsVisit(visit'),
         router'.last = ws, visit'.at = ws, visit'.served = {ws},
         router'.file = Wanted(router', ws), enbseries'.installed = Source(router.file)'
  PROVE  Placing'
BY DEF Placing, ActiveListInPlace

LEMMA ListUpdates ==
  ASSUME Placing, NEW ws, UpdateRouter(ws)
  PROVE  Placing'
<1>1. PICK r : r = [router EXCEPT !.last = ws]
  OBVIOUS
<1>2. /\ IsRouter(r) /\ r.last = ws /\ r.active = router.active /\ r.rules = router.rules /\ r.default = router.default
      /\ r.file = router.file /\ r.backup = router.backup
  BY <1>1 DEF Placing, IsRouter
<1>3. PICK file : file = Wanted(r, ws)
  OBVIOUS
<1>4. file = Wanted(router, ws)
  BY <1>2, <1>3, WantedSame
<1>5. /\ Come(ws)
      /\ \/ (~router.active \/ ws = router.last) /\ UNCHANGED <<enbseries, router>>
         \/ router.active /\ ws # router.last /\ file = router.file /\ router' = r /\ UNCHANGED enbseries
         \/ router.active /\ ws # router.last /\ file # router.file /\ ApplyWeatherlist(r, file)
  BY <1>1, <1>3, Zenon DEF UpdateRouter
<1>6. CASE (~router.active \/ ws = router.last) /\ UNCHANGED <<enbseries, router>>
  <2>1. visit' = visit
    BY <1>5, <1>6 DEF Come, Placing
  <2>2. IsRouter(router') /\ IsFolder(enbseries') /\ IsVisit(visit') /\ (router.active => visit'.at = router'.last)
    BY <1>6, <2>1 DEF Placing
  <2> QED BY <1>6, <2>1, <2>2, PlaceStays
<1>7. ASSUME router.active, ws # router.last
      PROVE  /\ IsVisit(visit') /\ visit'.at = ws
             /\ visit'.served = IF Servable(ws) THEN {ws} ELSE visit.served
  BY <1>5, <1>7 DEF Come, Placing, IsVisit
<1>8. CASE router.active /\ ws # router.last /\ router' = r /\ UNCHANGED enbseries
           /\ (file = router.file \/ Content(file) = Absent \/ enbseries.locked)
  <2>1. IsRouter(router') /\ IsFolder(enbseries')
    BY <1>2, <1>8 DEF Placing
  <2>2. CASE Servable(ws)
    <3>1. enbseries.installed = Source(file)
      BY <1>4, <1>8, <2>2 DEF Servable, Placing
    \* The list is in place, though the router may take another for active.
    <3>2. enbseries'.installed = Source(router.file)'
      BY <1>2, <1>8, SourceStays DEF Placing
    <3>3. Wanted(router', ws) = file
      BY <1>3, <1>8
    <3>4. Source(file)' = Source(file)
      BY <1>2, <1>8, SourceStays
    <3>5. ActiveListInPlace'
      <4>1. PICK installed : installed = enbseries'.installed
        OBVIOUS
      <4>2. Source(Wanted(router, ws))' = installed
        BY <1>8, <3>1, <3>3, <3>4, <4>1
      <4> QED BY <1>7, <1>8, <2>2, <4>1, <4>2 DEF ActiveListInPlace
    <3> QED BY <1>2, <1>7, <1>8, <2>1, <3>2, <3>5 DEF Placing
  <2>3. CASE ~Servable(ws)
    BY <1>2, <1>7, <1>8, <2>1, <2>3, PlaceStays
  <2> QED BY <2>2, <2>3
<1>9. CASE /\ router.active /\ ws # router.last /\ router' = [r EXCEPT !.file = file]
           /\ ~(Content(file) = Absent \/ enbseries.locked)
           /\ enbseries' = [enbseries EXCEPT !.installed = Content(file)]
  <2>1. /\ IsRouter(router') /\ router'.file = file /\ router'.last = ws /\ router'.backup = router.backup
        /\ router'.rules = r.rules /\ router'.default = r.default
    BY <1>2, <1>9 DEF IsRouter
  <2>2. PICK content : content = Content(file)
    OBVIOUS
  <2>3. IsFolder(enbseries') /\ enbseries'.installed = content
    BY <1>9, <2>2 DEF Placing, IsFolder
  <2>4. content = Source(file) /\ Servable(ws)
    BY <1>4, <1>9, <2>2, ContentIs DEF Servable
  <2>5. Source(file)' = content
    BY <2>1, <2>4, SourceStays
  <2>6. Wanted(router', ws) = file
    BY <1>3, <2>1, WantedSame
  <2>7. enbseries'.installed = Source(router.file)'
    BY <2>1, <2>3, <2>5
  <2> QED BY <1>7, <1>9, <2>1, <2>3, <2>4, <2>6, <2>7, PlaceServed
<1> QED
  BY <1>5, <1>6, <1>8, <1>9 DEF ApplyWeatherlist

LEMMA ListsTouched ==
  ASSUME Placing, NEW kept, NEW locked, ListsChange(kept, locked)
  PROVE  Placing'
<1>1. /\ enbseries' = [enbseries EXCEPT !.lists = kept, !.locked = locked] /\ router' = router /\ visit' = visit
  BY DEF ListsChange
<1>2. IsFolder(enbseries') /\ enbseries'.installed = enbseries.installed
  BY <1>1 DEF Placing, IsFolder
<1> QED
  BY <1>1, <1>2, PlaceStays DEF Placing

LEMMA ListStep == ListInv /\ [NativeNext]_<<suiteVars, componentVars>> => ListInv'
<1> SUFFICES ASSUME ListInv, [NativeNext]_<<suiteVars, componentVars>> PROVE ListInv'
  OBVIOUS
<1>1. ASSUME UNCHANGED <<stage, listVars>> PROVE ListInv'
  BY <1>1 DEF ListInv, Placing, listVars, ActiveListInPlace, Source
<1>2. ASSUME NEW m, NEW e, LoadModule(m, e) PROVE ListInv'
  BY <1>1, <1>2 DEF LoadModule, suiteVars
<1>3. CASE PostLoad
  <2>1. stage = "loading" /\ stage' = "posted" /\ UNCHANGED listVars
    BY <1>3, Zenon DEF PostLoad
  <2> QED BY <2>1 DEF ListInv, Placing, listVars, ActiveListInPlace, Source
<1>4. CASE DataLoaded
  <2>1. stage = "posted" /\ stage' = "running" /\ InitializeList(compat')
    BY <1>4, Zenon DEF DataLoaded
  <2>2. CASE UNCHANGED listVars
    BY <2>1, <2>2 DEF ListInv, Placing, listVars, ActiveListInPlace, Source
  <2>3. CASE InitializeRouter
    BY <2>1, <2>3, ListStarts DEF ListInv
  <2> QED BY <2>1, <2>2, <2>3 DEF InitializeList
<1>5. CASE Restart
  <2>1. router' = NoRouter /\ visit' = NoVisit /\ enbseries' = enbseries
    BY <1>5 DEF Restart
  <2> QED BY <2>1, Resting DEF ListInv, Placing
<1>6. ASSUME NEW ws, NativeFrame(ws) PROVE ListInv'
  <2>1. stage = "running" /\ UNCHANGED stage /\ UpdateRouter(ws)
    BY <1>6 DEF NativeFrame, suiteVars
  <2> QED BY <2>1, ListUpdates DEF ListInv
<1>7. ASSUME NEW f, NEW n, SetName(f, n) PROVE ListInv'
  BY <1>1, <1>7 DEF SetName, suiteVars
<1>8. ASSUME NEW r, NEW f, NEW o, AskName(r, f, o) PROVE ListInv'
  BY <1>1, <1>8 DEF AskName, suiteVars
<1>9. ASSUME NEW r, TakeName(r) PROVE ListInv'
  BY <1>1, <1>9 DEF TakeName, suiteVars
<1>10. ASSUME NEW p, LoadProfile(p) PROVE ListInv'
  BY <1>1, <1>10 DEF LoadProfile, suiteVars
<1>12. CASE OthersTouchLists
  <2>1. PICK kept, locked : ListsChange(kept, locked)
    BY <1>12 DEF OthersTouchLists
  <2>2. UNCHANGED <<stage, router>>
    BY <1>12 DEF OthersTouchLists, suiteVars, ListsChange
  <2> QED BY <2>1, <2>2, ListsTouched DEF ListInv
<1>11. CASE UNCHANGED <<suiteVars, componentVars>>
  BY <1>1, <1>11 DEF suiteVars, componentVars
<1> QED
  BY <1>2, <1>3, <1>4, <1>5, <1>6, <1>7, <1>8, <1>9, <1>10, <1>11, <1>12 DEF NativeNext

\* However the lists of the directory are opened, closed, added and removed, the
\* list in place is the one routed to the last worldspace that the player came
\* to while its list could be copied: a copy that fails is not tried again, and
\* keeps no later one from being made (WorldspaceWeatherlist::Update,
\* ApplyWeatherlist).
THEOREM ListInPlace == NativeSpec => []ActiveListInPlace
<1>1. ListInv => ActiveListInPlace
  BY DEF ListInv, Placing, ActiveListInPlace
<1> QED
  BY <1>1, ListInit, ListStep, PTL DEF NativeSpec

-----------------------------------------------------------------------------
(* Names. *)

NoNames == ids = NotInstalled /\ reader = Idle
Referring(r) ==
  \/ reader[r].ref = Empty
  \/ \E f \in DOMAIN cache : reader[r].ref = <<"node", f>> /\ reader[r].name = cache[f]
NameInv ==
  /\ stage # "running" => reader = Idle
  /\ stage = "loading" => ids = NotInstalled
  /\ DOMAIN ids = {"installed", "provider", "func"}
  /\ DOMAIN reader = Readers /\ \A r \in Readers : DOMAIN reader[r] = {"ref", "name", "got"}
  /\ ids.provider = Nobody => \A r \in Readers : Referring(r)

LEMMA IdleReaders ==
  DOMAIN Idle = Readers /\ \A r \in Readers : DOMAIN Idle[r] = {"ref", "name", "got"} /\ Idle[r].ref = Empty
BY DEF Idle

LEMMA NameInit == NativeInit => NameInv
BY IdleReaders DEF NativeInit, EditorIDInit, NameInv, NotInstalled, Referring

LEMMA NameStep == NameInv /\ [NativeNext]_<<suiteVars, componentVars>> => NameInv'
<1> SUFFICES ASSUME NameInv, [NativeNext]_<<suiteVars, componentVars>> PROVE NameInv'
  OBVIOUS
<1>1. ASSUME UNCHANGED <<stage, idVars>> PROVE NameInv'
  BY <1>1 DEF NameInv, idVars, Referring
<1>2. ASSUME NEW m, NEW e, LoadModule(m, e) PROVE NameInv'
  BY <1>1, <1>2 DEF LoadModule, suiteVars
<1>3. CASE PostLoad
  <2>1. PICK c : stage = "loading" /\ stage' = "posted" /\ InstallEditorIDs(c)
    BY <1>3, Zenon DEF PostLoad
  <2>2. reader' = reader /\ reader = Idle /\ ids = NotInstalled
    BY <2>1 DEF InstallEditorIDs, NameInv
  <2>3. DOMAIN ids' = {"installed", "provider", "func"}
    BY <2>1 DEF InstallEditorIDs, InstallNative, NameInv
  <2> QED BY <2>1, <2>2, <2>3, IdleReaders DEF NameInv, Referring
<1>4. CASE DataLoaded
  <2>1. stage = "posted" /\ stage' = "running" /\ UNCHANGED idVars
    BY <1>4, Zenon DEF DataLoaded
  <2> QED BY <2>1 DEF NameInv, idVars, Referring
<1>5. CASE Restart
  <2>1. ids' = NotInstalled /\ reader' = Idle
    BY <1>5 DEF Restart, FreshIDs
  <2> QED BY <2>1, IdleReaders DEF NameInv, NotInstalled, Referring
<1>6. ASSUME NEW ws, NativeFrame(ws) PROVE NameInv'
  BY <1>1, <1>6 DEF NativeFrame, suiteVars
\* A name that is set disturbs none that is held.
<1>7. ASSUME NEW f, NEW n, SetName(f, n) PROVE NameInv'
  <2>1. UNCHANGED <<stage, ids, reader>>
    BY <1>7 DEF SetName, suiteVars, SetFormEditorID
  <2>2. \A g \in DOMAIN cache : g \in DOMAIN cache' /\ cache'[g] = cache[g]
    BY <1>7 DEF SetName, SetFormEditorID, Store, Emplaced
  <2> QED BY <2>1, <2>2 DEF NameInv, Referring
<1>8. ASSUME NEW r \in Readers, NEW f, NEW o, AskName(r, f, o) PROVE NameInv'
  <2>1. stage = "running" /\ LookupName(r, f, o) /\ UNCHANGED <<stage, ids, cache>>
    BY <1>8 DEF AskName, suiteVars, LookupName
  <2>2. PICK x : reader' = [reader EXCEPT ![r] = x] /\ DOMAIN x = {"ref", "name", "got"}
                 /\ (ids.provider = Nobody =>
                       x.ref = Empty \/ (f \in DOMAIN cache /\ x.ref = <<"node", f>> /\ x.name = cache[f]))
    <3>1. CASE ids.provider # Nobody /\ o[f] = ""
      BY <2>1, <3>1 DEF LookupName, NameInv
    <3>2. CASE ids.provider # Nobody /\ o[f] # ""
      BY <2>1, <3>2 DEF LookupName, NameInv
    <3>3. CASE ids.provider = Nobody
      <4>1. PICK node : node = <<"node", f>>
        OBVIOUS
      <4>2. PICK old : old = reader[r] /\ DOMAIN old = {"ref", "name", "got"}
        BY DEF NameInv
      <4>3. PICK x : x = IF f \in DOMAIN cache THEN [old EXCEPT !.ref = node, !.name = cache[f]]
                         ELSE [old EXCEPT !.ref = Empty, !.name = ""]
        OBVIOUS
      <4>4. reader' = [reader EXCEPT ![r] = x]
        BY <2>1, <3>3, <4>1, <4>2, <4>3 DEF LookupName
      <4>5. DOMAIN x = {"ref", "name", "got"} /\ (x.ref = Empty \/ (f \in DOMAIN cache /\ x.ref = node /\ x.name = cache[f]))
        BY <4>2, <4>3
      <4> QED BY <4>1, <4>4, <4>5
    <3> QED BY <3>1, <3>2, <3>3
  <2> QED BY <2>1, <2>2 DEF NameInv, Referring
<1>9. ASSUME NEW r \in Readers, TakeName(r) PROVE NameInv'
  <2>1. CopyName(r) /\ UNCHANGED <<stage, ids, cache>> /\ reader[r].ref # Empty
    BY <1>9 DEF TakeName, suiteVars, CopyName
  <2>2. PICK x : reader' = [reader EXCEPT ![r] = x] /\ DOMAIN x = {"ref", "name", "got"} /\ x.ref = Empty
    <3>1. PICK got : got = Behind(reader[r].ref)
      OBVIOUS
    <3>2. PICK x : x = [ref |-> Empty, name |-> "", got |-> got]
      OBVIOUS
    <3>3. reader' = [reader EXCEPT ![r] = x]
      BY <2>1, <3>1, <3>2 DEF CopyName
    <3>4. DOMAIN x = {"ref", "name", "got"} /\ x.ref = Empty
      BY <3>2
    <3> QED BY <3>3, <3>4
  <2>3. stage = "running"
    BY <2>1, IdleReaders DEF NameInv
  <2> QED BY <2>1, <2>2, <2>3 DEF NameInv, Referring
<1>10. ASSUME NEW p, LoadProfile(p) PROVE NameInv'
  BY <1>1, <1>10 DEF LoadProfile, suiteVars
<1>12. CASE OthersTouchLists
  BY <1>1, <1>12 DEF OthersTouchLists, suiteVars
<1>11. CASE UNCHANGED <<suiteVars, componentVars>>
  BY <1>1, <1>11 DEF suiteVars, componentVars
<1> QED
  BY <1>2, <1>3, <1>4, <1>5, <1>6, <1>7, <1>8, <1>9, <1>10, <1>11, <1>12 DEF NativeNext

\* In native mode a reference to a name outlives whatever is set meanwhile
\* (EditorIDCache.cpp: Lookup, Store).
THEOREM NamesHold == NativeSpec => []ReferencesHold
<1>1. NameInv => ReferencesHold
  <2> SUFFICES ASSUME NameInv, NEW r \in Readers, reader[r].ref # Empty, ids.provider = Nobody
               PROVE  Behind(reader[r].ref) = reader[r].name
    BY DEF ReferencesHold
  <2>1. PICK f \in DOMAIN cache : reader[r].ref = <<"node", f>> /\ reader[r].name = cache[f]
    BY DEF NameInv, Referring
  <2>2. PICK ref : ref = reader[r].ref
    OBVIOUS
  <2>3. ref # Empty /\ ref[1] # "buffer" /\ ref[2] = f
    BY <2>1, <2>2
  <2> QED BY <2>1, <2>2, <2>3 DEF Behind
<1> QED
  BY <1>1, NameInit, NameStep, PTL DEF NativeSpec

-----------------------------------------------------------------------------
(* Owners. *)

Answering == Providers \cap modules \cap exports
IsNative(n) == DOMAIN n = {"wants", "on"} /\ DOMAIN n.on = {"lightFix", "sky", "kreate"}
NotLate == {"ELIF"} \cup Providers

\* What is known at each stage.
AtLoading == stage = "loading" => compat = FreshCompat /\ ids = NotInstalled /\ vtable = Unhooked
AfterLoading ==
  stage # "loading" =>
    /\ native.on.lightFix => "ELIF" \notin modules
    /\ Exactly("thunk" \in Range(vtable), ids.provider # Nobody)
    /\ Answering # {} => ids.provider \in modules \cap Providers
AtRunning ==
  stage = "running" =>
    /\ modules \cap NotLate = present \cap NotLate
    /\ Exactly(native.on.kreate, "KreatE" \in present)
    /\ native.wants.Sky => Exactly(native.on.sky, present \cap {"AELAS", "EVLaS"} # {})
    /\ router.active => "ENBWorldspaceWeatherlists" \notin present
OwnerInv ==
  /\ stage \in {"loading", "posted", "running"} /\ stage # "running" => router = NoRouter
  /\ IsCompat(compat) /\ compat.has \subseteq modules /\ IsNative(native)
  /\ AtLoading /\ AfterLoading /\ AtRunning

LEMMA FreshParts ==
  IsCompat(FreshCompat) /\ FreshCompat.has = {} /\ FreshCompat.provider = Nobody /\ IsNative(FreshNative)
BY DEF IsCompat, FreshCompat, IsNative, FreshNative, Off

LEMMA OwnerInit == NativeInit => OwnerInv
BY FreshParts DEF NativeInit, EditorIDInit, OwnerInv, AtLoading, AfterLoading, AtRunning

LEMMA Tables ==
  "thunk" \notin Range(Unhooked) /\ "thunk" \in Range(Hooked)
<1>1. "thunk" \notin Range(Unhooked)
  BY FormTypesAssumption DEF FormTypesAssumption, Range, Unhooked
<1>2. PICK t : t \in Range(FormTypes)
  <2>1. Len(FormTypes) \in Nat /\ Len(FormTypes) # 0 /\ DOMAIN FormTypes = 1 .. Len(FormTypes)
    BY FormTypesAssumption DEF FormTypesAssumption
  <2>2. 1 \in DOMAIN FormTypes
    BY <2>1
  <2> QED BY <2>2 DEF Range
<1>3. t \in DOMAIN Hooked /\ Hooked[t] = "thunk"
  BY <1>2 DEF Hooked
<1>4. "thunk" \in Range(Hooked)
  BY <1>3 DEF Range
<1> QED
  BY <1>1, <1>4

LEMMA Installs ==
  ASSUME OwnerInv, stage = "loading", NEW c, c = Detected(compat), InstallEditorIDs(Detected(c))
  PROVE  /\ Exactly("thunk" \in Range(vtable'), ids'.provider # Nobody)
         /\ Answering # {} => ids'.provider \in modules \cap Providers
<1>1. PICK d : d = Detected(c)
  OBVIOUS
<1>2. /\ IsCompat(c) /\ c.provider = Asked(compat)
      /\ c.has = compat.has \cup (modules \cap (Providers \cup Kitsuune \cup {"KiLoader", "SBProxy"}))
  BY DetectedFacts DEF OwnerInv
<1>3. /\ IsCompat(d) /\ d.provider = Asked(c)
      /\ d.has = c.has \cup (modules \cap (Providers \cup Kitsuune \cup {"KiLoader", "SBProxy"}))
  BY <1>1, <1>2, DetectedFacts
<1>4. compat.has = {} /\ compat.provider = Nobody /\ ids = NotInstalled /\ vtable = Unhooked
  BY FreshParts DEF OwnerInv, AtLoading
<1>5. d.provider = c.provider
  BY <1>2, <1>3 DEF Asked, Providers
<1>6. Answering # {} => d.provider \in modules \cap Providers /\ d.provider # Nobody
  BY <1>2, <1>4, <1>5, NobodyAssumption DEF Asked, Providers, Answering, NobodyAssumption
<1>7. Answering # {} => HasExternalEditorIDProvider(d)
  BY <1>2, <1>3 DEF HasExternalEditorIDProvider, Providers, Answering
<1>8. CASE HasExternalEditorIDProvider(d) /\ d.provider # Nobody
  <2>1. ids' = [ids EXCEPT !.installed = TRUE, !.provider = d.provider] /\ vtable' = vtable
    BY <1>1, <1>8 DEF InstallEditorIDs
  <2>2. ids'.provider = d.provider
    BY <1>4, <2>1 DEF NotInstalled
  <2> QED BY <1>4, <1>6, <1>8, <2>1, <2>2, Tables DEF Exactly
<1>9. CASE ~(HasExternalEditorIDProvider(d) /\ d.provider # Nobody)
  <2>1. InstallNative
    BY <1>1, <1>9 DEF InstallEditorIDs
  <2>2. ids'.provider = Nobody /\ vtable' = Hooked
    BY <2>1 DEF InstallNative
  <2> QED BY <1>6, <1>7, <1>9, <2>2, Tables DEF Exactly
<1> QED
  BY <1>8, <1>9

\* A frame does not switch the router on.
LEMMA ActiveStays ==
  ASSUME IsRouter(router), NEW ws, UpdateRouter(ws)
  PROVE  router'.active = router.active
<1>1. PICK r : r = [router EXCEPT !.last = ws]
  OBVIOUS
<1>2. IsRouter(r) /\ r.active = router.active
  BY <1>1 DEF IsRouter
<1>3. router' = router \/ router' = r \/ \E file : router' = [r EXCEPT !.file = file]
  <2>1. PICK file : file = Wanted(r, ws)
    OBVIOUS
  <2>2. \/ router' = router
        \/ router' = r
        \/ ApplyWeatherlist(r, file)
    BY <1>1, <2>1, Zenon DEF UpdateRouter
  <2> QED BY <2>2 DEF ApplyWeatherlist
<1> QED
  BY <1>2, <1>3 DEF IsRouter

LEMMA OwnerStep == ListInv /\ OwnerInv /\ [NativeNext]_<<suiteVars, componentVars>> => OwnerInv'
<1> SUFFICES ASSUME ListInv, OwnerInv, [NativeNext]_<<suiteVars, componentVars>> PROVE OwnerInv'
  OBVIOUS
<1>1. ASSUME UNCHANGED <<suiteVars, modules, exports, compat, ids, vtable>>, router'.active = router.active,
             router' = router \/ stage = "running"
      PROVE OwnerInv'
  BY <1>1 DEF OwnerInv, suiteVars, AtLoading, AfterLoading, AtRunning, Answering
<1>2. ASSUME NEW m, NEW e \in BOOLEAN, LoadModule(m, e) PROVE OwnerInv'
  <2>1. /\ modules' = modules \cup {m} /\ m \notin modules /\ (stage = "loading" \/ m \in LatePlugins)
        /\ exports' = IF e /\ m \in Providers THEN exports \cup {m} ELSE exports
        /\ UNCHANGED <<compat, ids, vtable, router, stage, native, present>>
    BY <1>2, KnownPlugins DEF LoadModule, suiteVars, idVars, listVars
  <2>2. m \in LatePlugins => m \notin NotLate
    BY NativeAssumption DEF NativeAssumption, NotLate, Providers
  <2>3. stage # "loading" => Answering' = Answering /\ modules' \cap NotLate = modules \cap NotLate
    BY <2>1, <2>2 DEF Answering, NotLate
  <2>4. AfterLoading'
    BY <2>1, <2>2, <2>3 DEF OwnerInv, AfterLoading, NotLate
  <2>5. AtRunning'
    BY <2>1, <2>3 DEF OwnerInv, AtRunning
  <2> QED BY <2>1, <2>4, <2>5 DEF OwnerInv, AtLoading
<1>3. CASE PostLoad
  <2>0. PICK c : c = Detected(compat)
    OBVIOUS
  <2>1. PICK ini \in Inis : /\ stage = "loading" /\ stage' = "posted" /\ compat' = c
          /\ native' = [wants |-> Wants(ini), on |-> [Off EXCEPT !.lightFix = InstallLightFix(c, Wants(ini))]]
          /\ InstallEditorIDs(Detected(c))
          /\ UNCHANGED <<modules, exports, listVars>>
    BY <1>3, <2>0 DEF PostLoad
  <2>2. PICK wants : wants = Wants(ini)
    OBVIOUS
  <2>3. PICK fix \in BOOLEAN : fix = InstallLightFix(c, wants)
    BY DEF InstallLightFix
  <2>4. native' = [wants |-> wants, on |-> [Off EXCEPT !.lightFix = fix]]
    BY <2>1, <2>2, <2>3
  <2>5. IsNative(native') /\ native'.on.lightFix = fix
    BY <2>4 DEF IsNative, Off
  <2>6. IsCompat(c) /\ c.has = compat.has \cup (modules \cap (Providers \cup Kitsuune \cup {"KiLoader", "SBProxy"}))
    BY <2>0, DetectedFacts DEF OwnerInv
  <2>7. fix => "ELIF" \notin modules
    BY <2>3, <2>6 DEF InstallLightFix, Kitsuune
  <2>8. AfterLoading'
    <3>1. Answering' = Answering
      BY <2>1 DEF Answering
    <3> QED BY <2>0, <2>1, <2>5, <2>7, <3>1, Installs DEF AfterLoading
  <2>9. router' = router /\ router = NoRouter
    BY <2>1 DEF OwnerInv, listVars
  <2> QED BY <2>1, <2>5, <2>6, <2>8, <2>9 DEF OwnerInv, AtLoading, AtRunning
<1>4. CASE DataLoaded
  <2>0. PICK c : c = Detected(compat)
    OBVIOUS
  <2>1. PICK kreate \in BOOLEAN, lighting \in BOOLEAN : kreate = ("KreatE" \notin c.has) /\ lighting = InitializeSky(c)
    <3>1. \E kreate \in BOOLEAN : kreate = ("KreatE" \notin c.has)
      OBVIOUS
    <3>2. \E lighting \in BOOLEAN : lighting = InitializeSky(c)
      BY DEF InitializeSky
    <3> QED BY <3>1, <3>2
  <2>2. /\ stage = "posted" /\ stage' = "running" /\ present' = modules /\ compat' = c
        /\ native' = [native EXCEPT !.on.kreate = kreate, !.on.sky = lighting]
        /\ InitializeList(c) /\ UNCHANGED <<modules, exports, ids, vtable>>
    BY <1>4, <2>0, <2>1 DEF DataLoaded, Reprobed, idVars
  <2>3. IsCompat(c) /\ c.has = compat.has \cup (modules \cap (Providers \cup Kitsuune \cup {"KiLoader", "SBProxy"}))
    BY <2>0, DetectedFacts DEF OwnerInv
  <2>4. c.has \subseteq modules /\ \A p \in Kitsuune : p \in c.has <=> p \in modules
    BY <2>3 DEF OwnerInv
  <2>5. /\ IsNative(native') /\ native'.on.lightFix = native.on.lightFix
        /\ native'.on.kreate = kreate /\ native'.on.sky = lighting /\ native'.wants = native.wants
    BY <2>2 DEF OwnerInv, IsNative
  <2>6. AfterLoading'
    BY <2>2, <2>5 DEF OwnerInv, AfterLoading, Answering
  <2>7. Exactly(kreate, "KreatE" \in modules)
    BY <2>1, <2>4 DEF Exactly, Kitsuune
  <2>8. native.wants.Sky => Exactly(lighting, modules \cap {"AELAS", "EVLaS"} # {})
    BY <2>1, <2>4 DEF Exactly, Kitsuune, InitializeSky, HasExternalCelestialProvider
  <2>9. router'.active => "ENBWorldspaceWeatherlists" \notin modules
    <3>1. CASE router' = NoRouter
      BY <3>1 DEF NoRouter
    <3>2. CASE "ENBWorldspaceWeatherlists" \notin c.has
      BY <2>4, <3>2 DEF Kitsuune
    <3> QED BY <2>2, <3>1, <3>2 DEF InitializeList, listVars, OwnerInv
  <2> QED BY <2>2, <2>3, <2>4, <2>5, <2>6, <2>7, <2>8, <2>9 DEF OwnerInv, AtLoading, AtRunning
<1>5. CASE Restart
  <2>1. /\ stage' = "loading" /\ native' = FreshNative /\ modules' = {} /\ compat' = FreshCompat
        /\ ids' = NotInstalled /\ vtable' = Unhooked /\ router' = NoRouter
    BY <1>5 DEF Restart, FreshIDs
  <2> QED BY <2>1, FreshParts DEF OwnerInv, AtLoading, AfterLoading, AtRunning
<1>6. ASSUME NEW ws, NativeFrame(ws) PROVE OwnerInv'
  <2>1. stage = "running" /\ UNCHANGED <<suiteVars, modules, exports, compat, ids, vtable>> /\ UpdateRouter(ws)
    BY <1>6 DEF NativeFrame, idVars
  <2>2. router'.active = router.active
    BY <1>6, <2>1, ActiveStays DEF ListInv, Placing
  <2> QED BY <1>1, <2>1, <2>2
<1>7. ASSUME NEW f, NEW n, SetName(f, n) PROVE OwnerInv'
  BY <1>1, <1>7 DEF SetName, SetFormEditorID, listVars
<1>8. ASSUME NEW r, NEW f, NEW o, AskName(r, f, o) PROVE OwnerInv'
  BY <1>1, <1>8 DEF AskName, LookupName, listVars
<1>9. ASSUME NEW r, TakeName(r) PROVE OwnerInv'
  BY <1>1, <1>9 DEF TakeName, CopyName, listVars
<1>10. ASSUME NEW p, LoadProfile(p) PROVE OwnerInv'
  BY <1>1, <1>10 DEF LoadProfile, idVars, listVars
<1>12. CASE OthersTouchLists
  <2>1. UNCHANGED <<suiteVars, modules, exports, compat, ids, vtable, router>>
    BY <1>12 DEF OthersTouchLists, ListsChange, idVars
  <2> QED BY <1>1, <2>1
<1>11. CASE UNCHANGED <<suiteVars, componentVars>>
  BY <1>1, <1>11 DEF suiteVars, componentVars, idVars, listVars
<1> QED
  BY <1>2, <1>3, <1>4, <1>5, <1>6, <1>7, <1>8, <1>9, <1>10, <1>11, <1>12 DEF NativeNext

\* Of a native part and its original exactly one is at work, whatever loads
\* and in whatever order, as long as what loads late is none of the plugins
\* that are probed only once (CompatDetect.cpp; NativeAssumption).
THEOREM PartsOwned == NativeSpec => []OneOwner
<1>1. OwnerInv => OneOwner
  <2> SUFFICES ASSUME OwnerInv, stage = "running" PROVE OneOwner
    BY DEF OneOwner
  <2>1. "ELIF" \in present => "ELIF" \in modules
    BY DEF OwnerInv, AtRunning, NotLate
  <2>2. native.on.lightFix => "ELIF" \notin present
    BY <2>1 DEF OwnerInv, AfterLoading
  <2>3. Range(EditorIDProviders) \cap present \cap exports # {} => ids.provider \in present
    <3>1. modules \cap Providers = present \cap Providers
      BY DEF OwnerInv, AtRunning, NotLate
    <3> QED BY <3>1, KnownPlugins DEF OwnerInv, AfterLoading, Answering
  <2> QED BY <2>2, <2>3 DEF OwnerInv, AfterLoading, AtRunning, OneOwner
<1> QED
  BY <1>1, ListInit, ListStep, OwnerInit, OwnerStep, PTL DEF NativeSpec

-----------------------------------------------------------------------------
(***************************************************************************)
(* ParmLink, for any files, built-ins, data and language of expressions.   *)
(* The environments of an update are h[0], the one that it starts from, to *)
(* h[n], the one that it leaves; h exists because a least line without one *)
(* would follow a line with one.                                           *)
(***************************************************************************)
Evaluations(h, n, env, list) ==
  h = [k \in 0 .. n |-> IF k = 0 THEN env ELSE Evaluate(h[k - 1], list[k])]

\* One line more.
LEMMA EvaluationsGrow ==
  ASSUME NEW env, NEW list, NEW n \in Nat, NEW h, Evaluations(h, n, env, list)
  PROVE  \E g : Evaluations(g, n + 1, env, list)
<1> DEFINE g == [k \in 0 .. n + 1 |-> IF k = n + 1 THEN Evaluate(h[n], list[n + 1]) ELSE h[k]]
<1>1. \A k \in 0 .. n : h[k] = IF k = 0 THEN env ELSE Evaluate(h[k - 1], list[k])
  BY DEF Evaluations
<1>2. \A k \in 0 .. n + 1 : g[k] = IF k = 0 THEN env ELSE Evaluate(g[k - 1], list[k])
  <2> TAKE k \in 0 .. n + 1
  <2>1. CASE k = n + 1
    <3>1. k # 0 /\ k - 1 \in 0 .. n + 1 /\ k - 1 # n + 1 /\ k - 1 = n
      BY <2>1
    <3>2. g[k] = Evaluate(h[n], list[k]) /\ g[k - 1] = h[n]
      BY <2>1, <3>1
    <3> HIDE DEF g
    <3> QED BY <3>1, <3>2
  <2>2. CASE k = 0
    BY <2>2, <1>1
  <2>3. CASE k # 0 /\ k # n + 1
    <3>1. k \in 0 .. n /\ k - 1 \in 0 .. n + 1 /\ k - 1 # n + 1
      BY <2>3
    <3>2. g[k] = h[k] /\ g[k - 1] = h[k - 1]
      BY <2>3, <3>1
    <3> HIDE DEF g
    <3> QED BY <1>1, <2>3, <3>1, <3>2
  <2> QED BY <2>1, <2>2, <2>3
<1>3. g = [k \in 0 .. n + 1 |-> IF k = 0 THEN env ELSE Evaluate(g[k - 1], list[k])]
  <2>1. g = [k \in 0 .. n + 1 |-> g[k]]
    OBVIOUS
  <2> HIDE DEF g
  <2> QED BY <1>2, <2>1
<1> HIDE DEF g
<1> QED
  BY <1>3 DEF Evaluations

LEMMA EvaluationsExist ==
  ASSUME NEW env, NEW list, NEW n \in Nat
  PROVE  \E h : Evaluations(h, n, env, list)
<1> DEFINE T == {m \in Nat : ~ \E h : Evaluations(h, m, env, list)}
<1>1. SUFFICES ASSUME T # {} PROVE FALSE
  OBVIOUS
<1>2. PICK m \in T : \A y \in T : m <= y
  <2>1. T \in SUBSET Nat
    OBVIOUS
  <2> HIDE DEF T
  <2> QED BY <1>1, <2>1, LeastNatural
<1>3. m # 0
  <2>1. Evaluations([k \in 0 .. 0 |-> env], 0, env, list)
    <3>1. \A k \in 0 .. 0 : k = 0
      OBVIOUS
    <3> QED BY <3>1 DEF Evaluations
  <2> QED BY <2>1
<1>4. m - 1 \in Nat /\ ~ (m <= m - 1) /\ m - 1 + 1 = m
  BY <1>3
<1>5. PICK h : Evaluations(h, m - 1, env, list)
  BY <1>2, <1>4
<1> QED
  BY <1>2, <1>4, <1>5, EvaluationsGrow


\* LoadCFG takes the lines one by one in the same way.
LoadLine(done, line) ==
  IF line.name = "" THEN done ELSE Append(done, [name |-> line.name, code |-> Compiled(line.text)])
Loads(h, n, lines) ==
  h = [k \in 0 .. n |-> IF k = 0 THEN <<>> ELSE LoadLine(h[k - 1], lines[k])]

\* One line more.
LEMMA LoadsGrow ==
  ASSUME NEW lines, NEW n \in Nat, NEW h, Loads(h, n, lines)
  PROVE  \E g : Loads(g, n + 1, lines)
<1> DEFINE g == [k \in 0 .. n + 1 |-> IF k = n + 1 THEN LoadLine(h[n], lines[n + 1]) ELSE h[k]]
<1>1. \A k \in 0 .. n : h[k] = IF k = 0 THEN <<>> ELSE LoadLine(h[k - 1], lines[k])
  BY DEF Loads
<1>2. \A k \in 0 .. n + 1 : g[k] = IF k = 0 THEN <<>> ELSE LoadLine(g[k - 1], lines[k])
  <2> TAKE k \in 0 .. n + 1
  <2>1. CASE k = n + 1
    <3>1. k # 0 /\ k - 1 \in 0 .. n + 1 /\ k - 1 # n + 1 /\ k - 1 = n
      BY <2>1
    <3>2. g[k] = LoadLine(h[n], lines[k]) /\ g[k - 1] = h[n]
      BY <2>1, <3>1
    <3> HIDE DEF g
    <3> QED BY <3>1, <3>2
  <2>2. CASE k = 0
    BY <2>2, <1>1
  <2>3. CASE k # 0 /\ k # n + 1
    <3>1. k \in 0 .. n /\ k - 1 \in 0 .. n + 1 /\ k - 1 # n + 1
      BY <2>3
    <3>2. g[k] = h[k] /\ g[k - 1] = h[k - 1]
      BY <2>3, <3>1
    <3> HIDE DEF g
    <3> QED BY <1>1, <2>3, <3>1, <3>2
  <2> QED BY <2>1, <2>2, <2>3
<1>3. g = [k \in 0 .. n + 1 |-> IF k = 0 THEN <<>> ELSE LoadLine(g[k - 1], lines[k])]
  <2>1. g = [k \in 0 .. n + 1 |-> g[k]]
    OBVIOUS
  <2> HIDE DEF g
  <2> QED BY <1>2, <2>1
<1> HIDE DEF g
<1> QED
  BY <1>3 DEF Loads

LEMMA LoadsExist ==
  ASSUME NEW lines, NEW n \in Nat
  PROVE  \E h : Loads(h, n, lines)
<1> DEFINE T == {m \in Nat : ~ \E h : Loads(h, m, lines)}
<1>1. SUFFICES ASSUME T # {} PROVE FALSE
  OBVIOUS
<1>2. PICK m \in T : \A y \in T : m <= y
  <2>1. T \in SUBSET Nat
    OBVIOUS
  <2> HIDE DEF T
  <2> QED BY <1>1, <2>1, LeastNatural
<1>3. m # 0
  <2>1. Loads([k \in 0 .. 0 |-> <<>>], 0, lines)
    <3>1. \A k \in 0 .. 0 : k = 0
      OBVIOUS
    <3> QED BY <3>1 DEF Loads
  <2> QED BY <2>1
<1>4. m - 1 \in Nat /\ ~ (m <= m - 1) /\ m - 1 + 1 = m
  BY <1>3
<1>5. PICK h : Loads(h, m - 1, lines)
  BY <1>2, <1>4
<1> QED
  BY <1>2, <1>4, <1>5, LoadsGrow


LEMMA AppendStays ==
  ASSUME NEW S, NEW s \in Seq(S), NEW x \in S
  PROVE  Append(s, x) \in Seq(S)
OBVIOUS

LEMMA LoadedAreList ==
  ASSUME NEW lines, Len(lines) \in Nat
  PROVE  Len(LoadCFG(lines)) \in Nat /\ DOMAIN LoadCFG(lines) = 1 .. Len(LoadCFG(lines))
<1> DEFINE n == Len(lines)
           S == {[name |-> lines[k].name, code |-> Compiled(lines[k].text)] : k \in 1 .. n}
<1>1. PICK h : h = CHOOSE g : Loads(g, n, lines)
  OBVIOUS
<1>2. Loads(h, n, lines)
  BY <1>1, LoadsExist
<1>3. LoadCFG(lines) = h[n]
  BY <1>1, Zenon DEF LoadCFG, Loads, LoadLine
<1>4. h[0] = <<>> /\ \A k \in 1 .. n : h[k] = LoadLine(h[k - 1], lines[k])
  <2>1. \A k \in 0 .. n : h[k] = IF k = 0 THEN <<>> ELSE LoadLine(h[k - 1], lines[k])
    BY <1>2 DEF Loads
  <2> QED BY <2>1
<1>5. h[n] \in Seq(S)
  <2> DEFINE T == {k \in 0 .. n : h[k] \notin Seq(S)}
  <2>1. SUFFICES ASSUME T # {} PROVE FALSE
    OBVIOUS
  <2>2. PICK m \in T : \A y \in T : m <= y
    <3>1. T \in SUBSET Nat
      OBVIOUS
    <3> HIDE DEF T
    <3> QED BY <2>1, <3>1, LeastNatural
  <2>3. m # 0
    <3>1. h[0] \in Seq(S)
      <4>1. <<>> \in Seq(S)
        <5> HIDE DEF S
        <5> QED OBVIOUS
      <4> QED BY <1>4, <4>1
    <3> QED BY <3>1
  <2>4. m - 1 \in 0 .. n /\ ~ (m <= m - 1) /\ m \in 1 .. n
    BY <2>3
  <2>5. h[m - 1] \in Seq(S)
    BY <2>2, <2>4
  <2>6. [name |-> lines[m].name, code |-> Compiled(lines[m].text)] \in S
    BY <2>4
  <2>7. h[m] \in Seq(S)
    <3>1. PICK done : done = h[m - 1]
      OBVIOUS
    <3>2. PICK line : line = [name |-> lines[m].name, code |-> Compiled(lines[m].text)]
      OBVIOUS
    <3>3. h[m] = done \/ h[m] = Append(done, line)
      BY <1>4, <2>4, <3>1, <3>2 DEF LoadLine
    <3>4. done \in Seq(S) /\ line \in S
      BY <2>5, <2>6, <3>1, <3>2
    <3> HIDE DEF S, T
    <3>5. Append(done, line) \in Seq(S)
      BY <3>4, AppendStays
    <3> QED BY <3>3, <3>4, <3>5
  <2> QED BY <2>7
<1> HIDE DEF S
<1> QED
  BY <1>3, <1>5

\* What a line stores is seen by those alone that look its name up.
LEMMA UnseenLine ==
  ASSUME NEW env, NEW name, NEW value, NEW expr,
         env = [world |-> env.world, user |-> env.user], name \notin Lookups(expr.code)
  PROVE  ValueOf(expr, Stored(env, name, value)) = ValueOf(expr, env)
<1>1. PICK after : after = Stored(env, name, value)
  OBVIOUS
<1>2. /\ after.world = env.world
      /\ after.user = [n \in DOMAIN env.user \cup {name} |-> IF n = name THEN value ELSE env.user[n]]
  BY <1>1 DEF Stored
<1>3. ASSUME NEW n \in Lookups(expr.code)
      PROVE  GetVariable(n, after) = GetVariable(n, env)
  <2>1. n # name
    BY <1>3
  <2>2. n \in DOMAIN after.user <=> n \in DOMAIN env.user
    BY <1>2, <2>1
  <2>3. n \in DOMAIN env.user => after.user[n] = env.user[n]
    BY <1>2, <2>1
  <2> QED BY <1>2, <2>2, <2>3 DEF GetVariable
<1>4. [n \in Lookups(expr.code) |-> GetVariable(n, after)] = [n \in Lookups(expr.code) |-> GetVariable(n, env)]
  BY <1>3
<1> QED
  BY <1>1, <1>4 DEF ValueOf

InOrder(list) ==
  \A i \in 1 .. Len(list) : \A j \in i .. Len(list) :
      /\ list[j].name \notin Lookups(list[i].code)
      /\ j # i => list[j].name # list[i].name

\* After k lines the first k names have the values of their definitions.
Defined(e, k, w, list) ==
  /\ e = [world |-> w, user |-> e.user]
  /\ \A i \in 1 .. k : list[i].name \in DOMAIN e.user /\ e.user[list[i].name] = ValueOf(list[i], e)

LEMMA OneLine ==
  ASSUME NEW list, Len(list) \in Nat, InOrder(list), NEW k \in 1 .. Len(list),
         NEW w, NEW e, Defined(e, k - 1, w, list)
  PROVE  Defined(Evaluate(e, list[k]), k, w, list)
<1> DEFINE name == list[k].name
           value == ValueOf(list[k], e)
<1>1. PICK after : after = Stored(e, name, value)
  OBVIOUS
<1>2. e = [world |-> w, user |-> e.user]
  BY DEF Defined
<1>3. /\ after = [world |-> w, user |-> after.user]
      /\ after.user = [n \in DOMAIN e.user \cup {name} |-> IF n = name THEN value ELSE e.user[n]]
  BY <1>1, <1>2 DEF Stored
<1>4. ASSUME NEW i \in 1 .. k
      PROVE  ValueOf(list[i], after) = ValueOf(list[i], e)
  <2>1. k \in i .. Len(list) /\ i \in 1 .. Len(list)
    OBVIOUS
  <2>2. name \notin Lookups(list[i].code)
    BY <2>1 DEF InOrder
  <2>3. e = [world |-> e.world, user |-> e.user]
    BY <1>2
  <2> HIDE DEF name, value
  <2> QED BY <1>1, <2>2, <2>3, UnseenLine
<1>5. ASSUME NEW i \in 1 .. k
      PROVE  list[i].name \in DOMAIN after.user /\ after.user[list[i].name] = ValueOf(list[i], after)
  <2>1. CASE i = k
    <3>1. after.user[name] = value
      BY <1>3
    <3> QED BY <1>3, <1>4, <2>1, <3>1
  <2>2. CASE i # k
    <3>1. i \in 1 .. k - 1 /\ i \in 1 .. Len(list) /\ k \in i .. Len(list)
      BY <2>2
    <3>2. name # list[i].name
      BY <2>2, <3>1 DEF InOrder
    <3>3. list[i].name \in DOMAIN e.user /\ e.user[list[i].name] = ValueOf(list[i], e)
      BY <3>1 DEF Defined
    <3> HIDE DEF name, value
    <3> QED BY <1>3, <1>4, <3>2, <3>3
  <2> QED BY <2>1, <2>2
<1> HIDE DEF name, value
<1>6. Evaluate(e, list[k]) = after
  BY <1>1 DEF Evaluate, name, value
<1> QED
  BY <1>3, <1>5, <1>6 DEF Defined

LEMMA AllLines ==
  ASSUME NEW list, Len(list) \in Nat, InOrder(list), NEW w, NEW env, env = [world |-> w, user |-> env.user]
  PROVE  Defined(EvaluateAll(env, list), Len(list), w, list)
<1> DEFINE n == Len(list)
<1>1. PICK h : h = CHOOSE g : Evaluations(g, n, env, list)
  OBVIOUS
<1>2. Evaluations(h, n, env, list)
  BY <1>1, EvaluationsExist
<1>3. EvaluateAll(env, list) = h[n]
  BY <1>1, Zenon DEF EvaluateAll, Evaluations
<1>4. h[0] = env /\ \A k \in 1 .. n : h[k] = Evaluate(h[k - 1], list[k])
  <2>1. \A k \in 0 .. n : h[k] = IF k = 0 THEN env ELSE Evaluate(h[k - 1], list[k])
    BY <1>2 DEF Evaluations
  <2> QED BY <2>1
<1>5. Defined(h[n], n, w, list)
  <2> DEFINE T == {k \in 0 .. n : ~Defined(h[k], k, w, list)}
  <2>1. SUFFICES ASSUME T # {} PROVE FALSE
    OBVIOUS
  <2>2. PICK m \in T : \A y \in T : m <= y
    <3>1. T \in SUBSET Nat
      OBVIOUS
    <3> HIDE DEF T
    <3> QED BY <2>1, <3>1, LeastNatural
  <2>3. m # 0
    BY <1>4 DEF Defined
  <2>4. m - 1 \in 0 .. n /\ ~ (m <= m - 1) /\ m \in 1 .. n
    BY <2>3
  <2>5. Defined(h[m - 1], m - 1, w, list)
    BY <2>2, <2>4
  <2>6. Defined(h[m], m, w, list)
    <3>1. h[m] = Evaluate(h[m - 1], list[m])
      BY <1>4, <2>4
    <3> HIDE DEF T
    <3> QED BY <2>4, <2>5, <3>1, OneLine
  <2> QED BY <2>6
<1> QED
  BY <1>3, <1>5

\* The compiled lines are a list, and after an update they hold.
LinkInv ==
  /\ Len(expressions) \in Nat /\ DOMAIN expressions = 1 .. Len(expressions)
  /\ DefinitionsHold

LEMMA LinkStep == LinkInv /\ [LinkNext]_linkVars => LinkInv'
<1> SUFFICES ASSUME LinkInv, [LinkNext]_linkVars PROVE LinkInv'
  OBVIOUS
<1>1. CASE Initialize
  <2>1. Len(cfg') \in Nat
    BY <1>1, LinkAssumption DEF Initialize
  <2>2. Len(expressions') \in Nat /\ DOMAIN expressions' = 1 .. Len(expressions')
    <3>1. PICK lines : lines = cfg'
      OBVIOUS
    <3> QED BY <1>1, <2>1, <3>1, LoadedAreList DEF Initialize
  <2>3. DefinitionsHold'
    BY <1>1 DEF Initialize, DefinitionsHold
  <2> QED BY <2>2, <2>3 DEF LinkInv
<1>2. CASE Update
  <2>1. PICK list : list = expressions
    OBVIOUS
  <2>2. PICK w : w = world'
    OBVIOUS
  <2>3. PICK env : env = [world |-> w, user |-> userVars]
    OBVIOUS
  <2>4. expressions' = list /\ userVars' = EvaluateAll(env, list).user /\ world' = w
    BY <1>2, <2>1, <2>2, <2>3 DEF Update
  <2>5. Len(list) \in Nat /\ DOMAIN list = 1 .. Len(list)
    BY <2>1 DEF LinkInv
  <2>6. ASSUME Ordered', NEW i \in DOMAIN list
        PROVE  userVars'[list[i].name] = ValueOf(list[i], [world |-> w, user |-> userVars'])
    <3>1. InOrder(list)
      BY <2>4, <2>5, <2>6 DEF Ordered, InOrder
    <3>2. PICK done : done = EvaluateAll(env, list)
      OBVIOUS
    <3>3. Defined(done, Len(list), w, list)
      BY <2>3, <2>5, <3>1, <3>2, AllLines
    <3>4. done = [world |-> w, user |-> userVars']
      BY <2>4, <3>2, <3>3 DEF Defined
    <3> QED BY <2>5, <2>6, <3>3, <3>4 DEF Defined
  <2>7. DefinitionsHold'
    BY <2>4, <2>6 DEF DefinitionsHold
  <2> QED BY <2>4, <2>5, <2>7 DEF LinkInv
<1>3. CASE Shutdown
  BY <1>3 DEF Shutdown, LinkInv, DefinitionsHold
<1>4. CASE UNCHANGED linkVars
  BY <1>4 DEF linkVars, LinkInv, DefinitionsHold, Ordered, ValueOf, GetVariable
<1> QED
  BY <1>1, <1>2, <1>3, <1>4 DEF LinkNext

\* Whatever the player's file says and in whatever language, a line that uses
\* the lines above it has, after each update, the value of its definition over
\* the data of that update (ParmLinkCompat::Update, GetVariable).
THEOREM LinksHold == LinkSpec => []DefinitionsHold
<1>1. LinkInit => LinkInv
  BY DEF LinkInit, LinkInv, DefinitionsHold
<1>2. LinkInv => DefinitionsHold
  BY DEF LinkInv
<1> QED
  BY <1>1, <1>2, LinkStep, PTL DEF LinkSpec

-----------------------------------------------------------------------------
(***************************************************************************)
(* What a loop over a list leaves.  Each of these folds is a function of   *)
(* how many elements have been taken; where every step stays in a set, one *)
(* exists and its values are in that set.                                  *)
(***************************************************************************)
LEMMA UpTo ==
  ASSUME NEW n \in Nat, NEW P, 0 \in P, \A k \in 1 .. n : k - 1 \in P => k \in P
  PROVE  \A k \in 0 .. n : k \in P
<1> DEFINE T == {k \in 0 .. n : k \notin P}
<1>1. SUFFICES ASSUME T # {} PROVE FALSE
  OBVIOUS
<1>2. PICK m \in T : \A y \in T : m <= y
  <2>1. T \in SUBSET Nat
    OBVIOUS
  <2> HIDE DEF T
  <2> QED BY <1>1, <2>1, LeastNatural
<1>3. m # 0 /\ m - 1 \in 0 .. n /\ ~ (m <= m - 1) /\ m \in 1 .. n
  BY <1>2
<1>4. m - 1 \in P
  BY <1>2, <1>3
<1> QED
  BY <1>3, <1>4

Chain(h, D, s, n, st) == h \in [0 .. n -> D] /\ h[0] = s /\ \A k \in 1 .. n : h[k] = st[k][h[k - 1]]

\* What a fold leaves at each place is a function of the place.
LEMMA Folding ==
  ASSUME NEW D, NEW s \in D, NEW n \in Nat, NEW st \in [1 .. n -> [D -> D]]
  PROVE  \E h : Chain(h, D, s, n, st)
<1> DEFINE Good(h, m) == h[0] = s /\ \A k \in 1 .. m : h[k] = st[k][h[k - 1]]
           P == {m \in 0 .. n : \E h \in [0 .. m -> D] : Good(h, m)}
<1>1. 0 \in P
  <2>1. [k \in 0 .. 0 |-> s] \in [0 .. 0 -> D] /\ Good([k \in 0 .. 0 |-> s], 0)
    OBVIOUS
  <2> HIDE DEF Good
  <2> QED BY <2>1
<1>2. ASSUME NEW k \in 1 .. n, k - 1 \in P PROVE k \in P
  <2>1. PICK h \in [0 .. k - 1 -> D] : Good(h, k - 1)
    BY <1>2
  <2> DEFINE g == [j \in 0 .. k |-> IF j = k THEN st[k][h[k - 1]] ELSE h[j]]
  <2>2. h[k - 1] \in D /\ st[k][h[k - 1]] \in D
    BY <2>1
  <2>3. g \in [0 .. k -> D]
    BY <2>1, <2>2
  <2>4. Good(g, k)
    <3>1. g[0] = s
      BY <2>1
    <3>2. ASSUME NEW j \in 1 .. k PROVE g[j] = st[j][g[j - 1]]
      <4>1. j - 1 \in 0 .. k /\ j - 1 # k
        OBVIOUS
      <4>2. g[j - 1] = h[j - 1]
        BY <4>1
      <4>3. CASE j = k
        BY <4>2, <4>3
      <4>4. CASE j # k
        <5>1. j \in 1 .. k - 1 /\ g[j] = h[j]
          BY <4>4
        <5> QED BY <2>1, <4>2, <5>1
      <4> QED BY <4>3, <4>4
    <3> QED BY <3>1, <3>2
  <2> HIDE DEF g, Good
  <2> QED BY <2>3, <2>4
<1>3. \A k \in 0 .. n : k \in P
  <2> HIDE DEF P
  <2> QED BY <1>1, <1>2, UpTo
<1>4. n \in P
  <2> HIDE DEF P
  <2> QED BY <1>3
<1> QED
  BY <1>4 DEF Chain

Alike(g, h, n) == g[0] = h[0] /\ \A k \in 1 .. n : g[k - 1] = h[k - 1] => g[k] = h[k]
Same(g, h, n) == \A k \in 0 .. n : g[k] = h[k]

\* Two folds that start alike and step alike are the same.
LEMMA SameHistory ==
  ASSUME NEW n \in Nat, NEW g, NEW h, Alike(g, h, n)
  PROVE  Same(g, h, n)
<1> DEFINE P == {k \in 0 .. n : g[k] = h[k]}
<1>1. 0 \in P /\ \A k \in 1 .. n : k - 1 \in P => k \in P
  BY DEF Alike
<1>2. \A k \in 0 .. n : k \in P
  <2> HIDE DEF P
  <2> QED BY <1>1, UpTo
<1> QED
  BY <1>2 DEF Same

\* ParseText, line by line.
TextHistory(h, n, text) == h = [k \in 0 .. n |-> IF k = 0 THEN <<>> ELSE ParseLine(h[k - 1], text[k])]

\* A function that follows the lines ends with what ParseText returns.
LEMMA TextIs ==
  ASSUME NEW text, NEW n \in Nat, n = Len(text), NEW g, TextHistory(g, n, text)
  PROVE  ParseText(text) = g[n]
<1>0. g[0] = <<>> /\ \A k \in 1 .. n : g[k] = ParseLine(g[k - 1], text[k])
  <2>1. \A k \in 0 .. n : g[k] = IF k = 0 THEN <<>> ELSE ParseLine(g[k - 1], text[k])
    BY DEF TextHistory
  <2> QED BY <2>1
<1>5. PICK h : h = CHOOSE x : TextHistory(x, n, text)
  OBVIOUS
<1>6. TextHistory(h, n, text)
  BY <1>5
<1>7. h[0] = <<>> /\ \A k \in 1 .. n : h[k] = ParseLine(h[k - 1], text[k])
  <2>1. \A k \in 0 .. n : h[k] = IF k = 0 THEN <<>> ELSE ParseLine(h[k - 1], text[k])
    BY <1>6 DEF TextHistory
  <2> QED BY <2>1
<1>8. Same(g, h, n)
  <2>1. g[0] = h[0]
    BY <1>0, <1>7
  <2>2. \A k \in 1 .. n : g[k - 1] = h[k - 1] => g[k] = h[k]
    BY <1>0, <1>7
  <2>3. Alike(g, h, n)
    BY <2>1, <2>2 DEF Alike
  <2> QED BY <2>3, SameHistory
<1>9. ParseText(text) = h[n]
  BY <1>5, Zenon DEF ParseText, TextHistory
<1>10. g[n] = h[n]
  BY <1>8 DEF Same
<1> QED
  BY <1>9, <1>10

TextStays(D, n, text) == <<>> \in D /\ \A d \in D : \A k \in 1 .. n : ParseLine(d, text[k]) \in D
TextRun(g, D, n, text) ==
  /\ g \in [0 .. n -> D] /\ g[0] = <<>> /\ ParseText(text) = g[n]
  /\ \A k \in 1 .. n : g[k] = ParseLine(g[k - 1], text[k])

\* There is one, and what every line keeps holds of it throughout.
LEMMA TextFold ==
  ASSUME NEW D, NEW text, NEW n \in Nat, n = Len(text), TextStays(D, n, text)
  PROVE  \E g : TextRun(g, D, n, text)
<1> DEFINE st == [k \in 1 .. n |-> [d \in D |-> ParseLine(d, text[k])]]
<1>1. st \in [1 .. n -> [D -> D]]
  BY DEF TextStays
<1>20. PICK g : Chain(g, D, <<>>, n, st)
  <2>1. <<>> \in D
    BY DEF TextStays
  <2> HIDE DEF st
  <2> QED BY <1>1, <2>1, Folding
<1>2. g \in [0 .. n -> D] /\ g[0] = <<>> /\ \A k \in 1 .. n : g[k] = st[k][g[k - 1]]
  <2> HIDE DEF st
  <2> QED BY <1>20 DEF Chain
<1>3. ASSUME NEW k \in 1 .. n PROVE g[k] = ParseLine(g[k - 1], text[k])
  <2>1. g[k - 1] \in D
    <3>1. k - 1 \in 0 .. n
      OBVIOUS
    <3> HIDE DEF st
    <3> QED BY <1>2, <3>1
  <2>2. st[k][g[k - 1]] = ParseLine(g[k - 1], text[k])
    BY <2>1
  <2> HIDE DEF st
  <2> QED BY <1>2, <2>2
<1> HIDE DEF st
<1>4. TextHistory(g, n, text)
  <2>1. g = [k \in 0 .. n |-> g[k]]
    BY <1>2
  <2>2. ASSUME NEW k \in 0 .. n PROVE g[k] = IF k = 0 THEN <<>> ELSE ParseLine(g[k - 1], text[k])
    <3>1. CASE k = 0
      BY <1>2, <3>1, Zenon
    <3>2. CASE k # 0
      <4>1. k \in 1 .. n
        BY <3>2
      <4> QED BY <1>3, <3>2, <4>1, Zenon
    <3> QED BY <3>1, <3>2
  <2> QED BY <2>1, <2>2 DEF TextHistory
<1>5. ParseText(text) = g[n]
  BY <1>4, TextIs
<1> QED
  BY <1>2, <1>3, <1>5 DEF TextRun

\* Pieces, token by token.
PieceHistory(h, n, tokens, kind) == h = [k \in 0 .. n |-> IF k = 0 THEN <<<<>>>> ELSE PieceToken(h[k - 1], tokens[k], kind)]

LEMMA PieceIs ==
  ASSUME NEW tokens, NEW kind, NEW n \in Nat, n = Len(tokens), NEW g, PieceHistory(g, n, tokens, kind)
  PROVE  Pieces(tokens, kind) = g[n]
<1>0. g[0] = <<<<>>>> /\ \A k \in 1 .. n : g[k] = PieceToken(g[k - 1], tokens[k], kind)
  <2>1. \A k \in 0 .. n : g[k] = IF k = 0 THEN <<<<>>>> ELSE PieceToken(g[k - 1], tokens[k], kind)
    BY DEF PieceHistory
  <2> QED BY <2>1
<1>5. PICK h : h = CHOOSE x : PieceHistory(x, n, tokens, kind)
  OBVIOUS
<1>6. PieceHistory(h, n, tokens, kind)
  BY <1>5
<1>7. h[0] = <<<<>>>> /\ \A k \in 1 .. n : h[k] = PieceToken(h[k - 1], tokens[k], kind)
  <2>1. \A k \in 0 .. n : h[k] = IF k = 0 THEN <<<<>>>> ELSE PieceToken(h[k - 1], tokens[k], kind)
    BY <1>6 DEF PieceHistory
  <2> QED BY <2>1
<1>8. Same(g, h, n)
  <2>1. g[0] = h[0]
    BY <1>0, <1>7
  <2>2. \A k \in 1 .. n : g[k - 1] = h[k - 1] => g[k] = h[k]
    BY <1>0, <1>7
  <2>3. Alike(g, h, n)
    BY <2>1, <2>2 DEF Alike
  <2> QED BY <2>3, SameHistory
<1>9. Pieces(tokens, kind) = h[n]
  BY <1>5, Zenon DEF Pieces, PieceHistory
<1>10. g[n] = h[n]
  BY <1>8 DEF Same
<1> QED
  BY <1>9, <1>10

PieceStays(D, n, tokens, kind) == <<<<>>>> \in D /\ \A d \in D : \A k \in 1 .. n : PieceToken(d, tokens[k], kind) \in D
PieceRun(g, D, n, tokens, kind) ==
  /\ g \in [0 .. n -> D] /\ g[0] = <<<<>>>> /\ Pieces(tokens, kind) = g[n]
  /\ \A k \in 1 .. n : g[k] = PieceToken(g[k - 1], tokens[k], kind)

LEMMA PieceFold ==
  ASSUME NEW D, NEW tokens, NEW kind, NEW n \in Nat, n = Len(tokens), PieceStays(D, n, tokens, kind)
  PROVE  \E g : PieceRun(g, D, n, tokens, kind)
<1> DEFINE st == [k \in 1 .. n |-> [d \in D |-> PieceToken(d, tokens[k], kind)]]
<1>1. st \in [1 .. n -> [D -> D]]
  BY DEF PieceStays
<1>20. PICK g : Chain(g, D, <<<<>>>>, n, st)
  <2>1. <<<<>>>> \in D
    BY DEF PieceStays
  <2> HIDE DEF st
  <2> QED BY <1>1, <2>1, Folding
<1>2. g \in [0 .. n -> D] /\ g[0] = <<<<>>>> /\ \A k \in 1 .. n : g[k] = st[k][g[k - 1]]
  <2> HIDE DEF st
  <2> QED BY <1>20 DEF Chain
<1>3. ASSUME NEW k \in 1 .. n PROVE g[k] = PieceToken(g[k - 1], tokens[k], kind)
  <2>1. g[k - 1] \in D
    <3>1. k - 1 \in 0 .. n
      OBVIOUS
    <3> HIDE DEF st
    <3> QED BY <1>2, <3>1
  <2>2. st[k][g[k - 1]] = PieceToken(g[k - 1], tokens[k], kind)
    BY <2>1
  <2> HIDE DEF st
  <2> QED BY <1>2, <2>2
<1> HIDE DEF st
<1>4. PieceHistory(g, n, tokens, kind)
  <2>1. g = [k \in 0 .. n |-> g[k]]
    BY <1>2
  <2>2. ASSUME NEW k \in 0 .. n PROVE g[k] = IF k = 0 THEN <<<<>>>> ELSE PieceToken(g[k - 1], tokens[k], kind)
    <3>1. CASE k = 0
      BY <1>2, <3>1, Zenon
    <3>2. CASE k # 0
      <4>1. k \in 1 .. n
        BY <3>2
      <4> QED BY <1>3, <3>2, <4>1, Zenon
    <3> QED BY <3>1, <3>2
  <2> QED BY <2>1, <2>2 DEF PieceHistory
<1>5. Pieces(tokens, kind) = g[n]
  BY <1>4, PieceIs
<1> QED
  BY <1>2, <1>3, <1>5 DEF PieceRun

SelectNext(list, places, d, k) == IF k \in places THEN Append(d, list[k]) ELSE d

\* Selected, place by place.
SelectionHistory(h, n, list, places) == h = [k \in 0 .. n |-> IF k = 0 THEN <<>> ELSE SelectNext(list, places, h[k - 1], k)]

LEMMA SelectionIs ==
  ASSUME NEW list, NEW places, NEW n \in Nat, n = Len(list), NEW g, SelectionHistory(g, n, list, places)
  PROVE  Selected(list, places) = g[n]
<1>0. g[0] = <<>> /\ \A k \in 1 .. n : g[k] = SelectNext(list, places, g[k - 1], k)
  <2>1. \A k \in 0 .. n : g[k] = IF k = 0 THEN <<>> ELSE SelectNext(list, places, g[k - 1], k)
    BY DEF SelectionHistory
  <2> QED BY <2>1
<1>5. PICK h : h = CHOOSE x : SelectionHistory(x, n, list, places)
  OBVIOUS
<1>6. SelectionHistory(h, n, list, places)
  BY <1>5
<1>7. h[0] = <<>> /\ \A k \in 1 .. n : h[k] = SelectNext(list, places, h[k - 1], k)
  <2>1. \A k \in 0 .. n : h[k] = IF k = 0 THEN <<>> ELSE SelectNext(list, places, h[k - 1], k)
    BY <1>6 DEF SelectionHistory
  <2> QED BY <2>1
<1>8. Same(g, h, n)
  <2>1. g[0] = h[0]
    BY <1>0, <1>7
  <2>2. \A k \in 1 .. n : g[k - 1] = h[k - 1] => g[k] = h[k]
    BY <1>0, <1>7
  <2>3. Alike(g, h, n)
    BY <2>1, <2>2 DEF Alike
  <2> QED BY <2>3, SameHistory
<1>9. Selected(list, places) = h[n]
  BY <1>5, Zenon DEF Selected, SelectionHistory, SelectNext
<1>10. g[n] = h[n]
  BY <1>8 DEF Same
<1> QED
  BY <1>9, <1>10

SelectionStays(D, n, list, places) == <<>> \in D /\ \A d \in D : \A k \in 1 .. n : SelectNext(list, places, d, k) \in D
SelectionRun(g, D, n, list, places) ==
  /\ g \in [0 .. n -> D] /\ g[0] = <<>> /\ Selected(list, places) = g[n]
  /\ \A k \in 1 .. n : g[k] = SelectNext(list, places, g[k - 1], k)

LEMMA SelectionFold ==
  ASSUME NEW D, NEW list, NEW places, NEW n \in Nat, n = Len(list), SelectionStays(D, n, list, places)
  PROVE  \E g : SelectionRun(g, D, n, list, places)
<1> DEFINE st == [k \in 1 .. n |-> [d \in D |-> SelectNext(list, places, d, k)]]
<1>1. st \in [1 .. n -> [D -> D]]
  BY DEF SelectionStays
<1>20. PICK g : Chain(g, D, <<>>, n, st)
  <2>1. <<>> \in D
    BY DEF SelectionStays
  <2> HIDE DEF st
  <2> QED BY <1>1, <2>1, Folding
<1>2. g \in [0 .. n -> D] /\ g[0] = <<>> /\ \A k \in 1 .. n : g[k] = st[k][g[k - 1]]
  <2> HIDE DEF st
  <2> QED BY <1>20 DEF Chain
<1>3. ASSUME NEW k \in 1 .. n PROVE g[k] = SelectNext(list, places, g[k - 1], k)
  <2>1. g[k - 1] \in D
    <3>1. k - 1 \in 0 .. n
      OBVIOUS
    <3> HIDE DEF st
    <3> QED BY <1>2, <3>1
  <2>2. st[k][g[k - 1]] = SelectNext(list, places, g[k - 1], k)
    BY <2>1
  <2> HIDE DEF st
  <2> QED BY <1>2, <2>2
<1> HIDE DEF st
<1>4. SelectionHistory(g, n, list, places)
  <2>1. g = [k \in 0 .. n |-> g[k]]
    BY <1>2
  <2>2. ASSUME NEW k \in 0 .. n PROVE g[k] = IF k = 0 THEN <<>> ELSE SelectNext(list, places, g[k - 1], k)
    <3>1. CASE k = 0
      BY <1>2, <3>1, Zenon
    <3>2. CASE k # 0
      <4>1. k \in 1 .. n
        BY <3>2
      <4> QED BY <1>3, <3>2, <4>1, Zenon
    <3> QED BY <3>1, <3>2
  <2> QED BY <2>1, <2>2 DEF SelectionHistory
<1>5. Selected(list, places) = g[n]
  BY <1>4, SelectionIs
<1> QED
  BY <1>2, <1>3, <1>5 DEF SelectionRun

\* EmitIDs, one after the other.
IDHistory(h, n, nums) == h = [k \in 0 .. n |-> IF k = 0 THEN <<>> ELSE JoinID(h[k - 1], nums[k])]

LEMMA IDIs ==
  ASSUME NEW nums, NEW n \in Nat, n = Len(nums), NEW g, IDHistory(g, n, nums)
  PROVE  EmitIDs(nums) = g[n]
<1>0. g[0] = <<>> /\ \A k \in 1 .. n : g[k] = JoinID(g[k - 1], nums[k])
  <2>1. \A k \in 0 .. n : g[k] = IF k = 0 THEN <<>> ELSE JoinID(g[k - 1], nums[k])
    BY DEF IDHistory
  <2> QED BY <2>1
<1>5. PICK h : h = CHOOSE x : IDHistory(x, n, nums)
  OBVIOUS
<1>6. IDHistory(h, n, nums)
  BY <1>5
<1>7. h[0] = <<>> /\ \A k \in 1 .. n : h[k] = JoinID(h[k - 1], nums[k])
  <2>1. \A k \in 0 .. n : h[k] = IF k = 0 THEN <<>> ELSE JoinID(h[k - 1], nums[k])
    BY <1>6 DEF IDHistory
  <2> QED BY <2>1
<1>8. Same(g, h, n)
  <2>1. g[0] = h[0]
    BY <1>0, <1>7
  <2>2. \A k \in 1 .. n : g[k - 1] = h[k - 1] => g[k] = h[k]
    BY <1>0, <1>7
  <2>3. Alike(g, h, n)
    BY <2>1, <2>2 DEF Alike
  <2> QED BY <2>3, SameHistory
<1>9. EmitIDs(nums) = h[n]
  BY <1>5, Zenon DEF EmitIDs, IDHistory
<1>10. g[n] = h[n]
  BY <1>8 DEF Same
<1> QED
  BY <1>9, <1>10

IDStays(D, n, nums) == <<>> \in D /\ \A d \in D : \A k \in 1 .. n : JoinID(d, nums[k]) \in D
IDRun(g, D, n, nums) ==
  /\ g \in [0 .. n -> D] /\ g[0] = <<>> /\ EmitIDs(nums) = g[n]
  /\ \A k \in 1 .. n : g[k] = JoinID(g[k - 1], nums[k])

LEMMA IDFold ==
  ASSUME NEW D, NEW nums, NEW n \in Nat, n = Len(nums), IDStays(D, n, nums)
  PROVE  \E g : IDRun(g, D, n, nums)
<1> DEFINE st == [k \in 1 .. n |-> [d \in D |-> JoinID(d, nums[k])]]
<1>1. st \in [1 .. n -> [D -> D]]
  BY DEF IDStays
<1>20. PICK g : Chain(g, D, <<>>, n, st)
  <2>1. <<>> \in D
    BY DEF IDStays
  <2> HIDE DEF st
  <2> QED BY <1>1, <2>1, Folding
<1>2. g \in [0 .. n -> D] /\ g[0] = <<>> /\ \A k \in 1 .. n : g[k] = st[k][g[k - 1]]
  <2> HIDE DEF st
  <2> QED BY <1>20 DEF Chain
<1>3. ASSUME NEW k \in 1 .. n PROVE g[k] = JoinID(g[k - 1], nums[k])
  <2>1. g[k - 1] \in D
    <3>1. k - 1 \in 0 .. n
      OBVIOUS
    <3> HIDE DEF st
    <3> QED BY <1>2, <3>1
  <2>2. st[k][g[k - 1]] = JoinID(g[k - 1], nums[k])
    BY <2>1
  <2> HIDE DEF st
  <2> QED BY <1>2, <2>2
<1> HIDE DEF st
<1>4. IDHistory(g, n, nums)
  <2>1. g = [k \in 0 .. n |-> g[k]]
    BY <1>2
  <2>2. ASSUME NEW k \in 0 .. n PROVE g[k] = IF k = 0 THEN <<>> ELSE JoinID(g[k - 1], nums[k])
    <3>1. CASE k = 0
      BY <1>2, <3>1, Zenon
    <3>2. CASE k # 0
      <4>1. k \in 1 .. n
        BY <3>2
      <4> QED BY <1>3, <3>2, <4>1, Zenon
    <3> QED BY <3>1, <3>2
  <2> QED BY <2>1, <2>2 DEF IDHistory
<1>5. EmitIDs(nums) = g[n]
  BY <1>4, IDIs
<1> QED
  BY <1>2, <1>3, <1>5 DEF IDRun

-----------------------------------------------------------------------------
(* Tokens: where a line is split. *)

LEMMA LeastPlace ==
  ASSUME NEW S, NEW s \in Seq(S), NEW kind, Has(s, kind)
  PROVE  /\ At(s, kind) \in 1 .. Len(s) /\ s[At(s, kind)][1] = kind
         /\ \A j \in 1 .. Len(s) : s[j][1] = kind => At(s, kind) <= j
<1> DEFINE T == {i \in DOMAIN s : s[i][1] = kind}
<1>1. T \in SUBSET Nat /\ T # {}
  BY DEF Has
<1>2. \E x \in T : \A y \in T : x <= y
  <2> HIDE DEF T
  <2> QED BY <1>1, LeastNatural
<1>3. At(s, kind) \in T /\ \A y \in T : At(s, kind) <= y
  <2>1. At(s, kind) = CHOOSE x \in T : \A y \in T : x <= y
    BY Zenon DEF At, Min
  <2> HIDE DEF T
  <2> QED BY <1>2, <2>1
<1>4. DOMAIN s = 1 .. Len(s)
  OBVIOUS
<1> QED
  BY <1>3, <1>4

\* What is before a separator has none of its kind.
LEMMA SplitIs ==
  ASSUME NEW S, NEW s \in Seq(S), NEW kind
  PROVE  Before(s, kind) \in Seq(S) /\ ~Has(Before(s, kind), kind) /\ After(s, kind) \in Seq(S)
<1>1. CASE ~Has(s, kind)
  BY <1>1 DEF Before, After
<1>2. CASE Has(s, kind)
  <2>1. PICK at : at = At(s, kind)
    OBVIOUS
  <2>2. at \in 1 .. Len(s) /\ \A j \in 1 .. Len(s) : s[j][1] = kind => at <= j
    BY <1>2, <2>1, LeastPlace
  <2>3. Before(s, kind) = SubSeq(s, 1, at - 1) /\ After(s, kind) = SubSeq(s, at + 1, Len(s))
    BY <1>2, <2>1 DEF Before, After
  <2>4. \A j \in 1 .. at - 1 : s[j][1] # kind
    BY <2>2
  <2>5. SubSeq(s, 1, at - 1) \in Seq(S) /\ SubSeq(s, at + 1, Len(s)) \in Seq(S)
    BY <2>2
  <2>6. DOMAIN SubSeq(s, 1, at - 1) = 1 .. at - 1 /\ \A j \in 1 .. at - 1 : SubSeq(s, 1, at - 1)[j] = s[j]
    BY <2>2
  <2> QED BY <2>3, <2>4, <2>5, <2>6 DEF Has
<1> QED
  BY <1>1, <1>2

\* A line that is joined at a separator which is not in its first part
\* is split there again.
LEMMA SplitFirst ==
  ASSUME NEW S, NEW s \in Seq(S), NEW t \in Seq(S), NEW x \in S, ~Has(s, x[1])
  PROVE  /\ Has(s \o <<x>> \o t, x[1])
         /\ Before(s \o <<x>> \o t, x[1]) = s /\ After(s \o <<x>> \o t, x[1]) = t
<1>1. PICK w : w = s \o <<x>> \o t
  OBVIOUS
<1>2. /\ w \in Seq(S) /\ Len(w) = Len(s) + 1 + Len(t) /\ w[Len(s) + 1] = x
      /\ \A j \in 1 .. Len(s) : w[j] = s[j]
  BY <1>1
<1>3. \A j \in 1 .. Len(s) : w[j][1] # x[1]
  BY <1>2 DEF Has
<1>4. DOMAIN w = 1 .. Len(w) /\ Len(s) \in Nat /\ Len(t) \in Nat
  BY <1>2
<1>5. Has(w, x[1])
  BY <1>2, <1>4 DEF Has
<1>6. PICK at : at = At(w, x[1])
  OBVIOUS
<1>7. /\ at \in 1 .. Len(w) /\ w[at][1] = x[1]
      /\ \A j \in 1 .. Len(w) : w[j][1] = x[1] => at <= j
  BY <1>2, <1>5, <1>6, LeastPlace
<1>8. at = Len(s) + 1
  <2>1. Len(s) + 1 \in 1 .. Len(w)
    BY <1>2, <1>4
  <2>2. at <= Len(s) + 1
    BY <1>2, <1>7, <2>1
  <2>3. at \notin 1 .. Len(s)
    BY <1>3, <1>7
  <2> QED BY <1>4, <1>7, <2>2, <2>3
<1>9. SubSeq(w, 1, Len(s)) = s /\ SubSeq(w, Len(s) + 2, Len(w)) = t
  <2>1. SubSeq(w, 1, Len(s)) = s
    BY <1>2, <1>4
  <2>2. /\ SubSeq(w, Len(s) + 2, Len(w)) \in Seq(S) /\ Len(SubSeq(w, Len(s) + 2, Len(w))) = Len(t)
        /\ \A j \in 1 .. Len(t) : SubSeq(w, Len(s) + 2, Len(w))[j] = w[Len(s) + 1 + j]
    BY <1>2, <1>4
  <2>3. \A j \in 1 .. Len(t) : w[Len(s) + 1 + j] = t[j]
    BY <1>1
  <2> QED BY <2>1, <2>2, <2>3
<1>10. Before(w, x[1]) = SubSeq(w, 1, at - 1) /\ After(w, x[1]) = SubSeq(w, at + 1, Len(w))
  BY <1>5, <1>6 DEF Before, After
<1>11. at - 1 = Len(s) /\ at + 1 = Len(s) + 2
  BY <1>4, <1>8
<1> QED
  BY <1>1, <1>5, <1>9, <1>10, <1>11

LEMMA HasJoin ==
  ASSUME NEW S, NEW s \in Seq(S), NEW t \in Seq(S), NEW kind
  PROVE  Has(s \o t, kind) <=> Has(s, kind) \/ Has(t, kind)
<1>1. PICK w : w = s \o t
  OBVIOUS
<1>2. /\ w \in Seq(S) /\ Len(w) = Len(s) + Len(t)
      /\ \A j \in 1 .. Len(s) : w[j] = s[j]
      /\ \A j \in 1 .. Len(t) : w[Len(s) + j] = t[j]
  BY <1>1
<1>3. /\ DOMAIN w = 1 .. Len(w) /\ DOMAIN s = 1 .. Len(s) /\ DOMAIN t = 1 .. Len(t)
      /\ Len(s) \in Nat /\ Len(t) \in Nat
  BY <1>2
<1>4. \A j \in 1 .. Len(w) : j \in 1 .. Len(s) \/ (j - Len(s) \in 1 .. Len(t) /\ j = Len(s) + (j - Len(s)))
  BY <1>2, <1>3
<1>5. ASSUME NEW j \in DOMAIN w, w[j][1] = kind PROVE Has(s, kind) \/ Has(t, kind)
  <2>1. CASE j \in 1 .. Len(s)
    <3>1. s[j][1] = kind
      BY <1>2, <1>5, <2>1
    <3> QED BY <1>3, <2>1, <3>1 DEF Has
  <2>2. CASE j \notin 1 .. Len(s)
    <3>1. PICK i \in 1 .. Len(t) : j = Len(s) + i
      BY <1>3, <1>4, <2>2
    <3>2. t[i][1] = kind
      BY <1>2, <1>5, <3>1
    <3> QED BY <1>3, <3>2 DEF Has
  <2> QED BY <2>1, <2>2
<1>6. ASSUME NEW j \in DOMAIN s, s[j][1] = kind PROVE Has(w, kind)
  <2>1. j \in DOMAIN w /\ w[j] = s[j]
    BY <1>2, <1>3
  <2> QED BY <1>6, <2>1 DEF Has
<1>7. ASSUME NEW j \in DOMAIN t, t[j][1] = kind PROVE Has(w, kind)
  <2>1. Len(s) + j \in DOMAIN w /\ w[Len(s) + j] = t[j]
    BY <1>2, <1>3
  <2> QED BY <1>7, <2>1 DEF Has
<1> QED
  BY <1>1, <1>5, <1>6, <1>7 DEF Has

LEMMA SeqGrows ==
  ASSUME NEW S, NEW E, S \subseteq E, NEW s \in Seq(S)
  PROVE  s \in Seq(E)
OBVIOUS

\* A selection has the elements of its places; all places give the list.
LEMMA SelectedIs ==
  ASSUME NEW S, NEW list \in Seq(S), NEW places, NEW T,
         \A k \in 1 .. Len(list) : k \in places => list[k] \in T
  PROVE  Selected(list, places) \in Seq(T)
<1>1. PICK n \in Nat : n = Len(list)
  OBVIOUS
<1>2. <<>> \in Seq(T)
  OBVIOUS
<1>3. ASSUME NEW d \in Seq(T), NEW k \in 1 .. n PROVE SelectNext(list, places, d, k) \in Seq(T)
  <2>1. CASE k \in places
    <3>1. list[k] \in T
      BY <1>1, <2>1
    <3>2. Append(d, list[k]) \in Seq(T)
      BY <3>1, AppendStays
    <3> QED BY <2>1, <3>2 DEF SelectNext
  <2>2. CASE k \notin places
    BY <2>2 DEF SelectNext
  <2> QED BY <2>1, <2>2
<1>4. PICK D : D = Seq(T)
  OBVIOUS
<1>5. SelectionStays(D, n, list, places)
  BY <1>2, <1>3, <1>4 DEF SelectionStays
<1>6. PICK g : SelectionRun(g, D, n, list, places)
  BY <1>1, <1>5, SelectionFold
<1>7. n \in 0 .. n
  OBVIOUS
<1> QED
  BY <1>4, <1>6, <1>7 DEF SelectionRun

LEMMA SelectedAll ==
  ASSUME NEW S, NEW list \in Seq(S), NEW places, \A k \in 1 .. Len(list) : k \in places
  PROVE  Selected(list, places) = list
<1>1. PICK n \in Nat : n = Len(list)
  OBVIOUS
<1>2. <<>> \in Seq(S)
  OBVIOUS
<1>3. ASSUME NEW d \in Seq(S), NEW k \in 1 .. n
      PROVE  SelectNext(list, places, d, k) \in Seq(S) /\ SelectNext(list, places, d, k) = Append(d, list[k])
  <2>1. list[k] \in S /\ k \in places
    BY <1>1
  <2>2. Append(d, list[k]) \in Seq(S)
    BY <2>1, AppendStays
  <2> QED BY <2>1, <2>2 DEF SelectNext
<1>4. PICK D : D = Seq(S)
  OBVIOUS
<1>5. SelectionStays(D, n, list, places)
  BY <1>2, <1>3, <1>4 DEF SelectionStays
<1>60. PICK g : SelectionRun(g, D, n, list, places)
  BY <1>1, <1>5, SelectionFold
<1>6. /\ g \in [0 .. n -> D] /\ g[0] = <<>> /\ Selected(list, places) = g[n]
      /\ \A k \in 1 .. n : g[k] = SelectNext(list, places, g[k - 1], k)
  BY <1>60 DEF SelectionRun
<1> DEFINE P == {k \in 0 .. n : g[k] = SubSeq(list, 1, k)}
<1>7. 0 \in P
  <2>1. SubSeq(list, 1, 0) = <<>>
    OBVIOUS
  <2>2. g[0] = SubSeq(list, 1, 0) /\ 0 \in 0 .. n
    BY <1>6, <2>1
  <2> QED BY <2>2
<1>8. ASSUME NEW k \in 1 .. n, k - 1 \in P PROVE k \in P
  <2>1. k - 1 \in 0 .. n /\ g[k - 1] = SubSeq(list, 1, k - 1) /\ g[k - 1] \in Seq(S)
    BY <1>4, <1>6, <1>8
  <2>2. g[k] = Append(SubSeq(list, 1, k - 1), list[k])
    BY <1>3, <1>6, <2>1
  <2>3. Append(SubSeq(list, 1, k - 1), list[k]) = SubSeq(list, 1, k)
    BY <1>1
  <2>4. g[k] = SubSeq(list, 1, k) /\ k \in 0 .. n
    BY <2>2, <2>3
  <2> QED BY <2>4
<1>9. \A k \in 0 .. n : k \in P
  <2> HIDE DEF P
  <2> QED BY <1>7, <1>8, UpTo
<1>10. g[n] = SubSeq(list, 1, n)
  BY <1>9
<1>11. SubSeq(list, 1, n) = list
  BY <1>1
<1> QED
  BY <1>6, <1>10, <1>11

-----------------------------------------------------------------------------
(* Identifiers: what is written of a list, and what is read of that. *)

Joined(e, nums, k) ==
  /\ Len(e) = IF k = 0 THEN 0 ELSE 2 * k - 1
  /\ \A i \in 1 .. k : e[2 * i - 1] = Number(nums[i])
  /\ \A i \in 1 .. k - 1 : e[2 * i] = Sign("comma")
Tokens(E, nums, n) == Sign("comma") \in E /\ \A k \in 1 .. n : Number(nums[k]) \in E
Numbers(nums, k) == [i \in 1 .. k |-> <<Number(nums[i])>>]

LEMMA JoinStays ==
  ASSUME NEW E, Sign("comma") \in E, NEW x, Number(x) \in E, NEW d \in Seq(E)
  PROVE  /\ JoinID(d, x) \in Seq(E)
         /\ d = <<>> => JoinID(d, x) = <<Number(x)>>
         /\ d # <<>> => JoinID(d, x) = Append(Append(d, Sign("comma")), Number(x))
<1>1. <<Number(x)>> \in Seq(E) /\ <<>> \in Seq(E) /\ <<>> \o <<Number(x)>> = <<Number(x)>>
  OBVIOUS
<1>2. PICK c : c = Append(d, Sign("comma"))
  OBVIOUS
<1>3. c \in Seq(E)
  BY <1>2, AppendStays
<1>4. c \o <<Number(x)>> = Append(c, Number(x)) /\ Append(c, Number(x)) \in Seq(E)
  BY <1>3, AppendStays
<1> QED
  BY <1>1, <1>2, <1>4 DEF JoinID

LEMMA AppendTwo ==
  ASSUME NEW E, NEW d \in Seq(E), NEW c \in E, NEW x \in E, NEW e, e = Append(Append(d, c), x)
  PROVE  /\ Len(e) = Len(d) + 2 /\ e[Len(d) + 1] = c /\ e[Len(d) + 2] = x
         /\ \A j \in 1 .. Len(d) : e[j] = d[j]
<1>1. PICK b : b = Append(d, c)
  OBVIOUS
<1>2. b \in Seq(E) /\ Len(b) = Len(d) + 1 /\ b[Len(d) + 1] = c /\ \A j \in 1 .. Len(d) : b[j] = d[j]
  BY <1>1
<1>3. e = Append(b, x)
  BY <1>1
<1> QED
  BY <1>2, <1>3

LEMMA Places ==
  ASSUME NEW k \in Int, k >= 2
  PROVE  /\ 2 * k - 3 + 1 = 2 * k - 2 /\ 2 * k - 3 + 2 = 2 * k - 1 /\ k - 1 # 0 /\ 2 * (k - 1) - 1 = 2 * k - 3
         /\ \A i \in 1 .. k : i = k \/ (i \in 1 .. k - 1 /\ 2 * i - 1 \in 1 .. 2 * k - 3)
         /\ \A i \in 1 .. k - 1 : 2 * i = 2 * k - 2 \/ (i \in 1 .. k - 1 - 1 /\ 2 * i \in 1 .. 2 * k - 3)
OBVIOUS

\* A further identifier is written after a comma.
LEMMA JoinedNext ==
  ASSUME NEW E, Sign("comma") \in E, NEW nums, NEW k \in Nat, NEW m \in Nat, k = m + 1,
         Number(nums[k]) \in E, NEW d \in Seq(E), Joined(d, nums, m)
  PROVE  Joined(JoinID(d, nums[k]), nums, k)
<1>1. PICK x : x = Number(nums[k])
  OBVIOUS
<1>2. PICK c : c = Sign("comma")
  OBVIOUS
<1>3. CASE k = 1
  <2>1. d = <<>>
    BY <1>3 DEF Joined
  <2>2. JoinID(d, nums[k]) = <<x>>
    BY <1>1, <2>1, JoinStays
  <2>3. Len(<<x>>) = 1 /\ <<x>>[1] = x
    OBVIOUS
  <2>4. k = 1 /\ 2 * 1 - 1 = 1 /\ (\A i \in 1 .. 1 : i = 1) /\ 1 .. 1 - 1 = {}
    BY <1>3
  <2>5. Joined(<<x>>, nums, 1)
    BY <1>1, <1>3, <2>3, <2>4 DEF Joined
  <2> QED BY <2>2, <2>4, <2>5
<1>4. CASE k # 1
  <2>0. k \in Int /\ k >= 2 /\ k # 0 /\ k - 1 = m
    BY <1>4
  <2>1. Len(d) = 2 * k - 3
    BY <2>0, Places DEF Joined
  <2>2. d # <<>>
    <3>1. Len(<<>>) = 0 /\ 2 * k - 3 # 0
      BY <2>0
    <3> QED BY <2>1, <3>1
  <2>3. JoinID(d, nums[k]) = Append(Append(d, c), x)
    BY <1>1, <1>2, <2>2, JoinStays
  <2>4. PICK e : e = Append(Append(d, c), x)
    OBVIOUS
  <2>5. /\ Len(e) = 2 * k - 1 /\ e[2 * k - 2] = c /\ e[2 * k - 1] = x
        /\ \A j \in 1 .. 2 * k - 3 : e[j] = d[j]
    <3>1. /\ Len(e) = Len(d) + 2 /\ e[Len(d) + 1] = c /\ e[Len(d) + 2] = x
          /\ \A j \in 1 .. Len(d) : e[j] = d[j]
      <4>1. c \in E /\ x \in E
        BY <1>1, <1>2
      <4> QED BY <2>4, <4>1, AppendTwo
    <3> QED BY <2>0, <2>1, <3>1, Places
  <2>6. ASSUME NEW i \in 1 .. k PROVE e[2 * i - 1] = Number(nums[i])
    <3>1. CASE i = k
      BY <1>1, <2>5, <3>1
    <3>2. CASE i # k
      <4>1. i \in 1 .. k - 1 /\ 2 * i - 1 \in 1 .. 2 * k - 3
        BY <2>0, <3>2, Places
      <4>2. d[2 * i - 1] = Number(nums[i])
        BY <2>0, <4>1 DEF Joined
      <4> QED BY <2>5, <4>1, <4>2
    <3> QED BY <3>1, <3>2
  <2>7. ASSUME NEW i \in 1 .. k - 1 PROVE e[2 * i] = c
    <3>1. CASE 2 * i = 2 * k - 2
      BY <2>5, <3>1
    <3>2. CASE i \in 1 .. k - 1 - 1 /\ 2 * i \in 1 .. 2 * k - 3
      <4>1. d[2 * i] = c
        BY <1>2, <2>0, <3>2 DEF Joined
      <4> QED BY <2>5, <3>2, <4>1
    <3> QED BY <2>0, <3>1, <3>2, Places
  <2> QED BY <1>2, <2>0, <2>3, <2>4, <2>5, <2>6, <2>7 DEF Joined
<1> QED
  BY <1>3, <1>4

LEMMA IDsEmitted ==
  ASSUME NEW E, NEW nums, Len(nums) \in Nat, Tokens(E, nums, Len(nums))
  PROVE  EmitIDs(nums) \in Seq(E) /\ Joined(EmitIDs(nums), nums, Len(nums))
<1>1. PICK n \in Nat : n = Len(nums)
  OBVIOUS
<1>2. <<>> \in Seq(E)
  OBVIOUS
<1>3. PICK D : D = Seq(E)
  OBVIOUS
<1>4. IDStays(D, n, nums)
  <2>1. \A d \in D : \A k \in 1 .. n : JoinID(d, nums[k]) \in D
    BY <1>1, <1>3, JoinStays DEF Tokens
  <2> QED BY <1>2, <1>3, <2>1 DEF IDStays
<1>5. PICK g : IDRun(g, D, n, nums)
  BY <1>1, <1>4, IDFold
<1>6. /\ g \in [0 .. n -> D] /\ g[0] = <<>> /\ EmitIDs(nums) = g[n]
      /\ \A k \in 1 .. n : g[k] = JoinID(g[k - 1], nums[k])
  BY <1>5 DEF IDRun
<1> DEFINE P == {k \in 0 .. n : Joined(g[k], nums, k)}
<1>7. 0 \in P
  <2>1. Joined(<<>>, nums, 0)
    <3>1. Len(<<>>) = 0
      OBVIOUS
    <3> QED BY <3>1 DEF Joined
  <2>2. Joined(g[0], nums, 0) /\ 0 \in 0 .. n
    BY <1>6, <2>1
  <2> QED BY <2>2
<1>8. ASSUME NEW k \in 1 .. n, k - 1 \in P PROVE k \in P
  <2>1. g[k - 1] \in Seq(E) /\ Joined(g[k - 1], nums, k - 1) /\ g[k] = JoinID(g[k - 1], nums[k])
    BY <1>3, <1>6, <1>8
  <2>2. k \in Nat /\ k # 0 /\ k \in 0 .. n /\ Number(nums[k]) \in E
    <3>1. k \in Nat /\ k # 0 /\ k \in 0 .. n
      OBVIOUS
    <3>2. \A j \in 1 .. n : Number(nums[j]) \in E
      BY <1>1 DEF Tokens
    <3> QED BY <3>1, <3>2
  <2>3. PICK m \in Nat : k = m + 1 /\ m = k - 1
    BY <2>2
  <2>4. Joined(g[m], nums, m) /\ g[m] \in Seq(E) /\ g[k] = JoinID(g[m], nums[k])
    BY <2>1, <2>3
  <2>5. Joined(g[k], nums, k)
    BY <2>2, <2>3, <2>4, JoinedNext DEF Tokens
  <2> QED BY <2>2, <2>5
<1>9. \A k \in 0 .. n : k \in P
  <2> HIDE DEF P
  <2> QED BY <1>7, <1>8, UpTo
<1>10. n \in P
  <2> HIDE DEF P
  <2> QED BY <1>9
<1>11. g[n] \in Seq(E)
  BY <1>3, <1>6
<1> QED
  BY <1>1, <1>6, <1>10, <1>11

\* A piece, and a token of it, stays a list.
LEMMA PieceKept ==
  ASSUME NEW E, NEW d \in Seq(Seq(E)), d # <<>>, NEW t \in E, NEW kind
  PROVE  PieceToken(d, t, kind) \in Seq(Seq(E)) /\ PieceToken(d, t, kind) # <<>>
<1>1. CASE t[1] = kind
  <2>1. <<>> \in Seq(E)
    OBVIOUS
  <2>2. Append(d, <<>>) \in Seq(Seq(E)) /\ Append(d, <<>>) # <<>>
    BY <2>1
  <2> QED BY <1>1, <2>2 DEF PieceToken
<1>2. CASE t[1] # kind
  <2>1. PICK S : S = Seq(E)
    OBVIOUS
  <2>2. PICK p : p = Append(d[Len(d)], t)
    OBVIOUS
  <2>3. Len(d) \in 1 .. Len(d) /\ d[Len(d)] \in S
    BY <2>1
  <2>4. p \in S
    BY <2>1, <2>2, <2>3, AppendStays
  <2>5. [d EXCEPT ![Len(d)] = p] \in Seq(S) /\ [d EXCEPT ![Len(d)] = p] # <<>>
    BY <2>1, <2>3, <2>4
  <2> QED BY <1>2, <2>1, <2>2, <2>5 DEF PieceToken
<1> QED
  BY <1>1, <1>2

LEMMA PiecesAre ==
  ASSUME NEW E, NEW s \in Seq(E), NEW kind
  PROVE  Pieces(s, kind) \in Seq(Seq(E))
<1>1. PICK n \in Nat : n = Len(s)
  OBVIOUS
<1>2. PICK D : D = {d \in Seq(Seq(E)) : d # <<>>}
  OBVIOUS
<1>3. <<<<>>>> \in D
  <2>1. <<>> \in Seq(E)
    OBVIOUS
  <2>2. <<<<>>>> \in Seq(Seq(E)) /\ <<<<>>>> # <<>>
    BY <2>1
  <2> QED BY <1>2, <2>2
<1>4. ASSUME NEW d \in D, NEW k \in 1 .. n PROVE PieceToken(d, s[k], kind) \in D
  <2>1. s[k] \in E /\ d \in Seq(Seq(E)) /\ d # <<>>
    BY <1>1, <1>2
  <2> QED BY <1>2, <2>1, PieceKept
<1>5. PieceStays(D, n, s, kind)
  BY <1>3, <1>4, Zenon DEF PieceStays
<1>6. PICK g : PieceRun(g, D, n, s, kind)
  BY <1>1, <1>5, PieceFold
<1>7. g \in [0 .. n -> D] /\ Pieces(s, kind) = g[n]
  BY <1>6, Zenon DEF PieceRun
<1> QED
  BY <1>2, <1>7

LEMMA NextNumber ==
  ASSUME NEW nums, NEW k \in Nat, NEW m \in Nat, k = m + 1, NEW E, Tokens(E, nums, k)
  PROVE  PieceToken(PieceToken(Numbers(nums, m), Sign("comma"), "comma"), Number(nums[k]), "comma") = Numbers(nums, k)
<1>0. \A i \in 1 .. k : Number(nums[i]) \in E
  BY DEF Tokens
<1>1. PICK x : x = Number(nums[k])
  OBVIOUS
<1>2. x[1] = "num" /\ Sign("comma")[1] = "comma" /\ "num" # "comma"
  BY <1>1 DEF Number, Sign
<1>3. PICK d : d = Numbers(nums, m)
  OBVIOUS
<1>4. PICK b : b = Append(d, <<>>)
  OBVIOUS
<1>5. PieceToken(d, Sign("comma"), "comma") = b
  BY <1>2, <1>4 DEF PieceToken
<1>6. PieceToken(b, x, "comma") = [b EXCEPT ![Len(b)] = Append(@, x)]
  BY <1>2 DEF PieceToken
<1>7. \A i \in 1 .. k : <<Number(nums[i])>> \in Seq(E)
  <2>1. ASSUME NEW i \in 1 .. k PROVE <<Number(nums[i])>> \in Seq(E)
    <3>1. PICK y \in E : y = Number(nums[i])
      BY <1>0
    <3>2. <<y>> \in Seq(E)
      OBVIOUS
    <3> QED BY <3>1, <3>2
  <2> QED BY <2>1
<1>8. d \in Seq(Seq(E)) /\ Len(d) = m /\ \A i \in 1 .. m : d[i] = <<Number(nums[i])>>
  <2>1. \A i \in 1 .. m : i \in 1 .. k
    BY SMT
  <2>2. \A i \in 1 .. m : <<Number(nums[i])>> \in Seq(E)
    BY <1>7, <2>1
  <2> QED BY <1>3, <2>2 DEF Numbers
<1>9. Len(b) = k /\ b[k] = <<>> /\ DOMAIN b = 1 .. k /\ \A i \in 1 .. m : b[i] = <<Number(nums[i])>>
  <2>1. PICK S : S = Seq(E)
    OBVIOUS
  <2>2. <<>> \in S
    BY <2>1
  <2> QED BY <1>4, <1>8, <2>1, <2>2
<1>10. [b EXCEPT ![Len(b)] = Append(@, x)] = [i \in 1 .. k |-> IF i = k THEN <<x>> ELSE b[i]]
  <2>1. Append(<<>>, x) = <<x>>
    OBVIOUS
  <2> QED BY <1>9, <2>1
<1>11. \A i \in 1 .. k : (IF i = k THEN <<x>> ELSE b[i]) = <<Number(nums[i])>>
  <2>1. ASSUME NEW i \in 1 .. k PROVE (IF i = k THEN <<x>> ELSE b[i]) = <<Number(nums[i])>>
    <3>1. CASE i = k
      BY <1>1, <3>1
    <3>2. CASE i # k
      <4>1. i \in 1 .. m
        BY <3>2
      <4> QED BY <1>9, <3>2, <4>1
    <3> QED BY <3>1, <3>2
  <2> QED BY <2>1
<1>12. [i \in 1 .. k |-> IF i = k THEN <<x>> ELSE b[i]] = Numbers(nums, k)
  BY <1>11 DEF Numbers
<1> QED
  BY <1>1, <1>3, <1>5, <1>6, <1>10, <1>12

\* From identifiers that are joined by commas, each is read by itself.
LEMMA NumbersRead ==
  ASSUME NEW E, NEW e \in Seq(E), NEW nums, NEW n \in Nat, n >= 1, Joined(e, nums, n)
  PROVE  Pieces(e, "comma") = Numbers(nums, n)
<1>1. PICK m \in Nat : m = Len(e)
  OBVIOUS
<1>2. m = 2 * n - 1
  <2>1. Len(e) = 2 * n - 1
    <3>1. n # 0
      OBVIOUS
    <3> QED BY <3>1 DEF Joined
  <2> QED BY <1>1, <2>1
<1>3. PICK D : D = {d \in Seq(Seq(E)) : d # <<>>}
  OBVIOUS
<1>4. PieceStays(D, m, e, "comma")
  <2>1. <<<<>>>> \in D
    <3>1. <<>> \in Seq(E)
      OBVIOUS
    <3>2. <<<<>>>> \in Seq(Seq(E)) /\ <<<<>>>> # <<>>
      BY <3>1
    <3> QED BY <1>3, <3>2
  <2>2. ASSUME NEW d \in D, NEW k \in 1 .. m PROVE PieceToken(d, e[k], "comma") \in D
    <3>1. e[k] \in E /\ d \in Seq(Seq(E)) /\ d # <<>>
      BY <1>1, <1>3
    <3> QED BY <1>3, <3>1, PieceKept
  <2> QED BY <2>1, <2>2, Zenon DEF PieceStays
<1>5. PICK g : PieceRun(g, D, m, e, "comma")
  BY <1>1, <1>4, PieceFold
<1>6. /\ g[0] = <<<<>>>> /\ Pieces(e, "comma") = g[m]
      /\ \A k \in 1 .. m : g[k] = PieceToken(g[k - 1], e[k], "comma")
  BY <1>5, Zenon DEF PieceRun
<1>7. \A k \in 1 .. n : Number(nums[k]) \in E /\ e[2 * k - 1] = Number(nums[k])
  <2>1. ASSUME NEW k \in 1 .. n PROVE Number(nums[k]) \in E /\ e[2 * k - 1] = Number(nums[k])
    <3>1. e[2 * k - 1] = Number(nums[k])
      BY DEF Joined
    <3>2. 2 * k - 1 \in 1 .. m
      BY <1>2
    <3>3. e[2 * k - 1] \in E
      BY <1>1, <3>2
    <3> QED BY <3>1, <3>3
  <2> QED BY <2>1
<1>8. PieceToken(<<<<>>>>, Number(nums[1]), "comma") = Numbers(nums, 1)
  <2>1. PICK x : x = Number(nums[1])
    OBVIOUS
  <2>2. x[1] # "comma"
    BY <2>1 DEF Number
  <2>3. PieceToken(<<<<>>>>, x, "comma") = [<<<<>>>> EXCEPT ![Len(<<<<>>>>)] = Append(@, x)]
    BY <2>2 DEF PieceToken
  <2>4. [<<<<>>>> EXCEPT ![Len(<<<<>>>>)] = Append(@, x)] = [i \in 1 .. 1 |-> <<x>>]
    OBVIOUS
  <2>5. [i \in 1 .. 1 |-> <<x>>] = Numbers(nums, 1)
    <3>1. \A i \in 1 .. 1 : i = 1
      OBVIOUS
    <3> QED BY <2>1, <3>1 DEF Numbers
  <2> QED BY <2>1, <2>3, <2>4, <2>5
<1> DEFINE P == {k \in 0 .. n : k = 0 \/ g[2 * k - 1] = Numbers(nums, k)}
<1>9. 0 \in P
  OBVIOUS
<1>10. ASSUME NEW k \in 1 .. n, k - 1 \in P PROVE k \in P
  <2>1. PICK j \in Nat : j = k - 1 /\ k = j + 1
    OBVIOUS
  <2>2. CASE j = 0
    <3>1. k = 1 /\ 2 * k - 1 = 1 /\ 1 \in 1 .. m /\ 1 - 1 = 0 /\ 1 \in 1 .. n
      BY <1>2, <2>1, <2>2
    <3>2. g[1] = PieceToken(g[0], e[1], "comma")
      BY <1>6, <3>1
    <3>3. e[1] = Number(nums[1])
      BY <1>7, <3>1
    <3>4. g[1] = Numbers(nums, 1)
      BY <1>6, <1>8, <3>2, <3>3
    <3> QED BY <3>1, <3>4
  <2>3. CASE j # 0
    <3>1. /\ 2 * k - 1 \in 1 .. m /\ 2 * k - 2 \in 1 .. m /\ 2 * k - 1 - 1 = 2 * k - 2
          /\ 2 * k - 2 - 1 = 2 * j - 1 /\ 2 * k - 2 = 2 * j /\ j \in 1 .. n - 1
      BY <1>2, <2>1, <2>3
    <3>2. g[2 * j - 1] = Numbers(nums, j)
      <4>1. j \in P
        <5> HIDE DEF P
        <5> QED BY <1>10, <2>1
      <4> QED BY <2>3, <4>1
    <3>3. e[2 * k - 2] = Sign("comma")
      <4>1. e[2 * j] = Sign("comma")
        BY <3>1 DEF Joined
      <4> QED BY <3>1, <4>1
    <3>4. g[2 * k - 2] = PieceToken(Numbers(nums, j), Sign("comma"), "comma")
      BY <1>6, <3>1, <3>2, <3>3
    <3>5. g[2 * k - 1] = PieceToken(g[2 * k - 2], Number(nums[k]), "comma")
      BY <1>6, <1>7, <3>1
    <3>6. Tokens(E, nums, k) /\ k \in Nat
      <4>1. Sign("comma") \in E
        BY <1>1, <3>1, <3>3
      <4> QED BY <1>7, <4>1 DEF Tokens
    <3>7. g[2 * k - 1] = Numbers(nums, k)
      <4>1. PieceToken(PieceToken(Numbers(nums, j), Sign("comma"), "comma"), Number(nums[k]), "comma") = Numbers(nums, k)
        BY <2>1, <3>6, NextNumber
      <4> QED BY <3>4, <3>5, <4>1
    <3> QED BY <3>7
  <2> QED BY <2>2, <2>3
<1>11. \A k \in 0 .. n : k \in P
  <2> HIDE DEF P
  <2> QED BY <1>9, <1>10, UpTo
<1>12. g[2 * n - 1] = Numbers(nums, n)
  BY <1>11
<1> QED
  BY <1>2, <1>6, <1>12

\* A list of identifiers is read as it was written.
LEMMA IDsReadBack ==
  ASSUME NEW I, NEW nums \in Seq(I), nums # <<>>
  PROVE  AsIDList(EmitIDs(nums)) = nums
<1>1. PICK n \in Nat : n = Len(nums) /\ n >= 1
  OBVIOUS
<1>2. PICK E : E = {Sign("comma")} \cup {Number(nums[i]) : i \in 1 .. n}
  OBVIOUS
<1>3. Tokens(E, nums, n)
  BY <1>2 DEF Tokens
<1>4. PICK e : e = EmitIDs(nums)
  OBVIOUS
<1>5. e \in Seq(E) /\ Joined(e, nums, n)
  BY <1>1, <1>3, <1>4, IDsEmitted
<1>6. PICK pieces : pieces = Pieces(e, "comma")
  OBVIOUS
<1>7. pieces = Numbers(nums, n) /\ pieces \in Seq(Seq(E))
  BY <1>1, <1>5, <1>6, NumbersRead, PiecesAre
<1>8. /\ Len(pieces) = n /\ DOMAIN pieces = 1 .. n
      /\ \A i \in 1 .. n : pieces[i] = <<Number(nums[i])>>
  BY <1>7 DEF Numbers
<1>9. Selected(pieces, {i \in DOMAIN pieces : pieces[i] # <<>>}) = pieces
  <2>1. PICK places : places = {i \in DOMAIN pieces : pieces[i] # <<>>}
    OBVIOUS
  <2>2. ASSUME NEW i \in 1 .. n PROVE i \in places
    <3>1. PICK x : x = Number(nums[i])
      OBVIOUS
    <3>2. pieces[i] = <<x>> /\ <<x>> # <<>>
      BY <1>8, <3>1
    <3> QED BY <1>8, <2>1, <3>2
  <2>3. PICK S : S = Seq(E)
    OBVIOUS
  <2>4. Selected(pieces, places) = pieces
    BY <1>7, <1>8, <2>2, <2>3, SelectedAll
  <2> QED BY <2>1, <2>4
<1>10. \A i \in 1 .. n : AsFormID(pieces[i]) = nums[i]
  <2>1. ASSUME NEW i \in 1 .. n PROVE AsFormID(pieces[i]) = nums[i]
    <3>1. PICK x : x = nums[i]
      OBVIOUS
    <3>2. pieces[i] = <<<<"num", x>>>>
      BY <1>8, <3>1 DEF Number
    <3>3. AsNumber(<<<<"num", x>>>>, 0) = x
      BY DEF AsNumber
    <3> QED BY <3>1, <3>2, <3>3 DEF AsFormID
  <2> QED BY <2>1
<1>11. AsIDList(e) = [i \in DOMAIN pieces |-> AsFormID(pieces[i])]
  BY <1>6, <1>9, Zenon DEF AsIDList
<1>12. [i \in DOMAIN pieces |-> AsFormID(pieces[i])] = nums
  <2>1. nums = [i \in 1 .. n |-> nums[i]]
    BY <1>1
  <2> QED BY <1>8, <1>10, <2>1
<1> QED
  BY <1>4, <1>11, <1>12

-----------------------------------------------------------------------------
(* Rules: what an import writes is read back. *)

IsList(l) == l \in Seq({l[i] : i \in DOMAIN l})
IsRule(r, S) ==
  /\ r = [label |-> r.label, ids |-> r.ids, file |-> r.file]
  /\ r.label \in Seq(S) /\ r.label # <<>> /\ r.label[1][1] = "word" /\ ~Has(r.label, "=")
  /\ r.file \in Seq(S) /\ r.file # <<>> /\ ~Has(r.file, "note")
  /\ r.ids # <<>> /\ IsList(r.ids)

LEMMA HalfOrNot ==
  ASSUME NEW n \in Nat
  PROVE  \A j \in 0 .. n : \E i \in Nat : j = 2 * i - 1 \/ j = 2 * i
<1> DEFINE P == {j \in 0 .. n : \E i \in Nat : j = 2 * i - 1 \/ j = 2 * i}
<1>1. 0 \in P
  <2>1. 0 \in Nat /\ 0 = 2 * 0 /\ 0 \in 0 .. n
    OBVIOUS
  <2> QED BY <2>1
<1>2. ASSUME NEW j \in 1 .. n, j - 1 \in P PROVE j \in P
  <2>1. PICK i \in Nat : j - 1 = 2 * i - 1 \/ j - 1 = 2 * i
    BY <1>2
  <2>2. (j = 2 * i \/ j = 2 * (i + 1) - 1) /\ i + 1 \in Nat /\ j \in 0 .. n
    BY <2>1
  <2> QED BY <2>2
<1> HIDE DEF P
<1>3. \A j \in 0 .. n : j \in P
  BY <1>1, <1>2, UpTo
<1> QED
  BY <1>3 DEF P

LEMMA JoinOrder ==
  ASSUME NEW E, NEW s \in Seq(E), NEW t \in Seq(E), NEW u \in Seq(E)
  PROVE  (s \o t) \o u = s \o (t \o u)
OBVIOUS

\* What is written of identifiers is numbers and commas.
LEMMA IDsPlain ==
  ASSUME NEW E, NEW e \in Seq(E), NEW nums, NEW n \in Nat, Joined(e, nums, n)
  PROVE  \A kind : kind \notin {"num", "comma"} => ~Has(e, kind)
<1>1. ASSUME NEW j \in DOMAIN e PROVE e[j][1] \in {"num", "comma"}
  <2>1. j \in 1 .. Len(e) /\ Len(e) \in Nat
    OBVIOUS
  <2>2. n # 0 /\ j \in 1 .. 2 * n - 1
    BY <2>1 DEF Joined
  <2>3. PICK i \in 1 .. n : j = 2 * i - 1 \/ (j = 2 * i /\ i \in 1 .. n - 1)
    <3>1. PICK i \in Nat : j = 2 * i - 1 \/ j = 2 * i
      <4>1. PICK m \in Nat : m = Len(e) /\ j \in 0 .. m
        BY <2>1
      <4>2. \A k \in 0 .. m : \E i \in Nat : k = 2 * i - 1 \/ k = 2 * i
        BY HalfOrNot
      <4> QED BY <4>1, <4>2
    <3> QED BY <2>2, <3>1
  <2>4. CASE j = 2 * i - 1
    <3>1. e[2 * i - 1] = Number(nums[i])
      BY DEF Joined
    <3> QED BY <2>4, <3>1 DEF Number
  <2>5. CASE j = 2 * i /\ i \in 1 .. n - 1
    <3>1. e[2 * i] = Sign("comma")
      BY <2>5 DEF Joined
    <3> QED BY <2>5, <3>1 DEF Sign
  <2> QED BY <2>3, <2>4, <2>5
<1> QED
  BY <1>1, Zenon DEF Has

\* A written rule is an entry of the section it is written in.
Extended(doc, entry) == [doc EXCEPT ![Len(doc)].entries = Append(@, entry)]
RuleEntry(r) == [key |-> r.label, val |-> EmitIDs(r.ids) \o <<Sign(":")>> \o r.file]

\* The line of a rule is read as its entry, and the entry as the rule.
LEMMA RuleReadBack ==
  ASSUME NEW S, NEW r, IsRule(r, S)
  PROVE  /\ \A doc : doc # <<>> =>
              ParseLine(doc, EmitRule(r)) = Extended(doc, RuleEntry(r))
         /\ Has(RuleEntry(r).val, ":") /\ RoutingRule(RuleEntry(r)) = r
<1>1. PICK I : r.ids \in Seq(I)
  BY DEF IsRule, IsList
<1>2. r.ids # <<>> /\ Len(r.ids) \in Nat /\ AsIDList(EmitIDs(r.ids)) = r.ids
  BY <1>1, IDsReadBack DEF IsRule
<1>3. PICK E : E = S \cup {Sign("comma"), Sign("="), Sign(":")} \cup {Number(r.ids[k]) : k \in 1 .. Len(r.ids)}
  OBVIOUS
<1>4. Tokens(E, r.ids, Len(r.ids))
  BY <1>3 DEF Tokens
<1>5. PICK e : e = EmitIDs(r.ids)
  OBVIOUS
<1>6. e \in Seq(E) /\ ~Has(e, "note") /\ ~Has(e, ":")
  <2>1. e \in Seq(E) /\ Joined(e, r.ids, Len(r.ids))
    BY <1>2, <1>4, <1>5, IDsEmitted
  <2>2. "note" \notin {"num", "comma"} /\ ":" \notin {"num", "comma"}
    OBVIOUS
  <2> QED BY <1>2, <2>1, <2>2, IDsPlain
<1>7. r.label \in Seq(E) /\ r.file \in Seq(E)
  <2>1. S \subseteq E
    BY <1>3
  <2> QED BY <2>1, SeqGrows DEF IsRule
<1>8. PICK eq \in E : eq = Sign("=")
  BY <1>3
<1>9. PICK colon \in E : colon = Sign(":")
  BY <1>3
<1>10. eq[1] = "=" /\ colon[1] = ":"
  BY <1>8, <1>9 DEF Sign
<1>11. PICK val : val = e \o <<colon>> \o r.file
  OBVIOUS
<1>12. val \in Seq(E)
  BY <1>6, <1>7, <1>11
<1>13. ~Has(val, "note")
  <2>1. e \o <<colon>> \in Seq(E) /\ <<colon>> \in Seq(E)
    BY <1>6
  <2>2. ~Has(<<colon>>, "note")
    BY <1>10 DEF Has
  <2>3. ~Has(r.file, "note")
    BY DEF IsRule
  <2> QED BY <1>6, <1>7, <1>11, <2>1, <2>2, <2>3, HasJoin
<1>14. Has(val, ":") /\ Before(val, ":") = e /\ After(val, ":") = r.file
  <2>1. ~Has(e, colon[1])
    BY <1>6, <1>10
  <2> QED BY <1>6, <1>7, <1>10, <1>11, <2>1, SplitFirst
<1>15. PICK line : line = EmitRule(r)
  OBVIOUS
<1>16. line = r.label \o <<eq>> \o val
  <2>1. line = r.label \o <<eq>> \o e \o <<colon>> \o r.file
    BY <1>5, <1>8, <1>9, <1>15 DEF EmitRule
  <2>2. PICK a : a = r.label \o <<eq>>
    OBVIOUS
  <2>3. a \in Seq(E) /\ <<colon>> \in Seq(E) /\ e \o <<colon>> \in Seq(E)
    BY <1>6, <1>7, <2>2
  <2>4. (a \o e) \o <<colon>> = a \o (e \o <<colon>>)
    BY <1>6, <2>3, JoinOrder
  <2>5. (a \o (e \o <<colon>>)) \o r.file = a \o val
    <3>1. PICK b : b = e \o <<colon>>
      OBVIOUS
    <3>2. b \in Seq(E)
      BY <2>3, <3>1
    <3>3. PICK f : f = r.file
      OBVIOUS
    <3>4. f \in Seq(E)
      BY <1>7, <3>3
    <3>5. (a \o b) \o f = a \o (b \o f)
      BY <2>3, <3>2, <3>4, JoinOrder
    <3> QED BY <1>11, <3>1, <3>3, <3>5
  <2> QED BY <2>1, <2>2, <2>4, <2>5
<1>17. Has(line, "=") /\ Before(line, "=") = r.label /\ After(line, "=") = val
  <2>1. ~Has(r.label, eq[1])
    BY <1>10 DEF IsRule
  <2> QED BY <1>7, <1>10, <1>12, <1>16, <2>1, SplitFirst
<1>18. line # <<>> /\ line[1] = r.label[1]
  <2>1. r.label # <<>>
    BY DEF IsRule
  <2> QED BY <1>7, <1>12, <1>16, <2>1
<1>19. PICK entry : entry = [key |-> r.label, val |-> val]
  OBVIOUS
<1>190. entry = RuleEntry(r)
  BY <1>5, <1>9, <1>11, <1>19 DEF RuleEntry
<1>20. ASSUME NEW doc, doc # <<>> PROVE ParseLine(doc, line) = Extended(doc, entry)
  <2>1. line[1][1] = "word" /\ "word" \notin {"note", "#"} /\ "word" # "["
    BY <1>18 DEF IsRule
  <2>2. Before(After(line, "="), "note") = val
    BY <1>13, <1>17 DEF Before
  <2> QED BY <1>17, <1>18, <1>19, <1>20, <2>1, <2>2, Zenon DEF ParseLine, Extended
<1>21. RoutingRule(entry) = r
  <2>1. entry.key = r.label /\ entry.val = val
    BY <1>19
  <2>2. Split2(val)[1] = e /\ Split2(val)[2] = r.file
    BY <1>14 DEF Split2
  <2>3. r = [label |-> r.label, ids |-> r.ids, file |-> r.file]
    BY DEF IsRule
  <2> QED BY <1>2, <1>5, <2>1, <2>2, <2>3, Zenon DEF RoutingRule
<1>22. Has(entry.val, ":")
  BY <1>14, <1>19
<1> QED
  BY <1>15, <1>190, <1>20, <1>21, <1>22

\* The line of a header opens a section of that name.
LEMMA HeaderRead ==
  ASSUME NEW E, NEW words \in Seq(E), ~Has(words, "]"), NEW doc
  PROVE  ParseLine(doc, <<Sign("[")>> \o words \o <<Sign("]")>>) = Append(doc, [name |-> words, entries |-> <<>>])
<1>1. PICK open : open = Sign("[")
  OBVIOUS
<1>2. PICK close : close = Sign("]")
  OBVIOUS
<1>3. open[1] = "[" /\ close[1] = "]" /\ "[" \notin {"note", "#"}
  BY <1>1, <1>2 DEF Sign
<1>4. PICK F : F = E \cup {open, close}
  OBVIOUS
<1>5. words \in Seq(F) /\ open \in F /\ close \in F /\ <<>> \in Seq(F)
  BY <1>4
<1>6. PICK line : line = <<open>> \o words \o <<close>>
  OBVIOUS
<1>7. line # <<>> /\ line[1] = open /\ Tail(line) = words \o <<close>>
  <2>1. PICK rest : rest = words \o <<close>>
    OBVIOUS
  <2>2. rest \in Seq(F) /\ <<open>> \in Seq(F) /\ <<close>> \in Seq(F)
    BY <1>5, <2>1
  <2>3. line = <<open>> \o rest
    BY <1>5, <1>6, <2>1, <2>2, JoinOrder
  <2>4. Tail(<<open>> \o rest) = rest
    BY <1>5, <2>2
  <2> QED BY <1>5, <2>1, <2>2, <2>3, <2>4
<1>8. Before(Tail(line), "]") = words
  <2>1. (words \o <<close>>) \o <<>> = words \o <<close>>
    BY <1>5
  <2>2. ~Has(words, close[1])
    BY <1>3
  <2>3. PICK none \in Seq(F) : none = <<>>
    BY <1>5
  <2>4. Before(words \o <<close>> \o none, close[1]) = words
    BY <1>5, <2>2, SplitFirst
  <2> QED BY <1>3, <1>7, <2>1, <2>3, <2>4
<1>9. ParseLine(doc, line) = Append(doc, [name |-> words, entries |-> <<>>])
  BY <1>3, <1>7, <1>8, Zenon DEF ParseLine
<1> QED
  BY <1>1, <1>2, <1>6, <1>9

OnlyOne(doc, name, n, i) == \A j \in 1 .. n : doc[j].name = name <=> j = i

LEMMA SectionIs ==
  ASSUME NEW doc, NEW name, NEW n \in Nat, DOMAIN doc = 1 .. n, NEW i \in 1 .. n, OnlyOne(doc, name, n, i)
  PROVE  HasSection(doc, name) /\ Section(doc, name) = doc[i]
<1>1. {j \in DOMAIN doc : doc[j].name = name} = {i}
  BY DEF OnlyOne
<1>2. Min({i}) = i
  BY DEF Min
<1> QED
  BY <1>1, <1>2 DEF HasSection, Section

NoDefault == [key |-> Default, val |-> <<>>]
SectionOf(name, entries) == [name |-> name, entries |-> entries]
Written(rules, k) == [i \in 1 .. k |-> RuleEntry(rules[i])]
Reading(rules, n) ==
  [k \in 0 .. n + 4 |->
     IF k <= 1 THEN <<>>
     ELSE IF k <= n + 2 THEN <<SectionOf(Routes, Written(rules, k - 2))>>
     ELSE IF k = n + 3 THEN <<SectionOf(Routes, Written(rules, n)), SectionOf(Options, <<>>)>>
     ELSE <<SectionOf(Routes, Written(rules, n)), SectionOf(Options, <<NoDefault>>)>>]

LEMMA NoteRead ==
  ASSUME NEW doc
  PROVE  ParseLine(doc, <<Sign("note")>>) = doc
<1>1. <<Sign("note")>>[1][1] = "note"
  BY DEF Sign
<1> QED
  BY <1>1, Zenon DEF ParseLine

LEMMA HeadersRead ==
  ASSUME NEW doc
  PROVE  /\ ParseLine(doc, <<Sign("[")>> \o Routes \o <<Sign("]")>>) = Append(doc, SectionOf(Routes, <<>>))
         /\ ParseLine(doc, <<Sign("[")>> \o Options \o <<Sign("]")>>) = Append(doc, SectionOf(Options, <<>>))
<1>1. /\ Routes \in Seq({Word("Routes")}) /\ ~Has(Routes, "]")
      /\ Options \in Seq({Word("Options")}) /\ ~Has(Options, "]")
  BY DEF Has, Routes, Options, Word
<1> QED
  BY <1>1, HeaderRead DEF SectionOf

LEMMA DefaultRead ==
  ASSUME NEW doc, doc # <<>>
  PROVE  ParseLine(doc, Default \o <<Sign("=")>> \o <<>>) = Extended(doc, NoDefault)
<1>1. PICK eq : eq = Sign("=")
  OBVIOUS
<1>2. PICK E : E = {Word("Default"), eq}
  OBVIOUS
<1>3. Default \in Seq(E) /\ eq \in E /\ <<>> \in Seq(E) /\ eq[1] = "="
  BY <1>1, <1>2 DEF Default, Sign
<1>4. PICK none \in Seq(E) : none = <<>>
  BY <1>3
<1>5. PICK line : line = Default \o <<eq>> \o none
  OBVIOUS
<1>6. ~Has(Default, eq[1])
  BY <1>3 DEF Has, Default, Word
<1>7. Has(line, eq[1]) /\ Before(line, eq[1]) = Default /\ After(line, eq[1]) = none
  BY <1>3, <1>5, <1>6, SplitFirst
<1>8. line # <<>> /\ line[1][1] = "word"
  <2>1. PICK w \in E : w = Word("Default")
    BY <1>2
  <2>2. Default = <<w>>
    BY <2>1 DEF Default
  <2>3. line # <<>> /\ line[1] = w
    BY <1>3, <1>4, <1>5, <2>2
  <2> QED BY <2>1, <2>3 DEF Word
<1>9. Has(line, "=") /\ Before(line, "=") = Default /\ Before(After(line, "="), "note") = <<>>
  <2>1. Before(<<>>, "note") = <<>>
    BY DEF Before, Has
  <2> QED BY <1>3, <1>4, <1>7, <2>1
<1>10. "word" \notin {"note", "#"} /\ "word" # "["
  OBVIOUS
<1>11. ParseLine(doc, line) = Extended(doc, NoDefault)
  BY <1>8, <1>9, <1>10, Zenon DEF ParseLine, Extended, NoDefault
<1> QED
  BY <1>1, <1>4, <1>5, <1>11

LEMMA AppendOne ==
  ASSUME NEW E, NEW d \in Seq(E), NEW x \in E, NEW e, e = Append(d, x)
  PROVE  e \in Seq(E) /\ Len(e) = Len(d) + 1 /\ e[Len(d) + 1] = x /\ \A j \in 1 .. Len(d) : e[j] = d[j]
OBVIOUS

LEMMA FramedText ==
  ASSUME NEW L, NEW a \in L, NEW b \in L, NEW c \in L, NEW d \in L, NEW s \in Seq(L), NEW t, t = <<a, b>> \o s \o <<c, d>>
  PROVE  /\ Len(t) = Len(s) + 4 /\ t[1] = a /\ t[2] = b /\ t[Len(s) + 3] = c /\ t[Len(s) + 4] = d
         /\ \A i \in 1 .. Len(s) : t[i + 2] = s[i]
<1>1. PICK u : u = <<a, b>> \o s
  OBVIOUS
<1>2. /\ u \in Seq(L) /\ Len(u) = Len(s) + 2 /\ u[1] = a /\ u[2] = b
      /\ \A i \in 1 .. Len(s) : u[i + 2] = s[i]
  BY <1>1
<1>3. t = u \o <<c, d>>
  BY <1>1
<1>4. /\ Len(t) = Len(u) + 2 /\ t[Len(u) + 1] = c /\ t[Len(u) + 2] = d
      /\ \A i \in 1 .. Len(u) : t[i] = u[i]
  BY <1>2, <1>3
<1>5. /\ Len(u) + 1 = Len(s) + 3 /\ Len(u) + 2 = Len(s) + 4 /\ Len(s) \in Nat
      /\ 1 \in 1 .. Len(u) /\ 2 \in 1 .. Len(u) /\ \A i \in 1 .. Len(s) : i + 2 \in 1 .. Len(u)
  BY <1>2
<1> QED
  BY <1>2, <1>4, <1>5

LEMMA WrittenNext ==
  ASSUME NEW rules, NEW k \in Nat, NEW j \in Nat, k = j + 1
  PROVE  Append(Written(rules, j), RuleEntry(rules[k])) = Written(rules, k)
<1>1. PICK S : S = {RuleEntry(rules[i]) : i \in 1 .. k}
  OBVIOUS
<1>2. Written(rules, j) \in Seq(S) /\ Len(Written(rules, j)) = j /\ Written(rules, k) \in Seq(S) /\ Len(Written(rules, k)) = k
  <2>1. \A i \in 1 .. k : RuleEntry(rules[i]) \in S
    BY <1>1
  <2>2. \A i \in 1 .. j : i \in 1 .. k
    OBVIOUS
  <2> QED BY <2>1, <2>2 DEF Written
<1>3. \A i \in 1 .. k : Append(Written(rules, j), RuleEntry(rules[k]))[i] = RuleEntry(rules[i])
  <2>1. \A i \in 1 .. j : Written(rules, j)[i] = RuleEntry(rules[i])
    BY DEF Written
  <2>2. PICK w \in Seq(S) : w = Written(rules, j)
    BY <1>2
  <2>3. PICK x : x = RuleEntry(rules[k])
    OBVIOUS
  <2>4. ASSUME NEW i \in 1 .. k PROVE Append(w, x)[i] = RuleEntry(rules[i])
    <3>1. CASE i = k
      BY <1>2, <2>2, <2>3, <3>1
    <3>2. CASE i # k
      <4>1. i \in 1 .. j
        BY <3>2
      <4>2. Append(w, x)[i] = w[i]
        BY <1>2, <2>2, <4>1
      <4> QED BY <2>1, <2>2, <4>1, <4>2
    <3> QED BY <3>1, <3>2
  <2> QED BY <2>2, <2>3, <2>4
<1>4. Append(Written(rules, j), RuleEntry(rules[k])) = [i \in 1 .. k |-> RuleEntry(rules[i])]
  <2>1. PICK w \in Seq(S) : w = Written(rules, j) /\ Len(w) = j
    BY <1>2
  <2>2. PICK x \in S : x = RuleEntry(rules[k])
    BY <1>1
  <2>3. PICK e : e = Append(w, x)
    OBVIOUS
  <2>4. e \in Seq(S) /\ Len(e) = k
    BY <2>1, <2>3, AppendOne
  <2>5. e = [i \in 1 .. k |-> e[i]]
    BY <2>4
  <2> QED BY <1>3, <2>1, <2>2, <2>3, <2>5
<1> QED
  BY <1>4 DEF Written

LEMMA SectionAdded ==
  ASSUME NEW x, NEW y
  PROVE  Append(<<x>>, y) = <<x, y>>
<1>1. PICK E : E = {x, y}
  OBVIOUS
<1>2. PICK s : s = <<x>>
  OBVIOUS
<1>3. s \in Seq(E) /\ Len(s) = 1 /\ s[1] = x /\ y \in E
  BY <1>1, <1>2
<1>4. PICK u : u = Append(s, y)
  OBVIOUS
<1>5. u \in Seq(E) /\ Len(u) = Len(s) + 1 /\ u[Len(s) + 1] = y /\ \A j \in 1 .. Len(s) : u[j] = s[j]
  BY <1>3, <1>4, AppendOne
<1>6. u \in Seq(E) /\ Len(u) = 2 /\ u[1] = x /\ u[2] = y
  BY <1>3, <1>5
<1>7. PICK t : t = <<x, y>>
  OBVIOUS
<1>8. t \in Seq(E) /\ Len(t) = 2 /\ t[1] = x /\ t[2] = y
  BY <1>1, <1>7
<1>9. u = [i \in 1 .. 2 |-> u[i]] /\ t = [i \in 1 .. 2 |-> t[i]]
  BY <1>6, <1>8
<1>10. \A i \in 1 .. 2 : u[i] = t[i]
  <2>1. \A i \in 1 .. 2 : i = 1 \/ i = 2
    OBVIOUS
  <2> QED BY <1>6, <1>8, <2>1
<1>11. u = t
  BY <1>9, <1>10
<1> QED
  BY <1>2, <1>4, <1>7, <1>11

LEMMA EntryAdded ==
  ASSUME NEW name, NEW w, NEW x, NEW doc, doc = <<SectionOf(name, w)>>
  PROVE  Extended(doc, x) = <<SectionOf(name, Append(w, x))>>
<1>1. PICK s : s = [name |-> name, entries |-> w]
  OBVIOUS
<1>2. Len(doc) = 1 /\ doc = [i \in 1 .. 1 |-> s]
  BY <1>1 DEF SectionOf
<1>3. PICK p : p = [s EXCEPT !.entries = Append(@, x)]
  OBVIOUS
<1>4. [doc EXCEPT ![1] = p] = <<p>> /\ doc[1] = s
  BY <1>2
<1>5. p = [name |-> name, entries |-> Append(w, x)]
  BY <1>1, <1>3
<1>6. [doc EXCEPT ![Len(doc)].entries = Append(@, x)] = [doc EXCEPT ![1] = [doc[1] EXCEPT !.entries = Append(@, x)]]
  BY <1>2
<1> QED
  BY <1>3, <1>4, <1>5, <1>6 DEF SectionOf, Extended

LEMMA SecondAdded ==
  ASSUME NEW name, NEW w, NEW x, NEW first, NEW doc, doc = <<first, SectionOf(name, w)>>
  PROVE  Extended(doc, x) = <<first, SectionOf(name, Append(w, x))>>
<1>1. PICK s : s = [name |-> name, entries |-> w]
  OBVIOUS
<1>2. Len(doc) = 2 /\ doc = [i \in 1 .. 2 |-> IF i = 1 THEN first ELSE s]
  BY <1>1 DEF SectionOf
<1>3. PICK p : p = [s EXCEPT !.entries = Append(@, x)]
  OBVIOUS
<1>4. [doc EXCEPT ![2] = p] = <<first, p>> /\ doc[2] = s
  BY <1>2
<1>5. p = [name |-> name, entries |-> Append(w, x)]
  BY <1>1, <1>3
<1>6. [doc EXCEPT ![Len(doc)].entries = Append(@, x)] = [doc EXCEPT ![2] = [doc[2] EXCEPT !.entries = Append(@, x)]]
  BY <1>2
<1> QED
  BY <1>3, <1>4, <1>5, <1>6 DEF SectionOf, Extended

AreRules(rules, n, S) == rules = [i \in 1 .. n |-> rules[i]] /\ \A i \in 1 .. n : IsRule(rules[i], S)

\* The document of the lines that EmitRouting writes, line by line.
LEMMA RoutingDocument ==
  ASSUME NEW S, NEW rules, NEW n \in Nat, AreRules(rules, n, S)
  PROVE  ParseText(EmitRouting(rules, <<>>)) = Reading(rules, n)[n + 4]
<1>1. PICK t : t = EmitRouting(rules, <<>>)
  OBVIOUS
<1>2. PICK a : a = <<Sign("note")>>
  OBVIOUS
<1>3. PICK b : b = <<Sign("[")>> \o Routes \o <<Sign("]")>>
  OBVIOUS
<1>4. PICK c : c = <<Sign("[")>> \o Options \o <<Sign("]")>>
  OBVIOUS
<1>5. PICK d : d = Default \o <<Sign("=")>> \o <<>>
  OBVIOUS
<1>6. PICK s : s = [i \in 1 .. n |-> EmitRule(rules[i])]
  OBVIOUS
<1>7. PICK L : L = {a, b, c, d} \cup {EmitRule(rules[i]) : i \in 1 .. n}
  OBVIOUS
<1>8. s \in Seq(L) /\ Len(s) = n
  BY <1>6, <1>7
<1>9. t = <<a, b>> \o s \o <<c, d>>
  <2>1. t = <<<<Sign("note")>>, <<Sign("[")>> \o Routes \o <<Sign("]")>>>>
            \o [i \in 1 .. n |-> EmitRule(rules[i])]
            \o <<<<Sign("[")>> \o Options \o <<Sign("]")>>, Default \o <<Sign("=")>> \o <<>>>>
    <3>1. DOMAIN rules = 1 .. n
      BY DEF AreRules
    <3> QED BY <1>1, <3>1, Zenon DEF EmitRouting
  <2> QED BY <1>2, <1>3, <1>4, <1>5, <1>6, <2>1, Zenon
<1>10. /\ Len(t) = n + 4 /\ t[1] = a /\ t[2] = b /\ t[n + 3] = c /\ t[n + 4] = d
       /\ \A i \in 1 .. n : t[i + 2] = EmitRule(rules[i])
  <2>1. a \in L /\ b \in L /\ c \in L /\ d \in L
    BY <1>7
  <2>2. /\ Len(t) = Len(s) + 4 /\ t[1] = a /\ t[2] = b /\ t[Len(s) + 3] = c /\ t[Len(s) + 4] = d
        /\ \A i \in 1 .. Len(s) : t[i + 2] = s[i]
    BY <1>8, <1>9, <2>1, FramedText
  <2>3. \A i \in 1 .. n : s[i] = EmitRule(rules[i])
    BY <1>6
  <2> QED BY <1>8, <2>2, <2>3
<1>11. PICK h : h = Reading(rules, n)
  OBVIOUS
<1>12. PICK routes : routes = SectionOf(Routes, Written(rules, n))
  OBVIOUS
<1>13. /\ h[0] = <<>> /\ h[1] = <<>>
       /\ \A i \in 0 .. n : h[i + 2] = <<SectionOf(Routes, Written(rules, i))>>
       /\ h[n + 3] = <<routes, SectionOf(Options, <<>>)>>
       /\ h[n + 4] = <<routes, SectionOf(Options, <<NoDefault>>)>>
  BY <1>11, <1>12 DEF Reading
<1>14. ASSUME NEW k \in 1 .. n + 4 PROVE h[k] = ParseLine(h[k - 1], t[k])
  <2>1. CASE k = 1
    BY <1>2, <1>10, <1>13, <2>1, NoteRead
  <2>2. CASE k = 2
    <3>1. h[2] = <<SectionOf(Routes, Written(rules, 0))>> /\ h[1] = <<>> /\ k - 1 = 1
      BY <1>13, <2>2
    <3>2. Written(rules, 0) = <<>>
      BY DEF Written
    <3>3. ParseLine(<<>>, b) = Append(<<>>, SectionOf(Routes, <<>>))
      BY <1>3, HeadersRead
    <3> QED BY <1>10, <2>2, <3>1, <3>2, <3>3
  <2>3. CASE k \in 3 .. n + 2
    <3>1. PICK i \in 1 .. n : k = i + 2
      BY <2>3
    <3>2. PICK j \in Nat : i = j + 1 /\ j \in 0 .. n /\ k - 1 = j + 2
      BY <3>1
    <3>3. PICK w : w = Written(rules, j)
      OBVIOUS
    <3>4. h[k - 1] = <<SectionOf(Routes, w)>> /\ h[k] = <<SectionOf(Routes, Written(rules, i))>>
      <4>0. i \in 0 .. n /\ j \in 0 .. n
        BY <3>2
      <4>1. i \in 0 .. n /\ h[j + 2] = <<SectionOf(Routes, Written(rules, j))>>
        BY <1>13, <4>0
      <4>2. h[i + 2] = <<SectionOf(Routes, Written(rules, i))>>
        BY <1>13, <4>1
      <4> QED BY <3>1, <3>2, <3>3, <4>1, <4>2
    <3>5. PICK x : x = RuleEntry(rules[i])
      OBVIOUS
    <3>6. Append(w, x) = Written(rules, i)
      <4>1. i \in Nat
        OBVIOUS
      <4>2. Append(Written(rules, j), RuleEntry(rules[i])) = Written(rules, i)
        BY <3>2, <4>1, WrittenNext
      <4> QED BY <3>3, <3>5, <4>2
    <3>7. t[k] = EmitRule(rules[i]) /\ IsRule(rules[i], S)
      BY <1>10, <3>1 DEF AreRules
    <3>8. PICK doc : doc = <<SectionOf(Routes, w)>>
      OBVIOUS
    <3>9. doc # <<>>
      BY <3>8
    <3>10. ParseLine(doc, t[k]) = Extended(doc, x)
      BY <3>5, <3>7, <3>9, RuleReadBack
    <3>11. Extended(doc, x) = <<SectionOf(Routes, Append(w, x))>>
      BY <3>8, EntryAdded
    <3> QED BY <3>4, <3>6, <3>8, <3>10, <3>11
  <2>4. CASE k = n + 3
    <3>1. h[k - 1] = <<routes>> /\ k - 1 = n + 2 /\ n \in 0 .. n
      BY <1>12, <1>13, <2>4
    <3>2. ParseLine(<<routes>>, c) = Append(<<routes>>, SectionOf(Options, <<>>))
      BY <1>4, HeadersRead
    <3>3. PICK o : o = SectionOf(Options, <<>>)
      OBVIOUS
    <3>4. Append(<<routes>>, o) = <<routes, o>>
      BY SectionAdded
    <3> QED BY <1>10, <1>13, <2>4, <3>1, <3>2, <3>3, <3>4
  <2>5. CASE k = n + 4
    <3>1. PICK doc : doc = <<routes, SectionOf(Options, <<>>)>>
      OBVIOUS
    <3>2. PICK x : x = NoDefault
      OBVIOUS
    <3>3. h[k - 1] = doc /\ h[k] = <<routes, SectionOf(Options, <<x>>)>> /\ t[k] = d
      BY <1>10, <1>13, <2>5, <3>1, <3>2
    <3>4. doc # <<>>
      BY <3>1
    <3>5. ParseLine(doc, d) = Extended(doc, x)
      BY <1>5, <3>2, <3>4, DefaultRead
    <3>6. Extended(doc, x) = <<routes, SectionOf(Options, <<x>>)>>
      <4>1. Append(<<>>, x) = <<x>>
        OBVIOUS
      <4>2. Extended(doc, x) = <<routes, SectionOf(Options, Append(<<>>, x))>>
        BY <3>1, SecondAdded
      <4> QED BY <4>1, <4>2
    <3> QED BY <3>3, <3>5, <3>6
  <2> QED BY <2>1, <2>2, <2>3, <2>4, <2>5
<1>15. TextHistory(h, n + 4, t)
  <2>1. h = [k \in 0 .. n + 4 |-> h[k]]
    BY <1>11 DEF Reading
  <2>2. ASSUME NEW k \in 0 .. n + 4 PROVE h[k] = IF k = 0 THEN <<>> ELSE ParseLine(h[k - 1], t[k])
    <3>1. CASE k = 0
      BY <1>13, <3>1
    <3>2. CASE k # 0
      <4>1. k \in 1 .. n + 4
        BY <3>2
      <4> QED BY <1>14, <3>2, <4>1
    <3> QED BY <3>1, <3>2
  <2> QED BY <2>1, <2>2 DEF TextHistory
<1>16. n + 4 \in Nat
  OBVIOUS
<1>17. ParseText(t) = h[n + 4]
  BY <1>10, <1>15, <1>16, TextIs
<1> QED
  BY <1>1, <1>11, <1>17

\* What an import writes is read as what was written.
LEMMA RoutingReadBack ==
  ASSUME NEW S, NEW rules, NEW n \in Nat, AreRules(rules, n, S)
  PROVE  ParseRouting(EmitRouting(rules, <<>>)) = [rules |-> rules, default |-> <<>>]
<1>1. PICK text : text = EmitRouting(rules, <<>>)
  OBVIOUS
<1>2. PICK routes : routes = SectionOf(Routes, Written(rules, n))
  OBVIOUS
<1>3. PICK options : options = SectionOf(Options, <<NoDefault>>)
  OBVIOUS
<1>4. PICK doc : doc = ParseText(text)
  OBVIOUS
<1>5. doc = <<routes, options>>
  <2>1. Reading(rules, n)[n + 4] = <<routes, options>>
    BY <1>2, <1>3 DEF Reading
  <2> QED BY <1>1, <1>4, <2>1, RoutingDocument
<1>6. DOMAIN doc = 1 .. 2 /\ doc[1] = routes /\ doc[2] = options
  BY <1>5
<1>7. routes.name = Routes /\ options.name = Options /\ Routes # Options
  BY <1>2, <1>3 DEF SectionOf, Routes, Options, Word
<1>8. HasSection(doc, Routes) /\ Section(doc, Routes) = routes /\ HasSection(doc, Options) /\ Section(doc, Options) = options
  <2>1. 2 \in Nat /\ 1 \in 1 .. 2 /\ 2 \in 1 .. 2 /\ DOMAIN doc = 1 .. 2
    BY <1>6
  <2>2. PICK a : a = Routes
    OBVIOUS
  <2>3. PICK b : b = Options
    OBVIOUS
  <2>4. OnlyOne(doc, a, 2, 1)
    BY <1>6, <1>7, <2>2 DEF OnlyOne
  <2>5. OnlyOne(doc, b, 2, 2)
    BY <1>6, <1>7, <2>3 DEF OnlyOne
  <2>6. HasSection(doc, a) /\ Section(doc, a) = doc[1]
    BY ONLY <2>1, <2>4, SectionIs
  <2>7. HasSection(doc, b) /\ Section(doc, b) = doc[2]
    BY ONLY <2>1, <2>5, SectionIs
  <2> QED BY <1>6, <2>2, <2>3, <2>6, <2>7
<1>9. Get(options, Default) = <<>>
  <2>1. options.entries = <<NoDefault>> /\ NoDefault.key = Default /\ NoDefault.val = <<>>
    BY <1>3 DEF SectionOf, NoDefault
  <2>2. {i \in DOMAIN options.entries : options.entries[i].key = Default} = {1} /\ options.entries[1].val = <<>>
    BY <2>1
  <2>3. Min({1}) = 1
    BY DEF Min
  <2> QED BY <2>2, <2>3 DEF Get, Find, HasKey
<1>10. PICK entries : entries = Written(rules, n)
  OBVIOUS
<1>11. Entries(doc, Routes) = entries
  BY <1>2, <1>8, <1>10 DEF Entries, SectionOf
<1>12. PICK R : R = {RuleEntry(rules[i]) : i \in 1 .. n}
  OBVIOUS
<1>13. entries \in Seq(R) /\ Len(entries) = n /\ DOMAIN entries = 1 .. n /\ \A i \in 1 .. n : entries[i] = RuleEntry(rules[i])
  BY <1>10, <1>12 DEF Written
<1>14. \A i \in 1 .. n : Has(entries[i].val, ":") /\ RoutingRule(entries[i]) = rules[i]
  <2>1. ASSUME NEW i \in 1 .. n PROVE Has(entries[i].val, ":") /\ RoutingRule(entries[i]) = rules[i]
    <3>1. PICK r : r = rules[i]
      OBVIOUS
    <3>2. IsRule(r, S) /\ entries[i] = RuleEntry(r)
      BY <1>13, <3>1 DEF AreRules
    <3> QED BY <3>1, <3>2, RuleReadBack
  <2> QED BY <2>1
<1>15. Selected(entries, {i \in DOMAIN entries : Has(entries[i].val, ":")}) = entries
  <2>1. PICK places : places = {i \in DOMAIN entries : Has(entries[i].val, ":")}
    OBVIOUS
  <2>2. \A k \in 1 .. Len(entries) : k \in places
    BY <1>13, <1>14, <2>1
  <2>3. Selected(entries, places) = entries
    BY <1>13, <2>2, SelectedAll
  <2> QED BY <2>1, <2>3
<1>16. [i \in DOMAIN entries |-> RoutingRule(entries[i])] = rules
  <2>1. rules = [i \in 1 .. n |-> rules[i]]
    BY DEF AreRules
  <2> QED BY <1>13, <1>14, <2>1
<1>17. Usable(rules) = rules
  <2>1. PICK T : T = {rules[i] : i \in 1 .. n}
    OBVIOUS
  <2>2. rules \in Seq(T) /\ Len(rules) = n /\ DOMAIN rules = 1 .. n
    BY <2>1 DEF AreRules
  <2>3. PICK places : places = {i \in DOMAIN rules : rules[i].file # <<>> /\ rules[i].ids # <<>>}
    OBVIOUS
  <2>4. \A k \in 1 .. Len(rules) : k \in places
    <3>1. \A k \in 1 .. n : rules[k].file # <<>> /\ rules[k].ids # <<>>
      BY DEF AreRules, IsRule
    <3> QED BY <2>2, <2>3, <3>1
  <2>5. Selected(rules, places) = rules
    BY <2>2, <2>4, SelectedAll
  <2> QED BY <2>3, <2>5 DEF Usable
<1>18. ParseRouting(text) = [rules |-> Usable([i \in DOMAIN entries |-> RoutingRule(entries[i])]), default |-> Get(options, Default)]
  BY <1>4, <1>8, <1>11, <1>15, Zenon DEF ParseRouting
<1> QED
  BY <1>1, <1>9, <1>16, <1>17, <1>18

-----------------------------------------------------------------------------
(* What is read of another program's list can be written down. *)

Values(E) == {v \in Seq(E) : ~Has(v, "note")}
Titles(E) == {v \in Seq(E) : ~Has(v, "=")}
Assigned(E) == [key : Seq(E), val : Values(E)]
Sections(E) == [name : Titles(E), entries : Seq(Assigned(E))]
PlainHeader(line) == line # <<>> /\ line[1][1] = "[" => ~Has(Before(Tail(line), "]"), "=")
PlainText(text, E) == text \in Seq(Seq(E)) /\ \A k \in 1 .. Len(text) : PlainHeader(text[k])

LEMMA ExtendedStays ==
  ASSUME NEW N, NEW V, NEW d \in Seq([name : N, entries : Seq(V)]), d # <<>>, NEW x \in V
  PROVE  Extended(d, x) \in Seq([name : N, entries : Seq(V)])
<1>1. PICK S : S = [name : N, entries : Seq(V)]
  OBVIOUS
<1>2. PICK s : s = d[Len(d)]
  OBVIOUS
<1>3. Len(d) \in 1 .. Len(d) /\ s \in S /\ d \in Seq(S)
  <2>1. d \in Seq(S)
    BY <1>1
  <2>2. Len(d) \in 1 .. Len(d)
    BY <2>1
  <2> QED BY <1>2, <2>1, <2>2
<1>4. s.name \in N /\ s.entries \in Seq(V) /\ s = [name |-> s.name, entries |-> s.entries]
  BY <1>1, <1>3
<1>5. PICK more : more = Append(s.entries, x)
  OBVIOUS
<1>6. more \in Seq(V)
  BY <1>4, <1>5, AppendStays
<1>7. PICK t : t = [s EXCEPT !.entries = more]
  OBVIOUS
<1>8. t = [name |-> s.name, entries |-> more]
  BY <1>4, <1>7
<1>9. t \in S
  BY <1>1, <1>4, <1>6, <1>8
<1>10. [d EXCEPT ![Len(d)] = t] \in Seq(S)
  BY <1>3, <1>9
<1>11. Extended(d, x) = [d EXCEPT ![Len(d)] = t]
  BY <1>2, <1>3, <1>5, <1>7 DEF Extended
<1> QED
  BY <1>1, <1>10, <1>11

\* A line with a plain header keeps every section plain.
LEMMA LineStays ==
  ASSUME NEW E, NEW doc \in Seq(Sections(E)), NEW line \in Seq(E), PlainHeader(line)
  PROVE  ParseLine(doc, line) \in Seq(Sections(E))
<1>1. PICK S : S = Sections(E)
  OBVIOUS
<1>2. PICK none \in Seq(Assigned(E)) : none = <<>>
  <2>1. PICK V : V = Assigned(E)
    OBVIOUS
  <2>2. <<>> \in Seq(V)
    OBVIOUS
  <2> QED BY <2>1, <2>2
<1>3. \A name \in Titles(E) : [name |-> name, entries |-> none] \in S
  BY <1>1, <1>2 DEF Sections
<1>4. CASE line = <<>> \/ line[1][1] \in {"note", "#"}
  BY <1>4, Zenon DEF ParseLine
<1>5. CASE line # <<>> /\ line[1][1] = "["
  <2>1. PICK name : name = Before(Tail(line), "]")
    OBVIOUS
  <2>2. Tail(line) \in Seq(E)
    BY <1>5
  <2>3. name \in Seq(E)
    BY <2>1, <2>2, SplitIs
  <2>4. ~Has(name, "=")
    BY <1>5, <2>1 DEF PlainHeader
  <2>5. [name |-> name, entries |-> none] \in S
    BY <1>3, <2>3, <2>4 DEF Titles
  <2>6. ParseLine(doc, line) = Append(doc, [name |-> name, entries |-> none])
    <3>1. line[1][1] \notin {"note", "#"}
      BY <1>5
    <3> QED BY <1>2, <1>5, <2>1, <3>1, Zenon DEF ParseLine
  <2>7. doc \in Seq(S)
    BY <1>1
  <2>8. Append(doc, [name |-> name, entries |-> none]) \in Seq(S)
    BY <2>5, <2>7, AppendStays
  <2> QED BY <1>1, <2>6, <2>8
<1>6. CASE ~(line = <<>> \/ line[1][1] \in {"note", "#"}) /\ line[1][1] # "["
  <2>1. CASE ~Has(line, "=")
    BY <1>6, <2>1, Zenon DEF ParseLine
  <2>2. CASE Has(line, "=")
    <3>1. PICK open : open = IF doc = <<>> THEN <<[name |-> <<>>, entries |-> none]>> ELSE doc
      OBVIOUS
    <3>2. PICK entry : entry = [key |-> Before(line, "="), val |-> Before(After(line, "="), "note")]
      OBVIOUS
    <3>3. ParseLine(doc, line) = Extended(open, entry)
      BY <1>2, <1>6, <2>2, <3>1, <3>2, Zenon DEF ParseLine, Extended
    <3>4. <<>> \in Titles(E)
      BY DEF Titles, Has
    <3>5. open \in Seq(S) /\ open # <<>>
      BY <1>1, <1>3, <3>1, <3>4
    <3>6. entry \in Assigned(E)
      <4>1. Before(line, "=") \in Seq(E) /\ After(line, "=") \in Seq(E)
        BY SplitIs
      <4>2. Before(After(line, "="), "note") \in Seq(E) /\ ~Has(Before(After(line, "="), "note"), "note")
        <5>1. PICK rest : rest = After(line, "=")
          OBVIOUS
        <5>2. Before(rest, "note") \in Seq(E) /\ ~Has(Before(rest, "note"), "note")
          BY <4>1, <5>1, SplitIs
        <5> QED BY <5>1, <5>2
      <4> QED BY <3>2, <4>1, <4>2 DEF Assigned, Values
    <3>7. PICK N : N = Titles(E)
      OBVIOUS
    <3>8. PICK V : V = Assigned(E)
      OBVIOUS
    <3>9. open \in Seq([name : N, entries : Seq(V)]) /\ open # <<>> /\ entry \in V
      BY <1>1, <3>5, <3>6, <3>7, <3>8 DEF Sections
    <3>10. Extended(open, entry) \in Seq([name : N, entries : Seq(V)])
      BY <3>9, ExtendedStays
    <3> QED BY <3>3, <3>7, <3>8, <3>10 DEF Sections
  <2> QED BY <2>1, <2>2
<1> QED
  BY <1>4, <1>5, <1>6

LEMMA TextRead ==
  ASSUME NEW E, NEW text, PlainText(text, E)
  PROVE  ParseText(text) \in Seq(Sections(E))
<1>1. PICK n \in Nat : n = Len(text)
  BY DEF PlainText
<1>2. PICK D : D = Seq(Sections(E))
  OBVIOUS
<1>3. <<>> \in D
  BY <1>2
<1>4. ASSUME NEW d \in D, NEW k \in 1 .. n PROVE ParseLine(d, text[k]) \in D
  <2>1. PICK line : line = text[k]
    OBVIOUS
  <2>2. line \in Seq(E) /\ PlainHeader(line)
    BY <1>1, <2>1 DEF PlainText
  <2>3. d \in Seq(Sections(E))
    BY <1>2
  <2>4. ParseLine(d, line) \in Seq(Sections(E))
    BY <2>2, <2>3, LineStays
  <2> QED BY <1>2, <2>1, <2>4
<1>5. TextStays(D, n, text)
  BY <1>3, <1>4, Zenon DEF TextStays
<1>6. PICK g : TextRun(g, D, n, text)
  BY <1>1, <1>5, TextFold
<1>7. g \in [0 .. n -> D] /\ ParseText(text) = g[n]
  BY <1>6, Zenon DEF TextRun
<1> QED
  BY <1>2, <1>7

LEMMA ListRead ==
  ASSUME NEW E, NEW v \in Seq(E)
  PROVE  IsList(AsIDList(v))
<1>1. PICK pieces : pieces = Pieces(v, "comma")
  OBVIOUS
<1>2. PICK S : S = Seq(E)
  OBVIOUS
<1>3. pieces \in Seq(S)
  BY <1>1, <1>2, PiecesAre
<1>4. PICK places : places = {i \in DOMAIN pieces : pieces[i] # <<>>}
  OBVIOUS
<1>5. PICK those : those = Selected(pieces, places)
  OBVIOUS
<1>6. those \in Seq(S)
  <2>1. \A k \in 1 .. Len(pieces) : k \in places => pieces[k] \in S
    BY <1>3
  <2> QED BY <1>3, <1>5, <2>1, SelectedIs
<1>7. AsIDList(v) = [i \in DOMAIN those |-> AsFormID(those[i])]
  BY <1>1, <1>4, <1>5, Zenon DEF AsIDList
<1>8. PICK l : l = [i \in DOMAIN those |-> AsFormID(those[i])]
  OBVIOUS
<1>9. l \in Seq({l[i] : i \in DOMAIN l})
  <2>1. PICK n \in Nat : n = Len(those) /\ DOMAIN those = 1 .. n
    BY <1>6
  <2>2. DOMAIN l = 1 .. n /\ l = [i \in 1 .. n |-> l[i]]
    BY <1>8, <2>1
  <2> QED BY <2>2
<1> QED
  BY <1>7, <1>8, <1>9 DEF IsList

LEMMA GetIs ==
  ASSUME NEW E, NEW s \in Sections(E), NEW key
  PROVE  Get(s, key) \in Values(E)
<1>1. <<>> \in Values(E)
  BY DEF Values, Has
<1>2. CASE HasKey(s, key)
  <2>1. PICK T : T = {i \in DOMAIN s.entries : s.entries[i].key = key}
    OBVIOUS
  <2>2. s.entries \in Seq(Assigned(E))
    BY DEF Sections
  <2>3. T \in SUBSET Nat /\ T # {} /\ T \subseteq DOMAIN s.entries
    BY <1>2, <2>1, <2>2 DEF HasKey
  <2>4. PICK m \in T : \A y \in T : m <= y
    BY <2>3, LeastNatural
  <2>5. Min(T) \in T
    BY <2>3, <2>4 DEF Min
  <2>6. s.entries[Min(T)] \in Assigned(E)
    <3>1. PICK V : V = Assigned(E)
      OBVIOUS
    <3>2. PICK entries : entries = s.entries
      OBVIOUS
    <3>3. entries \in Seq(V) /\ Min(T) \in DOMAIN entries
      BY <2>2, <2>3, <2>5, <3>1, <3>2
    <3>4. entries[Min(T)] \in V
      BY <3>3
    <3> QED BY <3>1, <3>2, <3>4
  <2>7. Get(s, key) = s.entries[Min(T)].val
    BY <1>2, <2>1, Zenon DEF Get, Find
  <2> QED BY <2>6, <2>7 DEF Assigned
<1>3. CASE ~HasKey(s, key)
  BY <1>1, <1>3 DEF Get
<1> QED
  BY <1>2, <1>3

\* A section for a weather list says a rule that can be written in a line.
LEMMA LegacyRuleIs ==
  ASSUME NEW E, NEW s \in Sections(E), IsPrefix(<<Word("WEATHERLIST")>>, Base(s)), NEW r, r = LegacyRule(s),
         r.file # <<>>, r.ids # <<>>
  PROVE  IsRule(r, E)
<1>1. PICK name : name = s.name
  OBVIOUS
<1>2. name \in Seq(E) /\ ~Has(name, "=")
  BY <1>1 DEF Sections, Titles
<1>3. r.label = name /\ r.file = Get(s, <<Word("FileName")>>) /\ r.ids = AsIDList(Get(s, <<Word("WorldspaceIDs")>>))
      /\ r = [label |-> r.label, ids |-> r.ids, file |-> r.file]
  BY <1>1 DEF LegacyRule
<1>4. r.file \in Seq(E) /\ ~Has(r.file, "note")
  BY <1>3, GetIs DEF Values
<1>5. IsList(r.ids)
  <2>1. PICK v : v = Get(s, <<Word("WorldspaceIDs")>>)
    OBVIOUS
  <2>2. v \in Seq(E)
    BY <2>1, GetIs DEF Values
  <2>3. IsList(AsIDList(v))
    BY <2>2, ListRead
  <2> QED BY <1>3, <2>1, <2>3
<1>6. name # <<>> /\ name[1][1] = "word"
  <2>1. PICK base : base = Before(name, ":")
    OBVIOUS
  <2>2. base \in Seq(E)
    BY <1>2, <2>1, SplitIs
  <2>3. IsPrefix(<<Word("WEATHERLIST")>>, base)
    BY <1>1, <2>1 DEF Base
  <2>4. base # <<>> /\ base[1] = Word("WEATHERLIST")
    BY <2>2, <2>3 DEF IsPrefix
  <2>5. base[1] = name[1] /\ name # <<>>
    <3>1. CASE Has(name, ":")
      <4>1. PICK m : m = At(name, ":")
        OBVIOUS
      <4>2. m \in 1 .. Len(name) /\ base = SubSeq(name, 1, m - 1)
        BY <1>2, <2>1, <3>1, <4>1, LeastPlace DEF Before
      <4> QED BY <1>2, <2>4, <4>2
    <3>2. CASE ~Has(name, ":")
      BY <2>1, <2>4, <3>2 DEF Before
    <3> QED BY <3>1, <3>2
  <2> QED BY <2>4, <2>5 DEF Word
<1> QED
  BY <1>2, <1>3, <1>4, <1>5, <1>6 DEF IsRule

\* So does the whole of another program's list.
LEMMA LegacyRead ==
  ASSUME NEW E, NEW text, PlainText(text, E)
  PROVE  \E n \in Nat : AreRules(ParseLegacy(text), n, E)
<1>1. PICK doc : doc = ParseText(text)
  OBVIOUS
<1>2. PICK S : S = Sections(E)
  OBVIOUS
<1>3. doc \in Seq(S)
  BY <1>1, <1>2, TextRead
<1>4. PICK T : T = {s \in S : IsPrefix(<<Word("WEATHERLIST")>>, Base(s))}
  OBVIOUS
<1>5. PICK places : places = {i \in DOMAIN doc : IsPrefix(<<Word("WEATHERLIST")>>, Base(doc[i]))}
  OBVIOUS
<1>6. PICK lists : lists = Selected(doc, places)
  OBVIOUS
<1>7. lists \in Seq(T)
  <2>1. \A k \in 1 .. Len(doc) : k \in places => doc[k] \in T
    BY <1>3, <1>4, <1>5
  <2> QED BY <1>3, <1>6, <2>1, SelectedIs
<1>8. PICK all : all = [i \in DOMAIN lists |-> LegacyRule(lists[i])]
  OBVIOUS
<1>9. PICK L : L = {LegacyRule(s) : s \in T}
  OBVIOUS
<1>10. all \in Seq(L)
  <2>1. PICK n \in Nat : n = Len(lists) /\ DOMAIN lists = 1 .. n
    BY <1>7
  <2>2. all = [i \in 1 .. n |-> LegacyRule(lists[i])] /\ \A i \in 1 .. n : lists[i] \in T
    BY <1>7, <1>8, <2>1
  <2> QED BY <1>9, <2>2
<1>11. PICK fit : fit = {i \in DOMAIN all : all[i].file # <<>> /\ all[i].ids # <<>>}
  OBVIOUS
<1>12. PICK U : U = {r \in L : r.file # <<>> /\ r.ids # <<>>}
  OBVIOUS
<1>13. PICK rules : rules = Selected(all, fit)
  OBVIOUS
<1>14. rules \in Seq(U)
  <2>1. \A k \in 1 .. Len(all) : k \in fit => all[k] \in U
    BY <1>10, <1>11, <1>12
  <2> QED BY <1>10, <1>13, <2>1, SelectedIs
<1>15. ASSUME NEW r \in U PROVE IsRule(r, E)
  <2>1. PICK s \in T : r = LegacyRule(s)
    BY <1>9, <1>12
  <2>2. s \in Sections(E) /\ IsPrefix(<<Word("WEATHERLIST")>>, Base(s)) /\ r.file # <<>> /\ r.ids # <<>>
    BY <1>2, <1>4, <1>12
  <2> QED BY <2>1, <2>2, LegacyRuleIs
<1>16. PICK n \in Nat : n = Len(rules) /\ DOMAIN rules = 1 .. n
  BY <1>14
<1>17. rules = [i \in 1 .. n |-> rules[i]] /\ \A i \in 1 .. n : rules[i] \in U
  BY <1>14, <1>16
<1>18. AreRules(rules, n, E)
  BY <1>15, <1>17 DEF AreRules
<1>19. ParseLegacy(text) = rules
  BY <1>1, <1>5, <1>6, <1>8, <1>11, <1>13, Zenon DEF ParseLegacy, Usable
<1> QED
  BY <1>16, <1>18, <1>19

\* What an import writes of another program's list is read as that list.
LEMMA ImportReadBack ==
  ASSUME NEW E, NEW text, PlainText(text, E)
  PROVE  ParseRouting(EmitRouting(ParseLegacy(text), <<>>)) = [rules |-> ParseLegacy(text), default |-> <<>>]
<1>1. PICK rules : rules = ParseLegacy(text)
  OBVIOUS
<1>2. PICK n \in Nat : AreRules(rules, n, E)
  BY <1>1, LegacyRead
<1>3. ParseRouting(EmitRouting(rules, <<>>)) = [rules |-> rules, default |-> <<>>]
  BY <1>2, RoutingReadBack
<1> QED
  BY <1>1, <1>3

\* A list of another program whose names of sections have no "=": a rule is
\* written with the name before an "=", and would be cut at the first.
PlainHeaders == \A f \in Folders : f.legacy # Absent => \A k \in 1 .. Len(f.legacy) : PlainHeader(f.legacy[k])

\* What has been imported is what the list, which nobody changes, says.
ImportInv ==
  /\ enbseries.legacy \in {f.legacy : f \in Folders}
  /\ enbseries.imported =>
       enbseries.legacy # Absent /\ enbseries.routing = EmitRouting(ParseLegacy(enbseries.legacy), <<>>)

LEMMA ImportStarts ==
  ASSUME IsFolder(enbseries), ImportInv, InitializeRouter
  PROVE  ImportInv'
<1>1. PICK read : /\ read = Loaded
                  /\ enbseries' = IF enbseries.routing = Absent /\ read.rules # <<>>
                                  THEN [enbseries EXCEPT !.routing = EmitRouting(read.rules, <<>>), !.imported = TRUE]
                                  ELSE enbseries
  BY Zenon DEF InitializeRouter
<1>2. CASE enbseries' = enbseries
  BY <1>2 DEF ImportInv
<1>3. CASE enbseries' # enbseries
  <2>1. PICK text : text = EmitRouting(read.rules, <<>>)
    OBVIOUS
  <2>2. enbseries.routing = Absent /\ read.rules # <<>> /\ enbseries' = [enbseries EXCEPT !.routing = text, !.imported = TRUE]
    BY <1>1, <1>3, <2>1
  <2>3. enbseries'.legacy = enbseries.legacy /\ enbseries'.routing = text
    BY <2>2 DEF IsFolder
  <2>4. enbseries.legacy # Absent /\ read.rules = ParseLegacy(enbseries.legacy)
    <3>1. read.rules = IF enbseries.legacy = Absent THEN <<>> ELSE ParseLegacy(enbseries.legacy)
      BY <1>1, <2>2 DEF Loaded
    <3> QED BY <2>2, <3>1
  <2> QED BY <2>1, <2>3, <2>4 DEF ImportInv
<1> QED
  BY <1>2, <1>3

LEMMA ImportInit == NativeInit => ImportInv
BY NativeAssumption DEF NativeInit, ImportInv, NativeAssumption

LEMMA ImportStep == ListInv /\ ImportInv /\ [NativeNext]_<<suiteVars, componentVars>> => ImportInv'
<1> SUFFICES ASSUME ListInv, ImportInv, [NativeNext]_<<suiteVars, componentVars>> PROVE ImportInv'
  OBVIOUS
<1>1. ASSUME UNCHANGED enbseries PROVE ImportInv'
  BY <1>1 DEF ImportInv
<1>2. ASSUME NEW m, NEW e, LoadModule(m, e) PROVE ImportInv'
  BY <1>1, <1>2 DEF LoadModule, listVars
<1>3. CASE PostLoad
  <2>1. UNCHANGED listVars
    BY <1>3, Zenon DEF PostLoad
  <2> QED BY <1>1, <2>1 DEF listVars
<1>4. CASE DataLoaded
  <2>1. InitializeList(compat')
    BY <1>4, Zenon DEF DataLoaded
  <2>2. CASE UNCHANGED listVars
    BY <1>1, <2>2 DEF listVars
  <2>3. CASE InitializeRouter
    BY <2>3, ImportStarts DEF ListInv, Placing
  <2> QED BY <2>1, <2>2, <2>3 DEF InitializeList
<1>5. CASE Restart
  BY <1>1, <1>5 DEF Restart
<1>6. ASSUME NEW ws, NativeFrame(ws) PROVE ImportInv'
  <2>1. UpdateRouter(ws)
    BY <1>6 DEF NativeFrame
  <2>2. \/ UNCHANGED enbseries
        \/ \E file : enbseries' = [enbseries EXCEPT !.installed = Content(file)]
    <3>1. PICK r : r = [router EXCEPT !.last = ws]
      OBVIOUS
    <3>2. UNCHANGED enbseries \/ ApplyWeatherlist(r, Wanted(r, ws))
      BY <2>1, <3>1, Zenon DEF UpdateRouter
    <3> QED BY <3>2 DEF ApplyWeatherlist
  <2>3. CASE \E file : enbseries' = [enbseries EXCEPT !.installed = Content(file)]
    <3>1. PICK content : enbseries' = [enbseries EXCEPT !.installed = content]
      BY <2>3
    <3>2. /\ enbseries'.legacy = enbseries.legacy /\ enbseries'.routing = enbseries.routing
          /\ enbseries'.imported = enbseries.imported
      BY <3>1 DEF ListInv, Placing, IsFolder
    <3> QED BY <3>2 DEF ImportInv
  <2> QED BY <1>1, <2>2, <2>3
<1>7. ASSUME NEW f, NEW n, SetName(f, n) PROVE ImportInv'
  BY <1>1, <1>7 DEF SetName, listVars
<1>8. ASSUME NEW r, NEW f, NEW o, AskName(r, f, o) PROVE ImportInv'
  BY <1>1, <1>8 DEF AskName, listVars
<1>9. ASSUME NEW r, TakeName(r) PROVE ImportInv'
  BY <1>1, <1>9 DEF TakeName, listVars
<1>10. ASSUME NEW p, LoadProfile(p) PROVE ImportInv'
  BY <1>1, <1>10 DEF LoadProfile, listVars
<1>12. CASE OthersTouchLists
  <2>1. PICK kept, locked : enbseries' = [enbseries EXCEPT !.lists = kept, !.locked = locked]
    BY <1>12 DEF OthersTouchLists, ListsChange
  <2>2. /\ enbseries'.legacy = enbseries.legacy /\ enbseries'.routing = enbseries.routing
        /\ enbseries'.imported = enbseries.imported
    BY <2>1 DEF ListInv, Placing, IsFolder
  <2> QED BY <2>2 DEF ImportInv
<1>11. CASE UNCHANGED <<suiteVars, componentVars>>
  BY <1>1, <1>11 DEF componentVars, listVars
<1> QED
  BY <1>2, <1>3, <1>4, <1>5, <1>6, <1>7, <1>8, <1>9, <1>10, <1>11, <1>12 DEF NativeNext

LEMMA ImportedReadBack == ASSUME PlainHeaders, ImportInv PROVE RoutesSurviveImport
<1>1. SUFFICES ASSUME enbseries.imported
      PROVE  ParseRouting(enbseries.routing) = [rules |-> ParseLegacy(enbseries.legacy), default |-> <<>>]
  BY DEF RoutesSurviveImport
<1>2. PICK text : text = enbseries.legacy
  OBVIOUS
<1>3. PICK f \in Folders : f.legacy = text
  BY <1>2 DEF ImportInv
<1>4. text # Absent /\ enbseries.routing = EmitRouting(ParseLegacy(text), <<>>)
  BY <1>1, <1>2 DEF ImportInv
<1>5. IsText(text) /\ \A k \in 1 .. Len(text) : PlainHeader(text[k])
  BY <1>3, <1>4, NativeAssumption DEF NativeAssumption, PlainHeaders
<1>6. PICK E : E = UNION {Range(text[i]) : i \in DOMAIN text}
  OBVIOUS
<1>7. PlainText(text, E)
  BY <1>5, <1>6 DEF PlainText, IsText
<1>8. ParseRouting(EmitRouting(ParseLegacy(text), <<>>)) = [rules |-> ParseLegacy(text), default |-> <<>>]
  BY <1>7, ImportReadBack
<1> QED
  BY <1>2, <1>4, <1>8

\* Where no name of a section has an "=", the rules that were imported from
\* another program's list, however long, are read back the same in every later
\* session (ParseLegacy, EmitRouting, ParseRouting).
THEOREM ImportsSurvive == ASSUME PlainHeaders PROVE NativeSpec => []RoutesSurviveImport
<1>1. ImportInv => RoutesSurviveImport
  BY ImportedReadBack
<1> QED
  BY <1>1, ListInit, ListStep, ImportInit, ImportStep, PTL DEF NativeSpec
=============================================================================
