---------------------------- MODULE EditorIDCache ----------------------------
(***************************************************************************)
(* The names of forms, which the game forgets: a hook on the method that   *)
(* sets a form's name keeps them, or another plugin that keeps them is     *)
(* asked.  The hook goes into the table of every form type; a reader gets  *)
(* a reference to the name under the lock and reads it without.            *)
(***************************************************************************)
EXTENDS CompatDetect, Integers, Functions

CONSTANTS FormTypes,  \* in the order in which their tables are hooked
          Forms,      \* functions of form identifiers: [type, dynamic]
          Names,      \* "" among them
          Readers

ASSUME FormTypesAssumption ==
    FormTypes \in Seq(STRING) /\ FormTypes # <<>> /\ IsInjective(FormTypes) /\ "thunk" \notin Range(FormTypes)

VARIABLES ids,     \* [installed, provider, func]: func is the original method, one for all
          vtable,  \* of every form type: the method in its table
          cache,   \* m_cache, a function of form identifiers
          known,   \* the game's map from names to forms
          buffer,  \* m_proxyBuffer
          reader   \* of every reader: the reference that it holds

idVars == <<ids, vtable, cache, known, buffer, reader>>

Empty == <<"empty">>
NotInstalled == [installed |-> FALSE, provider |-> Nobody, func |-> Nobody]
Unhooked == [t \in Range(FormTypes) |-> t]
Idle == [r \in Readers |-> [ref |-> Empty, name |-> "", got |-> ""]]
EditorIDInit ==
    ids = NotInstalled /\ vtable = Unhooked /\ cache = <<>> /\ known = <<>> /\ buffer = "" /\ reader = Idle
FreshIDs ==
    ids' = NotInstalled /\ vtable' = Unhooked /\ cache' = <<>> /\ known' = <<>> /\ buffer' = "" /\ reader' = Idle

-----------------------------------------------------------------------------
\* Every form type is hooked in turn, and leaves its original method in func.
Hooked == [t \in Range(FormTypes) |-> "thunk"]
InstallNative ==
    /\ ids' = [installed |-> TRUE, provider |-> Nobody, func |-> vtable[Last(FormTypes)]]
    /\ vtable' = Hooked
\* A provider without the export is no provider.
InstallEditorIDs(c) ==
    /\ ~ids.installed
    /\ IF HasExternalEditorIDProvider(c) /\ c.provider # Nobody
       THEN ids' = [ids EXCEPT !.installed = TRUE, !.provider = c.provider] /\ UNCHANGED vtable
       ELSE InstallNative
    /\ UNCHANGED <<cache, known, buffer, reader>>

\* try_emplace, emplace: what is there stays.
Emplaced(map, key, value) == [k \in DOMAIN map \cup {key} |-> IF k \in DOMAIN map THEN map[k] ELSE value]

\* Wrong: a form that gets a second name is renamed.
StoreOver(form, name) == [f \in DOMAIN cache \cup {form} |-> IF f = form THEN name ELSE cache[f]]

\* Store: the first name of a form stays.
Store(form, name) == Emplaced(cache, form, name)

\* The game sets the name of a form while it loads its data.
SetFormEditorID(form, name) ==
    /\ IF vtable[Forms[form].type] = "thunk" /\ name # "" /\ ~Forms[form].dynamic
       THEN cache' = Store(form, name) /\ known' = Emplaced(known, name, form)
       ELSE UNCHANGED <<cache, known>>
    /\ UNCHANGED <<ids, vtable, buffer, reader>>

\* Lookup: outside provides what the other plugin answers.
LookupName(r, form, outside) ==
    /\ IF ids.provider # Nobody
       THEN IF outside[form] = "" THEN reader' = [reader EXCEPT ![r] = [@ EXCEPT !.ref = Empty, !.name = ""]] /\ UNCHANGED buffer
            ELSE /\ buffer' = outside[form]
                 /\ reader' = [reader EXCEPT ![r] = [@ EXCEPT !.ref = <<"buffer">>, !.name = outside[form]]]
       ELSE /\ UNCHANGED buffer
            /\ reader' = [reader EXCEPT ![r] =
                   IF form \in DOMAIN cache THEN [@ EXCEPT !.ref = <<"node", form>>, !.name = cache[form]]
                   ELSE [@ EXCEPT !.ref = Empty, !.name = ""]]
    /\ UNCHANGED <<ids, vtable, cache, known>>
Behind(ref) == IF ref = Empty THEN "" ELSE IF ref[1] = "buffer" THEN buffer ELSE cache[ref[2]]
\* The reader copies what its reference refers to by now.
CopyName(r) ==
    /\ reader[r].ref # Empty /\ reader' = [reader EXCEPT ![r] = [ref |-> Empty, name |-> "", got |-> Behind(@.ref)]]
    /\ UNCHANGED <<ids, vtable, cache, known, buffer>>

-----------------------------------------------------------------------------
\* In the cache of our own a reference keeps its name for as long as it is
\* held, whatever the loading thread sets meanwhile (Lookup, Store); the
\* buffer of the other mode does not give that.
ReferencesHold ==
    \A r \in Readers : reader[r].ref # Empty /\ ids.provider = Nobody => Behind(reader[r].ref) = reader[r].name
=============================================================================
