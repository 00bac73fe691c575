--------------------------- MODULE TextureConversion ---------------------------
(***************************************************************************)
(* Foreign textures (.png, .tga, .bmp) made into .dds files, for one       *)
(* texture the engine asks for: the scan that writes a sibling next to the *)
(* source (core/TextureAutoConvert.cpp), on its own thread or for a        *)
(* command, and the detour in the engine's loader that, when the .dds is   *)
(* missing, converts the source into a cache and has the loader open that  *)
(* (core/TextureLoadHook.cpp), on any loader thread and under s_mx.        *)
(* Textures meet only in that mutex and in the scan's busy flag.           *)
(*                                                                         *)
(* Files outlive the game's process.  Time is the number of edits made to  *)
(* the sources: an edit made at a time is that version of the file.  What  *)
(* is in a .dds is the source and the version it was made from, and        *)
(* whether all of it was written.                                          *)
(***************************************************************************)
EXTENDS Naturals, Sequences

CONSTANTS
  Loaders,      \* the engine's loader threads
  Nobody,       \* s_mx is free
  Exts,         \* <<".png", ".tga", ".bmp">> in the code: the order they are tried in
  Refresh,      \* [TextureConvert] Refresh
  MaxTime,      \* bound: edits of the sources
  MaxSessions   \* bound: game processes, one after the other

Sources == {Exts[i] : i \in DOMAIN Exts}

ASSUME TextureAssumption ==
  /\ Nobody \notin Loaders
  /\ Refresh \in BOOLEAN
  /\ MaxTime \in Nat \ {0} /\ MaxSessions \in Nat \ {0}
  /\ Exts \in Seq(Sources) /\ Exts # <<>>

Times   == 0 .. MaxTime
Places  == {"target", "cache"}   \* the sibling the scan writes, the hook's cache file
Missing == 0                     \* the version of a source that does not exist
Other   == "other"               \* a .dds that was not made here

ASSUME NamesAssumption == Other \notin Sources

VARIABLES
  time, src, dds,           \* the disk: edits, versions of the sources, .dds files
  step, ext, version,       \* the conversion into each place
  busy, todo,               \* RunScan: m_busy, entries not yet visited
  holder, next, memo,       \* ResolveForeign: s_mx, extension to try, s_redirect
  lpc,                      \* Detour, in each loader
  sessions,
  asked, made, disturbed, settled   \* observation

disk     == <<time, src, dds>>
converts == <<step, ext, version>>
scan     == <<busy, todo>>
hook     == <<holder, next, memo, lpc>>
observed == <<asked, made, disturbed, settled>>
vars     == <<disk, converts, scan, hook, sessions, observed>>

NoFile == [ext |-> Other, version |-> Missing, time |-> 0, whole |-> FALSE]
File   == [ext : Sources \cup {Other}, version : Times, time : Times, whole : BOOLEAN]

TypeOK ==
  /\ time \in Times /\ src \in [Sources -> Times] /\ dds \in [Places -> File]
  /\ step \in [Places -> {"none", "decode", "open", "write"}]
  /\ ext \in [Places -> Sources] /\ version \in [Places -> Times]
  /\ busy \in BOOLEAN /\ todo \subseteq Sources
  /\ holder \in Loaders \cup {Nobody} /\ next \in 1 .. Len(Exts) + 1
  /\ memo \in {"unknown", "none", "cache"}
  /\ lpc \in [Loaders -> {"idle", "missed", "resolve", "reopen"}]
  /\ sessions \in 0 .. MaxSessions
  /\ asked \in [Sources -> Times] /\ made \subseteq Sources \X Times
  /\ disturbed \in BOOLEAN /\ settled \in {"no", "pending", "yes"}

Init ==
  /\ time = 1 /\ src \in [Sources -> {Missing, 1}] /\ dds = [p \in Places |-> NoFile]
  /\ step = [p \in Places |-> "none"] /\ version = [p \in Places |-> Missing]
  /\ ext = [p \in Places |-> Exts[1]]
  /\ busy = FALSE /\ todo = {}
  /\ holder = Nobody /\ next = 1 /\ memo = "unknown"
  /\ lpc = [l \in Loaders |-> "idle"]
  /\ sessions = 1
  /\ asked = [e \in Sources |-> Missing] /\ made = {} /\ disturbed = FALSE /\ settled = "no"

Exists(p) == dds[p] # NoFile

-----------------------------------------------------------------------------
(* TextureLoadHook: ResolveForeign, under s_mx.                            *)

\* The loader that holds the mutex remembers the answer and gives the mutex back.
Answer(result) ==
  /\ memo' = result
  /\ holder' = Nobody /\ next' = 1
  /\ lpc' = [lpc EXCEPT ![holder] = IF result = "cache" THEN "reopen" ELSE "idle"]

\* Wrong: a cache file is good as long as it exists.
FreshIfThere(e) == Exists("cache")

\* Wrong: a cache file as old as its source is made again.
FreshIfNewer(e) == Exists("cache") /\ dds["cache"].time > src[e]

\* The cache file exists and is not older than the source.
Fresh(e) == Exists("cache") /\ dds["cache"].time >= src[e]

\* The detour: the engine's own function first, which finds the sibling, and may
\* find it locked while the scan writes it.
Ask(l) ==
  /\ lpc[l] = "idle"
  /\ ~Exists("target") \/ step["target"] = "write"
  /\ lpc' = [lpc EXCEPT ![l] = "missed"]
  /\ UNCHANGED <<disk, converts, scan, holder, next, memo, sessions, observed>>

\* s_mx is taken, and the answer of an earlier miss found.
Recall(l) ==
  /\ lpc[l] = "missed" /\ holder = Nobody /\ memo # "unknown"
  /\ lpc' = [lpc EXCEPT ![l] = IF memo = "cache" THEN "reopen" ELSE "idle"]
  /\ UNCHANGED <<disk, converts, scan, holder, next, memo, sessions, observed>>

ResolveForeign(l) ==
  /\ lpc[l] = "missed" /\ holder = Nobody /\ memo = "unknown"
  /\ holder' = l /\ next' = 1
  /\ lpc' = [lpc EXCEPT ![l] = "resolve"]
  /\ asked' = src
  /\ UNCHANGED <<disk, converts, scan, memo, sessions, made, disturbed, settled>>

Resolving == holder # Nobody /\ step["cache"] = "none"

\* The next extension: there is no such source, or its conversion is there, or
\* it has to be made.
Probe ==
  /\ Resolving /\ next <= Len(Exts)
  /\ LET e == Exts[next] IN
       \/ /\ src[e] = Missing
          /\ next' = next + 1
          /\ UNCHANGED <<converts, holder, memo, lpc>>
       \/ /\ src[e] # Missing /\ Fresh(e)
          /\ Answer("cache")
          /\ UNCHANGED converts
       \/ /\ src[e] # Missing /\ ~Fresh(e)
          /\ step' = [step EXCEPT !["cache"] = "decode"]
          /\ ext' = [ext EXCEPT !["cache"] = e]
          /\ next' = next + 1
          /\ UNCHANGED <<version, holder, memo, lpc>>
  /\ UNCHANGED <<disk, scan, sessions, observed>>

\* No source, or none that could be converted: remembered for the session.
NoSource ==
  /\ Resolving /\ next > Len(Exts)
  /\ Answer("none")
  /\ UNCHANGED <<disk, converts, scan, sessions, observed>>

\* The engine's own function again, on the cache path; if it fails as well the
\* first error is returned.
Reopen(l) ==
  /\ lpc[l] = "reopen"
  /\ lpc' = [lpc EXCEPT ![l] = "idle"]
  /\ UNCHANGED <<disk, converts, scan, holder, next, memo, sessions, observed>>

-----------------------------------------------------------------------------
(* TextureAutoConvert: RunScan.                                            *)

\* m_busy is taken by one caller; any other returns at once.  A dry run only counts
\* what it visits.
RunScan(dryRun) ==
  /\ ~busy
  /\ busy' = TRUE /\ todo' = IF dryRun THEN {} ELSE Sources
  /\ settled' = IF ~dryRun /\ settled = "no" THEN "pending" ELSE settled
  /\ UNCHANGED <<disk, converts, hook, sessions, asked, made, disturbed>>

Scanning == busy /\ step["target"] = "none"

\* Wrong: a sibling as old as its source is converted again.
OutdatedAtOnce(e) == ~Exists("target") \/ (Refresh /\ src[e] >= dds["target"].time)

\* There is no sibling, or Refresh is set and the source is newer.
Outdated(e) == ~Exists("target") \/ (Refresh /\ src[e] > dds["target"].time)

\* An entry of the directory; entries come in any order.
Visit(e) ==
  /\ Scanning /\ e \in todo
  /\ todo' = todo \ {e}
  /\ IF src[e] # Missing /\ Outdated(e)
     THEN /\ step' = [step EXCEPT !["target"] = "decode"]
          /\ ext' = [ext EXCEPT !["target"] = e]
          /\ UNCHANGED version
     ELSE UNCHANGED converts
  /\ UNCHANGED <<disk, busy, hook, sessions, observed>>

EndScan ==
  /\ Scanning /\ todo = {}
  /\ busy' = FALSE
  /\ settled' = IF settled = "pending" THEN "yes" ELSE settled
  /\ UNCHANGED <<disk, converts, todo, hook, sessions, asked, made, disturbed>>

-----------------------------------------------------------------------------
(* TexCodec::Convert, into either place.                                   *)

\* The conversion ends, one way or the other.
Over(p) ==
  /\ step' = [step EXCEPT ![p] = "none"]
  /\ ext' = [ext EXCEPT ![p] = Exts[1]] /\ version' = [version EXCEPT ![p] = Missing]

\* Convert returns: the scan goes on whatever the result; the hook answers with
\* the cache, or goes on to the next extension.
Converted(p) ==
  /\ Over(p)
  /\ IF p = "cache" THEN Answer("cache") ELSE UNCHANGED <<next, memo, holder, lpc>>

\* ... or it throws: the scan catches that for the file, the hook for the texture.
NotConverted(p) ==
  /\ Over(p)
  /\ \/ p = "cache" /\ Answer("none")
     \/ UNCHANGED <<next, memo, holder, lpc>>
  /\ disturbed' = (disturbed \/ p = "cache") /\ settled' = "no"

Decode(p) ==
  /\ step[p] = "decode"
  /\ \/ /\ src[ext[p]] # Missing
        /\ version' = [version EXCEPT ![p] = src[ext[p]]]
        /\ step' = [step EXCEPT ![p] = "open"]
        /\ UNCHANGED <<ext, next, memo, holder, lpc, disturbed, settled>>
     \/ NotConverted(p)
  /\ UNCHANGED <<disk, scan, sessions, asked, made>>

\* What is at p while and after it is written, up to now.
Written(p, whole) ==
  [ext |-> ext[p], version |-> version[p], time |-> time, whole |-> whole]

\* Opening truncates the file at once.
Open(p) ==
  /\ step[p] = "open"
  /\ \/ /\ dds' = [dds EXCEPT ![p] = Written(p, FALSE)]
        /\ step' = [step EXCEPT ![p] = "write"]
        /\ UNCHANGED <<ext, version, next, memo, holder, lpc, disturbed, settled>>
     \/ NotConverted(p) /\ UNCHANGED dds
  /\ UNCHANGED <<time, src, scan, sessions, asked, made>>

\* A write that fails leaves a part of the file.  Convert returns before the
\* stream is closed: it misses a failure that comes with the last flush.
Write(p) ==
  /\ step[p] = "write"
  /\ \/ /\ dds' = [dds EXCEPT ![p] = Written(p, TRUE)]
        /\ Converted(p)
        /\ made' = IF p = "cache" THEN made \cup {<<ext[p], version[p]>>} ELSE made
        /\ UNCHANGED <<disturbed, settled>>
     \/ /\ dds' = [dds EXCEPT ![p] = Written(p, FALSE)]
        /\ Converted(p)
        /\ disturbed' = (disturbed \/ p = "cache") /\ settled' = "no"
        /\ UNCHANGED made
     \/ /\ dds' = [dds EXCEPT ![p] = Written(p, FALSE)]
        /\ NotConverted(p)
        /\ UNCHANGED made
  /\ UNCHANGED <<time, src, scan, sessions, asked>>

-----------------------------------------------------------------------------
(* The player, a mod manager, another tool; and the game's process.        *)

EditSource(e) ==
  /\ time < MaxTime
  /\ time' = time + 1
  /\ src' = [src EXCEPT ![e] = time + 1]
  /\ disturbed' = (disturbed \/ holder # Nobody) /\ settled' = "no"
  /\ UNCHANGED <<dds, converts, scan, hook, sessions, asked, made>>

\* A source is deleted, or an older one put back.
RevertSource(e) ==
  /\ \E old \in Times : old < src[e] /\ src' = [src EXCEPT ![e] = old]
  /\ disturbed' = TRUE /\ settled' = "no"
  /\ UNCHANGED <<time, dds, converts, scan, hook, sessions, asked, made>>

\* A .dds, the oldest or the newest, is put next to the source (also by a texture.convert command),
\* or removed.
ChangeTarget ==
  /\ \E file \in {NoFile} \cup [ext : {Other}, version : {Missing}, time : {0, time},
                               whole : {TRUE}] :
       dds' = [dds EXCEPT !["target"] = file]
  /\ step["target"] # "write"
  /\ settled' = "no"
  /\ UNCHANGED <<time, src, converts, scan, hook, sessions, asked, made, disturbed>>

\* The game ends, by a crash or while the detached scan is running, and is started
\* again: only the files are left.
Restart ==
  /\ sessions < MaxSessions
  /\ sessions' = sessions + 1
  /\ step' = [p \in Places |-> "none"]
  /\ ext' = [p \in Places |-> Exts[1]] /\ version' = [p \in Places |-> Missing]
  /\ busy' = FALSE /\ todo' = {}
  /\ holder' = Nobody /\ next' = 1 /\ memo' = "unknown"
  /\ lpc' = [l \in Loaders |-> "idle"]
  /\ disturbed' = (disturbed \/ step["cache"] = "write")
  /\ settled' = IF busy THEN "no" ELSE settled
  /\ asked' = [e \in Sources |-> Missing]
  /\ UNCHANGED <<disk, made>>

-----------------------------------------------------------------------------
Load == \E l \in Loaders : Ask(l) \/ Recall(l) \/ ResolveForeign(l) \/ Reopen(l)

Scan == (\E dryRun \in BOOLEAN : RunScan(dryRun)) \/ (\E e \in Sources : Visit(e)) \/ EndScan

Convert == \E p \in Places : Decode(p) \/ Open(p) \/ Write(p)

World == (\E e \in Sources : EditSource(e) \/ RevertSource(e)) \/ ChangeTarget \/ Restart

Next == Load \/ Probe \/ NoSource \/ Scan \/ Convert \/ World
Spec == Init /\ [][Next]_vars

-----------------------------------------------------------------------------
(* Properties.                                                             *)

\* A loader that is sent to the cache finds there the whole of what the first
\* existing source looked like when the session first missed the texture: never
\* a part of a file that another thread is writing, nor what was made of an
\* older or of a less preferred source.  It is so unless a source went back in
\* time or changed during the resolution, or a conversion failed or was cut off
\* (TextureLoadHook.cpp ResolveForeign: s_mx, s_redirect, fresh).
ServedIsCurrent ==
  \A l \in Loaders : lpc[l] = "reopen" /\ ~disturbed =>
    \E i \in DOMAIN Exts :
      /\ dds["cache"].whole /\ dds["cache"].ext = Exts[i]
      /\ dds["cache"].version = asked[Exts[i]]
      /\ \A j \in 1 .. i - 1 : asked[Exts[j]] = Missing

\* "Transcode happens at most once per source state" (TextureLoadHook.cpp:68),
\* over all sessions, with the same exceptions.
TranscodedOnce ==
  [][~disturbed /\ dds'["cache"] # dds["cache"] /\ dds'["cache"].whole =>
       <<ext["cache"], version["cache"]>> \notin made]_vars

\* "Idempotent" (TextureAutoConvert.h:11): after a scan that nothing disturbed, and
\* as long as no file changes, no scan converts anything, in this session or in
\* a later one (VALIDATION-PROTOCOL.md: "the second run must convert 0").
ScanIsIdempotent ==
  [][step["target"] = "none" /\ step'["target"] = "decode" => settled # "yes"]_vars
=============================================================================
