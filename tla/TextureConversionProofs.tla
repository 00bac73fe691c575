------------------------ MODULE TextureConversionProofs ------------------------
(***************************************************************************)
(* What the conversion of textures promises, for any number of loaders,    *)
(* kinds of source, edits and game processes.                              *)
(*                                                                         *)
(* The inductive invariant has three parts.  Times: nothing on the disk is *)
(* newer than now, so that an edit outdates every .dds.  The cache: whose  *)
(* turn it is, what the holder of the mutex has seen, and what a file that *)
(* nobody is writing was made of.  The scan: which entries it has brought  *)
(* up to date.                                                             *)
(***************************************************************************)
EXTENDS TextureConversion, TLAPS

\* Nothing on the disk is newer than now.
InThePast ==
  /\ \A e \in Sources : src[e] <= time
  /\ \A p \in Places : dds[p].time <= time

\* A conversion has a thread that runs it.
Owned ==
  /\ step["target"] # "none" => busy
  /\ step["cache"] # "none" => holder # Nobody
  /\ holder # Nobody => memo = "unknown"
  /\ \A l \in Loaders : lpc[l] = "reopen" => memo = "cache"

\* What was transcoded is not newer than the cache.
MadeBefore ==
  ~disturbed => \A m \in made : m[2] # Missing /\ m[2] <= dds["cache"].time

\* The holder of the mutex has passed missing sources only, and converts one it
\* has not converted in that version.
Resolved ==
  ~disturbed /\ holder # Nobody =>
    /\ asked = src
    /\ step["cache"] = "none" => \A j \in 1 .. next - 1 : src[Exts[j]] = Missing
    /\ step["cache"] # "none" =>
         /\ next > 1 /\ ext["cache"] = Exts[next - 1] /\ src[ext["cache"]] # Missing
         /\ \A j \in 1 .. next - 2 : src[Exts[j]] = Missing
         /\ <<ext["cache"], src[ext["cache"]]>> \notin made
         /\ step["cache"] # "decode" => version["cache"] = src[ext["cache"]]

\* The cache was made of source i, and is outdated by any later edit of it or of
\* a preferred source.
MadeOf(i) ==
  /\ dds["cache"].ext = Exts[i]
  /\ dds["cache"].version # Missing /\ dds["cache"].version <= src[Exts[i]]
  /\ src[Exts[i]] <= dds["cache"].time => dds["cache"].version = src[Exts[i]]
  /\ \A j \in 1 .. i - 1 : src[Exts[j]] = Missing \/ src[Exts[j]] > dds["cache"].time

CacheIsWhole ==
  ~disturbed /\ step["cache"] # "write" /\ Exists("cache") =>
    dds["cache"].whole /\ \E i \in DOMAIN Exts : MadeOf(i)

\* The cache holds source i as the session first saw it.
Serves(i) ==
  /\ dds["cache"].whole /\ dds["cache"].ext = Exts[i]
  /\ dds["cache"].version = asked[Exts[i]]
  /\ \A j \in 1 .. i - 1 : asked[Exts[j]] = Missing

Remembered ==
  ~disturbed /\ memo = "cache" => \E i \in DOMAIN Exts : Serves(i)

\* An entry that a scan has nothing to do for.
Done(e) == src[e] = Missing \/ ~Outdated(e)

Scanned ==
  /\ settled = "yes" => \A e \in Sources : Done(e)
  /\ settled = "pending" =>
       /\ busy
       /\ \A e \in Sources \ todo :
            Done(e) \/ (step["target"] \in {"decode", "open"} /\ e = ext["target"])

CacheInv == Resolved /\ CacheIsWhole /\ Remembered
IInv == TypeOK /\ InThePast /\ Owned /\ MadeBefore /\ CacheInv /\ Scanned

-----------------------------------------------------------------------------
(* The constants, and the types of what is on the disk.                    *)

LEMMA ExtFacts ==
  /\ Len(Exts) \in Nat \ {0} /\ DOMAIN Exts = 1 .. Len(Exts)
  /\ \A i \in DOMAIN Exts : Exts[i] \in Sources
  /\ "target" \in Places /\ "cache" \in Places /\ "target" # "cache"
  /\ 0 \in Times /\ Times \subseteq Nat /\ Missing = 0
<1>1. Exts \in Seq(Sources) /\ Exts # <<>>
  BY TextureAssumption DEF TextureAssumption
<1>2. Len(Exts) \in Nat \ {0} /\ DOMAIN Exts = 1 .. Len(Exts)
  BY <1>1
<1>3. \A i \in DOMAIN Exts : Exts[i] \in Sources
  BY DEF Sources
<1>4. 0 \in Times /\ Times \subseteq Nat
  BY TextureAssumption DEF TextureAssumption, Times
<1> QED
  BY <1>2, <1>3, <1>4 DEF Places, Missing

LEMMA FileFacts ==
  /\ NoFile \in File /\ NoFile.time = 0
  /\ \A f \in File : f.time \in Nat /\ f.version \in Nat /\ f.whole \in BOOLEAN
  /\ \A f \in File : f.ext \in Sources => f # NoFile
<1>1. NoFile.time = 0 /\ NoFile.ext = Other
  BY DEF NoFile
<1>2. NoFile \in File
  BY ExtFacts DEF NoFile, File, Missing
<1>3. \A f \in File : f.time \in Nat /\ f.version \in Nat /\ f.whole \in BOOLEAN
  BY ExtFacts DEF File
<1> QED
  BY <1>1, <1>2, <1>3, NamesAssumption DEF NamesAssumption

LEMMA WrittenLemma ==
  ASSUME TypeOK, NEW p \in Places, NEW whole \in BOOLEAN
  PROVE  /\ Written(p, whole) \in File /\ Written(p, whole) # NoFile
         /\ Written(p, whole).ext = ext[p] /\ Written(p, whole).version = version[p]
         /\ Written(p, whole).time = time /\ Written(p, whole).whole = whole
<1>1. ext[p] \in Sources /\ version[p] \in Times /\ time \in Times
  BY DEF TypeOK
<1>2. Written(p, whole) \in File
  BY <1>1 DEF Written, File
<1>3. /\ Written(p, whole).ext = ext[p] /\ Written(p, whole).version = version[p]
      /\ Written(p, whole).time = time /\ Written(p, whole).whole = whole
  BY DEF Written
<1> QED
  BY <1>1, <1>2, <1>3, FileFacts

-----------------------------------------------------------------------------
(* Steps that leave the files and what is known of them alone.             *)

LEMMA CacheStays ==
  ASSUME TypeOK, CacheInv, MadeBefore,
         UNCHANGED <<src, asked, made, holder, next, memo, disturbed>>,
         dds'["cache"] = dds["cache"], step'["cache"] = step["cache"],
         ext'["cache"] = ext["cache"], version'["cache"] = version["cache"]
  PROVE  CacheInv' /\ MadeBefore'
<1>1. Resolved'
  BY DEF CacheInv, Resolved
<1>2. CacheIsWhole'
  BY DEF CacheInv, CacheIsWhole, MadeOf, Exists
<1>3. Remembered'
  BY DEF CacheInv, Remembered, Serves
<1> QED
  BY <1>1, <1>2, <1>3 DEF CacheInv, MadeBefore

LEMMA ScanStays ==
  ASSUME TypeOK, Scanned, UNCHANGED <<src, busy, todo>>, settled' \in {settled, "no"},
         dds'["target"] = dds["target"], step'["target"] = step["target"],
         ext'["target"] = ext["target"]
  PROVE  Scanned'
BY DEF Scanned, Done, Outdated, Exists
LEMMA DiskStays ==
  ASSUME InThePast, UNCHANGED disk
  PROVE  InThePast'
BY DEF InThePast, disk

-----------------------------------------------------------------------------
(* The detour, one lemma per step.                                         *)

LEMMA AskKeeps ==
  ASSUME IInv, NEW l \in Loaders, Ask(l)
  PROVE  IInv'
<1>1. TypeOK'
  BY DEF IInv, TypeOK, Ask, disk, converts, scan, observed
<1>2. Owned'
  BY DEF IInv, TypeOK, Owned, Ask, converts, scan
<1>3. CacheInv' /\ MadeBefore'
  BY CacheStays DEF IInv, Ask, disk, converts, observed
<1>4. Scanned'
  BY ScanStays DEF IInv, Ask, disk, converts, scan, observed
<1> QED
  BY <1>1, <1>2, <1>3, <1>4, DiskStays DEF IInv, Ask

LEMMA RecallKeeps ==
  ASSUME IInv, NEW l \in Loaders, Recall(l)
  PROVE  IInv'
<1>1. TypeOK'
  BY DEF IInv, TypeOK, Recall, disk, converts, scan, observed
<1>2. Owned'
  BY DEF IInv, TypeOK, Owned, Recall, converts, scan
<1>3. CacheInv' /\ MadeBefore'
  BY CacheStays DEF IInv, Recall, disk, converts, observed
<1>4. Scanned'
  BY ScanStays DEF IInv, Recall, disk, converts, scan, observed
<1> QED
  BY <1>1, <1>2, <1>3, <1>4, DiskStays DEF IInv, Recall

LEMMA ReopenKeeps ==
  ASSUME IInv, NEW l \in Loaders, Reopen(l)
  PROVE  IInv'
<1>1. TypeOK'
  BY DEF IInv, TypeOK, Reopen, disk, converts, scan, observed
<1>2. Owned'
  BY DEF IInv, TypeOK, Owned, Reopen, converts, scan
<1>3. CacheInv' /\ MadeBefore'
  BY CacheStays DEF IInv, Reopen, disk, converts, observed
<1>4. Scanned'
  BY ScanStays DEF IInv, Reopen, disk, converts, scan, observed
<1> QED
  BY <1>1, <1>2, <1>3, <1>4, DiskStays DEF IInv, Reopen

LEMMA ResolveKeeps ==
  ASSUME IInv, NEW l \in Loaders, ResolveForeign(l)
  PROVE  IInv'
<1>1. TypeOK'
  BY ExtFacts DEF IInv, TypeOK, ResolveForeign, disk, converts, scan
<1>2. Owned'
  BY TextureAssumption DEF IInv, TypeOK, Owned, ResolveForeign, converts, scan, TextureAssumption
<1>3. Resolved'
  BY DEF IInv, Owned, Resolved, ResolveForeign, disk, converts
<1>4. CacheIsWhole'
  BY DEF IInv, CacheInv, CacheIsWhole, MadeOf, Exists, ResolveForeign, disk, converts
<1>5. Remembered'
  BY DEF Remembered, ResolveForeign
<1>6. Scanned'
  BY ScanStays DEF IInv, ResolveForeign, disk, converts, scan
<1> QED
  BY <1>1, <1>2, <1>3, <1>4, <1>5, <1>6, DiskStays
     DEF IInv, CacheInv, MadeBefore, ResolveForeign, disk

\* The mutex is given back with an answer, right or disturbed.
LEMMA AnswerTypes ==
  ASSUME TypeOK, holder \in Loaders, NEW result \in {"none", "cache"}, Answer(result)
  PROVE  /\ memo' = result /\ holder' = Nobody
         /\ next' \in 1 .. Len(Exts) + 1
         /\ lpc' \in [Loaders -> {"idle", "missed", "resolve", "reopen"}]
         /\ \A l \in Loaders : lpc'[l] = "reopen" => lpc[l] = "reopen" \/ result = "cache"
BY ExtFacts DEF TypeOK, Answer

\* The first source that exists is in the cache, and the cache is not older.
LEMMA FreshServes ==
  ASSUME IInv, ~disturbed, Resolving, next <= Len(Exts),
         src[Exts[next]] # Missing, Fresh(Exts[next])
  PROVE  \E i \in DOMAIN Exts : Serves(i)
<1>1. asked = src /\ \A j \in 1 .. next - 1 : src[Exts[j]] = Missing
  BY DEF IInv, CacheInv, Resolved, Resolving
<1>2. /\ dds["cache"].whole /\ \E i \in DOMAIN Exts : MadeOf(i)
  BY DEF IInv, CacheInv, CacheIsWhole, Resolving, Fresh
<1>3. PICK i \in DOMAIN Exts : MadeOf(i)
  BY <1>2
<1>4. next \in DOMAIN Exts /\ i \in Nat /\ next \in Nat
  BY ExtFacts DEF IInv, TypeOK
<1>5. /\ src \in [Sources -> Times] /\ dds["cache"].version \in Nat /\ dds["cache"].time \in Nat
  BY ExtFacts, FileFacts DEF IInv, TypeOK
<1>6. src[Exts[i]] \in Nat /\ src[Exts[next]] \in Nat
  BY <1>4, <1>5, ExtFacts
<1>7. ~(i < next)
  BY <1>1, <1>3, <1>4, <1>5, <1>6, ExtFacts DEF MadeOf
<1>8. ~(next < i)
  <2>1. src[Exts[next]] <= dds["cache"].time
    BY <1>5, <1>6 DEF Fresh
  <2> QED
    BY <2>1, <1>3, <1>4, <1>5, <1>6 DEF MadeOf
<1>9. i = next
  BY <1>4, <1>7, <1>8
<1>10. Serves(next)
  BY <1>1, <1>2, <1>3, <1>5, <1>6, <1>9 DEF MadeOf, Serves, Fresh
<1> QED
  BY <1>4, <1>10

\* A conversion into one place leaves the other place alone.
LEMMA OtherPlace ==
  ASSUME TypeOK, NEW p \in Places, Over(p)
  PROVE  /\ step' \in [Places -> {"none", "decode", "open", "write"}]
         /\ ext' \in [Places -> Sources] /\ version' \in [Places -> Times]
         /\ step'[p] = "none"
         /\ \A q \in Places \ {p} :
              step'[q] = step[q] /\ ext'[q] = ext[q] /\ version'[q] = version[q]
<1>1. Exts[1] \in Sources
  BY ExtFacts
<1> QED
  BY <1>1, ExtFacts DEF TypeOK, Over

LEMMA ProbeKeeps ==
  ASSUME IInv, Probe
  PROVE  IInv'
<1> DEFINE e == Exts[next]
<1>1. /\ holder \in Loaders /\ holder # Nobody /\ step["cache"] = "none" /\ memo = "unknown"
      /\ next \in DOMAIN Exts /\ next \in Nat /\ e \in Sources /\ src[e] \in Nat
  <2>1. holder \in Loaders /\ holder # Nobody /\ step["cache"] = "none" /\ memo = "unknown"
    BY DEF IInv, TypeOK, Owned, Probe, Resolving
  <2>2. next \in DOMAIN Exts /\ next \in Nat
    BY ExtFacts DEF IInv, TypeOK, Probe
  <2>3. e \in Sources
    BY <2>2, ExtFacts
  <2> QED
    BY <2>1, <2>2, <2>3, ExtFacts DEF IInv, TypeOK
<1>2. UNCHANGED <<time, src, dds, busy, todo, sessions, asked, made, disturbed, settled>>
  BY DEF Probe, disk, scan, observed
<1>3. InThePast' /\ MadeBefore'
  BY <1>2 DEF IInv, InThePast, MadeBefore
<1>4. CASE src[e] = Missing /\ next' = next + 1 /\ UNCHANGED <<converts, holder, memo, lpc>>
  <2>1. TypeOK'
    BY <1>1, <1>2, <1>4, ExtFacts DEF IInv, TypeOK, converts
  <2>2. Owned'
    BY <1>2, <1>4 DEF IInv, Owned, converts
  <2>3. Resolved'
    BY <1>1, <1>2, <1>4 DEF IInv, CacheInv, Resolved, converts
  <2>4. CacheIsWhole' /\ Remembered'
    BY <1>2, <1>4 DEF IInv, CacheInv, CacheIsWhole, Remembered, MadeOf, Serves, Exists, converts
  <2>5. Scanned'
    BY <1>2, <1>4, ScanStays DEF IInv, converts
  <2> QED
    BY <1>3, <2>1, <2>2, <2>3, <2>4, <2>5 DEF IInv, CacheInv
<1>5. CASE src[e] # Missing /\ Fresh(e) /\ Answer("cache") /\ UNCHANGED converts
  <2>1. TypeOK' /\ memo' = "cache" /\ holder' = Nobody
    BY <1>1, <1>2, <1>5, AnswerTypes DEF IInv, TypeOK, converts
  <2>2. Owned'
    BY <1>1, <1>2, <1>5, <2>1 DEF IInv, Owned, converts
  <2>3. Resolved'
    BY <2>1 DEF Resolved
  <2>4. CacheIsWhole'
    BY <1>2, <1>5 DEF IInv, CacheInv, CacheIsWhole, MadeOf, Exists, converts
  <2>5. next <= Len(Exts) /\ Resolving
    BY DEF Probe
  <2>6. ~disturbed => \E i \in DOMAIN Exts : Serves(i)
    BY <1>5, <2>5, FreshServes
  <2>7. Remembered'
    BY <1>2, <2>6 DEF Remembered, Serves
  <2>8. Scanned'
    BY <1>2, <1>5, ScanStays DEF IInv, converts
  <2> QED
    BY <1>3, <2>1, <2>2, <2>3, <2>4, <2>7, <2>8 DEF IInv, CacheInv
<1>6. CASE /\ src[e] # Missing /\ ~Fresh(e)
           /\ step' = [step EXCEPT !["cache"] = "decode"]
           /\ ext' = [ext EXCEPT !["cache"] = e]
           /\ next' = next + 1
           /\ UNCHANGED <<version, holder, memo, lpc>>
  <2>1. TypeOK'
    BY <1>1, <1>2, <1>6, ExtFacts DEF IInv, TypeOK
  <2>2. /\ step'["cache"] = "decode" /\ ext'["cache"] = e
        /\ step'["target"] = step["target"] /\ ext'["target"] = ext["target"]
    BY <1>6, ExtFacts DEF IInv, TypeOK
  <2>3. Owned'
    BY <1>1, <1>2, <1>6, <2>2 DEF IInv, Owned
  <2>4. ~disturbed => <<e, src[e]>> \notin made
    <3>1. dds["cache"] \in File
      BY ExtFacts DEF IInv, TypeOK
    <3>2. dds["cache"].time < src[e]
      BY <1>1, <1>6, <3>1, FileFacts, ExtFacts DEF Fresh, Exists
    <3> QED
      BY <1>1, <3>1, <3>2, FileFacts DEF IInv, MadeBefore
  <2>5. Resolved'
    <3> SUFFICES ASSUME ~disturbed
                 PROVE  Resolved'
      BY <1>2 DEF Resolved
    <3>1. asked = src /\ \A j \in 1 .. next - 1 : src[Exts[j]] = Missing
      BY <1>1 DEF IInv, CacheInv, Resolved
    <3>2. next' - 1 = next /\ next' - 2 = next - 1 /\ next' > 1
      BY <1>1, <1>6, ExtFacts
    <3> QED
      BY <1>1, <1>2, <1>6, <2>2, <2>4, <3>1, <3>2 DEF Resolved
  <2>6. CacheIsWhole' /\ Remembered'
    BY <1>1, <1>2, <1>6, <2>2 DEF IInv, CacheInv, CacheIsWhole, Remembered, MadeOf, Exists
  <2>7. Scanned'
    BY <1>2, <2>2, ScanStays DEF IInv
  <2> QED
    BY <1>3, <2>1, <2>3, <2>5, <2>6, <2>7 DEF IInv, CacheInv
<1> QED
  BY <1>4, <1>5, <1>6 DEF Probe

LEMMA NoSourceKeeps ==
  ASSUME IInv, NoSource
  PROVE  IInv'
<1>1. holder \in Loaders /\ step["cache"] = "none" /\ memo = "unknown"
  BY DEF IInv, TypeOK, Owned, NoSource, Resolving
<1>2. UNCHANGED <<time, src, dds, converts, busy, todo, sessions, asked, made, disturbed, settled>>
  BY DEF NoSource, disk, scan, observed
<1>3. TypeOK' /\ memo' = "none" /\ holder' = Nobody
  BY <1>1, <1>2, AnswerTypes DEF IInv, TypeOK, converts, NoSource
<1>4. Owned'
  BY <1>1, <1>2, <1>3, AnswerTypes DEF IInv, Owned, converts, NoSource
<1>5. Resolved' /\ Remembered'
  BY <1>3 DEF Resolved, Remembered
<1>6. CacheIsWhole'
  BY <1>2 DEF IInv, CacheInv, CacheIsWhole, MadeOf, Exists, converts
<1>7. Scanned'
  BY <1>2, ScanStays DEF IInv, converts
<1> QED
  BY <1>2, <1>3, <1>4, <1>5, <1>6, <1>7 DEF IInv, CacheInv, InThePast, MadeBefore

-----------------------------------------------------------------------------
(* The scan, one lemma per step.                                           *)

LEMMA RunScanKeeps ==
  ASSUME IInv, NEW dryRun \in BOOLEAN, RunScan(dryRun)
  PROVE  IInv'
<1>1. UNCHANGED <<disk, converts, hook, sessions, asked, made, disturbed>>
  BY DEF RunScan
<1>2. TypeOK'
  BY <1>1 DEF IInv, TypeOK, RunScan, disk, converts, hook
<1>3. Owned'
  BY <1>1 DEF IInv, Owned, RunScan, converts, hook
<1>4. CacheInv' /\ MadeBefore'
  BY <1>1, CacheStays DEF IInv, disk, converts, hook
<1>5. Scanned'
  <2>1. CASE settled' = "pending"
    <3>1. settled = "no" /\ ~dryRun
      BY <2>1 DEF IInv, Scanned, RunScan
    <3> QED
      BY <2>1, <3>1 DEF Scanned, RunScan
  <2>2. CASE settled' # "pending"
    BY <1>1, <2>2 DEF IInv, Scanned, Done, Outdated, Exists, RunScan, disk
  <2> QED
    BY <2>1, <2>2
<1> QED
  BY <1>1, <1>2, <1>3, <1>4, <1>5, DiskStays DEF IInv

LEMMA VisitKeeps ==
  ASSUME IInv, NEW e \in Sources, Visit(e)
  PROVE  IInv'
<1>1. /\ UNCHANGED <<disk, busy, hook, sessions, observed>>
      /\ busy /\ step["target"] = "none" /\ todo' = todo \ {e}
  BY DEF Visit, Scanning
<1>2. CASE /\ src[e] # Missing /\ Outdated(e)
           /\ step' = [step EXCEPT !["target"] = "decode"]
           /\ ext' = [ext EXCEPT !["target"] = e]
           /\ UNCHANGED version
  <2>1. TypeOK'
    BY <1>1, <1>2, ExtFacts DEF IInv, TypeOK, disk, hook, observed
  <2>2. /\ step'["target"] = "decode" /\ ext'["target"] = e
        /\ step'["cache"] = step["cache"] /\ ext'["cache"] = ext["cache"]
    BY <1>2, ExtFacts DEF IInv, TypeOK
  <2>3. Owned'
    BY <1>1, <2>2 DEF IInv, Owned, hook
  <2>4. CacheInv' /\ MadeBefore'
    BY <1>1, <1>2, <2>2, CacheStays DEF IInv, disk, hook, observed
  <2>5. Scanned'
    BY <1>1, <2>2 DEF IInv, Scanned, Done, Outdated, Exists, disk, observed
  <2> QED
    BY <1>1, <2>1, <2>3, <2>4, <2>5, DiskStays DEF IInv
<1>3. CASE ~(src[e] # Missing /\ Outdated(e)) /\ UNCHANGED converts
  <2>1. TypeOK'
    BY <1>1, <1>3 DEF IInv, TypeOK, disk, converts, hook, observed
  <2>2. Owned'
    BY <1>1, <1>3 DEF IInv, Owned, converts, hook
  <2>3. CacheInv' /\ MadeBefore'
    BY <1>1, <1>3, CacheStays DEF IInv, disk, converts, hook, observed
  <2>4. Scanned'
    BY <1>1, <1>3 DEF IInv, Scanned, Done, Outdated, Exists, disk, converts, observed
  <2> QED
    BY <1>1, <2>1, <2>2, <2>3, <2>4, DiskStays DEF IInv
<1> QED
  BY <1>2, <1>3 DEF Visit

LEMMA EndScanKeeps ==
  ASSUME IInv, EndScan
  PROVE  IInv'
<1>1. UNCHANGED <<disk, converts, todo, hook, sessions, asked, made, disturbed>>
  BY DEF EndScan
<1>2. TypeOK'
  BY <1>1 DEF IInv, TypeOK, EndScan, disk, converts, hook
<1>3. Owned'
  BY <1>1 DEF IInv, Owned, EndScan, Scanning, converts, hook
<1>4. CacheInv' /\ MadeBefore'
  BY <1>1, CacheStays DEF IInv, disk, converts, hook
<1>5. Scanned'
  BY <1>1 DEF IInv, TypeOK, Scanned, Done, Outdated, Exists, EndScan, Scanning, disk
<1> QED
  BY <1>1, <1>2, <1>3, <1>4, <1>5, DiskStays DEF IInv

-----------------------------------------------------------------------------
(* The conversion, one lemma per step.                                     *)

LEMMA NotConvertedLemma ==
  ASSUME IInv, NEW p \in Places, step[p] # "none", NotConverted(p),
         UNCHANGED <<time, src, scan, sessions, asked, made>>,
         dds' \in [Places -> File], dds'[p].time \in {dds[p].time, time},
         \A q \in Places \ {p} : dds'[q] = dds[q]
  PROVE  IInv'
<1>1. p = "cache" => holder \in Loaders /\ holder # Nobody
  BY DEF IInv, TypeOK, Owned
<1>2. /\ memo' \in {memo, "none"} /\ holder' \in {holder, Nobody}
      /\ holder' # Nobody => memo' = memo
      /\ memo' # memo => p = "cache" /\ memo' = "none"
      /\ next' \in 1 .. Len(Exts) + 1
      /\ lpc' \in [Loaders -> {"idle", "missed", "resolve", "reopen"}]
      /\ \A l \in Loaders : lpc'[l] = "reopen" => lpc[l] = "reopen"
      /\ p # "cache" => UNCHANGED <<next, memo, holder, lpc>>
  <2>1. CASE p = "cache" /\ Answer("none")
    BY <1>1, <2>1, AnswerTypes DEF IInv
  <2>2. CASE UNCHANGED <<next, memo, holder, lpc>>
    BY <2>2 DEF IInv, TypeOK
  <2> QED
    BY <2>1, <2>2 DEF NotConverted
<1>3. /\ disturbed' = (disturbed \/ p = "cache") /\ settled' = "no" /\ Over(p)
  BY DEF NotConverted
<1>4. TypeOK'
  BY <1>2, <1>3, OtherPlace DEF IInv, TypeOK, scan
<1>5. InThePast'
  <2>1. time \in Nat /\ \A q \in Places : dds[q].time <= time
    BY ExtFacts DEF IInv, TypeOK, InThePast
  <2>2. dds'[p].time <= time
    BY <2>1
  <2>3. \A q \in Places : dds'[q].time <= time
    BY <2>1, <2>2
  <2> QED
    BY <2>3 DEF IInv, InThePast
<1>6. Owned'
  <2>1. step'["target"] # "none" => step["target"] # "none"
    BY <1>3, OtherPlace, ExtFacts DEF IInv
  <2>2. step'["cache"] # "none" => p # "cache" /\ step["cache"] # "none"
    BY <1>3, OtherPlace, ExtFacts DEF IInv
  <2> QED
    BY <1>1, <1>2, <2>1, <2>2 DEF IInv, Owned, scan
<1>7. CacheInv' /\ MadeBefore'
  <2>1. CASE p = "cache"
    BY <1>3, <2>1 DEF CacheInv, Resolved, CacheIsWhole, Remembered, MadeBefore
  <2>2. CASE p # "cache"
    <3>1. /\ dds'["cache"] = dds["cache"] /\ step'["cache"] = step["cache"]
          /\ ext'["cache"] = ext["cache"] /\ version'["cache"] = version["cache"]
      BY <1>3, <2>2, OtherPlace, ExtFacts DEF IInv
    <3>2. disturbed' = disturbed
      BY <1>3, <2>2 DEF IInv, TypeOK
    <3>3. UNCHANGED <<src, asked, made, holder, next, memo, disturbed>>
      BY <1>2, <2>2, <3>2
    <3> QED
      BY <3>1, <3>3, CacheStays DEF IInv
  <2> QED
    BY <2>1, <2>2
<1>8. Scanned'
  BY <1>3 DEF Scanned
<1> QED
  BY <1>4, <1>5, <1>6, <1>7, <1>8 DEF IInv

LEMMA DecodeKeeps ==
  ASSUME IInv, NEW p \in Places, Decode(p)
  PROVE  IInv'
<1>1. UNCHANGED <<disk, scan, sessions, asked, made>> /\ step[p] = "decode"
  BY DEF Decode
<1>2. CASE NotConverted(p)
  BY <1>1, <1>2, NotConvertedLemma DEF IInv, TypeOK, disk
<1>3. CASE /\ src[ext[p]] # Missing
           /\ version' = [version EXCEPT ![p] = src[ext[p]]]
           /\ step' = [step EXCEPT ![p] = "open"]
           /\ UNCHANGED <<ext, next, memo, holder, lpc, disturbed, settled>>
  <2>1. TypeOK'
    BY <1>1, <1>3 DEF IInv, TypeOK, disk, scan
  <2>2. /\ step'[p] = "open" /\ version'[p] = src[ext[p]]
        /\ \A q \in Places \ {p} : step'[q] = step[q] /\ version'[q] = version[q]
    BY <1>3 DEF IInv, TypeOK
  <2>3. Owned'
    BY <1>1, <1>3, <2>2, ExtFacts DEF IInv, Owned, scan
  <2>4. Resolved'
    <3>1. CASE p = "cache"
      BY <1>1, <1>3, <2>2, <3>1 DEF IInv, CacheInv, Resolved, disk
    <3>2. CASE p # "cache"
      BY <1>1, <1>3, <2>2, <3>2, ExtFacts DEF IInv, CacheInv, Resolved, disk
    <3> QED
      BY <3>1, <3>2
  <2>5. step'["cache"] # "write" => step["cache"] # "write"
    BY <1>1, <2>2, ExtFacts
  <2>6. CacheIsWhole' /\ Remembered'
    BY <1>1, <1>3, <2>5
       DEF IInv, CacheInv, CacheIsWhole, Remembered, MadeOf, Serves, Exists, disk
  <2>7. Scanned'
    BY <1>1, <1>3, <2>2, ExtFacts DEF IInv, Scanned, Done, Outdated, Exists, disk, scan
  <2>8. MadeBefore'
    BY <1>1, <1>3 DEF IInv, MadeBefore, disk
  <2> QED
    BY <1>1, <2>1, <2>3, <2>4, <2>6, <2>7, <2>8, DiskStays DEF IInv, CacheInv
<1> QED
  BY <1>2, <1>3 DEF Decode

\* A .dds made now is outdated by no source.
LEMMA NewIsDone ==
  ASSUME IInv, UNCHANGED <<time, src>>, NEW whole \in BOOLEAN,
         dds'["target"] = Written("target", whole)
  PROVE  \A e \in Sources : Done(e)'
<1>1. dds'["target"] # NoFile /\ dds'["target"].time = time
  BY WrittenLemma, ExtFacts DEF IInv
<1>2. \A e \in Sources : src[e] \in Nat /\ time \in Nat
  BY ExtFacts DEF IInv, TypeOK
<1>3. \A e \in Sources : src[e] <= time
  BY DEF IInv, InThePast
<1>4. \A e \in Sources : ~(src'[e] > dds'["target"].time)
  BY <1>1, <1>2, <1>3
<1> QED
  BY <1>1, <1>4 DEF Done, Outdated, Exists

\* A file is written over with what is being made.
LEMMA WrittenOver ==
  ASSUME IInv, NEW p \in Places, NEW whole \in BOOLEAN, UNCHANGED <<time, src>>,
         dds' = [dds EXCEPT ![p] = Written(p, whole)]
  PROVE  /\ dds' \in [Places -> File] /\ InThePast'
         /\ dds'[p] = Written(p, whole) /\ dds'[p].time = time
         /\ \A q \in Places \ {p} : dds'[q] = dds[q]
         /\ ~disturbed => \A m \in made : m[2] # Missing /\ m[2] <= dds'["cache"].time
<1>1. dds \in [Places -> File] /\ Written(p, whole) \in File /\ Written(p, whole).time = time
  BY WrittenLemma DEF IInv, TypeOK
<1>2. dds' \in [Places -> File] /\ dds'[p] = Written(p, whole)
  BY <1>1
<1>3. \A q \in Places \ {p} : dds'[q] = dds[q]
  BY <1>1
<1>4. time \in Nat
  BY ExtFacts DEF IInv, TypeOK
<1>5. \A q \in Places : dds'[q].time <= time
  BY <1>1, <1>2, <1>3, <1>4 DEF IInv, InThePast
<1>6. dds["cache"].time \in Nat /\ dds'["cache"].time \in Nat
  BY <1>1, <1>2, ExtFacts, FileFacts
<1>7. dds["cache"].time <= dds'["cache"].time
  <2>1. dds["cache"].time <= time
    BY ExtFacts DEF IInv, InThePast
  <2>2. dds'["cache"].time \in {dds["cache"].time, time}
    BY <1>1, <1>2, <1>3, ExtFacts
  <2> QED
    BY <1>6, <2>1, <2>2
<1>8. ~disturbed => \A m \in made : m[2] # Missing /\ m[2] <= dds'["cache"].time
  <2>1. \A m \in made : m[2] \in Nat
    BY ExtFacts DEF IInv, TypeOK
  <2> QED
    BY <1>6, <1>7, <2>1 DEF IInv, MadeBefore
<1> QED
  BY <1>1, <1>2, <1>3, <1>5, <1>8 DEF IInv, InThePast

LEMMA OpenKeeps ==
  ASSUME IInv, NEW p \in Places, Open(p)
  PROVE  IInv'
<1>1. UNCHANGED <<time, src, scan, sessions, asked, made>> /\ step[p] = "open"
  BY DEF Open
<1>2. CASE NotConverted(p) /\ UNCHANGED dds
  BY <1>1, <1>2, NotConvertedLemma DEF IInv, TypeOK
<1>3. CASE /\ dds' = [dds EXCEPT ![p] = Written(p, FALSE)]
           /\ step' = [step EXCEPT ![p] = "write"]
           /\ UNCHANGED <<ext, version, next, memo, holder, lpc, disturbed, settled>>
  <2>1. /\ dds' \in [Places -> File] /\ InThePast'
        /\ dds'[p] = Written(p, FALSE) /\ dds'[p].time = time
        /\ \A q \in Places \ {p} : dds'[q] = dds[q]
        /\ ~disturbed => \A m \in made : m[2] # Missing /\ m[2] <= dds'["cache"].time
    BY <1>1, <1>3, WrittenOver
  <2>2. TypeOK'
    BY <1>1, <1>3, <2>1 DEF IInv, TypeOK, scan
  <2>3. /\ step'[p] = "write"
        /\ \A q \in Places \ {p} : step'[q] = step[q]
    BY <1>3 DEF IInv, TypeOK
  <2>4. Owned'
    BY <1>1, <1>3, <2>3, ExtFacts DEF IInv, Owned, scan
  <2>5. MadeBefore'
    BY <1>1, <1>3, <2>1 DEF MadeBefore
  <2>6. CASE p = "cache"
    <3>1. Resolved'
      BY <1>1, <1>3, <2>3, <2>6 DEF IInv, CacheInv, Resolved
    <3>2. CacheIsWhole'
      BY <2>3, <2>6 DEF CacheIsWhole
    <3>3. memo' = "unknown"
      BY <1>1, <1>3, <2>6 DEF IInv, Owned
    <3>4. Remembered'
      BY <3>3 DEF Remembered
    <3>5. Scanned'
      BY <1>1, <1>3, <2>1, <2>3, <2>6, ScanStays, ExtFacts DEF IInv, scan
    <3> QED
      BY <2>1, <2>2, <2>4, <2>5, <3>1, <3>2, <3>4, <3>5 DEF IInv, CacheInv
  <2>7. CASE p # "cache"
    <3>1. p = "target"
      BY <2>7 DEF Places
    <3>2. CacheInv'
      BY <1>1, <1>3, <2>1, <2>3, <3>1, CacheStays, ExtFacts DEF IInv
    <3>3. \A e \in Sources : Done(e)'
      BY <1>1, <2>1, <3>1, NewIsDone
    <3>4. Scanned'
      BY <1>1, <1>3, <3>3 DEF IInv, Scanned, scan
    <3> QED
      BY <2>1, <2>2, <2>4, <2>5, <3>2, <3>4 DEF IInv
  <2> QED
    BY <2>6, <2>7
<1> QED
  BY <1>2, <1>3 DEF Open

\* Convert returns into the detour or the scan.
LEMMA ConvertedLemma ==
  ASSUME IInv, NEW p \in Places, step[p] # "none", Converted(p),
         UNCHANGED <<time, src, scan, sessions, asked>>,
         dds' \in [Places -> File], made' \subseteq Sources \X Times,
         disturbed' \in BOOLEAN, settled' \in {"no", "pending", "yes"}
  PROVE  /\ TypeOK' /\ Owned'
         /\ p = "cache" => memo' = "cache" /\ holder' = Nobody
         /\ p # "cache" => UNCHANGED <<next, memo, holder, lpc>>
         /\ step'[p] = "none"
         /\ \A q \in Places \ {p} :
              step'[q] = step[q] /\ ext'[q] = ext[q] /\ version'[q] = version[q]
<1>1. Over(p)
  BY DEF Converted
<1>2. CASE p = "cache"
  <2>1. holder \in Loaders /\ Answer("cache")
    BY <1>2 DEF IInv, TypeOK, Owned, Converted
  <2>2. TypeOK'
    BY <1>1, <2>1, AnswerTypes, OtherPlace DEF IInv, TypeOK, scan
  <2>3. memo' = "cache" /\ holder' = Nobody
    BY <2>1 DEF Answer
  <2>4. Owned'
    BY <1>1, <1>2, <2>3, OtherPlace, ExtFacts DEF IInv, Owned, scan
  <2> QED
    BY <1>1, <1>2, <2>2, <2>3, <2>4, OtherPlace DEF IInv
<1>3. CASE p # "cache"
  <2>1. UNCHANGED <<next, memo, holder, lpc>>
    BY <1>3 DEF Converted
  <2>2. TypeOK'
    BY <1>1, <2>1, OtherPlace DEF IInv, TypeOK, scan
  <2>3. Owned'
    BY <1>1, <1>3, <2>1, OtherPlace, ExtFacts DEF IInv, Owned, scan
  <2> QED
    BY <1>1, <1>3, <2>1, <2>2, <2>3, OtherPlace DEF IInv
<1> QED
  BY <1>2, <1>3

\* What the holder converted, whole, is what it is asked for.
LEMMA WrittenServes ==
  ASSUME IInv, ~disturbed, step["cache"] = "write", UNCHANGED <<time, src, asked>>,
         dds'["cache"] = Written("cache", TRUE)
  PROVE  /\ \E i \in DOMAIN Exts : MadeOf(i)' /\ Serves(i)'
         /\ dds'["cache"].whole
         /\ version["cache"] # Missing /\ version["cache"] <= time
         /\ <<ext["cache"], version["cache"]>> \notin made
<1>1. holder # Nobody
  BY DEF IInv, Owned
<1>2. /\ asked = src
      /\ next > 1 /\ ext["cache"] = Exts[next - 1] /\ src[ext["cache"]] # Missing
      /\ \A j \in 1 .. next - 2 : src[Exts[j]] = Missing
      /\ <<ext["cache"], src[ext["cache"]]>> \notin made
      /\ version["cache"] = src[ext["cache"]]
  BY <1>1 DEF IInv, CacheInv, Resolved
<1>3. next \in 1 .. Len(Exts) + 1 /\ Len(Exts) \in Nat
  BY ExtFacts DEF IInv, TypeOK
<1>4. PICK i \in DOMAIN Exts : i = next - 1
  BY <1>2, <1>3, ExtFacts
<1>5. /\ ext["cache"] = Exts[i] /\ src[Exts[i]] # Missing
      /\ \A j \in 1 .. i - 1 : src[Exts[j]] = Missing
  BY <1>2, <1>3, <1>4
<1>6. src[Exts[i]] \in Nat /\ time \in Nat /\ src[Exts[i]] <= time
  BY <1>4, ExtFacts DEF IInv, TypeOK, InThePast
<1>7. /\ dds'["cache"].ext = Exts[i] /\ dds'["cache"].version = src[Exts[i]]
      /\ dds'["cache"].whole
  <2>1. /\ dds'["cache"].ext = ext["cache"] /\ dds'["cache"].version = version["cache"]
        /\ dds'["cache"].whole
    BY WrittenLemma, ExtFacts DEF IInv
  <2> QED
    BY <1>2, <1>5, <2>1
<1>8. MadeOf(i)'
  <2>1. src' = src
    OBVIOUS
  <2>2. src[Exts[i]] <= src[Exts[i]]
    BY <1>6
  <2> QED
    BY <1>5, <1>7, <2>1, <2>2 DEF MadeOf
<1>9. Serves(i)'
  BY <1>2, <1>5, <1>7 DEF Serves
<1> QED
  BY <1>2, <1>5, <1>6, <1>7, <1>8, <1>9

LEMMA WriteKeeps ==
  ASSUME IInv, NEW p \in Places, Write(p)
  PROVE  IInv'
<1>1. UNCHANGED <<time, src, scan, sessions, asked>> /\ step[p] = "write"
  BY DEF Write
<1>2. CASE /\ dds' = [dds EXCEPT ![p] = Written(p, TRUE)]
           /\ Converted(p)
           /\ made' = IF p = "cache" THEN made \cup {<<ext[p], version[p]>>} ELSE made
           /\ UNCHANGED <<disturbed, settled>>
  <2>1. /\ dds' \in [Places -> File] /\ InThePast'
        /\ dds'[p] = Written(p, TRUE) /\ dds'[p].time = time
        /\ \A q \in Places \ {p} : dds'[q] = dds[q]
        /\ ~disturbed => \A m \in made : m[2] # Missing /\ m[2] <= dds'["cache"].time
    BY <1>1, <1>2, WrittenOver
  <2>2. made' \subseteq Sources \X Times
    <3>1. made \subseteq Sources \X Times /\ ext[p] \in Sources /\ version[p] \in Times
      BY DEF IInv, TypeOK
    <3> QED
      BY <1>2, <3>1
  <2>3. /\ TypeOK' /\ Owned'
        /\ p = "cache" => memo' = "cache" /\ holder' = Nobody
        /\ p # "cache" => UNCHANGED <<next, memo, holder, lpc>>
        /\ step'[p] = "none"
        /\ \A q \in Places \ {p} :
             step'[q] = step[q] /\ ext'[q] = ext[q] /\ version'[q] = version[q]
    <3>1. disturbed' \in BOOLEAN /\ settled' \in {"no", "pending", "yes"}
      BY <1>2 DEF IInv, TypeOK
    <3> QED
      BY <1>1, <1>2, <2>1, <2>2, <3>1, ConvertedLemma
  <2>4. CASE p = "cache"
    <3>1. ~disturbed => /\ \E i \in DOMAIN Exts : MadeOf(i)' /\ Serves(i)'
                        /\ dds'["cache"].whole
                        /\ version["cache"] # Missing /\ version["cache"] <= time
      BY <1>1, <2>1, <2>4, WrittenServes
    <3>2. Resolved'
      BY <2>3, <2>4 DEF Resolved
    <3>3. CacheIsWhole' /\ Remembered'
      BY <1>2, <3>1 DEF CacheIsWhole, Remembered
    <3>4. MadeBefore'
      <4>1. \A m \in made' : m \in made \/ m[2] = version["cache"]
        BY <1>2, <2>4
      <4>2. dds'["cache"].time = time /\ disturbed' = disturbed
        BY <1>2, <2>1, <2>4
      <4> QED
        BY <2>1, <3>1, <4>1, <4>2 DEF MadeBefore
    <3>5. Scanned'
      BY <1>1, <1>2, <2>1, <2>3, <2>4, ScanStays, ExtFacts DEF IInv, scan
    <3> QED
      BY <2>1, <2>3, <3>2, <3>3, <3>4, <3>5 DEF IInv, CacheInv
  <2>5. CASE p # "cache"
    <3>1. p = "target"
      BY <2>5 DEF Places
    <3>2. CacheInv' /\ MadeBefore'
      BY <1>1, <1>2, <2>1, <2>3, <3>1, CacheStays, ExtFacts DEF IInv
    <3>3. \A e \in Sources : Done(e)'
      BY <1>1, <2>1, <3>1, NewIsDone
    <3>4. Scanned'
      BY <1>1, <1>2, <3>3 DEF IInv, Scanned, scan
    <3> QED
      BY <2>1, <2>3, <3>2, <3>4 DEF IInv
  <2> QED
    BY <2>4, <2>5
<1>3. CASE /\ dds' = [dds EXCEPT ![p] = Written(p, FALSE)]
           /\ Converted(p)
           /\ disturbed' = (disturbed \/ p = "cache") /\ settled' = "no"
           /\ UNCHANGED made
  <2>1. /\ dds' \in [Places -> File] /\ InThePast'
        /\ \A q \in Places \ {p} : dds'[q] = dds[q]
    BY <1>1, <1>3, WrittenOver
  <2>2. /\ TypeOK' /\ Owned'
        /\ p # "cache" => UNCHANGED <<next, memo, holder, lpc>>
        /\ \A q \in Places \ {p} :
             step'[q] = step[q] /\ ext'[q] = ext[q] /\ version'[q] = version[q]
    <3>1. disturbed' \in BOOLEAN /\ settled' \in {"no", "pending", "yes"}
      BY <1>3
    <3>2. made' \subseteq Sources \X Times
      BY <1>3 DEF IInv, TypeOK
    <3> QED
      BY <1>1, <1>3, <2>1, <3>1, <3>2, ConvertedLemma
  <2>3. CacheInv' /\ MadeBefore'
    <3>1. CASE p = "cache"
      BY <1>3, <3>1 DEF CacheInv, Resolved, CacheIsWhole, Remembered, MadeBefore
    <3>2. CASE p # "cache"
      <4>1. disturbed' = disturbed
        BY <1>3, <3>2 DEF IInv, TypeOK
      <4> QED
        BY <1>1, <1>3, <2>1, <2>2, <3>2, <4>1, CacheStays, ExtFacts DEF IInv
    <3> QED
      BY <3>1, <3>2
  <2>4. Scanned'
    BY <1>3 DEF Scanned
  <2> QED
    BY <2>1, <2>2, <2>3, <2>4 DEF IInv
<1>4. CASE /\ dds' = [dds EXCEPT ![p] = Written(p, FALSE)]
           /\ NotConverted(p)
           /\ UNCHANGED made
  <2>1. /\ dds' \in [Places -> File] /\ dds'[p].time = time
        /\ \A q \in Places \ {p} : dds'[q] = dds[q]
    BY <1>1, <1>4, WrittenOver
  <2> QED
    BY <1>1, <1>4, <2>1, NotConvertedLemma
<1> QED
  BY <1>2, <1>3, <1>4 DEF Write

-----------------------------------------------------------------------------
(* The player and the game's process.                                      *)

LEMMA EditSourceKeeps ==
  ASSUME IInv, NEW e \in Sources, EditSource(e)
  PROVE  IInv'
<1>1. /\ UNCHANGED <<dds, converts, scan, hook, sessions, asked, made>>
      /\ time' = time + 1 /\ src' = [src EXCEPT ![e] = time + 1] /\ settled' = "no"
      /\ disturbed' = (disturbed \/ holder # Nobody)
  BY DEF EditSource
<1>2. time \in Nat /\ time' \in Times
  BY TextureAssumption DEF IInv, TypeOK, EditSource, Times, TextureAssumption
<1>3. TypeOK'
  BY <1>1, <1>2 DEF IInv, TypeOK, converts, scan, hook
<1>4. /\ \A f \in Sources : src[f] \in Nat /\ src[f] <= time
      /\ \A p \in Places : dds[p].time \in Nat /\ dds[p].time <= time
  BY ExtFacts, FileFacts DEF IInv, TypeOK, InThePast
<1>5. \A f \in Sources : src'[f] = IF f = e THEN time + 1 ELSE src[f]
  BY <1>1 DEF IInv, TypeOK
<1>6. InThePast'
  BY <1>1, <1>2, <1>4, <1>5 DEF InThePast
<1>7. Owned'
  BY <1>1 DEF IInv, Owned, converts, scan, hook
<1>8. ~disturbed' => ~disturbed /\ holder = Nobody
  BY <1>1
<1>9. MadeBefore' /\ Remembered'
  BY <1>1, <1>8 DEF IInv, CacheInv, MadeBefore, Remembered, Serves, hook
<1>10. Resolved'
  BY <1>1, <1>8 DEF Resolved, hook
<1>11. CacheIsWhole'
  <2> SUFFICES ASSUME ~disturbed', step'["cache"] # "write", Exists("cache")'
               PROVE  dds'["cache"].whole /\ \E i \in DOMAIN Exts : MadeOf(i)'
    BY DEF CacheIsWhole
  <2>1. dds["cache"].whole /\ \E i \in DOMAIN Exts : MadeOf(i)
    BY <1>1, <1>8 DEF IInv, CacheInv, CacheIsWhole, Exists, converts
  <2>2. PICK i \in DOMAIN Exts : MadeOf(i)
    BY <2>1
  <2>3. \A j \in 1 .. i - 1 : Exts[j] \in Sources
    BY ExtFacts
  <2>4. \A j \in 1 .. i - 1 : src'[Exts[j]] = Missing \/ src'[Exts[j]] > dds["cache"].time
    BY <1>2, <1>4, <1>5, <2>2, <2>3, ExtFacts DEF MadeOf
  <2>5. dds["cache"].version \in Nat /\ Exts[i] \in Sources
    BY ExtFacts, FileFacts DEF IInv, TypeOK
  <2>6. /\ dds["cache"].version <= src'[Exts[i]]
        /\ src'[Exts[i]] <= dds["cache"].time => dds["cache"].version = src'[Exts[i]]
    BY <1>2, <1>4, <1>5, <2>2, <2>5, ExtFacts DEF MadeOf
  <2>7. MadeOf(i)'
    BY <1>1, <2>2, <2>4, <2>6 DEF MadeOf
  <2> QED
    BY <1>1, <2>1, <2>7
<1>12. Scanned'
  BY <1>1 DEF Scanned
<1> QED
  BY <1>3, <1>6, <1>7, <1>9, <1>10, <1>11, <1>12 DEF IInv, CacheInv

LEMMA RevertSourceKeeps ==
  ASSUME IInv, NEW e \in Sources, RevertSource(e)
  PROVE  IInv'
<1>1. /\ UNCHANGED <<time, dds, converts, scan, hook, sessions, asked, made>>
      /\ disturbed' = TRUE /\ settled' = "no"
  BY DEF RevertSource
<1>2. PICK old \in Times : old < src[e] /\ src' = [src EXCEPT ![e] = old]
  BY DEF RevertSource
<1>3. TypeOK'
  BY <1>1, <1>2 DEF IInv, TypeOK, converts, scan, hook
<1>4. /\ time \in Nat /\ old \in Nat
      /\ \A f \in Sources : src[f] \in Nat /\ src[f] <= time
  BY ExtFacts DEF IInv, TypeOK, InThePast
<1>5. \A f \in Sources : src'[f] = IF f = e THEN old ELSE src[f]
  BY <1>2 DEF IInv, TypeOK
<1>6. InThePast'
  BY <1>1, <1>2, <1>4, <1>5 DEF IInv, InThePast
<1>7. Owned'
  BY <1>1 DEF IInv, Owned, converts, scan, hook
<1>8. CacheInv' /\ MadeBefore' /\ Scanned'
  BY <1>1 DEF CacheInv, Resolved, CacheIsWhole, Remembered, MadeBefore, Scanned
<1> QED
  BY <1>3, <1>6, <1>7, <1>8 DEF IInv

LEMMA ChangeTargetKeeps ==
  ASSUME IInv, ChangeTarget
  PROVE  IInv'
<1>1. /\ UNCHANGED <<time, src, converts, scan, hook, sessions, asked, made, disturbed>>
      /\ settled' = "no"
  BY DEF ChangeTarget
<1>2. PICK file \in {NoFile} \cup [ext : {Other}, version : {Missing}, time : {0, time},
                                   whole : {TRUE}] :
        dds' = [dds EXCEPT !["target"] = file]
  BY DEF ChangeTarget
<1>3. time \in Times /\ time \in Nat /\ 0 \in Times
  BY ExtFacts DEF IInv, TypeOK
<1>4. file \in File /\ file.time \in {0, time}
  <2>1. CASE file = NoFile
    BY <2>1, FileFacts
  <2>2. CASE file \in [ext : {Other}, version : {Missing}, time : {0, time}, whole : {TRUE}]
    BY <1>3, <2>2, ExtFacts DEF File
  <2> QED
    BY <2>1, <2>2
<1>5. /\ dds' \in [Places -> File] /\ dds'["target"] = file /\ dds'["cache"] = dds["cache"]
      /\ \A p \in Places : p # "target" => dds'[p] = dds[p]
  BY <1>2, <1>4, ExtFacts DEF IInv, TypeOK
<1>6. TypeOK'
  BY <1>1, <1>5 DEF IInv, TypeOK, converts, scan, hook
<1>7. InThePast'
  BY <1>1, <1>3, <1>4, <1>5 DEF IInv, InThePast
<1>8. Owned'
  BY <1>1 DEF IInv, Owned, converts, scan, hook
<1>9. CacheInv' /\ MadeBefore'
  BY <1>1, <1>5, CacheStays DEF IInv, converts, hook
<1>10. Scanned'
  BY <1>1 DEF Scanned
<1> QED
  BY <1>6, <1>7, <1>8, <1>9, <1>10 DEF IInv

LEMMA RestartKeeps ==
  ASSUME IInv, Restart
  PROVE  IInv'
<1>1. /\ UNCHANGED <<disk, made>>
      /\ step' = [p \in Places |-> "none"]
      /\ ext' = [p \in Places |-> Exts[1]] /\ version' = [p \in Places |-> Missing]
      /\ busy' = FALSE /\ todo' = {}
      /\ holder' = Nobody /\ next' = 1 /\ memo' = "unknown"
      /\ lpc' = [l \in Loaders |-> "idle"]
      /\ disturbed' = (disturbed \/ step["cache"] = "write")
      /\ settled' = IF busy THEN "no" ELSE settled
      /\ asked' = [f \in Sources |-> Missing]
  BY DEF Restart
<1>2. TypeOK'
  <2>1. Exts[1] \in Sources /\ Missing \in Times /\ 1 \in 1 .. Len(Exts) + 1
    BY ExtFacts
  <2>2. sessions' \in 0 .. MaxSessions
    BY TextureAssumption DEF IInv, TypeOK, Restart, TextureAssumption
  <2> QED
    BY <1>1, <2>1, <2>2 DEF IInv, TypeOK, disk
<1>3. InThePast'
  BY <1>1, DiskStays DEF IInv
<1>4. Owned'
  BY <1>1, ExtFacts DEF Owned
<1>5. ~disturbed' => ~disturbed /\ step["cache"] # "write"
  BY <1>1
<1>6. CacheInv' /\ MadeBefore'
  BY <1>1, <1>5 DEF IInv, CacheInv, Resolved, CacheIsWhole, Remembered, MadeBefore, MadeOf,
     Exists, disk
<1>7. Scanned'
  BY <1>1 DEF IInv, TypeOK, Scanned, Done, Outdated, Exists, disk
<1> QED
  BY <1>2, <1>3, <1>4, <1>6, <1>7 DEF IInv

LEMMA StutterKeeps ==
  ASSUME IInv, UNCHANGED vars
  PROVE  IInv'
<1>1. TypeOK' /\ InThePast' /\ Owned'
  BY DEF IInv, TypeOK, InThePast, Owned, vars, disk, converts, scan, hook, observed
<1>2. CacheInv' /\ MadeBefore' /\ Scanned'
  BY CacheStays, ScanStays DEF IInv, vars, disk, converts, scan, hook, observed
<1> QED
  BY <1>1, <1>2 DEF IInv

-----------------------------------------------------------------------------
(* The theorems.                                                           *)

LEMMA InitInv == Init => IInv
<1> SUFFICES ASSUME Init
             PROVE  IInv
  OBVIOUS
<1>1. 1 \in Times /\ 1 \in 0 .. MaxSessions
  BY TextureAssumption DEF TextureAssumption, Times
<1>2. TypeOK
  <2>1. Exts[1] \in Sources /\ Missing \in Times /\ {Missing, 1} \subseteq Times
    BY <1>1, ExtFacts
  <2>2. src \in [Sources -> Times] /\ asked \in [Sources -> Times]
    BY <2>1 DEF Init
  <2>3. 1 \in 1 .. Len(Exts) + 1
    BY ExtFacts
  <2>4. dds \in [Places -> File]
    BY FileFacts DEF Init
  <2> QED
    BY <1>1, <2>1, <2>2, <2>3, <2>4 DEF Init, TypeOK
<1>3. InThePast
  <2>1. \A e \in Sources : src[e] <= 1
    BY ExtFacts DEF Init
  <2>2. \A p \in Places : dds[p].time <= 1
    BY FileFacts DEF Init
  <2> QED
    BY <2>1, <2>2 DEF Init, InThePast
<1>4. Owned /\ MadeBefore /\ Scanned
  BY ExtFacts DEF Init, Owned, MadeBefore, Scanned
<1>5. CacheInv
  BY ExtFacts DEF Init, CacheInv, Resolved, CacheIsWhole, Remembered, Exists
<1> QED
  BY <1>2, <1>3, <1>4, <1>5 DEF IInv

LEMMA StepInv == IInv /\ [Next]_vars => IInv'
<1> SUFFICES ASSUME IInv, [Next]_vars
             PROVE  IInv'
  OBVIOUS
<1>1. CASE Load
  BY <1>1, AskKeeps, RecallKeeps, ResolveKeeps, ReopenKeeps DEF Load
<1>2. CASE Probe \/ NoSource
  BY <1>2, ProbeKeeps, NoSourceKeeps
<1>3. CASE Scan
  BY <1>3, RunScanKeeps, VisitKeeps, EndScanKeeps DEF Scan
<1>4. CASE Convert
  BY <1>4, DecodeKeeps, OpenKeeps, WriteKeeps DEF Convert
<1>5. CASE World
  BY <1>5, EditSourceKeeps, RevertSourceKeeps, ChangeTargetKeeps, RestartKeeps DEF World
<1>6. CASE UNCHANGED vars
  BY <1>6, StutterKeeps
<1> QED
  BY <1>1, <1>2, <1>3, <1>4, <1>5, <1>6 DEF Next

\* The inductive invariant: times, the cache and the scan
\* (TextureLoadHook.cpp ResolveForeign, TextureAutoConvert.cpp RunScan).
THEOREM Invariance == Spec => []IInv
BY InitInv, StepInv, PTL DEF Spec

\* Every variable keeps its type (TextureLoadHook.cpp, TextureAutoConvert.cpp).
THEOREM TypeCorrect == Spec => []TypeOK
<1>1. IInv => TypeOK
  BY DEF IInv
<1> QED
  BY <1>1, Invariance, PTL

\* A loader is sent to a cache that holds the whole of the first existing source
\* as the session first saw it, whatever other loaders, scans and sessions did
\* (TextureLoadHook.cpp ResolveForeign).
THEOREM CacheServesCurrent == Spec => []ServedIsCurrent
<1>1. IInv => ServedIsCurrent
  BY DEF IInv, Owned, CacheInv, Remembered, Serves, ServedIsCurrent
<1> QED
  BY <1>1, Invariance, PTL

\* No version of a source is transcoded into the cache twice, by any loader of
\* any session (TextureLoadHook.cpp:68).
THEOREM TranscodesOnce == Spec => TranscodedOnce
<1> DEFINE A == ~disturbed /\ dds'["cache"] # dds["cache"] /\ dds'["cache"].whole =>
                  <<ext["cache"], version["cache"]>> \notin made
<1>1. IInv /\ [Next]_vars => [A]_vars
  <2> SUFFICES ASSUME IInv, Next, ~disturbed, dds'["cache"] # dds["cache"],
                      dds'["cache"].whole
               PROVE  <<ext["cache"], version["cache"]>> \notin made
    OBVIOUS
  <2>1. PICK p \in Places : Decode(p) \/ Open(p) \/ Write(p)
    <3>1. ~Load /\ ~Probe /\ ~NoSource /\ ~Scan
      BY DEF Load, Ask, Recall, ResolveForeign, Reopen, Probe, NoSource, Scan, RunScan, Visit,
         EndScan, disk
    <3>2. ~World
      BY ExtFacts DEF IInv, TypeOK, World, EditSource, RevertSource, ChangeTarget, Restart, disk
    <3> QED
      BY <3>1, <3>2 DEF Next, Convert
  <2>2. ~Decode(p)
    BY DEF Decode, disk
  <2>3. UNCHANGED <<time, src, asked>> /\ (step[p] = "open" \/ step[p] = "write")
    BY <2>1, <2>2 DEF Open, Write
  <2>4. PICK whole \in BOOLEAN : dds' = [dds EXCEPT ![p] = Written(p, whole)]
    BY <2>1, <2>2 DEF Open, Write
  <2>5. p = "cache" /\ dds'["cache"] = Written("cache", whole)
    BY <2>3, <2>4, WrittenOver, ExtFacts
  <2>6. whole = TRUE
    BY <2>5, WrittenLemma, ExtFacts DEF IInv
  <2>7. step["cache"] = "write"
    <3>1. ~Open(p)
      <4>1. ASSUME Open(p) PROVE dds' = [dds EXCEPT ![p] = Written(p, FALSE)]
        BY <4>1, <2>5 DEF Open
      <4>2. ASSUME Open(p) PROVE dds'["cache"] = Written("cache", FALSE)
        BY <4>1, <4>2, <2>3, <2>5, WrittenOver, ExtFacts
      <4> QED
        BY <4>2, WrittenLemma, ExtFacts DEF IInv
    <3> QED
      BY <2>1, <2>2, <2>5, <3>1 DEF Write
  <2> QED
    BY <2>3, <2>5, <2>6, <2>7, WrittenServes
<1> QED
  BY <1>1, Invariance, PTL DEF Spec, TranscodedOnce

\* After a scan that nothing disturbed no scan of any session converts anything
\* (TextureAutoConvert.h:11).
THEOREM ScansAreIdempotent == Spec => ScanIsIdempotent
<1> DEFINE A == step["target"] = "none" /\ step'["target"] = "decode" => settled # "yes"
<1>1. IInv /\ [Next]_vars => [A]_vars
  <2> SUFFICES ASSUME IInv, Next, step["target"] = "none", step'["target"] = "decode"
               PROVE  settled # "yes"
    OBVIOUS
  <2>1. PICK e \in Sources : Visit(e)
    <3>1. ~Load /\ ~NoSource /\ ~EndScan /\ \A dryRun \in BOOLEAN : ~RunScan(dryRun)
      BY DEF Load, Ask, Recall, ResolveForeign, Reopen, NoSource, RunScan, EndScan, converts
    <3>2. ~Probe
      BY ExtFacts DEF IInv, TypeOK, Probe, converts
    <3>3. ~World
      BY ExtFacts DEF World, EditSource, RevertSource, ChangeTarget, Restart, converts
    <3>4. ~Convert
      BY ExtFacts DEF IInv, TypeOK, Convert, Decode, Open, Write, Converted, NotConverted, Over
    <3> QED
      BY <3>1, <3>2, <3>3, <3>4 DEF Next, Scan
  <2>2. src[e] # Missing /\ Outdated(e)
    BY <2>1 DEF Visit, converts
  <2> QED
    BY <2>2 DEF IInv, Scanned, Done
<1> QED
  BY <1>1, Invariance, PTL DEF Spec, ScanIsIdempotent
================================================================================
