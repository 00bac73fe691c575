-------------------------- MODULE FrameDataProofs --------------------------
(***************************************************************************)
(* Proofs about FrameData: for every set of worlds, files, rules and       *)
(* faulty trackers, and any thresholds.  The three properties have an      *)
(* inductive invariant each, which need nothing of each other.             *)
(***************************************************************************)
EXTENDS FrameData, WellFoundedInduction, TLAPS

(***************************************************************************)
(* Helpers: what the operators of the model return.                        *)
(***************************************************************************)

\* A least element is a minimal one of the order that the library shows to
\* be well-founded.
LEMMA LeastNatural ==
  ASSUME NEW T \in SUBSET Nat, T # {}
  PROVE  \E x \in T : \A y \in T : x <= y
<1> DEFINE R == OpToRel(<, Nat)
<1>1. IsWellFoundedOn(R, Nat)
  BY NatLessThanWellFounded
<1>2. PICK x \in T : \A y \in T : ~(<<y, x>> \in R)
  <2> HIDE DEF R
  <2> QED BY <1>1, WFMin
<1>3. \A y \in T : ~(y < x)
  BY <1>2 DEF OpToRel
<1> QED
  BY <1>3

LEMMA MaxInRange ==
  ASSUME NEW n \in Nat, NEW S \in SUBSET (1 .. n), S # {}
  PROVE  Max(S) \in S /\ \A y \in S : y <= Max(S)
<1> DEFINE T == {n - y : y \in S}
<1>1. \A y \in S : n - y \in Nat
  OBVIOUS
<1>2. T \in SUBSET Nat /\ T # {}
  BY <1>1
<1>3. PICK x \in T : \A y \in T : x <= y
  <2> HIDE DEF T
  <2> QED BY <1>2, LeastNatural
<1>4. PICK m \in S : x = n - m
  BY <1>3
<1>5. \A y \in S : x <= n - y
  BY <1>3
<1>6. \A y \in S : m >= y
  BY <1>4, <1>5
<1> QED
  BY <1>4, <1>6 DEF Max

LEMMA MaxIs ==
  ASSUME NEW n \in Nat, NEW S \in SUBSET (1 .. n), NEW k \in S, \A y \in S : y <= k
  PROVE  Max(S) = k
<1>1. Max(S) \in S /\ \A y \in S : Max(S) >= y
  <2>1. k \in S /\ \A y \in S : k >= y
    OBVIOUS
  <2> QED
    BY <2>1 DEF Max
<1>2. PICK m : m = Max(S)
  OBVIOUS
<1>3. m \in 1 .. n /\ k \in 1 .. n /\ m >= k /\ m <= k
  BY <1>1, <1>2
<1>4. m = k
  BY <1>3
<1> QED
  BY <1>2, <1>4

\* What Loaded takes the least of.
LEMMA MinInRange ==
  ASSUME NEW n \in Nat, NEW S \in SUBSET (0 .. n), S # {}
  PROVE  Min(S) \in S
<1>1. S \in SUBSET Nat
  OBVIOUS
<1>2. PICK x \in S : \A y \in S : x <= y
  BY <1>1, LeastNatural
<1> QED
  BY <1>2 DEF Min

(***************************************************************************)
(* Trackers without errors are fresh.  A tracker that is not tried is      *)
(* disabled, and it was an error that disabled it.                         *)
(***************************************************************************)

Disabled == \A g \in Faulty : /\ health[g].errors \in Nat
                              /\ health[g].disabled => health[g].errors # 0
FreshInv == Disabled /\ HealthyMeansFresh

LEMMA InitFresh == Init => FreshInv
BY DEF Init, FreshInv, Disabled, HealthyMeansFresh, Healthy

\* An error counts: at the threshold and before it.
LEMMA ErrorCounts ==
  ASSUME NEW h, h.errors \in Nat
  PROVE  OnError(h).errors \in Nat \ {0}
<1> DEFINE e == Min({h.errors + 1, DisableThreshold})
<1>1. e \in {h.errors + 1, DisableThreshold}
  BY FrameDataAssumption DEF Min
<1>2. e \in Nat \ {0}
  BY <1>1, FrameDataAssumption
<1>3. CASE e = DisableThreshold /\ ~h.disabled
  BY <1>2, <1>3 DEF OnError
<1>4. CASE ~(e = DisableThreshold /\ ~h.disabled)
  BY <1>2, <1>4 DEF OnError
<1> QED
  BY <1>3, <1>4

\* A member of either sequence has a place in the two one after the other.
LEMMA PlaceInConcat ==
  ASSUME NEW S, NEW s \in Seq(S), NEW t \in Seq(S), NEW g \in Range(s) \cup Range(t)
  PROVE  g \in Range(s \o t)
<1>1. CASE g \in Range(s)
  <2>1. PICK i \in DOMAIN s : s[i] = g
    BY <1>1 DEF Range
  <2> QED
    BY <2>1 DEF Range
<1>2. CASE g \in Range(t)
  <2>1. PICK i \in DOMAIN t : t[i] = g
    BY <1>2 DEF Range
  <2>2. Len(s) + i \in DOMAIN (s \o t) /\ (s \o t)[Len(s) + i] = g
    BY <2>1
  <2> QED
    BY <2>2 DEF Range
<1> QED
  BY <1>1, <1>2

\* While the game does not load, every group has its turn.
LEMMA EveryGroupScheduled ==
  ASSUME NEW w, ~Loading(w), NEW g \in Groups
  PROVE  g \in Range(Schedule(w))
<1> DEFINE a == AlwaysFirst
           p == WhilePlaying
           u == <<"audio">>
<1>1. a \in Seq(Groups) /\ p \in Seq(Groups) /\ u \in Seq(Groups)
  <2>1. a \in Seq(Range(a))
    BY DEF AlwaysFirst, Range
  <2>2. p \in Seq(Range(p))
    BY DEF WhilePlaying, Range
  <2> HIDE DEF a, p
  <2>3. Range(a) \subseteq Groups /\ Range(p) \subseteq Groups /\ "audio" \in Groups
    BY DEF Groups, a, p
  <2> QED
    BY <2>1, <2>2, <2>3
<1>2. "audio" \in Range(u)
  BY DEF Range
<1>3. Schedule(w) = (a \o p) \o u
  BY DEF Schedule
<1>4. g \in Range(a) \cup Range(p) \cup Range(u)
  BY <1>2 DEF Groups
<1> HIDE DEF a, p, u
<1>5. a \o p \in Seq(Groups)
  BY <1>1
<1>6. g \in Range(a \o p) \cup Range(u)
  BY <1>1, <1>4, PlaceInConcat
<1> QED
  BY <1>1, <1>3, <1>5, <1>6, PlaceInConcat

\* Of a tracker's record, what a collection does with it.
LEMMA CollectHealth ==
  ASSUME Disabled, NEW w, NEW called, NEW throws \in SUBSET Faulty, NEW faults \in SUBSET Faulty,
         Collect(w, called, throws, faults)
  PROVE  /\ Disabled'
         /\ \A g \in Faulty : health'[g].errors = 0 =>
                \/ g \in called \ (throws \cup faults)
                \/ /\ g \notin called \cap throws
                   /\ health'[g] = health[g]
<1> DEFINE read == called \ (throws \cup faults)
<1>1. health' = [g \in Faulty |-> IF g \in read THEN OnSuccess(health[g])
                                  ELSE IF g \in called \cap throws THEN OnError(health[g])
                                  ELSE health[g]]
  BY DEF Collect
<1>2. ASSUME NEW g \in Faulty
      PROVE  /\ health'[g].errors \in Nat
             /\ health'[g].disabled => health'[g].errors # 0
             /\ health'[g].errors = 0 =>
                    g \in read \/ (g \notin called \cap throws /\ health'[g] = health[g])
  <2> HIDE DEF read
  <2>1. CASE g \in read
    BY <1>1, <2>1 DEF OnSuccess, Healthy
  <2>2. CASE g \notin read /\ g \in called \cap throws
    <3>1. health'[g] = OnError(health[g]) /\ health[g].errors \in Nat
      BY <1>1, <2>2 DEF Disabled
    <3> QED
      BY <3>1, ErrorCounts
  <2>3. CASE g \notin read /\ g \notin called \cap throws
    BY <1>1, <2>3 DEF Disabled
  <2> QED
    BY <2>1, <2>2, <2>3
<1> QED
  BY <1>2 DEF Disabled

\* Without a fault every tracker that may run is called in its turn.
LEMMA AllCalled ==
  ASSUME NEW w, NEW g \in Range(Schedule(w)), Runs(g)
  PROVE  g \in Called(w, {})
<1>1. PICK i \in DOMAIN Schedule(w) : Schedule(w)[i] = g
  BY DEF Range
<1> QED
  BY <1>1 DEF Called

LEMMA StepFresh == FreshInv /\ [Next]_vars => FreshInv'
<1> SUFFICES ASSUME FreshInv, [Next]_vars PROVE FreshInv'
  OBVIOUS
<1>1. CASE Update
  <2>1. PICK w \in {World(c) : c \in Worlds} :
            \E called \in {Called(w, {})} : \E throws \in SUBSET (Faulty \cap called) :
                Collect(w, called, throws, {}) /\ stamped' = called \ throws /\ played' = ~Loading(w)
    BY <1>1 DEF Update
  <2>2. PICK called \in {Called(w, {})} : \E throws \in SUBSET (Faulty \cap called) :
            Collect(w, called, throws, {}) /\ stamped' = called \ throws /\ played' = ~Loading(w)
    BY <2>1
  <2>3. PICK throws \in SUBSET (Faulty \cap called) :
            Collect(w, called, throws, {}) /\ stamped' = called \ throws /\ played' = ~Loading(w)
    BY <2>2
  <2>4. Disabled' /\ \A g \in Faulty : health'[g].errors = 0 =>
            \/ g \in called \ throws
            \/ g \notin called \cap throws /\ health'[g] = health[g]
    <3>1. throws \in SUBSET Faulty /\ {} \in SUBSET Faulty /\ called \ (throws \cup {}) = called \ throws
      OBVIOUS
    <3> QED
      BY <2>3, <3>1, CollectHealth DEF FreshInv
  <2>5. ASSUME played', NEW g \in Groups, g \in Faulty => health'[g].errors = 0
        PROVE  g \in stamped'
    <3>1. g \in Range(Schedule(w))
      BY <2>3, <2>5, EveryGroupScheduled
    <3>2. CASE g \notin Faulty
      BY <2>3, <3>1, <3>2, AllCalled DEF Runs
    <3>3. CASE g \in Faulty /\ health'[g] = health[g] /\ g \notin called \cap throws
      <4>1. ~health[g].disabled
        BY <2>5, <3>3 DEF FreshInv, Disabled
      <4>2. Runs(g)
        BY <4>1 DEF Runs, ShouldRun
      <4> QED
        BY <2>3, <3>1, <3>3, <4>2, AllCalled
    <3> QED
      BY <2>3, <2>4, <2>5, <3>2, <3>3
  <2> QED
    BY <2>4, <2>5 DEF FreshInv, HealthyMeansFresh
<1>2. CASE AbortedUpdate
  <2>1. PICK w \in {World(c) : c \in Worlds}, f \in Faulty :
            \E called \in {Called(w, {f})} :
                /\ Collect(w, called, {}, {f})
                /\ stamped' = stamped \cup (called \ {f})
                /\ played' = played
    BY <1>2 DEF AbortedUpdate
  <2>2. PICK called \in {Called(w, {f})} :
            /\ Collect(w, called, {}, {f})
            /\ stamped' = stamped \cup (called \ {f})
            /\ played' = played
    BY <2>1
  <2>3. Disabled' /\ \A g \in Faulty : health'[g].errors = 0 =>
            g \in called \ {f} \/ health'[g] = health[g]
    <3>1. {} \in SUBSET Faulty /\ {f} \in SUBSET Faulty /\ called \ ({} \cup {f}) = called \ {f}
      OBVIOUS
    <3>2. /\ Disabled'
          /\ \A g \in Faulty : health'[g].errors = 0 =>
                \/ g \in called \ ({} \cup {f})
                \/ g \notin called \cap {} /\ health'[g] = health[g]
      BY <2>2, <3>1, CollectHealth DEF FreshInv
    <3> QED
      BY <3>1, <3>2
  <2> QED
    BY <2>2, <2>3 DEF FreshInv, HealthyMeansFresh
<1>3. CASE UNCHANGED <<health, played, stamped>>
  BY <1>3 DEF FreshInv, Disabled, HealthyMeansFresh
<1> QED
  BY <1>1, <1>2, <1>3 DEF Next, vars, frameVars

\* A group whose tracker has no errors is of the last complete update or
\* later (main.cpp DoFrameUpdate, SB_SAFE_UPDATE).
THEOREM Fresh == Spec => []HealthyMeansFresh
<1>1. FreshInv => HealthyMeansFresh
  BY DEF FreshInv
<1> QED
  BY <1>1, InitFresh, StepFresh, PTL DEF Spec

(***************************************************************************)
(* ENB and the region: what was sent is what the region has, so that a     *)
(* group that is not dirty needs no push, whatever cut updates collected.  *)
(***************************************************************************)

EnbInv == EnbIsCurrent /\ (sent # Nil => shm.body = sent)

LEMMA StepEnb == EnbInv /\ [Next]_vars => EnbInv'
<1> SUFFICES ASSUME EnbInv, [Next]_vars PROVE EnbInv'
  OBVIOUS
<1>1. CASE Update
  <2>1. PICK w \in {World(c) : c \in Worlds} :
            WriteFrame(w) /\ \E refuses \in SUBSET (Refusable \cap Dirty) : PushAllData(refuses)
    BY <1>1 DEF Update
  <2>2. PICK refuses \in SUBSET Refusable : PushAllData(refuses)
    BY <2>1
  <2>3. shm'.body = data' /\ sent' = data'
    BY <2>1, <2>2 DEF WriteFrame, PushAllData
  <2>4. ASSUME NEW g \in Groups \ refused'
        PROVE  enb'[g] = data'[g]
    <3>1. CASE g \in Dirty
      BY <2>2, <2>4, <3>1 DEF PushAllData
    <3>2. CASE g \notin Dirty
      <4>1. sent # Nil /\ data'[g] = sent[g]
        BY <3>2 DEF Dirty
      <4>2. g \notin refused /\ enb'[g] = enb[g]
        BY <2>2, <2>4, <3>2 DEF PushAllData
      <4> QED
        BY <4>1, <4>2 DEF EnbInv, EnbIsCurrent
    <3> QED
      BY <3>1, <3>2
  <2> QED
    BY <2>3, <2>4 DEF EnbInv, EnbIsCurrent
<1>2. CASE UNCHANGED <<sent, enb, refused, shm>>
  BY <1>2 DEF EnbInv, EnbIsCurrent
<1> QED
  BY <1>1, <1>2 DEF Next, AbortedUpdate, vars, frameVars

\* ENB holds of every group that it did not refuse what the region says
\* (ENBInterface::PushAllData).
THEOREM Current == Spec => []EnbIsCurrent
<1>1. Init => EnbInv
  BY DEF Init, EnbInv, EnbIsCurrent
<1>2. EnbInv => EnbIsCurrent
  BY DEF EnbInv
<1> QED
  BY <1>1, <1>2, StepEnb, PTL DEF Spec

(***************************************************************************)
(* The readers of a parameter: a name leads to its last section, which is  *)
(* the one whose value ENB was given last.                                 *)
(***************************************************************************)

Sections(ps) ==
    /\ \E n \in Nat : DOMAIN ps = 1 .. n
    /\ \A i \in DOMAIN ps : {"shader", "group", "name", "now"} \subseteq DOMAIN ps[i]
    /\ \A i \in DOMAIN ps : Place(ps[i]) \in Places
Unread(ps) == \A i \in DOMAIN ps : ps[i].now = 0
Pushed == \A n \in DOMAIN index : params[index[n]].now = shader[Place(params[index[n]])]
ParamsInv ==
    /\ ini.text \in Files
    /\ Sections(params) /\ index = IndexOf(params)
    /\ Unread(params) \/ Pushed

\* Where IndexOf leads is a section of that name, whatever is asked.
LEMMA IndexLeads ==
  ASSUME NEW ps, Sections(ps), NEW n \in DOMAIN IndexOf(ps)
  PROVE  /\ IndexOf(ps)[n] = Max({i \in DOMAIN ps : ps[i].name = n})
         /\ IndexOf(ps)[n] \in DOMAIN ps /\ ps[IndexOf(ps)[n]].name = n
         /\ \A i \in DOMAIN ps : ps[i].name = n => i <= IndexOf(ps)[n]
<1> DEFINE at == {i \in DOMAIN ps : ps[i].name = n}
<1>1. PICK some \in DOMAIN ps : ps[some].name = n
  BY DEF IndexOf
<1>2. PICK k \in Nat : DOMAIN ps = 1 .. k
  BY DEF Sections
<1>3. at \in SUBSET (1 .. k) /\ at # {}
  BY <1>1, <1>2
<1>4. Max(at) \in at /\ \A i \in at : i <= Max(at)
  <2> HIDE DEF at
  <2> QED BY <1>2, <1>3, MaxInRange
<1> QED
  BY <1>1, <1>4 DEF IndexOf, Sections

\* What is loaded of a file are its first sections, with no value yet.
LEMMA LoadedSections ==
  ASSUME NEW file \in Files
  PROVE  Sections(Loaded(file)) /\ Unread(Loaded(file))
<1> DEFINE broken == {i \in DOMAIN file : file[i].broken}
           last == Min({Len(file)} \cup broken)
           ps == Loaded(file)
<1>1. /\ file \in Seq(Range(file))
      /\ \A i \in DOMAIN file : {"shader", "group", "name", "broken"} \subseteq DOMAIN file[i]
  BY FilesAssumption
<1>2. Len(file) \in Nat /\ DOMAIN file = 1 .. Len(file)
  BY <1>1
<1>3. last \in 0 .. Len(file)
  <2>1. {Len(file)} \cup broken \in SUBSET (0 .. Len(file))
    BY <1>2
  <2> HIDE DEF broken
  <2>2. last \in {Len(file)} \cup broken
    BY <1>2, <2>1, MinInRange
  <2> QED
    BY <2>1, <2>2
<1>4. ps = [i \in 1 .. last |->
              [key \in DOMAIN file[i] \cup {"now"} |-> IF key = "now" THEN 0 ELSE file[i][key]]]
  BY DEF Loaded
<1> HIDE DEF last, ps
<1>5. ASSUME NEW i \in DOMAIN ps
      PROVE  /\ {"shader", "group", "name", "now"} \subseteq DOMAIN ps[i]
             /\ Place(ps[i]) \in Places /\ ps[i].now = 0
  <2>1. i \in DOMAIN file
    BY <1>2, <1>3, <1>4
  <2>2. /\ DOMAIN ps[i] = DOMAIN file[i] \cup {"now"}
        /\ ps[i].now = 0 /\ Place(ps[i]) = Place(file[i])
    BY <1>1, <1>4, <2>1 DEF Place
  <2>3. Place(file[i]) \in Places
    BY <2>1 DEF Places, Range
  <2> QED
    BY <1>1, <2>1, <2>2, <2>3
<1>6. DOMAIN ps = 1 .. last /\ last \in Nat
  BY <1>2, <1>3, <1>4
<1>7. Sections(ps) /\ Unread(ps)
  BY <1>5, <1>6 DEF Sections, Unread
<1> QED
  BY <1>7 DEF ps

LEMMA InitParams == Init => ParamsInv
<1> SUFFICES ASSUME Init PROVE ParamsInv
  OBVIOUS
<1>1. PICK file \in Files : params = Loaded(file) /\ index = IndexOf(Loaded(file)) /\ ini.text = file
  BY DEF Init, WpInit
<1> QED
  BY <1>1, LoadedSections DEF ParamsInv

\* With new values the sections have the names that they had.
WithNow(ps, now) == [i \in DOMAIN ps |-> [ps[i] EXCEPT !.now = now[i]]]
LEMMA SameSections ==
  ASSUME NEW ps, Sections(ps), NEW now, NEW new, new = WithNow(ps, now)
  PROVE  /\ DOMAIN new = DOMAIN ps /\ Sections(new) /\ IndexOf(new) = IndexOf(ps)
         /\ \A i \in DOMAIN ps : new[i].now = now[i] /\ new[i].name = ps[i].name
<1>1. DOMAIN new = DOMAIN ps
  BY DEF WithNow
<1>2. ASSUME NEW i \in DOMAIN ps
      PROVE  /\ DOMAIN new[i] = DOMAIN ps[i]
             /\ new[i].now = now[i] /\ new[i].name = ps[i].name /\ Place(new[i]) = Place(ps[i])
  <2>1. /\ new[i] = [ps[i] EXCEPT !.now = now[i]]
        /\ {"shader", "group", "name", "now"} \subseteq DOMAIN ps[i]
    BY DEF Sections, WithNow
  <2> QED
    BY <2>1 DEF Place
<1>3. Sections(new)
  BY <1>1, <1>2 DEF Sections
<1>4. IndexOf(new) = IndexOf(ps)
  <2>1. {new[i].name : i \in DOMAIN new} = {ps[i].name : i \in DOMAIN ps}
    BY <1>1, <1>2
  <2>2. ASSUME NEW n
        PROVE  Max({i \in DOMAIN new : new[i].name = n}) = Max({i \in DOMAIN ps : ps[i].name = n})
    <3>1. {i \in DOMAIN new : new[i].name = n} = {i \in DOMAIN ps : ps[i].name = n}
      BY <1>1, <1>2
    <3> QED
      BY <3>1
  <2>3. \A n \in DOMAIN IndexOf(new) : IndexOf(new)[n] = IndexOf(ps)[n]
    BY <2>1, <2>2 DEF IndexOf
  <2>4. DOMAIN IndexOf(new) = DOMAIN IndexOf(ps)
    BY <2>1 DEF IndexOf
  <2>5. /\ IndexOf(new) = [n \in DOMAIN IndexOf(new) |-> IndexOf(new)[n]]
        /\ IndexOf(ps) = [n \in DOMAIN IndexOf(ps) |-> IndexOf(ps)[n]]
    BY DEF IndexOf
  <2> QED
    BY <2>3, <2>4, <2>5
<1> QED
  BY <1>1, <1>2, <1>3, <1>4

LEMMA StepParams == ParamsInv /\ [Next]_vars => ParamsInv'
<1> SUFFICES ASSUME ParamsInv, [Next]_vars PROVE ParamsInv'
  OBVIOUS
<1>1. CASE Update
  <2>1. PICK w \in {World(c) : c \in Worlds} : UpdateParams(w)
    BY <1>1 DEF Update
  <2>2. CASE ~w.sky
    BY <2>1, <2>2 DEF UpdateParams, wpVars, ParamsInv, Pushed
  <2>3. CASE w.sky
    <3>1. PICK now : LET ps == [i \in DOMAIN params |-> [params[i] EXCEPT !.now = now[i]]] IN
                     /\ PushAllToENB(ps)
                     /\ \E due \in {FALSE, ini.written # stamp} : CheckHotReload(due, ps)
                     /\ ini' = ini
      BY <2>1, <2>3 DEF UpdateParams
    <3>2. PICK ps : /\ ps = WithNow(params, now) /\ PushAllToENB(ps) /\ ini' = ini
                    /\ \E due \in {FALSE, ini.written # stamp} : CheckHotReload(due, ps)
      BY <3>1 DEF WithNow
    <3>3. DOMAIN ps = DOMAIN params /\ Sections(ps) /\ IndexOf(ps) = index
      <4>1. Sections(params) /\ index = IndexOf(params)
        BY DEF ParamsInv
      <4> QED
        BY <3>2, <4>1, SameSections
    <3>4. CASE params' = Loaded(ini.text) /\ index' = IndexOf(Loaded(ini.text))
      BY <3>2, <3>4, LoadedSections DEF ParamsInv
    <3>5. CASE params' = ps /\ index' = index
      <4>1. ASSUME NEW n \in DOMAIN index
            PROVE  ps[index[n]].now = shader'[Place(ps[index[n]])]
        <5>1. PICK k : k = index[n]
          OBVIOUS
        <5>2. k \in DOMAIN ps /\ ps[k].name = n /\ \A i \in DOMAIN ps : ps[i].name = n => i <= k
          BY <3>3, <5>1, IndexLeads
        <5>3. PICK place : place = Place(ps[k])
          OBVIOUS
        <5>4. PICK at : at = {i \in DOMAIN ps : Place(ps[i]) = place}
          OBVIOUS
        <5>5. \A i \in at : i \in DOMAIN ps /\ ps[i].name = n
          <6> SUFFICES ASSUME NEW i \in at PROVE i \in DOMAIN ps /\ ps[i].name = n
            OBVIOUS
          <6>1. i \in DOMAIN ps /\ Place(ps[i]) = Place(ps[k])
            BY <5>3, <5>4
          <6> QED BY <5>2, <6>1 DEF Place
        <5>6. PICK last \in Nat : DOMAIN ps = 1 .. last
          BY <3>3 DEF Sections
        <5>7. Max(at) = k /\ k \in at
          <6>1. k \in at /\ at \in SUBSET (1 .. last) /\ \A i \in at : i <= k
            BY <5>2, <5>3, <5>4, <5>5, <5>6
          <6> QED BY <5>6, <6>1, MaxIs
        <5>8. place \in Places
          BY <3>3, <5>2, <5>3 DEF Sections
        <5>9. shader'[place] = IF at = {} THEN shader[place] ELSE ps[Max(at)].now
          BY <3>2, <5>4, <5>8 DEF PushAllToENB
        <5> QED
          BY <5>1, <5>3, <5>7, <5>9
      <4> QED
        BY <3>2, <3>3, <3>5, <4>1 DEF ParamsInv, Pushed
    <3> QED
      BY <3>2, <3>4, <3>5 DEF CheckHotReload, LoadParameterINI
  <2> QED
    BY <2>2, <2>3
<1>2. CASE EditIni
  BY <1>2 DEF EditIni, ParamsInv, Pushed
<1>3. CASE UNCHANGED wpVars
  BY <1>3 DEF wpVars, ParamsInv, Pushed
<1> QED
  BY <1>1, <1>2, <1>3 DEF Next, AbortedUpdate, vars

LEMMA ParamsAgree == ParamsInv => ReadersAgree
<1> SUFFICES ASSUME ParamsInv, NEW n \in DOMAIN index
             PROVE  GetValue(params, index, n) \in {0, shader[Place(params[LastNamed(n)])]}
  BY DEF ReadersAgree
<1>1. index[n] \in DOMAIN params
  BY IndexLeads DEF ParamsInv
<1>2. GetValue(params, index, n) = params[index[n]].now
  BY <1>1 DEF GetValue
<1>3. index[n] = LastNamed(n)
  BY IndexLeads DEF ParamsInv, LastNamed
<1> QED
  BY <1>1, <1>2, <1>3 DEF ParamsInv, Unread, Pushed

\* A reader of the region, who asks by name, and the shader parameter that the last
\* section of that name is about agree, but for the time after a reload when there
\* is no value yet, for any files
\* (WeatherParameterComputer::PushAllToENB, GetValue).
THEOREM Agree == Spec => []ReadersAgree
BY InitParams, StepParams, ParamsAgree, PTL DEF Spec
=============================================================================
