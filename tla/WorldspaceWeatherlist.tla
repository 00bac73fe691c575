------------------------ MODULE WorldspaceWeatherlist ------------------------
(***************************************************************************)
(* Weather lists by worldspace: when the player comes to a worldspace, the *)
(* list that is routed to it is copied over ENB's own _weatherlist.ini.    *)
(* The game directory outlives the sessions of the game.  A list is known  *)
(* by the name of the file it is copied from.                              *)
(***************************************************************************)
EXTENDS SBConfig

CONSTANTS Absent,      \* no such file
          Shipped,     \* the list that comes with ENB
          Worldspaces  \* identifiers of worldspaces; 0 is an interior

VARIABLES enbseries,  \* the directory: [routing, legacy, lists, installed, locked,
                      \* imported]; routing and legacy are texts, installed is the list
                      \* in place, imported that the routing was written by an import
          router,     \* the session: [active, rules, default, last, file, backup]
          visit       \* where the player is, and the last worldspace whose list was
                      \* in place or could be copied as the player came: [at, served]

listVars == <<enbseries, router, visit>>

NoRouter == [active |-> FALSE, rules |-> <<>>, default |-> <<>>, last |-> 0, file |-> <<>>, backup |-> Absent]
NoVisit == [at |-> 0, served |-> {}]

-----------------------------------------------------------------------------
Options == <<Word("Options")>>
Routes == <<Word("Routes")>>
Default == <<Word("Default")>>

\* A rule needs identifiers and a file.
Usable(rules) == Selected(rules, {i \in DOMAIN rules : rules[i].file # <<>> /\ rules[i].ids # <<>>})
Entries(doc, name) == IF HasSection(doc, name) THEN Section(doc, name).entries ELSE <<>>

\* Wrong: an entry is split at its last colon.
SplitLast(value) ==
    LET last == Max({i \in DOMAIN value : value[i][1] = ":"})
    IN <<SubSeq(value, 1, last - 1), SubSeq(value, last + 1, Len(value))>>
Split2(value) == <<Before(value, ":"), After(value, ":")>>

RoutingRule(e) == [label |-> e.key, ids |-> AsIDList(Split2(e.val)[1]), file |-> Split2(e.val)[2]]
ParseRouting(text) ==
    LET doc == ParseText(text)
        entries == Entries(doc, Routes)
        routes == Selected(entries, {i \in DOMAIN entries : Has(entries[i].val, ":")})
    IN [rules |-> Usable([i \in DOMAIN routes |-> RoutingRule(routes[i])]),
        default |-> IF HasSection(doc, Options) THEN Get(Section(doc, Options), Default) ELSE <<>>]

LegacyRule(s) == [label |-> s.name, ids |-> AsIDList(Get(s, <<Word("WorldspaceIDs")>>)),
                  file |-> Get(s, <<Word("FileName")>>)]
ParseLegacy(text) ==
    LET doc == ParseText(text)
        lists == Selected(doc, {i \in DOMAIN doc : IsPrefix(<<Word("WEATHERLIST")>>, Base(doc[i]))})
    IN Usable([i \in DOMAIN lists |-> LegacyRule(lists[i])])

JoinID(line, id) == (IF line = <<>> THEN line ELSE Append(line, Sign("comma"))) \o <<Number(id)>>
EmitIDs(list) ==
    LET after[k \in 0..Len(list)] == IF k = 0 THEN <<>> ELSE JoinID(after[k - 1], list[k])
    IN after[Len(list)]
EmitRule(r) == r.label \o <<Sign("=")>> \o EmitIDs(r.ids) \o <<Sign(":")>> \o r.file
EmitRouting(rules, default) ==
    <<<<Sign("note")>>, <<Sign("[")>> \o Routes \o <<Sign("]")>>>>
    \o [i \in DOMAIN rules |-> EmitRule(rules[i])]
    \o <<<<Sign("[")>> \o Options \o <<Sign("]")>>, Default \o <<Sign("=")>> \o default>>

-----------------------------------------------------------------------------
\* A session begins.  The rules of another program's file are written down
\* in our form as soon as there are any.
Loaded ==
    IF enbseries.routing # Absent THEN ParseRouting(enbseries.routing)
    ELSE [rules |-> IF enbseries.legacy = Absent THEN <<>> ELSE ParseLegacy(enbseries.legacy), default |-> <<>>]
InitializeRouter ==
    \E read \in {Loaded} :
        /\ router' = IF read.rules = <<>> THEN NoRouter
                     ELSE [NoRouter EXCEPT !.active = TRUE, !.rules = read.rules, !.default = read.default,
                                           !.backup = enbseries.installed]
        /\ enbseries' = IF enbseries.routing = Absent /\ read.rules # <<>>
                        THEN [enbseries EXCEPT !.routing = EmitRouting(read.rules, <<>>), !.imported = TRUE] ELSE enbseries
        /\ visit' = NoVisit

\* Beside the game, ENB and the user open, close, add and remove lists.
ListsChange(files, locked) ==
    enbseries' = [enbseries EXCEPT !.lists = files, !.locked = locked] /\ UNCHANGED <<router, visit>>

Wanted(r, ws) ==
    LET fitting == {i \in DOMAIN r.rules : \E j \in DOMAIN r.rules[i].ids : r.rules[i].ids[j] = ws}
    IN IF fitting = {} THEN r.default ELSE r.rules[Min(fitting)].file
\* The list that a file name stands for, the empty one for the backup, and
\* what would be copied of it now.
Source(file) == IF file = <<>> THEN router.backup ELSE file
Content(file) == IF file = <<>> \/ file \in enbseries.lists THEN Source(file) ELSE Absent

\* Wrong: the file is taken for the active one before it has been found.
ApplyAtOnce(r, file) ==
    /\ router' = [r EXCEPT !.file = file]
    /\ enbseries' = IF Content(file) # Absent /\ ~enbseries.locked
                    THEN [enbseries EXCEPT !.installed = Content(file)] ELSE enbseries

\* A missing list, or a file ENB keeps open, leaves everything as it is.
ApplyWeatherlist(r, file) ==
    IF Content(file) = Absent \/ enbseries.locked THEN router' = r /\ UNCHANGED enbseries
    ELSE /\ router' = [r EXCEPT !.file = file]
         /\ enbseries' = [enbseries EXCEPT !.installed = Content(file)]

\* Whether the player's coming finds the list of the worldspace in place or
\* one that can be copied.
Servable(ws) ==
    LET file == Wanted(router, ws)
    IN enbseries.installed = Source(file) \/ (Content(file) # Absent /\ ~enbseries.locked)
Come(ws) ==
    visit' = IF ~router.active \/ ws = visit.at THEN visit
             ELSE [at |-> ws, served |-> IF Servable(ws) THEN {ws} ELSE visit.served]

\* The worldspace is noted before its list is applied, and not tried again.
UpdateRouter(ws) ==
    \E there \in {[router EXCEPT !.last = ws]} :
        /\ Come(ws)
        /\ IF ~router.active \/ ws = router.last THEN UNCHANGED <<enbseries, router>>
           ELSE IF Wanted(there, ws) = router.file THEN router' = there /\ UNCHANGED enbseries
           ELSE ApplyWeatherlist(there, Wanted(there, ws))

-----------------------------------------------------------------------------
\* The list in place is the one routed to the last worldspace the player came
\* to while it could be copied, before that the one the session found, however
\* lists are locked, added and removed meanwhile.  A copy that failed is not
\* made up for while the player stays, and stands in the way of no later one
\* (WorldspaceWeatherlist::Update, ApplyWeatherlist).
ActiveListInPlace ==
    router.active =>
        IF visit.served = {} THEN enbseries.installed = router.backup
        ELSE \A ws \in visit.served : enbseries.installed = Source(Wanted(router, ws))

\* What was imported from another program's file is read back the same in
\* every later session (ParseLegacy, EmitRouting, ParseRouting).
RoutesSurviveImport ==
    enbseries.routing # Absent /\ enbseries.imported =>
        ParseRouting(enbseries.routing) = [rules |-> ParseLegacy(enbseries.legacy), default |-> <<>>]

\* "Empty = restore ENB's shipped _weatherlist.ini for unrouted worldspaces"
\* (config/WeatherRouting.example.ini): once the player has come to one whose
\* list could be copied.
ShippedListRestored ==
    router.active =>
        \A ws \in visit.served : Wanted(router, ws) = <<>> => enbseries.installed = Shipped
=============================================================================
