------------------------------ MODULE SBConfig ------------------------------
(***************************************************************************)
(* The configuration dialect of the native components.  A text is a        *)
(* sequence of lines and a line a sequence of tokens, each a tuple of its  *)
(* kind and, for a word or a number, what it is.  Blanks only part tokens, *)
(* but a semicolon after a blank is a token of its own, and begins a note. *)
(***************************************************************************)
EXTENDS Integers, Sequences, SequencesExt, FiniteSetsExt

IsText(t) == t \in Seq(Seq(UNION {Range(t[i]) : i \in DOMAIN t}))
Word(w) == <<"word", w>>
Number(n) == <<"num", n>>
Sign(kind) == <<kind>>

Has(tokens, kind) == \E i \in DOMAIN tokens : tokens[i][1] = kind
At(tokens, kind) == Min({i \in DOMAIN tokens : tokens[i][1] = kind})
Before(tokens, kind) == IF Has(tokens, kind) THEN SubSeq(tokens, 1, At(tokens, kind) - 1) ELSE tokens
After(tokens, kind) == IF Has(tokens, kind) THEN SubSeq(tokens, At(tokens, kind) + 1, Len(tokens)) ELSE <<>>
\* A separator opens a piece; any other token joins the last one.
PieceToken(done, t, kind) ==
    IF t[1] = kind THEN Append(done, <<>>) ELSE [done EXCEPT ![Len(done)] = Append(@, t)]
Pieces(tokens, kind) ==
    LET after[k \in 0..Len(tokens)] ==
            IF k = 0 THEN <<<<>>>> ELSE PieceToken(after[k - 1], tokens[k], kind)
    IN after[Len(tokens)]

\* The elements of a list that are at the given places, in their order.
Selected(list, places) ==
    LET after[k \in 0..Len(list)] ==
            IF k = 0 THEN <<>> ELSE IF k \in places THEN Append(after[k - 1], list[k]) ELSE after[k - 1]
    IN after[Len(list)]

-----------------------------------------------------------------------------
\* What a value says; def stands for what it does not say.
AsNumber(v, def) == IF v # <<>> /\ v[1][1] = "num" THEN v[1][2] ELSE def
AsBool(v, def) ==
    IF v \in {<<Number(1)>>} \cup {<<Word(w)>> : w \in {"true", "on", "yes"}} THEN TRUE
    ELSE IF v \in {<<Number(0)>>} \cup {<<Word(w)>> : w \in {"false", "off", "no"}} THEN FALSE
    ELSE def
AsFormID(v) == AsNumber(v, 0)
AsColor4(v, def) ==
    LET parts == Pieces(v, "comma")
    IN [i \in DOMAIN def |-> IF i \in DOMAIN parts THEN AsNumber(parts[i], def[i]) ELSE def[i]]
AsIDList(v) ==
    LET parts == Pieces(v, "comma")
        named == Selected(parts, {i \in DOMAIN parts : parts[i] # <<>>})
    IN [i \in DOMAIN named |-> AsFormID(named[i])]

\* A document is a sequence of sections [name, entries]; the name of a
\* section may have an identifier after a colon.
Base(section) == Before(section.name, ":")
SuffixID(section) == AsFormID(After(section.name, ":"))
HasSection(doc, name) == \E i \in DOMAIN doc : doc[i].name = name
Section(doc, name) == doc[Min({i \in DOMAIN doc : doc[i].name = name})]
HasKey(section, key) == \E i \in DOMAIN section.entries : section.entries[i].key = key
\* The first entry of a key counts.
Find(section, key) == section.entries[Min({i \in DOMAIN section.entries : section.entries[i].key = key})].val
Get(section, key) == IF HasKey(section, key) THEN Find(section, key) ELSE <<>>

\* Entries before any header are in a section without a name; a line without
\* "=" is passed over, and a comment behind a value is cut off.
ParseLine(doc, line) ==
    LET open == IF doc = <<>> THEN <<[name |-> <<>>, entries |-> <<>>]>> ELSE doc
        entry == [key |-> Before(line, "="), val |-> Before(After(line, "="), "note")]
    IN IF line = <<>> \/ line[1][1] \in {"note", "#"} THEN doc
       ELSE IF line[1][1] = "[" THEN Append(doc, [name |-> Before(Tail(line), "]"), entries |-> <<>>])
       ELSE IF ~Has(line, "=") THEN doc
       ELSE [open EXCEPT ![Len(open)].entries = Append(@, entry)]
ParseText(text) ==
    LET after[k \in 0..Len(text)] == IF k = 0 THEN <<>> ELSE ParseLine(after[k - 1], text[k])
    IN after[Len(text)]
=============================================================================
