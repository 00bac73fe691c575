------------------------------ MODULE ParmLink ------------------------------
(***************************************************************************)
(* Parameter links: a file of lines  name := expression  is compiled when  *)
(* the game has loaded, and every update evaluates the lines in order and  *)
(* keeps each value under its name, so that lines can use one another.     *)
(*                                                                         *)
(* The language of the expressions is a parameter: what a text is compiled *)
(* to is a closure that looks names up, a function of their values.        *)
(* ExprParser is the language that the program has.                        *)
(***************************************************************************)
EXTENDS Integers, Sequences, FiniteSetsExt

CONSTANTS Files,         \* the files the player may have: lines [name, text, meant],
                         \* meant being the code of a text without errors, or <<>>
          Worlds,        \* what the trackers may have collected
          Registered,    \* the built-in variables, in the order of their registration:
                         \* records [name, from], from a field of the collected data
          Compiled(_),   \* the code of a text
          Lookups(_),    \* the names that the code looks up
          Outcome(_, _), \* what the code computes from their values
          Nought         \* the number zero

ASSUME LinkAssumption == \A lines \in Files : Len(lines) \in Nat

VARIABLES phase,       \* where the plugin is in its life
          cfg,         \* the file that was there when it loaded
          expressions, \* m_expressions: lines [name, code]
          userVars,    \* m_userVars, a function of names
          world        \* GetData()

linkVars == <<phase, cfg, expressions, userVars, world>>

\* A name registered twice is the later one; a built-in hides a line's name.
GetVariable(name, env) ==
    LET built == {i \in DOMAIN Registered : Registered[i].name = name}
    IN IF built # {} THEN env.world[Registered[Max(built)].from]
       ELSE IF name \in DOMAIN env.user THEN env.user[name] ELSE Nought

\* The closure of a line, called.
ValueOf(expr, env) == Outcome(expr.code, [n \in Lookups(expr.code) |-> GetVariable(n, env)])

\* A line that is no assignment (a comment, a function, a setFloat) is skipped.
LoadCFG(lines) ==
    LET after[k \in 0..Len(lines)] ==
            IF k = 0 THEN <<>>
            ELSE IF lines[k].name = "" THEN after[k - 1]
            ELSE Append(after[k - 1], [name |-> lines[k].name, code |-> Compiled(lines[k].text)])
    IN after[Len(lines)]

Stored(env, name, value) ==
    [env EXCEPT !.user = [n \in DOMAIN @ \cup {name} |-> IF n = name THEN value ELSE @[n]]]

\* Wrong: every line is evaluated with the values of the update before.
EvaluateAtOnce(env, expr) == Stored(env, expr.name, ValueOf(expr, [env EXCEPT !.user = userVars]))

Evaluate(env, expr) == Stored(env, expr.name, ValueOf(expr, env))

\* The lines, one after the other.
EvaluateAll(env, list) ==
    LET after[k \in 0..Len(list)] == IF k = 0 THEN env ELSE Evaluate(after[k - 1], list[k])
    IN after[Len(list)]

LinkInit == phase = "loading" /\ cfg = <<>> /\ expressions = <<>> /\ userVars = <<>> /\ world \in Worlds

\* The game's data has loaded; there may be no file.
Initialize ==
    /\ phase = "loading" /\ phase' = "loaded"
    /\ cfg' \in {<<>>} \cup Files
    /\ expressions' = LoadCFG(cfg')
    /\ UNCHANGED <<userVars, world>>
\* One update of the frame: the trackers collect, and then the lines run.
Update ==
    /\ phase \in {"loaded", "updated"} /\ phase' = "updated"
    /\ world' \in Worlds
    /\ userVars' = EvaluateAll([world |-> world', user |-> userVars], expressions).user
    /\ UNCHANGED <<cfg, expressions>>
Shutdown ==
    /\ phase \in {"loaded", "updated"} /\ phase' = "shut"
    /\ expressions' = <<>> /\ userVars' = <<>> /\ UNCHANGED <<cfg, world>>

LinkNext == Initialize \/ Update \/ Shutdown
LinkSpec == LinkInit /\ [][LinkNext]_linkVars

-----------------------------------------------------------------------------
\* The lines of a file that are compiled.
Assignments(lines) == SelectSeq(lines, LAMBDA line : line.name # "")

\* Every expression, however its operators nest, is compiled to what was
\* meant: precedence, associativity, calls and the nested conditional
\* (ParseTernary to ParsePrimary).
CompiledAsMeant ==
    expressions # <<>> =>
        \A i \in DOMAIN expressions :
            LET meant == Assignments(cfg)[i].meant IN meant # <<>> => expressions[i].code = meant

\* Names that are assigned once and use only names assigned above them.
Ordered ==
    \A i \in DOMAIN expressions : \A j \in i..Len(expressions) :
        /\ expressions[j].name \notin Lookups(expressions[i].code)
        /\ j # i => expressions[j].name # expressions[i].name

\* After an update every name has the value of its definition, over the data
\* that this very update collected: no line of a well-ordered file lags a
\* frame behind another (ParmLinkCompat::Update, GetVariable).
DefinitionsHold ==
    phase = "updated" /\ Ordered =>
        \A i \in DOMAIN expressions :
            userVars[expressions[i].name] = ValueOf(expressions[i], [world |-> world, user |-> userVars])
=============================================================================
