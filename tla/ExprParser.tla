----------------------------- MODULE ExprParser -----------------------------
(***************************************************************************)
(* The expressions of parameter links: how a text is parsed, and what the  *)
(* compiled expression computes from the values of the names it looks up.  *)
(*                                                                         *)
(* A text is a sequence of tokens, a number is an exact fraction; the      *)
(* calls of the mathematics library and smoothstep are left out.           *)
(***************************************************************************)
EXTENDS Integers, Sequences

-----------------------------------------------------------------------------
\* Fractions in lowest terms, with a positive denominator.
RECURSIVE Gcd(_, _)
Gcd(m, n) == IF n = 0 THEN m ELSE Gcd(n, m % n)
Reduced(n, d) == LET g == Gcd(IF n < 0 THEN -n ELSE n, d) IN <<n \div g, d \div g>>
Int1(n) == <<n, 1>>
True1 == Int1(1)
Zero1 == Int1(0)
Flag(b) == IF b THEN True1 ELSE Zero1
Less(a, b) == a[1] * b[2] < b[1] * a[2]
Same(a, b) == a = b
Minus(a) == <<-a[1], a[2]>>
Plus(a, b) == Reduced(a[1] * b[2] + b[1] * a[2], a[2] * b[2])
Times(a, b) == Reduced(a[1] * b[1], a[2] * b[2])
Over(a, b) == IF b[1] > 0 THEN Reduced(a[1] * b[2], a[2] * b[1]) ELSE Reduced(-a[1] * b[2], a[2] * (-b[1]))
Floor(a) == Int1(a[1] \div a[2])
Trunc(a) == IF a[1] < 0 THEN Minus(Floor(Minus(a))) ELSE Floor(a)
Least(a, b) == IF Less(b, a) THEN b ELSE a
Most(a, b) == IF Less(a, b) THEN b ELSE a
Clamp(a, low, high) == IF Less(a, low) THEN low ELSE IF Less(high, a) THEN high ELSE a
Yes(a) == Less(<<1, 2>>, a)

-----------------------------------------------------------------------------
\* The parser: a production takes the tokens that are left and gives a tree
\* and the tokens after it.  A tree is a tuple: its kind and its parts.
Tree(t) == t[1]
Rest(t) == t[2]
Token(tokens) == IF tokens = <<>> THEN <<"end">> ELSE Head(tokens)
Next1(tokens) == IF tokens = <<>> THEN <<>> ELSE Tail(tokens)
Opt(kind, tokens) == IF Token(tokens)[1] = kind THEN Next1(tokens) ELSE tokens
Nothing == <<"num", Zero1>>

\* The binary operators, the loosest first.
Levels == <<{"||"}, {"&&"}, {"<", ">", "<=", ">=", "==", "!="}, {"+", "-"}, {"*", "/", "%"}>>

RECURSIVE ParseTernary(_), ParseBinary(_, _), ParseRight(_, _), ParseUnary(_), ParseArgs(_)

ParseTernary(tokens) ==
    LET cond == ParseBinary(1, tokens)
    IN IF Token(Rest(cond))[1] # "?" THEN cond
       ELSE LET yes == ParseTernary(Next1(Rest(cond)))
                no == ParseTernary(Opt(":", Rest(yes)))
            IN <<<<"?", Tree(cond), Tree(yes), Tree(no)>>, Rest(no)>>

\* Operators associate to the left: both operands are one level tighter.
ParseOperand(level, tokens) ==
    IF level = Len(Levels) THEN ParseUnary(tokens) ELSE ParseBinary(level + 1, tokens)

\* Wrong: what follows the operator is parsed at its own level.
AfterOperatorLoose(level, tokens) == ParseBinary(level, tokens)

AfterOperator(level, tokens) == ParseOperand(level, tokens)
ParseRight(level, left) ==
    LET op == Token(Rest(left))[1]
        right == AfterOperator(level, Next1(Rest(left)))
    IN IF op \notin Levels[level] THEN left
       ELSE ParseRight(level, <<<<op, Tree(left), Tree(right)>>, Rest(right)>>)
ParseBinary(level, tokens) == ParseRight(level, ParseOperand(level, tokens))

\* ParseFunc: the arguments, after the opening parenthesis.
ParseArgs(tokens) ==
    LET arg == ParseTernary(tokens)
        others == ParseArgs(Next1(Rest(arg)))
    IN IF Token(Rest(arg))[1] = "," THEN <<<<Tree(arg)>> \o Tree(others), Rest(others)>>
       ELSE <<<<Tree(arg)>>, Rest(arg)>>
ParseFunc(name, tokens) ==
    LET args == IF Token(tokens)[1] = ")" THEN <<<<>>, tokens>> ELSE ParseArgs(tokens)
    IN <<<<"call", name, Tree(args)>>, Opt(")", Rest(args))>>

\* What is no primary is skipped and counts as nothing; a missing closing
\* parenthesis is forgiven.
ParsePrimary(tokens) ==
    LET t == Token(tokens)
        rest == Next1(tokens)
        inner == ParseTernary(rest)
    IN CASE t[1] = "num" -> <<t, rest>>
         [] t[1] = "(" -> <<Tree(inner), Opt(")", Rest(inner))>>
         [] t[1] = "id" /\ Token(rest)[1] = "(" -> ParseFunc(t[2], Next1(rest))
         [] t[1] = "id" -> <<<<"var", t[2]>>, rest>>
         [] OTHER -> <<Nothing, rest>>
ParseUnary(tokens) ==
    LET operand == ParseUnary(Next1(tokens))
    IN IF Token(tokens)[1] \in {"-", "!"}
       THEN <<<<Token(tokens)[1], Tree(operand)>>, Rest(operand)>>
       ELSE ParsePrimary(tokens)

\* What follows a whole expression is not looked at.
CompileMathExpr(text) == IF text = <<>> THEN Nothing ELSE Tree(ParseTernary(text))

-----------------------------------------------------------------------------
\* The compiled code.  A division by zero is zero, and so is an unknown call.
Binary(op, a, b) ==
    CASE op = "||" -> Flag(Yes(a) \/ Yes(b))
      [] op = "&&" -> Flag(Yes(a) /\ Yes(b))
      [] op = "<" -> Flag(Less(a, b))
      [] op = ">" -> Flag(Less(b, a))
      [] op = "<=" -> Flag(~Less(b, a))
      [] op = ">=" -> Flag(~Less(a, b))
      [] op = "==" -> Flag(Same(a, b))
      [] op = "!=" -> Flag(~Same(a, b))
      [] op = "+" -> Plus(a, b)
      [] op = "-" -> Plus(a, Minus(b))
      [] op = "*" -> Times(a, b)
      [] op = "/" -> IF b[1] = 0 THEN Zero1 ELSE Over(a, b)
      [] op = "%" -> IF b[1] = 0 THEN Zero1 ELSE Plus(a, Minus(Times(b, Trunc(Over(a, b)))))

Call(name, a) ==
    CASE name = "abs" /\ Len(a) = 1 -> Most(a[1], Minus(a[1]))
      [] name = "floor" /\ Len(a) = 1 -> Floor(a[1])
      [] name = "ceil" /\ Len(a) = 1 -> Minus(Floor(Minus(a[1])))
      [] name = "trunc" /\ Len(a) = 1 -> Trunc(a[1])
      [] name = "frac" /\ Len(a) = 1 -> Plus(a[1], Minus(Floor(a[1])))
      [] name = "sign" /\ Len(a) = 1 -> Plus(Flag(Less(Zero1, a[1])), Minus(Flag(Less(a[1], Zero1))))
      [] name = "saturate" /\ Len(a) = 1 -> Clamp(a[1], Zero1, True1)
      [] name = "min" /\ Len(a) = 2 -> Least(a[1], a[2])
      [] name = "max" /\ Len(a) = 2 -> Most(a[1], a[2])
      [] name = "fmod" /\ Len(a) = 2 -> Binary("%", a[1], a[2])
      [] name = "step" /\ Len(a) = 2 -> Flag(~Less(a[2], a[1]))
      [] name \in {"lerp", "mix"} /\ Len(a) = 3 -> Plus(a[1], Times(Plus(a[2], Minus(a[1])), a[3]))
      [] name = "clamp" /\ Len(a) = 3 -> Clamp(a[1], a[2], a[3])
      [] OTHER -> Zero1

RECURSIVE Value(_, _)
Value(t, values) ==
    CASE t[1] = "num" -> t[2]
      [] t[1] = "var" -> values[t[2]]
      [] t[1] = "?" -> IF Yes(Value(t[2], values)) THEN Value(t[3], values) ELSE Value(t[4], values)
      [] t[1] = "call" -> Call(t[2], [i \in DOMAIN t[3] |-> Value(t[3][i], values)])
      [] t[1] = "!" -> Flag(~Yes(Value(t[2], values)))
      [] t[1] = "-" /\ Len(t) = 2 -> Minus(Value(t[2], values))
      [] OTHER -> Binary(t[1], Value(t[2], values), Value(t[3], values))

\* The names that an expression looks up.
RECURSIVE Uses(_)
Uses(t) == CASE t[1] = "var" -> {t[2]}
             [] t[1] = "num" -> {}
             [] t[1] = "call" -> UNION {Uses(t[3][i]) : i \in DOMAIN t[3]}
             [] OTHER -> UNION {Uses(t[i]) : i \in 2..Len(t)}

-----------------------------------------------------------------------------
\* How an expression is written, with no parenthesis that the precedence of
\* the comment above ParseTernary makes superfluous.
Level(t) ==
    IF t[1] = "?" THEN 0
    ELSE IF Len(t) = 3 /\ t[1] # "call" THEN CHOOSE l \in DOMAIN Levels : t[1] \in Levels[l]
    ELSE Len(Levels) + 1
RECURSIVE Printed(_)
Within(t, level) == IF Level(t) < level THEN <<<<"(">>>> \o Printed(t) \o <<<<")">>>> ELSE Printed(t)
Printed(t) ==
    CASE t[1] = "num" -> <<t>>
      [] t[1] = "var" -> <<<<"id", t[2]>>>>
      [] t[1] = "call" -> <<<<"id", t[2]>>, <<"(">>>> \o Printed(t[3][1]) \o <<<<",">>>> \o Printed(t[3][2]) \o <<<<")">>>>
      [] t[1] = "?" -> Within(t[2], 1) \o <<<<"?">>>> \o Printed(t[3]) \o <<<<":">>>> \o Printed(t[4])
      [] Len(t) = 2 -> <<<<t[1]>>>> \o Within(t[2], Len(Levels) + 1)
      [] OTHER -> Within(t[2], Level(t)) \o <<<<t[1]>>>> \o Within(t[3], Level(t) + 1)
=============================================================================
