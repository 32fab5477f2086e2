-------------------------------- MODULE Expr --------------------------------
(***************************************************************************)
(* The monitor's expressions (expr.c): the token array that outlives a     *)
(* call, and the evaluation, checked on well-formed expressions against    *)
(* what they mean.  Numbers stand for the tokens that have a text (HEX,    *)
(* REG and SYMB are cut out of the line in the same way).                  *)
(*                                                                         *)
(* An expression is a tree: [op |-> "num", n], [op, e] with a prefix       *)
(* operator, [op, l, r] with a binary one.  Values are modulo Word.        *)
(***************************************************************************)
EXTENDS Integers, Sequences, FiniteSets

CONSTANTS
  ExprWord,      \* 2^32 in the code
  MaxTokens,     \* 32 in the code, which does not check it
  MemoryWord(_), \* vaddr_read
  Inputs         \* bound: the expressions of the first call, of the second, ...

Prefix == {"neg", "deref", "not"}
Binary == {"*", "/", "+", "-", "==", "!=", "&&", "||"}

VARIABLES str,     \* the texts in tokens[], digits as they were written
          asked, value,
          stale,   \* history: a text of this call was written over a longer one
          calls
exprVars == <<str, asked, value, stale, calls>>

Junk == -1         \* a value the code did not initialise
NoExpr == [op |-> "none"]

-----------------------------------------------------------------------------
(* The line an expression is typed as: the tokens' types and numbers.      *)

Binds(e) ==
  CASE e.op = "num" -> 6 [] e.op \in Prefix -> 5 [] e.op \in {"*", "/"} -> 4
    [] e.op \in {"+", "-"} -> 3 [] e.op \in {"==", "!="} -> 2 [] e.op = "&&" -> 1 [] e.op = "||" -> 0

Typed(type) == <<[type |-> type, n |-> 0]>>

RECURSIVE Line(_), Meaning(_), Decimal(_), Digits(_), Eval(_, _, _, _)
Inside(e, least) == IF Binds(e) >= least THEN Line(e) ELSE Typed("(") \o Line(e) \o Typed(")")
Line(e) ==
  CASE e.op = "num"     -> <<[type |-> "num", n |-> e.n]>>
    [] e.op = "neg"     -> Typed("-") \o Inside(e.e, 5)
    [] e.op = "deref"   -> Typed("*") \o Inside(e.e, 5)
    [] e.op = "not"     -> Typed("!") \o Inside(e.e, 5)
    [] e.op \in Binary  -> Inside(e.l, Binds(e)) \o Typed(e.op) \o Inside(e.r, Binds(e) + 1)

Truth(b) == IF b THEN 1 ELSE 0
Apply(op, x, y) ==
  CASE op = "+"  -> (x + y) % ExprWord
    [] op = "-"  -> (x - y) % ExprWord
    [] op = "*"  -> (x * y) % ExprWord
    [] op = "/"  -> IF y = 0 THEN Junk ELSE x \div y    \* NEMU dies of SIGFPE
    [] op = "==" -> Truth(x = y)
    [] op = "!=" -> Truth(x # y)
    [] op = "&&" -> Truth(x # 0 /\ y # 0)
    [] op = "||" -> Truth(x # 0 \/ y # 0)
    [] op = "neg" -> (-y) % ExprWord
    [] op = "not" -> Truth(y = 0)
    [] op = "deref" -> MemoryWord(y)

\* What the expression means.
Meaning(e) ==
  CASE e.op = "num"    -> e.n % ExprWord
    [] e.op \in Prefix -> LET y == Meaning(e.e) IN IF y = Junk THEN Junk ELSE Apply(e.op, 0, y)
    [] OTHER           -> LET x == Meaning(e.l)
                              y == Meaning(e.r)
                          IN  IF Junk \in {x, y} THEN Junk ELSE Apply(e.op, x, y)

-----------------------------------------------------------------------------
(* make_token.                                                             *)

Digits(n) == IF n < 10 THEN <<n>> ELSE Append(Digits(n \div 10), n % 10)
Decimal(s) == IF s = <<>> THEN 0 ELSE Decimal(SubSeq(s, 1, Len(s) - 1)) * 10 + s[Len(s)]   \* sscanf

\* The text is written over what the slot held, and no end is written.
Written(old, new) == new \o SubSeq(old, Len(new) + 1, Len(old))

StrAfter(line) ==
  [i \in DOMAIN str |-> IF i <= Len(line) /\ line[i].type = "num" THEN Written(str[i], Digits(line[i].n)) ELSE str[i]]

\* expr's loop: which - and * are prefixes.  A '-' or '*' that has just become
\* NEG or DEREF is no operator in the eyes of the next one.
Types(line) ==
  LET BeforePrefix == {"+", "-", "*", "/", "==", "!=", "&&", "||", "!"}
      is[i \in 1 .. Len(line)] ==
        IF line[i].type \in {"-", "*"} /\ (i = 1 \/ is[i - 1] \in BeforePrefix)
        THEN IF line[i].type = "-" THEN "neg" ELSE "deref"
        ELSE line[i].type
  IN  is

-----------------------------------------------------------------------------
(* eval over tokens p .. q, t their types.                                 *)

Opened(t, p, i) == Cardinality({j \in p .. i : t[j] = "("}) - Cardinality({j \in p .. i : t[j] = ")"})

\* check_parentheses: the first opens what the last closes.
Balanced(t, p, q) == Opened(t, p, q) = 0 /\ \A i \in p .. q : Opened(t, p, i) >= 0
Wrapped(t, p, q)  == t[p] = "(" /\ t[q] = ")" /\ \A i \in p .. q - 1 : Opened(t, p, i) > 0

Precedence(type) ==
  CASE type \in {"!", "neg", "deref"} -> 5 [] type \in {"*", "/"} -> 4 [] type \in {"+", "-"} -> 3
    [] type \in {"==", "!="} -> 2 [] type = "&&" -> 1 [] type = "||" -> 0 [] OTHER -> 10

\* (Mutant of Later: the first operator of the least precedence.)
LaterNot(i, j) == i <= j
Later(i, j)    == i >= j
dominant_op(t, p, q) ==
  LET outside == {i \in p .. q : t[i] # ")" /\ Opened(t, p, i) = 0}
      least   == {i \in outside : \A j \in outside : Precedence(t[i]) <= Precedence(t[j])}
  IN  CHOOSE i \in least : \A j \in least : Later(i, j)

\* An empty range is 0 (the assignment valid = false is to the pointer), a lone
\* operator an uninitialised num; texts are the slots' texts.
Eval(t, texts, p, q) ==
  IF p > q THEN 0
  ELSE IF p = q THEN IF t[p] = "num" THEN Decimal(texts[p]) % ExprWord ELSE Junk
  ELSE IF ~Balanced(t, p, q) THEN 0
  ELSE IF Wrapped(t, p, q) THEN Eval(t, texts, p + 1, q - 1)
  ELSE LET op == dominant_op(t, p, q)
           x  == Eval(t, texts, p, op - 1)
           y  == Eval(t, texts, op + 1, q)
       IN  IF t[op] \in {"!", "neg", "deref"}
           THEN IF y = Junk THEN Junk ELSE Apply(IF t[op] = "!" THEN "not" ELSE t[op], 0, y)
           ELSE IF Junk \in {x, y} THEN Junk ELSE Apply(t[op], x, y)

-----------------------------------------------------------------------------
\* expr(), called for p, w and at every instruction for a watchpoint.
Evaluate(e) ==
  LET line == Line(e) IN
  /\ Len(line) <= MaxTokens
  /\ str' = StrAfter(line)
  /\ value' = Eval(Types(line), StrAfter(line), 1, Len(line))
  /\ asked' = e
  /\ stale' = \E i \in 1 .. Len(line) : line[i].type = "num" /\ Len(str[i]) > Len(Digits(line[i].n))
  /\ calls' = calls + 1

ExprInit ==
  /\ str = [i \in 1 .. MaxTokens |-> <<>>]
  /\ asked = NoExpr /\ value = 0 /\ stale = FALSE /\ calls = 0

ExprNext == /\ calls < Len(Inputs)
            /\ \E e \in Inputs[calls + 1] : Evaluate(e)

-----------------------------------------------------------------------------
\* A prefix operator right behind another one, or a - or * right behind "(".
PrefixMisread(e) ==
  LET line == Line(e)
      before == {"*", "/", "+", "-", "==", "!=", "&&", "||", "!"}
      prefix(i) == \/ line[i].type = "!"
                   \/ line[i].type \in {"-", "*"} /\ (i = 1 \/ line[i - 1].type \in before \cup {"("})
  IN  \E i \in 1 .. Len(line) : /\ prefix(i) /\ i > 1
                                /\ prefix(i - 1) \/ (line[i].type # "!" /\ line[i - 1].type = "(")

\* A well-formed expression has the value it means, with C's precedences and
\* associativity, unless one of its prefix operators is misread (expr.c:165-178,
\* 296) or one of its texts was written over the end of a longer one of an
\* earlier call (expr.c:131): p 5 after p 100 answers 500.
ExprRight == asked # NoExpr => value = Meaning(asked) \/ PrefixMisread(asked) \/ stale
=============================================================================
