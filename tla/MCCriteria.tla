------------------------------- MODULE MCCriteria -------------------------------
(***************************************************************************)
(* The evaluator against the grammar it announces: every expression tree   *)
(* of the bounded set is written down with the fewest parentheses, and     *)
(* the evaluator must find the tree's meaning.                             *)
(***************************************************************************)
EXTENDS Criteria

CONSTANTS x, y

VARIABLES
    tree,           \* the expression somebody meant
    ctx,            \* the evaluation context
    result          \* what eval_expr made of its words

vars == <<tree, ctx, result>>

-----------------------------------------------------------------------------
Num(n) == [op |-> "num", v |-> <<n, 1>>]
Ref(f) == [op |-> "ref", v |-> f]
Bin(op, l, r) == [op |-> op, l |-> l, r |-> r]

Cmp == {">=", "<=", "=="}

Level(t) ==
    CASE t.op \in {"AND", "OR"} -> 1
      [] t.op \in Cmp \cup {"chain"} -> 2
      [] t.op \in {"+", "-"} -> 3
      [] t.op \in {"*", "/"} -> 4
      [] OTHER -> 5

Word(kind) == <<[k |-> kind]>>

(* The words of a tree.  A child below the level its place asks for is put *)
(* in parentheses; "chain" is a comparison of a comparison without them.   *)
RECURSIVE Render(_, _)
Render(t, level) ==
    LET words ==
            CASE t.op = "num" -> <<[k |-> "num", v |-> t.v]>>
              [] t.op = "ref" -> <<[k |-> "ident", v |-> t.v]>>
              [] t.op = "max" ->
                    <<[k |-> "ident", v |-> MaxName]>> \o Word("(")
                      \o Render(t.l, 1) \o Word(",") \o Render(t.r, 1) \o Word(")")
              [] t.op \in Cmp -> Render(t.l, 3) \o Word(t.op) \o Render(t.r, 3)
              [] t.op = "chain" -> Render(t.l, 2) \o Word("<=") \o Render(t.r, 3)
              [] OTHER ->
                    Render(t.l, Level(t))
                      \o Word(IF t.op = "OR" THEN "other" ELSE t.op)
                      \o Render(t.r, Level(t) + 1)
    IN  IF Level(t) >= level THEN words ELSE Word("(") \o words \o Word(")")

(* Rational arithmetic, written once more for the reference.               *)
Quotient(a, b) ==
    IF b[1] < 0 THEN <<-(a[1] * b[2]), -(a[2] * b[1])>> ELSE <<a[1] * b[2], a[2] * b[1]>>

Operate(op, a, b) ==
    CASE op = "+" -> Number(<<a[1] * b[2] + b[1] * a[2], a[2] * b[2]>>)
      [] op = "-" -> Number(<<a[1] * b[2] - b[1] * a[2], a[2] * b[2]>>)
      [] op = "*" -> Number(<<a[1] * b[1], a[2] * b[2]>>)
      [] op = "/" -> IF b[1] = 0 THEN Error ELSE Number(Quotient(a, b))
      [] op = "max" -> Number(IF a[1] * b[2] >= b[1] * a[2] THEN a ELSE b)
      [] op = ">=" -> Truth(a[1] * b[2] >= b[1] * a[2])
      [] op = "<=" -> Truth(a[1] * b[2] <= b[1] * a[2])
      [] op = "==" -> Truth(a[1] * b[2] = b[1] * a[2])

(* The meaning of a tree: errors first, then what is unmapped.             *)
RECURSIVE Meaning(_)
Meaning(t) ==
    CASE t.op = "num" -> Number(t.v)
      [] t.op = "ref" -> IF ctx[t.v] = Nothing THEN Unmapped ELSE Number(ctx[t.v])
      [] t.op \in {"OR", "chain"} -> Error
      [] OTHER ->
            LET l == Meaning(t.l)
                r == Meaning(t.r)
            IN  CASE "error" \in {l.k, r.k} -> Error
                  [] "error" \notin {l.k, r.k} /\ "unmapped" \in {l.k, r.k} -> Unmapped
                  [] t.op = "AND" /\ {l.k, r.k} = {"bool"} -> Truth(l.v /\ r.v)
                  [] t.op # "AND" /\ {l.k, r.k} = {"number"} -> Operate(t.op, l.v, r.v)
                  [] OTHER -> Error

-----------------------------------------------------------------------------
(* Three levels of arithmetic under a comparison, conjunctions grouped to  *)
(* either side, ill-typed operands, and the two forms outside the grammar. *)
Leaves == {Num(0), Num(2), Ref(x), Ref(y)}
Arith(S, T) == {Bin(op, l, r) : op \in {"+", "-", "*", "/", "max"}, l \in S, r \in T}
Inner == Arith({Num(2), Ref(x)}, {Num(0), Ref(y)})
Terms == Arith(Inner, {Ref(x)}) \cup Arith({Ref(y)}, Inner)
Deep == Arith({Bin("-", Num(2), Ref(x)), Bin("/", Ref(x), Ref(y))}, Arith({Ref(y)}, {Num(2)}))
Simple == {Bin(op, l, r) : op \in {"<=", "=="}, l \in Leaves, r \in {Num(2), Ref(y)}}
Few == {Bin(">=", Ref(x), Num(2)), Bin("<=", Ref(y), Ref(x)), Ref(x)}
MCTree ==
    Terms \cup Simple
      \cup {Bin(op, l, r) : op \in {">=", "=="}, l \in Terms \cup Deep, r \in {Num(2), Ref(y)}}
      \cup {Bin(op, l, r) : op \in {"AND", "OR"}, l \in Simple \cup Inner, r \in Few}
      \cup {Bin("AND", l, Bin("AND", m, r)) : l \in Few, m \in Few, r \in Few}
      \cup {Bin("AND", Bin("AND", l, m), r) : l \in Few, m \in Few, r \in Few}
      \cup {Bin(op, l, r) : op \in {">=", "+", "max"}, l \in Few, r \in Leaves}
      \cup {Bin("chain", l, r) : l \in Simple, r \in Leaves}

Value == {Nothing, <<0, 1>>, <<1, 2>>, <<-2, 1>>, <<3, 1>>}

None == [k |-> "none"]

Init ==
    /\ tree \in MCTree
    /\ ctx \in [{x, y} -> Value]
    /\ result = None

Evaluate ==
    /\ result = None
    /\ result' = EvalExpr(Render(tree, 1), ctx)
    /\ UNCHANGED <<tree, ctx>>

Spec == Init /\ [][Evaluate]_vars

-----------------------------------------------------------------------------
(* eval_expr parses and evaluates in one go and must still give the value  *)
(* of the tree the words stand for: precedence, grouping, strictness and   *)
(* the refusal of what the grammar leaves out, all at once.                *)
EvaluatorMeetsGrammar ==
    result # None =>
        LET meant == Meaning(tree)
        IN  /\ result.k = meant.k
            /\ result.k = "number" => result.v[1] * meant.v[2] = meant.v[1] * result.v[2]
            /\ result.k = "bool" => result.v = meant.v
=============================================================================
