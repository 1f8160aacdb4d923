------------------------------- MODULE Criteria -------------------------------
(***************************************************************************)
(* The expression language of `deal check --verify`: a recursive-descent   *)
(* evaluator over tokens, with no tree in between.  A criterion is a       *)
(* sequence of words; what a word looks like is left out, only its kind    *)
(* counts.  Floating point is replaced by exact rationals <<n, d>>, d > 0. *)
(***************************************************************************)
EXTENDS Integers, Sequences, SequencesExt, FiniteSetsExt

CONSTANTS
    MaxName,        \* the identifier `max`, a function when "(" follows
    Nothing         \* a field path the context does not hold

(* Tokens; `names` are the identifiers a text may use.                     *)
Token(names) ==
    [k : {"ident"}, v : names] \cup [k : {"num"}, v : Int \X Int]
      \cup [k : {"(", ")", ",", "+", "-", "*", "/", ">=", "<=", "==", "AND", "other"}]

-----------------------------------------------------------------------------
(* EvalValue, and the errors of eval_expr.                                 *)
Number(q) == [k |-> "number", v |-> q]
Truth(b)  == [k |-> "bool", v |-> b]
Unmapped  == [k |-> "unmapped"]
Error     == [k |-> "error"]

(* Mutant: a known operand decides without the other.                      *)
CombineEagerly(l, r, kind, combined) ==
    IF l.k = "bool" /\ ~l.v THEN l
    ELSE IF "unmapped" \in {l.k, r.k} THEN Unmapped
    ELSE IF l.k = kind /\ r.k = kind THEN combined
    ELSE Error

(* Every operator is strict in what is unmapped, before it looks at types. *)
Combine(l, r, kind, combined) ==
    IF "unmapped" \in {l.k, r.k} THEN Unmapped
    ELSE IF l.k = kind /\ r.k = kind THEN combined
    ELSE Error

ApplyAnd(l, r) == Combine(l, r, "bool", Truth(l.v /\ r.v))

AtLeast(a, b) == a[1] * b[2] >= b[1] * a[2]

ApplyCmp(l, r, op) ==
    Combine(l, r, "number",
        Truth(CASE op = ">=" -> AtLeast(l.v, r.v)
                [] op = "<=" -> AtLeast(r.v, l.v)
                [] op = "==" -> AtLeast(l.v, r.v) /\ AtLeast(r.v, l.v)))

Plus(a, b) == <<a[1] * b[2] + b[1] * a[2], a[2] * b[2]>>

ApplyAdd(l, r, op) ==
    Combine(l, r, "number",
        Number(Plus(l.v, IF op = "+" THEN r.v ELSE <<-r.v[1], r.v[2]>>)))

(* Division by zero is an error of the whole expression.                   *)
Times(a, b) == <<a[1] * b[1], a[2] * b[2]>>
Reciprocal(a) == IF a[1] > 0 THEN <<a[2], a[1]>> ELSE <<-a[2], -a[1]>>

ApplyMul(l, r, op) ==
    Combine(l, r, "number",
        CASE op = "*" -> Number(Times(l.v, r.v))
          [] op = "/" /\ r.v[1] = 0 -> Error
          [] OTHER -> Number(Times(l.v, Reciprocal(r.v))))

(* max(...) looks for unmapped arguments first, then at the types; so do   *)
(* its arguments two by two.                                               *)
EvalMax(l, r) == Combine(l, r, "number", IF AtLeast(l.v, r.v) THEN l ELSE r)

-----------------------------------------------------------------------------
(* The parser.  A result is a value and the position after what was read;  *)
(* an error ends the parse wherever it happens.                            *)
At(value, pos) == [value |-> value, pos |-> pos]

Failed(res) == res.value.k = "error"

Sees(toks, pos, kinds) == pos <= Len(toks) /\ toks[pos].k \in kinds

(* An identifier is a field, unless it calls max.                          *)
IsField(toks, pos) ==
    toks[pos].k = "ident" /\ ~(toks[pos].v = MaxName /\ Sees(toks, pos + 1, {"("}))

Fields(toks) == {toks[i].v : i \in {j \in DOMAIN toks : IsField(toks, j)}}

(* Field paths are looked up whole, dots included.                         *)
ResolveFieldPath(name, ctx) ==
    IF name \in DOMAIN ctx /\ ctx[name] # Nothing THEN Number(ctx[name])
    ELSE Unmapped

(* `parse` is the result at every place: a parse function, where it starts *)
(* and, for a loop over operators, how often it has gone round.            *)
Places(toks) ==
    {"and", "cmp", "add", "mul", "primary", "args"} \X (1..(Len(toks) + 1)) \X (0..Len(toks))

Start(function, pos) == <<function, pos, 0>>

(* A round takes two tokens at least, so the loop is over by then.         *)
End(function, pos, toks) == <<function, pos, (Len(toks) + 1 - pos) \div 2>>

(* The arguments of max, up to and including the closing parenthesis.      *)
ParseArgs(toks, pos, parse) ==
    LET arg == parse[End("and", pos, toks)]
        rest == parse[Start("args", arg.pos + 1)]
    IN  IF Failed(arg) THEN [ok |-> FALSE, value |-> Error, pos |-> pos]
        ELSE IF Sees(toks, arg.pos, {","})
        THEN [ok |-> rest.ok, value |-> EvalMax(arg.value, rest.value), pos |-> rest.pos]
        ELSE [ok |-> Sees(toks, arg.pos, {")"}), value |-> EvalMax(arg.value, arg.value),
              pos |-> arg.pos + 1]

ParseMax(toks, pos, parse) ==
    LET call == parse[Start("args", pos + 2)]
    IN  IF call.ok THEN At(call.value, call.pos) ELSE At(Error, pos)

ParseParens(toks, pos, parse) ==
    LET inner == parse[End("and", pos + 1, toks)]
    IN  IF ~Failed(inner) /\ Sees(toks, inner.pos, {")"})
        THEN At(inner.value, inner.pos + 1)
        ELSE At(Error, pos)

ParsePrimary(toks, pos, ctx, parse) ==
    IF ~Sees(toks, pos, {"num", "(", "ident"}) THEN At(Error, pos)
    ELSE IF toks[pos].k = "num" THEN At(Number(toks[pos].v), pos + 1)
    ELSE IF toks[pos].k = "(" THEN ParseParens(toks, pos, parse)
    ELSE IF IsField(toks, pos) THEN At(ResolveFieldPath(toks[pos].v, ctx), pos + 1)
    ELSE ParseMax(toks, pos, parse)

(* The three loops: which operators they go over, and what reads operands. *)
Loops == {"and", "add", "mul"}

Operators(loop) ==
    CASE loop = "and" -> {"AND"} [] loop = "add" -> {"+", "-"} [] loop = "mul" -> {"*", "/"}

Operand(loop, pos, toks) ==
    CASE loop = "and" -> Start("cmp", pos)
      [] loop = "add" -> End("mul", pos, toks)
      [] loop = "mul" -> Start("primary", pos)

Apply(loop, l, r, op) ==
    CASE loop = "and" -> ApplyAnd(l, r)
      [] loop = "add" -> ApplyAdd(l, r, op)
      [] loop = "mul" -> ApplyMul(l, r, op)

(* Mutant: operators of one level group to the right.                      *)
ParseLoopRight(toks, loop, pos, n, parse) ==
    LET l == parse[Operand(loop, pos, toks)]
        r == parse[End(loop, l.pos + 1, toks)]
    IN  IF Failed(l) \/ ~Sees(toks, l.pos, Operators(loop)) THEN l
        ELSE IF Failed(r) THEN r
        ELSE At(Apply(loop, l.value, r.value, toks[l.pos].k), r.pos)

ParseLoop(toks, loop, pos, n, parse) ==
    IF n = 0 THEN parse[Operand(loop, pos, toks)]
    ELSE LET l == parse[<<loop, pos, n - 1>>]
             r == parse[Operand(loop, l.pos + 1, toks)]
         IN  IF Failed(l) \/ ~Sees(toks, l.pos, Operators(loop)) THEN l
             ELSE IF Failed(r) THEN r
             ELSE At(Apply(loop, l.value, r.value, toks[l.pos].k), r.pos)

(* One comparison at most: a second one is left over, and so an error.     *)
ParseCmp(toks, pos, parse) ==
    LET l == parse[End("add", pos, toks)]
        r == parse[End("add", l.pos + 1, toks)]
    IN  IF Failed(l) \/ ~Sees(toks, l.pos, {">=", "<=", "=="}) THEN l
        ELSE IF Failed(r) THEN r
        ELSE At(ApplyCmp(l.value, r.value, toks[l.pos].k), r.pos)

ParseAt(toks, ctx, parse, at) ==
    IF at[1] = "args" THEN ParseArgs(toks, at[2], parse)
    ELSE IF at[1] = "primary" THEN ParsePrimary(toks, at[2], ctx, parse)
    ELSE IF at[1] = "cmp" THEN ParseCmp(toks, at[2], parse)
    ELSE ParseLoop(toks, at[1], at[2], at[3], parse)

ParseFrom(toks, ctx) ==
    LET parse[at \in Places(toks)] == ParseAt(toks, ctx, parse, at) IN parse

(* The scope guard of the tokenizer: OR, NOT and every stray character.    *)
Tokenizes(toks) == \A i \in DOMAIN toks : toks[i].k # "other"

EvalExpr(toks, ctx) ==
    LET res == ParseFrom(toks, ctx)[End("and", 1, toks)]
    IN  IF Tokenizes(toks) /\ ~Failed(res) /\ res.pos > Len(toks)
        THEN res.value
        ELSE Error

-----------------------------------------------------------------------------
(* evaluate_criteria_text: only a Boolean decides.                         *)
CriterionVerdict(toks, ctx) ==
    LET value == EvalExpr(toks, ctx)
    IN  CASE value.k = "bool" /\ value.v  -> "PASS"
          [] value.k = "bool" /\ ~value.v -> "FAIL"
          [] OTHER                        -> "PARTIAL"

(* evaluate_compute_block: statements in order, each seeing the numbers    *)
(* before it; a statement that yields none leaves its variable as it was.  *)
Assign(ctx, stmt) ==
    LET value == EvalExpr(stmt.expr, ctx)
    IN  IF value.k = "number"
        THEN [x \in DOMAIN ctx \cup {stmt.var} |->
                 IF x = stmt.var THEN value.v ELSE ctx[x]]
        ELSE ctx

EvaluateComputeBlock(stmts, ctx) ==
    LET after[n \in 0..Len(stmts)] ==
            IF n = 0 THEN ctx ELSE Assign(after[n - 1], stmts[n])
    IN  after[Len(stmts)]
=============================================================================
