---------------------------- MODULE SemanticTokens ----------------------------
(***************************************************************************)
(* The encoding of semantic tokens: the nodes of a syntax tree to the flat *)
(* array of integers the protocol carries, five for each token, each       *)
(* relative to the one before.  A source is its sequence of bytes, of      *)
(* which only ends of lines and blanks matter here; a column is a byte.    *)
(***************************************************************************)
EXTENDS Integers, SequencesExt

(* A node: a token of `lead` bytes at its start (0: all of it, -1: none),  *)
(* and for binary and unary nodes the gap that holds the operator.         *)
Node(type, start, end, lead, gap) ==
    [type |-> type, start |-> start, end |-> end, lead |-> lead, gap |-> gap]

LeastOf(a, b) == IF a < b THEN a ELSE b

RawToken(type, start, length) ==
    [type |-> type, start |-> start, length |-> length]

(* collect_tokens: keywords at the front of a node, or its whole span.     *)
NodeTokens(node) ==
    IF node.lead < 0 THEN <<>>
    ELSE LET span == node.end - node.start
             length == IF node.lead = 0 THEN span ELSE LeastOf(node.lead, span)
         IN  <<RawToken(node.type, node.start, length)>>

(* emit_operator_in_gap: from the first to the last byte that is no blank. *)
OperatorTokens(node, source) ==
    LET inked == IF node.gap = <<>> THEN {}
                 ELSE {i \in node.gap[1]..(LeastOf(node.gap[2], Len(source)) - 1) :
                          source[i + 1] \notin {"blank", "newline"}}
    IN  IF inked = {} THEN <<>>
        ELSE <<RawToken("operator", Min(inked), Max(inked) - Min(inked) + 1)>>

(* A stable sort by numbers, as Rust's sort_by is.                         *)
Sorted(seq, keys) ==
    LET order == SetToSortSeq(DOMAIN keys,
                    LAMBDA i, j : keys[i] < keys[j] \/ (keys[i] = keys[j] /\ i < j))
    IN  [k \in DOMAIN order |-> seq[order[k]]]

RawTokens(nodes, source) ==
    LET all == FlattenSeq([i \in DOMAIN nodes |-> NodeTokens(nodes[i])])
                 \o FlattenSeq([i \in DOMAIN nodes |-> OperatorTokens(nodes[i], source)])
    IN  Sorted(all, [i \in DOMAIN all |-> all[i].start])

-----------------------------------------------------------------------------
(* compute_line_starts: the bytes after the newlines up to a byte, and the *)
(* start of the text.  They give the byte its line and its column.         *)
StartsUpTo(source, byte) ==
    {0} \cup {i \in 1..LeastOf(byte, Len(source)) : source[i] = "newline"}

LineOf(source, byte) == Cardinality(StartsUpTo(source, byte)) - 1

ColumnOf(source, byte) ==
    LeastOf(byte, Len(source)) - Max(StartsUpTo(source, byte))

(* line_end_col: the newline is no column.                                 *)
LineEnd(source, line) ==
    Cardinality({i \in DOMAIN source :
                    source[i] # "newline" /\ LineOf(source, i - 1) = line})

AbsToken(token, line, start, length) ==
    [line |-> line, start |-> start, length |-> length, type |-> token.type]

(* Mutant: what a token covers below its first line is forgotten.          *)
HeadOnly(token, source) ==
    LET line  == LineOf(source, token.start)
        first == ColumnOf(source, token.start)
        last  == ColumnOf(source, token.start + token.length)
    IN  IF LineOf(source, token.start + token.length) = line
        THEN <<AbsToken(token, line, first, last - first)>>
        ELSE <<AbsToken(token, line, first, LineEnd(source, line) - first)>>

(* A token never crosses an end of line: head, full lines, last line.      *)
SplitLines(token, source) ==
    LET end   == token.start + token.length
        first == LineOf(source, token.start)
        last  == LineOf(source, end)
        from  == ColumnOf(source, token.start)
        until(l) == IF l = last THEN ColumnOf(source, end) ELSE LineEnd(source, l)
        pieces == [i \in 1..(last - first + 1) |->
                     LET l == first + i - 1
                         start == IF i = 1 THEN from ELSE 0
                     IN  AbsToken(token, l, start, until(l) - start)]
    IN  SelectSeq(pieces, LAMBDA p : p.line = first \/ p.length > 0)

TypeIndex(type) ==
    CHOOSE i \in 0..10 :
        <<"keyword", "type", "parameter", "variable", "property", "namespace",
          "operator", "enum_member", "regexp", "number", "string">>[i + 1] = type

(* delta_encode: lines and starts relative to the token before; modifiers  *)
(* follow from the node's kind and are left at 0.                          *)
DeltaEncode(tokens, source) ==
    LET pieces == FlattenSeq([i \in DOMAIN tokens |-> SplitLines(tokens[i], source)])
        width == Len(source) + 1
        emitted == Sorted(pieces, [i \in DOMAIN pieces |->
                                      width * pieces[i].line + pieces[i].start])
        before(i) == IF i = 1 THEN [line |-> 0, start |-> 0] ELSE emitted[i - 1]
        tuple(i) ==
            LET down == emitted[i].line - before(i).line
            IN  <<down,
                  IF down = 0 THEN emitted[i].start - before(i).start
                  ELSE emitted[i].start,
                  emitted[i].length, TypeIndex(emitted[i].type), 0>>
    IN  FlattenSeq([i \in DOMAIN emitted |-> tuple(i)])

(* encode_from_ast_with_source                                             *)
Encode(nodes, source) == DeltaEncode(RawTokens(nodes, source), source)

TokenCount(data) == Len(data) \div 5

-----------------------------------------------------------------------------
(* What an array of tokens paints: line, column and type of every cell.    *)
Painted(data) ==
    LET tuple(i) == SubSeq(data, 5 * i - 4, 5 * i)
        next(prior, i) ==
            [line   |-> prior.line + tuple(i)[1],
             start  |-> tuple(i)[2] + (IF tuple(i)[1] = 0 THEN prior.start ELSE 0),
             length |-> tuple(i)[3], type |-> tuple(i)[4]]
        origin == [line |-> 0, start |-> 0, length |-> 0, type |-> 0]
        placed == FoldLeft(LAMBDA acc, i : Append(acc, next(acc[Len(acc)], i)),
                           <<origin>>, [i \in 1..TokenCount(data) |-> i])
    IN  UNION {{<<t.line, t.start + c, t.type>> : c \in 0..(t.length - 1)} :
                   t \in ToSet(placed)}

(* What should be painted: every byte of every token but the newlines.     *)
ShouldPaint(nodes, source) ==
    LET tokens == RawTokens(nodes, source)
    IN  UNION {{<<LineOf(source, b), ColumnOf(source, b), TypeIndex(tokens[i].type)>> :
                   b \in {c \in tokens[i].start..(tokens[i].start + tokens[i].length - 1) :
                             source[c + 1] # "newline"}} : i \in DOMAIN tokens}
=============================================================================
