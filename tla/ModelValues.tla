------------------------------ MODULE ModelValues ------------------------------
(***************************************************************************)
(* ModelValueIndex: the literal values of a model under every path form a  *)
(* registry or a criterion may use, and the lookup by exact path, unique   *)
(* suffix, then ever shorter tails of the query.                           *)
(*                                                                         *)
(* A path is a sequence of segments, a value an exact rational.  A file's  *)
(* AST is the sequence of its valued declarations in the order the walker  *)
(* meets them: attribute usages with their enclosing named scopes, and the *)
(* attribute overrides of component instances.                             *)
(***************************************************************************)
EXTENDS Integers, Sequences, SequencesExt, FiniteSetsExt

CONSTANTS
    Name,           \* segments of paths
    NoValue         \* no literal: not a number, or not resolved

Value == Int \X Int

Attribute(scope, name, value) ==
    [kind |-> "attribute", scope |-> scope, name |-> name, value |-> value]

Override(scope, alias, type, name, value) ==
    [kind |-> "override", scope |-> scope, alias |-> alias, type |-> type,
     name |-> name, value |-> value]

Declaration ==
    [kind : {"attribute"}, scope : Seq(Name), name : Name, value : {NoValue} \cup Value]
      \cup [kind : {"override"}, scope : Seq(Name), alias : Name, type : Name, name : Name,
            value : {NoValue} \cup Value]

-----------------------------------------------------------------------------
(* Later declarations overwrite a qualified key; a bare key stays with the *)
(* first declaration that used it.                                         *)
Insert(values, path, value) ==
    [key \in DOMAIN values \cup {path} |-> IF key = path THEN value ELSE values[key]]

InsertIfNew(values, path, value) ==
    IF path \in DOMAIN values THEN values ELSE Insert(values, path, value)

IndexAttr(values, decl) ==
    LET owned == IF decl.scope = << >> THEN values
                 ELSE Insert(values, <<Last(decl.scope), decl.name>>, decl.value)
    IN  InsertIfNew(owned, <<decl.name>>, decl.value)

IngestInstanceAttrs(values, decl) ==
    LET rooted == IF decl.scope = << >> THEN values
                  ELSE Insert(values, <<Last(decl.scope), decl.alias, decl.name>>, decl.value)
        aliased == Insert(rooted, <<decl.alias, decl.name>>, decl.value)
        typed == Insert(aliased, <<decl.type, decl.name>>, decl.value)
    IN  InsertIfNew(typed, <<decl.name>>, decl.value)

Ingest(values, decl) ==
    CASE decl.value = NoValue -> values
      [] decl.value # NoValue /\ decl.kind = "attribute" -> IndexAttr(values, decl)
      [] decl.value # NoValue /\ decl.kind = "override" ->
            IngestInstanceAttrs(values, decl)

-----------------------------------------------------------------------------
(* Several keys with one value are no ambiguity.                           *)
UniqueKeyWithSuffix(values, suffix) ==
    LET hits == {values[key] : key \in {k \in DOMAIN values : IsSuffix(suffix, k)}}
    IN  IF Cardinality(hits) = 1 THEN CHOOSE v \in hits : TRUE ELSE NoValue

Lookup(values, query) ==
    IF query \in DOMAIN values THEN values[query]
    ELSE UniqueKeyWithSuffix(values, query)

(* The tails of a query that find something, by where they start.          *)
Found(values, query) ==
    {i \in DOMAIN query : Lookup(values, SubSeq(query, i, Len(query))) # NoValue}

(* Mutant: the shortest tail wins.                                         *)
ResolveShortest(values, query) ==
    IF Found(values, query) = {} THEN NoValue
    ELSE Lookup(values, SubSeq(query, Max(Found(values, query)), Len(query)))

Resolve(values, query) ==
    IF Found(values, query) = {} THEN NoValue
    ELSE Lookup(values, SubSeq(query, Min(Found(values, query)), Len(query)))
=============================================================================
