-------------------------- MODULE VerifyReportProofs --------------------------
(***************************************************************************)
(* Proofs about `deal check --verify`, for every project, every manifest   *)
(* and every content of the evidence, with another simulation that may     *)
(* write between any two steps.  Up to the part on the evaluator, what it  *)
(* makes of a criterion is never expanded: those results hold for any      *)
(* function of the text and of its context.  The evaluator itself is       *)
(* reasoned about by induction over the places of a text.                  *)
(***************************************************************************)
EXTENDS VerifyReport, FiniteSetTheorems, WellFoundedInduction, TLAPS

Entry == [row : Verdicts, verdict : Verdicts, stale : BOOLEAN, block : SatisfyBlocks]
Table == UNION {[R -> Entry] : R \in SUBSET {block.req : block \in SatisfyBlocks}}
Counts == Verdicts \cup {"stale", "total"}
Report == [requirements : Table, summary : [Counts -> Nat]]

TypeOK ==
    /\ files \in Projects
    /\ recorded \in Manifests \cup {Absent}
    /\ busy \in BOOLEAN
    /\ runSims \in BOOLEAN
    /\ rewritten \in BOOLEAN
    /\ evidence \in [Sim -> Outputs \cup {Absent}]
    /\ report \in Report
    /\ reports \in Seq(Report)
    /\ merged \in Report
    /\ file \in Nat \ {0}
    /\ next \in Nat \ {0}
    /\ pc \in {"index", "refresh", "stale", "evaluate", "merge", "done"}
    /\ exit \in {Absent, "ok", "user"}

Indexing == pc = "index"
Resolved == pc \in {"evaluate", "merge", "done"}

(* The literals the index is past.                                         *)
Passed ==
    {p \in Literals : Indexing => p[1] < file \/ (p[1] = file /\ p[2] < next)}

(* A key of two segments holds the last literal stored under it, of those  *)
(* the index is past, a bare key the first literal of that name.           *)
Follows(o, n) ==
    /\ <<o, n>> \in DOMAIN index <=> Keyed(o, n) \cap Passed # {}
    /\ \A p \in LastOf(Keyed(o, n) \cap Passed) : index[<<o, n>>] = Decl(p).value
    /\ <<n>> \in DOMAIN index <=> Named(n) \cap Passed # {}
    /\ \A p \in FirstOf(Named(n) \cap Passed) : index[<<n>>] = Decl(p).value

IndexFollows == \A o, n \in Name : Follows(o, n)

(* A key is of one to three segments, and its tails are keys.              *)
Tailed(values) ==
    \A key \in DOMAIN values :
        \E o, a, n \in Name :
            \/ key = <<n>>
            \/ key = <<a, n>> /\ <<n>> \in DOMAIN values
            \/ key = <<o, a, n>> /\ <<a, n>> \in DOMAIN values /\ <<n>> \in DOMAIN values

(* The counts of a report cover its table.                                 *)
Shown(requirements, verdict) ==
    {req \in DOMAIN requirements : requirements[req].verdict = verdict}

Tallied(r) ==
    /\ IsFiniteSet(DOMAIN r.requirements)
    /\ r.summary["total"] = r.summary["PASS"] + r.summary["FAIL"] + r.summary["PARTIAL"]
    /\ \A verdict \in Verdicts :
          Cardinality(Shown(r.requirements, verdict)) <= r.summary[verdict]

AllTallied ==
    /\ Tallied(report)
    /\ \A f \in DOMAIN reports : Tallied(reports[f])
    /\ Tallied(merged)

(* A row is of the evidence there is, until somebody rewrites it, and says *)
(* whether that was stale; a report that counts nothing stale lists        *)
(* nothing stale.                                                          *)
Judged(r) ==
    /\ \A req \in DOMAIN r.requirements :
          LET entry == r.requirements[req]
          IN  /\ entry.stale = Stale(entry.block)
              /\ entry.verdict = Verdict(entry.row, entry.block)
              /\ ~rewritten => entry.row = RowVerdict(index, entry.block, evidence)
    /\ r.summary["stale"] = 0 => \A req \in DOMAIN r.requirements : ~r.requirements[req].stale

AllJudged ==
    /\ Judged(report)
    /\ \A f \in DOMAIN reports : Judged(reports[f])

MergedFromReports ==
    \A req \in DOMAIN merged.requirements :
        \E f \in DOMAIN reports :
            /\ req \in DOMAIN reports[f].requirements
            /\ merged.requirements[req] = reports[f].requirements[req]

StalenessKnown == Resolved /\ ~rewritten => overrides = [s \in Bindings |-> IsStale(s)]

NothingYet ==
    ~Resolved => report = EmptyReport /\ reports = << >> /\ merged = EmptyReport

ExitIsOwn ==
    /\ exit # Absent => pc = "done"
    /\ exit = "ok" => runSims \/ \A f \in DOMAIN reports : ~(reports[f].summary["stale"] > 0)

VerifyInv ==
    /\ TypeOK
    /\ IndexFollows
    /\ Tailed(index)
    /\ AllTallied
    /\ AllJudged
    /\ MergedFromReports
    /\ StalenessKnown
    /\ NothingYet
    /\ ExitIsOwn
-----------------------------------------------------------------------------
(* A set of numbers has a least one, and of positions in a sequence also a *)
(* last one.                                                               *)
LEMMA LeastNat ==
  ASSUME NEW S \in SUBSET Nat, S # {}
  PROVE  \E m \in S : \A y \in S : ~(y < m)
  <1> DEFINE R == {ij \in Nat \X Nat : ij[1] < ij[2]}
  <1>1. IsWellFoundedOn(R, Nat)
    BY NatLessThanWellFounded, Zenon DEF OpToRel
  <1>2. PICK m \in S : \A y \in S : ~(<<y, m>> \in R)
    <2> HIDE DEF R
    <2> QED
      BY <1>1, WFMin
  <1>3. \A y \in S : ~(y < m)
    BY <1>2
  <1> QED
    BY <1>3

LEMMA GreatestOf ==
  ASSUME NEW S \in SUBSET Nat, S # {}, NEW K \in Nat, \A s \in S : s <= K
  PROVE  Max(S) \in S
  <1> DEFINE T == {K - s : s \in S}
  <1>1. T \in SUBSET Nat /\ T # {}
    <2>1. \A s \in S : K - s \in Nat
      OBVIOUS
    <2> QED
      BY <2>1
  <1>2. PICK m \in T : \A y \in T : ~(y < m)
    <2> HIDE DEF T
    <2> QED
      BY <1>1, LeastNat
  <1>3. PICK g \in S : m = K - g
    OBVIOUS
  <1>4. ASSUME NEW s \in S
        PROVE  g >= s
    <2>1. K - s \in T /\ K - s \in Nat /\ m \in Nat
      BY <1>1
    <2>2. ~(K - s < m)
      BY <1>2, <2>1
    <2> QED
      BY <1>3, <2>1, <2>2
  <1> QED
    BY <1>4 DEF Max

(* The evidence a block is bound to is a simulation's, or none.            *)
LEMMA BindingIsSim ==
  ASSUME NEW children \in Seq(Child)
  PROVE  ParseSatisfyBlock(children).binding \in Sim \cup {NoSim}
  <1> DEFINE I == {i \in 1..Len(children) :
                      children[i].k = "evidence" /\ children[i].binding # NoSim}
             bound == IF I # {} THEN Max(I) ELSE 0
  <1>1. ParseSatisfyBlock(children).binding =
            IF bound = 0 THEN NoSim ELSE children[bound].binding
    BY Zenon DEF ParseSatisfyBlock, SelectLastInSeq
  <1>2. CASE I = {}
    BY <1>1, <1>2
  <1>3. CASE I # {}
    <2>1. I \in SUBSET Nat /\ Len(children) \in Nat /\ \A i \in I : i <= Len(children)
      OBVIOUS
    <2>2. Max(I) \in I
      <3> HIDE DEF I
      <3> QED
        BY <1>3, <2>1, GreatestOf
    <2>3. Max(I) \in 1..Len(children) /\ children[Max(I)].k = "evidence"
      BY <2>2
    <2>4. children[Max(I)] \in Child
      BY <2>3
    <2>5. children[Max(I)].binding \in Sim \cup {NoSim}
      BY <2>3, <2>4 DEF Child
    <2>6. bound = Max(I) /\ bound # 0
      BY <1>3, <2>3
    <2> QED
      BY <1>1, <2>5, <2>6
  <1> QED
    BY <1>2, <1>3

LEMMA FileTypes ==
  ASSUME files \in Projects
  PROVE  /\ DOMAIN files = 1..Len(files) /\ Len(files) \in Nat
         /\ \A f \in DOMAIN files :
               /\ files[f].decls \in Seq(Declaration) /\ files[f].blocks \in Seq(Seq(Child))
               /\ DOMAIN files[f].decls = 1..Len(files[f].decls)
               /\ Len(files[f].decls) \in Nat
  <1> DEFINE Ast == [decls : Seq(Declaration), blocks : Seq(Seq(Child))]
  <1>1. files \in Seq(Ast)
    BY VerifyAssumption
  <1> HIDE DEF Ast
  <1>2. DOMAIN files = 1..Len(files) /\ Len(files) \in Nat
    BY <1>1
  <1>3. \A f \in DOMAIN files : files[f] \in Ast
    BY <1>1
  <1> QED
    BY <1>2, <1>3 DEF Ast

(* A literal's place is a file and a position in its declarations.         *)
LEMMA LiteralPlaces ==
  ASSUME files \in Projects, NEW p \in Literals
  PROVE  /\ p = <<p[1], p[2]>> /\ p[1] \in DOMAIN files /\ p[2] \in DOMAIN files[p[1]].decls
         /\ p[1] \in Nat /\ p[2] \in Nat \ {0} /\ p[1] # 0
         /\ Decl(p) \in Declaration /\ Decl(p).value # NoValue
  <1>1. PICK f \in DOMAIN files : p \in {f} \X DOMAIN files[f].decls
    BY DEF Literals
  <1>2. p = <<p[1], p[2]>> /\ p[1] = f /\ p[2] \in DOMAIN files[f].decls
    BY <1>1
  <1>3. Decl(p).value # NoValue
    BY DEF Literals
  <1> QED
    BY <1>1, <1>2, <1>3, FileTypes DEF Decl

LEMMA BlocksAreBound ==
  ASSUME files \in Projects, NEW block \in SatisfyBlocks
  PROVE  block.binding \in Bindings \cup {NoSim} /\ block.binding \in Sim \cup {NoSim}
  <1>1. block.binding \in Bindings \cup {NoSim}
    BY DEF Bindings
  <1>2. PICK f \in DOMAIN files : \E i \in DOMAIN files[f].blocks : block = SatisfyBlock(f, i)
    BY DEF SatisfyBlocks
  <1>3. PICK i \in DOMAIN files[f].blocks : block = SatisfyBlock(f, i)
    BY <1>2
  <1>4. files[f].blocks[i] \in Seq(Child)
    BY <1>2, <1>3, FileTypes
  <1> QED
    BY <1>1, <1>3, <1>4, BindingIsSim DEF SatisfyBlock

(* A block is judged by its texts, the model and the outputs it is bound   *)
(* to, and the verdict is one of three.                                    *)
LEMMA RowOfBinding ==
  ASSUME NEW values, NEW block, NEW disk, NEW other,
         LoadEvidenceValues(block.binding, disk) = LoadEvidenceValues(block.binding, other)
  PROVE  RowVerdict(values, block, disk) = RowVerdict(values, block, other)
  <1>1. Context(values, block, disk) = Context(values, block, other)
    BY Zenon DEF Context
  <1> QED
    BY <1>1, Zenon DEF RowVerdict

LEMMA VerdictType ==
  ASSUME NEW values, NEW block, NEW disk
  PROVE  /\ RowVerdict(values, block, disk) \in Verdicts
         /\ \A row \in Verdicts : Verdict(row, block) \in Verdicts
  BY DEF RowVerdict, Verdict, CriterionVerdict, Verdicts

(* An insertion adds one key, and gives it its value unless it was there   *)
(* and the insertion is only for new ones.                                 *)
LEMMA InsertFacts ==
  \A values, path, value :
     /\ \A key : key \in DOMAIN Insert(values, path, value) <=> key \in DOMAIN values \/ key = path
     /\ Insert(values, path, value)[path] = value
     /\ \A key \in DOMAIN values : key # path => Insert(values, path, value)[key] = values[key]
  BY DEF Insert

LEMMA InsertIfNewFacts ==
  \A values, path, value :
     /\ \A key : key \in DOMAIN InsertIfNew(values, path, value)
                   <=> key \in DOMAIN values \/ key = path
     /\ \A key \in DOMAIN values : InsertIfNew(values, path, value)[key] = values[key]
  BY DEF InsertIfNew, Insert

-----------------------------------------------------------------------------
(* What a declaration is stored under, among the keys of two segments.     *)
StoredUnder(d, o, n) ==
    /\ d.name = n /\ d.value # NoValue
    /\ CASE d.kind = "attribute" -> d.scope # << >> /\ Last(d.scope) = o
         [] d.kind = "override" -> o \in {d.alias, d.type}

LEMMA KeyedIsStored ==
  ASSUME NEW o, NEW n
  PROVE  /\ \A p \in Literals : p \in Keyed(o, n) <=> StoredUnder(Decl(p), o, n)
         /\ Keyed(o, n) \subseteq Literals
  BY Zenon DEF Keyed, Named, Literals, StoredUnder

LEMMA KeysDiffer ==
  \A a, b, c, d, e :
     /\ <<a>> # <<b, c>>
     /\ <<a, b, c>> # <<d, e>>
     /\ <<a, b>> = <<c, d>> <=> a = c /\ b = d
  OBVIOUS

LEMMA IngestKeys ==
  ASSUME NEW values, NEW d \in Declaration, NEW o, NEW n
  PROVE  /\ StoredUnder(d, o, n) =>
               <<o, n>> \in DOMAIN Ingest(values, d) /\ Ingest(values, d)[<<o, n>>] = d.value
         /\ ~StoredUnder(d, o, n) =>
               /\ <<o, n>> \in DOMAIN Ingest(values, d) <=> <<o, n>> \in DOMAIN values
               /\ <<o, n>> \in DOMAIN values =>
                     Ingest(values, d)[<<o, n>>] = values[<<o, n>>]
  <1> DEFINE key == <<o, n>>
  <1>1. CASE d.value = NoValue
    <2>1. Ingest(values, d) = values
      BY <1>1 DEF Ingest
    <2> QED
      BY <1>1, <2>1 DEF StoredUnder
  <1>2. CASE d.value # NoValue /\ d.kind = "attribute"
    <2> DEFINE owned == IF d.scope = << >> THEN values
                        ELSE Insert(values, <<Last(d.scope), d.name>>, d.value)
    <2>1. Ingest(values, d) = InsertIfNew(owned, <<d.name>>, d.value)
      BY <1>2, Zenon DEF Ingest, IndexAttr
    <2>2. StoredUnder(d, o, n) <=> d.name = n /\ d.scope # << >> /\ Last(d.scope) = o
      BY <1>2 DEF StoredUnder
    <2>3. <<d.name>> # key
      BY KeysDiffer
    <2>4. /\ StoredUnder(d, o, n) => key \in DOMAIN owned /\ owned[key] = d.value
          /\ ~StoredUnder(d, o, n) =>
                /\ key \in DOMAIN owned <=> key \in DOMAIN values
                /\ key \in DOMAIN values => owned[key] = values[key]
      <3>1. CASE d.scope = << >>
        BY <2>2, <3>1
      <3>2. CASE d.scope # << >>
        <4>1. key = <<Last(d.scope), d.name>> <=> StoredUnder(d, o, n)
          BY <2>2, <3>2, KeysDiffer
        <4>2. owned = Insert(values, <<Last(d.scope), d.name>>, d.value)
          BY <3>2
        <4> HIDE DEF owned, key
        <4> QED
          BY <4>1, <4>2, InsertFacts
      <3> QED
        BY <3>1, <3>2
    <2> HIDE DEF owned, key
    <2> QED
      BY <2>1, <2>3, <2>4, InsertIfNewFacts DEF key
  <1>3. CASE d.value # NoValue /\ d.kind = "override"
    <2> DEFINE rooted == IF d.scope = << >> THEN values
                         ELSE Insert(values, <<Last(d.scope), d.alias, d.name>>, d.value)
               aliased == Insert(rooted, <<d.alias, d.name>>, d.value)
               typed == Insert(aliased, <<d.type, d.name>>, d.value)
    <2>1. Ingest(values, d) = InsertIfNew(typed, <<d.name>>, d.value)
      BY <1>3, Zenon DEF Ingest, IngestInstanceAttrs
    <2>2. StoredUnder(d, o, n) <=> d.name = n /\ o \in {d.alias, d.type}
      BY <1>3 DEF StoredUnder
    <2>3. /\ <<d.name>> # key /\ <<Last(d.scope), d.alias, d.name>> # key
          /\ key = <<d.alias, d.name>> <=> d.name = n /\ o = d.alias
          /\ key = <<d.type, d.name>> <=> d.name = n /\ o = d.type
      BY KeysDiffer
    <2>4. /\ key \in DOMAIN rooted <=> key \in DOMAIN values
          /\ key \in DOMAIN values => rooted[key] = values[key]
      <3> HIDE DEF key
      <3> QED
        BY <2>3, InsertFacts
    <2> HIDE DEF rooted, key
    <2>5. /\ StoredUnder(d, o, n) => key \in DOMAIN typed /\ typed[key] = d.value
          /\ ~StoredUnder(d, o, n) =>
                /\ key \in DOMAIN typed <=> key \in DOMAIN rooted
                /\ key \in DOMAIN rooted => typed[key] = rooted[key]
      <3>1. /\ \A k : k \in DOMAIN aliased <=> k \in DOMAIN rooted \/ k = <<d.alias, d.name>>
            /\ aliased[<<d.alias, d.name>>] = d.value
            /\ \A k \in DOMAIN rooted : k # <<d.alias, d.name>> => aliased[k] = rooted[k]
        BY InsertFacts
      <3> HIDE DEF aliased
      <3>2. /\ \A k : k \in DOMAIN typed <=> k \in DOMAIN aliased \/ k = <<d.type, d.name>>
            /\ typed[<<d.type, d.name>>] = d.value
            /\ \A k \in DOMAIN aliased : k # <<d.type, d.name>> => typed[k] = aliased[k]
        BY InsertFacts
      <3> HIDE DEF typed
      <3> QED
        BY <2>2, <2>3, <3>1, <3>2
    <2> HIDE DEF typed
    <2> QED
      BY <2>1, <2>3, <2>4, <2>5, InsertIfNewFacts DEF key
  <1> QED
    BY <1>1, <1>2, <1>3 DEF Declaration

(* What else an ingested literal is stored under: its bare name, unless    *)
(* that is taken, and keys whose tails are keys.                           *)
LEMMA IngestParts ==
  ASSUME NEW values, NEW d \in Declaration, d.value # NoValue
  PROVE  \E more :
            /\ Ingest(values, d) = InsertIfNew(more, <<d.name>>, d.value)
            /\ \A n : /\ <<n>> \in DOMAIN more <=> <<n>> \in DOMAIN values
                      /\ <<n>> \in DOMAIN values => more[<<n>>] = values[<<n>>]
            /\ DOMAIN values \subseteq DOMAIN more
            /\ \A key \in DOMAIN more :
                  \/ key \in DOMAIN values
                  \/ \E a \in Name : key = <<a, d.name>>
                  \/ \E o, a \in Name : key = <<o, a, d.name>> /\ <<a, d.name>> \in DOMAIN more
  <1>0. /\ d.name \in Name /\ d.scope \in Seq(Name)
        /\ d.kind = "override" => d.alias \in Name /\ d.type \in Name
    BY DEF Declaration
  <1>1. d.scope # << >> => Last(d.scope) \in Name
    BY <1>0 DEF Last
  <1>2. CASE d.kind = "attribute"
    <2> DEFINE owned == IF d.scope = << >> THEN values
                        ELSE Insert(values, <<Last(d.scope), d.name>>, d.value)
    <2>1. Ingest(values, d) = InsertIfNew(owned, <<d.name>>, d.value)
      BY <1>2, Zenon DEF Ingest, IndexAttr
    <2>2. /\ \A key \in DOMAIN owned : key \in DOMAIN values \/ \E a \in Name : key = <<a, d.name>>
          /\ \A key \in DOMAIN values :
                key \in DOMAIN owned
                  /\ (key # <<Last(d.scope), d.name>> => owned[key] = values[key])
      <3>1. CASE d.scope = << >>
        BY <3>1
      <3>2. CASE d.scope # << >>
        BY <1>1, <3>2, InsertFacts
      <3> QED
        BY <3>1, <3>2
    <2> HIDE DEF owned
    <2>3. \A n : <<n>> # <<Last(d.scope), d.name>> /\ \A a : <<n>> # <<a, d.name>>
      BY KeysDiffer
    <2>4. \A n : /\ <<n>> \in DOMAIN owned <=> <<n>> \in DOMAIN values
                /\ <<n>> \in DOMAIN values => owned[<<n>>] = values[<<n>>]
      BY <2>2, <2>3
    <2> QED
      BY <2>1, <2>2, <2>4
  <1>3. CASE d.kind = "override"
    <2> DEFINE long == <<Last(d.scope), d.alias, d.name>>
               rooted == IF d.scope = << >> THEN values ELSE Insert(values, long, d.value)
               aliased == Insert(rooted, <<d.alias, d.name>>, d.value)
               typed == Insert(aliased, <<d.type, d.name>>, d.value)
    <2>1. Ingest(values, d) = InsertIfNew(typed, <<d.name>>, d.value)
      BY <1>3, Zenon DEF Ingest, IngestInstanceAttrs
    <2>2. /\ \A k : k \in DOMAIN typed <=> k \in DOMAIN aliased \/ k = <<d.type, d.name>>
          /\ \A k \in DOMAIN aliased : k # <<d.type, d.name>> => typed[k] = aliased[k]
          /\ \A k : k \in DOMAIN aliased <=> k \in DOMAIN rooted \/ k = <<d.alias, d.name>>
          /\ \A k \in DOMAIN rooted : k # <<d.alias, d.name>> => aliased[k] = rooted[k]
      <3> HIDE DEF rooted
      <3>1. /\ \A k : k \in DOMAIN aliased <=> k \in DOMAIN rooted \/ k = <<d.alias, d.name>>
            /\ \A k \in DOMAIN rooted : k # <<d.alias, d.name>> => aliased[k] = rooted[k]
        BY InsertFacts
      <3> HIDE DEF aliased
      <3>2. /\ \A k : k \in DOMAIN typed <=> k \in DOMAIN aliased \/ k = <<d.type, d.name>>
            /\ \A k \in DOMAIN aliased : k # <<d.type, d.name>> => typed[k] = aliased[k]
        BY InsertFacts
      <3> QED
        BY <3>1, <3>2
    <2>3. /\ \A k \in DOMAIN rooted :
                k \in DOMAIN values \/ (d.scope # << >> /\ k = long)
          /\ \A k \in DOMAIN values : k \in DOMAIN rooted /\ (k # long => rooted[k] = values[k])
      <3> HIDE DEF long
      <3> QED
        BY InsertFacts
    <2> HIDE DEF rooted, aliased, typed
    <2>4. \A n : <<n>> # long /\ <<n>> # <<d.alias, d.name>> /\ <<n>> # <<d.type, d.name>>
      <3>1. \A n, x, y, z : <<n>> # <<x, y, z>> /\ <<n>> # <<x, y>>
        OBVIOUS
      <3> QED
        BY <3>1
    <2> DEFINE al == <<d.alias, d.name>>
               ty == <<d.type, d.name>>
    <2>5. /\ \E a \in Name : al = <<a, d.name>>
          /\ \E a \in Name : ty = <<a, d.name>>
          /\ d.scope # << >> => \E o, a \in Name : long = <<o, a, d.name>> /\ <<a, d.name>> = al
      BY <1>0, <1>1, <1>3
    <2> HIDE DEF al, ty, long
    <2>6. /\ \A n : /\ <<n>> \in DOMAIN typed <=> <<n>> \in DOMAIN values
                    /\ <<n>> \in DOMAIN values => typed[<<n>>] = values[<<n>>]
          /\ DOMAIN values \subseteq DOMAIN typed /\ al \in DOMAIN typed
          /\ \A k \in DOMAIN typed :
                k \in DOMAIN values \/ k = al \/ k = ty \/ (d.scope # << >> /\ k = long)
      BY <2>2, <2>3, <2>4 DEF al, ty
    <2>7. \A k \in DOMAIN typed :
             \/ k \in DOMAIN values
             \/ \E a \in Name : k = <<a, d.name>>
             \/ \E o, a \in Name : k = <<o, a, d.name>> /\ <<a, d.name>> \in DOMAIN typed
      BY <2>5, <2>6
    <2> QED
      BY <2>1, <2>6, <2>7
  <1> QED
    BY <1>2, <1>3 DEF Declaration

LEMMA IngestBare ==
  ASSUME NEW values, NEW d \in Declaration, NEW n
  PROVE  /\ <<n>> \in DOMAIN Ingest(values, d) <=>
               <<n>> \in DOMAIN values \/ (d.value # NoValue /\ d.name = n)
         /\ <<n>> \in DOMAIN values => Ingest(values, d)[<<n>>] = values[<<n>>]
         /\ <<n>> \notin DOMAIN values /\ d.value # NoValue /\ d.name = n =>
               Ingest(values, d)[<<n>>] = d.value
  <1>1. CASE d.value = NoValue
    BY <1>1 DEF Ingest
  <1>2. CASE d.value # NoValue
    <2>1. PICK more : /\ Ingest(values, d) = InsertIfNew(more, <<d.name>>, d.value)
                      /\ <<n>> \in DOMAIN more <=> <<n>> \in DOMAIN values
                      /\ <<n>> \in DOMAIN values => more[<<n>>] = values[<<n>>]
      BY <1>2, IngestParts
    <2>2. <<n>> = <<d.name>> <=> n = d.name
      OBVIOUS
    <2>3. <<d.name>> \notin DOMAIN more => InsertIfNew(more, <<d.name>>, d.value)[<<d.name>>] = d.value
      BY DEF InsertIfNew, Insert
    <2> QED
      BY <1>2, <2>1, <2>2, <2>3, InsertIfNewFacts
  <1> QED
    BY <1>1, <1>2

LEMMA IngestTailed ==
  ASSUME NEW values, NEW d \in Declaration, Tailed(values)
  PROVE  Tailed(Ingest(values, d))
  <1>1. CASE d.value = NoValue
    BY <1>1 DEF Ingest
  <1>2. CASE d.value # NoValue
    <2> DEFINE new == Ingest(values, d)
    <2>0. d.name \in Name
      BY DEF Declaration
    <2>1. PICK more :
             /\ new = InsertIfNew(more, <<d.name>>, d.value)
             /\ DOMAIN values \subseteq DOMAIN more
             /\ \A key \in DOMAIN more :
                   \/ key \in DOMAIN values
                   \/ \E a \in Name : key = <<a, d.name>>
                   \/ \E o, a \in Name : key = <<o, a, d.name>> /\ <<a, d.name>> \in DOMAIN more
      BY <1>2, IngestParts
    <2>2. \A key : key \in DOMAIN new <=> key \in DOMAIN more \/ key = <<d.name>>
      BY <2>1, InsertIfNewFacts
    <2> HIDE DEF new
    <2>3. ASSUME NEW key \in DOMAIN new
          PROVE  \E o, a, n \in Name :
                    \/ key = <<n>>
                    \/ key = <<a, n>> /\ <<n>> \in DOMAIN new
                    \/ key = <<o, a, n>> /\ <<a, n>> \in DOMAIN new /\ <<n>> \in DOMAIN new
      <3>1. CASE key \in DOMAIN values
        <4>1. PICK o, a, n \in Name :
                 \/ key = <<n>>
                 \/ key = <<a, n>> /\ <<n>> \in DOMAIN values
                 \/ key = <<o, a, n>> /\ <<a, n>> \in DOMAIN values /\ <<n>> \in DOMAIN values
          BY <3>1 DEF Tailed
        <4>2. DOMAIN values \subseteq DOMAIN new
          BY <2>1, <2>2
        <4> QED
          BY <4>1, <4>2
      <3>2. CASE key = <<d.name>>
        BY <2>0, <3>2
      <3>3. CASE \E a \in Name : key = <<a, d.name>>
        BY <2>0, <2>2, <3>3
      <3>4. CASE \E o, a \in Name : key = <<o, a, d.name>> /\ <<a, d.name>> \in DOMAIN more
        BY <2>0, <2>2, <3>4
      <3> QED
        BY <2>1, <2>2, <3>1, <3>2, <3>3, <3>4
    <2> QED
      BY <2>3 DEF Tailed, new
  <1> QED
    BY <1>1, <1>2

-----------------------------------------------------------------------------
(* The table of a report by verdict.                                       *)
LEMMA ShownFinite ==
  ASSUME NEW t, IsFiniteSet(DOMAIN t), NEW verdict
  PROVE  IsFiniteSet(Shown(t, verdict)) /\ Cardinality(Shown(t, verdict)) \in Nat
  <1>1. Shown(t, verdict) \in SUBSET DOMAIN t
    BY DEF Shown
  <1> QED
    BY <1>1, FS_Subset, FS_CardinalityType

LEMMA ShownInsert ==
  ASSUME NEW t, IsFiniteSet(DOMAIN t), NEW req, NEW entry, NEW verdict
  PROVE  /\ IsFiniteSet(DOMAIN Insert(t, req, entry))
         /\ Cardinality(Shown(Insert(t, req, entry), verdict)) <=
               Cardinality(Shown(t, verdict)) + (IF verdict = entry.verdict THEN 1 ELSE 0)
  <1> DEFINE u == Insert(t, req, entry)
             old == Shown(t, verdict)
             new == Shown(u, verdict)
  <1>1. DOMAIN u = DOMAIN t \cup {req}
    BY DEF Insert
  <1>2. IsFiniteSet(DOMAIN u)
    BY <1>1, FS_AddElement
  <1>3. IsFiniteSet(old) /\ Cardinality(old) \in Nat
    BY ShownFinite
  <1>4. IsFiniteSet(new) /\ Cardinality(new) \in Nat
    BY <1>2, ShownFinite
  <1>5. new \in SUBSET (old \cup {req}) /\ (verdict # entry.verdict => new \in SUBSET old)
    BY InsertFacts DEF Shown
  <1> HIDE DEF u, old, new
  <1>6. IsFiniteSet(old \cup {req}) /\ Cardinality(old \cup {req}) <= Cardinality(old) + 1
    BY <1>3, FS_AddElement
  <1>7. Cardinality(old \cup {req}) \in Nat
    BY <1>6, FS_CardinalityType
  <1>8. CASE verdict = entry.verdict
    <2>1. Cardinality(new) <= Cardinality(old \cup {req})
      BY <1>5, <1>6, FS_Subset
    <2> QED
      BY <1>2, <1>3, <1>4, <1>6, <1>7, <1>8, <2>1 DEF u, old, new
  <1>9. CASE verdict # entry.verdict
    <2>1. Cardinality(new) <= Cardinality(old)
      BY <1>3, <1>5, <1>9, FS_Subset
    <2> QED
      BY <1>2, <1>3, <1>4, <1>9, <2>1 DEF u, old, new
  <1> QED
    BY <1>8, <1>9

LEMMA ShownMerge ==
  ASSUME NEW t, NEW u, IsFiniteSet(DOMAIN t), IsFiniteSet(DOMAIN u), NEW verdict
  PROVE  /\ IsFiniteSet(DOMAIN MergeRequirements(t, u))
         /\ Cardinality(Shown(MergeRequirements(t, u), verdict)) <=
               Cardinality(Shown(t, verdict)) + Cardinality(Shown(u, verdict))
  <1> DEFINE m == MergeRequirements(t, u)
             one == Shown(t, verdict)
             other == Shown(u, verdict)
             both == Shown(m, verdict)
  <1>1. DOMAIN m = DOMAIN t \cup DOMAIN u
    BY DEF MergeRequirements
  <1>2. IsFiniteSet(DOMAIN m)
    BY <1>1, FS_Union
  <1>3. /\ IsFiniteSet(one) /\ Cardinality(one) \in Nat
        /\ IsFiniteSet(other) /\ Cardinality(other) \in Nat
    BY ShownFinite
  <1>4. both \in SUBSET (one \cup other)
    BY DEF Shown, MergeRequirements
  <1> HIDE DEF m, one, other, both
  <1>5. /\ IsFiniteSet(one \cup other)
        /\ Cardinality(one \cup other) =
              Cardinality(one) + Cardinality(other) - Cardinality(one \cap other)
    BY <1>3, FS_Union
  <1>6. one \cap other \in SUBSET one
    OBVIOUS
  <1>7. Cardinality(one \cap other) \in Nat
    BY <1>3, <1>6, FS_Subset, FS_CardinalityType
  <1>8. Cardinality(both) \in Nat /\ Cardinality(both) <= Cardinality(one \cup other)
    BY <1>4, <1>5, FS_Subset, FS_CardinalityType
  <1>9. Cardinality(both) <= Cardinality(one) + Cardinality(other)
    BY <1>3, <1>5, <1>7, <1>8
  <1> QED
    BY <1>2, <1>9 DEF m, one, other, both

(* Every entry is of one verdict.                                          *)
LEMMA ShownPartition ==
  ASSUME NEW t, IsFiniteSet(DOMAIN t), \A req \in DOMAIN t : t[req].verdict \in Verdicts
  PROVE  Cardinality(DOMAIN t) = Cardinality(Shown(t, "PASS")) + Cardinality(Shown(t, "FAIL"))
                                   + Cardinality(Shown(t, "PARTIAL"))
  <1> DEFINE p == Shown(t, "PASS")
             f == Shown(t, "FAIL")
             o == Shown(t, "PARTIAL")
  <1>1. /\ IsFiniteSet(p) /\ Cardinality(p) \in Nat
        /\ IsFiniteSet(f) /\ Cardinality(f) \in Nat
        /\ IsFiniteSet(o) /\ Cardinality(o) \in Nat
    BY ShownFinite
  <1>2. DOMAIN t = (p \cup f) \cup o
    BY DEF Shown, Verdicts
  <1>3. p \cap f = {} /\ (p \cup f) \cap o = {}
    BY DEF Shown
  <1> HIDE DEF p, f, o
  <1>4. IsFiniteSet(p \cup f) /\ Cardinality(p \cup f) = Cardinality(p) + Cardinality(f)
    <2>1. Cardinality(p \cap f) = 0
      BY <1>3, FS_EmptySet, Zenon
    <2>2. /\ IsFiniteSet(p \cup f)
          /\ Cardinality(p \cup f) = Cardinality(p) + Cardinality(f) - Cardinality(p \cap f)
      BY <1>1, FS_Union
    <2> QED
      BY <1>1, <2>1, <2>2
  <1>5. Cardinality((p \cup f) \cup o) = Cardinality(p \cup f) + Cardinality(o)
    <2>1. Cardinality((p \cup f) \cap o) = 0
      BY <1>3, FS_EmptySet, Zenon
    <2>2. Cardinality(p \cup f) \in Nat
      BY <1>1, <1>4
    <2>3. Cardinality((p \cup f) \cup o) =
              Cardinality(p \cup f) + Cardinality(o) - Cardinality((p \cup f) \cap o)
      BY <1>1, <1>4, FS_Union
    <2> QED
      BY <1>1, <2>1, <2>2, <2>3
  <1> QED
    BY <1>2, <1>4, <1>5 DEF p, f, o

-----------------------------------------------------------------------------
(* Types.                                                                  *)
Reqs == {block.req : block \in SatisfyBlocks}

LEMMA TableFacts ==
  \A t : t \in Table <=>
            /\ t = [req \in DOMAIN t |-> t[req]]
            /\ DOMAIN t \subseteq Reqs
            /\ \A req \in DOMAIN t : t[req] \in Entry
  <1>1. ASSUME NEW t \in Table
        PROVE  /\ t = [req \in DOMAIN t |-> t[req]]
               /\ DOMAIN t \subseteq Reqs
               /\ \A req \in DOMAIN t : t[req] \in Entry
    <2>1. PICK R \in SUBSET Reqs : t \in [R -> Entry]
      BY DEF Table, Reqs
    <2> QED
      BY <2>1
  <1>2. ASSUME NEW t, t = [req \in DOMAIN t |-> t[req]], DOMAIN t \in SUBSET Reqs,
               \A req \in DOMAIN t : t[req] \in Entry
        PROVE  t \in Table
    <2>1. t \in [DOMAIN t -> Entry]
      BY <1>2
    <2> QED
      BY <1>2, <2>1 DEF Table, Reqs
  <1> QED
    BY <1>1, <1>2

LEMMA TableOperations ==
  /\ \A t, req, entry : t \in Table /\ req \in Reqs /\ entry \in Entry =>
        Insert(t, req, entry) \in Table
  /\ \A t, u : t \in Table /\ u \in Table => MergeRequirements(t, u) \in Table
  <1>1. ASSUME NEW t \in Table, NEW req \in Reqs, NEW entry \in Entry
        PROVE  Insert(t, req, entry) \in Table
    <2>1. DOMAIN t \subseteq Reqs /\ \A key \in DOMAIN t : t[key] \in Entry
      BY TableFacts
    <2> DEFINE new == Insert(t, req, entry)
    <2>2. new = [key \in DOMAIN t \cup {req} |-> IF key = req THEN entry ELSE t[key]]
      BY DEF Insert
    <2>3. new = [key \in DOMAIN new |-> new[key]]
      BY <2>2
    <2>4. DOMAIN new \subseteq Reqs /\ \A key \in DOMAIN new : new[key] \in Entry
      BY <2>1, <2>2
    <2> QED
      BY <2>3, <2>4, TableFacts
  <1>2. ASSUME NEW t \in Table, NEW u \in Table
        PROVE  MergeRequirements(t, u) \in Table
    <2>1. /\ DOMAIN t \subseteq Reqs /\ \A key \in DOMAIN t : t[key] \in Entry
          /\ DOMAIN u \subseteq Reqs /\ \A key \in DOMAIN u : u[key] \in Entry
      BY TableFacts
    <2> DEFINE new == MergeRequirements(t, u)
    <2>2. new = [key \in DOMAIN t \cup DOMAIN u |-> IF key \in DOMAIN u THEN u[key] ELSE t[key]]
      BY DEF MergeRequirements
    <2>3. new = [key \in DOMAIN new |-> new[key]]
      BY <2>2
    <2>4. DOMAIN new \subseteq Reqs /\ \A key \in DOMAIN new : new[key] \in Entry
      BY <2>1, <2>2
    <2> QED
      BY <2>3, <2>4, TableFacts
  <1> QED
    BY <1>1, <1>2

LEMMA EmptyReportType == EmptyReport \in Report
  <1>1. << >> \in Table
    <2>1. {} \in SUBSET {block.req : block \in SatisfyBlocks} /\ << >> \in [{} -> Entry]
      OBVIOUS
    <2> QED
      BY <2>1 DEF Table
  <1> QED
    BY <1>1 DEF EmptyReport, Report, Counts

(* A block counted.                                                        *)
EntryOf(block) ==
    LET row == RowVerdict(index, block, evidence)
    IN  [row |-> row, verdict |-> Verdict(row, block), stale |-> Stale(block), block |-> block]

LEMMA RecordFacts ==
  ASSUME report \in Report, NEW block \in SatisfyBlocks
  PROVE  /\ Record(block) \in Report
         /\ Record(block).requirements = Insert(report.requirements, block.req, EntryOf(block))
         /\ EntryOf(block) \in Entry
         /\ Record(block).summary["total"] = report.summary["total"] + 1
         /\ Record(block).summary["stale"] =
               report.summary["stale"] + (IF EntryOf(block).stale THEN 1 ELSE 0)
         /\ \A verdict \in Verdicts :
               Record(block).summary[verdict] =
                  report.summary[verdict] + (IF verdict = EntryOf(block).verdict THEN 1 ELSE 0)
  <1> DEFINE entry == EntryOf(block)
             counted == {entry.verdict, "total"} \cup (IF entry.stale THEN {"stale"} ELSE {})
             summary == [count \in DOMAIN report.summary |->
                            report.summary[count] + (IF count \in counted THEN 1 ELSE 0)]
  <1>1. Record(block) = [requirements |-> Insert(report.requirements, block.req, entry),
                         summary |-> summary]
    BY Zenon DEF Record, EntryOf
  <1>2. entry \in Entry
    <2>1. Stale(block) \in BOOLEAN
      BY Zenon DEF Stale
    <2> QED
      BY <2>1, VerdictType DEF EntryOf, Entry
  <1>3. report.requirements \in Table /\ report.summary \in [Counts -> Nat]
    BY DEF Report
  <1>4. block.req \in Reqs
    BY DEF Reqs
  <1>5. Insert(report.requirements, block.req, entry) \in Table
    BY <1>2, <1>3, <1>4, TableOperations
  <1>6. summary \in [Counts -> Nat]
    BY <1>3
  <1>7. /\ summary["total"] = report.summary["total"] + 1
        /\ summary["stale"] = report.summary["stale"] + (IF entry.stale THEN 1 ELSE 0)
        /\ \A verdict \in Verdicts :
              summary[verdict] = report.summary[verdict] + (IF verdict = entry.verdict THEN 1 ELSE 0)
    <2>1. entry.verdict \in Verdicts
      BY <1>2 DEF Entry
    <2> HIDE DEF entry
    <2>2. /\ "total" \in counted
          /\ "stale" \in counted <=> entry.stale
          /\ \A verdict \in Verdicts : verdict \in counted <=> verdict = entry.verdict
      BY <2>1 DEF Verdicts
    <2>3. \A count \in Counts :
             summary[count] = report.summary[count] + (IF count \in counted THEN 1 ELSE 0)
      BY <1>3
    <2>4. "total" \in Counts /\ "stale" \in Counts /\ Verdicts \subseteq Counts
      BY DEF Counts
    <2> HIDE DEF counted, summary
    <2> QED
      BY <2>2, <2>3, <2>4
  <1> HIDE DEF summary
  <1>8. Record(block).summary = summary
    BY <1>1
  <1>9. Record(block).requirements = Insert(report.requirements, block.req, entry)
    BY <1>1
  <1>10. Record(block) \in Report
    BY <1>1, <1>5, <1>6 DEF Report
  <1> HIDE DEF entry
  <1>11. EntryOf(block) = entry
    BY DEF entry
  <1> QED
    BY <1>2, <1>7, <1>8, <1>9, <1>10, <1>11

LEMMA MergeFacts ==
  ASSUME NEW one \in Report, NEW other \in Report
  PROVE  /\ Merge(one, other) \in Report
         /\ Merge(one, other).requirements =
               MergeRequirements(one.requirements, other.requirements)
         /\ \A count \in Counts :
               Merge(one, other).summary[count] = one.summary[count] + other.summary[count]
  <1> DEFINE summary == [count \in DOMAIN one.summary |-> one.summary[count] + other.summary[count]]
  <1>1. /\ one.requirements \in Table /\ one.summary \in [Counts -> Nat]
        /\ other.requirements \in Table /\ other.summary \in [Counts -> Nat]
    BY DEF Report
  <1>2. MergeRequirements(one.requirements, other.requirements) \in Table
    BY <1>1, TableOperations
  <1>3. /\ summary \in [Counts -> Nat]
        /\ \A count \in Counts : summary[count] = one.summary[count] + other.summary[count]
    BY <1>1
  <1>4. Merge(one, other) = [requirements |-> MergeRequirements(one.requirements, other.requirements),
                             summary |-> summary]
    BY Zenon DEF Merge
  <1> HIDE DEF summary
  <1> QED
    BY <1>2, <1>3, <1>4 DEF Report

LEMMA InputStays ==
  ASSUME [Next]_vars
  PROVE  /\ files' = files /\ recorded' = recorded /\ busy' = busy /\ runSims' = runSims
         /\ SatisfyBlocks' = SatisfyBlocks /\ Bindings' = Bindings
         /\ Literals' = Literals /\ Thresholds' = Thresholds
         /\ \A p : Decl(p)' = Decl(p)
         /\ Report' = Report
  <1>1. files' = files /\ recorded' = recorded /\ busy' = busy /\ runSims' = runSims
    BY DEF Next, vars, input, IngestDeclaration, NextAst, FinishIndex, Refresh, ResolveStaleness,
           DropBlock, EvaluateBlock, FinishFile, FinishEvaluation, MergeReport, EmitReport,
           SimulateElsewhere
  <1>2. SatisfyBlocks' = SatisfyBlocks
    BY <1>1 DEF SatisfyBlocks, SatisfyBlock
  <1>3. Bindings' = Bindings
    BY <1>2, Zenon DEF Bindings
  <1>4. Literals' = Literals /\ Thresholds' = Thresholds /\ \A p : Decl(p)' = Decl(p)
    <2>1. \A p : Decl(p)' = Decl(p)
      BY <1>1 DEF Decl
    <2>2. Literals' = Literals
      BY <1>1 DEF Literals, Decl
    <2>3. Thresholds' = Thresholds
      <3> QED
        BY <1>1 DEF Thresholds
    <2> QED
      BY <2>1, <2>2, <2>3
  <1>5. Report' = Report
    BY <1>2, Zenon DEF Report, Table, Entry
  <1> QED
    BY <1>1, <1>2, <1>3, <1>4, <1>5

LEMMA TypeInit == Init => TypeOK
  <1> SUFFICES ASSUME Init PROVE TypeOK
    OBVIOUS
  <1>1. report \in Report /\ reports \in Seq(Report) /\ merged \in Report
    BY EmptyReportType DEF Init
  <1>2. busy \in BOOLEAN /\ runSims \in BOOLEAN /\ rewritten \in BOOLEAN
    BY Zenon DEF Init
  <1>3. file \in Nat \ {0} /\ next \in Nat \ {0}
    BY DEF Init
  <1> QED
    BY <1>1, <1>2, <1>3, Zenon DEF Init, TypeOK

LEMMA BlockOfNode ==
  ASSUME file \in DOMAIN files, next \in DOMAIN files[file].blocks,
         SatisfyBlock(file, next).req # Absent
  PROVE  SatisfyBlock(file, next) \in SatisfyBlocks
  BY DEF SatisfyBlocks

LEMMA TypeStep ==
  ASSUME TypeOK, [Next]_vars
  PROVE  TypeOK'
  <1> USE InputStays
  <1>1. CASE IngestDeclaration
    BY <1>1 DEF TypeOK, IngestDeclaration
  <1>2. CASE NextAst
    BY <1>2 DEF TypeOK, NextAst
  <1>3. CASE FinishIndex
    BY <1>3 DEF TypeOK, FinishIndex
  <1>4. CASE Refresh
    <2>1. evidence' \in [Sim -> Outputs \cup {Absent}]
      BY <1>4 DEF TypeOK, Refresh
    <2> QED
      BY <1>4, <2>1 DEF TypeOK, Refresh
  <1>5. CASE ResolveStaleness
    BY <1>5 DEF TypeOK, ResolveStaleness
  <1>6. CASE DropBlock
    BY <1>6 DEF TypeOK, DropBlock
  <1>7. CASE EvaluateBlock
    <2>1. report' \in Report
      BY <1>7, BlockOfNode, RecordFacts DEF EvaluateBlock, TypeOK
    <2> QED
      BY <1>7, <2>1 DEF TypeOK, EvaluateBlock
  <1>8. CASE FinishFile
    <2>1. reports' \in Seq(Report) /\ report' \in Report
      BY <1>8, EmptyReportType DEF FinishFile, TypeOK
    <2> QED
      BY <1>8, <2>1 DEF TypeOK, FinishFile
  <1>9. CASE FinishEvaluation
    BY <1>9 DEF TypeOK, FinishEvaluation
  <1>10. CASE MergeReport
    <2>1. merged' \in Report
      BY <1>10, MergeFacts DEF MergeReport, TypeOK
    <2> QED
      BY <1>10, <2>1 DEF TypeOK, MergeReport
  <1>11. CASE EmitReport
    BY <1>11 DEF TypeOK, EmitReport
  <1>12. CASE SimulateElsewhere
    <2>1. evidence' \in [Sim -> Outputs \cup {Absent}]
      BY <1>12 DEF TypeOK, SimulateElsewhere
    <2> QED
      BY <1>12, <2>1 DEF TypeOK, SimulateElsewhere
  <1>13. CASE UNCHANGED vars
    BY <1>13 DEF TypeOK, vars
  <1> QED
    BY <1>1, <1>2, <1>3, <1>4, <1>5, <1>6, <1>7, <1>8, <1>9, <1>10, <1>11, <1>12, <1>13 DEF Next

-----------------------------------------------------------------------------
(* The index.                                                              *)
LEMMA IndexInit == Init => IndexFollows /\ Tailed(index)
  <1> SUFFICES ASSUME Init PROVE IndexFollows /\ Tailed(index)
    OBVIOUS
  <1>1. DOMAIN index = {}
    BY DEF Init
  <1>2. Passed = {}
    BY LiteralPlaces DEF Init, Passed, Indexing
  <1>3. FirstOf({}) = {} /\ LastOf({}) = {}
    BY DEF FirstOf, LastOf
  <1>4. \A S : S \cap Passed = {}
    BY <1>2
  <1> QED
    BY <1>1, <1>3, <1>4, Zenon DEF IndexFollows, Follows, Tailed

(* Where the next declaration is a literal, it comes after all there was.  *)
LEMMA NextPlace ==
  ASSUME TypeOK, IngestDeclaration, Literals' = Literals
  PROVE  LET p0 == <<file, next>>
         IN  /\ p0 \notin Passed /\ Decl(p0) \in Declaration
             /\ index' = Ingest(index, Decl(p0))
             /\ p0 \in Literals <=> Decl(p0).value # NoValue
             /\ Passed' = Passed \cup ({p0} \cap Literals)
             /\ UpTo(p0, p0)
             /\ \A p \in Passed : UpTo(p, p0) /\ ~UpTo(p0, p)
  <1> DEFINE p0 == <<file, next>>
  <1>0. files \in Projects /\ file \in Nat /\ next \in Nat
    BY DEF TypeOK
  <1>1. /\ Indexing /\ Indexing' /\ file' = file /\ next' = next + 1
        /\ file \in DOMAIN files /\ next \in DOMAIN files[file].decls
        /\ index' = Ingest(index, files[file].decls[next])
    BY DEF IngestDeclaration, Indexing
  <1>2. Decl(p0) = files[file].decls[next] /\ p0[1] = file /\ p0[2] = next
    BY DEF Decl
  <1>3. Decl(p0) \in Declaration
    BY <1>0, <1>1, <1>2, FileTypes
  <1>4. p0 \notin Passed /\ UpTo(p0, p0)
    BY <1>0, <1>1, <1>2 DEF Passed, UpTo
  <1>5. p0 \in Literals <=> Decl(p0).value # NoValue
    <2>1. p0 \in {file} \X DOMAIN files[file].decls
      BY <1>1
    <2> HIDE DEF p0
    <2> QED
      BY <1>1, <2>1 DEF Literals
  <1>6. ASSUME NEW p \in Literals
        PROVE  /\ p \in Passed' <=> p \in Passed \/ p = p0
               /\ p \in Passed => UpTo(p, p0) /\ ~UpTo(p0, p)
    <2>1. p = <<p[1], p[2]>> /\ p[1] \in Nat /\ p[2] \in Nat
      BY <1>0, LiteralPlaces
    <2>2. p = p0 <=> p[1] = file /\ p[2] = next
      BY <2>1
    <2>3. /\ p \in Passed <=> p[1] < file \/ (p[1] = file /\ p[2] < next)
          /\ p \in Passed' <=> p[1] < file \/ (p[1] = file /\ p[2] < next + 1)
      BY <1>1 DEF Passed
    <2> HIDE DEF p0
    <2> QED
      BY <1>0, <1>2, <2>1, <2>2, <2>3 DEF UpTo
  <1>7. Passed' \subseteq Literals /\ Passed \subseteq Literals
    BY DEF Passed
  <1> HIDE DEF p0
  <1>8. Passed' = Passed \cup ({p0} \cap Literals)
    BY <1>6, <1>7
  <1>9. p0 = <<file, next>>
    BY DEF p0
  <1> QED
    BY <1>1, <1>2, <1>3, <1>4, <1>5, <1>6, <1>7, <1>8, <1>9

(* One place after the others is the last; if there are others, the first  *)
(* stays.                                                                  *)
LEMMA OneMorePlace ==
  ASSUME NEW S, NEW p0, UpTo(p0, p0), \A p \in S : UpTo(p, p0) /\ ~UpTo(p0, p)
  PROVE  /\ LastOf(S \cup {p0}) = {p0}
         /\ S # {} => FirstOf(S \cup {p0}) \subseteq FirstOf(S)
         /\ S = {} => FirstOf(S \cup {p0}) = {p0}
  BY DEF FirstOf, LastOf

LEMMA IndexStep ==
  ASSUME TypeOK, IndexFollows, [Next]_vars
  PROVE  IndexFollows'
  <1>0. TypeOK' /\ files \in Projects /\ file \in Nat /\ next \in Nat
    BY TypeStep DEF TypeOK
  <1>1. Literals' = Literals /\ \A p : Decl(p)' = Decl(p)
    BY InputStays
  <1>2. \A o, n : /\ Keyed(o, n)' = Keyed(o, n) /\ Named(n)' = Named(n)
                 /\ Keyed(o, n) \subseteq Literals /\ Named(n) \subseteq Literals
    <2>1. \A n : Named(n)' = Named(n)
      BY <1>1 DEF Named
    <2>2. \A o, n : Keyed(o, n)' = Keyed(o, n)
      BY <1>1, <2>1 DEF Keyed
    <2>3. \A o, n : Keyed(o, n) \subseteq Literals /\ Named(n) \subseteq Literals
      BY Zenon DEF Keyed, Named, Literals
    <2> QED
      BY <2>1, <2>2, <2>3
  <1>3. SUFFICES ASSUME NEW o \in Name, NEW n \in Name
        PROVE  /\ <<o, n>> \in DOMAIN index' <=> Keyed(o, n) \cap Passed' # {}
               /\ \A p \in LastOf(Keyed(o, n) \cap Passed') : index'[<<o, n>>] = Decl(p).value
               /\ <<n>> \in DOMAIN index' <=> Named(n) \cap Passed' # {}
               /\ \A p \in FirstOf(Named(n) \cap Passed') : index'[<<n>>] = Decl(p).value
    <2> SUFFICES ASSUME NEW o \in Name, NEW n \in Name
                 PROVE  Follows(o, n)'
      BY Zenon DEF IndexFollows
    <2>1. /\ Keyed(o, n)' = Keyed(o, n) /\ Named(n)' = Named(n)
          /\ \A p : Decl(p)' = Decl(p)
      BY <1>1, <1>2
    <2>2. /\ <<o, n>> \in DOMAIN index' <=> Keyed(o, n) \cap Passed' # {}
          /\ \A p \in LastOf(Keyed(o, n) \cap Passed') : index'[<<o, n>>] = Decl(p).value
          /\ <<n>> \in DOMAIN index' <=> Named(n) \cap Passed' # {}
          /\ \A p \in FirstOf(Named(n) \cap Passed') : index'[<<n>>] = Decl(p).value
      BY <1>3
    <2> QED
      BY <2>1, <2>2 DEF Follows
  <1>4. /\ <<o, n>> \in DOMAIN index <=> Keyed(o, n) \cap Passed # {}
        /\ \A p \in LastOf(Keyed(o, n) \cap Passed) : index[<<o, n>>] = Decl(p).value
        /\ <<n>> \in DOMAIN index <=> Named(n) \cap Passed # {}
        /\ \A p \in FirstOf(Named(n) \cap Passed) : index[<<n>>] = Decl(p).value
    BY <1>3, Zenon DEF IndexFollows, Follows
  <1>5. CASE IngestDeclaration
    <2> DEFINE p0 == <<file, next>>
               d0 == Decl(p0)
    <2>1. /\ p0 \notin Passed /\ d0 \in Declaration /\ index' = Ingest(index, d0)
          /\ p0 \in Literals <=> d0.value # NoValue
          /\ Passed' = Passed \cup ({p0} \cap Literals)
          /\ UpTo(p0, p0)
          /\ \A p \in Passed : UpTo(p, p0) /\ ~UpTo(p0, p)
      BY <1>1, <1>5, NextPlace
    <2> HIDE DEF p0
    <2>2. /\ p0 \in Keyed(o, n) <=> StoredUnder(d0, o, n)
          /\ p0 \in Named(n) <=> d0.value # NoValue /\ d0.name = n
      <3>1. p0 \in Keyed(o, n) <=> StoredUnder(d0, o, n)
        BY <1>2, <2>1, KeyedIsStored DEF StoredUnder
      <3>2. p0 \in Named(n) <=> d0.value # NoValue /\ d0.name = n
        BY <1>2, <2>1 DEF Named
      <3> QED
        BY <3>1, <3>2
    <2>3. \A S \in {Keyed(o, n), Named(n)} :
             /\ p0 \in S => S \cap Passed' = (S \cap Passed) \cup {p0}
             /\ p0 \notin S => S \cap Passed' = S \cap Passed
      BY <1>2, <2>1
    <2>4. /\ LastOf((Keyed(o, n) \cap Passed) \cup {p0}) = {p0}
          /\ Named(n) \cap Passed # {} =>
                FirstOf((Named(n) \cap Passed) \cup {p0}) \subseteq FirstOf(Named(n) \cap Passed)
          /\ Named(n) \cap Passed = {} => FirstOf((Named(n) \cap Passed) \cup {p0}) = {p0}
      BY <2>1, OneMorePlace
    <2>5. /\ <<o, n>> \in DOMAIN index' <=> Keyed(o, n) \cap Passed' # {}
          /\ \A p \in LastOf(Keyed(o, n) \cap Passed') : index'[<<o, n>>] = Decl(p).value
      <3>1. /\ StoredUnder(d0, o, n) =>
                  <<o, n>> \in DOMAIN index' /\ index'[<<o, n>>] = d0.value
            /\ ~StoredUnder(d0, o, n) =>
                  /\ <<o, n>> \in DOMAIN index' <=> <<o, n>> \in DOMAIN index
                  /\ <<o, n>> \in DOMAIN index => index'[<<o, n>>] = index[<<o, n>>]
        BY <2>1, IngestKeys
      <3>2. CASE StoredUnder(d0, o, n)
        BY <2>2, <2>3, <2>4, <3>1, <3>2
      <3>3. CASE ~StoredUnder(d0, o, n)
        <4>1. Keyed(o, n) \cap Passed' = Keyed(o, n) \cap Passed
          BY <2>2, <2>3, <3>3
        <4>2. \A p \in LastOf(Keyed(o, n) \cap Passed) : Keyed(o, n) \cap Passed # {}
          BY DEF LastOf
        <4> QED
          BY <1>4, <3>1, <3>3, <4>1, <4>2
      <3> QED
        BY <3>2, <3>3
    <2>6. /\ <<n>> \in DOMAIN index' <=> Named(n) \cap Passed' # {}
          /\ \A p \in FirstOf(Named(n) \cap Passed') : index'[<<n>>] = Decl(p).value
      <3>1. /\ <<n>> \in DOMAIN index' <=>
                  <<n>> \in DOMAIN index \/ (d0.value # NoValue /\ d0.name = n)
            /\ <<n>> \in DOMAIN index => index'[<<n>>] = index[<<n>>]
            /\ <<n>> \notin DOMAIN index /\ d0.value # NoValue /\ d0.name = n =>
                  index'[<<n>>] = d0.value
        BY <2>1, IngestBare
      <3>2. \A p \in FirstOf(Named(n) \cap Passed) : Named(n) \cap Passed # {}
        BY DEF FirstOf
      <3>3. CASE p0 \in Named(n)
        <4>1. Named(n) \cap Passed' = (Named(n) \cap Passed) \cup {p0}
          BY <2>3, <3>3
        <4>2. CASE Named(n) \cap Passed = {}
          BY <1>4, <2>2, <2>4, <3>1, <3>3, <4>1, <4>2
        <4>3. CASE Named(n) \cap Passed # {}
          BY <1>4, <2>4, <3>1, <4>1, <4>3
        <4> QED
          BY <4>2, <4>3
      <3>4. CASE p0 \notin Named(n)
        <4>1. Named(n) \cap Passed' = Named(n) \cap Passed
          BY <2>3, <3>4
        <4> QED
          BY <1>4, <2>2, <3>1, <3>2, <3>4, <4>1
      <3> QED
        BY <3>3, <3>4
    <2> QED
      BY <2>5, <2>6
  <1>6. CASE index' = index /\ Passed' = Passed
    BY <1>4, <1>6
  <1>7. CASE NextAst
    <2>1. Indexing /\ Indexing' /\ file' = file + 1 /\ next' = 1 /\ index' = index
      BY <1>7 DEF NextAst, Indexing
    <2>2. ASSUME NEW p \in Literals
          PROVE  p \in Passed' <=> p \in Passed
      <3>1. /\ p[1] \in Nat /\ p[2] \in Nat \ {0} /\ p[2] \in 1..Len(files[p[1]].decls)
            /\ Len(files[p[1]].decls) \in Nat /\ p[1] \in DOMAIN files
            /\ DOMAIN files[p[1]].decls = 1..Len(files[p[1]].decls)
        BY <1>0, LiteralPlaces, FileTypes
      <3>2. p[1] = file => next \notin 1..Len(files[p[1]].decls)
        BY <1>7, <3>1 DEF NextAst
      <3>3. next \in Nat \ {0}
        BY DEF TypeOK
      <3>4. /\ p \in Passed <=> p[1] < file \/ (p[1] = file /\ p[2] < next)
            /\ p \in Passed' <=> p[1] < file + 1 \/ (p[1] = file + 1 /\ p[2] < 1)
        BY <1>1, <2>1 DEF Passed
      <3> QED
        BY <1>0, <3>1, <3>2, <3>3, <3>4
    <2>3. Passed' = Passed
      BY <1>1, <2>2 DEF Passed
    <2> QED
      BY <1>6, <2>1, <2>3
  <1>8. CASE FinishIndex
    <2>1. Indexing /\ ~Indexing' /\ index' = index
      BY <1>8 DEF FinishIndex, Indexing
    <2>2. ASSUME NEW p \in Literals
          PROVE  p[1] < file
      <3>1. p[1] \in DOMAIN files
        BY <1>0, LiteralPlaces
      <3> QED
        BY <1>0, <1>8, <3>1, FileTypes DEF FinishIndex, TypeOK
    <2>3. Passed = Literals /\ Passed' = Literals
      BY <1>1, <2>1, <2>2 DEF Passed
    <2> QED
      BY <1>6, <2>1, <2>3
  <1>9. CASE ~Indexing /\ ~Indexing' /\ index' = index
    <2>1. Passed' = Passed
      BY <1>1, <1>9 DEF Passed
    <2> QED
      BY <1>6, <1>9, <2>1
  <1>10. CASE UNCHANGED vars
    <2>1. index' = index /\ Passed' = Passed
      BY <1>1, <1>10 DEF Passed, Indexing, vars
    <2> QED
      BY <1>6, <2>1
  <1>11. \/ IngestDeclaration \/ NextAst \/ FinishIndex \/ UNCHANGED vars
         \/ ~Indexing /\ ~Indexing' /\ index' = index
    BY DEF Next, Indexing, Refresh, ResolveStaleness, DropBlock, EvaluateBlock, FinishFile,
           FinishEvaluation, MergeReport, EmitReport, SimulateElsewhere
  <1> QED
    BY <1>5, <1>7, <1>8, <1>9, <1>10, <1>11

LEMMA TailedStep ==
  ASSUME TypeOK, Tailed(index), [Next]_vars
  PROVE  Tailed(index')
  <1>1. CASE IngestDeclaration
    <2>1. Decl(<<file, next>>) \in Declaration /\ index' = Ingest(index, Decl(<<file, next>>))
      BY <1>1, InputStays, NextPlace
    <2> QED
      BY <2>1, IngestTailed
  <1>2. CASE index' = index
    BY <1>2
  <1>3. IngestDeclaration \/ index' = index
    BY DEF Next, vars, NextAst, FinishIndex, Refresh, ResolveStaleness, DropBlock, EvaluateBlock,
           FinishFile, FinishEvaluation, MergeReport, EmitReport, SimulateElsewhere
  <1> QED
    BY <1>1, <1>2, <1>3

-----------------------------------------------------------------------------
(* The counts.                                                             *)
LEMMA EmptyTallied == Tallied(EmptyReport)
  <1> DEFINE t == EmptyReport.requirements
  <1>1. t = << >> /\ \A count \in Counts : EmptyReport.summary[count] = 0
    BY DEF EmptyReport, Counts
  <1>2. DOMAIN t = {}
    BY <1>1
  <1>3. IsFiniteSet(DOMAIN t)
    BY <1>2, FS_EmptySet, Zenon
  <1>4. ASSUME NEW verdict \in Verdicts
        PROVE  Cardinality(Shown(t, verdict)) = 0
    <2>1. Shown(t, verdict) = {}
      BY <1>2 DEF Shown
    <2> QED
      BY <2>1, FS_EmptySet, Zenon
  <1> HIDE DEF t
  <1>5. EmptyReport.requirements = t
    BY DEF t
  <1> QED
    BY <1>1, <1>3, <1>4, <1>5 DEF Tallied, Counts, Verdicts

LEMMA RecordTallied ==
  ASSUME report \in Report, Tallied(report), NEW block \in SatisfyBlocks
  PROVE  Tallied(Record(block))
  <1> DEFINE entry == EntryOf(block)
             new == Record(block)
  <1>1. report.summary \in [Counts -> Nat] /\ new.summary \in [Counts -> Nat]
    BY RecordFacts DEF Report
  <1>2. entry.verdict \in Verdicts
    BY RecordFacts DEF Entry
  <1>3. new.requirements = Insert(report.requirements, block.req, entry)
    BY RecordFacts
  <1>4. /\ new.summary["total"] = report.summary["total"] + 1
        /\ \A verdict \in Verdicts :
              new.summary[verdict] =
                 report.summary[verdict] + (IF verdict = entry.verdict THEN 1 ELSE 0)
    BY RecordFacts
  <1> HIDE DEF entry, new
  <1>5. IsFiniteSet(DOMAIN report.requirements)
    BY DEF Tallied
  <1>6. IsFiniteSet(DOMAIN new.requirements)
    BY <1>3, <1>5, ShownInsert, Zenon
  <1>7. ASSUME NEW verdict \in Verdicts
        PROVE  Cardinality(Shown(new.requirements, verdict)) <= new.summary[verdict]
    <2>1. Cardinality(Shown(new.requirements, verdict)) <=
             Cardinality(Shown(report.requirements, verdict))
               + (IF verdict = entry.verdict THEN 1 ELSE 0)
      BY <1>3, <1>5, ShownInsert
    <2>2. Cardinality(Shown(report.requirements, verdict)) \in Nat
      BY <1>5, ShownFinite
    <2>3. Cardinality(Shown(new.requirements, verdict)) \in Nat
      BY <1>6, ShownFinite
    <2>4. Cardinality(Shown(report.requirements, verdict)) <= report.summary[verdict]
      BY DEF Tallied
    <2>5. report.summary[verdict] \in Nat
      BY <1>1 DEF Counts
    <2> QED
      BY <1>4, <2>1, <2>2, <2>3, <2>4, <2>5
  <1>8. new.summary["total"] = new.summary["PASS"] + new.summary["FAIL"] + new.summary["PARTIAL"]
    <2>1. report.summary["total"] =
             report.summary["PASS"] + report.summary["FAIL"] + report.summary["PARTIAL"]
      BY DEF Tallied
    <2>2. /\ report.summary["PASS"] \in Nat /\ report.summary["FAIL"] \in Nat
          /\ report.summary["PARTIAL"] \in Nat
      BY <1>1 DEF Counts, Verdicts
    <2> QED
      BY <1>2, <1>4, <2>1, <2>2 DEF Verdicts
  <1> QED
    BY <1>6, <1>7, <1>8 DEF Tallied, new

LEMMA MergeTallied ==
  ASSUME NEW one \in Report, NEW other \in Report, Tallied(one), Tallied(other)
  PROVE  Tallied(Merge(one, other))
  <1> DEFINE new == Merge(one, other)
  <1>1. one.summary \in [Counts -> Nat] /\ other.summary \in [Counts -> Nat]
    BY DEF Report
  <1>2. new.requirements = MergeRequirements(one.requirements, other.requirements)
    BY MergeFacts
  <1>3. \A count \in Counts : new.summary[count] = one.summary[count] + other.summary[count]
    BY MergeFacts
  <1> HIDE DEF new
  <1>4. IsFiniteSet(DOMAIN one.requirements) /\ IsFiniteSet(DOMAIN other.requirements)
    BY DEF Tallied
  <1>5. IsFiniteSet(DOMAIN new.requirements)
    BY <1>2, <1>4, ShownMerge, Zenon
  <1>6. ASSUME NEW verdict \in Verdicts
        PROVE  Cardinality(Shown(new.requirements, verdict)) <= new.summary[verdict]
    <2>1. Cardinality(Shown(new.requirements, verdict)) <=
             Cardinality(Shown(one.requirements, verdict))
               + Cardinality(Shown(other.requirements, verdict))
      BY <1>2, <1>4, ShownMerge
    <2>2. /\ Cardinality(Shown(one.requirements, verdict)) \in Nat
          /\ Cardinality(Shown(other.requirements, verdict)) \in Nat
          /\ Cardinality(Shown(new.requirements, verdict)) \in Nat
      BY <1>4, <1>5, ShownFinite
    <2>3. /\ Cardinality(Shown(one.requirements, verdict)) <= one.summary[verdict]
          /\ Cardinality(Shown(other.requirements, verdict)) <= other.summary[verdict]
      BY DEF Tallied
    <2>4. one.summary[verdict] \in Nat /\ other.summary[verdict] \in Nat /\ verdict \in Counts
      BY <1>1 DEF Counts
    <2> QED
      BY <1>3, <2>1, <2>2, <2>3, <2>4
  <1>7. new.summary["total"] = new.summary["PASS"] + new.summary["FAIL"] + new.summary["PARTIAL"]
    <2>1. /\ one.summary["total"] =
                one.summary["PASS"] + one.summary["FAIL"] + one.summary["PARTIAL"]
          /\ other.summary["total"] =
                other.summary["PASS"] + other.summary["FAIL"] + other.summary["PARTIAL"]
      BY DEF Tallied
    <2>2. \A count \in {"PASS", "FAIL", "PARTIAL", "total"} :
             /\ count \in Counts
             /\ one.summary[count] \in Nat /\ other.summary[count] \in Nat
      BY <1>1 DEF Counts, Verdicts
    <2> QED
      BY <1>3, <2>1, <2>2
  <1> QED
    BY <1>5, <1>6, <1>7 DEF Tallied, new

LEMMA AppendFacts ==
  ASSUME NEW S, NEW s \in Seq(S), NEW x \in S
  PROVE  /\ \A i \in DOMAIN Append(s, x) :
               Append(s, x)[i] = x \/ (i \in DOMAIN s /\ Append(s, x)[i] = s[i])
         /\ \A i \in DOMAIN s : i \in DOMAIN Append(s, x) /\ Append(s, x)[i] = s[i]
  <1>1. /\ DOMAIN s = 1..Len(s) /\ Len(s) \in Nat
        /\ DOMAIN Append(s, x) = 1..(Len(s) + 1)
    OBVIOUS
  <1> QED
    BY <1>1

LEMMA TallyStep ==
  ASSUME TypeOK, AllTallied, [Next]_vars
  PROVE  AllTallied'
  <1>1. CASE EvaluateBlock
    <2>1. Tallied(report')
      BY <1>1, BlockOfNode, RecordTallied DEF EvaluateBlock, TypeOK, AllTallied
    <2> QED
      BY <1>1, <2>1 DEF EvaluateBlock, AllTallied
  <1>2. CASE FinishFile
    <2>1. \A f \in DOMAIN reports' :
             reports'[f] = report \/ (f \in DOMAIN reports /\ reports'[f] = reports[f])
      BY <1>2, AppendFacts DEF FinishFile, TypeOK
    <2> QED
      BY <1>2, <2>1, EmptyTallied DEF FinishFile, AllTallied
  <1>3. CASE MergeReport
    <2>1. reports[file] \in Report /\ file \in DOMAIN reports
      BY <1>3 DEF MergeReport, TypeOK
    <2>2. Tallied(merged')
      BY <1>3, <2>1, MergeTallied DEF MergeReport, TypeOK, AllTallied
    <2> QED
      BY <1>3, <2>2 DEF MergeReport, AllTallied
  <1>4. CASE UNCHANGED <<report, reports, merged>>
    BY <1>4 DEF AllTallied
  <1>5. EvaluateBlock \/ FinishFile \/ MergeReport \/ UNCHANGED <<report, reports, merged>>
    BY DEF Next, vars, IngestDeclaration, NextAst, FinishIndex, Refresh, ResolveStaleness,
           DropBlock, FinishEvaluation, EmitReport, SimulateElsewhere
  <1> QED
    BY <1>1, <1>2, <1>3, <1>4, <1>5

-----------------------------------------------------------------------------
(* The verdicts.                                                           *)
LEMMA EmptyJudged == Judged(EmptyReport)
  BY DEF Judged, EmptyReport

LEMMA NothingStep ==
  ASSUME NothingYet, [Next]_vars
  PROVE  NothingYet'
  BY DEF NothingYet, Resolved, Next, vars, IngestDeclaration, NextAst, FinishIndex, Refresh,
         ResolveStaleness, DropBlock, EvaluateBlock, FinishFile, FinishEvaluation, MergeReport,
         EmitReport, SimulateElsewhere

LEMMA StalenessStep ==
  ASSUME TypeOK, StalenessKnown, [Next]_vars
  PROVE  StalenessKnown'
  <1> USE InputStays
  <1>1. CASE ResolveStaleness
    <2>1. \A s : IsStale(s)' <=> IsStale(s)
      BY <1>1 DEF IsStale, ResolveStaleness
    <2>2. overrides' = [s \in Bindings |-> IsStale(s)] /\ Bindings' = Bindings
      BY <1>1 DEF ResolveStaleness
    <2>3. [s \in Bindings |-> IsStale(s)]' = [s \in Bindings |-> IsStale(s)]
      BY <1>1, <2>2 DEF IsStale, ResolveStaleness
    <2> QED
      BY <2>2, <2>3 DEF StalenessKnown
  <1>2. CASE overrides' = overrides /\ evidence' = evidence /\ (Resolved' => Resolved)
             /\ rewritten' = rewritten
    <2>1. [s \in Bindings |-> IsStale(s)]' = [s \in Bindings |-> IsStale(s)]
      BY <1>2 DEF IsStale
    <2> QED
      BY <1>2, <2>1 DEF StalenessKnown
  <1>3. CASE ~Resolved' \/ rewritten'
    BY <1>3 DEF StalenessKnown
  <1> QED
    BY <1>1, <1>2, <1>3
    DEF Resolved, Next, vars, IngestDeclaration, NextAst, FinishIndex, Refresh, DropBlock,
        EvaluateBlock, FinishFile, FinishEvaluation, MergeReport, EmitReport, SimulateElsewhere

LEMMA RecordJudged ==
  ASSUME report \in Report, Judged(report), NEW block \in SatisfyBlocks
  PROVE  Judged(Record(block))
  <1> DEFINE entry == EntryOf(block)
             new == Record(block)
  <1>1. /\ new.requirements = Insert(report.requirements, block.req, entry)
        /\ new.summary["stale"] = report.summary["stale"] + (IF entry.stale THEN 1 ELSE 0)
    BY RecordFacts
  <1>2. /\ entry.stale = Stale(entry.block)
        /\ entry.verdict = Verdict(entry.row, entry.block)
        /\ entry.row = RowVerdict(index, entry.block, evidence)
    BY DEF EntryOf
  <1>3. report.summary["stale"] \in Nat
    BY DEF Report, Counts
  <1>4. /\ \A req : req \in DOMAIN new.requirements <=>
                       req \in DOMAIN report.requirements \/ req = block.req
        /\ new.requirements[block.req] = entry
        /\ \A req \in DOMAIN report.requirements :
              req # block.req => new.requirements[req] = report.requirements[req]
    BY <1>1, InsertFacts
  <1> HIDE DEF entry, new
  <1>5. ASSUME NEW req \in DOMAIN new.requirements
        PROVE  /\ new.requirements[req].stale = Stale(new.requirements[req].block)
               /\ new.requirements[req].verdict =
                     Verdict(new.requirements[req].row, new.requirements[req].block)
               /\ ~rewritten => new.requirements[req].row =
                                   RowVerdict(index, new.requirements[req].block, evidence)
    BY <1>2, <1>4 DEF Judged
  <1>6. ASSUME new.summary["stale"] = 0, NEW req \in DOMAIN new.requirements
        PROVE  ~new.requirements[req].stale
    <2>1. report.summary["stale"] = 0 /\ ~entry.stale
      BY <1>1, <1>3, <1>6
    <2> QED
      BY <1>4, <2>1 DEF Judged
  <1> QED
    BY <1>5, <1>6 DEF Judged, new

LEMMA JudgeStep ==
  ASSUME TypeOK, AllJudged, NothingYet, [Next]_vars
  PROVE  AllJudged'
  <1>1. CASE ~Resolved /\ report' = report /\ reports' = reports
    <2>1. report' = EmptyReport /\ reports' = << >>
      BY <1>1 DEF NothingYet
    <2>2. Judged(report)'
      BY <2>1 DEF Judged, EmptyReport
    <2>3. DOMAIN reports' = {}
      BY <2>1
    <2> QED
      BY <2>2, <2>3 DEF AllJudged
  <1>2. CASE overrides' = overrides /\ \/ rewritten'
                                       \/ rewritten' = rewritten /\ index' = index
                                                                 /\ evidence' = evidence
    <2>1. ASSUME NEW r, Judged(r)
          PROVE  Judged(r)'
      <3>1. ASSUME NEW block
            PROVE  Stale(block)' = Stale(block)
        BY <1>2 DEF Stale
      <3> QED
        BY <1>2, <2>1, <3>1 DEF Judged
    <2>2. ASSUME NEW r, Judged(r), report' = r
          PROVE  Judged(report)'
      <3>1. Judged(r)'
        BY <2>1, <2>2
      <3> QED
        BY <2>2, <3>1 DEF Judged
    <2>3. ASSUME NEW f \in DOMAIN reports', NEW r, Judged(r), reports'[f] = r
          PROVE  Judged(reports[f])'
      <3>1. Judged(r)'
        BY <2>1, <2>3
      <3> QED
        BY <2>3, <3>1 DEF Judged
    <2>4. Judged(report) /\ \A f \in DOMAIN reports : Judged(reports[f])
      BY DEF AllJudged
    <2>5. CASE EvaluateBlock
      <3>1. PICK block \in SatisfyBlocks : report' = Record(block)
        BY <2>5, BlockOfNode DEF EvaluateBlock, TypeOK
      <3>2. PICK r : r = Record(block)
        OBVIOUS
      <3>3. Judged(r)
        BY <2>4, <3>2, RecordJudged DEF TypeOK
      <3>4. Judged(report)'
        BY <2>2, <3>1, <3>2, <3>3
      <3>5. reports' = reports
        BY <2>5 DEF EvaluateBlock
      <3>6. \A f \in DOMAIN reports' : Judged(reports[f])'
        <4>1. ASSUME NEW f \in DOMAIN reports'
              PROVE  Judged(reports[f])'
          <5>1. PICK r1 : r1 = reports[f]
            OBVIOUS
          <5> QED
            BY <2>3, <2>4, <3>5, <5>1
        <4> QED
          BY <4>1
      <3> QED
        BY <3>4, <3>6, Zenon DEF AllJudged
    <2>6. CASE FinishFile
      <3>1. /\ \A f \in DOMAIN reports' :
                  reports'[f] = report \/ (f \in DOMAIN reports /\ reports'[f] = reports[f])
            /\ report' = EmptyReport
        BY <2>6, AppendFacts DEF FinishFile, TypeOK
      <3>2. Judged(report)'
        <4>1. PICK r : r = EmptyReport
          OBVIOUS
        <4> QED
          BY <2>2, <3>1, <4>1, EmptyJudged
      <3>3. \A f \in DOMAIN reports' : Judged(reports[f])'
        <4>1. ASSUME NEW f \in DOMAIN reports'
              PROVE  Judged(reports[f])'
          <5>1. PICK r1 : /\ r1 = report \/ (f \in DOMAIN reports /\ r1 = reports[f])
                          /\ reports'[f] = r1
            BY <3>1
          <5>2. Judged(r1)
            BY <2>4, <5>1
          <5> QED
            BY <2>3, <5>1, <5>2
        <4> QED
          BY <4>1
      <3> QED
        BY <3>2, <3>3, Zenon DEF AllJudged
    <2>7. CASE report' = report /\ reports' = reports
      <3>1. Judged(report)'
        <4>1. PICK r : r = report
          OBVIOUS
        <4> QED
          BY <2>2, <2>4, <2>7, <4>1
      <3>2. \A f \in DOMAIN reports' : Judged(reports[f])'
        <4>1. ASSUME NEW f \in DOMAIN reports'
              PROVE  Judged(reports[f])'
          <5>1. PICK r1 : r1 = reports[f]
            OBVIOUS
          <5> QED
            BY <2>3, <2>4, <2>7, <5>1
        <4> QED
          BY <4>1
      <3> QED
        BY <3>1, <3>2, Zenon DEF AllJudged
    <2>8. EvaluateBlock \/ FinishFile \/ (report' = report /\ reports' = reports)
      BY DEF Next, vars, IngestDeclaration, NextAst, FinishIndex, Refresh, ResolveStaleness,
             DropBlock, FinishEvaluation, MergeReport, EmitReport, SimulateElsewhere
    <2> QED
      BY <2>5, <2>6, <2>7, <2>8
  <1> QED
    BY <1>1, <1>2
    DEF Resolved, Next, vars, IngestDeclaration, NextAst, FinishIndex, Refresh, ResolveStaleness,
        DropBlock, EvaluateBlock, FinishFile, FinishEvaluation, MergeReport, EmitReport,
        SimulateElsewhere

(* What is merged is of some report: reports are only added to.            *)
LEMMA MergedStep ==
  ASSUME TypeOK, MergedFromReports, [Next]_vars
  PROVE  MergedFromReports'
  <1>1. CASE FinishFile
    <2>1. /\ merged' = merged
          /\ \A f \in DOMAIN reports : f \in DOMAIN reports' /\ reports'[f] = reports[f]
      BY <1>1, AppendFacts DEF FinishFile, TypeOK
    <2> QED
      BY <2>1 DEF MergedFromReports
  <1>2. CASE MergeReport
    <2>1. /\ file \in DOMAIN reports /\ reports[file] \in Report /\ merged \in Report
          /\ reports' = reports /\ merged' = Merge(merged, reports[file])
      BY <1>2 DEF MergeReport, TypeOK
    <2>2. merged'.requirements =
             MergeRequirements(merged.requirements, reports[file].requirements)
      BY <2>1, MergeFacts
    <2>3. \A req \in DOMAIN merged'.requirements :
             \/ /\ req \in DOMAIN reports[file].requirements
                /\ merged'.requirements[req] = reports[file].requirements[req]
             \/ /\ req \in DOMAIN merged.requirements
                /\ merged'.requirements[req] = merged.requirements[req]
      BY <2>2 DEF MergeRequirements
    <2> QED
      BY <2>1, <2>3 DEF MergedFromReports
  <1>3. CASE UNCHANGED <<reports, merged>>
    BY <1>3 DEF MergedFromReports
  <1>4. FinishFile \/ MergeReport \/ UNCHANGED <<reports, merged>>
    BY DEF Next, vars, IngestDeclaration, NextAst, FinishIndex, Refresh, ResolveStaleness,
           DropBlock, EvaluateBlock, FinishEvaluation, EmitReport, SimulateElsewhere
  <1> QED
    BY <1>1, <1>2, <1>3, <1>4

LEMMA ExitStep ==
  ASSUME TypeOK, ExitIsOwn, [Next]_vars
  PROVE  ExitIsOwn'
  <1>1. CASE EmitReport
    <2>1. /\ pc' = "done" /\ reports' = reports /\ runSims' = runSims
          /\ exit' = IF ~runSims /\ \E f \in DOMAIN reports : reports[f].summary["stale"] > 0
                     THEN "user" ELSE "ok"
      BY <1>1 DEF EmitReport, input
    <2> QED
      BY <2>1 DEF ExitIsOwn
  <1>2. CASE exit' = exit /\ reports' = reports /\ (pc = "done" => pc' = "done")
    <2>1. runSims' = runSims
      BY InputStays
    <2> QED
      BY <1>2, <2>1 DEF ExitIsOwn
  <1>3. CASE exit' = exit /\ pc # "done"
    <2>1. exit' = Absent /\ "ok" # Absent
      BY <1>3, VerifyAssumption DEF ExitIsOwn
    <2> QED
      BY <2>1 DEF ExitIsOwn
  <1> QED
    BY <1>1, <1>2, <1>3
    DEF Next, vars, IngestDeclaration, NextAst, FinishIndex, Refresh, ResolveStaleness, DropBlock,
        EvaluateBlock, FinishFile, FinishEvaluation, MergeReport, SimulateElsewhere

-----------------------------------------------------------------------------
LEMMA VerifyInvInit == Init => VerifyInv
  <1> SUFFICES ASSUME Init PROVE VerifyInv
    OBVIOUS
  <1>1. TypeOK /\ IndexFollows /\ Tailed(index)
    BY TypeInit, IndexInit
  <1>2. /\ report = EmptyReport /\ reports = << >> /\ merged = EmptyReport
        /\ pc = "index" /\ exit = Absent
    BY DEF Init
  <1>3. DOMAIN reports = {} /\ DOMAIN merged.requirements = {}
    BY <1>2 DEF EmptyReport
  <1>4. AllTallied /\ AllJudged /\ MergedFromReports
    BY <1>2, <1>3, EmptyTallied, EmptyJudged DEF AllTallied, AllJudged, MergedFromReports
  <1>5. StalenessKnown /\ NothingYet
    BY <1>2 DEF StalenessKnown, NothingYet, Resolved
  <1>6. ExitIsOwn
    BY <1>2, VerifyAssumption DEF ExitIsOwn
  <1> QED
    BY <1>1, <1>4, <1>5, <1>6 DEF VerifyInv

LEMMA VerifyInvStep ==
  ASSUME VerifyInv, [Next]_vars
  PROVE  VerifyInv'
  BY TypeStep, IndexStep, TailedStep, TallyStep, JudgeStep, MergedStep, StalenessStep, NothingStep, ExitStep,
     Zenon
  DEF VerifyInv

(* The invariant: what has been indexed, judged, counted and merged at any *)
(* point of `deal check --verify`.                                         *)
THEOREM VerifyInvariant == Spec => []VerifyInv
  BY VerifyInvInit, VerifyInvStep, PTL DEF Spec

(* Every variable of `deal check --verify` has its type throughout: among  *)
(* others, no table names a requirement that no satisfy block names.       *)
THEOREM VerifyTypes == Spec => []TypeOK
  <1>1. VerifyInv => TypeOK
    BY DEF VerifyInv
  <1> QED
    BY <1>1, VerifyInvariant, PTL

LEMMA CleanFollows ==
  ASSUME VerifyInv
  PROVE  CleanVerdictsIgnoreDrift
  <1> DEFINE trusted == [s \in Sim |-> IF s \in Drifted THEN Absent ELSE evidence[s]]
  <1> SUFFICES ASSUME exit = "ok", ~runSims, ~rewritten, NEW req \in DOMAIN merged.requirements
               PROVE  merged.requirements[req].row =
                         RowVerdict(index, merged.requirements[req].block, trusted)
    BY Zenon DEF CleanVerdictsIgnoreDrift
  <1> DEFINE entry == merged.requirements[req]
             block == entry.block
  <1>0. TypeOK
    BY DEF VerifyInv
  <1>1. PICK f \in DOMAIN reports : /\ req \in DOMAIN reports[f].requirements
                                    /\ entry = reports[f].requirements[req]
    BY DEF VerifyInv, MergedFromReports
  <1>2. reports[f] \in Report
    BY <1>0, <1>1 DEF TypeOK
  <1>3. reports[f].summary["stale"] = 0
    <2>1. ~(reports[f].summary["stale"] > 0)
      BY <1>1 DEF VerifyInv, ExitIsOwn
    <2>2. reports[f].summary["stale"] \in Nat
      BY <1>2 DEF Report, Counts
    <2> QED
      BY <2>1, <2>2
  <1>4. Judged(reports[f])
    BY <1>1 DEF VerifyInv, AllJudged
  <1>5. ~entry.stale /\ entry.stale = Stale(block) /\ entry.row = RowVerdict(index, block, evidence)
    BY <1>1, <1>3, <1>4 DEF Judged
  <1>6. overrides = [s \in Bindings |-> IsStale(s)]
    BY VerifyAssumption DEF VerifyInv, ExitIsOwn, StalenessKnown, Resolved
  <1>7. block \in SatisfyBlocks
    <2>1. reports[f].requirements \in Table
      BY <1>2 DEF Report
    <2>2. entry \in Entry
      BY <1>1, <2>1, TableFacts
    <2> QED
      BY <2>2 DEF Entry
  <1>8. block.binding \in Bindings \cup {NoSim} /\ block.binding \in Sim \cup {NoSim}
    BY <1>0, <1>7, BlocksAreBound DEF TypeOK
  <1> HIDE DEF entry, block
  <1>9. LoadEvidenceValues(block.binding, evidence) = LoadEvidenceValues(block.binding, trusted)
    <2>1. CASE block.binding = NoSim
      BY <2>1 DEF LoadEvidenceValues
    <2>2. CASE block.binding # NoSim
      <3> DEFINE s == block.binding
      <3>1. s \in Bindings /\ s \in Sim
        BY <1>8, <2>2
      <3>2. ~IsStale(s)
        BY <1>5, <1>6, <3>1 DEF Stale
      <3>3. s \notin Drifted
        BY <3>2 DEF IsStale, Drifted
      <3>4. trusted[s] = evidence[s]
        BY <3>1, <3>3
      <3> QED
        BY <3>4 DEF LoadEvidenceValues
    <2> QED
      BY <2>1, <2>2
  <1> HIDE DEF trusted
  <1>10. RowVerdict(index, block, evidence) = RowVerdict(index, block, trusted)
    BY <1>9, RowOfBinding
  <1> QED
    BY <1>5, <1>10 DEF entry, block

(* A clean exit vouches for the baseline: whatever row shows as passed or  *)
(* failed would show the same without the outputs that differ from the     *)
(* manifest.                                                               *)
THEOREM CleanExitVouches == Spec => []CleanVerdictsIgnoreDrift
  BY VerifyInvariant, CleanFollows, PTL

LEMMA FooterFollows ==
  ASSUME VerifyInv
  PROVE  FooterAccountsForTable
  <1> DEFINE t == merged.requirements
             shown(verdict) == Cardinality(Shown(t, verdict))
             open == {req \in DOMAIN t : Open(t[req].block)}
             rows(verdict) == {req \in DOMAIN t : t[req].row = verdict}
             due(verdict) == IF verdict = "PARTIAL" THEN rows(verdict) \cup open
                             ELSE rows(verdict) \ open
  <1>1. merged \in Report /\ Tallied(merged)
    BY DEF VerifyInv, TypeOK, AllTallied
  <1>2. /\ IsFiniteSet(DOMAIN t)
        /\ \A req \in DOMAIN t : t[req].verdict \in Verdicts /\ t[req].row \in Verdicts
    <2>1. t \in Table /\ IsFiniteSet(DOMAIN t)
      BY <1>1 DEF Report, Tallied
    <2> QED
      BY <2>1, TableFacts DEF Entry
  <1>3. merged.summary["total"] = merged.summary["PASS"] + merged.summary["FAIL"]
                                    + merged.summary["PARTIAL"]
    BY <1>1 DEF Tallied
  <1>4. Cardinality(DOMAIN t) = shown("PASS") + shown("FAIL") + shown("PARTIAL")
    BY <1>2, ShownPartition
  <1>5. \A verdict \in Verdicts :
           /\ shown(verdict) \in Nat /\ merged.summary[verdict] \in Nat
           /\ shown(verdict) <= merged.summary[verdict]
    BY <1>1, <1>2, ShownFinite DEF Tallied, Report, Counts
  <1>6. merged.summary["total"] = Cardinality(DOMAIN t) =>
           \A verdict \in Verdicts : shown(verdict) = merged.summary[verdict]
    <2> HIDE DEF shown
    <2> QED
      BY <1>3, <1>4, <1>5 DEF Verdicts
  <1>7. ASSUME NEW verdict \in Verdicts
        PROVE  shown(verdict) = Cardinality(due(verdict))
    <2>1. ASSUME NEW req \in DOMAIN t
          PROVE  t[req].verdict = IF Open(t[req].block) THEN "PARTIAL" ELSE t[req].row
      <3>1. PICK f \in DOMAIN reports : /\ req \in DOMAIN reports[f].requirements
                                        /\ t[req] = reports[f].requirements[req]
        BY DEF VerifyInv, MergedFromReports
      <3>2. t[req].verdict = Verdict(t[req].row, t[req].block)
        BY <3>1 DEF VerifyInv, AllJudged, Judged
      <3> QED
        BY <3>2 DEF Verdict
    <2> HIDE DEF t
    <2>2. Shown(t, verdict) = due(verdict)
      BY <1>2, <2>1 DEF Shown, Verdicts
    <2> QED
      BY <2>2
  <1> HIDE DEF shown
  <1>8. \A verdict \in Verdicts :
           /\ Cardinality(due(verdict)) <= merged.summary[verdict]
           /\ merged.summary["total"] = Cardinality(DOMAIN t) =>
                 Cardinality(due(verdict)) = merged.summary[verdict]
    <2> HIDE DEF due, t
    <2> QED
      BY <1>5, <1>6, <1>7
  <1> QED
    BY <1>8, Zenon DEF FooterAccountsForTable

(* The footer accounts for the rows: never fewer than they show, those of  *)
(* open blocks counted as partial, and as many when no requirement is      *)
(* satisfied twice.                                                        *)
THEOREM FooterMatches == Spec => []FooterAccountsForTable
  BY VerifyInvariant, FooterFollows, PTL

LEMMA WholeSubSeq ==
  ASSUME NEW S, NEW s \in Seq(S)
  PROVE  SubSeq(s, 1, Len(s)) = s
  OBVIOUS

(* A key that ends in a query has the query's segments at its end.         *)
LEMMA SuffixEnds ==
  ASSUME NEW S, NEW s \in Seq(S), NEW t \in Seq(S), IsSuffix(s, t)
  PROVE  /\ Len(s) <= Len(t)
         /\ \A i \in 1..Len(s) : s[Len(s) - i + 1] = t[Len(t) - i + 1]
  <1> DEFINE r == Reverse(s)
             u == Reverse(t)
  <1>1. /\ r \in Seq(S) /\ Len(r) = Len(s) /\ \A i \in 1..Len(s) : r[i] = s[Len(s) - i + 1]
        /\ u \in Seq(S) /\ Len(u) = Len(t) /\ \A i \in 1..Len(t) : u[i] = t[Len(t) - i + 1]
    BY DEF Reverse
  <1>2. Len(r) <= Len(u) /\ SubSeq(r, 1, Len(r)) = SubSeq(u, 1, Len(r))
    BY Zenon DEF IsSuffix, IsPrefix
  <1> HIDE DEF r, u
  <1>3. Len(s) \in Nat /\ Len(t) \in Nat
    OBVIOUS
  <1>4. ASSUME NEW i \in 1..Len(s)
        PROVE  s[Len(s) - i + 1] = t[Len(t) - i + 1]
    <2>1. SubSeq(r, 1, Len(r))[i] = r[i] /\ SubSeq(u, 1, Len(r))[i] = u[i]
      BY <1>1, <1>2, <1>3
    <2>2. i \in 1..Len(t)
      BY <1>1, <1>2, <1>3
    <2> QED
      BY <1>1, <1>2, <2>1, <2>2
  <1> QED
    BY <1>1, <1>2, <1>4

(* What is not a key is no suffix of one.                                  *)
LEMMA NoSuffixWithoutKey ==
  ASSUME NEW values, Tailed(values), NEW o \in Name, NEW n \in Name, NEW key \in DOMAIN values
  PROVE  /\ IsSuffix(<<o, n>>, key) => <<o, n>> \in DOMAIN values
         /\ IsSuffix(<<n>>, key) => <<n>> \in DOMAIN values
  <1>1. PICK x, a, m \in Name :
           \/ key = <<m>>
           \/ key = <<a, m>> /\ <<m>> \in DOMAIN values
           \/ key = <<x, a, m>> /\ <<a, m>> \in DOMAIN values /\ <<m>> \in DOMAIN values
    BY DEF Tailed
  <1>2. key \in Seq(Name) /\ <<o, n>> \in Seq(Name) /\ <<n>> \in Seq(Name)
    <2>1. CASE key = <<m>>
      BY <2>1
    <2>2. CASE key = <<a, m>>
      BY <2>2
    <2>3. CASE key = <<x, a, m>>
      BY <2>3
    <2> QED
      BY <1>1, <2>1, <2>2, <2>3
  <1>3. /\ Len(key) \in 1..3 /\ key[Len(key)] = m
        /\ Len(key) >= 2 => key[Len(key) - 1] = a
    <2>1. CASE key = <<m>>
      BY <2>1
    <2>2. CASE key = <<a, m>>
      BY <2>2
    <2>3. CASE key = <<x, a, m>>
      BY <2>3
    <2> QED
      BY <1>1, <2>1, <2>2, <2>3
  <1>4. ASSUME IsSuffix(<<n>>, key)
        PROVE  <<n>> \in DOMAIN values
    <2>1. \A i \in 1..Len(<<n>>) : <<n>>[Len(<<n>>) - i + 1] = key[Len(key) - i + 1]
      BY <1>2, <1>4, SuffixEnds
    <2>2. Len(<<n>>) = 1 /\ <<n>>[1] = n /\ Len(key) - 1 + 1 = Len(key)
      BY <1>3
    <2>3. n = m
      BY <1>3, <2>1, <2>2
    <2> QED
      BY <1>1, <2>3
  <1>5. ASSUME IsSuffix(<<o, n>>, key)
        PROVE  <<o, n>> \in DOMAIN values
    <2>1. /\ Len(<<o, n>>) <= Len(key)
          /\ \A i \in 1..Len(<<o, n>>) : <<o, n>>[Len(<<o, n>>) - i + 1] = key[Len(key) - i + 1]
      BY <1>2, <1>5, SuffixEnds
    <2>2. /\ Len(<<o, n>>) = 2 /\ <<o, n>>[1] = o /\ <<o, n>>[2] = n
          /\ Len(key) - 1 + 1 = Len(key) /\ Len(key) - 2 + 1 = Len(key) - 1
      BY <1>3
    <2>3. n = m /\ o = a /\ Len(key) >= 2
      BY <1>3, <2>1, <2>2
    <2> QED
      BY <1>1, <2>1, <2>2, <2>3
  <1> QED
    BY <1>4, <1>5

LEMMA LookupWithoutKey ==
  ASSUME NEW values, NEW query, query \notin DOMAIN values,
         \A key \in DOMAIN values : ~IsSuffix(query, key)
  PROVE  Lookup(values, query) = NoValue
  <1> DEFINE hits == {values[key] : key \in {k \in DOMAIN values : IsSuffix(query, k)}}
  <1>1. Lookup(values, query) = IF Cardinality(hits) = 1 THEN CHOOSE v \in hits : TRUE ELSE NoValue
    BY Zenon DEF Lookup, UniqueKeyWithSuffix
  <1>2. hits = {}
    OBVIOUS
  <1>3. Cardinality(hits) = 0
    BY <1>2, FS_EmptySet, Zenon
  <1> HIDE DEF hits
  <1> QED
    BY <1>1, <1>3

(* A query of two segments: itself, then its tail.                         *)
LEMMA ResolvePair ==
  ASSUME NEW values, NEW o \in Name, NEW n \in Name
  PROVE  Resolve(values, <<o, n>>) =
            IF Lookup(values, <<o, n>>) # NoValue THEN Lookup(values, <<o, n>>)
            ELSE Lookup(values, <<n>>)
  <1> DEFINE query == <<o, n>>
  <1>1. /\ Len(query) = 2 /\ DOMAIN query = {1, 2}
        /\ SubSeq(query, 1, 2) = query /\ SubSeq(query, 2, 2) = <<n>>
    <2>1. query \in Seq(Name) /\ Len(query) = 2 /\ DOMAIN query = {1, 2}
      OBVIOUS
    <2>2. SubSeq(query, 2, 2) = <<n>>
      <3>1. SubSeq(query, 2, 2) = [i \in 1..1 |-> query[2 + i - 1]]
        BY <2>1
      <3>2. \A i \in 1..1 : query[2 + i - 1] = n
        OBVIOUS
      <3>3. SubSeq(query, 2, 2) = [i \in 1..1 |-> n]
        BY <3>1, <3>2
      <3>4. <<n>> = [i \in 1..1 |-> n]
        OBVIOUS
      <3> QED
        BY <3>3, <3>4, Zenon
    <2> HIDE DEF query
    <2>3. SubSeq(query, 1, Len(query)) = query
      BY <2>1, WholeSubSeq, Zenon
    <2> QED
      BY <2>1, <2>2, <2>3
  <1> HIDE DEF query
  <1>2. Found(values, query) = {i \in {1, 2} : Lookup(values, SubSeq(query, i, 2)) # NoValue}
    BY <1>1, Zenon DEF Found
  <1>3. /\ 1 \in Found(values, query) <=> Lookup(values, query) # NoValue
        /\ 2 \in Found(values, query) <=> Lookup(values, <<n>>) # NoValue
        /\ Found(values, query) \subseteq {1, 2}
    BY <1>1, <1>2
  <1>4. Resolve(values, query) =
           IF Found(values, query) = {} THEN NoValue
           ELSE Lookup(values, SubSeq(query, Min(Found(values, query)), 2))
    BY <1>1, Zenon DEF Resolve
  <1>5. CASE 1 \in Found(values, query)
    <2>1. Min(Found(values, query)) = 1
      BY <1>3, <1>5 DEF Min
    <2> QED
      BY <1>1, <1>3, <1>4, <1>5, <2>1 DEF query
  <1>6. CASE 1 \notin Found(values, query) /\ 2 \in Found(values, query)
    <2>1. Found(values, query) = {2}
      BY <1>3, <1>6
    <2>2. Min({2}) = 2
      BY DEF Min
    <2> QED
      BY <1>1, <1>3, <1>4, <1>6, <2>1, <2>2 DEF query
  <1>7. CASE 1 \notin Found(values, query) /\ 2 \notin Found(values, query)
    <2>1. Found(values, query) = {}
      BY <1>3, <1>7
    <2> QED
      BY <1>3, <1>4, <1>7, <2>1 DEF query
  <1> QED
    BY <1>5, <1>6, <1>7

LEMMA ThresholdFollows ==
  ASSUME VerifyInv
  PROVE  ThresholdsAreOwnOrFirst
  <1>1. TypeOK /\ files \in Projects /\ IndexFollows /\ Tailed(index)
    BY DEF VerifyInv, TypeOK
  <1>2. ASSUME pc # "index", NEW o \in Name, NEW n \in Name
        PROVE  LET value == Resolve(index, <<o, n>>)
                   own == Keyed(o, n)
                   named == Named(n)
               IN  /\ \A p \in LastOf(own) : value = Decl(p).value
                   /\ own = {} => \A p \in FirstOf(named) : value = Decl(p).value
                   /\ named = {} => value = NoValue
    <2>1. Passed = Literals
      BY <1>2 DEF Passed, Indexing
    <2>2. /\ <<o, n>> \in DOMAIN index <=> Keyed(o, n) # {}
          /\ \A p \in LastOf(Keyed(o, n)) : index[<<o, n>>] = Decl(p).value
          /\ <<n>> \in DOMAIN index <=> Named(n) # {}
          /\ \A p \in FirstOf(Named(n)) : index[<<n>>] = Decl(p).value
      <3>1. Keyed(o, n) \cap Literals = Keyed(o, n) /\ Named(n) \cap Literals = Named(n)
        BY Zenon DEF Keyed, Named, Literals
      <3> QED
        BY <1>1, <1>2, <2>1, <3>1 DEF IndexFollows, Follows
    <2>3. Keyed(o, n) \subseteq Named(n) /\ Named(n) \subseteq Literals
      BY Zenon DEF Keyed, Named, Literals
    <2>4. \A p \in Named(n) : Decl(p).value # NoValue
      BY <1>1, <2>3, LiteralPlaces
    <2>5. \A query : query \in DOMAIN index => Lookup(index, query) = index[query]
      BY DEF Lookup
    <2>6. /\ Keyed(o, n) = {} => Lookup(index, <<o, n>>) = NoValue
          /\ Named(n) = {} => Lookup(index, <<n>>) = NoValue
      BY <1>1, <2>2, NoSuffixWithoutKey, LookupWithoutKey
    <2>7. Resolve(index, <<o, n>>) =
             IF Lookup(index, <<o, n>>) # NoValue THEN Lookup(index, <<o, n>>)
             ELSE Lookup(index, <<n>>)
      BY ResolvePair
    <2>8. /\ LastOf(Keyed(o, n)) \subseteq Keyed(o, n)
          /\ FirstOf(Named(n)) \subseteq Named(n)
      BY DEF FirstOf, LastOf
    <2> QED
      BY <2>2, <2>3, <2>4, <2>5, <2>6, <2>7, <2>8
  <1>3. ASSUME NEW query \in Thresholds
        PROVE  query = <<query[1], query[2]>> /\ query[1] \in Name /\ query[2] \in Name
    <2>1. PICK f \in DOMAIN files : \E i \in DOMAIN files[f].decls :
             LET d == files[f].decls[i]
             IN  d.scope # << >> /\ query = <<Last(d.scope), d.name>> /\ d.kind = "attribute"
      BY DEF Thresholds
    <2>2. PICK i \in DOMAIN files[f].decls :
             LET d == files[f].decls[i]
             IN  d.scope # << >> /\ query = <<Last(d.scope), d.name>> /\ d.kind = "attribute"
      BY <2>1
    <2>3. PICK d \in Declaration : d.scope # << >> /\ query = <<Last(d.scope), d.name>>
      BY <1>1, <2>1, <2>2, FileTypes
    <2>4. d.name \in Name /\ d.scope \in Seq(Name)
      BY DEF Declaration
    <2>5. Last(d.scope) \in Name
      BY <2>3, <2>4 DEF Last
    <2> QED
      BY <2>3, <2>4, <2>5
  <1>4. ASSUME pc # "index", NEW query \in Thresholds
        PROVE  LET value == Resolve(index, query)
                   own == Keyed(query[1], query[2])
                   named == Named(query[2])
               IN  /\ \A p \in LastOf(own) : value = Decl(p).value
                   /\ own = {} => \A p \in FirstOf(named) : value = Decl(p).value
                   /\ named = {} => value = NoValue
    <2>1. PICK o, n \in Name : query = <<o, n>> /\ query[1] = o /\ query[2] = n
      BY <1>3
    <2> QED
      BY <1>2, <1>4, <2>1, Zenon
  <1> QED
    BY <1>4, Zenon DEF ThresholdsAreOwnOrFirst

(* A threshold quoted as REQ_x.attr is the last literal declared under     *)
(* that key; without one it is the first literal of any element that has   *)
(* an attribute of that name, and without that undecided.                  *)
THEOREM ThresholdsResolve == Spec => []ThresholdsAreOwnOrFirst
  BY VerifyInvariant, ThresholdFollows, PTL

-----------------------------------------------------------------------------
(* The evaluator.  A place calls for the results of places below it only:  *)
(* further on in the text, at an inner level, or a round earlier.          *)
Level(function) ==
    CASE function = "primary" -> 0 [] function = "mul" -> 1 [] function = "add" -> 2
      [] function = "cmp" -> 3 [] function = "and" -> 4 [] function = "args" -> 5

Weight(k, pos, level, n) == (k - pos) * (6 * k) + level * k + n

Rank(toks, at) == Weight(Len(toks) + 1, at[2], Level(at[1]), at[3])

Below(toks, at, b) == b \in Places(toks) /\ Rank(toks, b) < Rank(toks, at)

LEMMA WeightFacts ==
  ASSUME NEW k \in Nat, NEW p \in 1..k, NEW q \in 1..k, NEW l \in 0..5, NEW m \in 0..5,
         NEW n \in 0..(k - 1), NEW o \in 0..(k - 1)
  PROVE  /\ Weight(k, p, l, n) \in Nat
         /\ Weight(k, p, l, n) < k * (6 * k)
         /\ p < q => Weight(k, q, m, o) < Weight(k, p, l, n)
         /\ m < l => Weight(k, p, m, o) < Weight(k, p, l, n)
         /\ o < n => Weight(k, p, l, o) < Weight(k, p, l, n)
  <1> DEFINE c == 6 * k
  <1>1. /\ l * k \in Nat /\ m * k \in Nat /\ l * k + n < c /\ m * k + o < c /\ c \in Nat
        /\ m < l => m * k + k <= l * k
    <2>1. l \in {0, 1, 2, 3, 4, 5} /\ m \in {0, 1, 2, 3, 4, 5}
      OBVIOUS
    <2> QED
      BY <2>1
  <1>2. \A a, b \in Nat : a < b => a * c + c <= b * c
    <2>1. ASSUME NEW a \in Nat, NEW b \in Nat, a < b
          PROVE  a * c + c <= b * c
      <3>1. PICK d \in Nat : b = a + 1 + d
        <4>1. b - a - 1 \in Nat /\ b = a + 1 + (b - a - 1)
          BY <2>1
        <4> QED
          BY <4>1
      <3>2. b * c = a * c + c + d * c /\ d * c \in Nat /\ a * c \in Nat
        BY <1>1, <3>1
      <3> QED
        BY <1>1, <3>2
    <2> QED
      BY <2>1
  <1>3. k - p \in Nat /\ k - q \in Nat /\ k - p < k /\ (p < q => k - q < k - p)
    OBVIOUS
  <1> DEFINE a == (k - p) * c
             b == (k - q) * c
             e == k * c
  <1>4. a \in Nat /\ b \in Nat /\ e \in Nat /\ a + c <= e /\ (p < q => b + c <= a)
    BY <1>1, <1>2, <1>3
  <1>5. /\ Weight(k, p, l, n) = a + l * k + n
        /\ Weight(k, q, m, o) = b + m * k + o
        /\ Weight(k, p, m, o) = a + m * k + o
        /\ Weight(k, p, l, o) = a + l * k + o
        /\ k * (6 * k) = e
    BY DEF Weight
  <1> DEFINE x == l * k
             y == m * k
  <1> HIDE DEF a, b, c, e, x, y
  <1>6. /\ x \in Nat /\ y \in Nat /\ x + n < c /\ y + o < c /\ c \in Nat
        /\ m < l => y + k <= x
    BY <1>1 DEF x, y
  <1>7. /\ Weight(k, p, l, n) = a + x + n
        /\ Weight(k, q, m, o) = b + y + o
        /\ Weight(k, p, m, o) = a + y + o
        /\ Weight(k, p, l, o) = a + x + o
        /\ k * (6 * k) = e
    BY <1>5 DEF x, y
  <1> QED
    BY <1>4, <1>6, <1>7

ParseFunctions == {"and", "cmp", "add", "mul", "primary", "args"}

LEMMA PlaceFacts ==
  ASSUME NEW toks, Len(toks) \in Nat
  PROVE  /\ \A at \in Places(toks) :
               /\ at = <<at[1], at[2], at[3]>>
               /\ at[1] \in ParseFunctions /\ at[2] \in 1..(Len(toks) + 1) /\ at[3] \in 0..Len(toks)
         /\ \A function \in ParseFunctions, pos \in 1..(Len(toks) + 1) :
               /\ Start(function, pos) \in Places(toks)
               /\ End(function, pos, toks) \in Places(toks)
  BY DEF Places, Start, End, ParseFunctions

LEMMA BelowFacts ==
  ASSUME NEW toks, Len(toks) \in Nat, NEW at \in Places(toks)
  PROVE  /\ Rank(toks, at) \in Nat
         /\ Rank(toks, at) < (Len(toks) + 1) * (6 * (Len(toks) + 1))
         /\ \A b \in Places(toks) :
               \/ b[2] > at[2]
               \/ b[2] = at[2] /\ Level(b[1]) < Level(at[1])
               \/ b[2] = at[2] /\ b[1] = at[1] /\ b[3] < at[3]
               => Below(toks, at, b)
  <1> DEFINE k == Len(toks) + 1
  <1>1. \A function \in ParseFunctions : Level(function) \in 0..5
    BY DEF ParseFunctions, Level
  <1>2. k \in Nat /\ at[2] \in 1..k /\ Level(at[1]) \in 0..5 /\ at[3] \in 0..(k - 1)
    <2>1. at[1] \in ParseFunctions /\ at[2] \in 1..k /\ at[3] \in 0..Len(toks)
      BY PlaceFacts
    <2>2. 0..(k - 1) = 0..Len(toks)
      OBVIOUS
    <2> QED
      BY <1>1, <2>1, <2>2
  <1>3. ASSUME NEW b \in Places(toks),
               \/ b[2] > at[2]
               \/ b[2] = at[2] /\ Level(b[1]) < Level(at[1])
               \/ b[2] = at[2] /\ b[1] = at[1] /\ b[3] < at[3]
        PROVE  Below(toks, at, b)
    <2>1. b[2] \in 1..k /\ Level(b[1]) \in 0..5 /\ b[3] \in 0..(k - 1)
      <3>1. b[1] \in ParseFunctions /\ b[2] \in 1..k /\ b[3] \in 0..Len(toks)
        BY PlaceFacts
      <3>2. 0..(k - 1) = 0..Len(toks)
        OBVIOUS
      <3> QED
        BY <1>1, <3>1, <3>2
    <2>2. Weight(k, b[2], Level(b[1]), b[3]) < Weight(k, at[2], Level(at[1]), at[3])
      BY <1>2, <1>3, <2>1, WeightFacts
    <2> QED
      BY <2>2 DEF Below, Rank
  <1>4. /\ Weight(k, at[2], Level(at[1]), at[3]) \in Nat
        /\ Weight(k, at[2], Level(at[1]), at[3]) < k * (6 * k)
    BY <1>2, WeightFacts
  <1> QED
    BY <1>3, <1>4 DEF Rank

(* What a result is worth: it ends after where it began, and is only known *)
(* when all that was read has data.                                        *)
Mapped(toks, ctx, from, to) ==
    \A i \in from..(to - 1) :
        IsField(toks, i) => toks[i].v \in DOMAIN ctx /\ ctx[toks[i].v] # Nothing

Good(toks, ctx, at, res) ==
    (IF at[1] = "args" THEN res.ok ELSE ~Failed(res)) =>
        /\ res.pos \in (at[2] + 1)..(Len(toks) + 1)
        /\ res.value.k # "unmapped" => Mapped(toks, ctx, at[2], res.pos)

Settled(toks, ctx, at, f, g) ==
    \A b : Below(toks, at, b) => f[b] = g[b] /\ Good(toks, ctx, b, f[b])

LEMMA MappedParts ==
  ASSUME NEW toks, NEW ctx, NEW from \in Nat, NEW mid \in Nat, NEW to \in Nat,
         Mapped(toks, ctx, from, mid), ~IsField(toks, mid), Mapped(toks, ctx, mid + 1, to)
  PROVE  Mapped(toks, ctx, from, to)
  <1> SUFFICES ASSUME NEW i \in from..(to - 1), IsField(toks, i)
               PROVE  toks[i].v \in DOMAIN ctx /\ ctx[toks[i].v] # Nothing
    BY DEF Mapped
  <1>1. i # mid
    OBVIOUS
  <1>2. CASE i < mid
    BY <1>2 DEF Mapped
  <1>3. CASE i > mid
    BY <1>3 DEF Mapped
  <1> QED
    BY <1>1, <1>2, <1>3

LEMMA StrictFacts ==
  /\ \A l, r, kind, combined :
        Combine(l, r, kind, combined).k # "unmapped" => l.k # "unmapped" /\ r.k # "unmapped"
  /\ \A loop, l, r, op : loop \in Loops /\ Apply(loop, l, r, op).k # "unmapped" =>
        l.k # "unmapped" /\ r.k # "unmapped"
  /\ \A l, r, op : ApplyCmp(l, r, op).k # "unmapped" => l.k # "unmapped" /\ r.k # "unmapped"
  /\ \A l, r : EvalMax(l, r).k # "unmapped" => l.k # "unmapped" /\ r.k # "unmapped"
  <1>1. \A l, r, kind, combined :
           Combine(l, r, kind, combined).k # "unmapped" => l.k # "unmapped" /\ r.k # "unmapped"
    BY DEF Combine, Unmapped
  <1>2. \A l, r, op : ApplyCmp(l, r, op).k # "unmapped" => l.k # "unmapped" /\ r.k # "unmapped"
    BY DEF ApplyCmp, Combine, Unmapped
  <1>3. \A l, r : EvalMax(l, r).k # "unmapped" => l.k # "unmapped" /\ r.k # "unmapped"
    BY DEF EvalMax, Combine, Unmapped
  <1>4. \A l, r : ApplyAnd(l, r).k # "unmapped" => l.k # "unmapped" /\ r.k # "unmapped"
    BY DEF ApplyAnd, Combine, Unmapped
  <1>5. \A l, r, op : ApplyAdd(l, r, op).k # "unmapped" => l.k # "unmapped" /\ r.k # "unmapped"
    BY DEF ApplyAdd, Combine, Unmapped
  <1>6. \A l, r, op : ApplyMul(l, r, op).k # "unmapped" => l.k # "unmapped" /\ r.k # "unmapped"
    BY DEF ApplyMul, Combine, Unmapped
  <1>7. ASSUME NEW loop \in Loops, NEW l, NEW r, NEW op, Apply(loop, l, r, op).k # "unmapped"
        PROVE  l.k # "unmapped" /\ r.k # "unmapped"
    <2>1. \/ Apply(loop, l, r, op) = ApplyAnd(l, r)
          \/ Apply(loop, l, r, op) = ApplyAdd(l, r, op)
          \/ Apply(loop, l, r, op) = ApplyMul(l, r, op)
      BY DEF Apply, Loops
    <2> QED
      BY <1>4, <1>5, <1>6, <1>7, <2>1
  <1> QED
    BY <1>1, <1>2, <1>3, <1>7

LEMMA OperandFacts ==
  ASSUME NEW toks, Len(toks) \in Nat, NEW loop \in Loops, NEW pos \in 1..(Len(toks) + 1)
  PROVE  /\ Operand(loop, pos, toks) \in Places(toks)
         /\ Operand(loop, pos, toks)[1] # "args" /\ Operand(loop, pos, toks)[2] = pos
         /\ Level(Operand(loop, pos, toks)[1]) < Level(loop)
  <1>1. CASE loop = "and"
    <2>1. Operand(loop, pos, toks) = Start("cmp", pos)
      BY <1>1 DEF Operand
    <2> QED
      BY <1>1, <2>1, PlaceFacts DEF Start, ParseFunctions, Level
  <1>2. CASE loop = "add"
    <2>1. Operand(loop, pos, toks) = End("mul", pos, toks)
      BY <1>2 DEF Operand
    <2> QED
      BY <1>2, <2>1, PlaceFacts DEF End, ParseFunctions, Level
  <1>3. CASE loop = "mul"
    <2>1. Operand(loop, pos, toks) = Start("primary", pos)
      BY <1>3 DEF Operand
    <2> QED
      BY <1>3, <2>1, PlaceFacts DEF Start, ParseFunctions, Level
  <1> QED
    BY <1>1, <1>2, <1>3 DEF Loops

(* A result at an inner place is one at an outer place that starts there.  *)
LEMMA GoodInside ==
  ASSUME NEW toks, NEW ctx, NEW a, NEW b, NEW res, a[1] # "args", b[1] # "args", a[2] = b[2],
         Good(toks, ctx, b, res)
  PROVE  Good(toks, ctx, a, res)
  BY DEF Good

(* Two operands and what is between them.                                  *)
LEMMA GoodPair ==
  ASSUME NEW toks, Len(toks) \in Nat, NEW ctx, NEW at \in Places(toks), NEW b, NEW c, NEW l, NEW r,
         NEW value,
         at[1] # "args", b[1] # "args", c[1] # "args", b[2] = at[2], c[2] = l.pos + 1,
         Good(toks, ctx, b, l), Good(toks, ctx, c, r), ~Failed(l), ~Failed(r),
         ~IsField(toks, l.pos),
         value.k # "unmapped" => l.value.k # "unmapped" /\ r.value.k # "unmapped"
  PROVE  Good(toks, ctx, at, At(value, r.pos))
  <1>1. /\ at[2] \in 1..(Len(toks) + 1)
        /\ l.pos \in (at[2] + 1)..(Len(toks) + 1)
        /\ r.pos \in (l.pos + 2)..(Len(toks) + 1)
    <2>1. at[2] \in 1..(Len(toks) + 1)
      BY PlaceFacts
    <2>2. l.pos \in (at[2] + 1)..(Len(toks) + 1)
      BY DEF Good
    <2>3. r.pos \in ((l.pos + 1) + 1)..(Len(toks) + 1)
      BY DEF Good
    <2> QED
      BY <2>1, <2>2, <2>3
  <1>2. ASSUME value.k # "unmapped"
        PROVE  Mapped(toks, ctx, at[2], r.pos)
    <2>1. Mapped(toks, ctx, at[2], l.pos) /\ Mapped(toks, ctx, l.pos + 1, r.pos)
      BY <1>2 DEF Good
    <2>2. at[2] \in Nat /\ l.pos \in Nat /\ r.pos \in Nat
      BY <1>1
    <2> QED
      BY <2>1, <2>2, MappedParts
  <1>3. At(value, r.pos).pos = r.pos /\ At(value, r.pos).value = value
    BY DEF At
  <1>4. r.pos \in (at[2] + 1)..(Len(toks) + 1)
    BY <1>1
  <1> QED
    BY <1>2, <1>3, <1>4 DEF Good

LEMMA LoopGood ==
  ASSUME NEW toks, Len(toks) \in Nat, NEW ctx, NEW at \in Places(toks), at[1] \in Loops,
         NEW f, NEW g, Settled(toks, ctx, at, f, g)
  PROVE  /\ ParseLoop(toks, at[1], at[2], at[3], f) = ParseLoop(toks, at[1], at[2], at[3], g)
         /\ Good(toks, ctx, at, ParseLoop(toks, at[1], at[2], at[3], f))
  <1> DEFINE loop == at[1]
             pos == at[2]
             n == at[3]
             o == Operand(loop, pos, toks)
  <1>0. /\ at = <<loop, pos, n>> /\ pos \in 1..(Len(toks) + 1) /\ n \in 0..Len(toks)
        /\ loop # "args"
    BY PlaceFacts DEF Loops
  <1>1. CASE n = 0
    <2>1. Below(toks, at, o) /\ o[1] # "args" /\ o[2] = pos
      BY <1>0, OperandFacts, BelowFacts
    <2>2. f[o] = g[o] /\ Good(toks, ctx, o, f[o])
      BY <2>1 DEF Settled
    <2>3. ParseLoop(toks, loop, pos, n, f) = f[o] /\ ParseLoop(toks, loop, pos, n, g) = g[o]
      BY <1>1 DEF ParseLoop
    <2>4. Good(toks, ctx, at, f[o])
      BY <1>0, <2>1, <2>2, GoodInside
    <2> QED
      BY <2>2, <2>3, <2>4
  <1>2. CASE n # 0
    <2> DEFINE b == <<loop, pos, n - 1>>
               l == f[b]
               c == Operand(loop, l.pos + 1, toks)
               r == f[c]
               goes == ~Failed(l) /\ Sees(toks, l.pos, Operators(loop))
    <2>1. b \in Places(toks) /\ b[1] = loop /\ b[2] = pos /\ b[3] = n - 1
      <3>1. n - 1 \in 0..Len(toks) /\ loop \in ParseFunctions
        BY <1>0, <1>2 DEF Loops, ParseFunctions
      <3> HIDE DEF loop, pos, n
      <3>2. b \in ParseFunctions \X (1..(Len(toks) + 1)) \X (0..Len(toks))
        BY <1>0, <3>1
      <3> QED
        BY <3>2 DEF Places, ParseFunctions
    <2>2. Below(toks, at, b)
      BY <1>0, <1>2, <2>1, BelowFacts
    <2>3. l = g[b] /\ Good(toks, ctx, b, l)
      BY <2>2 DEF Settled
    <2>4. ParseLoop(toks, loop, pos, n, f) =
             IF Failed(l) \/ ~Sees(toks, l.pos, Operators(loop)) THEN l
             ELSE IF Failed(r) THEN r
             ELSE At(Apply(loop, l.value, r.value, toks[l.pos].k), r.pos)
      BY <1>2, Zenon DEF ParseLoop
    <2>5. ParseLoop(toks, loop, pos, n, g) =
             IF Failed(g[b]) \/ ~Sees(toks, g[b].pos, Operators(loop)) THEN g[b]
             ELSE IF Failed(g[Operand(loop, g[b].pos + 1, toks)])
                  THEN g[Operand(loop, g[b].pos + 1, toks)]
             ELSE At(Apply(loop, g[b].value, g[Operand(loop, g[b].pos + 1, toks)].value,
                           toks[g[b].pos].k), g[Operand(loop, g[b].pos + 1, toks)].pos)
      BY <1>2, Zenon DEF ParseLoop
    <2>6. ParseLoop(toks, loop, pos, n, g) =
             IF Failed(l) \/ ~Sees(toks, l.pos, Operators(loop)) THEN l
             ELSE IF Failed(g[c]) THEN g[c]
             ELSE At(Apply(loop, l.value, g[c].value, toks[l.pos].k), g[c].pos)
      BY <2>3, <2>5, Zenon
    <2>7. CASE ~goes
      <3>1. ParseLoop(toks, loop, pos, n, f) = l /\ ParseLoop(toks, loop, pos, n, g) = l
        BY <2>4, <2>6, <2>7
      <3>2. Good(toks, ctx, at, l)
        BY <1>0, <2>1, <2>3, GoodInside
      <3> QED
        BY <3>1, <3>2
    <2>8. CASE goes
      <3>1. l.pos \in (pos + 1)..(Len(toks) + 1)
        BY <1>0, <2>1, <2>3, <2>8 DEF Good
      <3>2. l.pos + 1 \in 1..(Len(toks) + 1) /\ l.pos + 1 > pos
        BY <1>0, <2>8, <3>1 DEF Sees
      <3>3. Below(toks, at, c) /\ c[1] # "args" /\ c[2] = l.pos + 1
        BY <1>0, <3>2, OperandFacts, BelowFacts
      <3>4. r = g[c] /\ Good(toks, ctx, c, r)
        BY <3>3 DEF Settled
      <3>5. ParseLoop(toks, loop, pos, n, f) = ParseLoop(toks, loop, pos, n, g)
        <4> HIDE DEF l, c, r
        <4> QED
          BY <2>4, <2>6, <3>4
      <3>6. CASE Failed(r)
        BY <1>0, <2>4, <2>8, <3>5, <3>6 DEF Good
      <3>7. CASE ~Failed(r)
        <4> DEFINE value == Apply(loop, l.value, r.value, toks[l.pos].k)
        <4>1. ParseLoop(toks, loop, pos, n, f) = At(value, r.pos)
          <5> HIDE DEF l, c, r
          <5> QED
            BY <2>4, <2>8, <3>7
        <4>2. value.k # "unmapped" => l.value.k # "unmapped" /\ r.value.k # "unmapped"
          <5> HIDE DEF l, r
          <5> QED
            BY StrictFacts
        <4>3. ~IsField(toks, l.pos)
          BY <2>8 DEF Sees, Operators, IsField, Loops
        <4> HIDE DEF value
        <4>4. Good(toks, ctx, at, At(value, r.pos))
          BY <1>0, <2>1, <2>3, <2>8, <3>3, <3>4, <3>7, <4>2, <4>3, GoodPair
        <4> QED
          BY <3>5, <4>1, <4>4
      <3> QED
        BY <3>6, <3>7
    <2> QED
      BY <2>7, <2>8
  <1> QED
    BY <1>1, <1>2

LEMMA CmpGood ==
  ASSUME NEW toks, Len(toks) \in Nat, NEW ctx, NEW at \in Places(toks), at[1] = "cmp",
         NEW f, NEW g, Settled(toks, ctx, at, f, g)
  PROVE  /\ ParseCmp(toks, at[2], f) = ParseCmp(toks, at[2], g)
         /\ Good(toks, ctx, at, ParseCmp(toks, at[2], f))
  <1> DEFINE pos == at[2]
             Ops == {">=", "<=", "=="}
             b == End("add", pos, toks)
             l == f[b]
             c == End("add", l.pos + 1, toks)
             r == f[c]
             goes == ~Failed(l) /\ Sees(toks, l.pos, Ops)
  <1>0. /\ pos \in 1..(Len(toks) + 1) /\ at[1] # "args"
        /\ "add" \in ParseFunctions /\ Level("add") < Level(at[1])
    BY PlaceFacts DEF ParseFunctions, Level
  <1>1. b \in Places(toks) /\ b[1] = "add" /\ b[2] = pos
    BY <1>0, PlaceFacts DEF End
  <1>2. Below(toks, at, b)
    BY <1>0, <1>1, BelowFacts
  <1>3. l = g[b] /\ Good(toks, ctx, b, l)
    BY <1>2 DEF Settled
  <1>4. ParseCmp(toks, pos, f) =
           IF Failed(l) \/ ~Sees(toks, l.pos, Ops) THEN l
           ELSE IF Failed(r) THEN r
           ELSE At(ApplyCmp(l.value, r.value, toks[l.pos].k), r.pos)
    BY Zenon DEF ParseCmp
  <1>5. ParseCmp(toks, pos, g) =
           IF Failed(g[b]) \/ ~Sees(toks, g[b].pos, Ops) THEN g[b]
           ELSE IF Failed(g[End("add", g[b].pos + 1, toks)]) THEN g[End("add", g[b].pos + 1, toks)]
           ELSE At(ApplyCmp(g[b].value, g[End("add", g[b].pos + 1, toks)].value, toks[g[b].pos].k),
                   g[End("add", g[b].pos + 1, toks)].pos)
    BY Zenon DEF ParseCmp
  <1>6. ParseCmp(toks, pos, g) =
           IF Failed(l) \/ ~Sees(toks, l.pos, Ops) THEN l
           ELSE IF Failed(g[c]) THEN g[c]
           ELSE At(ApplyCmp(l.value, g[c].value, toks[l.pos].k), g[c].pos)
    BY <1>3, <1>5, Zenon
  <1>7. CASE ~goes
    <2>1. ParseCmp(toks, pos, f) = l /\ ParseCmp(toks, pos, g) = l
      BY <1>4, <1>6, <1>7
    <2>2. Good(toks, ctx, at, l)
      BY <1>0, <1>1, <1>3, GoodInside
    <2> QED
      BY <2>1, <2>2
  <1>8. CASE goes
    <2>1. l.pos \in (pos + 1)..(Len(toks) + 1)
      BY <1>0, <1>1, <1>3, <1>8 DEF Good
    <2>2. l.pos + 1 \in 1..(Len(toks) + 1) /\ l.pos + 1 > pos
      BY <1>0, <1>8, <2>1 DEF Sees
    <2>3. c \in Places(toks) /\ c[1] # "args" /\ c[2] = l.pos + 1
      BY <1>0, <2>2, PlaceFacts DEF End
    <2>4. Below(toks, at, c)
      BY <2>2, <2>3, BelowFacts
    <2>5. r = g[c] /\ Good(toks, ctx, c, r)
      BY <2>4 DEF Settled
    <2>6. ParseCmp(toks, pos, f) = ParseCmp(toks, pos, g)
      <3> HIDE DEF l, c, r
      <3> QED
        BY <1>4, <1>6, <2>5
    <2>7. CASE Failed(r)
      BY <1>0, <1>4, <1>8, <2>6, <2>7 DEF Good
    <2>8. CASE ~Failed(r)
      <3> DEFINE value == ApplyCmp(l.value, r.value, toks[l.pos].k)
      <3>1. ParseCmp(toks, pos, f) = At(value, r.pos)
        <4> HIDE DEF l, c, r
        <4> QED
          BY <1>4, <1>8, <2>8
      <3>2. value.k # "unmapped" => l.value.k # "unmapped" /\ r.value.k # "unmapped"
        <4> HIDE DEF l, r
        <4> QED
          BY StrictFacts
      <3>3. ~IsField(toks, l.pos)
        BY <1>8 DEF Sees, IsField
      <3> HIDE DEF value
      <3>4. Good(toks, ctx, at, At(value, r.pos))
        BY <1>0, <1>1, <1>3, <1>8, <2>3, <2>5, <2>8, <3>2, <3>3, GoodPair
      <3> QED
        BY <2>6, <3>1, <3>4
    <2> QED
      BY <2>7, <2>8
  <1> QED
    BY <1>7, <1>8

LEMMA ArgsGood ==
  ASSUME NEW toks, Len(toks) \in Nat, NEW ctx, NEW at \in Places(toks), at[1] = "args",
         NEW f, NEW g, Settled(toks, ctx, at, f, g)
  PROVE  /\ ParseArgs(toks, at[2], f) = ParseArgs(toks, at[2], g)
         /\ Good(toks, ctx, at, ParseArgs(toks, at[2], f))
  <1> DEFINE pos == at[2]
             b == End("and", pos, toks)
             arg == f[b]
             c == Start("args", arg.pos + 1)
             rest == f[c]
             res == ParseArgs(toks, pos, f)
  <1>0. /\ pos \in 1..(Len(toks) + 1) /\ "and" \in ParseFunctions /\ "args" \in ParseFunctions
        /\ Level("and") < Level(at[1])
    BY PlaceFacts DEF ParseFunctions, Level
  <1>1. b \in Places(toks) /\ b[1] # "args" /\ b[1] = "and" /\ b[2] = pos
    BY <1>0, PlaceFacts DEF End
  <1>2. Below(toks, at, b)
    BY <1>0, <1>1, BelowFacts
  <1>3. arg = g[b] /\ Good(toks, ctx, b, arg)
    BY <1>2 DEF Settled
  <1>4. res = IF Failed(arg) THEN [ok |-> FALSE, value |-> Error, pos |-> pos]
              ELSE IF Sees(toks, arg.pos, {","})
              THEN [ok |-> rest.ok, value |-> EvalMax(arg.value, rest.value), pos |-> rest.pos]
              ELSE [ok |-> Sees(toks, arg.pos, {")"}), value |-> EvalMax(arg.value, arg.value),
                    pos |-> arg.pos + 1]
    BY Zenon DEF ParseArgs
  <1>5. ParseArgs(toks, pos, g) =
           IF Failed(g[b]) THEN [ok |-> FALSE, value |-> Error, pos |-> pos]
           ELSE IF Sees(toks, g[b].pos, {","})
           THEN [ok |-> g[Start("args", g[b].pos + 1)].ok,
                 value |-> EvalMax(g[b].value, g[Start("args", g[b].pos + 1)].value),
                 pos |-> g[Start("args", g[b].pos + 1)].pos]
           ELSE [ok |-> Sees(toks, g[b].pos, {")"}), value |-> EvalMax(g[b].value, g[b].value),
                 pos |-> g[b].pos + 1]
    BY Zenon DEF ParseArgs
  <1>6. ParseArgs(toks, pos, g) =
           IF Failed(arg) THEN [ok |-> FALSE, value |-> Error, pos |-> pos]
           ELSE IF Sees(toks, arg.pos, {","})
           THEN [ok |-> g[c].ok, value |-> EvalMax(arg.value, g[c].value), pos |-> g[c].pos]
           ELSE [ok |-> Sees(toks, arg.pos, {")"}), value |-> EvalMax(arg.value, arg.value),
                 pos |-> arg.pos + 1]
    BY <1>3, <1>5, Zenon
  <1>7. CASE Failed(arg)
    <2>1. res = [ok |-> FALSE, value |-> Error, pos |-> pos] /\ ParseArgs(toks, pos, g) = res
      <3> HIDE DEF arg, rest, c, res
      <3> QED
        BY <1>4, <1>6, <1>7
    <2> QED
      BY <2>1 DEF Good
  <1>8. CASE ~Failed(arg) /\ Sees(toks, arg.pos, {","})
    <2>1. arg.pos \in (pos + 1)..(Len(toks) + 1)
      BY <1>0, <1>1, <1>3, <1>8 DEF Good
    <2>2. arg.pos + 1 \in 1..(Len(toks) + 1) /\ arg.pos + 1 > pos
      <3>1. arg.pos <= Len(toks)
        BY <1>8 DEF Sees
      <3> HIDE DEF arg
      <3> QED
        BY <1>0, <2>1, <3>1
    <2>3. c \in Places(toks) /\ c[1] = "args" /\ c[2] = arg.pos + 1
      BY <1>0, <2>2, PlaceFacts DEF Start
    <2>4. Below(toks, at, c)
      BY <2>2, <2>3, BelowFacts
    <2>5. rest = g[c] /\ Good(toks, ctx, c, rest)
      BY <2>4 DEF Settled
    <2>6. /\ res = [ok |-> rest.ok, value |-> EvalMax(arg.value, rest.value), pos |-> rest.pos]
          /\ ParseArgs(toks, pos, g) = res
      <3> HIDE DEF arg, rest, c, res
      <3> QED
        BY <1>4, <1>6, <1>8, <2>5
    <2>7. ASSUME rest.ok
          PROVE  /\ rest.pos \in (pos + 1)..(Len(toks) + 1)
                 /\ EvalMax(arg.value, rest.value).k # "unmapped" =>
                       Mapped(toks, ctx, pos, rest.pos)
      <3>1. rest.pos \in ((arg.pos + 1) + 1)..(Len(toks) + 1)
        BY <2>3, <2>5, <2>7 DEF Good
      <3>2. ASSUME EvalMax(arg.value, rest.value).k # "unmapped"
            PROVE  Mapped(toks, ctx, pos, rest.pos)
        <4>1. arg.value.k # "unmapped" /\ rest.value.k # "unmapped"
          <5> HIDE DEF arg, rest
          <5> QED
            BY <3>2, StrictFacts
        <4>2. Mapped(toks, ctx, pos, arg.pos) /\ Mapped(toks, ctx, arg.pos + 1, rest.pos)
          BY <1>1, <1>3, <1>8, <2>3, <2>5, <2>7, <4>1 DEF Good
        <4>3. ~IsField(toks, arg.pos)
          BY <1>8 DEF Sees, IsField
        <4>4. pos \in Nat /\ arg.pos \in Nat /\ rest.pos \in Nat
          BY <1>0, <2>1, <3>1
        <4> QED
          BY <4>2, <4>3, <4>4, MappedParts
      <3> QED
        BY <1>0, <2>1, <3>1, <3>2
    <2>8. res.ok = rest.ok /\ res.value = EvalMax(arg.value, rest.value) /\ res.pos = rest.pos
      <3> HIDE DEF arg, rest, c, res
      <3> QED
        BY <2>6
    <2> QED
      BY <2>6, <2>7, <2>8 DEF Good
  <1>9. CASE ~Failed(arg) /\ ~Sees(toks, arg.pos, {","})
    <2>1. arg.pos \in (pos + 1)..(Len(toks) + 1)
      BY <1>0, <1>1, <1>3, <1>9 DEF Good
    <2>2. /\ res = [ok |-> Sees(toks, arg.pos, {")"}), value |-> EvalMax(arg.value, arg.value),
                    pos |-> arg.pos + 1]
          /\ ParseArgs(toks, pos, g) = res
      <3> HIDE DEF arg, rest, c, res
      <3> QED
        BY <1>4, <1>6, <1>9
    <2>3. /\ res.ok = Sees(toks, arg.pos, {")"})
          /\ res.value = EvalMax(arg.value, arg.value) /\ res.pos = arg.pos + 1
      <3> HIDE DEF arg, rest, c, res
      <3> QED
        BY <2>2
    <2>4. ASSUME Sees(toks, arg.pos, {")"})
          PROVE  /\ arg.pos + 1 \in (pos + 1)..(Len(toks) + 1)
                 /\ EvalMax(arg.value, arg.value).k # "unmapped" =>
                       Mapped(toks, ctx, pos, arg.pos + 1)
      <3>1. arg.pos + 1 \in (pos + 1)..(Len(toks) + 1)
        BY <1>0, <2>1, <2>4 DEF Sees
      <3>2. ASSUME EvalMax(arg.value, arg.value).k # "unmapped"
            PROVE  Mapped(toks, ctx, pos, arg.pos + 1)
        <4>1. arg.value.k # "unmapped"
          <5> HIDE DEF arg
          <5> QED
            BY <3>2, StrictFacts
        <4>2. Mapped(toks, ctx, pos, arg.pos)
          BY <1>1, <1>3, <1>9, <4>1 DEF Good
        <4>3. ~IsField(toks, arg.pos)
          BY <2>4 DEF Sees, IsField
        <4>4. pos \in Nat /\ arg.pos \in Nat
          BY <1>0, <2>1
        <4>5. Mapped(toks, ctx, arg.pos + 1, arg.pos + 1)
          BY <4>4 DEF Mapped
        <4> QED
          BY <4>2, <4>3, <4>4, <4>5, MappedParts
      <3> QED
        BY <3>1, <3>2
    <2> QED
      BY <2>2, <2>3, <2>4 DEF Good
  <1> QED
    BY <1>7, <1>8, <1>9

LEMMA ParensGood ==
  ASSUME NEW toks, Len(toks) \in Nat, NEW ctx, NEW at \in Places(toks), at[1] = "primary",
         Sees(toks, at[2], {"("}), NEW f, NEW g, Settled(toks, ctx, at, f, g)
  PROVE  /\ ParseParens(toks, at[2], f) = ParseParens(toks, at[2], g)
         /\ Good(toks, ctx, at, ParseParens(toks, at[2], f))
  <1> DEFINE pos == at[2]
             b == End("and", pos + 1, toks)
             inner == f[b]
             goes == ~Failed(inner) /\ Sees(toks, inner.pos, {")"})
  <1>0. pos \in 1..Len(toks) /\ pos + 1 \in 1..(Len(toks) + 1) /\ "and" \in ParseFunctions
    <2>1. pos \in 1..(Len(toks) + 1) /\ pos <= Len(toks)
      BY PlaceFacts DEF Sees
    <2> QED
      BY <2>1 DEF ParseFunctions
  <1>1. b \in Places(toks) /\ b[1] # "args" /\ b[2] = pos + 1
    BY <1>0, PlaceFacts DEF End
  <1>2. Below(toks, at, b)
    BY <1>0, <1>1, BelowFacts
  <1>3. inner = g[b] /\ Good(toks, ctx, b, inner)
    BY <1>2 DEF Settled
  <1>4. /\ ParseParens(toks, pos, f) = IF goes THEN At(inner.value, inner.pos + 1) ELSE At(Error, pos)
        /\ ParseParens(toks, pos, g) = IF goes THEN At(inner.value, inner.pos + 1) ELSE At(Error, pos)
    <2>1. ParseParens(toks, pos, f) = IF goes THEN At(inner.value, inner.pos + 1) ELSE At(Error, pos)
      BY Zenon DEF ParseParens
    <2>2. ParseParens(toks, pos, g) =
             IF ~Failed(g[b]) /\ Sees(toks, g[b].pos, {")"}) THEN At(g[b].value, g[b].pos + 1)
             ELSE At(Error, pos)
      BY Zenon DEF ParseParens
    <2> QED
      BY <1>3, <2>1, <2>2, Zenon
  <1>5. CASE ~goes
    <2>1. /\ ParseParens(toks, pos, f) = At(Error, pos)
          /\ ParseParens(toks, pos, f) = ParseParens(toks, pos, g)
      <3> HIDE DEF inner
      <3> QED
        BY <1>4, <1>5
    <2> QED
      BY <2>1 DEF Good, At, Failed, Error
  <1>6. CASE goes
    <2>1. inner.pos \in ((pos + 1) + 1)..(Len(toks) + 1) /\ inner.pos <= Len(toks)
      BY <1>1, <1>3, <1>6 DEF Good, Sees
    <2>2. /\ ParseParens(toks, pos, f) = At(inner.value, inner.pos + 1)
          /\ ParseParens(toks, pos, f) = ParseParens(toks, pos, g)
      <3> HIDE DEF inner
      <3> QED
        BY <1>4, <1>6
    <2>3. inner.pos + 1 \in (pos + 1)..(Len(toks) + 1)
      <3> HIDE DEF inner
      <3> QED
        BY <1>0, <2>1
    <2>4. ASSUME inner.value.k # "unmapped"
          PROVE  Mapped(toks, ctx, pos, inner.pos + 1)
      <3>1. Mapped(toks, ctx, pos + 1, inner.pos)
        BY <1>1, <1>3, <1>6, <2>4 DEF Good
      <3>2. pos \in Nat /\ inner.pos \in Nat /\ pos + 1 \in Nat
        BY <1>0, <2>1
      <3>3. ~IsField(toks, pos) /\ ~IsField(toks, inner.pos)
        BY <1>6 DEF Sees, IsField
      <3> HIDE DEF inner
      <3>4. Mapped(toks, ctx, pos, pos) /\ Mapped(toks, ctx, inner.pos + 1, inner.pos + 1)
        BY <3>2 DEF Mapped
      <3>5. Mapped(toks, ctx, pos, inner.pos)
        BY <3>1, <3>2, <3>3, <3>4, MappedParts
      <3> QED
        BY <3>2, <3>3, <3>4, <3>5, MappedParts
    <2>5. At(inner.value, inner.pos + 1).value = inner.value
          /\ At(inner.value, inner.pos + 1).pos = inner.pos + 1
      BY DEF At
    <2> HIDE DEF inner
    <2> QED
      BY <2>2, <2>3, <2>4, <2>5 DEF Good
  <1> QED
    BY <1>5, <1>6

LEMMA MaxGood ==
  ASSUME NEW toks, Len(toks) \in Nat, NEW ctx, NEW at \in Places(toks), at[1] = "primary",
         Sees(toks, at[2], {"ident"}), ~IsField(toks, at[2]),
         NEW f, NEW g, Settled(toks, ctx, at, f, g)
  PROVE  /\ ParseMax(toks, at[2], f) = ParseMax(toks, at[2], g)
         /\ Good(toks, ctx, at, ParseMax(toks, at[2], f))
  <1> DEFINE pos == at[2]
             b == Start("args", pos + 2)
             call == f[b]
  <1>0. /\ pos \in 1..Len(toks) /\ pos + 1 <= Len(toks) /\ pos + 2 \in 1..(Len(toks) + 1)
        /\ "args" \in ParseFunctions /\ toks[pos + 1].k = "("
    <2>1. pos \in 1..(Len(toks) + 1) /\ pos <= Len(toks)
      BY PlaceFacts DEF Sees
    <2>2. Sees(toks, pos + 1, {"("})
      BY DEF IsField, Sees
    <2>3. pos + 1 <= Len(toks) /\ toks[pos + 1].k = "("
      BY <2>2 DEF Sees
    <2> QED
      BY <2>1, <2>3 DEF ParseFunctions
  <1>1. b \in Places(toks) /\ b[1] = "args" /\ b[2] = pos + 2
    BY <1>0, PlaceFacts DEF Start
  <1>2. Below(toks, at, b)
    BY <1>0, <1>1, BelowFacts
  <1>3. call = g[b] /\ Good(toks, ctx, b, call)
    BY <1>2 DEF Settled
  <1>4. /\ ParseMax(toks, pos, f) = IF call.ok THEN At(call.value, call.pos) ELSE At(Error, pos)
        /\ ParseMax(toks, pos, g) = IF call.ok THEN At(call.value, call.pos) ELSE At(Error, pos)
    <2>1. ParseMax(toks, pos, f) = IF call.ok THEN At(call.value, call.pos) ELSE At(Error, pos)
      BY Zenon DEF ParseMax
    <2>2. ParseMax(toks, pos, g) = IF g[b].ok THEN At(g[b].value, g[b].pos) ELSE At(Error, pos)
      BY Zenon DEF ParseMax
    <2> QED
      BY <1>3, <2>1, <2>2, Zenon
  <1>5. CASE ~call.ok
    <2>1. /\ ParseMax(toks, pos, f) = At(Error, pos)
          /\ ParseMax(toks, pos, f) = ParseMax(toks, pos, g)
      <3> HIDE DEF call
      <3> QED
        BY <1>4, <1>5
    <2> QED
      BY <2>1 DEF Good, At, Failed, Error
  <1>6. CASE call.ok
    <2>1. call.pos \in ((pos + 2) + 1)..(Len(toks) + 1)
      BY <1>1, <1>3, <1>6 DEF Good
    <2>2. /\ ParseMax(toks, pos, f) = At(call.value, call.pos)
          /\ ParseMax(toks, pos, f) = ParseMax(toks, pos, g)
      <3> HIDE DEF call
      <3> QED
        BY <1>4, <1>6
    <2>3. call.pos \in (pos + 1)..(Len(toks) + 1)
      <3> HIDE DEF call
      <3> QED
        BY <1>0, <2>1
    <2>4. ASSUME call.value.k # "unmapped"
          PROVE  Mapped(toks, ctx, pos, call.pos)
      <3>1. Mapped(toks, ctx, pos + 2, call.pos)
        BY <1>1, <1>3, <1>6, <2>4 DEF Good
      <3> HIDE DEF call
      <3>2. pos \in Nat /\ call.pos \in Nat /\ pos + 1 \in Nat /\ (pos + 1) + 1 = pos + 2
        BY <1>0, <2>1
      <3>3. ~IsField(toks, pos) /\ ~IsField(toks, pos + 1)
        BY <1>0 DEF IsField
      <3>4. Mapped(toks, ctx, pos + 1, pos + 1)
        BY <3>2 DEF Mapped
      <3>5. Mapped(toks, ctx, pos + 1, call.pos)
        BY <3>1, <3>2, <3>3, <3>4, MappedParts
      <3>6. Mapped(toks, ctx, pos, pos)
        BY <3>2 DEF Mapped
      <3> QED
        BY <3>2, <3>3, <3>5, <3>6, MappedParts
    <2>5. At(call.value, call.pos).value = call.value /\ At(call.value, call.pos).pos = call.pos
      BY DEF At
    <2> HIDE DEF call
    <2> QED
      BY <2>2, <2>3, <2>4, <2>5 DEF Good
  <1> QED
    BY <1>5, <1>6

LEMMA PrimaryGood ==
  ASSUME NEW toks, Len(toks) \in Nat, NEW ctx, NEW at \in Places(toks), at[1] = "primary",
         NEW f, NEW g, Settled(toks, ctx, at, f, g)
  PROVE  /\ ParsePrimary(toks, at[2], ctx, f) = ParsePrimary(toks, at[2], ctx, g)
         /\ Good(toks, ctx, at, ParsePrimary(toks, at[2], ctx, f))
  <1> DEFINE pos == at[2]
             res == ParsePrimary(toks, pos, ctx, f)
  <1>0. pos \in 1..(Len(toks) + 1)
    BY PlaceFacts
  <1>1. CASE ~Sees(toks, pos, {"num", "(", "ident"})
    <2>1. res = At(Error, pos) /\ ParsePrimary(toks, pos, ctx, g) = res
      BY <1>1 DEF ParsePrimary
    <2> QED
      BY <2>1 DEF Good, At, Failed, Error
  <1>2. ASSUME pos + 1 \in 1..(Len(toks) + 1), NEW value,
               value.k # "unmapped" => Mapped(toks, ctx, pos, pos + 1)
        PROVE  Good(toks, ctx, at, At(value, pos + 1))
    <2>1. pos + 1 \in (pos + 1)..(Len(toks) + 1)
      BY <1>0, <1>2
    <2>2. At(value, pos + 1).value = value /\ At(value, pos + 1).pos = pos + 1
      BY DEF At
    <2> QED
      BY <1>2, <2>1, <2>2 DEF Good
  <1>3. CASE Sees(toks, pos, {"num"})
    <2>1. /\ res = At(Number(toks[pos].v), pos + 1)
          /\ ParsePrimary(toks, pos, ctx, g) = At(Number(toks[pos].v), pos + 1)
      BY <1>3 DEF ParsePrimary, Sees
    <2>2. Mapped(toks, ctx, pos, pos + 1)
      BY <1>0, <1>3 DEF Mapped, IsField, Sees
    <2>3. pos + 1 \in 1..(Len(toks) + 1)
      BY <1>0, <1>3 DEF Sees
    <2> QED
      BY <1>2, <2>1, <2>2, <2>3
  <1>4. CASE Sees(toks, pos, {"("})
    <2>1. /\ res = ParseParens(toks, pos, f)
          /\ ParsePrimary(toks, pos, ctx, g) = ParseParens(toks, pos, g)
      BY <1>4 DEF ParsePrimary, Sees
    <2> QED
      BY <1>4, <2>1, ParensGood
  <1>5. CASE Sees(toks, pos, {"ident"}) /\ IsField(toks, pos)
    <2> DEFINE value == ResolveFieldPath(toks[pos].v, ctx)
    <2>1. res = At(value, pos + 1) /\ ParsePrimary(toks, pos, ctx, g) = At(value, pos + 1)
      BY <1>5 DEF ParsePrimary, Sees
    <2>2. value.k # "unmapped" => toks[pos].v \in DOMAIN ctx /\ ctx[toks[pos].v] # Nothing
      BY DEF ResolveFieldPath, Unmapped
    <2>3. value.k # "unmapped" => Mapped(toks, ctx, pos, pos + 1)
      <3> HIDE DEF value
      <3> SUFFICES ASSUME value.k # "unmapped", NEW i \in pos..((pos + 1) - 1)
                   PROVE  toks[i].v \in DOMAIN ctx /\ ctx[toks[i].v] # Nothing
        BY DEF Mapped
      <3>1. i = pos
        BY <1>0
      <3> QED
        BY <2>2, <3>1
    <2>4. pos + 1 \in 1..(Len(toks) + 1)
      BY <1>0, <1>5 DEF Sees
    <2> HIDE DEF value
    <2> QED
      BY <1>2, <2>1, <2>3, <2>4
  <1>6. CASE Sees(toks, pos, {"ident"}) /\ ~IsField(toks, pos)
    <2>1. res = ParseMax(toks, pos, f) /\ ParsePrimary(toks, pos, ctx, g) = ParseMax(toks, pos, g)
      BY <1>6 DEF ParsePrimary, Sees
    <2> QED
      BY <1>6, <2>1, MaxGood
  <1>7. Sees(toks, pos, {"num", "(", "ident"}) =>
           \/ Sees(toks, pos, {"num"}) \/ Sees(toks, pos, {"("}) \/ Sees(toks, pos, {"ident"})
    BY DEF Sees
  <1> QED
    BY <1>1, <1>3, <1>4, <1>5, <1>6, <1>7

LEMMA PlaceGood ==
  ASSUME NEW toks, Len(toks) \in Nat, NEW ctx, NEW at \in Places(toks),
         NEW f, NEW g, Settled(toks, ctx, at, f, g)
  PROVE  /\ ParseAt(toks, ctx, f, at) = ParseAt(toks, ctx, g, at)
         /\ Good(toks, ctx, at, ParseAt(toks, ctx, f, at))
  <1>1. CASE at[1] = "args"
    BY <1>1, ArgsGood DEF ParseAt
  <1>2. CASE at[1] = "primary"
    BY <1>2, PrimaryGood DEF ParseAt
  <1>3. CASE at[1] = "cmp"
    BY <1>3, CmpGood DEF ParseAt
  <1>4. CASE at[1] \in Loops
    <2>1. /\ ParseAt(toks, ctx, f, at) = ParseLoop(toks, at[1], at[2], at[3], f)
          /\ ParseAt(toks, ctx, g, at) = ParseLoop(toks, at[1], at[2], at[3], g)
      BY <1>4 DEF ParseAt, Loops
    <2> QED
      BY <1>4, <2>1, LoopGood
  <1>5. at[1] \in ParseFunctions
    BY PlaceFacts
  <1> QED
    BY <1>1, <1>2, <1>3, <1>4, <1>5 DEF ParseFunctions, Loops

(* Every solution of the parse functions' equations is good everywhere.    *)
Solves(toks, ctx, parse) == parse = [at \in Places(toks) |-> ParseAt(toks, ctx, parse, at)]

Roof(toks) == (Len(toks) + 1) * (6 * (Len(toks) + 1))

LEMMA SolutionGood ==
  ASSUME NEW toks, Len(toks) \in Nat, NEW ctx, NEW parse, Solves(toks, ctx, parse)
  PROVE  \A at \in Places(toks) : Good(toks, ctx, at, parse[at])
  <1> DEFINE Bad == {n \in Nat : \E at \in Places(toks) :
                        Rank(toks, at) = n /\ ~Good(toks, ctx, at, parse[at])}
  <1> SUFFICES ASSUME NEW at \in Places(toks), ~Good(toks, ctx, at, parse[at])
               PROVE  FALSE
    OBVIOUS
  <1>1. Bad \in SUBSET Nat /\ Bad # {}
    BY BelowFacts
  <1>2. PICK n \in Bad : \A m \in Bad : ~(m < n)
    <2> HIDE DEF Bad
    <2> QED
      BY <1>1, LeastNat
  <1>3. PICK b \in Places(toks) : Rank(toks, b) = n /\ ~Good(toks, ctx, b, parse[b])
    OBVIOUS
  <1>4. Settled(toks, ctx, b, parse, parse)
    <2> SUFFICES ASSUME NEW c, Below(toks, b, c)
                 PROVE  Good(toks, ctx, c, parse[c])
      BY DEF Settled
    <2>1. c \in Places(toks) /\ Rank(toks, c) < n
      BY <1>3 DEF Below
    <2>2. Rank(toks, c) \in Nat
      BY <2>1, BelowFacts
    <2> QED
      BY <1>2, <2>1, <2>2
  <1>5. parse[b] = ParseAt(toks, ctx, parse, b)
    <2>1. parse = [c \in Places(toks) |-> ParseAt(toks, ctx, parse, c)]
      BY DEF Solves
    <2>2. [c \in Places(toks) |-> ParseAt(toks, ctx, parse, c)][b] = ParseAt(toks, ctx, parse, b)
      OBVIOUS
    <2> QED
      BY <2>1, <2>2, Zenon
  <1> QED
    BY <1>3, <1>4, <1>5, PlaceGood

(* There is a solution: rank by rank.                                      *)
SolvesBelow(toks, ctx, n, f) ==
    \A at \in Places(toks) :
        Rank(toks, at) < n =>
            f[at] = ParseAt(toks, ctx, f, at) /\ Good(toks, ctx, at, f[at])

LEMMA SolveRank ==
  ASSUME NEW toks, Len(toks) \in Nat, NEW ctx, NEW n \in Nat, NEW f, SolvesBelow(toks, ctx, n, f)
  PROVE  SolvesBelow(toks, ctx, n + 1, [at \in Places(toks) |-> ParseAt(toks, ctx, f, at)])
  <1> DEFINE g == [at \in Places(toks) |-> ParseAt(toks, ctx, f, at)]
  <1> SUFFICES ASSUME NEW at \in Places(toks), Rank(toks, at) < n + 1
               PROVE  g[at] = ParseAt(toks, ctx, g, at) /\ Good(toks, ctx, at, g[at])
    BY DEF SolvesBelow
  <1>1. g[at] = ParseAt(toks, ctx, f, at)
    OBVIOUS
  <1>2. ASSUME NEW b, Below(toks, at, b)
        PROVE  f[b] = g[b] /\ Good(toks, ctx, b, f[b])
    <2>1. b \in Places(toks) /\ Rank(toks, b) < Rank(toks, at)
      BY <1>2 DEF Below
    <2>2. Rank(toks, b) \in Nat /\ Rank(toks, at) \in Nat
      BY <2>1, BelowFacts
    <2>3. Rank(toks, b) < n
      BY <2>1, <2>2
    <2>4. g[b] = ParseAt(toks, ctx, f, b)
      BY <2>1
    <2> QED
      BY <2>1, <2>3, <2>4 DEF SolvesBelow
  <1> HIDE DEF g
  <1>3. Settled(toks, ctx, at, f, g)
    BY <1>2 DEF Settled
  <1> QED
    BY <1>1, <1>3, PlaceGood

LEMMA SolvableBelow ==
  ASSUME NEW toks, Len(toks) \in Nat, NEW ctx
  PROVE  \A n \in Nat : \E f : SolvesBelow(toks, ctx, n, f)
  <1> DEFINE Bad == {n \in Nat : ~\E f : SolvesBelow(toks, ctx, n, f)}
  <1> SUFFICES ASSUME Bad # {}
               PROVE  FALSE
    OBVIOUS
  <1>1. PICK n \in Bad : \A m \in Bad : ~(m < n)
    <2>1. Bad \in SUBSET Nat
      OBVIOUS
    <2> HIDE DEF Bad
    <2> QED
      BY <2>1, LeastNat
  <1>2. n \in Nat /\ ~\E f : SolvesBelow(toks, ctx, n, f)
    OBVIOUS
  <1>3. CASE n = 0
    <2>1. SolvesBelow(toks, ctx, n, << >>)
      BY <1>3, BelowFacts DEF SolvesBelow
    <2> QED
      BY <1>2, <2>1
  <1>4. CASE n # 0
    <2>1. n - 1 \in Nat /\ n - 1 < n /\ (n - 1) + 1 = n
      BY <1>2, <1>4
    <2>2. n - 1 \notin Bad
      BY <1>1, <2>1
    <2>3. PICK f : SolvesBelow(toks, ctx, n - 1, f)
      BY <2>1, <2>2
    <2>4. SolvesBelow(toks, ctx, n, [at \in Places(toks) |-> ParseAt(toks, ctx, f, at)])
      BY <2>1, <2>3, SolveRank
    <2> QED
      BY <1>2, <2>4
  <1> QED
    BY <1>3, <1>4

LEMMA ParseFromSolves ==
  ASSUME NEW toks, Len(toks) \in Nat, NEW ctx
  PROVE  Solves(toks, ctx, ParseFrom(toks, ctx))
  <1>1. Roof(toks) \in Nat
    BY DEF Roof
  <1>2. PICK f : SolvesBelow(toks, ctx, Roof(toks), f)
    BY <1>1, SolvableBelow
  <1> DEFINE g == [at \in Places(toks) |-> ParseAt(toks, ctx, f, at)]
  <1>3. SolvesBelow(toks, ctx, Roof(toks) + 1, g)
    BY <1>1, <1>2, SolveRank
  <1>4. \A at \in Places(toks) : g[at] = ParseAt(toks, ctx, g, at)
    <2> HIDE DEF g
    <2> TAKE at \in Places(toks)
    <2>1. Rank(toks, at) \in Nat /\ Rank(toks, at) < Roof(toks)
      BY BelowFacts DEF Roof
    <2>2. Rank(toks, at) < Roof(toks) + 1
      BY <1>1, <2>1
    <2> QED
      BY <1>3, <2>2 DEF SolvesBelow
  <1>5. g = [at \in Places(toks) |-> ParseAt(toks, ctx, g, at)]
    <2>1. g = [at \in Places(toks) |-> g[at]]
      OBVIOUS
    <2> HIDE DEF g
    <2> QED
      BY <1>4, <2>1
  <1> HIDE DEF g
  <1>6. \E parse : parse = [at \in Places(toks) |-> ParseAt(toks, ctx, parse, at)]
    BY <1>5
  <1>7. ParseFrom(toks, ctx) =
           (CHOOSE parse : parse = [at \in Places(toks) |-> ParseAt(toks, ctx, parse, at)])
    BY DEF ParseFrom
  <1> QED
    BY <1>6, <1>7, Zenon DEF Solves

(* An expression has a value only when all its fields have data.           *)
LEMMA ValueIsMapped ==
  ASSUME NEW toks, Len(toks) \in Nat, DOMAIN toks = 1..Len(toks), NEW ctx,
         EvalExpr(toks, ctx).k \notin {"error", "unmapped"}
  PROVE  Fields(toks) \subseteq DOMAIN ctx
  <1> DEFINE at == End("and", 1, toks)
             res == ParseFrom(toks, ctx)[at]
  <1>1. at \in Places(toks) /\ at[1] # "args" /\ at[2] = 1
    <2>1. 1 \in 1..(Len(toks) + 1) /\ "and" \in ParseFunctions
      BY DEF ParseFunctions
    <2>2. at \in Places(toks)
      BY <2>1, PlaceFacts
    <2>3. at[1] = "and" /\ at[2] = 1
      BY DEF End
    <2> QED
      BY <2>2, <2>3
  <1>2. Good(toks, ctx, at, res)
    BY <1>1, ParseFromSolves, SolutionGood
  <1>3. EvalExpr(toks, ctx) =
           IF Tokenizes(toks) /\ ~Failed(res) /\ res.pos > Len(toks) THEN res.value ELSE Error
    BY Zenon DEF EvalExpr
  <1> HIDE DEF res
  <1>4. EvalExpr(toks, ctx) = res.value /\ ~Failed(res) /\ res.pos > Len(toks)
    BY <1>3 DEF Error
  <1>5. res.pos \in 2..(Len(toks) + 1) /\ Mapped(toks, ctx, 1, res.pos)
    <2>1. res.value.k # "unmapped"
      BY <1>4
    <2> QED
      BY <1>1, <1>2, <1>4, <2>1 DEF Good
  <1>6. ASSUME NEW i \in 1..Len(toks), IsField(toks, i)
        PROVE  toks[i].v \in DOMAIN ctx
    <2>1. i \in 1..(res.pos - 1)
      BY <1>4, <1>5
    <2> QED
      BY <1>5, <1>6, <2>1 DEF Mapped
  <1> QED
    BY <1>6 DEF Fields

-----------------------------------------------------------------------------
(* A compute block, statement by statement.                                *)
Computes(stmts, ctx, after) ==
    after = [n \in 0..Len(stmts) |-> IF n = 0 THEN ctx ELSE Assign(after[n - 1], stmts[n])]

ComputesUpTo(stmts, ctx, n, f) ==
    \A m \in 0..Len(stmts) :
        m < n => f[m] = (IF m = 0 THEN ctx ELSE Assign(f[m - 1], stmts[m]))

LEMMA ComputeOne ==
  ASSUME NEW stmts, Len(stmts) \in Nat, NEW ctx, NEW n \in Nat, NEW f,
         ComputesUpTo(stmts, ctx, n, f)
  PROVE  ComputesUpTo(stmts, ctx, n + 1,
            [m \in 0..Len(stmts) |-> IF m = 0 THEN ctx ELSE Assign(f[m - 1], stmts[m])])
  <1> DEFINE g == [m \in 0..Len(stmts) |-> IF m = 0 THEN ctx ELSE Assign(f[m - 1], stmts[m])]
  <1> SUFFICES ASSUME NEW m \in 0..Len(stmts), m < n + 1
               PROVE  g[m] = (IF m = 0 THEN ctx ELSE Assign(g[m - 1], stmts[m]))
    BY DEF ComputesUpTo
  <1>1. g[m] = (IF m = 0 THEN ctx ELSE Assign(f[m - 1], stmts[m]))
    OBVIOUS
  <1>2. ASSUME m # 0
        PROVE  g[m - 1] = f[m - 1]
    <2>1. m - 1 \in 0..Len(stmts) /\ m - 1 < n
      BY <1>2
    <2>2. g[m - 1] = (IF m - 1 = 0 THEN ctx ELSE Assign(f[(m - 1) - 1], stmts[m - 1]))
      BY <2>1
    <2>3. f[m - 1] = (IF m - 1 = 0 THEN ctx ELSE Assign(f[(m - 1) - 1], stmts[m - 1]))
      BY <2>1 DEF ComputesUpTo
    <2> QED
      BY <2>2, <2>3
  <1> HIDE DEF g
  <1> QED
    BY <1>1, <1>2

LEMMA ComputableUpTo ==
  ASSUME NEW stmts, Len(stmts) \in Nat, NEW ctx
  PROVE  \A n \in Nat : \E f : ComputesUpTo(stmts, ctx, n, f)
  <1> DEFINE Bad == {n \in Nat : ~\E f : ComputesUpTo(stmts, ctx, n, f)}
  <1> SUFFICES ASSUME Bad # {}
               PROVE  FALSE
    OBVIOUS
  <1>1. PICK n \in Bad : \A m \in Bad : ~(m < n)
    <2>1. Bad \in SUBSET Nat
      OBVIOUS
    <2> HIDE DEF Bad
    <2> QED
      BY <2>1, LeastNat
  <1>2. n \in Nat /\ ~\E f : ComputesUpTo(stmts, ctx, n, f)
    OBVIOUS
  <1>3. CASE n = 0
    <2>1. ComputesUpTo(stmts, ctx, n, << >>)
      BY <1>3 DEF ComputesUpTo
    <2> QED
      BY <1>2, <2>1
  <1>4. CASE n # 0
    <2>1. n - 1 \in Nat /\ n - 1 < n /\ (n - 1) + 1 = n
      BY <1>2, <1>4
    <2>2. n - 1 \notin Bad
      BY <1>1, <2>1
    <2>3. PICK f : ComputesUpTo(stmts, ctx, n - 1, f)
      BY <2>1, <2>2
    <2>4. \E g : ComputesUpTo(stmts, ctx, n, g)
      BY <2>1, <2>3, ComputeOne
    <2> QED
      BY <1>2, <2>4
  <1> QED
    BY <1>3, <1>4

LEMMA ComputeSolves ==
  ASSUME NEW stmts, Len(stmts) \in Nat, NEW ctx
  PROVE  \E after : /\ Computes(stmts, ctx, after)
                    /\ EvaluateComputeBlock(stmts, ctx) = after[Len(stmts)]
  <1> DEFINE Step(f) == [n \in 0..Len(stmts) |-> IF n = 0 THEN ctx ELSE Assign(f[n - 1], stmts[n])]
  <1>1. PICK f : ComputesUpTo(stmts, ctx, Len(stmts), f)
    BY ComputableUpTo
  <1> DEFINE g == Step(f)
  <1>2. ComputesUpTo(stmts, ctx, Len(stmts) + 1, g)
    BY <1>1, ComputeOne
  <1>3. g = Step(g)
    <2>1. g = [n \in 0..Len(stmts) |-> g[n]]
      OBVIOUS
    <2> HIDE DEF g
    <2>2. \A n \in 0..Len(stmts) : g[n] = (IF n = 0 THEN ctx ELSE Assign(g[n - 1], stmts[n]))
      BY <1>2 DEF ComputesUpTo
    <2> QED
      BY <2>1, <2>2
  <1> HIDE DEF g
  <1> DEFINE after == CHOOSE f_1 : f_1 = Step(f_1)
  <1>4. after = Step(after)
    BY <1>3, Zenon
  <1>5. EvaluateComputeBlock(stmts, ctx) = after[Len(stmts)]
    BY DEF EvaluateComputeBlock
  <1> QED
    BY <1>4, <1>5, Zenon DEF Computes

(* What the statements add is computed from what was known.                *)
LEMMA ComputedFromKnown ==
  ASSUME NEW stmts, Len(stmts) \in Nat, DOMAIN stmts = 1..Len(stmts),
         \A i \in DOMAIN stmts : /\ Len(stmts[i].expr) \in Nat
                                 /\ DOMAIN stmts[i].expr = 1..Len(stmts[i].expr),
         NEW ctx, NEW known, DOMAIN ctx \subseteq known,
         \A i \in DOMAIN stmts : Fields(stmts[i].expr) \subseteq known => stmts[i].var \in known
  PROVE  DOMAIN EvaluateComputeBlock(stmts, ctx) \subseteq known
  <1>1. PICK after : /\ Computes(stmts, ctx, after)
                     /\ EvaluateComputeBlock(stmts, ctx) = after[Len(stmts)]
    BY ComputeSolves
  <1>2. \A n \in 0..Len(stmts) :
           after[n] = (IF n = 0 THEN ctx ELSE Assign(after[n - 1], stmts[n]))
    <2> DEFINE body == [n \in 0..Len(stmts) |->
                           IF n = 0 THEN ctx ELSE Assign(after[n - 1], stmts[n])]
    <2>1. after = body
      BY <1>1 DEF Computes
    <2>2. \A n \in 0..Len(stmts) :
             body[n] = (IF n = 0 THEN ctx ELSE Assign(after[n - 1], stmts[n]))
      OBVIOUS
    <2> HIDE DEF body
    <2> QED
      BY <2>1, <2>2, Zenon
  <1> DEFINE Bad == {n \in 0..Len(stmts) : ~(DOMAIN after[n] \subseteq known)}
  <1>3. Bad = {}
    <2> SUFFICES ASSUME Bad # {}
                 PROVE  FALSE
      OBVIOUS
    <2>1. PICK n \in Bad : \A m \in Bad : ~(m < n)
      <3>1. Bad \in SUBSET Nat
        OBVIOUS
      <3> HIDE DEF Bad
      <3> QED
        BY <3>1, LeastNat
    <2>2. n # 0
      BY <1>2
    <2>3. n - 1 \in 0..Len(stmts) /\ n - 1 < n /\ n \in DOMAIN stmts
      BY <2>2
    <2>4. DOMAIN after[n - 1] \subseteq known
      BY <2>1, <2>3
    <2> DEFINE c == after[n - 1]
               stmt == stmts[n]
               value == EvalExpr(stmt.expr, c)
    <2>5. after[n] = Assign(c, stmt)
      BY <1>2, <2>2, <2>3
    <2>6. Assign(c, stmt) =
             IF value.k = "number"
             THEN [x \in DOMAIN c \cup {stmt.var} |-> IF x = stmt.var THEN value.v ELSE c[x]]
             ELSE c
      BY Zenon DEF Assign
    <2>7. value.k = "number" => stmt.var \in known
      <3> SUFFICES ASSUME value.k = "number"
                   PROVE  Fields(stmt.expr) \subseteq known
        BY <2>3
      <3>1. Len(stmt.expr) \in Nat /\ DOMAIN stmt.expr = 1..Len(stmt.expr)
        BY <2>3
      <3>2. value.k \notin {"error", "unmapped"}
        OBVIOUS
      <3>3. Fields(stmt.expr) \subseteq DOMAIN c
        BY <3>1, <3>2, ValueIsMapped
      <3> QED
        BY <2>4, <3>3
    <2> HIDE DEF c, stmt, value
    <2>8. DOMAIN Assign(c, stmt) \subseteq known
      BY <2>4, <2>6, <2>7 DEF c
    <2> QED
      BY <2>5, <2>8
  <1> QED
    BY <1>1, <1>3

-----------------------------------------------------------------------------
(* The texts of a block are sequences of tokens.                           *)
LEMMA WordsAreTexts ==
  ASSUME NEW words \in Words
  PROVE  Len(words) \in Nat /\ DOMAIN words = 1..Len(words)
  <1> DEFINE T == Token(Seq(Name) \cup {MaxName})
  <1>1. words \in Seq(T)
    BY DEF Words
  <1> HIDE DEF T
  <1> QED
    BY <1>1

LEMMA LastOfKind ==
  ASSUME NEW children \in Seq(Child), NEW kind
  PROVE  LET last == SelectLastInSeq(children, LAMBDA child : child.k = kind)
         IN  last # 0 => children[last] \in Child /\ children[last].k = kind
  <1> DEFINE I == {i \in 1..Len(children) : children[i].k = kind}
             last == SelectLastInSeq(children, LAMBDA child : child.k = kind)
  <1>1. last = IF I # {} THEN Max(I) ELSE 0
    BY Zenon DEF SelectLastInSeq
  <1> SUFFICES ASSUME last # 0
               PROVE  children[last] \in Child /\ children[last].k = kind
    OBVIOUS
  <1>2. I # {} /\ last = Max(I)
    BY <1>1
  <1>3. I \in SUBSET Nat /\ Len(children) \in Nat /\ \A i \in I : i <= Len(children)
    OBVIOUS
  <1>4. Max(I) \in I
    <2> HIDE DEF I
    <2> QED
      BY <1>2, <1>3, GreatestOf
  <1>5. last \in 1..Len(children) /\ children[last].k = kind
    BY <1>2, <1>4
  <1> HIDE DEF last
  <1> QED
    BY <1>5

LEMMA BlockTexts ==
  ASSUME files \in Projects, NEW block \in SatisfyBlocks
  PROVE  /\ block.criteria # Absent => block.criteria \in Words
         /\ block.compute \in Seq([var : Seq(Name), expr : Words])
  <1>1. PICK f \in DOMAIN files : \E i \in DOMAIN files[f].blocks : block = SatisfyBlock(f, i)
    BY DEF SatisfyBlocks
  <1>2. PICK i \in DOMAIN files[f].blocks : block = SatisfyBlock(f, i)
    BY <1>1
  <1> DEFINE children == files[f].blocks[i]
             last(kind) == SelectLastInSeq(children, LAMBDA child : child.k = kind)
             criteria == last("criteria")
             compute == last("compute")
  <1>3. children \in Seq(Child)
    BY <1>1, <1>2, FileTypes
  <1>4. /\ block.criteria = IF criteria = 0 THEN Absent ELSE children[criteria].words
        /\ block.compute = IF compute = 0 THEN << >> ELSE children[compute].stmts
    BY <1>2, Zenon DEF SatisfyBlock, ParseSatisfyBlock
  <1>5. /\ criteria # 0 => children[criteria] \in Child /\ children[criteria].k = "criteria"
        /\ compute # 0 => children[compute] \in Child /\ children[compute].k = "compute"
    BY <1>3, LastOfKind
  <1> HIDE DEF criteria, compute, children
  <1>6. criteria # 0 => children[criteria].words \in Words
    BY <1>5 DEF Child
  <1>7. compute # 0 => children[compute].stmts \in Seq([var : Seq(Name), expr : Words])
    BY <1>5 DEF Child
  <1> QED
    BY <1>4, <1>6, <1>7

LEMMA DecidedFollows ==
  ASSUME VerifyInv
  PROVE  DecidedOnMappedData
  <1> SUFFICES ASSUME ~rewritten, NEW req \in DOMAIN merged.requirements
               PROVE  LET entry == merged.requirements[req]
                          stmts == entry.block.compute
                          mapped == DOMAIN Context(index, entry.block, evidence)
                      IN  entry.row \in {"PASS", "FAIL"} =>
                            \A known \in SUBSET (mapped \cup {stmts[i].var : i \in DOMAIN stmts}) :
                              (/\ mapped \subseteq known
                               /\ \A i \in DOMAIN stmts :
                                     Fields(stmts[i].expr) \subseteq known =>
                                        stmts[i].var \in known) =>
                                Fields(entry.block.criteria) \subseteq known
    BY Zenon DEF DecidedOnMappedData
  <1> DEFINE entry == merged.requirements[req]
             block == entry.block
             stmts == block.compute
             ctx == Context(index, block, evidence)
             after == EvaluateComputeBlock(stmts, ctx)
  <1>0. TypeOK
    BY DEF VerifyInv
  <1>1. PICK f \in DOMAIN reports : /\ req \in DOMAIN reports[f].requirements
                                    /\ entry = reports[f].requirements[req]
    BY DEF VerifyInv, MergedFromReports
  <1>2. entry.row = RowVerdict(index, block, evidence)
    BY <1>1 DEF VerifyInv, AllJudged, Judged
  <1>3. block \in SatisfyBlocks
    <2>1. reports[f] \in Report
      BY <1>0, <1>1 DEF TypeOK
    <2>2. reports[f].requirements \in Table
      BY <2>1 DEF Report
    <2> QED
      BY <1>1, <2>2, TableFacts DEF Entry
  <1>4. /\ block.criteria # Absent => block.criteria \in Words
        /\ stmts \in Seq([var : Seq(Name), expr : Words])
    BY <1>0, <1>3, BlockTexts DEF TypeOK
  <1>5. /\ Len(stmts) \in Nat /\ DOMAIN stmts = 1..Len(stmts)
        /\ \A i \in DOMAIN stmts : /\ Len(stmts[i].expr) \in Nat
                                   /\ DOMAIN stmts[i].expr = 1..Len(stmts[i].expr)
    <2> DEFINE W == Words
               T == [var : Seq(Name), expr : W]
    <2>1. stmts \in Seq(T)
      BY <1>4
    <2> HIDE DEF stmts, W
    <2>2. \A stmt \in T : stmt.expr \in W
      OBVIOUS
    <2> HIDE DEF T
    <2>3. Len(stmts) \in Nat /\ DOMAIN stmts = 1..Len(stmts) /\ \A i \in DOMAIN stmts : stmts[i] \in T
      BY <2>1
    <2> QED
      BY <2>2, <2>3, WordsAreTexts DEF W
  <1> HIDE DEF entry, block, stmts
  <1>6. ASSUME entry.row \in {"PASS", "FAIL"}, NEW known, DOMAIN ctx \subseteq known,
               \A i \in DOMAIN stmts : Fields(stmts[i].expr) \subseteq known => stmts[i].var \in known
        PROVE  Fields(block.criteria) \subseteq known
    <2>1. entry.row = IF block.criteria = Absent THEN "PARTIAL"
                      ELSE CriterionVerdict(block.criteria, after)
      BY <1>2, Zenon DEF RowVerdict, stmts
    <2>2. block.criteria # Absent /\ CriterionVerdict(block.criteria, after) \in {"PASS", "FAIL"}
      <3> HIDE DEF after
      <3> QED
        BY <1>6, <2>1
    <2>3. EvalExpr(block.criteria, after).k = "bool"
      <3> HIDE DEF after
      <3> QED
        BY <2>2 DEF CriterionVerdict
    <2>4. Len(block.criteria) \in Nat /\ DOMAIN block.criteria = 1..Len(block.criteria)
      BY <1>4, <2>2, WordsAreTexts
    <2>5. Fields(block.criteria) \subseteq DOMAIN after
      <3> HIDE DEF after
      <3> QED
        BY <2>3, <2>4, ValueIsMapped
    <2>6. DOMAIN after \subseteq known
      <3> HIDE DEF ctx
      <3> QED
        BY <1>5, <1>6, ComputedFromKnown
    <2> QED
      BY <2>5, <2>6
  <1> QED
    BY <1>6, Zenon DEF entry, block, stmts

(* A requirement is judged on data: every field its criterion names, on    *)
(* either side of every connective, is mapped or computed from what is,    *)
(* for criteria and compute blocks of any length and depth.                *)
THEOREM VerdictsRestOnData == Spec => []DecidedOnMappedData
  BY VerifyInvariant, DecidedFollows, PTL
=============================================================================
