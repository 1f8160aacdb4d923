---------------------------- MODULE SimOrderProofs ----------------------------
(***************************************************************************)
(* Proofs about topological_order, for every finite registry: Kahn's       *)
(* invariant is inductive, the queue implements the abstract order of      *)
(* JobOrder, and the order is refused exactly for a cycle.                 *)
(***************************************************************************)
EXTENDS SimOrder, FiniteSetTheorems, FunctionTheorems, SequenceTheorems, TLAPS

-----------------------------------------------------------------------------
(* Ascending lists a finite set of numbers, each element once.  It needs   *)
(* that ranks are distinct and fill 1..Cardinality(S).                     *)
LEMMA RankIsBijection ==
  ASSUME NEW S \in SUBSET Nat, IsFiniteSet(S)
  PROVE  /\ \A x \in S : Rank(S, x) \in 1..Cardinality(S)
         /\ \A x, y \in S : Rank(S, x) = Rank(S, y) => x = y
         /\ \A i \in 1..Cardinality(S) : \E x \in S : Rank(S, x) = i
  <1> DEFINE Upto(x) == {y \in S : y <= x}
             rank == [x \in S |-> Rank(S, x)]
             n == Cardinality(S)
  <1>1. ASSUME NEW x \in S
        PROVE  IsFiniteSet(Upto(x)) /\ Rank(S, x) \in 1..n
    <2>1. IsFiniteSet(Upto(x)) /\ Cardinality(Upto(x)) <= n
      BY FS_Subset, Upto(x) \in SUBSET S
    <2>2. x \in Upto(x)
      OBVIOUS
    <2>3. Cardinality(Upto(x)) # 0
      BY <2>1, <2>2, FS_EmptySet
    <2>4. n \in Nat /\ Cardinality(Upto(x)) \in Nat
      BY <2>1, FS_CardinalityType
    <2> QED
      BY <2>1, <2>3, <2>4 DEF Rank
  <1>2. ASSUME NEW x \in S, NEW y \in S, x < y
        PROVE  Rank(S, x) # Rank(S, y)
    <2>1. x \in Nat /\ y \in Nat /\ \A z \in S : z \in Nat
      OBVIOUS
    <2>2. Upto(x) \in SUBSET Upto(y)
      <3>1. ASSUME NEW z \in S, z <= x
            PROVE  z <= y
        <4>1. z \in Nat
          OBVIOUS
        <4> QED
          BY <1>2, <2>1, <3>1, <4>1
      <3> QED
        BY <3>1
    <2>3. y \in Upto(y) /\ y \notin Upto(x)
      BY <1>2, <2>1
    <2>4. IsFiniteSet(Upto(y))
      BY <1>1
    <2>5. Cardinality(Upto(x)) # Cardinality(Upto(y))
      BY <2>2, <2>3, <2>4, FS_Subset
    <2> QED
      BY <2>5 DEF Rank
  <1>3. rank \in Injection(S, 1..n)
    <2>1. rank \in [S -> 1..n]
      BY <1>1
    <2>2. ASSUME NEW x \in S, NEW y \in S, rank[x] = rank[y]
          PROVE  x = y
      <3>1. x \in Nat /\ y \in Nat
        OBVIOUS
      <3> QED
        BY <1>2, <2>2, <3>1
    <2> QED
      BY <2>1, <2>2, Fun_IsInj
  <1>4. n \in Nat /\ IsFiniteSet(1..n) /\ Cardinality(1..n) = n
    BY FS_CardinalityType, FS_Interval
  <1>5. rank \in Surjection(S, 1..n)
    BY <1>3, <1>4, FS_Injection
  <1>6. \A x \in S : \A y \in S : rank[x] = rank[y] => x = y
    <2> HIDE DEF rank, n
    <2> QED
      BY <1>3, Fun_InjectionProperties
  <1>7. \A i \in 1..n : \E x \in S : rank[x] = i
    <2> HIDE DEF rank, n
    <2> QED
      BY <1>5, Fun_SurjectionProperties
  <1> QED
    BY <1>1, <1>6, <1>7

LEMMA AscendingLists ==
  ASSUME NEW S \in SUBSET Nat, IsFiniteSet(S)
  PROVE  /\ Ascending(S) \in Seq(S)
         /\ {Ascending(S)[i] : i \in DOMAIN Ascending(S)} = S
         /\ IsInjective(Ascending(S))
  <1> DEFINE n == Cardinality(S)
  <1>1. n \in Nat
    BY FS_CardinalityType
  <1>2. ASSUME NEW i \in 1..n
        PROVE  /\ Ascending(S)[i] \in S
               /\ Rank(S, Ascending(S)[i]) = i
    <2>1. \E x \in S : Rank(S, x) = i
      BY RankIsBijection
    <2> QED
      BY <2>1 DEF Ascending
  <1>3. DOMAIN Ascending(S) = 1..n
    BY DEF Ascending
  <1>4. Ascending(S) \in Seq(S)
    <2>1. Ascending(S) \in [1..n -> S]
      BY <1>2 DEF Ascending
    <2> QED
      BY <1>1, <2>1
  <1>5. ASSUME NEW x \in S
        PROVE  \E i \in 1..n : Ascending(S)[i] = x
    <2>1. Rank(S, x) \in 1..n
      BY RankIsBijection
    <2>2. /\ Ascending(S)[Rank(S, x)] \in S
          /\ Rank(S, Ascending(S)[Rank(S, x)]) = Rank(S, x)
      BY <1>2, <2>1
    <2>3. \A y \in S : Rank(S, y) = Rank(S, x) => y = x
      BY RankIsBijection
    <2> QED
      BY <2>1, <2>2, <2>3
  <1>6. IsInjective(Ascending(S))
    BY <1>2, <1>3 DEF IsInjective
  <1> QED
    BY <1>2, <1>3, <1>4, <1>5, <1>6

-----------------------------------------------------------------------------
(* Elements of a sequence, and what the two sequence steps of the code do  *)
(* to them: take the head, append a list.                                  *)
Elements(seq) == {seq[i] : i \in DOMAIN seq}

LEMMA ElementsOfTail ==
  ASSUME NEW S, NEW seq \in Seq(S), seq # << >>, IsInjective(seq)
  PROVE  /\ Head(seq) \in Elements(seq)
         /\ Elements(Tail(seq)) = Elements(seq) \ {Head(seq)}
  <1>1. /\ Tail(seq) \in Seq(S)
        /\ Len(seq) \in Nat \ {0}
        /\ Len(Tail(seq)) = Len(seq) - 1
        /\ \A i \in 1..Len(Tail(seq)) : Tail(seq)[i] = seq[i + 1]
        /\ Head(seq) = seq[1]
    BY HeadTailProperties, EmptySeq
  <1>2. DOMAIN seq = 1..Len(seq) /\ DOMAIN Tail(seq) = 1..(Len(seq) - 1)
    BY <1>1, LenProperties
  <1>3. ASSUME NEW i \in 1..(Len(seq) - 1)
        PROVE  Tail(seq)[i] \in Elements(seq) \ {Head(seq)}
    BY <1>1, <1>2, <1>3 DEF Elements, IsInjective
  <1>4. ASSUME NEW i \in 1..Len(seq), seq[i] # Head(seq)
        PROVE  seq[i] \in Elements(Tail(seq))
    <2>1. i - 1 \in 1..(Len(seq) - 1) /\ Tail(seq)[i - 1] = seq[i]
      BY <1>1, <1>4
    <2> QED
      BY <1>2, <2>1 DEF Elements
  <1> QED
    BY <1>1, <1>2, <1>3, <1>4 DEF Elements

LEMMA ElementsOfConcat ==
  ASSUME NEW S, NEW s \in Seq(S), NEW t \in Seq(S)
  PROVE  Elements(s \o t) = Elements(s) \cup Elements(t)
  <1>1. /\ Len(s) \in Nat /\ Len(t) \in Nat
        /\ DOMAIN s = 1..Len(s) /\ DOMAIN t = 1..Len(t)
        /\ DOMAIN (s \o t) = 1..(Len(s) + Len(t))
        /\ \A i \in 1..(Len(s) + Len(t)) :
              (s \o t)[i] = IF i <= Len(s) THEN s[i] ELSE t[i - Len(s)]
    BY ConcatProperties, LenProperties
  <1>2. ASSUME NEW i \in 1..(Len(s) + Len(t))
        PROVE  (s \o t)[i] \in Elements(s) \cup Elements(t)
    <2>1. i <= Len(s) \/ i - Len(s) \in 1..Len(t)
      BY <1>1
    <2> QED
      BY <1>1, <2>1 DEF Elements
  <1>3. ASSUME NEW i \in 1..Len(s)
        PROVE  s[i] \in Elements(s \o t)
    BY <1>1 DEF Elements
  <1>4. ASSUME NEW i \in 1..Len(t)
        PROVE  t[i] \in Elements(s \o t)
    <2>1. /\ i + Len(s) \in 1..(Len(s) + Len(t)) /\ ~(i + Len(s) <= Len(s))
          /\ (i + Len(s)) - Len(s) = i
      BY <1>1
    <2> QED
      BY <1>1, <2>1 DEF Elements
  <1> QED
    BY <1>1, <1>2, <1>3, <1>4 DEF Elements

LEMMA InjectiveConcat ==
  ASSUME NEW S, NEW s \in Seq(S), NEW t \in Seq(S),
         IsInjective(s), IsInjective(t), Elements(s) \cap Elements(t) = {}
  PROVE  IsInjective(s \o t)
  <1>1. /\ Len(s) \in Nat /\ Len(t) \in Nat
        /\ DOMAIN s = 1..Len(s) /\ DOMAIN t = 1..Len(t)
        /\ DOMAIN (s \o t) = 1..(Len(s) + Len(t))
        /\ \A i \in 1..(Len(s) + Len(t)) :
              (s \o t)[i] = IF i <= Len(s) THEN s[i] ELSE t[i - Len(s)]
    BY ConcatProperties, LenProperties
  <1> SUFFICES ASSUME NEW i \in 1..(Len(s) + Len(t)), NEW j \in 1..(Len(s) + Len(t)),
                      (s \o t)[i] = (s \o t)[j]
               PROVE  i = j
    BY <1>1 DEF IsInjective
  <1>2. CASE i <= Len(s) /\ j <= Len(s)
    BY <1>1, <1>2 DEF IsInjective
  <1>3. CASE ~(i <= Len(s)) /\ ~(j <= Len(s))
    <2>1. i - Len(s) \in 1..Len(t) /\ j - Len(s) \in 1..Len(t)
      BY <1>1, <1>3
    <2>2. i - Len(s) = j - Len(s)
      BY <1>1, <1>3, <2>1 DEF IsInjective
    <2> QED
      BY <1>1, <2>2
  <1>4. CASE i <= Len(s) /\ ~(j <= Len(s))
    <2>1. i \in 1..Len(s) /\ j - Len(s) \in 1..Len(t)
      BY <1>1, <1>4
    <2> QED
      BY <1>1, <1>4, <2>1 DEF Elements
  <1>5. CASE ~(i <= Len(s)) /\ j <= Len(s)
    <2>1. j \in 1..Len(s) /\ i - Len(s) \in 1..Len(t)
      BY <1>1, <1>5
    <2> QED
      BY <1>1, <1>5, <2>1 DEF Elements
  <1> QED
    BY <1>2, <1>3, <1>4, <1>5

(* Moving the head of one sequence to the end of another one before it.    *)
LEMMA MoveHead ==
  ASSUME NEW S, NEW p \in Seq(S), NEW q \in Seq(S), NEW a \in Seq(S), q # << >>
  PROVE  Append(p, Head(q)) \o (Tail(q) \o a) = (p \o q) \o a
  <1>1. Head(q) \in S /\ Tail(q) \in Seq(S) /\ q = <<Head(q)>> \o Tail(q)
    BY HeadTailProperties
  <1>2. ASSUME NEW e \in S, NEW t \in Seq(S), q = <<e>> \o t
        PROVE  Append(p, e) \o (t \o a) = (p \o q) \o a
    <2>1. Append(p, e) = p \o <<e>> /\ <<e>> \in Seq(S)
      BY AppendIsConcat
    <2>2. ASSUME NEW h \in Seq(S)
          PROVE  (p \o h) \o (t \o a) = (p \o (h \o t)) \o a
      BY SMT
    <2> QED
      BY <1>2, <2>1, <2>2
  <1> QED
    BY <1>1, <1>2

LEMMA MovedStaysInjective ==
  ASSUME NEW S, NEW p \in Seq(S), NEW q \in Seq(S), NEW a \in Seq(S), q # << >>,
         IsInjective(p \o q), IsInjective(a),
         (Elements(p) \cup Elements(q)) \cap Elements(a) = {}
  PROVE  IsInjective(Append(p, Head(q)) \o (Tail(q) \o a))
  <1>1. p \o q \in Seq(S) /\ Elements(p \o q) = Elements(p) \cup Elements(q)
    BY ConcatProperties, ElementsOfConcat
  <1>2. IsInjective((p \o q) \o a)
    BY <1>1, InjectiveConcat
  <1>3. Append(p, Head(q)) \o (Tail(q) \o a) = (p \o q) \o a
    BY MoveHead
  <1> QED
    BY <1>2, <1>3

LEMMA ElementsOfAppend ==
  ASSUME NEW S, NEW seq \in Seq(S), NEW e \in S
  PROVE  Append(seq, e) \in Seq(S) /\ Elements(Append(seq, e)) = Elements(seq) \cup {e}
  <1>1. Append(seq, e) = seq \o <<e>> /\ <<e>> \in Seq(S)
    BY AppendIsConcat
  <1>2. Elements(<<e>>) = {e}
    BY DEF Elements
  <1>3. Elements(seq \o <<e>>) = Elements(seq) \cup Elements(<<e>>)
    BY <1>1, ElementsOfConcat
  <1> QED
    BY <1>1, <1>2, <1>3, AppendProperties

-----------------------------------------------------------------------------
(* Edges run between simulations, and there are finitely many: a triple is *)
(* the image of a pair of a pair and a cause.                              *)
Triples == Sim \X Sim \X (ModelPath \cup {"depends_on"})

LEMMA EdgesAreTriples ==
  /\ EdgeSet \subseteq Triples
  /\ \A s : \A edge \in Into(s) : edge[1] \in Sim
  BY DEF EdgeSet, InferredEdges, ExplicitEdges, Triples, Into

LEMMA EdgesAreFinite ==
  \A s : IsFiniteSet(Into(s)) /\ \A E \in SUBSET Into(s) : IsFiniteSet(E)
  <1> DEFINE cause == ModelPath \cup {"depends_on"}
             pairs == (Sim \X Sim) \X cause
             flat == [p \in pairs |-> <<p[1][1], p[1][2], p[2]>>]
  <1>1. IsFiniteSet(cause)
    BY PathAssumption, FS_AddElement
  <1>2. IsFiniteSet(Sim \X Sim)
    BY SimAssumption, FS_Product
  <1>3. IsFiniteSet(pairs)
    BY <1>1, <1>2, FS_Product
  <1>4. flat \in Surjection(pairs, Triples)
    <2>1. flat \in [pairs -> Triples]
      BY DEF Triples
    <2>2. ASSUME NEW t \in Triples
          PROVE  \E p \in pairs : flat[p] = t
      <3>1. <<<<t[1], t[2]>>, t[3]>> \in pairs /\ flat[<<<<t[1], t[2]>>, t[3]>>] = t
        BY DEF Triples
      <3> QED
        BY <3>1
    <2> QED
      BY <2>1, <2>2, Fun_IsSurj
  <1>5. IsFiniteSet(Triples)
    BY <1>3, <1>4, FS_Surjection
  <1>6. \A E \in SUBSET Triples : IsFiniteSet(E)
    BY <1>5, FS_Subset
  <1> QED
    BY <1>6, EdgesAreTriples DEF Into

-----------------------------------------------------------------------------
(* Simulations that wait for each other.                                   *)
WaitingSet(S) == \A s \in S : \E edge \in Into(s) : edge[1] \in S

(* The edges into s that still hold it back.                               *)
Pending(s) == {edge \in Into(s) : edge[1] \notin Ordered}

(* The inductive invariant: besides the degrees and the queue, that a      *)
(* verdict is given with an empty queue and says whether everything was    *)
(* ordered, and that no member of a waiting set ever was.                  *)
OrderIInv ==
    /\ TypeOK
    /\ KahnInv
    /\ result # "none" => queue = << >> /\ (result = "order" <=> Ordered = Sim)
    /\ \A S \in SUBSET Sim : WaitingSet(S) => S \cap Ordered = {}

(* Cardinality of the pending edges, as KahnInv has it.                    *)
LEMMA PendingCount ==
  ASSUME OrderIInv
  PROVE  \A s \in Sim : /\ in_degree[s] = Cardinality(Pending(s))
                        /\ in_degree[s] = 0 <=> Pending(s) = {}
  <1> SUFFICES ASSUME NEW s \in Sim
               PROVE  /\ in_degree[s] = Cardinality(Pending(s))
                      /\ in_degree[s] = 0 <=> Pending(s) = {}
    OBVIOUS
  <1>1. in_degree[s] = Cardinality(Pending(s))
    BY DEF OrderIInv, KahnInv, Pending
  <1>2. IsFiniteSet(Pending(s))
    BY EdgesAreFinite DEF Pending
  <1> QED
    BY <1>1, <1>2, FS_EmptySet

(* The initial queue holds the simulations without edges.                  *)
LEMMA InitOrderIInv == Init => OrderIInv
  <1> SUFFICES ASSUME Init PROVE OrderIInv
    OBVIOUS
  <1> USE DEF Init, Start
  <1> DEFINE free == {s \in Sim : Into(s) = {}}
  <1>1. free \in SUBSET Nat /\ IsFiniteSet(free) /\ free \in SUBSET Sim
    BY SimAssumption, FS_Subset
  <1>2. /\ queue \in Seq(free)
        /\ Queued = free
        /\ IsInjective(queue)
    <2>1. queue = Ascending(free)
      OBVIOUS
    <2>2. /\ Ascending(free) \in Seq(free)
          /\ {Ascending(free)[i] : i \in DOMAIN Ascending(free)} = free
          /\ IsInjective(Ascending(free))
      <3> HIDE DEF free, Init
      <3> QED
        BY <1>1, AscendingLists
    <2> QED
      BY <2>1, <2>2 DEF Queued
  <1>3. queue \in Seq(Sim)
    BY <1>1, <1>2, SeqMonotonic
  <1>4. \A s \in Sim : IsFiniteSet(Into(s)) /\ Cardinality(Into(s)) \in Nat
    BY EdgesAreFinite, FS_CardinalityType
  <1>5. TypeOK
    BY <1>3, <1>4, EmptySeq DEF TypeOK
  <1>6. Ordered = {}
    BY DEF Ordered
  <1>7. KahnInv
    <2>1. \A s \in Sim : {edge \in Into(s) : edge[1] \notin Ordered} = Into(s)
      BY <1>6
    <2>2. \A s \in Sim : in_degree[s] = 0 <=> Into(s) = {}
      BY <1>4, FS_EmptySet
    <2>3. order \o queue = queue
      BY <1>3, ConcatEmptySeq
    <2> QED
      BY <1>2, <1>6, <2>1, <2>2, <2>3 DEF KahnInv
  <1> QED
    BY <1>5, <1>6, <1>7 DEF OrderIInv

-----------------------------------------------------------------------------
(* What popping does, in terms of sets.                                    *)
LEMMA PopFacts ==
  ASSUME OrderIInv, PopReady
  PROVE  /\ Head(queue) \in Sim \ Ordered
         /\ Head(queue) \in Queued
         /\ Pending(Head(queue)) = {}
         /\ Ordered' = Ordered \cup {Head(queue)}
         /\ order' \in Seq(Sim)
         /\ \A s : Into(s)' = Into(s)
         /\ \A s \in Sim : /\ From(Head(queue)) \cap Into(s) \in SUBSET Pending(s)
                           /\ Pending(s)' = Pending(s) \ (From(Head(queue)) \cap Into(s))
  <1> DEFINE node == Head(queue)
  <1>1. queue \in Seq(Sim) /\ order \in Seq(Sim) /\ queue # << >>
    BY DEF OrderIInv, TypeOK, PopReady
  <1>2. node \in Sim
    BY <1>1, HeadTailProperties
  <1>3. node \in Queued
    BY <1>1, EmptySeq, HeadTailProperties, LenProperties DEF Queued
  <1>4. node \notin Ordered
    BY <1>3 DEF OrderIInv, KahnInv
  <1>5. Pending(node) = {}
    BY <1>2, <1>3, PendingCount DEF OrderIInv, KahnInv
  <1>6. order' = Append(order, node) /\ registry' = registry
    BY DEF PopReady
  <1>7. order' \in Seq(Sim) /\ Ordered' = Ordered \cup {node}
    <2>1. Ordered = Elements(order) /\ Ordered' = Elements(order')
      BY DEF Ordered, Elements
    <2> QED
      BY <1>1, <1>2, <1>6, <2>1, ElementsOfAppend
  <1>8. \A s : Into(s)' = Into(s)
    BY <1>6 DEF Into, EdgeSet, InferredEdges, ExplicitEdges, Producers
  <1>9. ASSUME NEW s \in Sim
        PROVE  /\ From(node) \cap Into(s) \in SUBSET Pending(s)
               /\ Pending(s)' = Pending(s) \ (From(node) \cap Into(s))
    <2>1. \A edge \in Into(s) : edge \in From(node) <=> edge[1] = node
      BY DEF From, Into
    <2> QED
      BY <1>4, <1>7, <1>8, <2>1 DEF Pending
  <1> QED
    BY <1>2, <1>3, <1>4, <1>5, <1>7, <1>8, <1>9

(* Popping preserves the invariant: degrees fall by the edges taken away,  *)
(* and what they release was neither queued nor ordered.                   *)
LEMMA PopPreserves ==
  ASSUME OrderIInv, PopReady
  PROVE  OrderIInv'
  <1> DEFINE node == Head(queue)
             cut(s) == From(node) \cap Into(s)
             ready == {s \in Sim : cut(s) # {} /\ in_degree'[s] = 0}
  <1>1. /\ node \in Sim \ Ordered /\ node \in Queued /\ Pending(node) = {}
        /\ Ordered' = Ordered \cup {node}
        /\ order' \in Seq(Sim)
        /\ \A s : Into(s)' = Into(s)
        /\ \A s \in Sim : cut(s) \in SUBSET Pending(s) /\ Pending(s)' = Pending(s) \ cut(s)
    BY PopFacts
  <1>2. /\ queue \in Seq(Sim) /\ order \in Seq(Sim) /\ queue # << >>
        /\ in_degree \in [Sim -> Nat]
        /\ registry' = registry /\ registry \in [Sim -> SimEntry] /\ result' = result
        /\ result = "none"
    BY DEF OrderIInv, TypeOK, PopReady
  <1>3. /\ in_degree' = [s \in Sim |-> in_degree[s] - Cardinality(cut(s))]
        /\ order' = Append(order, node)
        /\ queue' = Tail(queue) \o Ascending(ready)
    BY DEF PopReady
  <1>4. ASSUME NEW s \in Sim
        PROVE  /\ in_degree'[s] = Cardinality(Pending(s)')
               /\ in_degree'[s] \in Nat
               /\ in_degree'[s] = 0 <=> Pending(s)' = {}
    <2>1. IsFiniteSet(Pending(s))
      BY EdgesAreFinite DEF Pending
    <2>2. Pending(s) \cap cut(s) = cut(s)
      BY <1>1
    <2>3. /\ IsFiniteSet(Pending(s) \ cut(s))
          /\ Cardinality(Pending(s) \ cut(s)) = Cardinality(Pending(s)) - Cardinality(cut(s))
      BY <2>1, <2>2, FS_Difference
    <2>4. in_degree'[s] = Cardinality(Pending(s) \ cut(s))
      BY <1>3, <2>3, PendingCount
    <2>5. /\ Cardinality(Pending(s) \ cut(s)) \in Nat
          /\ Cardinality(Pending(s) \ cut(s)) = 0 <=> Pending(s) \ cut(s) = {}
      BY <2>3, FS_CardinalityType, FS_EmptySet
    <2> QED
      BY <1>1, <2>4, <2>5
  <1>5. ready \in SUBSET Sim /\ ready \in SUBSET Nat /\ IsFiniteSet(ready)
    BY SimAssumption, FS_Subset
  <1>6. /\ Ascending(ready) \in Seq(Sim)
        /\ Elements(Ascending(ready)) = ready
        /\ IsInjective(Ascending(ready))
    BY <1>5, AscendingLists, SeqMonotonic DEF Elements
  <1>7. ready \cap (Queued \cup Ordered) = {}
    BY <1>1, PendingCount DEF OrderIInv, KahnInv
  <1>8. Tail(queue) \in Seq(Sim)
    BY <1>2, HeadTailProperties
  <1>9. IsInjective(order \o queue)
    BY DEF OrderIInv, KahnInv
  <1>10. Ordered = Elements(order) /\ Queued = Elements(queue)
    BY DEF Elements, Ordered, Queued
  <1>11. IsInjective(order' \o queue')
    <2>1. ASSUME NEW a \in Seq(Sim), IsInjective(a), (Ordered \cup Queued) \cap Elements(a) = {}
          PROVE  IsInjective(Append(order, node) \o (Tail(queue) \o a))
      BY <1>2, <1>9, <1>10, <2>1, MovedStaysInjective
    <2>2. (Ordered \cup Queued) \cap Elements(Ascending(ready)) = {}
      BY <1>6, <1>7
    <2>3. Ascending(ready) \in Seq(Sim) /\ IsInjective(Ascending(ready))
      BY <1>6
    <2> HIDE DEF ready
    <2> QED
      BY <1>3, <2>1, <2>2, <2>3, Zenon
  <1>12. Queued' = (Queued \ {node}) \cup ready
    <2>1. IsInjective(queue)
      <3>1. /\ Len(order) \in Nat /\ Len(queue) \in Nat
            /\ DOMAIN queue = 1..Len(queue)
            /\ DOMAIN (order \o queue) = 1..(Len(order) + Len(queue))
            /\ \A i \in 1..Len(queue) : (order \o queue)[Len(order) + i] = queue[i]
        BY <1>2, LenProperties, ConcatProperties
      <3> SUFFICES ASSUME NEW i \in 1..Len(queue), NEW j \in 1..Len(queue),
                          queue[i] = queue[j]
                   PROVE  i = j
        BY <3>1 DEF IsInjective
      <3>2. /\ Len(order) + i \in DOMAIN (order \o queue)
            /\ Len(order) + j \in DOMAIN (order \o queue)
            /\ (order \o queue)[Len(order) + i] = (order \o queue)[Len(order) + j]
        BY <3>1
      <3>3. Len(order) + i = Len(order) + j
        BY <1>9, <3>2 DEF IsInjective
      <3> QED
        BY <3>1, <3>3
    <2>2. Elements(Tail(queue)) = Elements(queue) \ {node}
      BY <1>2, <2>1, ElementsOfTail
    <2>3. Elements(queue') = Elements(Tail(queue)) \cup ready
      <3>1. ASSUME NEW a \in Seq(Sim)
            PROVE  Elements(Tail(queue) \o a) = Elements(Tail(queue)) \cup Elements(a)
        BY <1>8, ElementsOfConcat
      <3>2. Ascending(ready) \in Seq(Sim) /\ Elements(Ascending(ready)) = ready
        BY <1>6
      <3> HIDE DEF ready
      <3> QED
        BY <1>3, <3>1, <3>2, Zenon
    <2> QED
      BY <2>2, <2>3 DEF Queued, Elements
  <1>13. TypeOK'
    <2>1. in_degree' \in [Sim -> Nat]
      BY <1>3, <1>4
    <2>2. queue' \in Seq(Sim)
      BY <1>3, <1>6, <1>8, ConcatProperties
    <2> QED
      BY <1>1, <1>2, <2>1, <2>2 DEF TypeOK
  <1>14. KahnInv'
    <2>1. \A s \in Sim : in_degree'[s] = Cardinality({edge \in Into(s)' : edge[1] \notin Ordered'})
      BY <1>4 DEF Pending
    <2>2. Queued' \cap Ordered' = {}
      BY <1>1, <1>7, <1>12 DEF OrderIInv, KahnInv
    <2>3. ASSUME NEW s \in Sim
          PROVE  s \in Queued' \cup Ordered' <=> in_degree'[s] = 0
      <3>1. s \in Queued \cup Ordered <=> Pending(s) = {}
        BY PendingCount DEF OrderIInv, KahnInv
      <3>2. s \in Queued' \cup Ordered' <=> s \in Queued \cup Ordered \/ s \in ready
        BY <1>1, <1>12
      <3> QED
        BY <1>1, <1>4, <3>1, <3>2
    <2>4. Queued' \cup Ordered' \subseteq Sim
      BY <1>1, <1>5, <1>12 DEF OrderIInv, KahnInv
    <2>5. Queued' \cup Ordered' = {s \in Sim : in_degree'[s] = 0}
      BY <2>3, <2>4
    <2> QED
      BY <1>11, <2>1, <2>2, <2>5 DEF KahnInv
  <1>15. ASSUME NEW S \in SUBSET Sim, WaitingSet(S)'
         PROVE  S \cap Ordered' = {}
    <2>1. WaitingSet(S)
      BY <1>1, <1>15 DEF WaitingSet
    <2>2. S \cap Ordered = {}
      BY <2>1 DEF OrderIInv
    <2>3. node \notin S
      BY <1>1, <2>1, <2>2 DEF WaitingSet, Pending
    <2> QED
      BY <1>1, <2>2, <2>3
  <1> QED
    BY <1>2, <1>13, <1>14, <1>15 DEF OrderIInv

-----------------------------------------------------------------------------
(* The length of the order says whether everything is in it.               *)
LEMMA OrderIsComplete ==
  ASSUME OrderIInv
  PROVE  Len(order) < Cardinality(Sim) <=> Ordered # Sim
  <1> DEFINE n == Len(order)
  <1>1. /\ order \in Seq(Sim) /\ queue \in Seq(Sim)
        /\ n \in Nat /\ DOMAIN order = 1..n /\ order \in [1..n -> Sim]
    BY LenProperties DEF OrderIInv, TypeOK
  <1>2. IsInjective(order)
    <2>1. /\ Len(queue) \in Nat
          /\ DOMAIN (order \o queue) = 1..(n + Len(queue))
          /\ \A i \in 1..n : (order \o queue)[i] = order[i]
      BY <1>1, LenProperties, ConcatProperties
    <2>2. \A i \in 1..n : i \in 1..(n + Len(queue))
      BY <1>1, <2>1
    <2> QED
      BY <1>1, <2>1, <2>2 DEF IsInjective, OrderIInv, KahnInv
  <1>3. order \in Injection(1..n, Sim)
    BY <1>1, <1>2, Fun_IsInj DEF IsInjective
  <1>4. IsFiniteSet(1..n) /\ Cardinality(1..n) = n
    <2> HIDE DEF n
    <2>1. IsFiniteSet(1..n) /\ Cardinality(1..n) = IF 1 > n THEN 0 ELSE n - 1 + 1
      BY <1>1, FS_Interval
    <2> QED
      BY <1>1, <2>1
  <1>5. n <= Cardinality(Sim) /\ (n = Cardinality(Sim) <=> order \in Surjection(1..n, Sim))
    BY <1>3, <1>4, SimAssumption, FS_Injection
  <1>6. order \in Surjection(1..n, Sim) <=> Ordered = Sim
    <2>1. ASSUME order \in Surjection(1..n, Sim)
          PROVE  Ordered = Sim
      <3>1. \A s \in Sim : \E i \in 1..n : order[i] = s
        BY <2>1, Fun_SurjectionProperties
      <3> QED
        BY <1>1, <3>1 DEF Ordered
    <2>2. ASSUME Ordered = Sim
          PROVE  order \in Surjection(1..n, Sim)
      <3>1. \A s \in Sim : \E i \in 1..n : order[i] = s
        BY <1>1, <2>2 DEF Ordered
      <3> QED
        BY <1>1, <3>1, Fun_IsSurj
    <2> QED
      BY <2>1, <2>2
  <1>7. Cardinality(Sim) \in Nat
    BY SimAssumption, FS_CardinalityType
  <1> QED
    BY <1>1, <1>5, <1>6, <1>7

LEMMA DecidePreserves ==
  ASSUME OrderIInv, Decide
  PROVE  OrderIInv'
  <1>1. /\ queue = << >>
        /\ result' \in {"cycle", "order"}
        /\ result' = "order" <=> ~(Len(order) < Cardinality(Sim))
        /\ UNCHANGED <<registry, in_degree, queue, order>>
    BY DEF Decide
  <1>2. Ordered' = Ordered /\ Queued' = Queued /\ \A s : Into(s)' = Into(s)
    BY <1>1 DEF Ordered, Queued, Into, EdgeSet, InferredEdges, ExplicitEdges, Producers
  <1>3. TypeOK'
    BY <1>1 DEF OrderIInv, TypeOK
  <1>4. KahnInv'
    BY <1>1, <1>2 DEF OrderIInv, KahnInv
  <1>5. result' = "order" <=> Ordered' = Sim
    BY <1>1, <1>2, OrderIsComplete
  <1>6. \A S \in SUBSET Sim : WaitingSet(S)' => S \cap Ordered' = {}
    BY <1>2 DEF OrderIInv, WaitingSet
  <1> QED
    BY <1>1, <1>3, <1>4, <1>5, <1>6 DEF OrderIInv

LEMMA StutterPreserves ==
  ASSUME OrderIInv, UNCHANGED vars
  PROVE  OrderIInv'
  <1>1. UNCHANGED <<registry, in_degree, queue, order, result>>
    BY DEF vars
  <1>2. Ordered' = Ordered /\ Queued' = Queued /\ \A s : Into(s)' = Into(s)
    BY <1>1 DEF Ordered, Queued, Into, EdgeSet, InferredEdges, ExplicitEdges, Producers
  <1>3. TypeOK'
    BY <1>1 DEF OrderIInv, TypeOK
  <1>4. KahnInv'
    BY <1>1, <1>2 DEF OrderIInv, KahnInv
  <1>5. \A S \in SUBSET Sim : WaitingSet(S)' => S \cap Ordered' = {}
    BY <1>2 DEF OrderIInv, WaitingSet
  <1> QED
    BY <1>1, <1>2, <1>3, <1>4, <1>5 DEF OrderIInv

(* The invariant holds throughout.                                         *)
THEOREM OrderInvariant == Spec => []OrderIInv
  <1>1. OrderIInv /\ [Next]_vars => OrderIInv'
    BY PopPreserves, DecidePreserves, StutterPreserves DEF Next
  <1> QED
    BY InitOrderIInv, <1>1, PTL DEF Spec

(* Types, in particular that no in-degree is ever negative: the usize of   *)
(* the code never wraps.                                                   *)
THEOREM OrderTypeCorrect == Spec => []TypeOK
  <1>1. OrderIInv => TypeOK
    BY DEF OrderIInv
  <1> QED
    BY OrderInvariant, <1>1, PTL

(* Each in-degree counts the edges from simulations not yet ordered, and   *)
(* the queue holds exactly the simulations that have none left.            *)
THEOREM KahnCorrect == Spec => []KahnInv
  <1>1. OrderIInv => KahnInv
    BY DEF OrderIInv
  <1> QED
    BY OrderInvariant, <1>1, PTL

(* topological_order reports a cycle exactly when there is one.            *)
THEOREM CyclesAreReal == Spec => []CycleIsReal
  <1>1. OrderIInv => CycleIsReal
    <2> SUFFICES ASSUME OrderIInv, result # "none"
                 PROVE  result = "cycle" <=> Deadlocked
      BY DEF CycleIsReal
    <2>1. /\ result \in {"order", "cycle"}
          /\ queue = << >>
          /\ result = "order" <=> Ordered = Sim
      BY DEF OrderIInv, TypeOK
    <2>2. ASSUME result = "cycle"
          PROVE  Deadlocked
      <3> DEFINE S == Sim \ Ordered
      <3>1. Ordered \subseteq Sim /\ Queued = {}
        BY <2>1 DEF OrderIInv, KahnInv, Queued
      <3>2. S # {}
        BY <2>1, <2>2, <3>1
      <3>3. ASSUME NEW s \in S
            PROVE  \E edge \in Into(s) : edge[1] \in S
        <4>1. Pending(s) # {}
          BY <3>1, PendingCount DEF OrderIInv, KahnInv
        <4> QED
          BY <4>1, EdgesAreTriples DEF Pending
      <3> QED
        BY <3>2, <3>3 DEF Deadlocked
    <2>3. ASSUME Deadlocked
          PROVE  result = "cycle"
      <3>1. PICK S \in (SUBSET Sim) \ {{}} : WaitingSet(S)
        BY <2>3 DEF Deadlocked, WaitingSet
      <3>2. S \cap Ordered = {}
        BY <3>1 DEF OrderIInv
      <3> QED
        BY <2>1, <3>1, <3>2
    <2> QED
      BY <2>2, <2>3
  <1> QED
    BY OrderInvariant, <1>1, PTL

-----------------------------------------------------------------------------
(* The refinement: popping takes a job that is ready, the verdict falls    *)
(* when none is.                                                           *)
Needed(s) == {edge[1] : edge \in Into(s)}

LEMMA ReadyMeansNotPending ==
  ASSUME NEW s \in Sim
  PROVE  Pending(s) = {} <=> Needed(s) \subseteq Ordered
  BY DEF Pending, Needed

THEOREM OrderImplementsJobOrder == Spec => ImplementsJobOrder
  <1> DEFINE needs == [s \in Sim |-> Needed(s)]
  <1>1. Init => Jobs!Init
    <2> SUFFICES ASSUME Init PROVE Jobs!Init
      OBVIOUS
    <2>1. needs \in [Sim -> SUBSET Sim]
      BY EdgesAreTriples DEF Needed
    <2>2. Ordered = {} /\ result = "none"
      BY DEF Init, Start, Ordered
    <2> QED
      BY <2>1, <2>2 DEF Jobs!Init, Needed
  <1>2. OrderIInv /\ [Next]_vars => [Jobs!Next]_(Jobs!vars)
    <2> SUFFICES ASSUME OrderIInv, [Next]_vars
                 PROVE  Jobs!Next \/ UNCHANGED Jobs!vars
      OBVIOUS
    <2>1. CASE PopReady
      <3> DEFINE node == Head(queue)
      <3>1. /\ node \in Sim \ Ordered
            /\ Pending(node) = {}
            /\ Ordered' = Ordered \cup {node}
            /\ \A s : Into(s)' = Into(s)
        BY <2>1, PopFacts
      <3>2. result = "none" /\ result' = "none"
        BY <2>1 DEF PopReady, OrderIInv
      <3>3. needs[node] \subseteq Ordered
        BY <3>1, ReadyMeansNotPending
      <3>4. needs' = needs
        BY <3>1 DEF Needed
      <3>5. Jobs!Take(node)
        BY <3>1, <3>2, <3>3, <3>4 DEF Jobs!Take, Jobs!Ready, Needed
      <3> QED
        BY <3>1, <3>5 DEF Jobs!Next
    <2>2. CASE Decide
      <3>1. /\ queue = << >> /\ result = "none"
            /\ result' = IF Len(order) < Cardinality(Sim) THEN "cycle" ELSE "order"
            /\ UNCHANGED <<registry, in_degree, queue, order>>
        BY <2>2 DEF Decide
      <3>2. result' = IF Ordered = Sim THEN "order" ELSE "cycle"
        BY <3>1, OrderIsComplete
      <3>3. Ordered' = Ordered /\ \A s : Into(s)' = Into(s)
        BY <3>1 DEF Ordered, Into, EdgeSet, InferredEdges, ExplicitEdges, Producers
      <3>4. needs' = needs
        BY <3>3 DEF Needed
      <3>5. ASSUME NEW s \in Sim \ Ordered, needs[s] \subseteq Ordered
            PROVE  FALSE
        <4>1. in_degree[s] = 0
          BY <3>5, ReadyMeansNotPending, PendingCount
        <4>2. Queued = {}
          BY <3>1 DEF Queued
        <4> QED
          BY <3>5, <4>1, <4>2 DEF OrderIInv, KahnInv
      <3>6. Jobs!Conclude
        BY <3>1, <3>2, <3>3, <3>4, <3>5 DEF Jobs!Conclude, Jobs!Ready, Needed
      <3> QED
        BY <3>6 DEF Jobs!Next
    <2>3. CASE UNCHANGED vars
      BY <2>3 DEF vars, Jobs!vars, Ordered, Into, EdgeSet, InferredEdges, ExplicitEdges, Producers
    <2> QED
      BY <2>1, <2>2, <2>3 DEF Next
  <1> QED
    BY OrderInvariant, <1>1, <1>2, PTL DEF Spec, ImplementsJobOrder, Jobs!Spec
=============================================================================
