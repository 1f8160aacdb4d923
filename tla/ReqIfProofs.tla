----------------------------- MODULE ReqIfProofs -----------------------------
(***************************************************************************)
(* Proofs about the ReqIF export, for every set of files and whatever they *)
(* declare, with edits and kills between any two steps of a build.         *)
(***************************************************************************)
EXTENDS ReqIf, FiniteSetTheorems, TLAPS

Stages == {"none", "read", "merge", "emit", "gate", "write", "ok", "user", "internal", "killed"}

(* The files a loop that is at its n-th file has behind it.                *)
Done(n) == {FileOrder[i] : i \in 1..(n - 1)}

(* Of the first n files, the elements no later one of them declares again. *)
Kept(from, n) ==
    UNION {{e \in Facts[from[FileOrder[i]]].elements :
               \A j \in (i + 1)..n : e.id \notin Ids(from[FileOrder[j]])} : i \in 1..n}

Joined(from, n) == UNION {Facts[from[FileOrder[i]]].edges : i \in 1..n}

BuildTypes ==
    /\ text \in [File -> Version]
    /\ build = [stage |-> build.stage, next |-> build.next]
    /\ build.stage \in Stages /\ build.next \in 1..Len(FileOrder)
    /\ \A f \in DOMAIN cache : cache[f] \in Version
    /\ \A f \in DOMAIN used : used[f] \in Version

(* A table that maps the id of every one of these elements to it.          *)
TableOf(table, elements) ==
    /\ DOMAIN table = {e.id : e \in elements}
    /\ \A e \in elements : table[e.id] = e

(* What the loop over the planned files has merged of the first n.         *)
Merged(n) ==
    /\ errors => \E f \in DOMAIN used : HasErrors(f, used[f], cache)
    /\ ~errors => TableOf(merged, Kept(used, n)) /\ edges = Joined(used, n)

(* A build looks at every file once, merges what it has read, and writes   *)
(* the document of all of it when it has passed the gate.                  *)
BuildSoFar ==
    /\ build.stage = "read" => used = <<>> /\ merged = <<>> /\ edges = {} /\ ~errors
    /\ build.stage = "merge" => DOMAIN used = Done(build.next) /\ Merged(build.next - 1)
    /\ build.stage \in {"emit", "gate", "write"} => DOMAIN used = File /\ Merged(Len(FileOrder))
    /\ build.stage \in {"gate", "write"} => doc = Emit(merged, edges) /\ ~errors
    /\ build.stage = "write" => Violations(doc) = {}

-----------------------------------------------------------------------------
LEMMA FilesInOrder ==
  /\ Len(FileOrder) \in Nat /\ 1 \in 1..Len(FileOrder)
  /\ Done(1) = {} /\ Done(Len(FileOrder) + 1) = File
  /\ \A n \in 1..Len(FileOrder) :
        /\ FileOrder[n] \in File /\ FileOrder[n] \notin Done(n)
        /\ Done(n + 1) = Done(n) \cup {FileOrder[n]}
  <1>1. /\ Len(FileOrder) \in Nat /\ DOMAIN FileOrder = 1..Len(FileOrder) /\ Len(FileOrder) # 0
        /\ File = {FileOrder[i] : i \in 1..Len(FileOrder)}
    BY FactsAssumption DEF File, ToSet
  <1>2. \A n \in 1..Len(FileOrder) : (1..((n + 1) - 1)) = (1..(n - 1)) \cup {n}
    BY <1>1
  <1>3. \A n \in 1..Len(FileOrder) : FileOrder[n] \notin Done(n)
    <2>1. \A i, j \in 1..Len(FileOrder) : FileOrder[i] = FileOrder[j] => i = j
      BY <1>1, FactsAssumption
    <2> QED
      BY <1>1, <2>1 DEF Done
  <1> QED
    BY <1>1, <1>2, <1>3 DEF Done

LEMMA ElementsById ==
  ASSUME NEW v \in Version, ~Facts[v].errors, NEW e \in Facts[v].elements
  PROVE  (CHOOSE d \in Facts[v].elements : d.id = e.id) = e
  BY FactsAssumption

LEMMA KeptIff ==
  ASSUME NEW from, NEW n, NEW e
  PROVE  e \in Kept(from, n) <=>
            \E i \in 1..n :
               /\ e \in Facts[from[FileOrder[i]]].elements
               /\ \A j \in (i + 1)..n : e.id \notin Ids(from[FileOrder[j]])
  BY DEF Kept

(* One more file keeps its own elements and, of those before, the ones     *)
(* whose ids it does not have.                                             *)
LEMMA OneMoreFile ==
  ASSUME NEW n \in 1..Len(FileOrder), NEW from, NEW before,
         \A i \in 1..(n - 1) : from[FileOrder[i]] = before[FileOrder[i]]
  PROVE  /\ Kept(from, n) = {e \in Kept(before, n - 1) : e.id \notin Ids(from[FileOrder[n]])}
                              \cup Facts[from[FileOrder[n]]].elements
         /\ Joined(from, n) = Joined(before, n - 1) \cup Facts[from[FileOrder[n]]].edges
  <1> DEFINE v == from[FileOrder[n]]
             old == {e \in Kept(before, n - 1) : e.id \notin Ids(v)}
  <1>1. Len(FileOrder) \in Nat
    BY FilesInOrder
  <1>2. ASSUME NEW e \in Kept(from, n)  PROVE e \in old \cup Facts[v].elements
    <2>1. PICK i \in 1..n : /\ e \in Facts[from[FileOrder[i]]].elements
                            /\ \A j \in (i + 1)..n : e.id \notin Ids(from[FileOrder[j]])
      BY <1>2, KeptIff
    <2>2. CASE i = n
      BY <2>1, <2>2
    <2>3. CASE i # n
      <3>1. i \in 1..(n - 1) /\ n \in (i + 1)..n /\ \A j \in (i + 1)..(n - 1) : j \in (i + 1)..n /\ j \in 1..(n - 1)
        BY <1>1, <2>3
      <3>2. e.id \notin Ids(v)
        BY <2>1, <3>1
      <3>3. \A j \in (i + 1)..(n - 1) : e.id \notin Ids(before[FileOrder[j]])
        BY <2>1, <3>1
      <3>4. e \in Kept(before, n - 1)
        BY <2>1, <3>1, <3>3, KeptIff
      <3> QED
        BY <3>2, <3>4
    <2> QED
      BY <2>2, <2>3
  <1>3. ASSUME NEW e \in old  PROVE e \in Kept(from, n)
    <2>1. e \in Kept(before, n - 1) /\ e.id \notin Ids(v)
      BY <1>3
    <2>2. PICK i \in 1..(n - 1) :
             /\ e \in Facts[before[FileOrder[i]]].elements
             /\ \A j \in (i + 1)..(n - 1) : e.id \notin Ids(before[FileOrder[j]])
      BY <2>1, KeptIff
    <2>3. i \in 1..n /\ \A j \in (i + 1)..n : j = n \/ (j \in (i + 1)..(n - 1) /\ j \in 1..(n - 1))
      BY <1>1
    <2>4. \A j \in (i + 1)..n : e.id \notin Ids(from[FileOrder[j]])
      BY <2>1, <2>2, <2>3
    <2> QED
      BY <2>2, <2>3, <2>4, KeptIff
  <1>4. ASSUME NEW e \in Facts[v].elements  PROVE e \in Kept(from, n)
    <2>1. n \in 1..n /\ \A j \in (n + 1)..n : FALSE
      BY <1>1
    <2> QED
      BY <1>4, <2>1, KeptIff
  <1>5. (1..n) = (1..(n - 1)) \cup {n}
    BY <1>1
  <1>6. Joined(from, n) = Joined(before, n - 1) \cup Facts[v].edges
    BY <1>5 DEF Joined
  <1> QED
    BY <1>2, <1>3, <1>4, <1>6

(* A clean file's elements, over those that are there by the same id.      *)
LEMMA InsertingKeeps ==
  ASSUME NEW v \in Version, ~Facts[v].errors, NEW table, NEW before, TableOf(table, before),
         NEW after, after = {e \in before : e.id \notin Ids(v)} \cup Facts[v].elements
  PROVE  TableOf(InsertAll(table, v), after)
  <1> DEFINE t == InsertAll(table, v)
  <1>1. /\ DOMAIN t = DOMAIN table \cup Ids(v)
        /\ \A id \in DOMAIN t :
              t[id] = IF id \in Ids(v) THEN CHOOSE e \in Facts[v].elements : e.id = id ELSE table[id]
    BY DEF InsertAll
  <1>2. Ids(v) = {e.id : e \in Facts[v].elements} /\ DOMAIN table = {e.id : e \in before}
        /\ \A e \in before : table[e.id] = e
    BY DEF Ids, TableOf
  <1> HIDE DEF t
  <1>3. DOMAIN t = {e.id : e \in after}
    BY <1>1, <1>2
  <1>4. ASSUME NEW e \in after  PROVE t[e.id] = e
    <2>1. e.id \in DOMAIN t
      BY <1>3
    <2>2. CASE e \in Facts[v].elements
      BY <1>1, <1>2, <2>1, <2>2, ElementsById
    <2>3. CASE e \in before /\ e.id \notin Ids(v)
      BY <1>1, <1>2, <2>1, <2>3
    <2> QED
      BY <2>2, <2>3
  <1>5. TableOf(t, after)
    BY <1>3, <1>4 DEF TableOf
  <1> QED
    BY <1>5 DEF t

(* A loop's step forward.                                                  *)
LEMMA AdvanceMoves ==
  ASSUME BuildTypes, NEW next \in Stages, At(build.stage), build' = Advance(next)
  PROVE  /\ build' = [stage |-> build'.stage, next |-> build'.next]
         /\ build'.next \in 1..Len(FileOrder) /\ Here \in File
         /\ \/ build'.stage = build.stage /\ build'.next = build.next + 1
            \/ build'.stage = next /\ build'.next = 1 /\ build.next = Len(FileOrder)
  <1>1. Len(FileOrder) \in Nat
    BY FactsAssumption
  <1>2. CASE build.next < Len(FileOrder)
    <2>1. build' = [build EXCEPT !.next = build.next + 1]
      BY <1>2 DEF Advance
    <2>2. build'.stage = build.stage /\ build'.next = build.next + 1
          /\ build' = [stage |-> build'.stage, next |-> build'.next]
      BY <2>1 DEF BuildTypes
    <2> QED
      BY <1>1, <1>2, <2>2, FilesInOrder DEF BuildTypes, Here
  <1>3. CASE ~(build.next < Len(FileOrder))
    <2>1. build.next = Len(FileOrder) /\ build' = [stage |-> next, next |-> 1]
      BY <1>1, <1>3 DEF BuildTypes, Advance
    <2> QED
      BY <1>1, <2>1, FilesInOrder DEF BuildTypes, Here
  <1> QED
    BY <1>2, <1>3

LEMMA MergedGrows ==
  ASSUME BuildTypes, NEW n \in 1..Len(FileOrder), n = build.next, build.stage = "merge",
         DOMAIN used = Done(n), Merged(n - 1), MergeFile
  PROVE  /\ DOMAIN used' = Done(n) \cup {Here}
         /\ \A f \in DOMAIN used' : used'[f] \in Version
         /\ Merged(n)'
  <1> DEFINE v == Source(Here)
  <1>1. /\ used' = Insert(used, Here, v) /\ cache' = cache
        /\ Here = FileOrder[n] /\ Here \in File /\ Here \notin Done(n)
    BY FilesInOrder DEF MergeFile, Here
  <1>2. v \in Version
    BY <1>1 DEF Source, BuildTypes
  <1>3. /\ DOMAIN used' = Done(n) \cup {Here} /\ used'[Here] = v
        /\ \A f \in Done(n) : used'[f] = used[f]
    BY <1>1 DEF Insert
  <1>4. \A f \in DOMAIN used' : used'[f] \in Version
    BY <1>2, <1>3 DEF BuildTypes
  <1>5. \A i \in 1..(n - 1) : used'[FileOrder[i]] = used[FileOrder[i]]
    BY <1>3 DEF Done
  <1>6. /\ Kept(used', n) = {e \in Kept(used, n - 1) : e.id \notin Ids(v)} \cup Facts[v].elements
        /\ Joined(used', n) = Joined(used, n - 1) \cup Facts[v].edges
    <2>1. PICK u : u = used'
      OBVIOUS
    <2>2. u[FileOrder[n]] = v /\ \A i \in 1..(n - 1) : u[FileOrder[i]] = used[FileOrder[i]]
      BY <1>1, <1>3, <1>5, <2>1
    <2> HIDE DEF v
    <2>3. /\ Kept(u, n) = {e \in Kept(used, n - 1) : e.id \notin Ids(u[FileOrder[n]])}
                             \cup Facts[u[FileOrder[n]]].elements
          /\ Joined(u, n) = Joined(used, n - 1) \cup Facts[u[FileOrder[n]]].edges
      BY <2>2, OneMoreFile
    <2> QED
      BY <2>1, <2>2, <2>3
  <1>7. \A f \in DOMAIN used : HasErrors(f, used[f], cache) =>
           f \in DOMAIN used' /\ HasErrors(f, used'[f], cache')
    BY <1>1, <1>3
  <1>8. CASE HasErrors(Here, v, cache)
    <2>1. errors' = TRUE
      BY <1>8 DEF MergeFile
    <2>2. Here \in DOMAIN used' /\ HasErrors(Here, used'[Here], cache')
      BY <1>1, <1>3, <1>8
    <2>3. Merged(n)'
      <3>1. (\E f \in DOMAIN used : HasErrors(f, used[f], cache))'
        BY <2>2 DEF HasErrors, Ids
      <3> QED
        BY <2>1, <3>1 DEF Merged
    <2> QED
      BY <1>3, <1>4, <2>3
  <1>9. CASE ~HasErrors(Here, v, cache)
    <2>1. errors' = errors /\ merged' = InsertAll(merged, v) /\ edges' = edges \cup Facts[v].edges
      BY <1>9 DEF MergeFile
    <2>2. ~Facts[v].errors
      BY <1>9 DEF HasErrors
    <2>3. ~errors => TableOf(merged', Kept(used', n)) /\ edges' = Joined(used', n)
      <3> HIDE DEF v
      <3> QED
        BY <1>2, <1>6, <2>1, <2>2, InsertingKeeps DEF Merged
    <2>4. errors => \E f \in DOMAIN used' : HasErrors(f, used'[f], cache')
      BY <1>7 DEF Merged
    <2>5. errors' => (\E f \in DOMAIN used : HasErrors(f, used[f], cache))'
      BY <2>1, <2>4 DEF HasErrors, Ids
    <2>6. ~errors' => (TableOf(merged, Kept(used, n)) /\ edges = Joined(used, n))'
      BY <2>1, <2>3 DEF TableOf, Kept, Joined, Ids
    <2>7. Merged(n)'
      BY <2>5, <2>6 DEF Merged
    <2> QED
      BY <1>3, <1>4, <2>7
  <1> QED
    BY <1>8, <1>9

LEMMA MergedStays ==
  ASSUME UNCHANGED <<cache, used, merged, edges, errors>>, NEW n
  PROVE  Merged(n)' <=> Merged(n)
  <1>1. (\E f \in DOMAIN used : HasErrors(f, used[f], cache))' <=>
           \E f \in DOMAIN used : HasErrors(f, used[f], cache)
    BY DEF HasErrors, Ids
  <1>2. (TableOf(merged, Kept(used, n)) /\ edges = Joined(used, n))' <=>
           TableOf(merged, Kept(used, n)) /\ edges = Joined(used, n)
    BY DEF TableOf, Kept, Joined, Ids
  <1> QED
    BY <1>1, <1>2 DEF Merged

(* What is not of the command leaves what it has built alone.              *)
LEMMA BuildStays ==
  ASSUME BuildSoFar, UNCHANGED <<cache, used, merged, edges, errors, doc>>,
         build' = build \/ build'.stage \notin {"read", "merge", "emit", "gate", "write"}
  PROVE  BuildSoFar'
  <1>1. CASE build' = build
    <2>1. PICK n : n = build.next - 1
      OBVIOUS
    <2>2. Merged(n)' <=> Merged(n)
      BY MergedStays
    <2>3. PICK m : m = Len(FileOrder)
      OBVIOUS
    <2>4. Merged(m)' <=> Merged(m)
      BY MergedStays
    <2>5. Done(build.next)' = Done(build.next)
      BY <1>1 DEF Done
    <2>6. (build.next - 1)' = n
      BY <1>1, <2>1
    <2>7. build.stage = "merge" => (DOMAIN used = Done(build.next) /\ Merged(build.next - 1))'
      BY <2>1, <2>2, <2>5, <2>6 DEF BuildSoFar
    <2>8. build.stage \in {"emit", "gate", "write"} => (DOMAIN used = File /\ Merged(Len(FileOrder)))'
      BY <2>3, <2>4 DEF BuildSoFar
    <2>9. Emit(merged, edges)' = Emit(merged, edges) /\ Violations(doc)' = Violations(doc)
      BY DEF Emit, Relations, Requirements, Violations
    <2> QED
      BY <1>1, <2>7, <2>8, <2>9 DEF BuildSoFar
  <1>2. CASE build' # build
    BY <1>2 DEF BuildSoFar
  <1> QED
    BY <1>1, <1>2

LEMMA BuildIsInductive ==
  ASSUME BuildTypes, BuildSoFar, [Next]_vars
  PROVE  BuildTypes' /\ BuildSoFar'
  <1>1. CASE StartBuild
    <2>1. build' = [stage |-> "read", next |-> 1] /\ cache' = <<>> /\ used' = <<>> /\ merged' = <<>>
          /\ edges' = {} /\ ~errors' /\ UNCHANGED text
      BY <1>1 DEF StartBuild
    <2>2. build'.stage = "read" /\ build'.next = 1 /\ DOMAIN cache' = {} /\ DOMAIN used' = {}
      BY <2>1
    <2> QED
      BY <2>1, <2>2, FilesInOrder DEF BuildTypes, BuildSoFar, Stages
  <1>2. CASE ReadFile
    <2>1. /\ At("read") /\ build' = Advance("merge")
          /\ cache' \in {Insert(cache, Here, text[Here]), cache}
          /\ UNCHANGED <<text, used, merged, edges, errors>>
      BY <1>2 DEF ReadFile
    <2>2. build.stage = "read" /\ build.next \in 1..Len(FileOrder)
      BY <2>1 DEF At, BuildTypes
    <2>3. /\ build' = [stage |-> build'.stage, next |-> build'.next]
          /\ build'.next \in 1..Len(FileOrder) /\ Here \in File
          /\ build'.stage = "read" \/ (build'.stage = "merge" /\ build'.next = 1)
      BY <2>1, <2>2, AdvanceMoves DEF Stages
    <2>4. \A f \in DOMAIN cache' : cache'[f] \in Version
      BY <2>1, <2>2, <2>3 DEF Insert, BuildTypes
    <2>5. BuildTypes'
      <3>1. (text \in [File -> Version] /\ \A f \in DOMAIN used : used[f] \in Version)'
        BY <2>1 DEF BuildTypes
      <3>2. (build.stage \in Stages /\ build.next \in 1..Len(FileOrder))'
        BY <2>3 DEF Stages
      <3> QED
        BY <2>3, <2>4, <3>1, <3>2 DEF BuildTypes
    <2>6. used' = <<>> /\ merged' = <<>> /\ edges' = {} /\ ~errors'
      BY <2>1, <2>2 DEF BuildSoFar
    <2>7. CASE build'.stage = "read"
      BY <2>5, <2>6, <2>7 DEF BuildSoFar
    <2>8. CASE build'.stage = "merge" /\ build'.next = 1
      <3>1. DOMAIN used' = Done(1)
        BY <2>6, FilesInOrder
      <3>2. Kept(used', 0) = {} /\ Joined(used', 0) = {}
        BY DEF Kept, Joined
      <3>3. TableOf(merged', Kept(used', 0)) /\ edges' = Joined(used', 0)
        BY <2>6, <3>2 DEF TableOf
      <3>4. Merged(0)'
        BY <2>6, <3>3 DEF Merged, TableOf, Kept, Joined, Ids
      <3>5. Done(build.next)' = Done(1) /\ (build.next - 1)' = 0
        BY <2>8 DEF Done
      <3>6. Merged(build.next - 1)'
        BY <3>4, <3>5
      <3> QED
        BY <2>5, <2>8, <3>1, <3>5, <3>6 DEF BuildSoFar
    <2> QED
      BY <2>3, <2>5, <2>7, <2>8
  <1>3. CASE MergeFile
    <2>1. At("merge") /\ build' = Advance("emit") /\ UNCHANGED <<text, cache, doc>>
      BY <1>3 DEF MergeFile
    <2>2. build.stage = "merge" /\ DOMAIN used = Done(build.next) /\ Merged(build.next - 1)
      BY <2>1 DEF At, BuildSoFar
    <2>3. /\ build' = [stage |-> build'.stage, next |-> build'.next]
          /\ build'.next \in 1..Len(FileOrder)
          /\ \/ build'.stage = "merge" /\ build'.next = build.next + 1
             \/ build'.stage = "emit" /\ build'.next = 1 /\ build.next = Len(FileOrder)
      BY <2>1, <2>2, AdvanceMoves DEF Stages
    <2>4. PICK n \in 1..Len(FileOrder) : n = build.next
      BY DEF BuildTypes
    <2>5. /\ DOMAIN used' = Done(n) \cup {Here} /\ \A f \in DOMAIN used' : used'[f] \in Version
          /\ Merged(n)'
      BY <1>3, <2>2, <2>4, MergedGrows
    <2>6. BuildTypes'
      <3>1. (text \in [File -> Version] /\ \A f \in DOMAIN cache : cache[f] \in Version)'
        BY <2>1 DEF BuildTypes
      <3>2. (build.stage \in Stages /\ build.next \in 1..Len(FileOrder))'
        BY <2>3 DEF Stages
      <3> QED
        BY <2>3, <2>5, <3>1, <3>2 DEF BuildTypes
    <2>7. DOMAIN used' = Done(n + 1)
      BY <2>4, <2>5, FilesInOrder DEF Here
    <2>8. CASE build'.stage = "merge" /\ build'.next = build.next + 1
      <3>1. Done(build.next)' = Done(n + 1) /\ (build.next - 1)' = n
        BY <2>4, <2>8, FilesInOrder DEF Done
      <3>2. Merged(build.next - 1)'
        BY <2>5, <3>1
      <3> QED
        BY <2>6, <2>7, <2>8, <3>1, <3>2 DEF BuildSoFar
    <2>9. CASE build'.stage = "emit" /\ build'.next = 1 /\ build.next = Len(FileOrder)
      <3>1. n = Len(FileOrder) /\ DOMAIN used' = File
        BY <2>4, <2>7, <2>9, FilesInOrder
      <3>2. Merged(Len(FileOrder))'
        BY <2>5, <3>1
      <3> QED
        BY <2>6, <2>9, <3>1, <3>2 DEF BuildSoFar
    <2> QED
      BY <2>3, <2>8, <2>9
  <1>4. CASE ReadFails
    <2>1. build' = [build EXCEPT !.stage = "internal"]
          /\ UNCHANGED <<text, cache, used, merged, edges, errors, doc>>
      BY <1>4 DEF ReadFails
    <2>2. build'.stage = "internal" /\ BuildTypes'
      BY <2>1 DEF BuildTypes, Stages
    <2> QED
      BY <2>1, <2>2, BuildStays
  <1>5. CASE Refuse
    <2>1. build' = [build EXCEPT !.stage = "user"]
          /\ UNCHANGED <<text, cache, used, merged, edges, errors, doc>>
      BY <1>5 DEF Refuse
    <2>2. build'.stage = "user" /\ BuildTypes'
      BY <2>1 DEF BuildTypes, Stages
    <2> QED
      BY <2>1, <2>2, BuildStays
  <1>6. CASE EmitDocument
    <2>1. build.stage = "emit" /\ ~errors /\ doc' = Emit(merged, edges)
          /\ build' = [build EXCEPT !.stage = "gate"]
          /\ UNCHANGED <<text, cache, used, merged, edges, errors>>
      BY <1>6 DEF EmitDocument
    <2>2. build'.stage = "gate" /\ BuildTypes'
      BY <2>1 DEF BuildTypes, Stages
    <2>3. DOMAIN used' = File /\ Merged(Len(FileOrder))
      BY <2>1 DEF BuildSoFar
    <2>4. PICK n : n = Len(FileOrder)
      OBVIOUS
    <2>5. Merged(Len(FileOrder))'
      BY <2>1, <2>3, <2>4, MergedStays
    <2>6. Emit(merged, edges)' = Emit(merged, edges)
      BY <2>1 DEF Emit, Relations, Requirements
    <2> QED
      BY <2>1, <2>2, <2>3, <2>5, <2>6 DEF BuildSoFar
  <1>7. CASE Validate
    <2>1. build.stage = "gate" /\ UNCHANGED <<text, cache, used, merged, edges, errors, doc>>
      BY <1>7 DEF Validate
    <2>2. DOMAIN used' = File /\ Merged(Len(FileOrder)) /\ doc = Emit(merged, edges) /\ ~errors
      BY <2>1 DEF BuildSoFar
    <2>3. CASE bundle # "pinned" \/ Violations(doc) # {}
      <3>1. build' = [build EXCEPT !.stage = "user"]
        BY <1>7, <2>3 DEF Validate
      <3>2. build'.stage = "user" /\ BuildTypes'
        BY <2>1, <3>1 DEF BuildTypes, Stages
      <3> QED
        BY <2>1, <3>2, BuildStays
    <2>4. CASE ~(bundle # "pinned" \/ Violations(doc) # {})
      <3>1. build' = [build EXCEPT !.stage = "write"] /\ Violations(doc) = {}
        BY <1>7, <2>4 DEF Validate
      <3>2. build'.stage = "write" /\ BuildTypes'
        BY <2>1, <3>1 DEF BuildTypes, Stages
      <3>3. PICK n : n = Len(FileOrder)
        OBVIOUS
      <3>4. Merged(Len(FileOrder))'
        BY <2>1, <2>2, <3>3, MergedStays
      <3>5. Violations(doc)' = {} /\ doc' = Emit(merged, edges)'
        <4>1. doc' = doc /\ Violations(doc)' = Violations(doc)
          BY <2>1 DEF Violations
        <4>2. Emit(merged, edges)' = Emit(merged, edges)
          BY <2>1 DEF Emit, Relations, Requirements
        <4> QED
          BY <2>2, <3>1, <4>1, <4>2
      <3> QED
        BY <2>1, <2>2, <3>2, <3>4, <3>5 DEF BuildSoFar
    <2> QED
      BY <2>3, <2>4
  <1>8. CASE WriteArchive
    <2>1. build' = [build EXCEPT !.stage = "ok"]
          /\ UNCHANGED <<text, cache, used, merged, edges, errors, doc>>
      BY <1>8 DEF WriteArchive
    <2>2. build'.stage = "ok" /\ BuildTypes'
      BY <2>1 DEF BuildTypes, Stages
    <2> QED
      BY <2>1, <2>2, BuildStays
  <1>9. ASSUME NEW f \in File, NEW version \in Version, Edit(f, version)
        PROVE  BuildTypes' /\ BuildSoFar'
    <2>1. text' = [text EXCEPT ![f] = version]
          /\ UNCHANGED <<build, cache, used, merged, edges, errors, doc>>
      BY <1>9 DEF Edit
    <2> QED
      BY <2>1, BuildStays DEF BuildTypes
  <1>10. CASE Kill
    <2>1. build' = [build EXCEPT !.stage = "killed"]
          /\ UNCHANGED <<text, cache, used, merged, edges, errors, doc>>
      BY <1>10 DEF Kill
    <2>2. build'.stage = "killed" /\ BuildTypes'
      BY <2>1 DEF BuildTypes, Stages
    <2> QED
      BY <2>1, <2>2, BuildStays
  <1>11. CASE UNCHANGED vars
    BY <1>11, BuildStays DEF vars, BuildTypes
  <1> QED
    BY <1>1, <1>2, <1>3, <1>4, <1>5, <1>6, <1>7, <1>8, <1>9, <1>10, <1>11 DEF Next

-----------------------------------------------------------------------------
LEMMA ImagesAreFinite ==
  ASSUME NEW S, IsFiniteSet(S), NEW F, DOMAIN F = S
  PROVE  IsFiniteSet({F[x] : x \in S}) 
  <1> DEFINE G == [x \in S |-> F[x]]
             T == {F[x] : x \in S}
  <1>1. G \in Surjection(S, T)
    BY DEF Surjection
  <1> QED
    BY <1>1, FS_Surjection

LEMMA WantedIsFinite ==
  ASSUME DOMAIN used = File, \A f \in File : used[f] \in Version
  PROVE  IsFiniteSet(Wanted(used))
  <1> DEFINE elements == [f \in File |-> Facts[used[f]].elements]
             sets == {elements[f] : f \in File}
  <1>1. /\ Len(FileOrder) \in Nat /\ File = {FileOrder[i] : i \in 1..Len(FileOrder)}
        /\ DOMAIN FileOrder = 1..Len(FileOrder)
    BY FactsAssumption DEF File, ToSet
  <1>2. IsFiniteSet(File)
    <2>1. IsFiniteSet(1..Len(FileOrder))
      BY <1>1, FS_Interval
    <2> QED
      BY <1>1, <2>1, ImagesAreFinite
  <1>3. IsFiniteSet(sets)
    <2>1. DOMAIN elements = File
      OBVIOUS
    <2> HIDE DEF elements
    <2> QED
      BY <1>2, <2>1, ImagesAreFinite
  <1>4. \A S \in sets : IsFiniteSet(S)
    BY FactsAssumption
  <1>5. IsFiniteSet(UNION sets)
    BY <1>3, <1>4, FS_UNION
  <1>6. Wanted(used) \subseteq UNION sets
    <2>1. \A i \in 1..Len(FileOrder) : FileOrder[i] \in File
      BY <1>1
    <2>2. ASSUME NEW e \in Wanted(used)  PROVE e \in UNION sets
      <3>1. PICK i \in 1..Len(FileOrder) : e \in Facts[used[FileOrder[i]]].elements
        BY <2>2 DEF Wanted, Surviving
      <3> QED
        BY <2>1, <3>1
    <2> QED
      BY <2>2
  <1> QED
    BY <1>5, <1>6, FS_Subset

(* What is merged of all files is what their texts say.                    *)
LEMMA MergedIsWanted ==
  ASSUME Merged(Len(FileOrder)), ~errors
  PROVE  /\ Requirements(merged) = Wanted(used)
         /\ {e \in edges : e.kind \in TraceKinds} = Traces(used)
  <1>1. TableOf(merged, Surviving(used))
    BY DEF Merged, Surviving, Kept
  <1>2. {merged[id] : id \in DOMAIN merged} = Surviving(used)
    BY <1>1 DEF TableOf
  <1>3. File = {FileOrder[i] : i \in 1..Len(FileOrder)}
    BY FactsAssumption DEF File, ToSet
  <1>4. edges = UNION {Facts[used[f]].edges : f \in File}
    BY <1>3 DEF Merged, Joined
  <1> QED
    BY <1>2, <1>4 DEF Requirements, Wanted, IsWanted, Traces

LEMMA SurvivorsAreDeclared ==
  ASSUME NEW e \in Surviving(used)
  PROVE  \E f \in File : e \in Facts[used[f]].elements
  <1>1. PICK i \in 1..Len(FileOrder) : e \in Facts[used[FileOrder[i]]].elements
    BY DEF Surviving
  <1> QED
    BY <1>1, FilesInOrder

LEMMA OneObjectEach ==
  ASSUME NEW reqs, IsFiniteSet(reqs),
         \A q, r \in reqs : ReqIfId(q.id) = ReqIfId(r.id) => q = r
  PROVE  Cardinality({SpecObject(q) : q \in reqs}) = Cardinality(reqs)
  <1> DEFINE F == [q \in reqs |-> SpecObject(q)]
             T == {SpecObject(q) : q \in reqs}
  <1>1. \A q \in reqs : SpecObject(q).identifier = ReqIfId(q.id)
    BY DEF SpecObject
  <1>2. F \in Surjection(reqs, T)
    BY DEF Surjection
  <1>3. F \in Injection(reqs, T)
    <2>1. F \in [reqs -> T]
      OBVIOUS
    <2>2. \A q, r \in reqs : F[q] = F[r] => q = r
      BY <1>1
    <2> QED
      BY <2>1, <2>2 DEF Injection, IsInjective
  <1> HIDE DEF F, T
  <1>4. Cardinality(T) = Cardinality(reqs)
    BY <1>2, <1>3, FS_Surjection
  <1> QED
    BY <1>4 DEF T

(* What Validate lets through is a whole archive.                          *)
LEMMA GateKeepsArchivesWhole ==
  ASSUME BuildTypes, BuildSoFar, WriteArchive
  PROVE  ArchivesCanBeExchanged'
  <1> DEFINE reqs == Wanted(used)
             identifiers == {o.identifier : o \in doc.objects}
  <1>1. /\ archive' = [doc |-> doc, from |-> used] /\ doc = Emit(merged, edges)
        /\ DOMAIN used = File /\ Merged(Len(FileOrder)) /\ ~errors /\ Violations(doc) = {}
    BY DEF WriteArchive, BuildSoFar
  <1>2. archive'.doc = doc /\ archive'.from = used
    BY <1>1
  <1>3. /\ doc.objects = {SpecObject(q) : q \in reqs}
        /\ doc.relations = {SpecRelation(e) : e \in Relations(edges, reqs)}
    BY <1>1, MergedIsWanted DEF Emit
  <1>4. identifiers = {ReqIfId(q.id) : q \in reqs}
    <2>1. \A q \in reqs : SpecObject(q).identifier = ReqIfId(q.id)
      BY DEF SpecObject
    <2> QED
      BY <1>3, <2>1
  <1>5. \A r \in doc.relations : {r.source, r.target} \subseteq identifiers
    <2>1. ASSUME NEW r \in doc.relations  PROVE {r.source, r.target} \subseteq identifiers
      <3>1. {r.source, r.target} \in {{t.source, t.target} : t \in doc.relations}
        BY <2>1
      <3> QED
        BY <1>1, <3>1 DEF Violations
    <2> QED
      BY <2>1
  <1>6. ASSUME \A q, r \in reqs : ReqIfId(q.id) = ReqIfId(r.id) => q = r
        PROVE  Cardinality(doc.objects) = Cardinality(reqs)
    BY <1>1, <1>3, <1>6, WantedIsFinite, OneObjectEach DEF BuildTypes
  <1>7. ASSUME NEW e \in Traces(used), {e.src, e.dst} \subseteq {q.id : q \in reqs}
        PROVE  \E r \in doc.relations :
                  r.source = ReqIfId(e.src) /\ r.target = ReqIfId(e.dst) /\ r.type = e.kind
    <2>1. e \in edges /\ e.kind \in TraceKinds
      BY <1>1, MergedIsWanted
    <2>2. e \in Relations(edges, reqs)
      BY <1>7, <2>1 DEF Relations, IsRelation, MatchesReq
    <2>3. SpecRelation(e) \in doc.relations
      BY <1>3, <2>2
    <2>4. /\ SpecRelation(e).source = ReqIfId(e.src) /\ SpecRelation(e).target = ReqIfId(e.dst)
          /\ SpecRelation(e).type = e.kind
      BY <2>1 DEF SpecRelation, RelationTypeInfo
    <2> QED
      BY <2>3, <2>4
  <1>8. PICK arch : arch = archive'
    OBVIOUS
  <1> QED
    BY <1>2, <1>4, <1>5, <1>6, <1>7 DEF ArchivesCanBeExchanged

(* What the gate holds against a document is a trace that reads like one   *)
(* between requirements and names neither.                                 *)
LEMMA RefusalsHaveACause ==
  ASSUME BuildTypes, DOMAIN used = File, Merged(Len(FileOrder)), ~errors,
         doc = Emit(merged, edges), Violations(doc) # {}
  PROVE  \E e \in Traces(used), r \in Wanted(used) :
            r.id # <<Last(r.id)>> /\ <<Last(r.id)>> \in {e.src, e.dst}
  <1> DEFINE reqs == Wanted(used)
             identifiers == {o.identifier : o \in doc.objects}
  <1>1. /\ doc.objects = {SpecObject(q) : q \in reqs}
        /\ doc.relations = {SpecRelation(e) : e \in Relations(edges, reqs)}
    BY MergedIsWanted DEF Emit
  <1>2. \A q \in reqs : SpecObject(q).identifier = ReqIfId(q.id)
    BY DEF SpecObject
  <1>3. \A q \in reqs : ReqIfId(q.id) # <<>>
    BY FactsAssumption, SurvivorsAreDeclared DEF BuildTypes, Wanted, ReqIfId
  <1>4. \A o \in doc.objects : o.identifier # <<>>
    BY <1>1, <1>2, <1>3
  <1>5. PICK x \in Violations(doc) : TRUE
    OBVIOUS
  <1>6. PICK t \in doc.relations : x \in {t.source, t.target} /\ x \notin identifiers
    <2>1. x \notin {o \in doc.objects : o.identifier = <<>>}
      BY <1>4
    <2>2. identifiers \ {<<>>} = identifiers
      BY <1>4
    <2> DEFINE ends == {{r.source, r.target} : r \in doc.relations}
    <2>3. x \in UNION ends /\ x \notin identifiers
      BY <1>5, <2>1, <2>2 DEF Violations
    <2>4. PICK S \in ends : x \in S
      BY <2>3
    <2>5. PICK t \in doc.relations : S = {t.source, t.target}
      BY <2>4
    <2> QED
      BY <2>3, <2>4, <2>5
  <1>7. PICK e \in Relations(edges, reqs) : t = SpecRelation(e)
    BY <1>1, <1>6
  <1>8. t.source = ReqIfId(e.src) /\ t.target = ReqIfId(e.dst)
    BY <1>7 DEF SpecRelation
  <1>9. PICK end \in {e.src, e.dst} : x = ReqIfId(end)
    BY <1>6, <1>8
  <1>10. PICK r \in reqs : end = r.id \/ end = <<Last(r.id)>>
    BY <1>7, <1>9 DEF Relations, IsRelation, MatchesReq
  <1>11. end # r.id
    BY <1>1, <1>2, <1>6, <1>9, <1>10
  <1>12. e \in Traces(used)
    BY <1>7, MergedIsWanted DEF Relations
  <1> HIDE DEF reqs
  <1> QED
    BY <1>9, <1>10, <1>11, <1>12 DEF reqs

-----------------------------------------------------------------------------
BuildInv == BuildTypes /\ BuildSoFar /\ ArchivesCanBeExchanged /\ CleanModelsAreExported

LEMMA BuildInvHolds == Spec => []BuildInv
  <1>1. Init => BuildInv
    <2> SUFFICES ASSUME Init PROVE BuildInv
      OBVIOUS
    <2>1. archive = Absent /\ build = [stage |-> "none", next |-> 1] /\ cache = <<>> /\ used = <<>>
          /\ text \in [File -> Version]
      BY DEF Init, Start
    <2>2. build.stage = "none" /\ build.next = 1 /\ 1 \in 1..Len(FileOrder) /\ DOMAIN cache = {} /\ DOMAIN used = {}
      BY <2>1, FilesInOrder
    <2> QED
      BY <2>1, <2>2 DEF BuildInv, BuildTypes, BuildSoFar, ArchivesCanBeExchanged,
                        CleanModelsAreExported, Stages
  <1>2. BuildInv /\ [Next]_vars => BuildInv'
    <2> SUFFICES ASSUME BuildInv, [Next]_vars PROVE BuildInv'
      OBVIOUS
    <2>1. BuildTypes /\ BuildSoFar /\ ArchivesCanBeExchanged /\ CleanModelsAreExported
      BY DEF BuildInv
    <2>2. BuildTypes' /\ BuildSoFar'
      BY <2>1, BuildIsInductive
    <2>3. ArchivesCanBeExchanged'
      <3>1. CASE WriteArchive
        BY <2>1, <3>1, GateKeepsArchivesWhole
      <3>2. CASE archive' = archive
        BY <2>1, <3>2 DEF ArchivesCanBeExchanged
      <3>3. CASE archive' = Torn
        BY <3>3 DEF ArchivesCanBeExchanged
      <3>4. WriteArchive \/ archive' = archive \/ archive' = Torn
        BY DEF Next, vars, StartBuild, ReadFile, MergeFile, ReadFails, Refuse, EmitDocument, Validate,
               Edit, Kill
      <3> QED
        BY <3>1, <3>2, <3>3, <3>4
    <2>4. CleanModelsAreExported'
      <3>1. CASE Refuse
        <4>1. build.stage = "emit" /\ errors /\ UNCHANGED <<used, cache, bundle>>
          BY <3>1 DEF Refuse
        <4>2. \E f \in File : HasErrors(f, used[f], cache)
          BY <2>1, <4>1 DEF BuildSoFar, Merged
        <4> QED
          BY <4>1, <4>2 DEF CleanModelsAreExported, HasErrors
      <3>2. CASE Validate
        <4>1. build.stage = "gate" /\ UNCHANGED <<used, cache, bundle>>
          BY <3>2 DEF Validate
        <4>2. DOMAIN used = File /\ Merged(Len(FileOrder)) /\ ~errors /\ doc = Emit(merged, edges)
          BY <2>1, <4>1 DEF BuildSoFar
        <4>3. CASE bundle # "pinned"
          BY <4>1, <4>3 DEF CleanModelsAreExported
        <4>4. CASE Violations(doc) # {}
          <5>1. \E e \in Traces(used), r \in Wanted(used) :
                   r.id # <<Last(r.id)>> /\ <<Last(r.id)>> \in {e.src, e.dst}
            BY <2>1, <4>2, <4>4, RefusalsHaveACause
          <5> QED
            BY <4>1, <5>1 DEF CleanModelsAreExported
        <4>5. CASE ~(bundle # "pinned" \/ Violations(doc) # {})
          <5>1. build'.stage = "write"
            BY <2>1, <3>2, <4>5 DEF Validate, BuildTypes
          <5> QED
            BY <5>1 DEF CleanModelsAreExported
        <4> QED
          BY <4>3, <4>4, <4>5
      <3>3. CASE build'.stage # "user"
        BY <3>3 DEF CleanModelsAreExported
      <3>4. CASE UNCHANGED <<build, bundle, used, cache>>
        BY <2>1, <3>4 DEF CleanModelsAreExported, HasErrors
      <3>5. Refuse \/ Validate \/ build'.stage # "user" \/ UNCHANGED <<build, bundle, used, cache>>
        <4>1. StartBuild => build'.stage # "user"
          BY DEF StartBuild
        <4>2. ReadFile => build'.stage # "user"
          BY <2>1 DEF ReadFile, At, Advance, BuildTypes
        <4>3. MergeFile => build'.stage # "user"
          BY <2>1 DEF MergeFile, At, Advance, BuildTypes
        <4>4. EmitDocument => build'.stage # "user"
          BY <2>1 DEF EmitDocument, BuildTypes
        <4>5. WriteArchive => build'.stage # "user"
          BY <2>1 DEF WriteArchive, BuildTypes
        <4>9. ReadFails => build'.stage # "user"
          BY <2>1 DEF ReadFails, BuildTypes
        <4>6. Kill => build'.stage # "user"
          BY <2>1 DEF Kill, BuildTypes
        <4>7. \A f \in File, version \in Version :
                 Edit(f, version) => UNCHANGED <<build, bundle, used, cache>>
          BY DEF Edit
        <4>8. UNCHANGED vars => UNCHANGED <<build, bundle, used, cache>>
          BY DEF vars
        <4> QED
          BY <4>1, <4>2, <4>3, <4>4, <4>5, <4>6, <4>7, <4>8, <4>9 DEF Next
      <3> QED
        BY <3>1, <3>2, <3>3, <3>4, <3>5
    <2> QED
      BY <2>2, <2>3, <2>4 DEF BuildInv
  <1> QED
    BY <1>1, <1>2, PTL DEF Spec

(* Whole archives can be exchanged, for every closure and whatever its     *)
(* files say: what run_build_reqif leaves on disk has no dangling          *)
(* reference, every requirement it was built from and every trace between  *)
(* two of them.                                                            *)
THEOREM ArchivesAreWhole == Spec => []ArchivesCanBeExchanged
  BY BuildInvHolds, PTL DEF BuildInv

(* The build and its gate refuse no clean model but for a trace whose end  *)
(* is the bare last word of a longer id.                                   *)
THEOREM CleanModelsPassTheGate == Spec => []CleanModelsAreExported
  BY BuildInvHolds, PTL DEF BuildInv
=============================================================================
