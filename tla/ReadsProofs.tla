----------------------------- MODULE ReadsProofs -----------------------------
(***************************************************************************)
(* Proofs about Reads, for all catalogues, contents, queries, id lists and *)
(* writes: types (TypeCorrect), the marks of a comparison (MarksAreRight), *)
(* the instants its columns are of (ColumnsAreConsistent), when a page     *)
(* fails (PagesFailOnlyByRemovals), the instants what a page or a bike     *)
(* shows is of (AnswersAreOfTheirInstants), and how far the figures of the *)
(* dashboard are at odds (FiguresAgreeButForWrites).                       *)
(***************************************************************************)
EXTENDS Reads, FiniteSetTheorems, SequenceTheorems, TLAPS

------------------------------------------------------------------------------
(* Bikes as they are stored *)

Parts == {"motorcycle", "engine", "dimension", "extras"}
Version(bike, n) ==
    IF bike.dimension = Absent THEN bike
    ELSE [bike EXCEPT !.dimension = [bike.dimension EXCEPT !.row = n]]
Versions == {Version(bike, n) : bike \in Contents, n \in 0..MaxWrites}
Tables == [Ids -> Versions \cup {Absent}]

\* A stored bike holds what some body holds; only the row of its dimension block is its own.
LEMMA VersionHolds ==
    ASSUME NEW bike \in Contents, NEW n \in 0..MaxWrites, NEW v, v = Version(bike, n)
    PROVE  /\ v # Absent /\ v.motorcycle # Absent
           /\ v.motorcycle = bike.motorcycle /\ v.engine = bike.engine /\ v.extras = bike.extras
           /\ v.dimension = Absent <=> bike.dimension = Absent
           /\ v.dimension # Absent =>
                 /\ v.dimension.row = n
                 /\ \A c \in DOMAIN bike.dimension : c # "row" => v.dimension[c] = bike.dimension[c]
           /\ Unrowed(v) = bike
           /\ n = 0 => v = bike
<1>1. /\ bike = [part \in Parts |-> bike[part]]
      /\ bike.motorcycle # Absent /\ bike # Absent
      /\ bike.dimension # Absent =>
            /\ bike.dimension = [column \in DOMAIN bike.dimension |-> bike.dimension[column]]
            /\ "row" \in DOMAIN bike.dimension /\ bike.dimension.row = 0
            /\ \A m \in 1..MaxWrites :
                  Absent \notin {[bike EXCEPT !.dimension.row = m], [bike.dimension EXCEPT !.row = m]}
  BY ContentAssumption DEF Parts
<1>2. CASE bike.dimension = Absent
  BY <1>1, <1>2 DEF Version, Unrowed
<1>3. CASE bike.dimension # Absent
  <2> DEFINE old == bike.dimension
             block == [old EXCEPT !.row = n]
  <2>1. /\ "row" \in DOMAIN old /\ old.row = 0
        /\ old = [column \in DOMAIN old |-> old[column]]
    BY <1>1, <1>3
  <2>2. /\ DOMAIN block = DOMAIN old /\ block.row = n
        /\ \A c \in DOMAIN old : c # "row" => block[c] = old[c]
    BY <2>1
  <2>3. v = [bike EXCEPT !.dimension = block]
    BY <1>3 DEF Version
  <2>4. n = 0 => block = old
    <3>1. block = [c \in DOMAIN old |-> IF c = "row" THEN n ELSE old[c]]
      BY <2>1
    <3> HIDE DEF block, old
    <3>2. ASSUME n = 0 PROVE block = [c \in DOMAIN old |-> old[c]]
      BY <2>1, <3>1, <3>2
    <3>3. QED
      BY <2>1, <3>2
  <2>5. n # 0 => v # Absent /\ block # Absent
    BY <1>1, <1>3, <2>3
  <2>6. [block EXCEPT !.row = 0] = old
    <3>1. block = [c \in DOMAIN old |-> IF c = "row" THEN n ELSE old[c]]
      BY <2>1
    <3> HIDE DEF block, old
    <3>2. [block EXCEPT !.row = 0] = [c \in DOMAIN old |-> IF c = "row" THEN 0 ELSE old[c]]
      BY <3>1, <2>1
    <3>3. [c \in DOMAIN old |-> IF c = "row" THEN 0 ELSE old[c]] = [c \in DOMAIN old |-> old[c]]
      BY <2>1
    <3>4. QED
      BY <2>1, <3>2, <3>3
  <2> HIDE DEF block
  <2>7. /\ v.motorcycle = bike.motorcycle /\ v.engine = bike.engine /\ v.extras = bike.extras
        /\ v.dimension = block
    <3>1. "motorcycle" \in DOMAIN bike /\ "engine" \in DOMAIN bike /\ "extras" \in DOMAIN bike
          /\ "dimension" \in DOMAIN bike
      BY <1>1 DEF Parts
    <3>2. QED
      BY <2>3, <3>1
  <2>8. n = 0 => v = bike
    <3>1. ASSUME n = 0 PROVE v = [bike EXCEPT !.dimension = bike.dimension]
      BY <2>3, <2>4, <3>1
    <3>2. [bike EXCEPT !.dimension = bike.dimension] = [part \in Parts |-> bike[part]]
      BY <1>1 DEF Parts
    <3>3. QED
      BY <1>1, <3>1, <3>2
  <2>9. v # Absent /\ block # Absent
    BY <1>1, <1>3, <2>4, <2>5, <2>8
  <2>10. Unrowed(v) = bike
    <3>1. Unrowed(v) = [v EXCEPT !.dimension = [block EXCEPT !.row = 0]]
      BY <2>7, <2>9 DEF Unrowed
    <3>2. Unrowed(v) = [[bike EXCEPT !.dimension = block] EXCEPT !.dimension = old]
      BY <2>3, <2>6, <3>1
    <3>3. [[bike EXCEPT !.dimension = block] EXCEPT !.dimension = old] = [part \in Parts |-> bike[part]]
      BY <1>1 DEF Parts
    <3>4. QED
      BY <1>1, <3>2, <3>3
  <2>11. QED
    BY <1>1, <1>3, <2>2, <2>7, <2>8, <2>9, <2>10
<1>4. QED
  BY <1>2, <1>3

------------------------------------------------------------------------------
(* What every request stands on *)

\* The table, and the tables since the request began.
Based ==
    /\ catalogue \in Tables
    /\ past \in Seq(Tables) /\ past # <<>>
    /\ pc # "idle" => catalogue = past[Len(past)] /\ answer = NoAnswer
    /\ sequence \in Nat /\ There(catalogue) \subseteq 1..sequence
    /\ writes \in 0..MaxWrites /\ requests \in 0..MaxRequests

LEMMA BoundTypes == MaxWrites \in Nat /\ MaxRequests \in Nat
BY BoundAssumption

LEMMA IdsAreNumbers == Cardinality(Ids) \in Nat /\ Ids = 1..Cardinality(Ids) /\ Ids \subseteq Nat \ {0}
<1>1. Cardinality(Ids) \in Nat
  BY BoundAssumption, FS_CardinalityType
<1>2. PICK n \in Nat : n = Cardinality(Ids)
  BY <1>1
<1>3. Ids = 1..n
  BY <1>2, BoundAssumption
<1>4. Ids \subseteq Nat \ {0}
  BY <1>3
<1>5. QED
  BY <1>2, <1>3, <1>4

LEMMA ContentsAreVersions == Contents \subseteq Versions /\ Absent \notin Versions
<1>1. ASSUME NEW bike \in Contents PROVE bike \in Versions
  <2>1. 0 \in 0..MaxWrites
    BY BoundTypes
  <2>2. bike = Version(bike, 0)
    BY <2>1, VersionHolds
  <2>3. QED
    BY <2>1, <2>2 DEF Versions
<1>2. QED
  BY <1>1, VersionHolds DEF Versions

\* A commit leaves a bike with an engine, and the dimension block with its row; or removes one.
LEMMA WritingEffect ==
    ASSUME Based, Writing
    PROVE  \E id \in Ids, v \in Versions \cup {Absent} :
              /\ catalogue' = [catalogue EXCEPT ![id] = v]
              /\ v = Absent => catalogue[id] # Absent
              /\ v # Absent =>
                    /\ v.engine # Absent
                    /\ catalogue[id] # Absent /\ catalogue[id].dimension # Absent /\ v.dimension # Absent =>
                          v.dimension.row = catalogue[id].dimension.row
              /\ past' = IF pc = "idle" THEN past ELSE Append(past, catalogue')
              /\ writes < MaxWrites /\ writes' = writes + 1
              /\ UNCHANGED <<pc, draft, answer, requests>>
              /\ \/ sequence' = sequence /\ catalogue[id] # Absent
                 \/ sequence' = sequence + 1 /\ id = sequence + 1
<1>1. ASSUME NEW bike \in Contents, NEW old \in Versions \cup {Absent}, writes < MaxWrites
      PROVE  \E n \in 0..MaxWrites :
                /\ Rowed(bike, old) = Version(bike, n)
                /\ old # Absent /\ old.dimension # Absent /\ bike.dimension # Absent =>
                      n = old.dimension.row
  <2>1. writes + 1 \in 0..MaxWrites /\ 0 \in 0..MaxWrites
    BY <1>1, BoundTypes DEF Based
  <2>2. CASE old # Absent /\ old.dimension # Absent /\ bike.dimension # Absent
    <3>1. PICK body \in Contents, m \in 0..MaxWrites : old = Version(body, m)
      BY <2>2 DEF Versions
    <3>2. old.dimension.row = m
      BY <2>2, <3>1, VersionHolds
    <3>3. Rowed(bike, old) = Version(bike, m)
      BY <2>2, <3>2 DEF Rowed, Version
    <3>4. QED
      BY <3>2, <3>3
  <2>3. CASE bike.dimension = Absent
    <3>1. Rowed(bike, old) = Version(bike, 0)
      BY <2>3 DEF Rowed, Version
    <3>2. QED
      BY <2>1, <2>3, <3>1
  <2>4. CASE bike.dimension # Absent /\ ~(old # Absent /\ old.dimension # Absent)
    <3>1. Rowed(bike, old) = Version(bike, writes + 1)
      BY <2>4 DEF Rowed, Version
    <3>2. QED
      BY <2>1, <2>4, <3>1
  <2>5. QED
    BY <2>2, <2>3, <2>4
<1>2. ASSUME NEW bike \in Contents, NEW old \in Versions \cup {Absent}, writes < MaxWrites,
             bike.engine # Absent
      PROVE  /\ Rowed(bike, old) \in Versions /\ Rowed(bike, old) # Absent
             /\ Rowed(bike, old).engine # Absent
             /\ old # Absent /\ old.dimension # Absent /\ Rowed(bike, old).dimension # Absent =>
                   Rowed(bike, old).dimension.row = old.dimension.row
  <2>1. PICK n \in 0..MaxWrites :
            /\ Rowed(bike, old) = Version(bike, n)
            /\ old # Absent /\ old.dimension # Absent /\ bike.dimension # Absent =>
                  n = old.dimension.row
    BY <1>1, <1>2
  <2>2. PICK v : v = Version(bike, n)
    OBVIOUS
  <2>3. /\ v # Absent /\ v.engine = bike.engine
        /\ v.dimension = Absent <=> bike.dimension = Absent
        /\ v.dimension # Absent => v.dimension.row = n
    BY <2>2, VersionHolds
  <2>4. v \in Versions
    BY <2>2 DEF Versions
  <2>5. QED
    BY <1>2, <2>1, <2>2, <2>3, <2>4
<1>3. ASSUME NEW id \in Ids, Put(id)
      PROVE  \E v \in Versions : /\ Committed(id, v) /\ v.engine # Absent /\ v # Absent
                                 /\ catalogue[id] # Absent /\ sequence' = sequence
                                 /\ catalogue[id].dimension # Absent /\ v.dimension # Absent =>
                                       v.dimension.row = catalogue[id].dimension.row
  <2>1. PICK bike \in Contents : bike.engine # Absent /\ Committed(id, Rowed(bike, catalogue[id]))
    BY <1>3 DEF Put
  <2>2. catalogue[id] # Absent /\ sequence' = sequence /\ writes < MaxWrites
    BY <1>3, <2>1 DEF Put, Committed
  <2>3. catalogue[id] \in Versions \cup {Absent}
    BY DEF Based, Tables
  <2>4. QED
    BY <1>2, <2>1, <2>2, <2>3
<1>4. ASSUME Post
      PROVE  \E v \in Versions : /\ Committed(sequence + 1, v) /\ v.engine # Absent /\ v # Absent
                                 /\ sequence + 1 \in Ids /\ sequence' = sequence + 1
                                 /\ catalogue[sequence + 1] = Absent
  <2>1. PICK bike \in Contents : bike.engine # Absent /\ Committed(sequence + 1, Rowed(bike, Absent))
    BY <1>4 DEF Post
  <2>2. sequence + 1 \in Ids /\ sequence' = sequence + 1 /\ writes < MaxWrites
    BY <1>4, <2>1 DEF Post, Committed
  <2>3. catalogue[sequence + 1] = Absent
    <3>1. sequence + 1 \notin 1..sequence
      BY DEF Based
    <3>2. QED
      BY <2>2, <3>1 DEF Based, There
  <2>4. QED
    BY <1>2, <2>1, <2>2, <2>3
<1>5. CASE \E id \in Ids : Put(id)
  BY <1>3, <1>5 DEF Committed
<1>6. CASE Post
  BY <1>4, <1>6 DEF Committed
<1>7. CASE \E id \in Ids : Delete(id)
  BY <1>7 DEF Delete, Committed
<1>8. QED
  BY <1>5, <1>6, <1>7 DEF Writing

\* A statement of a request changes the request only: it begins one, goes on to the next
\* statement, or answers.
Reading == Comparing \/ Searching \/ Counting

LEMMA ReadingEffect ==
    ASSUME Reading
    PROVE  /\ UNCHANGED <<catalogue, sequence, writes>>
           /\ \/ /\ pc = "idle" /\ requests < MaxRequests
                 /\ past' = <<catalogue>> /\ requests' = requests + 1
                 /\ pc' # "idle" => answer' = NoAnswer
              \/ /\ pc # "idle" /\ UNCHANGED <<past, requests>>
                 /\ pc' # "idle" => answer' = answer
<1>1. CASE Compare
  BY <1>1 DEF Compare, Begin
<1>2. CASE ReadRows
  BY <1>2 DEF ReadRows, Goes, Answer
<1>3. CASE ReadExtras
  BY <1>3 DEF ReadExtras, Answer
<1>4. CASE Search
  BY <1>4 DEF Search, Begin
<1>5. CASE ReadPage
  BY <1>5 DEF ReadPage, Goes
<1>6. CASE ReadCount
  BY <1>6 DEF ReadCount, Goes
<1>7. CASE LoadBlocks
  BY <1>7 DEF LoadBlocks, Goes, Answer
<1>8. CASE AnswerPage
  BY <1>8 DEF AnswerPage, Answer
<1>9. CASE Get
  BY <1>9 DEF Get, Begin
<1>10. CASE ReadBike
  BY <1>10 DEF ReadBike, Goes, Answer
<1>11. CASE ReadRest
  BY <1>11 DEF ReadRest, Answer
<1>12. CASE GetStats
  BY <1>12 DEF GetStats, Begin
<1>13. CASE ReadFigure
  BY <1>13 DEF ReadFigure, Goes, Answer
<1>14. QED
  BY <1>1, <1>2, <1>3, <1>4, <1>5, <1>6, <1>7, <1>8, <1>9, <1>10, <1>11, <1>12, <1>13
     DEF Reading, Comparing, Searching, Counting

LEMMA GreatestOf ==
    ASSUME NEW n \in Nat, NEW S \in SUBSET (0..n), S # {}
    PROVE  Max(S) \in S /\ \A i \in S : Max(S) >= i
<1> DEFINE Below == {p \in Nat \X Nat : p[1] < p[2]}
           T == {n - i : i \in S}
<1>1. IsWellFoundedOn(Below, Nat)
  BY NatLessThanWellFounded DEF OpToRel
<1>2. T \subseteq Nat /\ T # {}
  <2>1. \A i \in S : n - i \in Nat
    OBVIOUS
  <2>2. QED
    BY <2>1
<1>3. PICK x \in T : \A y \in T : ~(<<y, x>> \in Below)
  <2> HIDE DEF Below, T
  <2>1. QED
    BY <1>1, <1>2, WFMin
<1>4. \A y \in T : ~(y < x)
  BY <1>2, <1>3
<1>5. PICK m \in S : x = n - m
  OBVIOUS
<1>6. ASSUME NEW i \in S PROVE m >= i
  <2>1. n - i \in T
    OBVIOUS
  <2>2. ~(n - i < n - m)
    BY <1>4, <1>5, <2>1
  <2>3. i \in Int /\ m \in Int
    OBVIOUS
  <2>4. QED
    BY <2>2, <2>3
<1>7. \E k \in S : \A i \in S : k >= i
  BY <1>6
<1>8. QED
  BY <1>7 DEF Max

LEMMA InitBased == Init => Based
<1> SUFFICES ASSUME Init PROVE Based
  OBVIOUS
<1>1. catalogue \in Tables
  <2>1. catalogue \in [Ids -> Contents \cup {Absent}]
    BY SeedAssumption DEF Init
  <2>2. QED
    BY <2>1, ContentsAreVersions DEF Tables
<1>2. past \in Seq(Tables) /\ past # <<>>
  BY <1>1 DEF Init
<1>3. sequence \in Nat /\ There(catalogue) \subseteq 1..sequence
  <2> DEFINE n == Cardinality(Ids)
             S == {0} \cup There(catalogue)
  <2>1. n \in Nat /\ Ids = 1..n
    BY IdsAreNumbers
  <2> HIDE DEF n
  <2>2. S \subseteq 0..n /\ S # {}
    BY <2>1 DEF There
  <2>3. There(catalogue) \subseteq S /\ There(catalogue) \subseteq 1..n
    BY <2>1 DEF There
  <2>4. sequence = Max(S)
    BY DEF Init
  <2> HIDE DEF S
  <2>5. sequence \in S /\ \A i \in S : sequence >= i
    BY <2>1, <2>2, <2>4, GreatestOf
  <2>6. sequence \in 0..n
    BY <2>2, <2>5
  <2>7. QED
    BY <2>1, <2>3, <2>5, <2>6
<1>4. QED
  BY <1>1, <1>2, <1>3, BoundTypes DEF Based, Init

LEMMA BasedStays ==
    ASSUME Based, [Next]_vars
    PROVE  Based'
<1>1. CASE Writing
  <2>1. PICK id \in Ids, v \in Versions \cup {Absent} :
              /\ catalogue' = [catalogue EXCEPT ![id] = v]
              /\ v = Absent => catalogue[id] # Absent
              /\ past' = IF pc = "idle" THEN past ELSE Append(past, catalogue')
              /\ writes < MaxWrites /\ writes' = writes + 1
              /\ UNCHANGED <<pc, draft, answer, requests>>
              /\ \/ sequence' = sequence /\ catalogue[id] # Absent
                 \/ sequence' = sequence + 1 /\ id = sequence + 1
    BY <1>1, WritingEffect
  <2>2. catalogue' \in Tables
    BY <2>1 DEF Based, Tables
  <2>3. past' \in Seq(Tables) /\ past' # <<>> /\ (pc # "idle" => catalogue' = past'[Len(past')])
    <3>1. CASE pc = "idle"
      BY <2>1, <3>1 DEF Based
    <3>2. CASE pc # "idle"
      <4>1. past' = Append(past, catalogue') /\ past \in Seq(Tables)
        BY <2>1, <3>2 DEF Based
      <4>2. QED
        BY <2>2, <4>1
    <3>3. QED
      BY <3>1, <3>2
  <2>4. sequence' \in Nat /\ There(catalogue') \subseteq 1..sequence'
    <3>1. sequence \in Nat /\ \A i \in Ids : catalogue[i] # Absent => i \in 1..sequence
      BY DEF Based, There
    <3>2. \A i \in Ids : i # id => catalogue'[i] = catalogue[i]
      BY <2>1 DEF Based, Tables
    <3>3. sequence' \in Nat /\ 1..sequence \subseteq 1..sequence' /\ id \in 1..sequence'
      BY <2>1, <3>1
    <3>4. \A i \in Ids : catalogue'[i] # Absent => i \in 1..sequence'
      BY <3>1, <3>2, <3>3
    <3>5. QED
      BY <3>3, <3>4 DEF There
  <2>5. writes' \in 0..MaxWrites
    BY <2>1, BoundTypes DEF Based
  <2>6. QED
    BY <2>1, <2>2, <2>3, <2>4, <2>5 DEF Based
<1>2. CASE Reading
  <2>1. There(catalogue') = There(catalogue) /\ UNCHANGED <<catalogue, sequence, writes>>
    BY <1>2, ReadingEffect DEF There
  <2>2. CASE pc = "idle"
    <3>1. past' = <<catalogue>> /\ requests < MaxRequests /\ requests' = requests + 1
          /\ (pc' # "idle" => answer' = NoAnswer)
      BY <1>2, <2>2, ReadingEffect
    <3>2. past' \in Seq(Tables) /\ past' # <<>> /\ past'[Len(past')] = catalogue
      BY <3>1 DEF Based
    <3>3. requests' \in 0..MaxRequests
      BY <3>1, BoundTypes DEF Based
    <3>4. QED
      BY <2>1, <3>1, <3>2, <3>3 DEF Based
  <2>3. CASE pc # "idle"
    <3>1. UNCHANGED <<past, requests>> /\ (pc' # "idle" => answer' = answer)
      BY <1>2, <2>3, ReadingEffect
    <3>2. QED
      BY <2>1, <2>3, <3>1 DEF Based
  <2>4. QED
    BY <2>2, <2>3
<1>3. CASE Quiet \/ UNCHANGED vars
  BY <1>3 DEF Quiet, vars, Based, There
<1>4. QED
  BY <1>1, <1>2, <1>3 DEF Next, Reading

LEMMA SpecBased == Spec => []Based
<1>1. QED
  BY InitBased, BasedStays, PTL DEF Spec

------------------------------------------------------------------------------
(* The columns of a comparison *)

\* Of the ids a client sends each is taken once.
LEMMA MentionedOnce ==
    ASSUME NEW ids \in Seq(Ids)
    PROVE  FirstMentions(ids) \in Seq(Ids) /\ IsInjective(FirstMentions(ids))
<1> DEFINE places == {i \in DOMAIN ids : \A j \in 1..i - 1 : ids[j] # ids[i]}
           Rank(i) == Cardinality({j \in places : j <= i})
           n == Cardinality(places)
           rank == [i \in places |-> Rank(i)]
           Nth(m) == CHOOSE i \in places : Rank(i) = m
<1>1. DOMAIN ids = 1..Len(ids) /\ Len(ids) \in Nat /\ \A i \in DOMAIN ids : ids[i] \in Ids
  OBVIOUS
<1>2. places \subseteq 1..Len(ids) /\ \A i \in places : i \in Nat /\ ids[i] \in Ids
  BY <1>1
<1>3. \A i, j \in places : ids[i] = ids[j] => i = j
  <2>1. ASSUME NEW i \in places, NEW j \in places, i < j PROVE ids[i] # ids[j]
    <3>1. i \in 1..j - 1
      BY <1>2, <2>1
    <3>2. QED
      BY <3>1
  <2>2. ASSUME NEW i \in places, NEW j \in places, i # j PROVE i < j \/ j < i
    BY <1>2, <2>2
  <2>3. QED
    BY <2>1, <2>2
<1>4. IsFiniteSet(places) /\ n \in Nat
  <2> HIDE DEF places
  <2>1. IsFiniteSet(1..Len(ids))
    BY <1>1, FS_Interval
  <2>2. IsFiniteSet(places)
    BY <1>2, <2>1, FS_Subset
  <2>3. QED
    BY <2>2, FS_CardinalityType
<1> HIDE DEF places
<1>5. ASSUME NEW i \in places PROVE Rank(i) \in 1..n
  <2> DEFINE S == {j \in places : j <= i}
  <2>1. S \subseteq places /\ i \in S
    BY <1>2
  <2> HIDE DEF S
  <2>2. IsFiniteSet(S) /\ Cardinality(S) <= n /\ Cardinality(S) \in Nat
    BY <1>4, <2>1, FS_Subset, FS_CardinalityType
  <2>3. Cardinality(S) # 0
    BY <2>1, <2>2, FS_EmptySet
  <2>4. Cardinality(S) \in 1..n
    BY <1>4, <2>2, <2>3
  <2>5. QED
    BY <2>4 DEF S
<1>6. ASSUME NEW i \in places, NEW k \in places, i < k PROVE Rank(i) # Rank(k)
  <2> DEFINE S == {j \in places : j <= i}
             T == {j \in places : j <= k}
  <2>1. S \subseteq T /\ k \in T /\ k \notin S /\ T \subseteq places
    <3>1. \A j \in places : j \in Nat
      BY <1>2
    <3>2. i \in Nat /\ k \in Nat
      BY <3>1
    <3>3. ~(k <= i) /\ k <= k /\ \A j \in Nat : j <= i => j <= k
      BY <1>6, <3>2
    <3>4. QED
      BY <3>1, <3>3
  <2> HIDE DEF S, T
  <2>2. IsFiniteSet(T)
    BY <1>4, <2>1, FS_Subset
  <2>3. Cardinality(S) # Cardinality(T)
    <3>1. Cardinality(T) = Cardinality(S) => T = S
      BY <2>1, <2>2, FS_Subset
    <3>2. QED
      BY <2>1, <3>1
  <2>4. QED
    BY <2>3 DEF S, T
<1>7. rank \in Injection(places, 1..n)
  <2>1. rank \in [places -> 1..n]
    BY <1>5
  <2>2. ASSUME NEW i \in places, NEW k \in places, i # k PROVE rank[i] # rank[k]
    <3>1. i < k \/ k < i
      BY <1>2, <2>2
    <3>2. QED
      BY <1>6, <3>1
  <2>3. IsInjective(rank)
    BY <2>1, <2>2 DEF IsInjective
  <2>4. QED
    BY <2>1, <2>3 DEF Injection
<1>8. \A m \in 1..n : \E i \in places : Rank(i) = m
  <2>1. IsFiniteSet(1..n) /\ Cardinality(1..n) = n
    BY <1>4, FS_Interval
  <2>2. rank \in Surjection(places, 1..n)
    <3> HIDE DEF rank
    <3>1. QED
      BY <1>7, <2>1, FS_Injection
  <2>3. \A m \in 1..n : \E i \in places : rank[i] = m
    <3> HIDE DEF rank
    <3>1. QED
      BY <2>2 DEF Surjection
  <2>4. QED
    BY <2>3
<1>9. \A m \in 1..n : Nth(m) \in places /\ Rank(Nth(m)) = m
  <2> HIDE DEF Rank
  <2>1. QED
    BY <1>8
<1>10. FirstMentions(ids) = [m \in 1..n |-> ids[Nth(m)]]
  BY DEF FirstMentions, places
<1> HIDE DEF n, Nth, Rank
<1>11. [m \in 1..n |-> ids[Nth(m)]] \in Seq(Ids)
  <2>1. \A m \in 1..n : ids[Nth(m)] \in Ids
    BY <1>2, <1>9
  <2>2. QED
    BY <1>4, <2>1 DEF n
<1>12. IsInjective([m \in 1..n |-> ids[Nth(m)]])
  <2> DEFINE first == [m \in 1..n |-> ids[Nth(m)]]
  <2>1. ASSUME NEW a \in 1..n, NEW b \in 1..n, ids[Nth(a)] = ids[Nth(b)] PROVE a = b
    <3>1. Nth(a) = Nth(b)
      BY <1>3, <1>9, <2>1
    <3>2. Rank(Nth(a)) = a /\ Rank(Nth(b)) = b
      BY <1>9
    <3>3. QED
      BY <3>1, <3>2
  <2>2. DOMAIN first = 1..n /\ \A m \in 1..n : first[m] = ids[Nth(m)]
    OBVIOUS
  <2> HIDE DEF first
  <2>3. IsInjective(first)
    BY <2>1, <2>2 DEF IsInjective
  <2>4. QED
    BY <2>3 DEF first
<1>13. QED
  BY <1>10, <1>11, <1>12

------------------------------------------------------------------------------
(* The marks of a row *)

LEMMA LeastOf ==
    ASSUME NEW S \in SUBSET Nat, S # {}
    PROVE  Min(S) \in S /\ \A i \in S : Min(S) <= i
<1> DEFINE Below == {p \in Nat \X Nat : p[1] < p[2]}
<1>1. IsWellFoundedOn(Below, Nat)
  BY NatLessThanWellFounded DEF OpToRel
<1>2. PICK x \in S : \A y \in S : ~(<<y, x>> \in Below)
  <2> HIDE DEF Below
  <2>1. QED
    BY <1>1, WFMin
<1>3. ASSUME NEW y \in S PROVE x <= y
  <2>1. x \in Nat /\ y \in Nat /\ ~(<<y, x>> \in Below)
    BY <1>2
  <2>2. ~(y < x)
    BY <2>1
  <2>3. QED
    BY <2>1, <2>2
<1>4. QED
  BY <1>3 DEF Min

LEMMA GreatestFigure ==
    ASSUME NEW S \in SUBSET Nat, S # {}, IsFiniteSet(S)
    PROVE  Max(S) \in S /\ \A i \in S : Max(S) >= i
<1> DEFINE Above(i) == {j \in S : j > i}
           T == {Cardinality(Above(i)) : i \in S}
<1>1. \A i \in S : IsFiniteSet(Above(i)) /\ Cardinality(Above(i)) \in Nat
  <2> SUFFICES ASSUME NEW i \in S PROVE IsFiniteSet(Above(i)) /\ Cardinality(Above(i)) \in Nat
    OBVIOUS
  <2>1. Above(i) \in SUBSET S
    OBVIOUS
  <2> HIDE DEF Above
  <2>2. QED
    BY <2>1, FS_Subset, FS_CardinalityType
<1>2. T \in SUBSET Nat /\ T # {}
  <2> HIDE DEF Above
  <2>1. QED
    BY <1>1
<1>3. PICK i \in S : \A j \in S : Cardinality(Above(i)) <= Cardinality(Above(j))
  <2> HIDE DEF Above
  <2>1. Min(T) \in T /\ \A t \in T : Min(T) <= t
    <3> HIDE DEF T
    <3>1. QED
      BY <1>2, LeastOf
  <2>2. PICK i \in S : Min(T) = Cardinality(Above(i))
    BY <2>1
  <2>3. QED
    BY <2>1, <2>2
<1>4. ASSUME NEW j \in S, j > i PROVE FALSE
  <2>1. Above(j) \subseteq Above(i) /\ j \in Above(i) /\ j \notin Above(j)
    <3>1. i \in Nat /\ j \in Nat /\ \A k \in S : k \in Nat
      OBVIOUS
    <3>2. ~(j > j) /\ \A k \in Nat : k > j => k > i
      BY <1>4, <3>1
    <3>3. QED
      BY <1>4, <3>1, <3>2
  <2>2. /\ Cardinality(Above(i)) \in Nat /\ Cardinality(Above(j)) \in Nat
        /\ IsFiniteSet(Above(i)) /\ Cardinality(Above(i)) <= Cardinality(Above(j))
    BY <1>1, <1>3
  <2> HIDE DEF Above
  <2>3. Cardinality(Above(j)) <= Cardinality(Above(i))
    BY <2>1, <2>2, FS_Subset
  <2>4. Cardinality(Above(i)) = Cardinality(Above(j))
    BY <2>2, <2>3
  <2>5. Above(i) = Above(j)
    BY <2>1, <2>2, <2>4, FS_Subset
  <2>6. QED
    BY <2>1, <2>5
<1>5. \A j \in S : i >= j
  BY <1>4
<1>6. QED
  BY <1>5 DEF Max

\* The best of some figures is one of them, and none is better.
LEMMA BestOf ==
    ASSUME NEW S \in SUBSET Nat, S # {}, IsFiniteSet(S), NEW ranking
    PROVE  Best(S, ranking) \in S /\ \A x \in S : ~Better(x, Best(S, ranking), ranking)
<1>1. CASE ranking = "HIGHER_IS_BETTER"
  <2>1. PICK top : top = Max(S)
    OBVIOUS
  <2>2. top \in S /\ \A x \in S : top >= x
    BY <2>1, GreatestFigure
  <2>3. \A x \in S : ~(x > top)
    BY <2>2
  <2>4. QED
    BY <1>1, <2>1, <2>2, <2>3 DEF Best, Better
<1>2. CASE ranking # "HIGHER_IS_BETTER"
  <2>1. PICK top : top = Min(S)
    OBVIOUS
  <2>2. top \in S /\ \A x \in S : top <= x
    BY <2>1, LeastOf
  <2>3. \A x \in S : ~(x < top)
    BY <2>2
  <2>4. QED
    BY <1>2, <2>1, <2>2, <2>3 DEF Best, Better
<1>3. QED
  BY <1>1, <1>2

\* Who wins a row, and whether it differs.
Undominated(cells, ranking) ==
    {i \in DOMAIN cells :
        /\ \A j \in DOMAIN cells :
              ~(cells[i] # NULL /\ cells[j] # NULL /\ Better(cells[j], cells[i], ranking))
        /\ \E j \in DOMAIN cells :
              cells[j] # NULL /\ cells[i] # NULL /\ Better(cells[i], cells[j], ranking)}

LEMMA RowIsRight ==
    ASSUME NEW n \in Nat, NEW cells \in [1..n -> Nat \cup {NULL}], NEW ranking, ranking # "NONE"
    PROVE  /\ Winners(cells, ranking) = Undominated(cells, ranking)
           /\ Differing(cells) <=> Winners(cells, ranking) # {}
<1> DEFINE places == Published(cells)
           figures == {cells[i] : i \in places}
<1>1. places \subseteq 1..n /\ DOMAIN cells = 1..n
      /\ \A i \in 1..n : i \in places <=> cells[i] # NULL
  BY DEF Published
<1>2. figures \subseteq Nat /\ NULL \notin figures
  BY <1>1
<1>3. IsFiniteSet(figures)
  <2> DEFINE f == [i \in places |-> cells[i]]
  <2>1. IsFiniteSet(places)
    <3> HIDE DEF places
    <3>1. IsFiniteSet(1..n)
      BY FS_Interval
    <3>2. QED
      BY <1>1, <3>1, FS_Subset
  <2>2. f \in Surjection(places, figures)
    <3>1. f \in [places -> figures]
      OBVIOUS
    <3>2. \A y \in figures : \E i \in places : f[i] = y
      OBVIOUS
    <3> HIDE DEF f, figures
    <3>3. QED
      BY <3>1, <3>2 DEF Surjection
  <2> HIDE DEF f, figures, places
  <2>3. QED
    BY <2>1, <2>2, FS_Surjection
<1>4. CASE places = {}
  <2>1. Undominated(cells, ranking) = {}
    BY <1>1, <1>4 DEF Undominated
  <2>2. Winners(cells, ranking) = {}
    BY <1>4 DEF Winners
  <2>3. Cardinality(figures) = 0
    <3>1. figures = {}
      BY <1>4
    <3> HIDE DEF figures
    <3>2. QED
      BY <3>1, FS_EmptySet
  <2>4. ~Differing(cells)
    BY <2>3 DEF Differing
  <2>5. QED
    BY <2>1, <2>2, <2>4
<1>5. CASE places # {}
  <2> DEFINE top == Best(figures, ranking)
             best == {i \in DOMAIN cells : cells[i] = top}
  <2>1. figures # {}
    BY <1>5
  <2>2. top \in figures /\ \A x \in figures : ~Better(x, top, ranking)
    <3> HIDE DEF figures
    <3>1. QED
      BY <1>2, <1>3, <2>1, BestOf
  <2> HIDE DEF top
  <2>3. best \subseteq places /\ best # {} /\ top \in Nat /\ top # NULL
    BY <1>1, <1>2, <2>2
  <2>4. ASSUME NEW x \in figures, x # top PROVE Better(top, x, ranking)
    <3>1. x \in Nat /\ top \in Nat /\ ~Better(x, top, ranking)
      BY <1>2, <2>2, <2>3
    <3> HIDE DEF figures
    <3>2. QED
      BY <2>4, <3>1 DEF Better
  <2>5. Winners(cells, ranking) = IF best = places THEN {} ELSE best
    BY <1>5 DEF Winners, top
  <2>6. CASE best = places
    <3>1. \A i \in places : cells[i] = top
      BY <2>6
    <3>2. ~Better(top, top, ranking)
      BY <2>3 DEF Better
    <3>3. Undominated(cells, ranking) = {}
      BY <1>1, <3>1, <3>2 DEF Undominated
    <3>4. figures = {top}
      BY <2>2, <3>1
    <3>5. ~Differing(cells)
      <4>1. Cardinality({top}) = 1
        BY FS_Singleton
      <4>2. Cardinality(figures) = 1
        BY <3>4, <4>1
      <4> HIDE DEF figures
      <4>3. ~(Cardinality(figures) > 1)
        BY <4>2
      <4>4. QED
        BY <4>3 DEF Differing, figures
    <3>6. QED
      BY <2>5, <2>6, <3>3, <3>5
  <2>7. CASE best # places
    <3>1. PICK low \in places : cells[low] # top
      BY <2>3, <2>7, <1>1
    <3>2. cells[low] \in figures /\ Better(top, cells[low], ranking)
      BY <2>4, <3>1
    <3>3. ASSUME NEW i \in best PROVE i \in Undominated(cells, ranking)
      <4>1. i \in DOMAIN cells /\ cells[i] = top /\ cells[i] # NULL
        BY <2>3
      <4>2. \A j \in DOMAIN cells : cells[j] # NULL => ~Better(cells[j], cells[i], ranking)
        BY <1>1, <2>2, <4>1
      <4>3. low \in DOMAIN cells /\ cells[low] # NULL /\ Better(cells[i], cells[low], ranking)
        BY <1>1, <3>2, <4>1
      <4>4. QED
        BY <4>1, <4>2, <4>3 DEF Undominated
    <3>4. ASSUME NEW i \in Undominated(cells, ranking) PROVE i \in best
      <4>1. /\ i \in DOMAIN cells /\ cells[i] # NULL
            /\ \A j \in DOMAIN cells : cells[j] # NULL => ~Better(cells[j], cells[i], ranking)
        BY <3>4 DEF Undominated
      <4>2. cells[i] \in figures
        BY <1>1, <4>1
      <4>3. PICK j \in DOMAIN cells : cells[j] = top
        BY <2>3
      <4>4. ~Better(top, cells[i], ranking)
        BY <2>3, <4>1, <4>3
      <4>5. QED
        BY <2>4, <4>1, <4>2, <4>4
    <3>5. Cardinality(figures) > 1
      <4> DEFINE two == {top, cells[low]}
      <4>1. two \subseteq figures
        BY <2>2, <3>2
      <4>2. Cardinality(two) = 2
        <5>1. IsFiniteSet({top}) /\ Cardinality({top}) = 1
          BY FS_Singleton
        <5>2. two = {top} \cup {cells[low]} /\ cells[low] \notin {top}
          BY <3>1
        <5> HIDE DEF two
        <5>3. Cardinality(two) = 1 + 1
          BY <5>1, <5>2, FS_AddElement
        <5>4. QED
          BY <5>3
      <4> HIDE DEF two, figures
      <4>3. Cardinality(two) <= Cardinality(figures) /\ Cardinality(figures) \in Nat
        BY <1>3, <4>1, FS_Subset, FS_CardinalityType
      <4>4. QED
        BY <4>2, <4>3
    <3>6. Differing(cells)
      BY <3>5 DEF Differing
    <3>7. QED
      BY <2>3, <2>5, <2>7, <3>3, <3>4, <3>6
  <2>8. QED
    BY <2>6, <2>7
<1>6. QED
  BY <1>4, <1>5

------------------------------------------------------------------------------
(* A comparison *)

\* What an answer can be after a step.
LEMMA AnswerSteps ==
    ASSUME Based, [Next]_vars
    PROVE  \/ UNCHANGED <<answer, past>>
           \/ answer'.status \in {0, 400, 404}
           \/ ReadExtras
           \/ LoadBlocks /\ answer' = Broken(draft.ids) /\ UNCHANGED past
           \/ answer'.status = 200 /\ answer'.kind \in {"page", "bike", "figures"}
<1>1. CASE Writing
  <2>1. answer' = answer /\ past' = IF pc = "idle" THEN past ELSE Append(past, catalogue')
    BY <1>1, WritingEffect
  <2>2. pc # "idle" => answer'.status = 0
    BY <2>1 DEF Based, NoAnswer
  <2>3. QED
    BY <2>1, <2>2
<1>2. CASE Compare
  BY <1>2 DEF Compare, Begin, NoAnswer, Refused
<1>3. CASE ReadRows
  BY <1>3 DEF ReadRows, Goes, Answer, NotFound
<1>4. CASE ReadExtras
  BY <1>4
<1>5. CASE Search
  BY <1>5 DEF Search, Begin, NoAnswer, Refused
<1>6. CASE ReadPage
  BY <1>6 DEF ReadPage, Goes
<1>7. CASE ReadCount
  BY <1>7 DEF ReadCount, Goes
<1>8. CASE LoadBlocks
  BY <1>8 DEF LoadBlocks, Goes, Answer
<1>9. CASE AnswerPage
  BY <1>9 DEF AnswerPage, Answer
<1>10. CASE Get
  BY <1>10 DEF Get, Begin, NoAnswer
<1>11. CASE ReadBike
  BY <1>11 DEF ReadBike, Goes, Answer
<1>12. CASE ReadRest
  BY <1>12 DEF ReadRest, Answer
<1>13. CASE GetStats
  BY <1>13 DEF GetStats, Begin, NoAnswer
<1>14. CASE ReadFigure
  BY <1>14 DEF ReadFigure, Goes, Answer
<1>15. CASE Quiet \/ UNCHANGED vars
  BY <1>15 DEF Quiet, vars
<1>16. QED
  BY <1>1, <1>2, <1>3, <1>4, <1>5, <1>6, <1>7, <1>8, <1>9, <1>10, <1>11, <1>12, <1>13, <1>14, <1>15
     DEF Next, Comparing, Searching, Counting

\* A comparison has the ids once each, as many as it may have; and then all their bikes as
\* they were at one instant of the request.
TakenAt(k) ==
    \A i \in DOMAIN draft.ids :
        past[k][draft.ids[i]] # Absent /\ draft.rows[i] = past[k][draft.ids[i]]
Compared ==
    /\ pc \in {"rows", "extras"} =>
          draft.ids \in Seq(Ids) /\ IsInjective(draft.ids) /\ SizeAllowed(draft.ids)
    /\ pc = "extras" =>
          /\ DOMAIN draft.rows = DOMAIN draft.ids
          /\ \E k \in DOMAIN past : TakenAt(k)

\* The statements of the others lead to none of a comparison.
LEMMA OtherStatements ==
    ASSUME Searching \/ Counting
    PROVE  pc' \notin {"rows", "extras"}
<1>1. CASE Search
  BY <1>1 DEF Search, Begin
<1>2. CASE ReadPage
  BY <1>2 DEF ReadPage, Goes
<1>3. CASE ReadCount
  BY <1>3 DEF ReadCount, Goes
<1>4. CASE LoadBlocks
  BY <1>4 DEF LoadBlocks, Goes, Answer
<1>5. CASE AnswerPage
  BY <1>5 DEF AnswerPage, Answer
<1>6. CASE Get
  BY <1>6 DEF Get, Begin
<1>7. CASE ReadBike
  BY <1>7 DEF ReadBike, Goes, Answer
<1>8. CASE ReadRest
  BY <1>8 DEF ReadRest, Answer
<1>9. CASE GetStats
  BY <1>9 DEF GetStats, Begin
<1>10. CASE ReadFigure
  BY <1>10 DEF ReadFigure, Goes, Answer
<1>11. QED
  BY <1>1, <1>2, <1>3, <1>4, <1>5, <1>6, <1>7, <1>8, <1>9, <1>10 DEF Searching, Counting

LEMMA ComparedStays ==
    ASSUME Based, Compared, [Next]_vars
    PROVE  Compared'
<1>1. CASE Writing
  <2>1. /\ UNCHANGED <<pc, draft>>
        /\ past' = IF pc = "idle" THEN past ELSE Append(past, catalogue')
    BY <1>1, WritingEffect
  <2>2. ASSUME pc = "extras" PROVE \E k \in DOMAIN past' : TakenAt(k)'
    <3>1. PICK k \in DOMAIN past : TakenAt(k)
      BY <2>2 DEF Compared
    <3>2. k \in DOMAIN past' /\ past'[k] = past[k]
      <4>1. past \in Seq(Tables) /\ past' = Append(past, catalogue')
        BY <2>1, <2>2 DEF Based
      <4>2. DOMAIN past = 1..Len(past) /\ DOMAIN past' = 1..Len(past) + 1 /\ Len(past) \in Nat
            /\ \A j \in 1..Len(past) : past'[j] = past[j]
        BY <4>1
      <4>3. QED
        BY <4>2
    <3>3. QED
      BY <2>1, <3>1, <3>2 DEF TakenAt
  <2>3. QED
    BY <2>1, <2>2 DEF Compared
<1>2. CASE Compare
  <2>1. PICK ids \in Asked :
            IF TooMany(ids) \/ ~SizeAllowed(FirstMentions(ids))
            THEN Begin("idle", NoDraft, Refused)
            ELSE Begin("rows", [ids |-> FirstMentions(ids)], NoAnswer)
    BY <1>2 DEF Compare
  <2>2. PICK first : first = FirstMentions(ids)
    OBVIOUS
  <2>3. first \in Seq(Ids) /\ IsInjective(first)
    BY <2>2, AskedAssumption, MentionedOnce
  <2>4. CASE pc' = "idle"
    BY <2>4 DEF Compared
  <2>5. CASE pc' # "idle"
    <3>1. pc' = "rows" /\ draft' = [ids |-> first] /\ SizeAllowed(first)
      BY <2>1, <2>2, <2>5 DEF Begin
    <3>2. draft'.ids = first
      BY <3>1
    <3>3. QED
      BY <2>3, <3>1, <3>2 DEF Compared
  <2>6. QED
    BY <2>4, <2>5
<1>3. CASE ReadRows
  <2>1. CASE pc' = "idle"
    BY <2>1 DEF Compared
  <2>2. CASE pc' # "idle"
    <3>1. pc = "rows" /\ pc' = "extras" /\ past' = past
      BY <1>3, <2>2 DEF ReadRows, Goes, Answer
    <3>2. \A id \in ToSet(draft.ids) : catalogue[id] # Absent
      BY <1>3, <2>2 DEF ReadRows, Answer
    <3>3. draft' = [ids |-> draft.ids, rows |-> [i \in DOMAIN draft.ids |-> catalogue[draft.ids[i]]]]
      BY <1>3, <2>2 DEF ReadRows, Goes, Answer, Ordered
    <3>4. draft.ids \in Seq(Ids) /\ IsInjective(draft.ids) /\ SizeAllowed(draft.ids)
      BY <3>1 DEF Compared
    <3>5. catalogue = past[Len(past)] /\ Len(past) \in DOMAIN past
      BY <3>1 DEF Based
    <3>6. draft'.ids = draft.ids /\ DOMAIN draft'.rows = DOMAIN draft.ids
          /\ \A i \in DOMAIN draft.ids : draft'.rows[i] = catalogue[draft.ids[i]]
      BY <3>3
    <3>7. \A i \in DOMAIN draft.ids : catalogue[draft.ids[i]] # Absent
      BY <3>2 DEF ToSet
    <3>8. TakenAt(Len(past))'
      <4>1. past'[Len(past')] = catalogue
        BY <3>1, <3>5
      <4>2. QED
        BY <3>6, <3>7, <4>1 DEF TakenAt
    <3>9. \E k \in DOMAIN past' : TakenAt(k)'
      <4>1. TakenAt(Len(past))' <=> \A i \in DOMAIN draft'.ids :
                past'[Len(past')][draft'.ids[i]] # Absent /\ draft'.rows[i] = past'[Len(past')][draft'.ids[i]]
        BY DEF TakenAt
      <4>2. \E k \in DOMAIN past' : \A i \in DOMAIN draft'.ids :
                past'[k][draft'.ids[i]] # Absent /\ draft'.rows[i] = past'[k][draft'.ids[i]]
        BY <3>1, <3>5, <3>8, <4>1
      <4>3. QED
        BY <4>2 DEF TakenAt
    <3>10. QED
      BY <3>1, <3>4, <3>6, <3>9 DEF Compared
  <2>3. QED
    BY <2>1, <2>2
<1>4. CASE ReadExtras
  BY <1>4 DEF ReadExtras, Answer, Compared
<1>5. CASE Searching \/ Counting
  BY <1>5, OtherStatements DEF Compared
<1>6. CASE Quiet \/ UNCHANGED vars
  BY <1>6 DEF Quiet, vars, Compared, TakenAt
<1>7. QED
  BY <1>1, <1>2, <1>3, <1>4, <1>5, <1>6 DEF Next, Comparing

LEMMA SpecCompared == Spec => [](Based /\ Compared)
<1>1. Init => Compared
  BY DEF Init, Compared
<1>2. QED
  BY <1>1, SpecBased, ComparedStays, PTL DEF Spec

LEMMA ValueOfVersion ==
    ASSUME NEW bike \in Versions, NEW label \in DOMAIN Specs, Specs[label].ranking # "NONE"
    PROVE  Value(bike, label) \in Nat \cup {NULL}
<1>1. PICK body \in Contents, n \in 0..MaxWrites : bike = Version(body, n)
  BY DEF Versions
<1>2. /\ bike.motorcycle = body.motorcycle /\ bike.engine = body.engine
      /\ body.motorcycle # Absent
      /\ bike.dimension = Absent <=> body.dimension = Absent
      /\ bike.dimension # Absent =>
            /\ bike.dimension.row = n
            /\ \A c \in DOMAIN body.dimension : c # "row" => bike.dimension[c] = body.dimension[c]
  BY <1>1, VersionHolds
<1>3. PICK block : block = Specs[label].block
  OBVIOUS
<1>4. /\ block \in Blocks
      /\ body[block] # Absent => label \in DOMAIN body[block] /\ body[block][label] \in Nat \cup {NULL}
  BY <1>3, RegistryAssumption
<1>5. CASE block = "motorcycle"
  BY <1>2, <1>3, <1>4, <1>5 DEF Value
<1>6. CASE block = "engine"
  BY <1>2, <1>3, <1>4, <1>6 DEF Value
<1>7. CASE block = "dimension"
  <2>1. CASE bike.dimension = Absent
    BY <1>3, <1>7, <2>1 DEF Value
  <2>2. CASE bike.dimension # Absent
    <3>1. Value(bike, label) = bike.dimension[label]
      BY <1>3, <1>7, <2>2 DEF Value
    <3>2. label \in DOMAIN body.dimension /\ body.dimension[label] \in Nat \cup {NULL}
      BY <1>2, <1>4, <1>7, <2>2
    <3>3. CASE label = "row"
      <4>1. n \in Nat
        BY BoundTypes
      <4>2. QED
        BY <1>2, <2>2, <3>1, <3>3, <4>1
    <3>4. CASE label # "row"
      BY <1>2, <2>2, <3>1, <3>2, <3>4
    <3>5. QED
      BY <3>3, <3>4
  <2>3. QED
    BY <2>1, <2>2
<1>8. QED
  BY <1>4, <1>5, <1>6, <1>7 DEF Blocks

\* The table of a comparison, cell by cell.
Cells(label) == [i \in DOMAIN draft.rows |-> Value(draft.rows[i], label)]

LEMMA TableEffect ==
    ASSUME ReadExtras
    PROVE  /\ pc = "extras" /\ UNCHANGED <<catalogue, past>>
           /\ answer'.status = 200 /\ answer'.kind = "table" /\ answer'.ids = draft.ids
           /\ \A label \in DOMAIN Specs :
                 /\ answer'.typed[label].values = Cells(label)
                 /\ answer'.typed[label].winners = Winners(Cells(label), Specs[label].ranking)
                 /\ answer'.typed[label].differing <=> Differing(Cells(label))
           /\ \A key \in DOMAIN answer'.other, i \in DOMAIN draft.ids :
                 answer'.other[key].values[i] =
                    LET extras == Extras(catalogue, draft.ids[i])
                    IN  IF key \in DOMAIN extras THEN extras[key] ELSE NULL
<1> DEFINE extras == [i \in DOMAIN draft.ids |-> Extras(catalogue, draft.ids[i])]
<1>1. /\ pc = "extras" /\ UNCHANGED <<catalogue, past>>
      /\ answer' = [status |-> 200, kind |-> "table", ids |-> draft.ids,
                    typed |-> Typed(draft.rows), other |-> Other(extras)]
  BY DEF ReadExtras, Answer, Table
<1>2. /\ answer'.status = 200 /\ answer'.kind = "table" /\ answer'.ids = draft.ids
      /\ answer'.typed = Typed(draft.rows) /\ answer'.other = Other(extras)
  BY <1>1
<1>3. ASSUME NEW label \in DOMAIN Specs
      PROVE  Typed(draft.rows)[label] = Row(Cells(label), Specs[label].ranking)
  BY DEF Typed, Cells
<1>4. ASSUME NEW label \in DOMAIN Specs
      PROVE  /\ answer'.typed[label].values = Cells(label)
             /\ answer'.typed[label].winners = Winners(Cells(label), Specs[label].ranking)
             /\ answer'.typed[label].differing <=> Differing(Cells(label))
  <2>1. answer'.typed[label] = [values |-> Cells(label), winners |-> Winners(Cells(label), Specs[label].ranking),
                                differing |-> Differing(Cells(label))]
    BY <1>2, <1>3 DEF Row
  <2>2. QED
    BY <2>1
<1>5. ASSUME NEW key \in DOMAIN Other(extras), NEW i \in DOMAIN draft.ids
      PROVE  Other(extras)[key].values[i] = IF key \in DOMAIN extras[i] THEN extras[i][key] ELSE NULL
  <2> HIDE DEF extras
  <2>1. DOMAIN extras = DOMAIN draft.ids
    BY DEF extras
  <2>2. Other(extras)[key] =
            Row([j \in DOMAIN extras |-> IF key \in DOMAIN extras[j] THEN extras[j][key] ELSE NULL], "NONE")
    BY DEF Other
  <2>3. Other(extras)[key].values = [j \in DOMAIN extras |-> IF key \in DOMAIN extras[j] THEN extras[j][key] ELSE NULL]
    BY <2>2 DEF Row
  <2>4. QED
    BY <2>1, <2>3
<1>6. \A i \in DOMAIN draft.ids : extras[i] = Extras(catalogue, draft.ids[i])
  OBVIOUS
<1> HIDE DEF extras
<1>7. QED
  BY <1>1, <1>2, <1>4, <1>5, <1>6

\* The rows of a table that is read are the bikes of an instant, and its cells figures.
LEMMA CellsAreFigures ==
    ASSUME Based, Compared, pc = "extras", NEW label \in DOMAIN Specs, Specs[label].ranking # "NONE"
    PROVE  \E n \in Nat : Cells(label) \in [1..n -> Nat \cup {NULL}]
<1>1. PICK k \in DOMAIN past : TakenAt(k)
  BY DEF Compared
<1>2. DOMAIN draft.rows = DOMAIN draft.ids /\ draft.ids \in Seq(Ids)
  BY DEF Compared
<1>3. Len(draft.ids) \in Nat /\ DOMAIN draft.ids = 1..Len(draft.ids)
      /\ \A i \in DOMAIN draft.ids : draft.ids[i] \in Ids
  BY <1>2
<1>4. past[k] \in Tables
  BY DEF Based
<1>5. ASSUME NEW i \in DOMAIN draft.rows PROVE draft.rows[i] \in Versions
  <2>1. past[k][draft.ids[i]] \in Versions \cup {Absent}
    BY <1>2, <1>3, <1>4 DEF Tables
  <2>2. draft.rows[i] = past[k][draft.ids[i]] /\ past[k][draft.ids[i]] # Absent
    BY <1>1, <1>2 DEF TakenAt
  <2>3. QED
    BY <2>1, <2>2
<1>6. \A i \in DOMAIN draft.rows : Value(draft.rows[i], label) \in Nat \cup {NULL}
  BY <1>5, ValueOfVersion
<1>7. QED
  BY <1>2, <1>3, <1>6 DEF Cells

\* Shorter: the marks of every ranked row are what they must be.
MarksRight(typed) ==
    \A label \in DOMAIN Specs :
        Specs[label].ranking # "NONE" =>
            /\ typed[label].winners = Undominated(typed[label].values, Specs[label].ranking)
            /\ typed[label].differing <=> typed[label].winners # {}

\* Theorem.  In every comparison, of whatever bikes and while they are edited, a ranked row
\* marks exactly the bikes that no other beats and that beat another, by the figures it
\* prints, and it is marked as differing exactly if one wins.  (ComparisonService: winners,
\* differing; WinnersAreBest.)
THEOREM MarksAreRight == Spec => []WinnersAreBest
<1>1. Init => WinnersAreBest
  BY DEF Init, WinnersAreBest, Answered, NoAnswer
<1>2. ASSUME Based, Compared, WinnersAreBest, [Next]_vars PROVE WinnersAreBest'
  <2>1. CASE UNCHANGED <<answer, past>>
    BY <1>2, <2>1 DEF WinnersAreBest, Answered
  <2>2. CASE answer'.status # 200 \/ answer'.kind # "table"
    BY <2>2 DEF WinnersAreBest, Answered
  <2>3. CASE ReadExtras
    <3>1. MarksRight(answer'.typed)
      <4>1. SUFFICES ASSUME NEW label \in DOMAIN Specs, Specs[label].ranking # "NONE"
                     PROVE  /\ answer'.typed[label].winners =
                                   Undominated(answer'.typed[label].values, Specs[label].ranking)
                            /\ answer'.typed[label].differing <=> answer'.typed[label].winners # {}
        BY DEF MarksRight
      <4>2. PICK n \in Nat : Cells(label) \in [1..n -> Nat \cup {NULL}]
        BY <1>2, <2>3, <4>1, TableEffect, CellsAreFigures
      <4>3. /\ Winners(Cells(label), Specs[label].ranking) = Undominated(Cells(label), Specs[label].ranking)
            /\ Differing(Cells(label)) <=> Winners(Cells(label), Specs[label].ranking) # {}
        BY <4>1, <4>2, RowIsRight
      <4>4. QED
        BY <2>3, <4>3, TableEffect
    <3>2. QED
      BY <3>1 DEF MarksRight, Undominated, WinnersAreBest
  <2>4. QED
    BY <1>2, <2>1, <2>2, <2>3, AnswerSteps DEF Broken
<1>3. QED
  BY <1>1, <1>2, SpecCompared, PTL DEF Spec

\* Theorem.  Whatever is committed while a comparison is read, its typed rows show every
\* bike as it was at one instant of the request, in the column of its id, and its long-tail
\* rows at one instant, that one or a later one.  (ComparisonService.compare: one query with
\* the blocks joined, then the collections; ColumnsAreOfOneInstant.)
THEOREM ColumnsAreConsistent == Spec => []ColumnsAreOfOneInstant
<1>1. Init => ColumnsAreOfOneInstant
  BY DEF Init, ColumnsAreOfOneInstant, Answered, NoAnswer
<1>2. ASSUME Based, Compared, ColumnsAreOfOneInstant, [Next]_vars PROVE ColumnsAreOfOneInstant'
  <2>1. CASE UNCHANGED <<answer, past>>
    BY <1>2, <2>1 DEF ColumnsAreOfOneInstant, Answered
  <2>2. CASE answer'.status # 200 \/ answer'.kind # "table"
    BY <2>2 DEF ColumnsAreOfOneInstant, Answered
  <2>3. CASE ReadExtras
    <3>1. /\ pc = "extras" /\ past' = past /\ answer'.ids = draft.ids
          /\ \A label \in DOMAIN Specs : answer'.typed[label].values = Cells(label)
          /\ \A key \in DOMAIN answer'.other, i \in DOMAIN draft.ids :
                answer'.other[key].values[i] =
                   LET extras == Extras(catalogue, draft.ids[i])
                   IN  IF key \in DOMAIN extras THEN extras[key] ELSE NULL
      BY <2>3, TableEffect
    <3>2. PICK k \in DOMAIN past : TakenAt(k)
      BY <1>2, <3>1 DEF Compared
    <3>3. PICK l : l = Len(past)
      OBVIOUS
    <3>4. l \in DOMAIN past /\ k <= l /\ past[l] = catalogue
      BY <1>2, <3>1, <3>3 DEF Based
    <3>5. DOMAIN draft.rows = DOMAIN draft.ids
      BY <1>2, <3>1 DEF Compared
    <3>6. ASSUME NEW i \in DOMAIN draft.ids
          PROVE  /\ past[k][draft.ids[i]] # Absent
                 /\ \A label \in DOMAIN Specs :
                       answer'.typed[label].values[i] = Value(past[k][draft.ids[i]], label)
                 /\ LET extras == Extras(past[l], draft.ids[i])
                    IN  \A key \in DOMAIN answer'.other :
                           answer'.other[key].values[i] =
                               IF key \in DOMAIN extras THEN extras[key] ELSE NULL
      <4>1. past[k][draft.ids[i]] # Absent /\ draft.rows[i] = past[k][draft.ids[i]]
        BY <3>2 DEF TakenAt
      <4>2. \A label \in DOMAIN Specs : Cells(label)[i] = Value(past[k][draft.ids[i]], label)
        BY <3>5, <4>1 DEF Cells
      <4>3. QED
        BY <3>1, <3>4, <4>1, <4>2
    <3>7. QED
      BY <3>1, <3>4, <3>6 DEF ColumnsAreOfOneInstant, Extras
  <2>4. QED
    BY <1>2, <2>1, <2>2, <2>3, AnswerSteps DEF Broken
<1>3. QED
  BY <1>1, <1>2, SpecCompared, PTL DEF Spec

------------------------------------------------------------------------------
(* A page *)

\* A bike was removed during the request, or its dimension block was.
Racing(id) ==
    \E k \in 2..Len(past) :
        /\ past[k - 1][id] # Absent
        /\ \/ past[k][id] = Absent
           \/ past[k - 1][id].dimension # Absent /\ past[k][id].dimension = Absent

\* What the row of a page's bike refers to is still there.
Standing(i) ==
    LET bike == catalogue[draft.ids[i]]
        row == draft.rows[i]
    IN  /\ bike # Absent
        /\ row.engine # Absent => bike.engine # Absent
        /\ row.dimension # Absent =>
              bike.dimension # Absent /\ bike.dimension.row = row.dimension.row

Fields == {"query", "ids", "rows", "total", "loaded"}

\* What a page has read, and of which bikes the blocks can still be loaded.
Paged ==
    /\ pc = "page" => draft.query \in Queries
    /\ pc \in {"count", "blocks"} =>
          /\ draft = [field \in Fields |-> draft[field]]
          /\ draft.query \in Queries
          /\ draft.ids \in Seq(Ids) /\ Len(draft.ids) <= draft.query.size
          /\ DOMAIN draft.rows = DOMAIN draft.ids
          /\ draft.loaded = [part \in DOMAIN Nothing |-> draft.loaded[part]]
          /\ \A part \in DOMAIN Nothing : DOMAIN draft.loaded[part] \subseteq DOMAIN draft.ids
Traced ==
    pc \in {"count", "blocks"} => \A i \in DOMAIN draft.ids : Racing(draft.ids[i]) \/ Standing(i)

LEMMA OtherThanPages ==
    ASSUME Comparing \/ Counting \/ AnswerPage \/ Get \/ ReadBike \/ ReadRest
    PROVE  pc' \notin {"page", "count", "blocks"}
<1>1. CASE Compare
  BY <1>1 DEF Compare, Begin
<1>2. CASE ReadRows
  BY <1>2 DEF ReadRows, Goes, Answer
<1>3. CASE ReadExtras
  BY <1>3 DEF ReadExtras, Answer
<1>4. CASE AnswerPage
  BY <1>4 DEF AnswerPage, Answer
<1>5. CASE Get
  BY <1>5 DEF Get, Begin
<1>6. CASE ReadBike
  BY <1>6 DEF ReadBike, Goes, Answer
<1>7. CASE ReadRest
  BY <1>7 DEF ReadRest, Answer
<1>8. CASE GetStats
  BY <1>8 DEF GetStats, Begin
<1>9. CASE ReadFigure
  BY <1>9 DEF ReadFigure, Goes, Answer
<1>10. QED
  BY <1>1, <1>2, <1>3, <1>4, <1>5, <1>6, <1>7, <1>8, <1>9 DEF Comparing, Counting

\* A page is some of the bikes there are, at most as many as were asked for.
LEMMA SliceOf ==
    ASSUME NEW query \in Queries, NEW order \in Orders(query), NEW ids, ids = Slice(order, query)
    PROVE  /\ ids \in Seq(Ids) /\ Len(ids) <= query.size
           /\ \A i \in DOMAIN ids : catalogue[ids[i]] # Absent
<1> DEFINE found == Found(query.filter)
           n == Cardinality(found)
<1>1. found \subseteq Ids /\ \A id \in found : catalogue[id] # Absent
  BY DEF Found, There
<1> HIDE DEF found
<1>2. IsFiniteSet(found) /\ n \in Nat
  <2>1. IsFiniteSet(found)
    BY <1>1, BoundAssumption, FS_Subset
  <2>2. QED
    BY <2>1, FS_CardinalityType
<1>3. order \in [1..n -> found]
  <2>1. order \in SetToSeqs(found)
    BY DEF Orders, found
  <2>2. QED
    BY <2>1 DEF SetToSeqs
<1> HIDE DEF n
<1>4. PICK first : first = First(query)
  OBVIOUS
<1>5. first \in Nat /\ query.size \in Nat
  <2>1. query.page \in Nat /\ query.size \in Nat
    BY QueryAssumption
  <2>2. PICK page \in Nat, size \in Nat : page = query.page /\ size = query.size
    BY <2>1
  <2>3. page * size \in Nat
    BY <2>2
  <2>4. QED
    BY <1>4, <2>1, <2>2, <2>3 DEF First
<1>6. Len(order) = n
  BY <1>2, <1>3
<1> DEFINE last == Min({n, first + query.size})
<1>7. last \in {n, first + query.size} /\ last <= n /\ last <= first + query.size /\ last \in Nat
  <2> DEFINE S == {n, first + query.size}
  <2>1. S \in SUBSET Nat /\ S # {} /\ n \in S /\ first + query.size \in S
    BY <1>2, <1>5
  <2> HIDE DEF S
  <2>2. Min(S) \in S /\ Min(S) <= n /\ Min(S) <= first + query.size /\ Min(S) \in Nat
    BY <2>1, LeastOf
  <2>3. QED
    BY <2>2 DEF S
<1> HIDE DEF last
<1>8. ids = SubSeq(order, first + 1, last)
  BY <1>4, <1>6 DEF Slice, last
<1>9. \A i \in first + 1..last : order[i] \in found
  BY <1>2, <1>3, <1>5, <1>7
<1>10. /\ ids \in Seq(found)
       /\ Len(ids) = IF first + 1 <= last THEN last - (first + 1) + 1 ELSE 0
  <2>1. first + 1 \in Int /\ last \in Int
    BY <1>5, <1>7
  <2>2. PICK m \in Int : m = first + 1
    BY <2>1
  <2>3. \A i \in m..last : order[i] \in found
    BY <1>9, <2>2
  <2>4. /\ SubSeq(order, m, last) \in Seq(found)
        /\ Len(SubSeq(order, m, last)) = IF m <= last THEN last - m + 1 ELSE 0
    BY <2>1, <2>3, SubSeqProperties
  <2>5. QED
    BY <1>8, <2>2, <2>4
<1>11. Len(ids) <= query.size
  BY <1>5, <1>7, <1>10
<1>12. ids \in Seq(Ids) /\ \A i \in DOMAIN ids : ids[i] \in found
  BY <1>1, <1>10
<1>13. QED
  BY <1>1, <1>11, <1>12

LEMMA PartsOfNothing == DOMAIN Nothing = {"engine", "dimension", "extras"}
BY DEF Nothing

\* The block that is loaded next is one that is not read yet.
LEMMA TouchedIsUnread ==
    ASSUME DOMAIN draft.rows \subseteq Nat, NEW some \in DOMAIN Nothing, Unread(some) # {}
    PROVE  TouchedPart \in DOMAIN Nothing /\ Touched \in Unread(TouchedPart)
<1> DEFINE S == UNION {Unread(part) : part \in DOMAIN Nothing}
           Foremost(part) ==
              /\ Touched \in Unread(part)
              /\ part = "dimension" => Touched \notin Unread("engine")
              /\ part = "extras" => Touched \notin Unread("engine") \cup Unread("dimension")
<1>1. S \in SUBSET Nat /\ S # {}
  BY DEF Unread
<1>2. Touched \in S
  <2>1. Touched = Min(S)
    BY DEF Touched
  <2> HIDE DEF S
  <2>2. QED
    BY <1>1, <2>1, LeastOf
<1>3. PICK part \in DOMAIN Nothing : Touched \in Unread(part)
  BY <1>2
<1>4. \E p \in DOMAIN Nothing : Foremost(p)
  <2>1. CASE Touched \in Unread("engine")
    BY <2>1, PartsOfNothing
  <2>2. CASE Touched \notin Unread("engine") /\ Touched \in Unread("dimension")
    BY <2>2, PartsOfNothing
  <2>3. CASE Touched \notin Unread("engine") /\ Touched \notin Unread("dimension")
    <3>1. part = "extras"
      BY <1>3, <2>3, PartsOfNothing
    <3>2. Foremost("extras")
      BY <1>3, <2>3, <3>1
    <3>3. QED
      BY <3>2, PartsOfNothing
  <2>4. QED
    BY <2>1, <2>2, <2>3
<1>5. TouchedPart = CHOOSE p \in DOMAIN Nothing : Foremost(p)
  BY DEF TouchedPart
<1>6. TouchedPart \in DOMAIN Nothing /\ Foremost(TouchedPart)
  <2> HIDE DEF Foremost
  <2>1. QED
    BY <1>4, <1>5
<1>7. QED
  BY <1>6

\* What is read of one block was loaded before, or is what the table holds.
Fresh(read, part) ==
    \A i \in DOMAIN read : \/ RowThere(i, part) /\ read[i] = Block(i, part)
                           \/ i \in DOMAIN draft.loaded[part] /\ read[i] = draft.loaded[part][i]

\* Loading a batch adds to what is loaded of one block what the table now holds, or ends in a
\* failure at a bike whose block is gone.
LEMMA LoadEffect ==
    ASSUME Paged, LoadBlocks
    PROVE  /\ pc = "blocks" /\ UNCHANGED <<catalogue, past>>
           /\ \/ /\ pc' = "blocks" /\ answer' = answer
                 /\ \E part \in DOMAIN Nothing : \E read :
                       /\ draft' = [draft EXCEPT !.loaded = [draft.loaded EXCEPT ![part] = read]]
                       /\ DOMAIN read \subseteq DOMAIN draft.ids
                       /\ Fresh(read, part)
              \/ /\ pc' = "idle" /\ answer' = Broken(draft.ids)
                 /\ \E i \in DOMAIN draft.ids : ~Standing(i)
<1> DEFINE part == TouchedPart
<1>1. PICK batch \in Batches(part) :
        LET there == {i \in batch : RowThere(i, part)}
            read == [i \in there \cup DOMAIN draft.loaded[part] |->
                        IF i \in there THEN Block(i, part) ELSE draft.loaded[part][i]]
        IN  IF Touched \in there THEN Goes("blocks", [draft EXCEPT !.loaded[part] = read])
            ELSE Answer(Broken(draft.ids))
  BY DEF LoadBlocks
<1> DEFINE there == {i \in batch : RowThere(i, part)}
           read == [i \in there \cup DOMAIN draft.loaded[part] |->
                        IF i \in there THEN Block(i, part) ELSE draft.loaded[part][i]]
<1>2. /\ pc = "blocks" /\ DOMAIN draft.rows = DOMAIN draft.ids /\ draft.ids \in Seq(Ids)
      /\ \A p \in DOMAIN Nothing : DOMAIN draft.loaded[p] \subseteq DOMAIN draft.ids
  BY DEF LoadBlocks, Paged
<1>3. part \in DOMAIN Nothing /\ Touched \in Unread(part)
  <2>1. PICK some \in DOMAIN Nothing : Unread(some) # {}
    BY DEF LoadBlocks
  <2>2. DOMAIN draft.rows \subseteq Nat
    BY <1>2
  <2>3. QED
    BY <2>1, <2>2, TouchedIsUnread
<1>4. batch \subseteq Unread(part) /\ Touched \in batch
  BY <1>1 DEF Batches, kSubset
<1>5. Unread(part) \subseteq DOMAIN draft.ids
  BY <1>2 DEF Unread
<1> HIDE DEF part
<1>6. CASE Touched \in there
  <2>1. Goes("blocks", [draft EXCEPT !.loaded = [draft.loaded EXCEPT ![part] = read]])
    BY <1>1, <1>6
  <2>2. DOMAIN read \subseteq DOMAIN draft.ids
    BY <1>2, <1>3, <1>4, <1>5
  <2>3. Fresh(read, part)
    BY DEF Fresh
  <2> HIDE DEF read
  <2>4. QED
    BY <1>2, <1>3, <2>1, <2>2, <2>3 DEF Goes
<1>7. CASE Touched \notin there
  <2>1. Answer(Broken(draft.ids))
    BY <1>1, <1>7
  <2>2. ~RowThere(Touched, part)
    BY <1>4, <1>7
  <2>3. Touched \in DOMAIN draft.ids /\ Has(draft.rows[Touched], part)
    BY <1>3, <1>5 DEF Unread
  <2>4. part \in {"engine", "dimension"}
    BY <1>3, <2>2, PartsOfNothing DEF RowThere
  <2>5. ASSUME part = "engine" PROVE ~Standing(Touched)
    BY <2>2, <2>3, <2>5 DEF RowThere, Has, Standing
  <2>6. ASSUME part = "dimension" PROVE ~Standing(Touched)
    BY <2>2, <2>3, <2>6 DEF RowThere, Has, Standing
  <2>7. ~Standing(Touched)
    BY <2>4, <2>5, <2>6
  <2>8. QED
    BY <1>2, <2>1, <2>3, <2>7 DEF Answer
<1>8. QED
  BY <1>6, <1>7

LEMMA ReadPageEffect ==
    ASSUME ReadPage, draft.query \in Queries
    PROVE  /\ pc = "page" /\ pc' \in {"count", "blocks"} /\ UNCHANGED <<catalogue, past>>
           /\ draft' = [field \in Fields |-> draft'[field]]
           /\ draft'.query = draft.query
           /\ draft'.ids \in Seq(Ids) /\ Len(draft'.ids) <= draft.query.size
           /\ draft'.rows = [i \in DOMAIN draft'.ids |-> catalogue[draft'.ids[i]]]
           /\ draft'.loaded = Nothing
           /\ \A i \in DOMAIN draft'.ids : catalogue[draft'.ids[i]] # Absent
<1>1. PICK order \in Orders(draft.query) :
        LET ids == Slice(order, draft.query)
        IN  Goes(IF Counted(ids, draft.query) THEN "count" ELSE "blocks",
                 [query |-> draft.query, ids |-> ids, rows |-> [i \in DOMAIN ids |-> catalogue[ids[i]]],
                  total |-> First(draft.query) + Len(ids), loaded |-> Nothing])
  BY DEF ReadPage
<1>2. PICK ids : ids = Slice(order, draft.query)
  OBVIOUS
<1>3. /\ ids \in Seq(Ids) /\ Len(ids) <= draft.query.size
      /\ \A i \in DOMAIN ids : catalogue[ids[i]] # Absent
  BY <1>2, SliceOf
<1>4. PICK rows : rows = [i \in DOMAIN ids |-> catalogue[ids[i]]]
  OBVIOUS
<1>5. PICK total : total = First(draft.query) + Len(ids)
  OBVIOUS
<1>6. /\ pc = "page" /\ pc' \in {"count", "blocks"} /\ UNCHANGED <<catalogue, past>>
      /\ draft' = [query |-> draft.query, ids |-> ids, rows |-> rows, total |-> total, loaded |-> Nothing]
  BY <1>1, <1>2, <1>4, <1>5 DEF ReadPage, Goes
<1>7. /\ draft' = [field \in Fields |-> draft'[field]]
      /\ draft'.query = draft.query /\ draft'.ids = ids /\ draft'.rows = rows /\ draft'.loaded = Nothing
  BY <1>6 DEF Fields
<1>8. QED
  BY <1>3, <1>4, <1>6, <1>7

LEMMA PagedStays ==
    ASSUME Based, Paged, [Next]_vars
    PROVE  Paged'
<1>1. CASE Writing
  <2>1. UNCHANGED <<pc, draft>>
    BY <1>1, WritingEffect
  <2>2. QED
    BY <2>1 DEF Paged
<1>2. CASE Search
  <2>1. PICK query \in Queries :
            IF query.sort \in Sortable THEN Begin("page", [query |-> query], NoAnswer)
            ELSE Begin("idle", NoDraft, Refused)
    BY <1>2 DEF Search
  <2>2. CASE pc' = "page"
    <3>1. draft' = [query |-> query]
      BY <2>1, <2>2 DEF Begin
    <3>2. draft'.query = query
      BY <3>1
    <3>3. QED
      BY <2>2, <3>2 DEF Paged
  <2>3. CASE pc' # "page"
    BY <2>1, <2>3 DEF Begin, Paged
  <2>4. QED
    BY <2>2, <2>3
<1>3. CASE ReadPage
  <2>1. draft.query \in Queries
    BY <1>3 DEF ReadPage, Paged
  <2>2. DOMAIN draft'.rows = DOMAIN draft'.ids
    BY <1>3, <2>1, ReadPageEffect
  <2>3. draft'.loaded = [part \in DOMAIN Nothing |-> draft'.loaded[part]]
        /\ \A part \in DOMAIN Nothing : DOMAIN draft'.loaded[part] \subseteq DOMAIN draft'.ids
    <3>1. draft'.loaded = Nothing
      BY <1>3, <2>1, ReadPageEffect
    <3>2. \A part \in DOMAIN Nothing : DOMAIN Nothing[part] = {}
      BY DEF Nothing
    <3>3. Nothing = [part \in DOMAIN Nothing |-> Nothing[part]]
      BY DEF Nothing
    <3>4. QED
      BY <3>1, <3>2, <3>3
  <2>4. QED
    BY <1>3, <2>1, <2>2, <2>3, ReadPageEffect DEF Paged
<1>4. CASE ReadCount
  <2>1. /\ draft = [field \in Fields |-> draft[field]]
        /\ pc = "count" /\ pc' = "blocks"
    BY <1>4 DEF ReadCount, Goes, Paged
  <2>2. PICK total : draft' = [draft EXCEPT !.total = total]
    BY <1>4 DEF ReadCount, Goes
  <2>3. /\ draft' = [field \in Fields |-> draft'[field]]
        /\ draft'.query = draft.query /\ draft'.ids = draft.ids /\ draft'.rows = draft.rows
        /\ draft'.loaded = draft.loaded
    BY <2>1, <2>2 DEF Fields
  <2>4. QED
    BY <2>1, <2>3 DEF Paged
<1>5. CASE LoadBlocks
  <2>1. CASE pc' = "idle"
    BY <2>1 DEF Paged
  <2>2. CASE pc' # "idle"
    <3>1. pc = "blocks" /\ pc' = "blocks"
      BY <1>5, <2>2, LoadEffect
    <3>2. PICK part \in DOMAIN Nothing :
            \E read : /\ draft' = [draft EXCEPT !.loaded = [draft.loaded EXCEPT ![part] = read]]
                      /\ DOMAIN read \subseteq DOMAIN draft.ids
      BY <1>5, <2>2, LoadEffect
    <3>3. PICK read : /\ draft' = [draft EXCEPT !.loaded = [draft.loaded EXCEPT ![part] = read]]
                      /\ DOMAIN read \subseteq DOMAIN draft.ids
      BY <3>2
    <3>4. /\ draft = [field \in Fields |-> draft[field]]
          /\ draft.loaded = [p \in DOMAIN Nothing |-> draft.loaded[p]]
          /\ \A p \in DOMAIN Nothing : DOMAIN draft.loaded[p] \subseteq DOMAIN draft.ids
      BY <3>1 DEF Paged
    <3>5. PICK loaded : loaded = [draft.loaded EXCEPT ![part] = read]
      OBVIOUS
    <3>6. /\ draft' = [field \in Fields |-> draft'[field]]
          /\ draft'.query = draft.query /\ draft'.ids = draft.ids /\ draft'.rows = draft.rows
          /\ draft'.loaded = loaded
      BY <3>3, <3>4, <3>5 DEF Fields
    <3>7. /\ loaded = [p \in DOMAIN Nothing |-> loaded[p]]
          /\ \A p \in DOMAIN Nothing : DOMAIN loaded[p] \subseteq DOMAIN draft.ids
      BY <3>3, <3>4, <3>5
    <3>8. QED
      BY <3>1, <3>6, <3>7 DEF Paged
  <2>3. QED
    BY <2>1, <2>2
<1>6. CASE Comparing \/ Counting \/ AnswerPage \/ Get \/ ReadBike \/ ReadRest
  BY <1>6, OtherThanPages DEF Paged
<1>7. CASE Quiet \/ UNCHANGED vars
  BY <1>7 DEF Quiet, vars, Paged
<1>8. QED
  BY <1>1, <1>2, <1>3, <1>4, <1>5, <1>6, <1>7 DEF Next, Searching

\* A commit during a request that removes a bike, or the dimension block of one, is a racing
\* removal, and stays one.
LEMMA RacingAfterCommit ==
    ASSUME Based, pc # "idle", past' = Append(past, catalogue'), NEW id,
           \/ Racing(id)
           \/ /\ catalogue[id] # Absent
              /\ \/ catalogue'[id] = Absent
                 \/ catalogue[id].dimension # Absent /\ catalogue'[id].dimension = Absent
    PROVE  Racing(id)'
<1>1. /\ past \in Seq(Tables) /\ Len(past) \in Nat \ {0} /\ catalogue = past[Len(past)]
  BY DEF Based
<1>2. /\ Len(past') = Len(past) + 1
      /\ \A k \in 1..Len(past) : past'[k] = past[k]
      /\ past'[Len(past) + 1] = catalogue'
  BY <1>1
<1>3. CASE Racing(id)
  <2>1. PICK k \in 2..Len(past) :
            /\ past[k - 1][id] # Absent
            /\ \/ past[k][id] = Absent
               \/ past[k - 1][id].dimension # Absent /\ past[k][id].dimension = Absent
    BY <1>3 DEF Racing
  <2>2. /\ k \in 2..Len(past') /\ past'[k - 1] = past[k - 1] /\ past'[k] = past[k]
    <3>1. k \in 1..Len(past) /\ k - 1 \in 1..Len(past) /\ k \in 2..Len(past) + 1
      BY <1>1, <2>1
    <3>2. QED
      BY <1>2, <3>1
  <2>3. QED
    BY <2>1, <2>2 DEF Racing
<1>4. CASE /\ catalogue[id] # Absent
           /\ \/ catalogue'[id] = Absent
              \/ catalogue[id].dimension # Absent /\ catalogue'[id].dimension = Absent
  <2> DEFINE k == Len(past) + 1
  <2>1. k \in 2..Len(past') /\ k - 1 = Len(past)
    BY <1>1, <1>2
  <2>2. past'[k - 1] = catalogue /\ past'[k] = catalogue'
    <3>1. Len(past) \in 1..Len(past)
      BY <1>1
    <3>2. past'[Len(past)] = catalogue
      BY <1>1, <1>2, <3>1
    <3>3. QED
      BY <1>2, <2>1, <3>2
  <2> HIDE DEF k
  <2>3. QED
    BY <1>4, <2>1, <2>2 DEF Racing
<1>5. QED
  BY <1>3, <1>4

LEMMA TracedStays ==
    ASSUME Based, Paged, Traced, [Next]_vars
    PROVE  Traced'
<1>1. CASE Writing
  <2> SUFFICES ASSUME pc \in {"count", "blocks"}, NEW i \in DOMAIN draft.ids, ~Racing(draft.ids[i])'
               PROVE  Standing(i)'
    <3>1. UNCHANGED <<pc, draft>>
      BY <1>1, WritingEffect
    <3>2. QED
      BY <3>1 DEF Traced
  <2>1. PICK id \in Ids, v \in Versions \cup {Absent} :
              /\ catalogue' = [catalogue EXCEPT ![id] = v]
              /\ v # Absent =>
                    /\ v.engine # Absent
                    /\ catalogue[id] # Absent /\ catalogue[id].dimension # Absent /\ v.dimension # Absent =>
                          v.dimension.row = catalogue[id].dimension.row
              /\ past' = IF pc = "idle" THEN past ELSE Append(past, catalogue')
              /\ UNCHANGED <<pc, draft>>
    BY <1>1, WritingEffect
  <2>2. PICK own : own = draft.ids[i]
    OBVIOUS
  <2>3. own \in Ids /\ DOMAIN catalogue = Ids
    BY <2>2 DEF Paged, Based, Tables
  <2>4. past' = Append(past, catalogue') /\ ~Racing(own)'
    <3>1. draft'.ids = draft.ids
      BY <2>1
    <3>2. Racing(own)' <=> Racing(draft.ids[i])'
      BY <2>2, <3>1 DEF Racing
    <3>3. QED
      BY <2>1, <3>2
  <2>5. /\ ~Racing(own)
        /\ catalogue[own] # Absent =>
              /\ catalogue'[own] # Absent
              /\ ~(catalogue[own].dimension # Absent /\ catalogue'[own].dimension = Absent)
    BY <2>4, RacingAfterCommit
  <2>6. Standing(i)
    BY <2>2, <2>5 DEF Traced
  <2>7. CASE own = id
    <3>1. catalogue'[own] = v /\ v # Absent /\ v.engine # Absent
      BY <2>1, <2>2, <2>3, <2>5, <2>6, <2>7 DEF Standing
    <3>2. catalogue[own].dimension # Absent =>
             v.dimension # Absent /\ v.dimension.row = catalogue[own].dimension.row
      BY <2>1, <2>2, <2>5, <2>6, <2>7, <3>1 DEF Standing
    <3>3. QED
      BY <2>1, <2>2, <2>6, <3>1, <3>2 DEF Standing
  <2>8. CASE own # id
    <3>1. catalogue'[own] = catalogue[own]
      BY <2>1, <2>3, <2>8
    <3>2. QED
      BY <2>1, <2>2, <2>6, <3>1 DEF Standing
  <2>9. QED
    BY <2>7, <2>8
<1>2. CASE Search
  BY <1>2 DEF Search, Begin, Traced
<1>3. CASE ReadPage
  <2>1. draft.query \in Queries
    BY <1>3 DEF ReadPage, Paged
  <2>2. /\ catalogue' = catalogue
        /\ draft'.rows = [i \in DOMAIN draft'.ids |-> catalogue[draft'.ids[i]]]
        /\ \A i \in DOMAIN draft'.ids : catalogue[draft'.ids[i]] # Absent
    BY <1>3, <2>1, ReadPageEffect
  <2>3. \A i \in DOMAIN draft'.ids : draft'.rows[i] = catalogue[draft'.ids[i]]
    BY <2>2
  <2>4. \A i \in DOMAIN draft'.ids : Standing(i)'
    BY <2>2, <2>3 DEF Standing
  <2>5. QED
    BY <2>4 DEF Traced
<1>4. CASE ReadCount \/ (LoadBlocks /\ pc' # "idle")
  <2>1. /\ pc \in {"count", "blocks"} /\ draft = [field \in Fields |-> draft[field]]
        /\ UNCHANGED <<catalogue, past>>
    <3>1. pc \in {"count", "blocks"} /\ UNCHANGED <<catalogue, past>>
      BY <1>4, LoadEffect DEF ReadCount, Goes
    <3>2. QED
      BY <3>1 DEF Paged
  <2>2. draft'.ids = draft.ids /\ draft'.rows = draft.rows
    <3>1. CASE ReadCount
      <4>1. PICK total : draft' = [draft EXCEPT !.total = total]
        BY <3>1 DEF ReadCount, Goes
      <4>2. QED
        BY <2>1, <4>1 DEF Fields
    <3>2. CASE LoadBlocks /\ pc' # "idle"
      <4>1. PICK loaded : draft' = [draft EXCEPT !.loaded = loaded]
        BY <3>2, LoadEffect
      <4>2. QED
        BY <2>1, <4>1 DEF Fields
    <3>3. QED
      BY <1>4, <3>1, <3>2
  <2>3. QED
    BY <2>1, <2>2 DEF Traced, Racing, Standing
<1>5. CASE pc' = "idle"
  BY <1>5 DEF Traced
<1>6. CASE Comparing \/ Counting \/ AnswerPage \/ Get \/ ReadBike \/ ReadRest
  BY <1>6, OtherThanPages DEF Traced
<1>7. CASE Quiet \/ UNCHANGED vars
  BY <1>7 DEF Quiet, vars, Traced, Racing, Standing
<1>8. QED
  BY <1>1, <1>2, <1>3, <1>4, <1>5, <1>6, <1>7 DEF Next, Searching

LEMMA SpecTraced == Spec => [](Based /\ Paged /\ Traced)
<1>1. Init => Paged /\ Traced
  BY DEF Init, Paged, Traced
<1>2. QED
  BY <1>1, SpecBased, PagedStays, TracedStays, PTL DEF Spec

\* Theorem.  However long a page is read and whatever is written meanwhile, it fails only if
\* one of its bikes, or the dimension block of one, was removed during the request; all other
\* requests never fail.  (MotorcycleResponse.from, which loads the lazy blocks outside of the
\* query that found the page; FailsOnlyRacingRemovals.)
THEOREM PagesFailOnlyByRemovals == Spec => []FailsOnlyRacingRemovals
<1>1. Init => FailsOnlyRacingRemovals
  BY DEF Init, FailsOnlyRacingRemovals, NoAnswer
<1>2. ASSUME Based, Paged, Traced, FailsOnlyRacingRemovals, [Next]_vars
      PROVE  FailsOnlyRacingRemovals'
  <2>1. CASE UNCHANGED <<answer, past>>
    BY <1>2, <2>1 DEF FailsOnlyRacingRemovals
  <2>2. CASE answer'.status # 500
    BY <2>2 DEF FailsOnlyRacingRemovals
  <2>3. CASE LoadBlocks /\ answer' = Broken(draft.ids) /\ UNCHANGED past
    <3>1. pc = "blocks"
      BY <2>3 DEF LoadBlocks
    <3>2. CASE \E i \in DOMAIN draft.ids : ~Standing(i)
      <4>1. PICK i \in DOMAIN draft.ids : Racing(draft.ids[i])
        BY <1>2, <3>1, <3>2 DEF Traced
      <4>2. answer'.ids = draft.ids /\ draft.ids[i] \in ToSet(draft.ids)
        BY <2>3 DEF Broken, ToSet
      <4>3. QED
        BY <2>3, <4>1, <4>2 DEF FailsOnlyRacingRemovals, Racing
    <3>3. CASE answer' = answer
      BY <1>2, <2>3, <3>3 DEF FailsOnlyRacingRemovals
    <3>4. QED
      BY <1>2, <2>3, <3>2, <3>3, LoadEffect
  <2>4. CASE ReadExtras
    <3>1. answer'.status = 200
      BY <2>4, TableEffect
    <3>2. QED
      BY <2>2, <3>1
  <2>5. QED
    BY <1>2, <2>1, <2>2, <2>3, <2>4, AnswerSteps
<1>3. QED
  BY <1>1, <1>2, SpecTraced, PTL DEF Spec

------------------------------------------------------------------------------
(* Types *)

\* A single bike, and the figures read so far: never as many as there are.
Single ==
    /\ pc = "bike" => DOMAIN draft.ids = 1..1
    /\ pc = "rest" => DOMAIN draft.rows = DOMAIN draft.ids
FiguresLeft ==
    pc = "figures" =>
        /\ DOMAIN draft \subseteq ToSet(Figures)
        /\ IsFiniteSet(DOMAIN draft) /\ Cardinality(DOMAIN draft) < Len(Figures)
Statements ==
    /\ pc \in {"idle", "rows", "extras", "page", "count", "blocks", "bike", "rest", "figures"}
    /\ answer.status \in {0, 200, 400, 404, 500}

LEMMA FiguresAre == Len(Figures) = 11 /\ \A n \in 1..11 : Figures[n] \in ToSet(Figures)
<1>1. Len(Figures) = 11 /\ DOMAIN Figures = 1..11
  BY DEF Figures
<1>2. QED
  BY <1>1 DEF ToSet

LEMMA FigureEffect ==
    ASSUME ReadFigure, FiguresLeft
    PROVE  pc' = "idle" \/ (pc' = "figures" /\ FiguresLeft')
<1> DEFINE n == Cardinality(DOMAIN draft) + 1
           figures == [name \in DOMAIN draft \cup {Figures[n]} |->
                          IF name = Figures[n] THEN Figure(name) ELSE draft[name]]
<1>1. /\ pc = "figures"
      /\ IF n < Len(Figures) THEN Goes("figures", figures)
         ELSE Answer([status |-> 200, kind |-> "figures", figures |-> figures])
  BY DEF ReadFigure
<1>2. CASE ~(n < Len(Figures))
  BY <1>1, <1>2 DEF Answer
<1>3. CASE n < Len(Figures)
  <2>1. pc' = "figures" /\ draft' = figures
    BY <1>1, <1>3 DEF Goes
  <2>2. DOMAIN draft' = DOMAIN draft \cup {Figures[n]}
    BY <2>1
  <2> HIDE DEF figures
  <2>3. IsFiniteSet(DOMAIN draft) /\ Cardinality(DOMAIN draft) \in Nat /\ Cardinality(DOMAIN draft) < 11
        /\ DOMAIN draft \subseteq ToSet(Figures)
    BY <1>1, FiguresAre, FS_CardinalityType DEF FiguresLeft
  <2>4. n \in 1..11
    BY <2>3
  <2>5. Figures[n] \in ToSet(Figures)
    BY <2>4, FiguresAre
  <2>6. /\ IsFiniteSet(DOMAIN draft')
        /\ Cardinality(DOMAIN draft') \in {Cardinality(DOMAIN draft), n}
    <3>1. PICK S : S = DOMAIN draft
      OBVIOUS
    <3>2. PICK x : x = Figures[n]
      OBVIOUS
    <3>3. IsFiniteSet(S \cup {x}) /\ Cardinality(S \cup {x}) \in {Cardinality(S), Cardinality(S) + 1}
      BY <2>3, <3>1, FS_AddElement
    <3>4. QED
      BY <2>2, <3>1, <3>2, <3>3
  <2>7. Cardinality(DOMAIN draft') < Len(Figures)
    BY <1>3, <2>3, <2>6, FiguresAre
  <2>8. DOMAIN draft' \subseteq ToSet(Figures)
    BY <2>2, <2>3, <2>5
  <2>9. QED
    BY <2>1, <2>6, <2>7, <2>8 DEF FiguresLeft
<1>4. QED
  BY <1>2, <1>3

LEMMA StatementsStay ==
    ASSUME Based, Paged, Single, FiguresLeft, Statements, [Next]_vars
    PROVE  Single' /\ FiguresLeft' /\ Statements'
<1>1. answer'.status \in {0, 200, 400, 404, 500}
  <2>1. ReadExtras => answer'.status = 200
    BY TableEffect
  <2>2. QED
    BY <2>1, AnswerSteps DEF Statements, Broken
<1>2. CASE Writing
  <2>1. UNCHANGED <<pc, draft>>
    BY <1>2, WritingEffect
  <2>2. QED
    BY <1>1, <2>1 DEF Single, FiguresLeft, Statements
<1>3. CASE pc' \in {"idle", "rows", "extras", "page", "count", "blocks"}
  BY <1>1, <1>3 DEF Single, FiguresLeft, Statements
<1>4. CASE Get
  <2>1. PICK id \in Ids : Begin("bike", [ids |-> <<id>>], NoAnswer)
    BY <1>4 DEF Get
  <2>2. pc' = "bike" /\ draft'.ids = <<id>>
    BY <2>1 DEF Begin
  <2>3. DOMAIN draft'.ids = 1..1
    BY <2>2
  <2>4. QED
    BY <1>1, <2>2, <2>3 DEF Single, FiguresLeft, Statements
<1>5. CASE ReadBike
  <2>1. CASE pc' = "rest"
    <3>1. PICK bike : draft' = [ids |-> draft.ids, rows |-> <<bike>>]
      BY <1>5, <2>1 DEF ReadBike, Goes, Answer
    <3>2. draft'.ids = draft.ids /\ draft'.rows = <<bike>> /\ DOMAIN draft.ids = 1..1
      BY <1>5, <3>1 DEF ReadBike, Single
    <3>3. DOMAIN draft'.rows = DOMAIN draft'.ids
      BY <3>2
    <3>4. QED
      BY <1>1, <2>1, <3>3 DEF Single, FiguresLeft, Statements
  <2>2. CASE pc' # "rest"
    <3>1. pc' = "idle"
      BY <1>5, <2>2 DEF ReadBike, Goes, Answer
    <3>2. QED
      BY <1>3, <3>1
  <2>3. QED
    BY <2>1, <2>2
<1>6. CASE ReadRest
  BY <1>3, <1>6 DEF ReadRest, Answer
<1>7. CASE GetStats
  <2>1. pc' = "figures" /\ draft' = <<>>
    BY <1>7 DEF GetStats, Begin, NoDraft
  <2>2. DOMAIN draft' = {}
    BY <2>1
  <2>3. FiguresLeft'
    <3>1. PICK S : S = DOMAIN draft'
      OBVIOUS
    <3>2. S \subseteq ToSet(Figures) /\ IsFiniteSet(S) /\ Cardinality(S) < Len(Figures)
      BY <2>2, <3>1, FS_EmptySet, FiguresAre
    <3>3. QED
      BY <3>1, <3>2 DEF FiguresLeft
  <2>4. QED
    BY <1>1, <2>1, <2>3 DEF Single, Statements
<1>8. CASE ReadFigure
  BY <1>1, <1>8, FigureEffect DEF Single, FiguresLeft, Statements
<1>9. CASE Compare
  BY <1>3, <1>9 DEF Compare, Begin
<1>10. CASE ReadRows
  BY <1>3, <1>10 DEF ReadRows, Goes, Answer
<1>11. CASE ReadExtras
  BY <1>3, <1>11 DEF ReadExtras, Answer
<1>12. CASE Search
  BY <1>3, <1>12 DEF Search, Begin
<1>13. CASE ReadPage
  <2>1. draft.query \in Queries
    BY <1>13 DEF ReadPage, Paged
  <2>2. QED
    BY <1>3, <1>13, <2>1, ReadPageEffect
<1>14. CASE ReadCount
  BY <1>3, <1>14 DEF ReadCount, Goes
<1>15. CASE LoadBlocks
  BY <1>3, <1>15, LoadEffect
<1>16. CASE AnswerPage
  BY <1>3, <1>16 DEF AnswerPage, Answer
<1>17. CASE Quiet \/ UNCHANGED vars
  BY <1>17 DEF Quiet, vars, Single, FiguresLeft, Statements
<1>18. QED
  BY <1>2, <1>4, <1>5, <1>6, <1>7, <1>8, <1>9, <1>10, <1>11, <1>12, <1>13, <1>14, <1>15, <1>16, <1>17
     DEF Next, Comparing, Searching, Counting

LEMMA SpecStatements == Spec => [](Single /\ FiguresLeft /\ Statements)
<1>1. Init => Single /\ FiguresLeft /\ Statements
  BY DEF Init, Single, FiguresLeft, Statements, NoAnswer
<1>2. QED
  BY <1>1, SpecTraced, StatementsStay, PTL DEF Spec

\* Theorem.  Always, the table holds bikes that some body or import holds, under ids that
\* were handed out, and what a request has read fits the statement it is at: the ids of a
\* comparison once each and as many as allowed, a page no longer than asked for, blocks of
\* its bikes only, figures of the list only.  (Reads; TypeOK.)
THEOREM TypeCorrect == Spec => []TypeOK
<1>1. ASSUME Based, Compared, Paged, Single, FiguresLeft, Statements PROVE TypeOK
  <2>1. \A id \in Ids : Unrowed(catalogue[id]) \in Contents \cup {Absent}
    <3>1. SUFFICES ASSUME NEW id \in Ids, catalogue[id] # Absent PROVE Unrowed(catalogue[id]) \in Contents
      BY DEF Unrowed
    <3>2. PICK bike \in Contents, n \in 0..MaxWrites : catalogue[id] = Version(bike, n)
      BY <1>1, <3>1 DEF Based, Tables, Versions
    <3>3. PICK v : v = Version(bike, n)
      OBVIOUS
    <3>4. Unrowed(v) = bike
      BY <3>3, VersionHolds
    <3>5. QED
      BY <3>2, <3>3, <3>4
  <2>2. pc # "idle" => catalogue = Last(past)
    BY <1>1 DEF Based, Last
  <2>3. pc \in {"rows", "extras"} => IsInjective(draft.ids) /\ SizeAllowed(draft.ids)
    BY <1>1 DEF Compared
  <2>4. pc \in {"extras", "count", "blocks", "rest"} => DOMAIN draft.rows = DOMAIN draft.ids
    BY <1>1 DEF Compared, Paged, Single
  <2>5. pc \in {"count", "blocks"} => /\ Len(draft.ids) <= draft.query.size
                                      /\ \A part \in DOMAIN draft.loaded :
                                            DOMAIN draft.loaded[part] \subseteq DOMAIN draft.ids
    <3>1. SUFFICES ASSUME pc \in {"count", "blocks"}
                   PROVE  /\ Len(draft.ids) <= draft.query.size
                          /\ \A part \in DOMAIN draft.loaded :
                                DOMAIN draft.loaded[part] \subseteq DOMAIN draft.ids
      OBVIOUS
    <3>2. /\ Len(draft.ids) <= draft.query.size
          /\ draft.loaded = [part \in DOMAIN Nothing |-> draft.loaded[part]]
          /\ \A part \in DOMAIN Nothing : DOMAIN draft.loaded[part] \subseteq DOMAIN draft.ids
      BY <1>1, <3>1 DEF Paged
    <3>3. DOMAIN draft.loaded = DOMAIN Nothing
      BY <3>2
    <3>4. QED
      BY <3>2, <3>3
  <2>6. pc = "figures" => DOMAIN draft \subseteq ToSet(Figures)
    BY <1>1 DEF FiguresLeft
  <2>7. QED
    BY <1>1, <2>1, <2>2, <2>3, <2>4, <2>5, <2>6 DEF TypeOK, Based, Statements
<1>2. QED
  BY <1>1, SpecCompared, SpecTraced, SpecStatements, PTL

------------------------------------------------------------------------------
(* Free text *)

\* Induction, for a set of numbers.
LEMMA AllNumbers ==
    ASSUME NEW A, 0 \in A, \A n \in Nat : n \in A => n + 1 \in A
    PROVE  Nat \subseteq A
<1> SUFFICES ASSUME NEW t \in Nat, t \notin A PROVE FALSE
  OBVIOUS
<1>1. Nat \ A \in SUBSET Nat /\ Nat \ A # {}
  OBVIOUS
<1>2. PICK m \in Nat \ A : \A n \in Nat \ A : m <= n
  BY <1>1, LeastOf
<1>3. m # 0 /\ m - 1 \in Nat /\ ~(m <= m - 1)
  BY <1>2
<1>4. m - 1 \in A
  BY <1>2, <1>3
<1>5. (m - 1) + 1 \in A
  BY <1>3, <1>4
<1>6. (m - 1) + 1 = m
  BY <1>2
<1>7. QED
  BY <1>2, <1>5, <1>6

\* Each value of a recursive definition depends on values of lower rank only.
Descending(D, V, rank, n, G) ==
    /\ rank \in [D -> Nat] /\ \A x \in D : rank[x] <= n
    /\ G \in [D -> [[D -> V] -> V]]
    /\ \A x \in D : \A g, h \in [D -> V] :
          (\A y \in D : rank[y] < rank[x] => g[y] = h[y]) => G[x][g] = G[x][h]
\* It has a solution then.
LEMMA RecursionHasSolution ==
    ASSUME NEW D, NEW V, NEW first \in V, NEW rank, NEW n \in Nat, NEW G, Descending(D, V, rank, n, G)
    PROVE  \E it \in [D -> V] : \A x \in D : it[x] = G[x][it]
<1> USE DEF Descending
<1> DEFINE Solves(it, k) == \A x \in D : rank[x] < k => it[x] = G[x][it]
           A == {k \in Nat : \E it \in [D -> V] : Solves(it, k)}
<1>1. 0 \in A
  <2>1. PICK it : it = [x \in D |-> first]
    OBVIOUS
  <2>2. it \in [D -> V]
    BY <2>1
  <2>3. \A x \in D : ~(rank[x] < 0)
    <3>1. ASSUME NEW x \in D PROVE ~(rank[x] < 0)
      <4>1. PICK r \in Nat : r = rank[x]
        OBVIOUS
      <4>2. QED
        BY <4>1
    <3>2. QED
      BY <3>1
  <2>4. QED
    BY <2>2, <2>3
<1>2. ASSUME NEW k \in Nat, k \in A PROVE k + 1 \in A
  <2>1. PICK it \in [D -> V] : Solves(it, k)
    BY <1>2
  <2>2. PICK next : next = [x \in D |-> IF rank[x] < k THEN it[x] ELSE G[x][it]]
    OBVIOUS
  <2>3. next \in [D -> V]
    BY <2>2
  <2>4. ASSUME NEW x \in D, rank[x] < k + 1 PROVE next[x] = G[x][next]
    <3>1. next[x] = G[x][it]
      BY <2>1, <2>2
    <3>2. ASSUME NEW y \in D, rank[y] < rank[x] PROVE next[y] = it[y]
      <4>1. PICK r \in Nat, s \in Nat : r = rank[x] /\ s = rank[y]
        OBVIOUS
      <4>2. s < k
        BY <2>4, <3>2, <4>1
      <4>3. QED
        BY <2>2, <4>1, <4>2
    <3>3. G[x][next] = G[x][it]
      BY <2>3, <3>2
    <3>4. QED
      BY <3>1, <3>3
  <2>5. Solves(next, k + 1)
    BY <2>4
  <2>6. QED
    BY <2>3, <2>5
<1>3. n + 1 \in A
  <2> HIDE DEF A
  <2>1. QED
    BY <1>1, <1>2, AllNumbers
<1>4. PICK it \in [D -> V] : Solves(it, n + 1)
  BY <1>3
<1>5. ASSUME NEW x \in D PROVE rank[x] < n + 1
  <2>1. PICK r \in Nat : r = rank[x]
    OBVIOUS
  <2>2. r <= n
    BY <2>1
  <2>3. QED
    BY <2>1, <2>2
<1>6. QED
  BY <1>4, <1>5

\* Sequences one after another.
OneByOne(it, seqs, n, C) ==
    /\ it \in [1..n -> Seq(C)] /\ FlattenSeq(seqs) = it[n] /\ it[1] = seqs[1]
    /\ \A i \in 2..n : it[i] = it[i - 1] \o seqs[i]
LEMMA FlattenedBySteps ==
    ASSUME NEW C, NEW n \in Nat \ {0}, NEW seqs \in Seq(Seq(C)), Len(seqs) = n
    PROVE  \E it : OneByOne(it, seqs, n, C)
<1> DEFINE D == 1..n
           V == Seq(C)
           Step(i, g) == IF i = 1 THEN seqs[i] ELSE g[i - 1] \o seqs[i]
<1>1. \A i \in D : seqs[i] \in V
  OBVIOUS
<1>2. PICK rank : rank = [i \in D |-> i]
  OBVIOUS
<1>3. rank \in [D -> Nat] /\ \A x \in D : rank[x] <= n /\ rank[x] = x
  BY <1>2
<1>4. PICK G : G = [i \in D |-> [g \in [D -> V] |-> Step(i, g)]]
  OBVIOUS
<1>5. ASSUME NEW i \in D, NEW g \in [D -> V] PROVE Step(i, g) \in V
  <2>1. CASE i = 1
    BY <1>1, <2>1
  <2>2. CASE i # 1
    <3>1. i - 1 \in D
      BY <2>2
    <3>2. PICK one \in V, two \in V : one = g[i - 1] /\ two = seqs[i]
      BY <1>1, <3>1
    <3>3. one \o two \in V
      BY <3>2
    <3>4. QED
      BY <2>2, <3>2, <3>3
  <2>3. QED
    BY <2>1, <2>2
<1>6. G \in [D -> [[D -> V] -> V]]
  <2> HIDE DEF Step
  <2>1. QED
    BY <1>4, <1>5
<1>7. \A i \in D : \A g \in [D -> V] : G[i][g] = Step(i, g)
  <2> HIDE DEF Step
  <2>1. QED
    BY <1>4
<1>8. ASSUME NEW x \in D, NEW g \in [D -> V], NEW h \in [D -> V],
             \A y \in D : rank[y] < rank[x] => g[y] = h[y]
      PROVE  G[x][g] = G[x][h]
  <2>1. Step(x, g) = Step(x, h)
    <3>1. CASE x # 1
      <4>1. x - 1 \in D /\ x - 1 < x
        BY <3>1
      <4>2. g[x - 1] = h[x - 1]
        BY <1>3, <1>8, <4>1
      <4>3. QED
        BY <4>2
    <3>2. QED
      BY <3>1
  <2> HIDE DEF Step
  <2>2. QED
    BY <1>7, <2>1
<1>9. <<>> \in V
  OBVIOUS
<1>10. PICK it \in [D -> V] : \A i \in D : it[i] = G[i][it]
  <2> HIDE DEF D, V, Step
  <2>1. \A x \in D : \A g, h \in [D -> V] :
            (\A y \in D : rank[y] < rank[x] => g[y] = h[y]) => G[x][g] = G[x][h]
    BY <1>8
  <2>2. rank \in [D -> Nat] /\ n \in Nat /\ \A x \in D : rank[x] <= n
    BY <1>3
  <2>3. PICK first \in V : TRUE
    BY <1>9
  <2>4. QED
    <3>1. Descending(D, V, rank, n, G)
      BY <1>6, <2>1, <2>2 DEF Descending
    <3>2. QED
      BY <2>3, <3>1, RecursionHasSolution
<1>11. it = [i \in D |-> Step(i, it)]
  <2>1. \A i \in D : it[i] = Step(i, it)
    BY <1>7, <1>10
  <2> HIDE DEF Step, D, V
  <2>2. QED
    BY <1>10, <2>1
<1>12. PICK flat : flat = CHOOSE f : f = [i \in 1..n |-> IF i = 1 THEN seqs[i] ELSE f[i - 1] \o seqs[i]]
  OBVIOUS
<1>13. flat = [i \in 1..n |-> IF i = 1 THEN seqs[i] ELSE flat[i - 1] \o seqs[i]]
  BY <1>11, <1>12
<1>14. FlattenSeq(seqs) = flat[n]
  BY <1>12 DEF FlattenSeq
<1>15. flat \in [1..n -> Seq(C)]
  <2> DEFINE A == {i \in Nat : i \in 1..n => flat[i] \in Seq(C)}
  <2>1. 0 \in A
    OBVIOUS
  <2>2. ASSUME NEW i \in Nat, i \in A PROVE i + 1 \in A
    <3> SUFFICES ASSUME i + 1 \in 1..n PROVE flat[i + 1] \in Seq(C)
      OBVIOUS
    <3>1. CASE i = 0
      BY <1>1, <1>13, <3>1
    <3>2. CASE i # 0
      <4>1. i \in 1..n /\ (i + 1) - 1 = i /\ i + 1 # 1
        BY <3>2
      <4>2. PICK one \in Seq(C), two \in Seq(C) : one = flat[i] /\ two = seqs[i + 1]
        BY <1>1, <2>2, <4>1
      <4>3. flat[i + 1] = one \o two
        BY <1>13, <4>1, <4>2
      <4>4. QED
        BY <4>2, <4>3
    <3>3. QED
      BY <3>1, <3>2
  <2>3. Nat \subseteq A
    <3> HIDE DEF A
    <3>1. QED
      BY <2>1, <2>2, AllNumbers
  <2>4. \A i \in 1..n : flat[i] \in Seq(C)
    BY <2>3
  <2>5. QED
    BY <1>13, <2>4
<1>16. flat[1] = seqs[1] /\ \A i \in 2..n : flat[i] = flat[i - 1] \o seqs[i]
  <2>1. 1 \in 1..n /\ \A i \in 2..n : i \in 1..n /\ i # 1
    OBVIOUS
  <2>2. QED
    BY <1>13, <2>1
<1>17. QED
  BY <1>14, <1>15, <1>16 DEF OneByOne

\* A pattern spells the first n characters of a text if it has them one after another, each
\* of K behind an escape; at[i] is where the i-th begins.
Spelt(p, char, here, next, K) ==
    IF char \in K THEN next = here + 2 /\ p[here] = Escape /\ p[here + 1] = char
    ELSE next = here + 1 /\ p[here] = char
SpeltAt(p, t, n, K, at) ==
    /\ at \in [1..n + 1 -> 1..Len(p) + 1]
    /\ at[1] = 1 /\ at[n + 1] = Len(p) + 1
    /\ \A i \in 1..n : Spelt(p, t[i], at[i], at[i + 1], K)
Spells(p, t, n, K) == \E at : SpeltAt(p, t, n, K, at)

\* One character more.
LEMMA SpellsOn ==
    ASSUME NEW C, Escape \in C, NEW p \in Seq(C), NEW t, NEW n \in Nat, NEW K, Spells(p, t, n, K),
           t[n + 1] \in C, NEW piece, piece = IF t[n + 1] \in K THEN <<Escape, t[n + 1]>> ELSE <<t[n + 1]>>
    PROVE  p \o piece \in Seq(C) /\ Spells(p \o piece, t, n + 1, K)
<1>1. PICK at : SpeltAt(p, t, n, K, at)
  BY DEF Spells
<1>2. PICK char \in C : char = t[n + 1]
  OBVIOUS
<1>3. PICK l \in Nat : l = Len(p)
  OBVIOUS
<1>4. PICK m \in Nat : m = (IF char \in K THEN 2 ELSE 1) /\ 1 <= m
  OBVIOUS
<1>5. piece \in Seq(C) /\ Len(piece) = m
  <2>1. PICK escape \in C : escape = Escape
    OBVIOUS
  <2>2. <<Escape, char>> \in Seq(C) /\ Len(<<Escape, char>>) = 2
    BY <2>1
  <2>3. <<char>> \in Seq(C) /\ Len(<<char>>) = 1
    OBVIOUS
  <2>4. QED
    BY <1>2, <1>4, <2>2, <2>3
<1>6. PICK longer : longer = p \o piece
  OBVIOUS
<1>7. /\ longer \in Seq(C) /\ Len(longer) = l + m
      /\ \A i \in 1..l : longer[i] = p[i]
      /\ \A i \in 1..m : longer[l + i] = piece[i]
  <2>1. /\ longer \in Seq(C) /\ Len(longer) = Len(p) + Len(piece)
        /\ \A i \in 1..Len(p) + Len(piece) : longer[i] = IF i <= Len(p) THEN p[i] ELSE piece[i - Len(p)]
    BY <1>5, <1>6, ConcatProperties
  <2>2. \A i \in 1..l + m : longer[i] = IF i <= l THEN p[i] ELSE piece[i - l]
    BY <1>3, <1>5, <2>1
  <2>3. \A i \in 1..l : i \in 1..l + m /\ i <= l
    BY <1>4
  <2>4. \A i \in 1..m : l + i \in 1..l + m /\ ~(l + i <= l) /\ (l + i) - l = i
    BY <1>4
  <2>5. QED
    BY <1>3, <1>5, <2>1, <2>2, <2>3, <2>4
<1>8. /\ at \in [1..n + 1 -> 1..l + 1] /\ at[1] = 1 /\ at[n + 1] = l + 1
      /\ \A i \in 1..n : Spelt(p, t[i], at[i], at[i + 1], K)
  BY <1>1, <1>3 DEF SpeltAt
<1>9. PICK then : then = [i \in 1..n + 2 |-> IF i = n + 2 THEN l + m + 1 ELSE at[i]]
  OBVIOUS
<1>10. /\ then[n + 2] = l + m + 1 /\ n + 1 \in 1..n + 2 /\ n + 1 # n + 2
       /\ \A i \in 1..n + 1 : i \in 1..n + 2 /\ then[i] = at[i]
  BY <1>9
<1>11. then \in [1..n + 2 -> 1..l + m + 1]
  <2>1. \A i \in 1..n + 1 : at[i] \in 1..l + m + 1
    BY <1>4, <1>8
  <2>2. l + m + 1 \in 1..l + m + 1
    BY <1>4
  <2>3. QED
    BY <1>9, <2>1, <2>2
<1>12. ASSUME NEW i \in 1..n + 1
       PROVE  Spelt(longer, t[i], then[i], then[i + 1], K)
  <2>1. CASE i = n + 1
    <3>1. then[i] = l + 1 /\ then[i + 1] = l + m + 1
      <4>1. n + 1 \in 1..n + 1 /\ (n + 1) + 1 = n + 2
        OBVIOUS
      <4>2. QED
        BY <1>8, <1>10, <2>1, <4>1
    <3>2. CASE char \in K
      <4>1. m = 2 /\ piece = <<Escape, char>> /\ piece[1] = Escape /\ piece[2] = char
        BY <1>2, <1>4, <3>2
      <4>2. longer[l + 1] = Escape /\ longer[l + 2] = char
        BY <1>7, <4>1
      <4>3. then[i + 1] = then[i] + 2 /\ then[i] + 1 = l + 2
        BY <3>1, <4>1
      <4>4. QED
        BY <1>2, <2>1, <3>1, <3>2, <4>2, <4>3 DEF Spelt
    <3>3. CASE char \notin K
      <4>1. m = 1 /\ piece = <<char>> /\ piece[1] = char
        BY <1>2, <1>4, <3>3
      <4>2. longer[l + 1] = char
        BY <1>7, <4>1
      <4>3. then[i + 1] = then[i] + 1
        BY <3>1, <4>1
      <4>4. QED
        BY <1>2, <2>1, <3>1, <3>3, <4>2, <4>3 DEF Spelt
    <3>4. QED
      BY <3>2, <3>3
  <2>2. CASE i # n + 1
    <3>1. i \in 1..n /\ i \in 1..n + 1 /\ i + 1 \in 1..n + 1
      BY <2>2
    <3>2. then[i] = at[i] /\ then[i + 1] = at[i + 1] /\ Spelt(p, t[i], at[i], at[i + 1], K)
      BY <1>8, <1>10, <3>1
    <3>3. PICK x \in 1..l + 1, y \in 1..l + 1 : x = at[i] /\ y = at[i + 1]
      BY <1>8, <3>1
    <3>4. CASE t[i] \in K
      <4>1. y = x + 2 /\ p[x] = Escape /\ p[x + 1] = t[i]
        BY <3>2, <3>3, <3>4 DEF Spelt
      <4>2. x \in 1..l /\ x + 1 \in 1..l
        BY <3>3, <4>1
      <4>3. QED
        BY <1>7, <3>2, <3>3, <3>4, <4>1, <4>2 DEF Spelt
    <3>5. CASE t[i] \notin K
      <4>1. y = x + 1 /\ p[x] = t[i]
        BY <3>2, <3>3, <3>5 DEF Spelt
      <4>2. x \in 1..l
        BY <3>3, <4>1
      <4>3. QED
        BY <1>7, <3>2, <3>3, <3>5, <4>1, <4>2 DEF Spelt
    <3>6. QED
      BY <3>4, <3>5
  <2>3. QED
    BY <2>1, <2>2
<1>13. SpeltAt(longer, t, n + 1, K, then)
  <2>1. (n + 1) + 1 = n + 2 /\ Len(longer) + 1 = l + m + 1 /\ 1 \in 1..n + 1
    BY <1>4, <1>7
  <2>2. then[1] = 1
    BY <1>8, <1>10, <2>1
  <2>3. QED
    BY <1>10, <1>11, <1>12, <2>1, <2>2 DEF SpeltAt
<1>14. QED
  BY <1>6, <1>7, <1>13 DEF Spells

\* Escaping one character.
LEMMA EscapedSpells ==
    ASSUME NEW C, Escape \in C, NEW t \in Seq(C), NEW char \in C
    PROVE  Escaped(t, char) \in Seq(C) /\ Spells(Escaped(t, char), t, Len(t), {char})
<1>1. PICK n \in Nat : n = Len(t) /\ DOMAIN t = 1..n
  OBVIOUS
<1>2. PICK seqs : seqs = [i \in DOMAIN t |-> IF t[i] = char THEN <<Escape, char>> ELSE <<t[i]>>]
  OBVIOUS
<1>3. Escaped(t, char) = FlattenSeq(seqs)
  BY <1>2 DEF Escaped
<1>4. \A i \in 1..n : /\ t[i] \in C
                      /\ seqs[i] = IF t[i] \in {char} THEN <<Escape, t[i]>> ELSE <<t[i]>>
  BY <1>1, <1>2
<1>5. seqs \in Seq(Seq(C)) /\ Len(seqs) = n
  <2>1. PICK escape \in C : escape = Escape
    OBVIOUS
  <2>2. \A i \in 1..n : seqs[i] \in Seq(C)
    <3>1. ASSUME NEW c \in C PROVE <<Escape, c>> \in Seq(C) /\ <<c>> \in Seq(C)
      BY <2>1
    <3>2. QED
      BY <1>4, <3>1
  <2>3. seqs \in [1..n -> Seq(C)]
    BY <1>1, <1>2, <2>2
  <2>4. QED
    BY <2>3
<1>6. <<>> \in Seq(C) /\ Spells(<<>>, t, 0, {char})
  <2>1. PICK none : none = <<>>
    OBVIOUS
  <2>2. none \in Seq(C) /\ Len(none) = 0
    BY <2>1
  <2>3. PICK at : at = [i \in 1..1 |-> 1]
    OBVIOUS
  <2>4. at \in [1..0 + 1 -> 1..0 + 1] /\ at[1] = 1 /\ at[0 + 1] = 0 + 1
    BY <2>3
  <2>5. SpeltAt(none, t, 0, {char}, at)
    BY <2>2, <2>4 DEF SpeltAt
  <2>6. QED
    BY <2>1, <2>2, <2>5 DEF Spells
<1>7. CASE n = 0
  <2>1. FlattenSeq(seqs) = <<>>
    BY <1>5, <1>7 DEF FlattenSeq
  <2>2. QED
    BY <1>1, <1>3, <1>6, <1>7, <2>1
<1>8. CASE n # 0
  <2>1. PICK it \in [1..n -> Seq(C)] :
            /\ FlattenSeq(seqs) = it[n] /\ it[1] = seqs[1]
            /\ \A i \in 2..n : it[i] = it[i - 1] \o seqs[i]
    <3>1. n \in Nat \ {0}
      BY <1>8
    <3>2. \E it : OneByOne(it, seqs, n, C)
      BY <1>5, <3>1, FlattenedBySteps
    <3>3. QED
      BY <3>2 DEF OneByOne
  <2> DEFINE A == {i \in Nat : i \in 1..n => Spells(it[i], t, i, {char})}
  <2>2. 0 \in A
    OBVIOUS
  <2>3. ASSUME NEW i \in Nat, i \in A PROVE i + 1 \in A
    <3> SUFFICES ASSUME i + 1 \in 1..n PROVE Spells(it[i + 1], t, i + 1, {char})
      OBVIOUS
    <3>1. PICK piece \in Seq(C) : piece = seqs[i + 1]
      BY <1>5
    <3>2. piece = (IF t[i + 1] \in {char} THEN <<Escape, t[i + 1]>> ELSE <<t[i + 1]>>) /\ t[i + 1] \in C
      BY <1>4, <3>1
    <3>3. CASE i = 0
      <4>1. Spells(<<>> \o piece, t, i + 1, {char})
        BY <1>6, <3>2, <3>3, SpellsOn
      <4>2. <<>> \o piece = piece
        OBVIOUS
      <4>3. it[i + 1] = piece
        BY <2>1, <3>1, <3>3
      <4>4. QED
        BY <4>1, <4>2, <4>3
    <3>4. CASE i # 0
      <4>1. i \in 1..n /\ i + 1 \in 2..n /\ (i + 1) - 1 = i
        BY <3>4
      <4>2. it[i + 1] = it[i] \o piece /\ it[i] \in Seq(C)
        BY <2>1, <3>1, <4>1
      <4>3. PICK p \in Seq(C) : p = it[i]
        BY <4>2
      <4>4. Spells(p, t, i, {char})
        BY <2>3, <4>1, <4>3
      <4>5. Spells(p \o piece, t, i + 1, {char})
        BY <3>2, <4>4, SpellsOn
      <4>6. QED
        BY <4>2, <4>3, <4>5
    <3>5. QED
      BY <3>3, <3>4
  <2>4. n \in A
    <3> HIDE DEF A
    <3>1. QED
      BY <2>2, <2>3, AllNumbers
  <2>5. n \in 1..n
    BY <1>8
  <2>6. Spells(it[n], t, n, {char}) /\ it[n] \in Seq(C)
    BY <2>1, <2>4, <2>5
  <2>7. QED
    BY <1>1, <1>3, <2>1, <2>6
<1>9. QED
  BY <1>7, <1>8

\* Escaping another character: escapes that are there already stay what they are.
LEMMA SpellsAgain ==
    ASSUME NEW C, NEW p \in Seq(C), NEW t, NEW n \in Nat, NEW K, Spells(p, t, n, K),
           NEW longer, NEW char, Spells(longer, p, Len(p), {char}), char \notin K,
           K # {} => char # Escape
    PROVE  Spells(longer, t, n, K \cup {char})
<1>1. PICK at : SpeltAt(p, t, n, K, at)
  BY DEF Spells
<1>2. PICK l \in Nat : l = Len(p)
  OBVIOUS
<1>3. PICK later : SpeltAt(longer, p, l, {char}, later)
  BY <1>2 DEF Spells
<1>4. /\ at \in [1..n + 1 -> 1..l + 1] /\ at[1] = 1 /\ at[n + 1] = l + 1
      /\ \A i \in 1..n : Spelt(p, t[i], at[i], at[i + 1], K)
  BY <1>1, <1>2 DEF SpeltAt
<1>5. /\ later \in [1..l + 1 -> 1..Len(longer) + 1] /\ later[1] = 1 /\ later[l + 1] = Len(longer) + 1
      /\ \A i \in 1..l : Spelt(longer, p[i], later[i], later[i + 1], {char})
  BY <1>3 DEF SpeltAt
<1>6. PICK then : then = [i \in 1..n + 1 |-> later[at[i]]]
  OBVIOUS
<1>7. then \in [1..n + 1 -> 1..Len(longer) + 1]
  BY <1>4, <1>5, <1>6
<1>8. then[1] = 1 /\ then[n + 1] = Len(longer) + 1
  <2>1. 1 \in 1..n + 1 /\ n + 1 \in 1..n + 1
    OBVIOUS
  <2>2. QED
    BY <1>4, <1>5, <1>6, <2>1
<1>9. ASSUME NEW i \in 1..n PROVE Spelt(longer, t[i], then[i], then[i + 1], K \cup {char})
  <2>1. i \in 1..n + 1 /\ i + 1 \in 1..n + 1
    OBVIOUS
  <2>2. PICK x \in 1..l + 1, y \in 1..l + 1 : x = at[i] /\ y = at[i + 1]
    BY <1>4, <2>1
  <2>3. then[i] = later[x] /\ then[i + 1] = later[y] /\ Spelt(p, t[i], x, y, K)
    BY <1>4, <1>6, <2>1, <2>2
  <2>4. CASE t[i] \in K
    <3>1. y = x + 2 /\ p[x] = Escape /\ p[x + 1] = t[i] /\ char # Escape /\ t[i] # char
      BY <2>3, <2>4 DEF Spelt
    <3>2. x \in 1..l /\ x + 1 \in 1..l /\ (x + 1) + 1 = y
      BY <2>2, <3>1
    <3>3. Spelt(longer, p[x], later[x], later[x + 1], {char})
          /\ Spelt(longer, p[x + 1], later[x + 1], later[y], {char})
      BY <1>5, <3>2
    <3>4. later[x + 1] = later[x] + 1 /\ longer[later[x]] = Escape
          /\ later[y] = later[x + 1] + 1 /\ longer[later[x + 1]] = t[i]
      BY <3>1, <3>3 DEF Spelt
    <3>5. PICK u \in Nat, v \in Nat, w \in Nat : u = later[x] /\ v = later[x + 1] /\ w = later[y]
      <4>1. x \in 1..l + 1 /\ x + 1 \in 1..l + 1 /\ y \in 1..l + 1
        BY <2>2, <3>2
      <4>2. \A z \in 1..Len(longer) + 1 : z \in Nat
        OBVIOUS
      <4>3. QED
        BY <1>5, <4>1, <4>2
    <3>6. w = u + 2 /\ longer[u] = Escape /\ longer[u + 1] = t[i]
      BY <3>4, <3>5
    <3>7. t[i] \in K \cup {char}
      BY <2>4
    <3>8. QED
      BY <2>3, <3>5, <3>6, <3>7 DEF Spelt
  <2>5. CASE t[i] \notin K
    <3>1. y = x + 1 /\ p[x] = t[i]
      BY <2>3, <2>5 DEF Spelt
    <3>2. x \in 1..l
      BY <2>2, <3>1
    <3>3. Spelt(longer, p[x], later[x], later[y], {char})
      BY <1>5, <3>1, <3>2
    <3>4. t[i] \in K \cup {char} <=> t[i] \in {char}
      BY <2>5
    <3>5. QED
      BY <2>3, <3>1, <3>3, <3>4 DEF Spelt
  <2>6. QED
    BY <2>4, <2>5
<1>10. SpeltAt(longer, t, n, K \cup {char}, then)
  BY <1>7, <1>8, <1>9 DEF SpeltAt
<1>11. QED
  BY <1>10 DEF Spells

\* The pattern of a text spells it, each character that LIKE knows behind an escape.
Known == {Escape, "%", "_"}
LEMMA PatternSpells ==
    ASSUME NEW C, Known \subseteq C, NEW q \in Seq(C)
    PROVE  escapeLike(q) \in Seq(C) /\ Spells(escapeLike(q), q, Len(q), Known)
<1>1. Escape \in C /\ "%" \in C /\ "_" \in C
  BY DEF Known
<1>2. PICK n \in Nat : n = Len(q)
  OBVIOUS
<1>3. PICK one \in Seq(C) : one = Escaped(q, Escape) /\ Spells(one, q, n, {Escape})
  BY <1>1, <1>2, EscapedSpells
<1>4. PICK two \in Seq(C) : two = Escaped(one, "%") /\ Spells(two, one, Len(one), {"%"})
  BY <1>1, EscapedSpells
<1>5. PICK three \in Seq(C) : three = Escaped(two, "_") /\ Spells(three, two, Len(two), {"_"})
  BY <1>1, EscapedSpells
<1>6. Escape # "%" /\ Escape # "_" /\ "%" # "_"
  BY DEF Escape
<1>7. Spells(two, q, n, {Escape} \cup {"%"})
  <2>1. "%" \notin {Escape}
    BY <1>6
  <2>2. QED
    BY <1>3, <1>4, <1>6, <2>1, SpellsAgain
<1>8. PICK K : K = {Escape} \cup {"%"}
  OBVIOUS
<1>9. "_" \notin K /\ Spells(two, q, n, K) /\ K \cup {"_"} = Known
  BY <1>6, <1>7, <1>8 DEF Known
<1>10. Spells(three, q, n, Known)
  BY <1>5, <1>6, <1>9, SpellsAgain
<1>11. QED
  BY <1>2, <1>3, <1>4, <1>5, <1>10 DEF escapeLike

\* Where in the text the pattern fits from i on, given where it fits from later on.
Places(fits, text, pattern, i) ==
    IF i > Len(pattern) THEN {Len(text) + 1}
    ELSE CASE pattern[i] = Escape ->
                {j \in 1..Len(text) : /\ i < Len(pattern) /\ text[j] = pattern[i + 1]
                                      /\ j + 1 \in fits[i + 2]}
           [] pattern[i] = "%" -> {j \in 1..Len(text) + 1 : \E k \in fits[i + 1] : j <= k}
           [] OTHER -> {j \in 1..Len(text) : /\ pattern[i] \in {text[j], "_"}
                                             /\ j + 1 \in fits[i + 1]}
Fits(fits, text, pattern) == \A i \in 1..Len(pattern) + 1 : fits[i] = Places(fits, text, pattern, i)

LEMMA LikeFits ==
    ASSUME NEW text, Len(text) \in Nat, NEW pattern, Len(pattern) \in Nat
    PROVE  \E fits : Fits(fits, text, pattern) /\ (Like(text, pattern) <=> 1 \in fits[1])
<1>1. PICK n \in Nat : n = Len(pattern)
  OBVIOUS
<1> DEFINE D == 1..n + 1
           V == SUBSET (1..Len(text) + 1)
           Step(i, fits) == Places(fits, text, pattern, i)
<1>2. PICK rank : rank = [i \in D |-> n + 1 - i]
  OBVIOUS
<1>3. \A x \in D : rank[x] = n + 1 - x /\ rank[x] \in Nat /\ rank[x] <= n
  BY <1>2
<1>4. rank \in [D -> Nat] /\ \A x \in D : rank[x] <= n
  BY <1>2, <1>3
<1>5. PICK G : G = [i \in D |-> [g \in [D -> V] |-> Step(i, g)]]
  OBVIOUS
<1>6. ASSUME NEW i \in D, NEW g \in [D -> V] PROVE Step(i, g) \in V
  <2>1. Len(text) + 1 \in 1..Len(text) + 1 /\ \A j \in 1..Len(text) : j \in 1..Len(text) + 1
    OBVIOUS
  <2>2. QED
    BY <2>1 DEF Places
<1>7. G \in [D -> [[D -> V] -> V]]
  <2> HIDE DEF Step
  <2>1. QED
    BY <1>5, <1>6
<1>8. \A i \in D : \A g \in [D -> V] : G[i][g] = Step(i, g)
  <2> HIDE DEF Step
  <2>1. QED
    BY <1>5
<1>9. ASSUME NEW x \in D, NEW g \in [D -> V], NEW h \in [D -> V],
             \A y \in D : rank[y] < rank[x] => g[y] = h[y]
      PROVE  G[x][g] = G[x][h]
  <2>1. x < n + 1 => g[x + 1] = h[x + 1]
    <3> SUFFICES ASSUME x < n + 1 PROVE g[x + 1] = h[x + 1]
      OBVIOUS
    <3>1. x + 1 \in D /\ n + 1 - (x + 1) < n + 1 - x
      OBVIOUS
    <3>2. QED
      BY <1>3, <1>9, <3>1
  <2>2. x < n => g[x + 2] = h[x + 2]
    <3> SUFFICES ASSUME x < n PROVE g[x + 2] = h[x + 2]
      OBVIOUS
    <3>1. x + 2 \in D /\ n + 1 - (x + 2) < n + 1 - x
      OBVIOUS
    <3>2. QED
      BY <1>3, <1>9, <3>1
  <2>3. x <= n => x < n + 1
    OBVIOUS
  <2>4. Step(x, g) = Step(x, h)
    <3>1. CASE x > Len(pattern)
      BY <3>1 DEF Places
    <3>2. CASE ~(x > Len(pattern))
      <4>1. g[x + 1] = h[x + 1]
        BY <1>1, <2>1, <3>2
      <4>2. CASE pattern[x] = Escape
        <5>1. ASSUME NEW f
              PROVE  Step(x, f) = {j \in 1..Len(text) : /\ x < Len(pattern) /\ text[j] = pattern[x + 1]
                                                        /\ j + 1 \in f[x + 2]}
          <6>1. Step(x, f) =
                  CASE pattern[x] = Escape ->
                         {j \in 1..Len(text) : /\ x < Len(pattern) /\ text[j] = pattern[x + 1]
                                               /\ j + 1 \in f[x + 2]}
                    [] pattern[x] = "%" -> {j \in 1..Len(text) + 1 : \E k \in f[x + 1] : j <= k}
                    [] OTHER -> {j \in 1..Len(text) : /\ pattern[x] \in {text[j], "_"}
                                                      /\ j + 1 \in f[x + 1]}
            BY <3>2, Zenon DEF Places
          <6>2. pattern[x] # "%"
            BY <4>2 DEF Escape
          <6>3. QED
            BY <4>2, <6>1, <6>2
        <5>2. x < Len(pattern) => g[x + 2] = h[x + 2]
          BY <1>1, <2>2
        <5>3. \A j : (x < Len(pattern) /\ j + 1 \in g[x + 2]) <=> (x < Len(pattern) /\ j + 1 \in h[x + 2])
          BY <5>2
        <5> HIDE DEF Step
        <5>4. Step(x, g) = {j \in 1..Len(text) : /\ x < Len(pattern) /\ text[j] = pattern[x + 1]
                                                 /\ j + 1 \in g[x + 2]}
          BY <5>1
        <5>5. Step(x, h) = {j \in 1..Len(text) : /\ x < Len(pattern) /\ text[j] = pattern[x + 1]
                                                 /\ j + 1 \in h[x + 2]}
          BY <5>1
        <5>6. QED
          BY <5>3, <5>4, <5>5
      <4>3. CASE pattern[x] # Escape /\ pattern[x] = "%"
        BY <3>2, <4>1, <4>3 DEF Places
      <4>4. CASE pattern[x] # Escape /\ pattern[x] # "%"
        BY <3>2, <4>1, <4>4 DEF Places
      <4>5. QED
        BY <4>2, <4>3, <4>4
    <3>3. QED
      BY <3>1, <3>2
  <2> HIDE DEF Step
  <2>5. QED
    BY <1>8, <2>4
<1>10. {} \in V
  OBVIOUS
<1>11. PICK it \in [D -> V] : \A i \in D : it[i] = G[i][it]
  <2> HIDE DEF D, V, Step
  <2>1. \A x \in D : \A g, h \in [D -> V] :
            (\A y \in D : rank[y] < rank[x] => g[y] = h[y]) => G[x][g] = G[x][h]
    BY <1>9
  <2>2. Descending(D, V, rank, n, G)
    BY <1>4, <1>7, <2>1 DEF Descending
  <2>3. PICK first \in V : TRUE
    BY <1>10
  <2>4. QED
    BY <2>2, <2>3, RecursionHasSolution
<1>12. it = [i \in D |-> Step(i, it)]
  <2>1. \A i \in D : it[i] = Step(i, it)
    BY <1>8, <1>11
  <2> HIDE DEF Step, D, V
  <2>2. QED
    BY <1>11, <2>1
<1> DEFINE Defining(f) == f = [i \in 1..Len(pattern) + 1 |->
                                  IF i > Len(pattern) THEN {Len(text) + 1}
                                  ELSE CASE pattern[i] = Escape ->
                                              {j \in 1..Len(text) : /\ i < Len(pattern) /\ text[j] = pattern[i + 1]
                                                                    /\ j + 1 \in f[i + 2]}
                                         [] pattern[i] = "%" -> {j \in 1..Len(text) + 1 : \E k \in f[i + 1] : j <= k}
                                         [] OTHER -> {j \in 1..Len(text) : /\ pattern[i] \in {text[j], "_"}
                                                                           /\ j + 1 \in f[i + 1]}]
<1>13. Defining(it)
  BY <1>1, <1>12 DEF Places
<1>14. PICK fits : fits = CHOOSE f : Defining(f)
  OBVIOUS
<1>15. Like(text, pattern) <=> 1 \in fits[1]
  BY <1>14 DEF Like
<1>16. Defining(fits)
  <2> HIDE DEF Defining
  <2>1. QED
    BY <1>13, <1>14
<1>17. Fits(fits, text, pattern)
  BY <1>16 DEF Fits, Places
<1>18. QED
  BY <1>15, <1>17


\* Where the rest of a text q is in another: F[i] are the places from which on the characters
\* of q from the i-th on follow.
Following(F, text, q, l, n) ==
    /\ F[n + 1] = 1..l + 1
    /\ \A i \in 1..n : F[i] = {j \in 1..l : text[j] = q[i] /\ j + 1 \in F[i + 1]}
LEMMA FollowingIsLiteral ==
    ASSUME NEW text, NEW q, NEW l \in Nat, l = Len(text), NEW n \in Nat, n = Len(q),
           NEW C, q \in Seq(C), text \in Seq(C), NEW F, Following(F, text, q, l, n)
    PROVE  F[1] # {} <=> Literally(text, q)
<1> DEFINE Here(j, i, d) == 1 <= j /\ j + d <= l + 1 /\ \A k \in Nat : k < d => text[j + k] = q[i + k]
           Right(i, d) == \A j \in Nat : j \in F[i] <=> Here(j, i, d)
           A == {d \in Nat : \A i \in 1..n + 1 : i + d = n + 1 => Right(i, d)}
<1>1. 0 \in A
  <2>1. \A i \in 1..n + 1 : i + 0 = n + 1 => Right(i, 0)
    BY DEF Following
  <2>2. QED
    BY <2>1
<1>2. ASSUME NEW d \in Nat, d \in A PROVE d + 1 \in A
  <2>1. ASSUME NEW i \in 1..n + 1, i + (d + 1) = n + 1, NEW j \in Nat
        PROVE  j \in F[i] <=> Here(j, i, d + 1)
    <3>1. i \in 1..n /\ i + 1 \in 1..n + 1 /\ (i + 1) + d = n + 1
      BY <2>1
    <3>2. j \in F[i] <=> j \in 1..l /\ text[j] = q[i] /\ j + 1 \in F[i + 1]
      BY <3>1 DEF Following
    <3>3. j + 1 \in F[i + 1] <=> Here(j + 1, i + 1, d)
      <4>1. PICK i2 \in 1..n + 1, j2 \in Nat : i2 = i + 1 /\ j2 = j + 1
        BY <3>1
      <4>2. Right(i2, d)
        BY <1>2, <3>1, <4>1
      <4>3. j2 \in F[i2] <=> Here(j2, i2, d)
        BY <4>1, <4>2
      <4> HIDE DEF Here
      <4>4. QED
        BY <4>1, <4>3
    <3>4. ASSUME j \in 1..l, text[j] = q[i], Here(j + 1, i + 1, d) PROVE Here(j, i, d + 1)
      <4>1. ASSUME NEW k \in Nat, k < d + 1 PROVE text[j + k] = q[i + k]
        <5>1. CASE k = 0
          <6>1. j + k = j /\ i + k = i
            BY <3>1, <5>1
          <6>2. QED
            BY <3>4, <6>1
        <5>2. CASE k # 0
          <6>1. PICK h \in Nat : k = h + 1
            <7>1. k - 1 \in Nat /\ k = (k - 1) + 1
              BY <5>2
            <7>2. QED
              BY <7>1
          <6>2. h < d /\ (j + 1) + h = j + k /\ (i + 1) + h = i + k
            BY <3>1, <4>1, <6>1
          <6>3. QED
            BY <3>4, <6>2
        <5>3. QED
          BY <5>1, <5>2
      <4>2. 1 <= j /\ j + (d + 1) <= l + 1
        BY <3>4
      <4>3. QED
        BY <4>1, <4>2
    <3>5. ASSUME Here(j, i, d + 1)
          PROVE  j \in 1..l /\ text[j] = q[i] /\ Here(j + 1, i + 1, d)
      <4>1. 1 <= j /\ j + (d + 1) <= l + 1 /\ \A k \in Nat : k < d + 1 => text[j + k] = q[i + k]
        BY <3>5
      <4>2. j \in 1..l
        BY <4>1
      <4>3. text[j] = q[i]
        <5>1. 0 \in Nat /\ 0 < d + 1 /\ j + 0 = j /\ i + 0 = i
          OBVIOUS
        <5>2. QED
          BY <4>1, <5>1
      <4>4. ASSUME NEW k \in Nat, k < d PROVE text[(j + 1) + k] = q[(i + 1) + k]
        <5>1. k + 1 \in Nat /\ k + 1 < d + 1 /\ (j + 1) + k = j + (k + 1) /\ (i + 1) + k = i + (k + 1)
          BY <3>1, <4>4
        <5>2. PICK h \in Nat : h = k + 1
          BY <5>1
        <5>3. text[j + h] = q[i + h]
          BY <4>1, <5>1, <5>2
        <5>4. QED
          BY <5>1, <5>2, <5>3
      <4>5. 1 <= j + 1 /\ (j + 1) + d <= l + 1
        BY <4>1
      <4>6. QED
        BY <4>2, <4>3, <4>4, <4>5
    <3> HIDE DEF Here
    <3>6. QED
      BY <3>2, <3>3, <3>4, <3>5
  <2> HIDE DEF Here
  <2>2. QED
    BY <2>1
<1>3. Right(1, n)
  <2>1. n \in A
    <3> HIDE DEF A
    <3>1. QED
      BY <1>1, <1>2, AllNumbers
  <2>2. 1 \in 1..n + 1 /\ 1 + n = n + 1
    OBVIOUS
  <2> HIDE DEF Right
  <2>3. QED
    BY <2>1, <2>2
<1>4. ASSUME NEW j, j \in F[1] PROVE j \in Nat
  <2>1. CASE n = 0
    BY <1>4, <2>1 DEF Following
  <2>2. CASE n # 0
    <3>1. 1 \in 1..n
      BY <2>2
    <3>2. QED
      BY <1>4, <3>1 DEF Following
  <2>3. QED
    BY <2>1, <2>2
<1>5. F[1] # {} <=> \E j \in Nat : Here(j, 1, n)
  <2> HIDE DEF Here
  <2>1. QED
    BY <1>3, <1>4
<1>6. \A i \in 1..l : text[i] \in C
  OBVIOUS
<1>7. ASSUME NEW i \in Nat, i + n <= l
      PROVE  SubSeq(text, i + 1, i + n) = q <=> \A k \in Nat : k < n => text[(i + 1) + k] = q[1 + k]
  <2>1. PICK a \in Int, b \in Int : a = i + 1 /\ b = i + n
    OBVIOUS
  <2>2. PICK part : part = SubSeq(text, a, b)
    OBVIOUS
  <2>3. part \in Seq(C) /\ Len(part) = (IF a <= b THEN b - a + 1 ELSE 0)
        /\ \A k \in 1..b - a + 1 : part[k] = text[a + k - 1]
    <3>1. \A k \in a..b : text[k] \in C
      BY <1>6, <1>7, <2>1
    <3>2. QED
      BY <2>2, <3>1, SubSeqProperties
  <2>4. b - a + 1 = n /\ (a <= b <=> n # 0)
    BY <2>1
  <2>5. Len(part) = n /\ \A k \in 1..n : part[k] = text[a + k - 1]
    BY <2>3, <2>4
  <2>6. part = q <=> \A k \in 1..n : part[k] = q[k]
    BY <2>3, <2>5
  <2>7. ASSUME \A k \in 1..n : part[k] = q[k], NEW k \in Nat, k < n
        PROVE  text[(i + 1) + k] = q[1 + k]
    <3>1. 1 + k \in 1..n /\ a + (1 + k) - 1 = (i + 1) + k
      BY <2>1, <2>7
    <3>2. QED
      BY <2>5, <2>7, <3>1
  <2>8. ASSUME \A k \in Nat : k < n => text[(i + 1) + k] = q[1 + k], NEW k \in 1..n
        PROVE  part[k] = q[k]
    <3>1. PICK h \in Nat : k = 1 + h
      <4>1. k - 1 \in Nat /\ k = 1 + (k - 1)
        OBVIOUS
      <4>2. QED
        BY <4>1
    <3>2. h < n /\ a + k - 1 = (i + 1) + h
      BY <2>1, <3>1
    <3>3. QED
      BY <2>5, <2>8, <3>1, <3>2
  <2>9. QED
    BY <2>1, <2>2, <2>6, <2>7, <2>8
<1>8. ASSUME NEW j \in Nat, Here(j, 1, n) PROVE Literally(text, q)
  <2>1. PICK i \in Nat : j = i + 1
    <3>1. j - 1 \in Nat /\ j = (j - 1) + 1
      BY <1>8
    <3>2. QED
      BY <3>1
  <2>2. i + n <= l /\ i \in 0..l
    BY <1>8, <2>1
  <2>3. SubSeq(text, i + 1, i + n) = q
    BY <1>7, <1>8, <2>1, <2>2
  <2>4. QED
    BY <2>2, <2>3 DEF Literally
<1>9. ASSUME Literally(text, q) PROVE \E j \in Nat : Here(j, 1, n)
  <2>1. PICK i \in 0..l : i + n <= l /\ SubSeq(text, i + 1, i + n) = q
    BY <1>9 DEF Literally
  <2>2. i \in Nat /\ i + 1 \in Nat /\ 1 <= i + 1 /\ (i + 1) + n <= l + 1
    BY <2>1
  <2>3. \A k \in Nat : k < n => text[(i + 1) + k] = q[1 + k]
    BY <1>7, <2>1, <2>2
  <2>4. Here(i + 1, 1, n)
    BY <2>2, <2>3
  <2> HIDE DEF Here
  <2>5. QED
    BY <2>2, <2>4
<1>10. QED
  <2> HIDE DEF Here
  <2>1. QED
    BY <1>5, <1>8, <1>9


\* What LIKE finds by a pattern that spells a text is the text itself.
LEMMA LikeSpells ==
    ASSUME NEW C, Known \subseteq C, NEW text \in Seq(C), NEW q \in Seq(C), NEW p \in Seq(C),
           Spells(p, q, Len(q), Known)
    PROVE  Like(text, <<"%">> \o p \o <<"%">>) <=> Literally(text, q)
<1>1. PICK l \in Nat, n \in Nat, m \in Nat : l = Len(text) /\ n = Len(q) /\ m = Len(p)
  OBVIOUS
<1>2. PICK any \in C : any = "%"
  BY DEF Known
<1>3. PICK pattern : pattern = <<any>> \o p \o <<any>>
  OBVIOUS
<1>4. /\ Len(pattern) = m + 2 /\ pattern[1] = any /\ pattern[m + 2] = any
      /\ \A i \in 1..m : pattern[i + 1] = p[i]
  <2>1. PICK one : one = <<any>>
    OBVIOUS
  <2>2. one \in Seq(C) /\ Len(one) = 1 /\ one[1] = any
    BY <2>1
  <2>3. PICK two : two = one \o p
    OBVIOUS
  <2>4. /\ two \in Seq(C) /\ Len(two) = 1 + m
        /\ \A i \in 1..1 + m : two[i] = IF i <= 1 THEN one[i] ELSE p[i - 1]
    <3>1. /\ two \in Seq(C) /\ Len(two) = Len(one) + Len(p)
          /\ \A i \in 1..Len(one) + Len(p) : two[i] = IF i <= Len(one) THEN one[i] ELSE p[i - Len(one)]
      BY <2>2, <2>3, ConcatProperties
    <3>2. QED
      BY <1>1, <2>2, <3>1
  <2>5. /\ pattern = two \o one /\ Len(pattern) = (1 + m) + 1
        /\ \A i \in 1..(1 + m) + 1 : pattern[i] = IF i <= 1 + m THEN two[i] ELSE one[i - (1 + m)]
    BY <1>3, <2>1, <2>2, <2>3, <2>4, ConcatProperties
  <2>6. 1 \in 1..(1 + m) + 1 /\ 1 <= 1 + m /\ 1 \in 1..1 + m /\ 1 <= 1
    OBVIOUS
  <2>7. m + 2 \in 1..(1 + m) + 1 /\ ~(m + 2 <= 1 + m) /\ (m + 2) - (1 + m) = 1 /\ (1 + m) + 1 = m + 2
    OBVIOUS
  <2>8. \A i \in 1..m : /\ i + 1 \in 1..(1 + m) + 1 /\ i + 1 <= 1 + m /\ i + 1 \in 1..1 + m
                        /\ ~(i + 1 <= 1) /\ (i + 1) - 1 = i
    OBVIOUS
  <2>9. pattern[1] = any /\ pattern[m + 2] = any
    BY <2>2, <2>4, <2>5, <2>6, <2>7
  <2>10. \A i \in 1..m : pattern[i + 1] = p[i]
    BY <2>4, <2>5, <2>8
  <2>11. QED
    BY <2>5, <2>7, <2>9, <2>10
<1>5. PICK fits : Fits(fits, text, pattern) /\ (Like(text, pattern) <=> 1 \in fits[1])
  BY <1>1, <1>4, LikeFits
<1>6. PICK at : SpeltAt(p, q, n, Known, at)
  BY <1>1 DEF Spells
<1>7. /\ at \in [1..n + 1 -> 1..m + 1] /\ at[1] = 1 /\ at[n + 1] = m + 1
      /\ \A i \in 1..n : Spelt(p, q[i], at[i], at[i + 1], Known)
  BY <1>1, <1>6 DEF SpeltAt
<1>8. \A i \in 1..m + 3 : fits[i] = Places(fits, text, pattern, i)
  <2>1. Len(pattern) + 1 = m + 3
    BY <1>4
  <2>2. QED
    BY <1>5, <2>1 DEF Fits
<1>9. any # Escape
  BY <1>2 DEF Escape
<1>10. fits[m + 3] = {l + 1}
  <2>1. m + 3 \in 1..m + 3 /\ m + 3 > Len(pattern)
    BY <1>4
  <2>2. QED
    BY <1>1, <1>8, <2>1 DEF Places
<1>11. ASSUME NEW i \in 1..m + 2, pattern[i] = any
       PROVE  fits[i] = {j \in 1..l + 1 : \E k \in fits[i + 1] : j <= k}
  <2>1. i \in 1..m + 3 /\ ~(i > Len(pattern))
    BY <1>4
  <2>2. QED
    BY <1>1, <1>2, <1>8, <1>9, <1>11, <2>1 DEF Places
<1>12. fits[m + 2] = 1..l + 1
  <2>1. m + 2 \in 1..m + 2 /\ (m + 2) + 1 = m + 3
    OBVIOUS
  <2>2. fits[m + 2] = {j \in 1..l + 1 : \E k \in {l + 1} : j <= k}
    BY <1>4, <1>10, <1>11, <2>1
  <2>3. QED
    BY <2>2
<1>13. fits[1] = {j \in 1..l + 1 : \E k \in fits[2] : j <= k}
  <2>1. 1 \in 1..m + 2 /\ 1 + 1 = 2
    OBVIOUS
  <2>2. QED
    BY <1>4, <1>11, <2>1
<1>14. PICK F : F = [i \in 1..n + 1 |-> fits[at[i] + 1]]
  OBVIOUS
<1>15. F[1] = fits[2] /\ F[n + 1] = 1..l + 1
  <2>1. 1 \in 1..n + 1 /\ n + 1 \in 1..n + 1 /\ 1 + 1 = 2 /\ (m + 1) + 1 = m + 2
    OBVIOUS
  <2>2. QED
    BY <1>7, <1>12, <1>14, <2>1
<1>16. ASSUME NEW i \in 1..n
       PROVE  F[i] = {j \in 1..l : text[j] = q[i] /\ j + 1 \in F[i + 1]}
  <2>1. i \in 1..n + 1 /\ i + 1 \in 1..n + 1
    OBVIOUS
  <2>2. PICK x \in 1..m + 1, y \in 1..m + 1 : x = at[i] /\ y = at[i + 1]
    BY <1>7, <2>1
  <2>3. Spelt(p, q[i], x, y, Known)
    BY <1>7, <2>2
  <2>4. F[i] = fits[x + 1] /\ F[i + 1] = fits[y + 1]
    BY <1>14, <2>1, <2>2
  <2>5. PICK char \in C : char = q[i]
    BY <1>1
  <2>6. CASE char \in Known
    <3>1. y = x + 2 /\ p[x] = Escape /\ p[x + 1] = char
      BY <2>3, <2>5, <2>6 DEF Spelt
    <3>2. /\ x \in 1..m /\ x + 1 \in 1..m /\ x + 1 \in 1..m + 3
          /\ x + 1 < m + 2 /\ (x + 1) + 1 = x + 2 /\ (x + 1) + 2 = y + 1
      <4>1. x \in Nat /\ m \in Nat /\ 1 <= x /\ y = x + 2 /\ y <= m + 1
        BY <2>2, <3>1
      <4>2. x + 1 <= m
        BY <4>1
      <4> HIDE <2>2
      <4>3. QED
        BY <4>1, <4>2
    <3>3. pattern[x + 1] = Escape /\ pattern[(x + 1) + 1] = char
      <4>1. PICK z \in 1..m : z = x + 1
        BY <3>2
      <4>2. pattern[x + 1] = p[x] /\ pattern[z + 1] = p[z]
        BY <1>4, <3>2
      <4>3. QED
        BY <3>1, <4>1, <4>2
    <3>4. x + 1 < Len(pattern) /\ ~(x + 1 > Len(pattern))
      BY <1>4, <3>2
    <3>5. fits[x + 1] = {j \in 1..l : text[j] = char /\ j + 1 \in fits[(x + 1) + 2]}
      <4>1. PICK z \in 1..m + 3 : z = x + 1
        BY <3>2
      <4>2. PICK c : c = pattern[z]
        OBVIOUS
      <4>3. c = Escape /\ pattern[z + 1] = char /\ z < Len(pattern) /\ ~(z > Len(pattern)) /\ c # "%"
        BY <3>3, <3>4, <4>1, <4>2 DEF Escape
      <4>4. Places(fits, text, pattern, z) =
              CASE c = Escape ->
                     {j \in 1..Len(text) : /\ z < Len(pattern) /\ text[j] = pattern[z + 1]
                                           /\ j + 1 \in fits[z + 2]}
                [] c = "%" -> {j \in 1..Len(text) + 1 : \E k \in fits[z + 1] : j <= k}
                [] OTHER -> {j \in 1..Len(text) : /\ c \in {text[j], "_"}
                                                  /\ j + 1 \in fits[z + 1]}
        BY <4>2, <4>3, Zenon DEF Places
      <4>5. Places(fits, text, pattern, z) =
              {j \in 1..Len(text) : /\ z < Len(pattern) /\ text[j] = pattern[z + 1]
                                    /\ j + 1 \in fits[z + 2]}
        BY <4>3, <4>4
      <4>6. fits[z] = {j \in 1..l : text[j] = char /\ j + 1 \in fits[z + 2]}
        BY <1>1, <1>8, <4>3, <4>5
      <4>7. QED
        BY <4>1, <4>6
    <3>6. QED
      BY <2>4, <2>5, <3>2, <3>5
  <2>7. CASE char \notin Known
    <3>1. y = x + 1 /\ p[x] = char
      BY <2>3, <2>5, <2>7 DEF Spelt
    <3>2. x \in 1..m /\ x + 1 \in 1..m + 3
      BY <2>2, <3>1
    <3>3. pattern[x + 1] = char /\ char # Escape /\ char # "%" /\ char # "_"
      BY <1>4, <2>7, <3>1, <3>2 DEF Known
    <3>4. ~(x + 1 > Len(pattern))
      BY <1>4, <3>2
    <3>5. fits[x + 1] = {j \in 1..l : text[j] = char /\ j + 1 \in fits[(x + 1) + 1]}
      <4>1. Places(fits, text, pattern, x + 1) =
              {j \in 1..Len(text) : /\ pattern[x + 1] \in {text[j], "_"}
                                    /\ j + 1 \in fits[(x + 1) + 1]}
        BY <3>3, <3>4 DEF Places
      <4>2. \A j : pattern[x + 1] \in {text[j], "_"} <=> text[j] = char
        BY <3>3
      <4>3. QED
        BY <1>1, <1>8, <3>2, <4>1, <4>2
    <3>6. QED
      BY <2>4, <2>5, <3>1, <3>5
  <2>8. QED
    BY <2>6, <2>7
<1>17. F[1] # {} <=> Literally(text, q)
  <2>1. Following(F, text, q, l, n)
    BY <1>15, <1>16 DEF Following
  <2>2. QED
    BY <1>1, <2>1, FollowingIsLiteral
<1>18. 1 \in fits[1] <=> fits[2] # {}
  <2>1. fits[2] \subseteq 1..l + 1
    <3>1. CASE n = 0
      BY <1>15, <3>1
    <3>2. CASE n # 0
      <4>1. 1 \in 1..n
        BY <3>2
      <4>2. QED
        BY <1>15, <1>16, <4>1
    <3>3. QED
      BY <3>1, <3>2
  <2>2. QED
    BY <1>13, <2>1
<1>19. QED
  BY <1>2, <1>3, <1>5, <1>15, <1>17, <1>18

\* LIKE finds a model by an escaped text exactly if the text is in it.
LEMMA LikeIsLiteral ==
    ASSUME NEW query \in Queries, NEW bike \in Contents
    PROVE  Like(bike.motorcycle.model, <<"%">> \o escapeLike(query.filter.q) \o <<"%">>)
              <=> Literally(bike.motorcycle.model, query.filter.q)
<1>1. PICK text : text = bike.motorcycle.model
  OBVIOUS
<1>2. PICK q : q = query.filter.q
  OBVIOUS
<1>3. text \in Seq(STRING) /\ q \in Seq(STRING)
  BY <1>1, <1>2, TextAssumption
<1>4. PICK C : C = Known \cup {text[i] : i \in DOMAIN text} \cup {q[i] : i \in DOMAIN q}
  OBVIOUS
<1>5. Known \subseteq C
  BY <1>4
<1>6. text \in Seq(C) /\ q \in Seq(C)
  <2>1. ASSUME NEW S, NEW s \in Seq(S), \A i \in DOMAIN s : s[i] \in C PROVE s \in Seq(C)
    <3>1. PICK n \in Nat : n = Len(s) /\ DOMAIN s = 1..n
      OBVIOUS
    <3>2. s \in [1..n -> C]
      BY <2>1, <3>1
    <3>3. QED
      BY <3>2
  <2>2. (\A i \in DOMAIN text : text[i] \in C) /\ (\A i \in DOMAIN q : q[i] \in C)
    BY <1>4
  <2> HIDE <1>4
  <2>3. PICK S : text \in Seq(S) /\ q \in Seq(S)
    BY <1>3
  <2>4. QED
    BY <2>1, <2>2, <2>3
<1>7. PICK p \in Seq(C) : p = escapeLike(q) /\ Spells(p, q, Len(q), Known)
  BY <1>5, <1>6, PatternSpells
<1>8. Like(text, <<"%">> \o p \o <<"%">>) <=> Literally(text, q)
  BY <1>5, <1>6, <1>7, LikeSpells
<1>9. QED
  BY <1>1, <1>2, <1>7, <1>8

------------------------------------------------------------------------------
(* Pages and their instants *)

LEMMA OfTwo ==
    ASSUME NEW a \in Int, NEW b \in Int
    PROVE  /\ Min({a, b}) = IF a <= b THEN a ELSE b
           /\ Max({a, b}) = IF a >= b THEN a ELSE b
<1>1. Min({a, b}) = IF a <= b THEN a ELSE b
  BY DEF Min
<1>2. Max({a, b}) = IF a >= b THEN a ELSE b
  BY DEF Max
<1>3. QED
  BY <1>1, <1>2

\* What is listed at places a to b is no more than these are.
Placed(f, a, b) == {f[i] : i \in a..b}
LEMMA AtMost ==
    ASSUME NEW a \in Int, NEW b \in Int, NEW f, NEW S, S \subseteq Placed(f, a, b)
    PROVE  Cardinality(S) <= IF a <= b THEN b - a + 1 ELSE 0
<1> DEFINE T == Placed(f, a, b)
           g == [i \in a..b |-> f[i]]
<1>1. g \in Surjection(a..b, T)
  BY DEF Surjection, Placed
<1>2. IsFiniteSet(a..b) /\ Cardinality(a..b) = IF a > b THEN 0 ELSE b - a + 1
  BY FS_Interval
<1>3. S \subseteq T
  OBVIOUS
<1> HIDE DEF T, g
<1>4. IsFiniteSet(T) /\ Cardinality(T) <= Cardinality(a..b)
  BY <1>1, <1>2, FS_Surjection
<1>5. Cardinality(S) <= Cardinality(T) /\ Cardinality(S) \in Nat /\ Cardinality(T) \in Nat
  BY <1>3, <1>4, FS_Subset, FS_CardinalityType
<1>6. QED
  BY <1>2, <1>4, <1>5

\* Whoever lists n of n things without repeating himself lists them all.
LEMMA ListsAll ==
    ASSUME NEW S, IsFiniteSet(S), NEW n, n = Cardinality(S), NEW f \in [1..n -> S],
           \A i, j \in 1..n : i # j => f[i] # f[j]
    PROVE  \A o \in S : \E i \in 1..n : f[i] = o
<1>1. f \in Injection(1..n, S)
  BY DEF Injection, IsInjective
<1>2. n \in Nat
  BY FS_CardinalityType
<1>3. Cardinality(1..n) = n
  BY <1>2, FS_Interval
<1>4. f \in Surjection(1..n, S)
  BY <1>1, <1>3, FS_Injection
<1>5. QED
  BY <1>4 DEF Surjection

\* An order of all that is wanted, each x behind front[x], those that must stand before it;
\* and a page cut out of it.
AllIn(order, n, wanted) ==
    order \in [1..n -> wanted] /\ \A i, j \in 1..n : i # j => order[i] # order[j]
Behind(order, n, front) == \A i, j \in 1..n : i <= j => order[j] \notin front[order[i]]
Cut(ids, order, n, first, size) == ids = SubSeq(order, first + 1, Min({n, first + size}))
Length(n, first, size) == Max({0, Min({size, n - first})})
From(ids, order, n, first) ==
    \A i \in 1..Len(ids) : first + i \in 1..n /\ ids[i] = order[first + i]

LEMMA CutPlaces ==
    ASSUME NEW n \in Nat, NEW order, NEW wanted, AllIn(order, n, wanted),
           NEW first \in Nat, NEW size \in Nat, NEW ids, Cut(ids, order, n, first, size)
    PROVE  /\ ids \in Seq(wanted) /\ Len(ids) \in Nat
           /\ Len(ids) = Length(n, first, size)
           /\ From(ids, order, n, first)
<1>1. PICK last : last = Min({n, first + size})
  OBVIOUS
<1>2. last = IF n <= first + size THEN n ELSE first + size
  BY <1>1, OfTwo
<1>3. last \in Nat /\ last <= n
  BY <1>2
<1>4. PICK m \in Int : m = first + 1
  OBVIOUS
<1>5. \A i \in m..last : i \in 1..n
  BY <1>3, <1>4
<1>6. \A i \in m..last : order[i] \in wanted
  BY <1>5 DEF AllIn
<1>7. ids = SubSeq(order, m, last)
  BY <1>1, <1>4 DEF Cut
<1>8. /\ ids \in Seq(wanted)
      /\ Len(ids) = IF m <= last THEN last - m + 1 ELSE 0
      /\ \A i \in 1..last - m + 1 : ids[i] = order[m + i - 1]
  BY <1>3, <1>6, <1>7, SubSeqProperties
<1>9. Len(ids) \in Nat
  BY <1>3, <1>4, <1>8
<1>10. \A i \in 1..Len(ids) : first + i \in 1..n /\ ids[i] = order[first + i]
  <2> SUFFICES ASSUME NEW i \in 1..Len(ids) PROVE first + i \in 1..n /\ ids[i] = order[first + i]
    OBVIOUS
  <2>1. m <= last /\ i <= last - m + 1 /\ i \in Nat /\ 1 <= i
    BY <1>3, <1>8, <1>9
  <2>2. ids[i] = order[m + i - 1]
    BY <1>3, <1>8, <2>1
  <2>3. m + i - 1 = first + i /\ first + i \in 1..n
    BY <1>3, <1>4, <2>1
  <2>4. QED
    BY <2>2, <2>3
<1>11. Len(ids) = Max({0, Min({size, n - first})})
  <2>1. PICK rest \in Int : rest = n - first
    OBVIOUS
  <2>2. PICK least \in Int : least = Min({size, rest}) /\ least = IF size <= rest THEN size ELSE rest
    BY OfTwo
  <2>3. Max({0, least}) = IF 0 >= least THEN 0 ELSE least
    BY OfTwo
  <2>4. Len(ids) = IF 0 >= least THEN 0 ELSE least
    BY <1>2, <1>3, <1>4, <1>8, <2>1, <2>2
  <2>5. QED
    BY <2>1, <2>2, <2>3, <2>4
<1>12. QED
  BY <1>8, <1>9, <1>10, <1>11 DEF From, Length

\* The bike at place p of such an order has at most p - 1 before it that must be, and at most
\* n - p behind it that must be.
LEMMA PlacesFit ==
    ASSUME NEW wanted, IsFiniteSet(wanted), NEW n \in Nat, n = Cardinality(wanted),
           NEW order, AllIn(order, n, wanted), NEW front, Behind(order, n, front),
           NEW p \in 1..n, NEW x, x = order[p]
    PROVE  /\ Cardinality({o \in wanted : o \in front[x]}) \in 0..p - 1
           /\ Cardinality({o \in wanted : x \in front[o]}) <= n - p
<1>1. \A o \in wanted : \E i \in 1..n : order[i] = o
  BY ListsAll DEF AllIn
<1>2. PICK before : before = {o \in wanted : o \in front[x]}
  OBVIOUS
<1>3. PICK after : after = {o \in wanted : x \in front[o]}
  OBVIOUS
<1>4. Cardinality(before) \in Nat
  <2>1. IsFiniteSet(before)
    BY <1>2, FS_Subset
  <2>2. QED
    BY <2>1, FS_CardinalityType
<1>5. PICK b \in Int : b = p - 1 /\ 0 <= b
  OBVIOUS
<1>6. Cardinality(before) <= b
  <2>1. ASSUME NEW o \in before PROVE \E q \in 1..b : order[q] = o
    <3>1. PICK q \in 1..n : order[q] = o
      BY <1>1, <1>2
    <3>2. o \in front[x]
      BY <1>2
    <3>3. ~(p <= q)
      BY <3>1, <3>2 DEF Behind
    <3>4. q \in 1..b
      BY <1>5, <3>3
    <3>5. QED
      BY <3>1, <3>4
  <2>2. before \subseteq Placed(order, 1, b)
    BY <2>1 DEF Placed
  <2>3. Cardinality(before) <= IF 1 <= b THEN b - 1 + 1 ELSE 0
    BY <2>2, AtMost
  <2>4. QED
    BY <1>5, <2>3
<1>7. PICK a \in Int : a = p + 1 /\ a <= n + 1
  OBVIOUS
<1>8. Cardinality(after) <= n - p
  <2>1. ASSUME NEW o \in after PROVE \E q \in a..n : order[q] = o
    <3>1. PICK q \in 1..n : order[q] = o
      BY <1>1, <1>3
    <3>2. x \in front[o]
      BY <1>3
    <3>3. ~(q <= p)
      BY <3>1, <3>2 DEF Behind
    <3>4. q \in a..n
      BY <1>7, <3>3
    <3>5. QED
      BY <3>1, <3>4
  <2>2. after \subseteq Placed(order, a, n)
    BY <2>1 DEF Placed
  <2>3. Cardinality(after) <= IF a <= n THEN n - a + 1 ELSE 0
    BY <2>2, AtMost
  <2>4. QED
    BY <1>7, <2>3
<1>9. QED
  BY <1>2, <1>3, <1>4, <1>5, <1>6, <1>8

\* The filter finds what is wanted.
LEMMA MatchesAreWanted ==
    ASSUME NEW query \in Queries, NEW v \in Versions
    PROVE  Matches(v, query.filter) <=> Wanted(v, query.filter)
<1>1. PICK bike \in Contents, n \in 0..MaxWrites : v = Version(bike, n)
  BY DEF Versions
<1>2. v.motorcycle = bike.motorcycle /\ v.engine = bike.engine
  BY <1>1, VersionHolds
<1>3. PICK filter : filter = query.filter
  OBVIOUS
<1>4. PICK price, power : price = v.motorcycle.price /\ power = v.engine.power
  OBVIOUS
<1>5. price \in Nat \cup {NULL} /\ (v.engine # Absent => power \in Nat \cup {NULL}) /\ NULL \notin Nat
  BY <1>2, <1>4, ColumnAssumption
<1>6. filter.brand \in {NULL, v.motorcycle.brand} <=> (filter.brand # NULL => v.motorcycle.brand = filter.brand)
  OBVIOUS
<1>7. Within(price, NULL, filter.maxPrice) <=>
        (filter.maxPrice # NULL => price \in Nat /\ price <= filter.maxPrice)
  BY <1>5 DEF Within
<1>8. (filter.minPower # NULL => v.engine # Absent /\ Within(power, filter.minPower, NULL)) <=>
        (filter.minPower # NULL => v.engine # Absent /\ power \in Nat /\ power >= filter.minPower)
  BY <1>5 DEF Within
<1>9. (hasText(filter.q) => Like(v.motorcycle.model, <<"%">> \o escapeLike(filter.q) \o <<"%">>))
        <=> (hasText(filter.q) => Literally(v.motorcycle.model, filter.q))
  BY <1>2, <1>3, LikeIsLiteral
<1>10. Matches(v, filter) <=> Wanted(v, filter)
  BY <1>4, <1>6, <1>7, <1>8, <1>9 DEF Matches, Wanted
<1>11. QED
  BY <1>3, <1>10

\* What pages are sorted by.
LEMMA KeysAreFigures ==
    ASSUME Based, NEW column \in Sortable, NEW id \in Ids, catalogue[id] # Absent
    PROVE  Key(catalogue, id, column) \in Nat \cup {NULL}
<1>1. CASE column = "id"
  BY <1>1, IdsAreNumbers DEF Key
<1>2. CASE column # "id"
  <2>1. PICK bike \in Contents, n \in 0..MaxWrites : catalogue[id] = Version(bike, n)
    BY DEF Based, Tables, Versions
  <2>2. PICK v : v = Version(bike, n)
    OBVIOUS
  <2>3. catalogue[id].motorcycle = bike.motorcycle
    BY <2>1, <2>2, VersionHolds
  <2>4. bike.motorcycle[column] \in Nat \cup {NULL}
    BY <1>2, ColumnAssumption
  <2>5. QED
    BY <1>2, <2>3, <2>4 DEF Key
<1>3. QED
  BY <1>1, <1>2

\* None stands before itself, and the order of the database is the order promised.
LEMMA OrderOfKeys ==
    ASSUME NEW x \in Nat \cup {NULL}, NEW y \in Nat \cup {NULL}, NEW descending
    PROVE  ~Ahead(x, x, descending) /\ (Before(x, y, descending) <=> Ahead(x, y, descending))
<1>1. NULL \notin Nat
  BY ColumnAssumption
<1>2. ~Ahead(x, x, descending)
  BY <1>1 DEF Ahead
<1>3. Before(x, y, descending) <=> Ahead(x, y, descending)
  BY <1>1 DEF Ahead, Before
<1>4. QED
  BY <1>2, <1>3

\* The slice that a page reads is the one it asks for, and where it is not counted it tells
\* the total.
WantedOf(table, filter) == {id \in There(table) : Wanted(table[id], filter)}
LEMMA SliceStands ==
    ASSUME Based, NEW query \in Queries, query.sort \in Sortable,
           NEW order \in Orders(query), NEW ids, ids = Slice(order, query)
    PROVE  /\ IsSlice(ids, query, catalogue)
           /\ ~Counted(ids, query) =>
                 First(query) + Len(ids) = Cardinality(WantedOf(catalogue, query.filter))
<1>1. PICK wanted : wanted = WantedOf(catalogue, query.filter)
  OBVIOUS
<1>2. Found(query.filter) = wanted
  <2>1. \A id \in There(catalogue) : catalogue[id] \in Versions
    BY DEF There, Based, Tables
  <2>2. \A id \in There(catalogue) :
            Matches(catalogue[id], query.filter) <=> Wanted(catalogue[id], query.filter)
    BY <2>1, MatchesAreWanted
  <2>3. QED
    BY <1>1, <2>2 DEF Found, WantedOf
<1>3. wanted \subseteq Ids /\ \A id \in wanted : catalogue[id] # Absent
  BY <1>1 DEF WantedOf, There
<1>4. IsFiniteSet(wanted)
  BY <1>3, BoundAssumption, FS_Subset
<1>5. PICK n : n = Cardinality(wanted)
  OBVIOUS
<1>6. n \in Nat
  BY <1>4, <1>5, FS_CardinalityType
<1>7. AllIn(order, n, wanted)
  BY <1>2, <1>5 DEF Orders, SetToSeqs, AllIn
<1> DEFINE key(id) == Key(catalogue, id, query.sort)
           ahead(id, other) == Ahead(key(id), key(other), query.descending)
<1>8. PICK front : front = [x \in wanted |-> {o \in wanted : ahead(o, x)}]
  OBVIOUS
<1>9. \A id \in wanted : key(id) \in Nat \cup {NULL}
  BY <1>3, KeysAreFigures
<1>10. Behind(order, n, front)
  <2> SUFFICES ASSUME NEW i \in 1..n, NEW j \in 1..n, i <= j PROVE order[j] \notin front[order[i]]
    BY DEF Behind
  <2>1. order[i] \in wanted /\ order[j] \in wanted
    BY <1>7 DEF AllIn
  <2>2. ~ahead(order[j], order[i])
    <3>1. CASE i < j
      <4>1. DOMAIN order = 1..n
        BY <1>7 DEF AllIn
      <4>2. ~Before(key(order[j]), key(order[i]), query.descending)
        BY <3>1, <4>1 DEF Orders
      <4>3. PICK x, y : x = key(order[j]) /\ y = key(order[i])
        OBVIOUS
      <4>4. ~Ahead(x, y, query.descending)
        BY <1>9, <2>1, <4>2, <4>3, OrderOfKeys
      <4>5. QED
        BY <4>3, <4>4
    <3>2. CASE ~(i < j)
      <4>1. i = j
        BY <3>2, <1>6
      <4>2. PICK x : x = key(order[i])
        OBVIOUS
      <4>3. ~Ahead(x, x, query.descending)
        BY <1>9, <2>1, <4>2, OrderOfKeys
      <4>4. QED
        BY <4>1, <4>2, <4>3
    <3>3. QED
      BY <3>1, <3>2
  <2> HIDE DEF ahead
  <2>3. QED
    BY <1>8, <2>1, <2>2
<1>11. PICK page, size : page = query.page /\ size = query.size
  OBVIOUS
<1>12. page \in Nat /\ size \in Nat \ {0}
  BY <1>11, QueryAssumption
<1>13. PICK first : first = page * size
  OBVIOUS
<1>14. first \in Nat /\ (page = 0 => first = 0) /\ First(query) = first
  BY <1>11, <1>12, <1>13 DEF First
<1>15. Cut(ids, order, n, first, size)
  <2>1. Len(order) = n
    BY <1>6, <1>7 DEF AllIn
  <2>2. QED
    BY <1>11, <1>14, <2>1 DEF Slice, Cut
<1>16. /\ ids \in Seq(wanted) /\ Len(ids) \in Nat
       /\ Len(ids) = Max({0, Min({size, n - first})})
       /\ \A i \in 1..Len(ids) : first + i \in 1..n /\ ids[i] = order[first + i]
  <2>1. n \in Nat /\ first \in Nat /\ size \in Nat
    BY <1>6, <1>12, <1>14
  <2>2. ids \in Seq(wanted) /\ Len(ids) \in Nat
    BY <1>7, <1>15, <2>1, CutPlaces
  <2>3. Len(ids) = Length(n, first, size)
    BY <1>7, <1>15, <2>1, CutPlaces
  <2>4. From(ids, order, n, first)
    BY <1>7, <1>15, <2>1, CutPlaces
  <2>5. QED
    BY <2>2, <2>3, <2>4 DEF From, Length
<1>17. DOMAIN ids = 1..Len(ids)
  BY <1>16
<1>18. IsInjective(ids) /\ ToSet(ids) \subseteq wanted
  <2>1. ASSUME NEW i \in DOMAIN ids, NEW j \in DOMAIN ids, ids[i] = ids[j] PROVE i = j
    <3>1. PICK p \in 1..n, q \in 1..n : p = first + i /\ q = first + j
      BY <1>16, <1>17
    <3>2. order[p] = order[q]
      BY <1>16, <1>17, <2>1, <3>1
    <3>3. p = q
      BY <1>7, <3>2 DEF AllIn
    <3>4. QED
      BY <1>14, <1>16, <1>17, <3>1, <3>3
  <2>2. IsInjective(ids)
    BY <2>1 DEF IsInjective
  <2>3. ToSet(ids) \subseteq wanted
    BY <1>16 DEF ToSet
  <2>4. QED
    BY <2>2, <2>3
<1>19. ASSUME NEW i \in DOMAIN ids
       PROVE  /\ Cardinality({o \in wanted : ahead(o, ids[i])}) < first + i
              /\ Cardinality({o \in wanted : ahead(ids[i], o)}) <= n - first - i
              /\ \A j \in 1..i - 1 : ~ahead(ids[i], ids[j])
  <2>1. PICK p \in 1..n : p = first + i /\ ids[i] = order[p]
    BY <1>16, <1>17
  <2>2. PICK x : x = ids[i]
    OBVIOUS
  <2>3. x \in wanted
    BY <2>1, <2>2, <1>7 DEF AllIn
  <2>4. /\ {o \in wanted : ahead(o, x)} = {o \in wanted : o \in front[x]}
        /\ {o \in wanted : ahead(x, o)} = {o \in wanted : x \in front[o]}
    <3> HIDE DEF ahead
    <3>1. QED
      BY <1>8, <2>3
  <2>5. /\ Cardinality({o \in wanted : o \in front[x]}) \in 0..p - 1
        /\ Cardinality({o \in wanted : x \in front[o]}) <= n - p
    BY <1>4, <1>5, <1>6, <1>7, <1>10, <2>1, <2>2, PlacesFit
  <2>6. \A j \in 1..i - 1 : ~ahead(ids[i], ids[j])
    <3> SUFFICES ASSUME NEW j \in 1..i - 1 PROVE ~ahead(ids[i], ids[j])
      OBVIOUS
    <3>1. j \in 1..Len(ids) /\ j <= i
      BY <1>16, <1>17
    <3>2. PICK q \in 1..n : q = first + j /\ ids[j] = order[q]
      BY <1>16, <3>1
    <3>3. q <= p
      BY <1>14, <1>16, <1>17, <2>1, <3>1, <3>2
    <3>4. ids[i] \notin front[ids[j]]
      BY <1>10, <2>1, <3>2, <3>3 DEF Behind
    <3>5. ids[j] \in wanted
      BY <3>2, <1>7 DEF AllIn
    <3> HIDE DEF ahead
    <3>6. QED
      BY <1>8, <2>2, <2>3, <3>4, <3>5
  <2>7. PICK c : c = Cardinality({o \in wanted : ahead(o, x)})
    OBVIOUS
  <2>8. c \in 0..p - 1
    BY <2>4, <2>5, <2>7
  <2>9. c < first + i /\ n - first - i = n - p
    BY <1>6, <1>14, <1>16, <1>17, <2>1, <2>8
  <2>10. QED
    BY <2>2, <2>4, <2>5, <2>6, <2>7, <2>9
<1>20. IsSlice(ids, query, catalogue)
  BY <1>1, <1>5, <1>11, <1>13, <1>16, <1>18, <1>19 DEF IsSlice, WantedOf
<1>21. ASSUME ~Counted(ids, query) PROVE first + Len(ids) = n
  <2>1. Len(ids) < size /\ (page = 0 \/ ids # <<>>)
    BY <1>11, <1>21 DEF Counted
  <2>2. page = 0 \/ Len(ids) # 0
    BY <1>16, <2>1
  <2>3. PICK rest \in Int : rest = n - first
    BY <1>6, <1>14
  <2>4. PICK least \in Int : least = Min({size, rest}) /\ least = IF size <= rest THEN size ELSE rest
    BY <1>12, OfTwo
  <2>5. Max({0, least}) = IF 0 >= least THEN 0 ELSE least
    BY OfTwo
  <2>6. Len(ids) = IF 0 >= least THEN 0 ELSE least
    BY <1>16, <2>3, <2>4, <2>5
  <2>7. PICK len \in Nat : len = Len(ids)
    BY <1>16
  <2>8. rest = n - first /\ (page = 0 => first = 0) /\ len < size /\ (page = 0 \/ len # 0)
        /\ least = (IF size <= rest THEN size ELSE rest) /\ len = (IF 0 >= least THEN 0 ELSE least)
    BY <1>14, <2>1, <2>2, <2>3, <2>4, <2>6, <2>7
  <2>9. n \in Nat /\ first \in Nat /\ size \in Nat \ {0} /\ rest \in Int /\ len \in Nat
    BY <1>6, <1>12, <1>14
  <2>10. first + len = n
    <3>1. CASE page = 0
      BY <2>8, <2>9, <3>1
    <3>2. CASE page # 0
      BY <2>8, <2>9, <3>2
    <3>3. QED
      BY <3>1, <3>2
  <2>11. QED
    BY <2>7, <2>10
<1>22. QED
  BY <1>1, <1>5, <1>14, <1>20, <1>21

\* The rows of a page are those of one instant; each block it has loaded is its bike's, of that
\* instant or a later one, and so is the total, once it is known.  A single bike likewise.
BlockAt(l, part, id, block) ==
    IF part = "extras" THEN block = Extras(past[l], id)
    ELSE past[l][id] # Absent /\ past[l][id][part] # Absent /\ block = past[l][id][part]
LoadedSince(k) ==
    \A part \in DOMAIN Nothing : \A i \in DOMAIN draft.loaded[part] :
        \E l \in k..Len(past) : BlockAt(l, part, draft.ids[i], draft.loaded[part][i])
CountedSince(k) ==
    \E l \in k..Len(past) : draft.total = Cardinality(WantedOf(past[l], draft.query.filter))
ReadSince(k) ==
    TakenAt(k) /\ IsSlice(draft.ids, draft.query, past[k]) /\ LoadedSince(k)
Dated ==
    /\ pc = "page" => draft.query.sort \in Sortable
    /\ pc \in {"count", "blocks"} =>
          \E k \in DOMAIN past : ReadSince(k) /\ (pc = "blocks" => CountedSince(k))
    /\ pc \in {"bike", "rest"} => DOMAIN draft.ids = 1..1 /\ draft.ids[1] \in Ids
    /\ pc = "rest" => \E k \in DOMAIN past : TakenAt(k)

\* A commit adds an instant and leaves the others.
LEMMA CommitsAppend ==
    ASSUME Based, past' = Append(past, catalogue')
    PROVE  /\ Len(past) \in Nat /\ DOMAIN past = 1..Len(past) /\ DOMAIN past' = 1..Len(past')
           /\ Len(past') = Len(past) + 1
           /\ \A k \in 1..Len(past) : k \in 1..Len(past') /\ past'[k] = past[k]
<1>1. past \in Seq(Tables)
  BY DEF Based
<1>2. /\ Len(past) \in Nat /\ DOMAIN past = 1..Len(past) /\ Len(past') = Len(past) + 1
      /\ DOMAIN past' = 1..Len(past) + 1
      /\ \A k \in 1..Len(past) : past'[k] = past[k]
  BY <1>1
<1>3. QED
  BY <1>2

LEMMA InstantsStay ==
    ASSUME Based, past' = Append(past, catalogue'), UNCHANGED draft, NEW k \in DOMAIN past
    PROVE  /\ k \in DOMAIN past' /\ (TakenAt(k) => TakenAt(k)')
           /\ ReadSince(k) => ReadSince(k)'
           /\ CountedSince(k) => CountedSince(k)'
<1>1. /\ Len(past) \in Nat /\ DOMAIN past = 1..Len(past) /\ Len(past') = Len(past) + 1
      /\ DOMAIN past' = 1..Len(past')
      /\ \A l \in 1..Len(past) : l \in 1..Len(past') /\ past'[l] = past[l]
  BY CommitsAppend
<1>2. k \in DOMAIN past' /\ past'[k] = past[k]
  BY <1>1
<1>3. ASSUME NEW l \in k..Len(past) PROVE l \in k..Len(past') /\ past'[l] = past[l]
  <2>1. l \in 1..Len(past) /\ l \in k..Len(past) + 1
    BY <1>1
  <2>2. QED
    BY <1>1, <2>1
<1>4. ASSUME TakenAt(k) PROVE TakenAt(k)'
  BY <1>2, <1>4 DEF TakenAt
<1>5. ASSUME IsSlice(draft.ids, draft.query, past[k]) PROVE IsSlice(draft.ids, draft.query, past[k])'
  <2>1. PICK ids, query, table : ids = draft.ids /\ query = draft.query /\ table = past[k]
    OBVIOUS
  <2>2. draft'.ids = ids /\ draft'.query = query /\ past'[k] = table
    BY <1>2, <2>1
  <2>3. IsSlice(ids, query, table)
    BY <1>5, <2>1
  <2>4. QED
    BY <2>2, <2>3
<1>6. ASSUME LoadedSince(k) PROVE LoadedSince(k)'
  <2> SUFFICES ASSUME NEW part \in DOMAIN Nothing, NEW i \in DOMAIN draft.loaded[part]
               PROVE  \E l \in k..Len(past') : BlockAt(l, part, draft.ids[i], draft.loaded[part][i])'
    BY DEF LoadedSince
  <2>1. PICK l \in k..Len(past) : BlockAt(l, part, draft.ids[i], draft.loaded[part][i])
    BY <1>6 DEF LoadedSince
  <2>2. BlockAt(l, part, draft.ids[i], draft.loaded[part][i])'
    BY <1>3, <2>1 DEF BlockAt
  <2>3. QED
    BY <1>3, <2>2
<1>7. ASSUME CountedSince(k) PROVE CountedSince(k)'
  <2>1. PICK l \in k..Len(past) :
            draft.total = Cardinality(WantedOf(past[l], draft.query.filter))
    BY <1>7 DEF CountedSince
  <2>2. draft'.total = Cardinality(WantedOf(past'[l], draft'.query.filter))
    BY <1>3, <2>1
  <2>3. QED
    BY <1>3, <2>2 DEF CountedSince
<1>8. QED
  BY <1>2, <1>4, <1>5, <1>6, <1>7 DEF ReadSince

LEMMA LastIsPresent ==
    ASSUME Based, pc # "idle"
    PROVE  Len(past) \in Nat /\ DOMAIN past = 1..Len(past) /\ Len(past) \in DOMAIN past
           /\ Len(past) \in Len(past)..Len(past) /\ past[Len(past)] = catalogue
<1>1. past \in Seq(Tables) /\ past # <<>> /\ catalogue = past[Len(past)]
  BY DEF Based
<1>2. Len(past) \in Nat /\ DOMAIN past = 1..Len(past) /\ Len(past) # 0
  BY <1>1
<1>3. QED
  BY <1>1, <1>2

\* The rows of a page are of the instant its first statement runs at.
LEMMA PagesBegin ==
    ASSUME Based, ReadPage, draft.query \in Queries, draft.query.sort \in Sortable,
           NEW k, k = Len(past)
    PROVE  k \in DOMAIN past' /\ ReadSince(k)' /\ (pc' = "blocks" => CountedSince(k)')
<1>1. pc = "page"
  BY DEF ReadPage
<1>2. k \in DOMAIN past /\ k \in k..Len(past) /\ past[k] = catalogue
  BY <1>1, LastIsPresent
<1>3. PICK order \in Orders(draft.query) :
        LET ids == Slice(order, draft.query)
        IN  Goes(IF Counted(ids, draft.query) THEN "count" ELSE "blocks",
                 [query |-> draft.query, ids |-> ids, rows |-> [i \in DOMAIN ids |-> catalogue[ids[i]]],
                  total |-> First(draft.query) + Len(ids), loaded |-> Nothing])
  BY DEF ReadPage
<1>4. PICK query, ids : query = draft.query /\ ids = Slice(order, query)
  OBVIOUS
<1>5. PICK rows : rows = [i \in DOMAIN ids |-> catalogue[ids[i]]]
  OBVIOUS
<1>6. PICK total : total = First(query) + Len(ids)
  OBVIOUS
<1>7. /\ pc' = IF Counted(ids, query) THEN "count" ELSE "blocks"
      /\ draft' = [query |-> query, ids |-> ids, rows |-> rows, total |-> total, loaded |-> Nothing]
      /\ past' = past
  BY <1>3, <1>4, <1>5, <1>6 DEF Goes
<1>8. /\ draft'.query = query /\ draft'.ids = ids /\ draft'.rows = rows
      /\ draft'.total = total /\ draft'.loaded = Nothing
  BY <1>7
<1>9. /\ IsSlice(ids, query, catalogue)
      /\ ~Counted(ids, query) => total = Cardinality(WantedOf(catalogue, query.filter))
  BY <1>4, <1>6, SliceStands
<1>10. \A i \in DOMAIN ids : catalogue[ids[i]] # Absent /\ rows[i] = catalogue[ids[i]]
  BY <1>4, <1>5, SliceOf
<1>11. TakenAt(k)'
  BY <1>2, <1>7, <1>8, <1>10 DEF TakenAt
<1>12. IsSlice(draft.ids, draft.query, past[k])'
  BY <1>2, <1>7, <1>8, <1>9
<1>13. LoadedSince(k)'
  <2>1. \A part \in DOMAIN Nothing : DOMAIN Nothing[part] = {}
    BY DEF Nothing
  <2>2. QED
    BY <1>8, <2>1 DEF LoadedSince
<1>14. ASSUME pc' = "blocks" PROVE CountedSince(k)'
  <2>1. ~Counted(ids, query)
    BY <1>7, <1>14
  <2>2. draft'.total = Cardinality(WantedOf(past'[k], draft'.query.filter))
    BY <1>2, <1>7, <1>8, <1>9, <2>1
  <2>3. QED
    BY <1>2, <1>7, <2>2 DEF CountedSince
<1>15. QED
  BY <1>2, <1>7, <1>11, <1>12, <1>13, <1>14 DEF ReadSince

\* Its blocks are of the instants they are loaded at.
LEMMA BlocksAreRead ==
    ASSUME Based, pc # "idle", NEW k \in DOMAIN past, NEW part \in DOMAIN Nothing,
           NEW i, RowThere(i, part)
    PROVE  \E l \in k..Len(past) : BlockAt(l, part, draft.ids[i], Block(i, part))
<1>1. PICK l \in k..Len(past) : l \in DOMAIN past /\ past[l] = catalogue
  <2>1. Len(past) \in k..Len(past)
    BY LastIsPresent
  <2>2. QED
    BY <2>1, LastIsPresent
<1>2. CASE part = "extras"
  BY <1>1, <1>2 DEF BlockAt, Block
<1>3. CASE part # "extras"
  BY <1>1, <1>3 DEF BlockAt, Block, RowThere
<1>4. QED
  BY <1>2, <1>3

LEMMA LoadsAreDated ==
    ASSUME Based, Paged, LoadBlocks, pc' # "idle", NEW k \in DOMAIN past, ReadSince(k), CountedSince(k)
    PROVE  k \in DOMAIN past' /\ ReadSince(k)' /\ CountedSince(k)'
<1>1. pc = "blocks" /\ past' = past /\ catalogue' = catalogue
  BY LoadEffect
<1>2. PICK part \in DOMAIN Nothing :
        \E read : /\ draft' = [draft EXCEPT !.loaded = [draft.loaded EXCEPT ![part] = read]]
                  /\ Fresh(read, part)
  BY LoadEffect
<1>3. PICK read : /\ draft' = [draft EXCEPT !.loaded = [draft.loaded EXCEPT ![part] = read]]
                  /\ Fresh(read, part)
  BY <1>2
<1>4. /\ draft = [field \in Fields |-> draft[field]]
      /\ draft.loaded = [p \in DOMAIN Nothing |-> draft.loaded[p]]
  BY <1>1 DEF Paged
<1>5. PICK loaded : loaded = [draft.loaded EXCEPT ![part] = read]
  OBVIOUS
<1>6. /\ draft'.query = draft.query /\ draft'.ids = draft.ids /\ draft'.rows = draft.rows
      /\ draft'.total = draft.total /\ draft'.loaded = loaded
  BY <1>3, <1>4, <1>5 DEF Fields
<1>7. \A p \in DOMAIN Nothing : loaded[p] = IF p = part THEN read ELSE draft.loaded[p]
  BY <1>4, <1>5
<1>8. TakenAt(k)' /\ CountedSince(k)'
  BY <1>1, <1>6 DEF ReadSince, TakenAt, CountedSince
<1>9. IsSlice(draft.ids, draft.query, past[k])'
  BY <1>1, <1>6 DEF ReadSince
<1>10. ASSUME NEW p \in DOMAIN Nothing, NEW i \in DOMAIN loaded[p]
       PROVE  \E l \in k..Len(past) : BlockAt(l, p, draft.ids[i], loaded[p][i])
  <2>1. CASE i \in DOMAIN draft.loaded[p] /\ loaded[p][i] = draft.loaded[p][i]
    BY <2>1 DEF ReadSince, LoadedSince
  <2>2. CASE p = part /\ RowThere(i, part) /\ read[i] = Block(i, part)
    BY <1>1, <1>7, <2>2, BlocksAreRead
  <2>3. QED
    BY <1>3, <1>7, <2>1, <2>2 DEF Fresh
<1>11. LoadedSince(k)'
  <2>1. \A p \in DOMAIN Nothing : \A i \in DOMAIN loaded[p] :
            \E l \in k..Len(past) : BlockAt(l, p, draft.ids[i], loaded[p][i])'
    BY <1>1, <1>6, <1>10 DEF BlockAt
  <2>2. QED
    BY <1>1, <1>6, <2>1 DEF LoadedSince
<1>12. QED
  BY <1>1, <1>8, <1>9, <1>11 DEF ReadSince

LEMMA DatedStays ==
    ASSUME Based, Paged, Dated, [Next]_vars
    PROVE  Dated'
<1>1. CASE Writing
  <2>1. /\ UNCHANGED <<pc, draft>>
        /\ past' = IF pc = "idle" THEN past ELSE Append(past, catalogue')
    BY <1>1, WritingEffect
  <2>2. CASE pc = "idle"
    BY <2>1, <2>2 DEF Dated
  <2>3. CASE pc # "idle"
    <3>1. past' = Append(past, catalogue') /\ UNCHANGED draft
      BY <2>1, <2>3
    <3>2. ASSUME pc \in {"count", "blocks"}
          PROVE  \E k \in DOMAIN past' : ReadSince(k)' /\ (pc' = "blocks" => CountedSince(k)')
      <4>1. PICK k \in DOMAIN past : ReadSince(k) /\ (pc = "blocks" => CountedSince(k))
        BY <3>2 DEF Dated
      <4>2. k \in DOMAIN past' /\ ReadSince(k)' /\ (CountedSince(k) => CountedSince(k)')
        BY <3>1, <4>1, InstantsStay
      <4>3. QED
        BY <2>1, <4>1, <4>2
    <3>3. ASSUME pc = "rest" PROVE \E k \in DOMAIN past' : TakenAt(k)'
      <4>1. PICK k \in DOMAIN past : TakenAt(k)
        BY <3>3 DEF Dated
      <4>2. k \in DOMAIN past' /\ TakenAt(k)'
        BY <3>1, <4>1, InstantsStay
      <4>3. QED
        BY <4>2
    <3>4. QED
      BY <2>1, <3>2, <3>3 DEF Dated
  <2>4. QED
    BY <2>2, <2>3
<1>2. CASE Search
  <2>1. PICK query \in Queries :
            IF query.sort \in Sortable THEN Begin("page", [query |-> query], NoAnswer)
            ELSE Begin("idle", NoDraft, Refused)
    BY <1>2 DEF Search
  <2>2. CASE query.sort \in Sortable
    <3>1. pc' = "page" /\ draft' = [query |-> query]
      BY <2>1, <2>2 DEF Begin
    <3>2. draft'.query = query
      BY <3>1
    <3>3. QED
      BY <2>2, <3>1, <3>2 DEF Dated
  <2>3. CASE query.sort \notin Sortable
    BY <2>1, <2>3 DEF Begin, Dated
  <2>4. QED
    BY <2>2, <2>3
<1>3. CASE ReadPage
  <2>1. draft.query \in Queries /\ draft.query.sort \in Sortable
    BY <1>3 DEF ReadPage, Paged, Dated
  <2>2. PICK k : k = Len(past)
    OBVIOUS
  <2>3. k \in DOMAIN past' /\ ReadSince(k)' /\ (pc' = "blocks" => CountedSince(k)')
    BY <1>3, <2>1, <2>2, PagesBegin
  <2>4. pc' \in {"count", "blocks"}
    BY <1>3, <2>1, ReadPageEffect
  <2>5. QED
    BY <2>3, <2>4 DEF Dated
<1>4. CASE ReadCount
  <2>1. /\ draft = [field \in Fields |-> draft[field]]
        /\ pc = "count" /\ pc' = "blocks" /\ past' = past /\ draft.query \in Queries
    BY <1>4 DEF ReadCount, Goes, Paged
  <2>2. PICK k \in DOMAIN past : ReadSince(k)
    BY <2>1 DEF Dated
  <2>3. draft' = [draft EXCEPT !.total = Cardinality(Found(draft.query.filter))]
    BY <1>4 DEF ReadCount, Goes
  <2>4. PICK total : total = Cardinality(Found(draft.query.filter))
    OBVIOUS
  <2>5. /\ draft'.query = draft.query /\ draft'.ids = draft.ids /\ draft'.rows = draft.rows
        /\ draft'.loaded = draft.loaded /\ draft'.total = total
    BY <2>1, <2>3, <2>4 DEF Fields
  <2>6. PICK query \in Queries : query = draft.query
    BY <2>1
  <2>7. Found(query.filter) = WantedOf(catalogue, query.filter)
    <3>1. \A id \in There(catalogue) : catalogue[id] \in Versions
      BY DEF There, Based, Tables
    <3>2. \A id \in There(catalogue) :
              Matches(catalogue[id], query.filter) <=> Wanted(catalogue[id], query.filter)
      BY <3>1, MatchesAreWanted
    <3>3. QED
      BY <3>2 DEF Found, WantedOf
  <2>8. TakenAt(k)' /\ LoadedSince(k)'
    <3>1. TakenAt(k)'
      BY <2>1, <2>2, <2>5 DEF ReadSince, TakenAt
    <3>2. ASSUME NEW part \in DOMAIN Nothing, NEW i \in DOMAIN draft.loaded[part]
          PROVE  \E l \in k..Len(past) : BlockAt(l, part, draft.ids[i], draft.loaded[part][i])'
      <4>1. PICK l \in k..Len(past) : BlockAt(l, part, draft.ids[i], draft.loaded[part][i])
        BY <2>2 DEF ReadSince, LoadedSince
      <4>2. BlockAt(l, part, draft.ids[i], draft.loaded[part][i])'
        BY <2>1, <2>5, <4>1 DEF BlockAt
      <4>3. QED
        BY <4>2
    <3>3. LoadedSince(k)'
      BY <2>1, <2>5, <3>2 DEF LoadedSince
    <3>4. QED
      BY <3>1, <3>3
  <2>9. IsSlice(draft.ids, draft.query, past[k])'
    BY <2>1, <2>2, <2>5 DEF ReadSince
  <2>10. CountedSince(k)'
    <3>1. PICK l \in k..Len(past) : past[l] = catalogue
      BY <2>1, LastIsPresent
    <3>2. draft'.total = Cardinality(WantedOf(past'[l], draft'.query.filter))
      BY <2>1, <2>4, <2>5, <2>6, <2>7, <3>1
    <3>3. QED
      BY <2>1, <3>1, <3>2 DEF CountedSince
  <2>11. QED
    BY <2>1, <2>2, <2>8, <2>9, <2>10 DEF Dated, ReadSince
<1>5. CASE LoadBlocks
  <2>1. CASE pc' = "idle"
    BY <2>1 DEF Dated
  <2>2. CASE pc' # "idle"
    <3>1. pc = "blocks" /\ pc' = "blocks"
      BY <1>5, <2>2, LoadEffect
    <3>2. PICK k \in DOMAIN past : ReadSince(k) /\ CountedSince(k)
      BY <3>1 DEF Dated
    <3>3. k \in DOMAIN past' /\ ReadSince(k)' /\ CountedSince(k)'
      BY <1>5, <2>2, <3>2, LoadsAreDated
    <3>4. QED
      BY <3>1, <3>3 DEF Dated
  <2>3. QED
    BY <2>1, <2>2
<1>6. CASE Get
  <2>1. PICK id \in Ids : Begin("bike", [ids |-> <<id>>], NoAnswer)
    BY <1>6 DEF Get
  <2>2. pc' = "bike" /\ draft'.ids = <<id>>
    BY <2>1 DEF Begin
  <2>3. DOMAIN draft'.ids = 1..1 /\ draft'.ids[1] = id
    BY <2>2
  <2>4. QED
    BY <2>2, <2>3 DEF Dated
<1>7. CASE ReadBike
  <2>1. CASE pc' = "idle"
    BY <2>1 DEF Dated
  <2>2. CASE pc' # "idle"
    <3>1. PICK id : id = draft.ids[1]
      OBVIOUS
    <3>2. /\ pc = "bike" /\ pc' = "rest" /\ past' = past /\ catalogue[id] # Absent
          /\ draft' = [ids |-> draft.ids, rows |-> <<catalogue[id]>>]
      BY <1>7, <2>2, <3>1 DEF ReadBike, Goes, Answer
    <3>3. draft'.ids = draft.ids /\ draft'.rows[1] = catalogue[id]
      BY <3>2
    <3>4. DOMAIN draft.ids = 1..1 /\ draft.ids[1] \in Ids
      BY <3>2 DEF Dated
    <3>5. PICK k \in DOMAIN past : past[k] = catalogue
      BY <3>2, LastIsPresent
    <3>6. \A i \in DOMAIN draft.ids : i = 1
      BY <3>4
    <3>7. TakenAt(k)'
      BY <3>1, <3>2, <3>3, <3>5, <3>6 DEF TakenAt
    <3>8. QED
      BY <3>2, <3>3, <3>4, <3>7 DEF Dated
  <2>3. QED
    BY <2>1, <2>2
<1>8. CASE ReadRest
  BY <1>8 DEF ReadRest, Answer, Dated
<1>9. CASE AnswerPage
  BY <1>9 DEF AnswerPage, Answer, Dated
<1>10. CASE Comparing
  BY <1>10 DEF Comparing, Compare, ReadRows, ReadExtras, Begin, Goes, Answer, Dated
<1>11. CASE Counting
  BY <1>11 DEF Counting, GetStats, ReadFigure, Begin, Goes, Answer, Dated
<1>12. CASE Quiet \/ UNCHANGED vars
  <2>1. UNCHANGED <<pc, draft, past>>
    BY <1>12 DEF Quiet, vars
  <2>2. QED
    BY <2>1 DEF Dated, ReadSince, TakenAt, LoadedSince, CountedSince, BlockAt
<1>13. QED
  BY <1>1, <1>2, <1>3, <1>4, <1>5, <1>6, <1>7, <1>8, <1>9, <1>10, <1>11, <1>12 DEF Next, Searching

LEMMA SpecDated == Spec => []Dated
<1>1. Init => Dated
  BY DEF Init, Dated
<1>2. Based /\ Paged /\ Dated /\ [Next]_vars => Dated'
  BY DatedStays
<1>3. QED
  BY <1>1, <1>2, SpecTraced, PTL DEF Spec

\* What a page shows of a bike, once no block is left to be loaded.
LEMMA ItemsAreDated ==
    ASSUME Paged, pc = "blocks", \A part \in DOMAIN Nothing : Unread(part) = {},
           NEW k, ReadSince(k), NEW i \in DOMAIN draft.ids, NEW item, item = Item(i)
    PROVE  OfInstant(item, draft.ids[i], k)
<1>1. DOMAIN draft.rows = DOMAIN draft.ids
  BY DEF Paged
<1>2. PICK id, row : id = draft.ids[i] /\ row = draft.rows[i]
  OBVIOUS
<1>3. row # Absent /\ row = past[k][id]
  BY <1>2 DEF ReadSince, TakenAt
<1>4. ASSUME NEW part \in DOMAIN Nothing, Has(row, part)
      PROVE  \E l \in k..Len(past) : BlockAt(l, part, id, draft.loaded[part][i])
  <2>1. i \in DOMAIN draft.loaded[part]
    BY <1>1, <1>2, <1>4 DEF Unread
  <2>2. QED
    BY <1>2, <2>1 DEF ReadSince, LoadedSince
<1>5. /\ item.motorcycle = row.motorcycle
      /\ item.engine = IF Has(row, "engine") THEN draft.loaded.engine[i] ELSE Absent
      /\ item.dimension = IF Has(row, "dimension") THEN draft.loaded.dimension[i] ELSE Absent
      /\ item.extras = draft.loaded.extras[i]
  BY <1>2 DEF Item
<1>6. IF row.engine = Absent THEN item.engine = Absent
      ELSE \E l \in k..Len(past) :
              past[l][id] # Absent /\ past[l][id].engine # Absent /\ item.engine = past[l][id].engine
  <2>1. Has(row, "engine") <=> row.engine # Absent
    BY DEF Has
  <2>2. Has(row, "engine") => \E l \in k..Len(past) : BlockAt(l, "engine", id, draft.loaded.engine[i])
    BY <1>4, PartsOfNothing
  <2>3. QED
    BY <1>5, <2>1, <2>2 DEF BlockAt
<1>7. IF row.dimension = Absent THEN item.dimension = Absent
      ELSE \E l \in k..Len(past) :
              /\ past[l][id] # Absent /\ past[l][id].dimension # Absent
              /\ item.dimension = past[l][id].dimension
  <2>1. Has(row, "dimension") <=> row.dimension # Absent
    BY DEF Has
  <2>2. Has(row, "dimension") =>
            \E l \in k..Len(past) : BlockAt(l, "dimension", id, draft.loaded.dimension[i])
    BY <1>4, PartsOfNothing
  <2>3. QED
    BY <1>5, <2>1, <2>2 DEF BlockAt
<1>8. \E l \in k..Len(past) : item.extras = Extras(past[l], id)
  <2>1. Has(row, "extras")
    BY DEF Has
  <2>2. PICK l \in k..Len(past) : BlockAt(l, "extras", id, draft.loaded.extras[i])
    BY <1>4, <2>1, PartsOfNothing
  <2>3. QED
    BY <1>5, <2>2 DEF BlockAt
<1>9. QED
  BY <1>2, <1>3, <1>5, <1>6, <1>7, <1>8 DEF OfInstant

LEMMA VersionParts == ASSUME NEW v \in Versions PROVE v = [part \in Parts |-> v[part]]
<1>1. PICK bike \in Contents, n \in 0..MaxWrites : v = Version(bike, n)
  BY DEF Versions
<1>2. bike = [part \in Parts |-> bike[part]]
  BY ContentAssumption DEF Parts
<1>3. QED
  BY <1>1, <1>2 DEF Version

LEMMA PagesAnswered ==
    ASSUME Based, Paged, Dated, AnswerPage
    PROVE  ReadsAreOfTheirInstants'
<1>1. /\ pc = "blocks" /\ past' = past
      /\ \A part \in DOMAIN Nothing : Unread(part) = {}
  BY DEF AnswerPage, Answer
<1>2. PICK items : items = [i \in DOMAIN draft.ids |-> Item(i)]
  OBVIOUS
<1>3. PICK query, ids, total : query = draft.query /\ ids = draft.ids /\ total = draft.total
  OBVIOUS
<1>4. answer' = [status |-> 200, kind |-> "page", query |-> query, ids |-> ids, items |-> items,
                 total |-> total]
  BY <1>2, <1>3 DEF AnswerPage, Answer
<1>5. /\ answer'.kind = "page" /\ answer'.query = query /\ answer'.ids = ids
      /\ answer'.items = items /\ answer'.total = total
  BY <1>4
<1>6. PICK k \in DOMAIN past : ReadSince(k) /\ CountedSince(k)
  BY <1>1 DEF Dated
<1>7. PICK l \in k..Len(past) : total = Cardinality(WantedOf(past[l], query.filter))
  BY <1>3, <1>6 DEF CountedSince
<1>8. l \in DOMAIN past /\ k <= l
  <2>1. Len(past) \in Nat /\ DOMAIN past = 1..Len(past)
    BY <1>1, LastIsPresent
  <2>2. QED
    BY <2>1, <1>6, <1>7
<1>9. IsSlice(ids, query, past[k])
  BY <1>3, <1>6 DEF ReadSince
<1>10. \A i \in DOMAIN ids : OfInstant(items[i], ids[i], k)
  <2>1. ASSUME NEW i \in DOMAIN draft.ids PROVE OfInstant(items[i], draft.ids[i], k)
    <3>1. items[i] = Item(i)
      BY <1>2
    <3>2. PICK item : item = Item(i)
      OBVIOUS
    <3>3. OfInstant(item, draft.ids[i], k)
      BY <1>1, <1>6, <3>2, ItemsAreDated
    <3>4. QED
      BY <3>1, <3>2, <3>3
  <2>2. QED
    BY <1>3, <2>1
<1>11. \A i \in DOMAIN ids : OfInstant(items[i], ids[i], k)'
  BY <1>1, <1>10 DEF OfInstant
<1>12. \A i \in DOMAIN answer'.ids : OfInstant(answer.items[i], answer.ids[i], k)'
  BY <1>5, <1>11
<1>13. IsSlice(answer.ids, answer.query, past[k])'
  BY <1>1, <1>5, <1>9
<1>14. answer'.total = Cardinality({id \in There(past'[l]) : Wanted(past'[l][id], answer'.query.filter)})
  BY <1>1, <1>5, <1>7 DEF WantedOf
<1>15. ~Shows("bike")'
  BY <1>5 DEF Shows
<1>16. QED
  BY <1>1, <1>6, <1>8, <1>12, <1>13, <1>14, <1>15 DEF ReadsAreOfTheirInstants

LEMMA BikesAnswered ==
    ASSUME Based, Dated, ReadRest
    PROVE  ReadsAreOfTheirInstants'
<1>1. pc = "rest" /\ past' = past
  BY DEF ReadRest, Answer
<1>2. PICK id, row : id = draft.ids[1] /\ row = draft.rows[1]
  OBVIOUS
<1>3. PICK bike : bike = [row EXCEPT !.extras = Extras(catalogue, id)]
  OBVIOUS
<1>4. answer' = [status |-> 200, kind |-> "bike", ids |-> draft.ids, items |-> <<bike>>]
  BY <1>2, <1>3 DEF ReadRest, Answer
<1>5. answer'.kind = "bike" /\ answer'.ids[1] = id /\ answer'.items[1] = bike
  BY <1>2, <1>4
<1>6. PICK k \in DOMAIN past : TakenAt(k)
  BY <1>1 DEF Dated
<1>7. DOMAIN draft.ids = 1..1 /\ id \in Ids
  BY <1>1, <1>2 DEF Dated
<1>8. 1 \in DOMAIN draft.ids
  BY <1>7
<1>9. row # Absent /\ row = past[k][id]
  BY <1>2, <1>6, <1>8 DEF TakenAt
<1>10. /\ Len(past) \in Nat /\ DOMAIN past = 1..Len(past) /\ Len(past) \in k..Len(past)
       /\ k \in k..Len(past) /\ past[Len(past)] = catalogue
  BY <1>1, LastIsPresent
<1>11. row \in Versions
  <2>1. past[k] \in Tables
    BY <1>10 DEF Based
  <2>2. QED
    BY <1>7, <1>9, <2>1 DEF Tables
<1>12. row = [part \in Parts |-> row[part]]
  BY <1>11, VersionParts
<1>13. /\ bike.motorcycle = row.motorcycle /\ bike.engine = row.engine
       /\ bike.dimension = row.dimension /\ bike.extras = Extras(catalogue, id)
  BY <1>3, <1>12 DEF Parts
<1>14. \A part \in {"engine", "dimension"} : bike[part] = row[part]
  BY <1>13
<1>15. OfInstant(bike, id, k)
  BY <1>9, <1>10, <1>13, <1>14 DEF OfInstant
<1>16. OfInstant(bike, id, k)'
  BY <1>1, <1>15 DEF OfInstant
<1>17. OfInstant(answer.items[1], answer.ids[1], k)'
  BY <1>5, <1>16
<1>18. \A part \in {"engine", "dimension"} : answer'.items[1][part] = past'[k][answer'.ids[1]][part]
  BY <1>1, <1>5, <1>9, <1>14
<1>19. ~Shows("page")'
  BY <1>5 DEF Shows
<1>20. QED
  BY <1>1, <1>17, <1>18, <1>19 DEF ReadsAreOfTheirInstants

LEMMA ShowingSteps ==
    ASSUME Based, [Next]_vars
    PROVE  \/ UNCHANGED <<answer, past>>
           \/ answer'.status # 200
           \/ answer'.kind \notin {"page", "bike"}
           \/ AnswerPage \/ ReadRest
<1>1. CASE ReadExtras
  BY <1>1 DEF ReadExtras, Answer, Table
<1>2. CASE ReadFigure
  BY <1>2 DEF ReadFigure, Goes, Answer
<1>3. CASE Writing
  <2>1. answer' = answer /\ past' = IF pc = "idle" THEN past ELSE Append(past, catalogue')
    BY <1>3, WritingEffect
  <2>2. pc # "idle" => answer'.status = 0
    BY <2>1 DEF Based, NoAnswer
  <2>3. QED
    BY <2>1, <2>2
<1>4. CASE Compare
  BY <1>4 DEF Compare, Begin, NoAnswer, Refused
<1>5. CASE ReadRows
  BY <1>5 DEF ReadRows, Goes, Answer, NotFound
<1>6. CASE Search \/ Get \/ GetStats
  BY <1>6 DEF Search, Get, GetStats, Begin, NoAnswer, Refused
<1>7. CASE ReadPage \/ ReadCount
  BY <1>7 DEF ReadPage, ReadCount, Goes
<1>8. CASE LoadBlocks
  BY <1>8 DEF LoadBlocks, Goes, Answer, Broken
<1>9. CASE ReadBike
  BY <1>9 DEF ReadBike, Goes, Answer
<1>10. CASE Quiet \/ UNCHANGED vars
  BY <1>10 DEF Quiet, vars
<1>11. QED
  BY <1>1, <1>2, <1>3, <1>4, <1>5, <1>6, <1>7, <1>8, <1>9, <1>10
     DEF Next, Comparing, Searching, Counting

\* What was shown of an instant stays shown of it.
LEMMA ShownStays ==
    ASSUME ReadsAreOfTheirInstants, UNCHANGED <<answer, past>>
    PROVE  ReadsAreOfTheirInstants'
<1>1. \A item, id, k : OfInstant(item, id, k) => OfInstant(item, id, k)'
  BY DEF OfInstant
<1>2. PICK shown : shown = answer
  OBVIOUS
<1>3. answer' = shown
  BY <1>2
<1>4. ASSUME Shows("page")'
      PROVE  \E k, l \in DOMAIN past' :
                /\ k <= l /\ IsSlice(answer.ids, answer.query, past[k])'
                /\ (\A i \in DOMAIN answer.ids : OfInstant(answer.items[i], answer.ids[i], k))'
                /\ answer'.total =
                      Cardinality({id \in There(past'[l]) : Wanted(past'[l][id], answer'.query.filter)})
  <2>1. Shows("page")
    BY <1>4 DEF Shows
  <2>2. PICK k, l \in DOMAIN past :
            /\ k <= l /\ IsSlice(shown.ids, shown.query, past[k])
            /\ \A i \in DOMAIN shown.ids : OfInstant(shown.items[i], shown.ids[i], k)
            /\ shown.total = Cardinality({id \in There(past[l]) : Wanted(past[l][id], shown.query.filter)})
    BY <1>2, <2>1 DEF ReadsAreOfTheirInstants
  <2>3. \A i \in DOMAIN shown.ids : OfInstant(shown.items[i], shown.ids[i], k)'
    BY <1>1, <2>2
  <2>4. (\A i \in DOMAIN answer.ids : OfInstant(answer.items[i], answer.ids[i], k))'
    BY <1>3, <2>3
  <2>5. IsSlice(answer.ids, answer.query, past[k])'
    BY <1>3, <2>2
  <2>6. QED
    BY <1>3, <2>2, <2>4, <2>5
<1>5. ASSUME Shows("bike")'
      PROVE  \E k \in DOMAIN past' :
                /\ OfInstant(answer.items[1], answer.ids[1], k)'
                /\ \A part \in {"engine", "dimension"} :
                      answer'.items[1][part] = past'[k][answer'.ids[1]][part]
  <2>1. Shows("bike")
    BY <1>5 DEF Shows
  <2>2. PICK k \in DOMAIN past :
            /\ OfInstant(shown.items[1], shown.ids[1], k)
            /\ \A part \in {"engine", "dimension"} :
                  shown.items[1][part] = past[k][shown.ids[1]][part]
    BY <1>2, <2>1 DEF ReadsAreOfTheirInstants
  <2>3. OfInstant(shown.items[1], shown.ids[1], k)'
    BY <1>1, <2>2
  <2>4. QED
    BY <1>3, <2>2, <2>3
<1>6. QED
  BY <1>4, <1>5 DEF ReadsAreOfTheirInstants

\* Theorem.  Whatever is written while it is read, a page is the slice asked for of the bikes of
\* one instant, in the order asked for, its total is of that instant or a later one, and it
\* shows of each bike the row of that instant and blocks of its own, no older than the row; a
\* single bike is of one instant, but for its extras, which may be younger.
\* (MotorcycleService.search, escapeLike, findById; ReadsAreOfTheirInstants.)
THEOREM AnswersAreOfTheirInstants == Spec => []ReadsAreOfTheirInstants
<1>1. Init => ReadsAreOfTheirInstants
  BY DEF Init, ReadsAreOfTheirInstants, Shows, NoAnswer
<1>2. ASSUME Based, Paged, Dated, ReadsAreOfTheirInstants, [Next]_vars
      PROVE  ReadsAreOfTheirInstants'
  <2>1. CASE UNCHANGED <<answer, past>>
    BY <1>2, <2>1, ShownStays
  <2>2. CASE answer'.status # 200 \/ answer'.kind \notin {"page", "bike"}
    BY <2>2 DEF ReadsAreOfTheirInstants, Shows
  <2>3. CASE AnswerPage
    BY <1>2, <2>3, PagesAnswered
  <2>4. CASE ReadRest
    BY <1>2, <2>4, BikesAnswered
  <2>5. QED
    BY <1>2, <2>1, <2>2, <2>3, <2>4, ShowingSteps
<1>3. Based /\ Paged /\ Dated /\ ReadsAreOfTheirInstants /\ [Next]_vars => ReadsAreOfTheirInstants'
  BY <1>2
<1>4. QED
  BY <1>1, <1>3, SpecTraced, SpecDated, PTL DEF Spec

------------------------------------------------------------------------------
(* Sums *)

\* Whatever is true of no elements, and of a set if it is of the set without the one that is
\* added last, is true of every finite set.
Chosen(s) == CHOOSE x \in s : TRUE
LEMMA ByElements ==
    ASSUME NEW S, IsFiniteSet(S), NEW A, {} \in A,
           \A s \in SUBSET S : s # {} /\ s \ {Chosen(s)} \in A => s \in A
    PROVE  SUBSET S \subseteq A
<1> SUFFICES ASSUME NEW t \in SUBSET S, t \notin A PROVE FALSE
  OBVIOUS
<1> DEFINE T == {Cardinality(s) : s \in (SUBSET S) \ A}
<1>1. \A s \in SUBSET S : IsFiniteSet(s) /\ Cardinality(s) \in Nat
  BY FS_Subset, FS_CardinalityType
<1>2. T \in SUBSET Nat /\ T # {}
  BY <1>1
<1>3. PICK m \in T : \A n \in T : m <= n
  <2> HIDE DEF T
  <2>1. QED
    BY <1>2, LeastOf
<1>4. PICK s \in (SUBSET S) \ A : m = Cardinality(s)
  BY <1>3
<1>5. s # {}
  BY <1>4
<1>6. PICK x : x = Chosen(s)
  OBVIOUS
<1>7. x \in s
  BY <1>5, <1>6 DEF Chosen
<1>8. Cardinality(s \ {x}) = Cardinality(s) - 1
  BY <1>1, <1>4, <1>7, FS_RemoveElement
<1>9. s \ {x} \in (SUBSET S) \ A
  BY <1>4, <1>5, <1>6
<1>10. Cardinality(s \ {x}) \in T
  BY <1>9
<1>11. Cardinality(s) \in Nat
  BY <1>1, <1>4
<1>12. m <= Cardinality(s \ {x})
  BY <1>3, <1>10
<1>13. PICK c : c = Cardinality(s) /\ c \in Nat
  BY <1>11
<1>14. m = c /\ m <= c - 1
  BY <1>4, <1>8, <1>12, <1>13
<1>15. QED
  BY <1>13, <1>14

\* A sum, element by element.
SumsUp(it, g, S) ==
    it = [s \in SUBSET S |-> IF s = {} THEN 0 ELSE g[Chosen(s)] + it[s \ {Chosen(s)}]]

LEMMA SumsExist ==
    ASSUME NEW S, IsFiniteSet(S), NEW g \in [S -> Nat]
    PROVE  \E it : SumsUp(it, g, S)
<1> DEFINE Step(it, s) == IF s = {} THEN 0 ELSE g[Chosen(s)] + it[s \ {Chosen(s)}]
           Upto(n) == \E it \in [SUBSET S -> Nat] :
                         \A s \in SUBSET S : Cardinality(s) <= n => it[s] = Step(it, s)
           T == {n \in Nat : ~Upto(n)}
<1>1. \A s \in SUBSET S : IsFiniteSet(s) /\ Cardinality(s) \in Nat /\ (Cardinality(s) = 0 => s = {})
  BY FS_Subset, FS_CardinalityType, FS_EmptySet
<1>2. \A s \in SUBSET S : s # {} =>
        Chosen(s) \in S /\ s \ {Chosen(s)} \in SUBSET S
        /\ Cardinality(s \ {Chosen(s)}) = Cardinality(s) - 1
  <2> SUFFICES ASSUME NEW s \in SUBSET S, s # {}
               PROVE  Chosen(s) \in S /\ s \ {Chosen(s)} \in SUBSET S
                      /\ Cardinality(s \ {Chosen(s)}) = Cardinality(s) - 1
    OBVIOUS
  <2>1. PICK x : x = Chosen(s)
    OBVIOUS
  <2>2. x \in s
    BY <2>1 DEF Chosen
  <2>3. Cardinality(s \ {x}) = Cardinality(s) - 1
    BY <1>1, <2>2, FS_RemoveElement
  <2>4. QED
    BY <2>1, <2>2, <2>3
<1>3. T = {}
  <2> SUFFICES ASSUME T # {} PROVE FALSE
    OBVIOUS
  <2>1. PICK m \in Nat : ~Upto(m) /\ \A n \in Nat : n < m => Upto(n)
    <3>1. T \in SUBSET Nat /\ T # {}
      OBVIOUS
    <3>2. PICK m \in T : \A n \in T : m <= n
      <4> HIDE DEF T
      <4>1. QED
        BY <3>1, LeastOf
    <3> HIDE DEF Upto
    <3>3. QED
      BY <3>2
  <2>2. m # 0
    <3> SUFFICES ASSUME m = 0 PROVE FALSE
      OBVIOUS
    <3>1. PICK it : it = [s \in SUBSET S |-> 0]
      OBVIOUS
    <3>2. it \in [SUBSET S -> Nat] /\ \A s \in SUBSET S : Cardinality(s) <= 0 => it[s] = Step(it, s)
      BY <1>1, <3>1
    <3>3. QED
      BY <2>1, <3>2
  <2>3. PICK it \in [SUBSET S -> Nat] :
            \A s \in SUBSET S : Cardinality(s) <= m - 1 => it[s] = Step(it, s)
    <3>1. m - 1 \in Nat /\ m - 1 < m
      BY <2>2
    <3>2. Upto(m - 1)
      <4> HIDE DEF Upto
      <4>1. QED
        BY <2>1, <3>1
    <3>3. QED
      BY <3>2
  <2> DEFINE next == [s \in SUBSET S |-> IF Cardinality(s) <= m - 1 THEN it[s] ELSE Step(it, s)]
  <2>4. ASSUME NEW s \in SUBSET S PROVE Step(it, s) \in Nat
    <3>1. CASE s = {}
      BY <3>1
    <3>2. CASE s # {}
      <4>1. g[Chosen(s)] \in Nat /\ it[s \ {Chosen(s)}] \in Nat
        BY <1>2, <2>3, <3>2
      <4>2. QED
        BY <3>2, <4>1
    <3>3. QED
      BY <3>1, <3>2
  <2>5. next \in [SUBSET S -> Nat]
    BY <2>3, <2>4
  <2>6. ASSUME NEW s \in SUBSET S, Cardinality(s) <= m PROVE next[s] = Step(next, s)
    <3>1. next[s] = Step(it, s)
      BY <2>3
    <3>2. s # {} => next[s \ {Chosen(s)}] = it[s \ {Chosen(s)}]
      <4>1. s # {} => Cardinality(s \ {Chosen(s)}) <= m - 1
        BY <1>1, <1>2, <2>6
      <4>2. QED
        BY <1>2, <4>1
    <3> HIDE DEF next
    <3>3. QED
      BY <3>1, <3>2
  <2>7. Upto(m)
    <3> HIDE DEF next, Step
    <3>1. QED
      BY <2>5, <2>6
  <2>8. QED
    BY <2>1, <2>7
<1>4. PICK n \in Nat : n = Cardinality(S)
  BY FS_CardinalityType
<1>5. Upto(n)
  <2> HIDE DEF Upto
  <2>1. QED
    BY <1>3
<1>6. PICK it \in [SUBSET S -> Nat] : \A s \in SUBSET S : Cardinality(s) <= n => it[s] = Step(it, s)
  BY <1>5
<1>7. \A s \in SUBSET S : it[s] = Step(it, s)
  <2>1. \A s \in SUBSET S : Cardinality(s) <= n
    BY <1>4, FS_Subset
  <2> HIDE DEF Step
  <2>2. QED
    BY <1>6, <2>1
<1>8. it = [s \in SUBSET S |-> Step(it, s)]
  <2> HIDE DEF Step
  <2>1. QED
    BY <1>6, <1>7
<1>9. QED
  BY <1>8 DEF SumsUp

LEMMA SumSteps ==
    ASSUME NEW S, IsFiniteSet(S), NEW g, NEW it, SumsUp(it, g, S)
    PROVE  /\ it[{}] = 0
           /\ \A s \in SUBSET S : s # {} =>
                 \E x \in s : /\ x = Chosen(s) /\ it[s] = g[x] + it[s \ {x}]
                              /\ Cardinality(s) \in Nat /\ Cardinality(s) = Cardinality(s \ {x}) + 1
                              /\ Cardinality(s \ {x}) \in Nat
<1>1. it = [s \in SUBSET S |-> IF s = {} THEN 0 ELSE g[Chosen(s)] + it[s \ {Chosen(s)}]]
  BY DEF SumsUp
<1>2. it[{}] = 0
  <2>1. {} \in SUBSET S
    OBVIOUS
  <2>2. QED
    BY <1>1, <2>1
<1>3. ASSUME NEW s \in SUBSET S, s # {}
      PROVE  \E x \in s : /\ x = Chosen(s) /\ it[s] = g[x] + it[s \ {x}]
                          /\ Cardinality(s) \in Nat /\ Cardinality(s) = Cardinality(s \ {x}) + 1
                          /\ Cardinality(s \ {x}) \in Nat
  <2>1. PICK x : x = Chosen(s)
    OBVIOUS
  <2>2. x \in s
    BY <1>3, <2>1 DEF Chosen
  <2>3. it[s] = g[x] + it[s \ {x}]
    BY <1>1, <1>3, <2>1
  <2>4. IsFiniteSet(s) /\ IsFiniteSet(s \ {x})
    BY <2>2, FS_Subset
  <2>5. /\ Cardinality(s) \in Nat /\ Cardinality(s \ {x}) \in Nat
        /\ Cardinality(s \ {x}) = Cardinality(s) - 1
    BY <2>2, <2>4, FS_RemoveElement, FS_CardinalityType
  <2>6. Cardinality(s) = Cardinality(s \ {x}) + 1
    BY <2>5
  <2>7. QED
    BY <2>1, <2>2, <2>3, <2>5, <2>6
<1>4. QED
  BY <1>2, <1>3

\* A sum of figures lies between as many times the least and as many times the greatest.
LEMMA SumBounds ==
    ASSUME NEW S, IsFiniteSet(S), NEW g \in [S -> Nat], NEW it, SumsUp(it, g, S),
           NEW lo \in Nat, NEW hi \in Nat, \A x \in S : lo <= g[x] /\ g[x] <= hi
    PROVE  /\ it[S] \in Nat /\ Cardinality(S) \in Nat
           /\ lo * Cardinality(S) <= it[S] /\ it[S] <= hi * Cardinality(S)
<1> DEFINE A == {s \in SUBSET S : it[s] \in Nat /\ Cardinality(s) \in Nat
                                  /\ lo * Cardinality(s) <= it[s] /\ it[s] <= hi * Cardinality(s)}
<1>1. {} \in A
  <2>1. it[{}] = 0 /\ Cardinality({}) = 0
    BY SumSteps, FS_EmptySet
  <2>2. lo * 0 = 0 /\ hi * 0 = 0
    OBVIOUS
  <2>3. QED
    BY <2>1, <2>2
<1>2. ASSUME NEW s \in SUBSET S, s # {}, s \ {Chosen(s)} \in A PROVE s \in A
  <2>1. PICK x \in s : /\ x = Chosen(s) /\ it[s] = g[x] + it[s \ {x}]
                       /\ Cardinality(s) \in Nat /\ Cardinality(s) = Cardinality(s \ {x}) + 1
                       /\ Cardinality(s \ {x}) \in Nat
    BY <1>2, SumSteps
  <2>2. PICK m \in Nat, c \in Nat, y \in Nat :
            m = it[s \ {x}] /\ c = Cardinality(s \ {x}) /\ y = g[x]
            /\ lo * c <= m /\ m <= hi * c /\ lo <= y /\ y <= hi
    BY <1>2, <2>1
  <2>3. lo * (c + 1) = lo * c + lo /\ hi * (c + 1) = hi * c + hi
    OBVIOUS
  <2>4. lo * (c + 1) <= y + m /\ y + m <= hi * (c + 1) /\ y + m \in Nat
    <3>1. PICK p \in Nat, q \in Nat : p = lo * c /\ q = hi * c
      OBVIOUS
    <3>2. QED
      BY <2>2, <2>3, <3>1
  <2>5. it[s] = y + m /\ Cardinality(s) = c + 1
    BY <2>1, <2>2
  <2>6. QED
    BY <2>1, <2>4, <2>5
<1>3. S \in A
  <2> HIDE DEF A
  <2>1. SUBSET S \subseteq A
    BY <1>1, <1>2, ByElements
  <2>2. QED
    BY <2>1
<1>4. QED
  BY <1>3

\* A sum of figures is at least the number of those that are not zero.
LEMMA SumCounts ==
    ASSUME NEW S, IsFiniteSet(S), NEW g \in [S -> Nat], NEW it, SumsUp(it, g, S)
    PROVE  it[S] \in Nat /\ Cardinality({x \in S : g[x] # 0}) <= it[S]
<1> DEFINE Some(s) == {x \in s : g[x] # 0}
           A == {s \in SUBSET S : it[s] \in Nat /\ Cardinality(Some(s)) <= it[s]}
<1>1. {} \in A
  <2>1. it[{}] = 0 /\ Cardinality({}) = 0
    BY SumSteps, FS_EmptySet
  <2>2. Some({}) = {}
    OBVIOUS
  <2>3. QED
    BY <2>1, <2>2
<1>2. ASSUME NEW s \in SUBSET S, s # {}, s \ {Chosen(s)} \in A PROVE s \in A
  <2>1. PICK x \in s : x = Chosen(s) /\ it[s] = g[x] + it[s \ {x}]
    BY <1>2, SumSteps
  <2>2. IsFiniteSet(Some(s \ {x})) /\ Cardinality(Some(s \ {x})) \in Nat
    <3>1. Some(s \ {x}) \subseteq S
      OBVIOUS
    <3> HIDE DEF Some
    <3>2. QED
      BY <3>1, FS_Subset, FS_CardinalityType
  <2>3. PICK m \in Nat, y \in Nat, c \in Nat :
            m = it[s \ {x}] /\ y = g[x] /\ c = Cardinality(Some(s \ {x})) /\ c <= m
    BY <1>2, <2>1, <2>2
  <2>4. it[s] = y + m
    BY <2>1, <2>3
  <2>5. CASE y = 0
    <3>1. Some(s) = Some(s \ {x})
      BY <2>3, <2>5
    <3> HIDE DEF Some
    <3>2. QED
      BY <2>3, <2>4, <2>5, <3>1
  <2>6. CASE y # 0
    <3>1. Some(s) = Some(s \ {x}) \cup {x}
      BY <2>1, <2>3, <2>6
    <3> HIDE DEF Some
    <3>2. Cardinality(Some(s)) \in {c, c + 1}
      <4>1. PICK T : T = Some(s \ {x})
        OBVIOUS
      <4>2. Cardinality(T \cup {x}) \in {Cardinality(T), Cardinality(T) + 1}
        BY <2>2, <4>1, FS_AddElement
      <4>3. QED
        BY <2>3, <3>1, <4>1, <4>2
    <3>3. QED
      BY <2>3, <2>4, <2>6, <3>2
  <2>7. QED
    BY <2>5, <2>6
<1>3. S \in A
  <2> HIDE DEF A
  <2>1. SUBSET S \subseteq A
    BY <1>1, <1>2, ByElements
  <2>2. QED
    BY <2>1
<1>4. QED
  BY <1>3

\* The parts of a whole add up to it.
LEMMA SumOfParts ==
    ASSUME NEW S, IsFiniteSet(S), NEW g \in [S -> Nat], NEW it, SumsUp(it, g, S),
           NEW B, IsFiniteSet(B), NEW h \in [B -> S],
           \A x \in S : g[x] = Cardinality({y \in B : h[y] = x})
    PROVE  it[S] = Cardinality(B)
<1> DEFINE Parted(s) == {y \in B : h[y] \in s}
           A == {s \in SUBSET S : it[s] = Cardinality(Parted(s))}
<1>1. {} \in A
  <2>1. it[{}] = 0 /\ Cardinality({}) = 0
    BY SumSteps, FS_EmptySet
  <2>2. Parted({}) = {}
    OBVIOUS
  <2>3. QED
    BY <2>1, <2>2
<1>2. ASSUME NEW s \in SUBSET S, s # {}, s \ {Chosen(s)} \in A PROVE s \in A
  <2>1. PICK x \in s : x = Chosen(s) /\ it[s] = g[x] + it[s \ {x}]
    BY <1>2, SumSteps
  <2> DEFINE P == {y \in B : h[y] = x}
             Q == Parted(s \ {x})
  <2>2. it[s] = Cardinality(P) + Cardinality(Q)
    BY <1>2, <2>1
  <2>3. Parted(s) = P \cup Q /\ P \cap Q = {} /\ P \subseteq B /\ Q \subseteq B
    BY <2>1
  <2> HIDE DEF P, Q, Parted
  <2>4. IsFiniteSet(P) /\ IsFiniteSet(Q)
    BY <2>3, FS_Subset
  <2>5. Cardinality(P \cup Q) = Cardinality(P) + Cardinality(Q)
    <3>1. /\ Cardinality(P) \in Nat /\ Cardinality(Q) \in Nat
          /\ Cardinality(P \cup Q) = Cardinality(P) + Cardinality(Q) - Cardinality(P \cap Q)
      BY <2>4, FS_Union, FS_CardinalityType
    <3>2. Cardinality(P \cap Q) = 0
      BY <2>3, FS_EmptySet
    <3>3. QED
      BY <3>1, <3>2
  <2>6. QED
    BY <2>2, <2>3, <2>5
<1>3. S \in A
  <2> HIDE DEF A
  <2>1. SUBSET S \subseteq A
    BY <1>1, <1>2, ByElements
  <2>2. QED
    BY <2>1
<1>4. Parted(S) = B
  OBVIOUS
<1>5. QED
  BY <1>3, <1>4

\* An average, rounded to a whole unit, lies between the least and the greatest.
LEMMA AverageBetween ==
    ASSUME NEW sum \in Nat, NEW count \in Nat, count > 0, NEW lo \in Nat, NEW hi \in Nat,
           lo * count <= sum, sum <= hi * count
    PROVE  lo <= roundAvg(sum, count) /\ roundAvg(sum, count) <= hi /\ roundAvg(sum, count) \in Nat
<1>1. PICK a \in Nat, b \in Nat : a = 2 * sum + count /\ b = 2 * count /\ b > 0
  OBVIOUS
<1>2. PICK q : q = a \div b
  OBVIOUS
<1>3. q \in Nat /\ b * q <= a /\ a < b * q + b
  BY <1>1, <1>2
<1>4. lo <= q
  <2> SUFFICES ASSUME q + 1 <= lo PROVE FALSE
    BY <1>3
  <2>1. b * (q + 1) <= b * lo
    BY <1>1, <1>3
  <2>2. b * (q + 1) = b * q + b /\ b * lo = 2 * (lo * count)
    BY <1>1, <1>3
  <2>3. PICK x \in Nat, y \in Nat : x = b * q /\ y = lo * count
    BY <1>3
  <2>4. QED
    BY <1>1, <1>3, <2>1, <2>2, <2>3
<1>5. q <= hi
  <2> SUFFICES ASSUME hi + 1 <= q PROVE FALSE
    BY <1>3
  <2>1. b * (hi + 1) <= b * q
    BY <1>1, <1>3
  <2>2. b * (hi + 1) = 2 * (hi * count) + 2 * count
    BY <1>1
  <2>3. PICK x \in Nat, y \in Nat : x = b * q /\ y = hi * count
    BY <1>3
  <2>4. QED
    BY <1>1, <1>3, <2>1, <2>2, <2>3
<1>6. roundAvg(sum, count) = q
  BY <1>1, <1>2 DEF roundAvg
<1>7. QED
  BY <1>3, <1>4, <1>5, <1>6

------------------------------------------------------------------------------
(* How many bikes are of a class *)

In(table, class) == {id \in Ids : table[id] \in class}
HowMany(table, class) == Cardinality(In(table, class))

NoPrice == {v \in Versions : v.motorcycle.price = NULL}
HasPrice == {v \in Versions : v.motorcycle.price # NULL}
NoEngine == {v \in Versions : v.engine = Absent}
HasEngine == {v \in Versions : v.engine # Absent}
NoPower == {v \in Versions : v.engine # Absent /\ v.engine.power = NULL}
NoDimension == {v \in Versions : v.dimension = Absent}
HasDimension == {v \in Versions : v.dimension # Absent}
NoExtras == {v \in Versions : v.extras = <<>>}
HasListPrice == {v \in Versions : ListPrice \in DOMAIN v.extras}
NoPriceAtAll == {v \in Versions : v.motorcycle.price = NULL /\ ListPrice \notin DOMAIN v.extras}

LEMMA HowManyIs ==
    ASSUME NEW table, NEW class
    PROVE  IsFiniteSet(In(table, class)) /\ HowMany(table, class) \in Nat
<1>1. In(table, class) \in SUBSET Ids
  BY DEF In
<1>2. IsFiniteSet(In(table, class))
  BY <1>1, BoundAssumption, FS_Subset
<1>3. QED
  BY <1>2, FS_CardinalityType DEF HowMany

\* A class within two others has no more bikes than they together; two that part a third have
\* as many as it.
LEMMA HowManyWithin ==
    ASSUME NEW table, NEW class, NEW one, NEW other, class \subseteq one \cup other
    PROVE  HowMany(table, class) <= HowMany(table, one) + HowMany(table, other)
<1> DEFINE A == In(table, class)
           B == In(table, one)
           C == In(table, other)
<1>1. A \subseteq B \cup C
  BY DEF In
<1>2. IsFiniteSet(B) /\ IsFiniteSet(C) /\ Cardinality(B) \in Nat /\ Cardinality(C) \in Nat
      /\ IsFiniteSet(A) /\ Cardinality(A) \in Nat
  BY HowManyIs DEF HowMany
<1> HIDE DEF A, B, C
<1>3. IsFiniteSet(B \cup C) /\ Cardinality(B \cup C) = Cardinality(B) + Cardinality(C) - Cardinality(B \cap C)
  BY <1>2, FS_Union
<1>4. Cardinality(A) <= Cardinality(B \cup C)
  BY <1>1, <1>3, FS_Subset
<1>5. IsFiniteSet(B \cap C)
  <2>1. B \cap C \in SUBSET B
    OBVIOUS
  <2>2. QED
    BY <1>2, <2>1, FS_Subset
<1>6. PICK c \in Nat : c = Cardinality(B \cap C)
  BY <1>5, FS_CardinalityType
<1>7. Cardinality(A) <= Cardinality(B) + Cardinality(C)
  BY <1>2, <1>3, <1>4, <1>6
<1>8. QED
  BY <1>7 DEF A, B, C, HowMany

LEMMA HowManyParted ==
    ASSUME NEW table, NEW class, NEW one, NEW other, class = one \cup other, one \cap other = {}
    PROVE  HowMany(table, class) = HowMany(table, one) + HowMany(table, other)
<1> DEFINE A == In(table, class)
           B == In(table, one)
           C == In(table, other)
<1>1. A = B \cup C /\ B \cap C = {}
  BY DEF In
<1>2. IsFiniteSet(B) /\ IsFiniteSet(C) /\ Cardinality(B) \in Nat /\ Cardinality(C) \in Nat
  BY HowManyIs DEF HowMany
<1> HIDE DEF A, B, C
<1>3. Cardinality(B \cup C) = Cardinality(B) + Cardinality(C) - Cardinality(B \cap C)
  BY <1>2, FS_Union
<1>4. Cardinality(B \cap C) = 0
  BY <1>1, FS_EmptySet
<1>5. Cardinality(A) = Cardinality(B) + Cardinality(C)
  BY <1>1, <1>2, <1>3, <1>4
<1>6. QED
  BY <1>5 DEF A, B, C, HowMany

\* One bike more or less makes a difference of one.
LEMMA HowManyNext ==
    ASSUME NEW table, NEW next, NEW id \in Ids, \A other \in Ids \ {id} : next[other] = table[other],
           NEW class
    PROVE  /\ HowMany(next, class) <= HowMany(table, class) + 1
           /\ HowMany(table, class) <= HowMany(next, class) + 1
<1> DEFINE A == In(table, class)
           B == In(next, class)
<1>1. A \ {id} = B \ {id}
  BY DEF In
<1>2. IsFiniteSet(A) /\ IsFiniteSet(B) /\ Cardinality(A) \in Nat /\ Cardinality(B) \in Nat
  BY HowManyIs DEF HowMany
<1> HIDE DEF A, B
<1>3. /\ Cardinality(A \ {id}) = IF id \in A THEN Cardinality(A) - 1 ELSE Cardinality(A)
      /\ Cardinality(B \ {id}) = IF id \in B THEN Cardinality(B) - 1 ELSE Cardinality(B)
  BY <1>2, FS_RemoveElement
<1>4. Cardinality(B) <= Cardinality(A) + 1 /\ Cardinality(A) <= Cardinality(B) + 1
  <2>1. PICK a, b, c : /\ a \in Nat /\ b \in Nat /\ a = Cardinality(A)
                      /\ b = Cardinality(B) /\ c = Cardinality(A \ {id})
    BY <1>2
  <2>2. c \in {a, a - 1} /\ c \in {b, b - 1}
    BY <1>1, <1>3, <2>1
  <2>3. b <= a + 1 /\ a <= b + 1
    BY <2>1, <2>2
  <2>4. QED
    BY <2>1, <2>3
<1>5. QED
  BY <1>4 DEF A, B, HowMany

\* No class has gained or lost more bikes between two instants than there were writes.
Drifts ==
    \A class \in SUBSET Versions : \A k, l \in DOMAIN past : k <= l =>
        /\ HowMany(past[l], class) <= HowMany(past[k], class) + (l - k)
        /\ HowMany(past[k], class) <= HowMany(past[l], class) + (l - k)

LEMMA DriftsStay ==
    ASSUME Based, Drifts, past' = Append(past, catalogue'), catalogue = past[Len(past)],
           NEW id \in Ids, NEW v, catalogue' = [catalogue EXCEPT ![id] = v]
    PROVE  Drifts'
<1>1. /\ Len(past) \in Nat /\ DOMAIN past = 1..Len(past) /\ DOMAIN past' = 1..Len(past')
      /\ Len(past') = Len(past) + 1
      /\ \A k \in 1..Len(past) : k \in 1..Len(past') /\ past'[k] = past[k]
  BY CommitsAppend
<1>2. past'[Len(past) + 1] = catalogue' /\ past # <<>>
  BY DEF Based
<1>3. Len(past) \in DOMAIN past
  <2>1. Len(past) # 0
    BY <1>2 DEF Based
  <2>2. QED
    BY <1>1, <2>1
<1>4. \A other \in Ids \ {id} : catalogue'[other] = catalogue[other]
  BY DEF Based, Tables
<1> SUFFICES ASSUME NEW class \in SUBSET Versions, NEW k \in DOMAIN past', NEW l \in DOMAIN past', k <= l
             PROVE  /\ HowMany(past'[l], class) <= HowMany(past'[k], class) + (l - k)
                    /\ HowMany(past'[k], class) <= HowMany(past'[l], class) + (l - k)
  BY DEF Drifts
<1>5. k \in Nat /\ l \in Nat
  BY <1>1
<1>6. CASE l \in DOMAIN past
  <2>1. k \in DOMAIN past
    BY <1>1, <1>5, <1>6
  <2>2. QED
    BY <1>1, <1>6, <2>1 DEF Drifts
<1>7. CASE l \notin DOMAIN past
  <2>1. l = Len(past) + 1 /\ past'[l] = catalogue'
    BY <1>1, <1>2, <1>7
  <2>2. CASE k = l
    <3>1. PICK c \in Nat : c = HowMany(past'[l], class)
      BY HowManyIs
    <3>2. QED
      BY <1>5, <2>2, <3>1
  <2>3. CASE k # l
    <3>1. k \in DOMAIN past /\ k <= Len(past)
      BY <1>1, <1>5, <2>1, <2>3
    <3>2. PICK a \in Nat, b \in Nat, c \in Nat :
              /\ a = HowMany(past[k], class) /\ b = HowMany(catalogue, class)
              /\ c = HowMany(catalogue', class)
      BY HowManyIs
    <3>3. b <= a + (Len(past) - k) /\ a <= b + (Len(past) - k)
      BY <1>3, <3>1, <3>2 DEF Drifts
    <3>4. c <= b + 1 /\ b <= c + 1
      <4>1. PICK next : next = catalogue'
        OBVIOUS
      <4>2. \A other \in Ids \ {id} : next[other] = catalogue[other]
        BY <1>4, <4>1
      <4>3. HowMany(next, class) <= HowMany(catalogue, class) + 1
            /\ HowMany(catalogue, class) <= HowMany(next, class) + 1
        BY <4>2, HowManyNext
      <4>4. QED
        BY <3>2, <4>1, <4>3
    <3>5. past'[k] = past[k]
      BY <1>1, <3>1
    <3>6. c <= a + (l - k) /\ a <= c + (l - k)
      BY <1>1, <1>5, <2>1, <3>3, <3>4
    <3>7. QED
      BY <2>1, <3>2, <3>5, <3>6
  <2>4. QED
    BY <2>2, <2>3
<1>8. QED
  BY <1>6, <1>7

------------------------------------------------------------------------------
(* What a figure says *)

Facts(name, value, table) ==
    /\ name = "gaps" =>
          /\ value.price = HowMany(table, NoPrice)
          /\ value.engine = HowMany(table, NoEngine)
          /\ value.dimension = HowMany(table, NoDimension)
    /\ name = "total" => value = HowMany(table, Versions)
    /\ name = "brands" => MapThenSumSet(LAMBDA b : value[b], DOMAIN value) = HowMany(table, Versions)
    /\ name = "prices" =>
          /\ value.count = HowMany(table, HasPrice)
          /\ value.count = 0 <=> value.avg = NULL
          /\ value.count > 0 => value.min <= value.avg /\ value.avg <= value.max
    /\ name = "engines" => value = HowMany(table, HasEngine)
    /\ name = "powerGaps" => value = HowMany(table, NoPower)
    /\ name = "dimensions" => value = HowMany(table, HasDimension)
    /\ name = "entries" => value \in Nat /\ HowMany(table, Versions) <= HowMany(table, NoExtras) + value
    /\ name = "bare" => value = HowMany(table, NoExtras)
    /\ name = "listed" => value = HowMany(table, HasListPrice)
    /\ name = "unpriced" => value = HowMany(table, NoPriceAtAll)

\* A bike that is there is of the versions, and what it holds is as assumed of the contents.
LEMMA BikesThere ==
    ASSUME Based
    PROVE  /\ There(catalogue) = In(catalogue, Versions) /\ IsFiniteSet(There(catalogue))
           /\ \A id \in There(catalogue) :
                 /\ catalogue[id] \in Versions
                 /\ catalogue[id].motorcycle.price \in Nat \cup {NULL}
                 /\ IsFiniteSet(DOMAIN catalogue[id].extras)
                 /\ DOMAIN catalogue[id].extras = {} => catalogue[id].extras = <<>>
<1>1. catalogue \in Tables /\ Absent \notin Versions
  BY ContentsAreVersions DEF Based
<1>2. There(catalogue) = In(catalogue, Versions)
  BY <1>1 DEF There, In, Tables
<1>3. IsFiniteSet(There(catalogue))
  BY <1>2, HowManyIs
<1>4. ASSUME NEW id \in There(catalogue)
      PROVE  /\ catalogue[id] \in Versions
             /\ catalogue[id].motorcycle.price \in Nat \cup {NULL}
             /\ IsFiniteSet(DOMAIN catalogue[id].extras)
             /\ DOMAIN catalogue[id].extras = {} => catalogue[id].extras = <<>>
  <2>1. catalogue[id] \in Versions
    BY <1>2 DEF In
  <2>2. PICK bike \in Contents, n \in 0..MaxWrites : catalogue[id] = Version(bike, n)
    BY <2>1 DEF Versions
  <2>3. PICK v : v = Version(bike, n)
    OBVIOUS
  <2>4. v.motorcycle = bike.motorcycle /\ v.extras = bike.extras
    BY <2>3, VersionHolds
  <2>5. bike.motorcycle.price \in Nat \cup {NULL}
    BY ColumnAssumption
  <2>6. PICK map : map = bike.extras
    OBVIOUS
  <2>7. IsFiniteSet(DOMAIN map) /\ map = [key \in DOMAIN map |-> map[key]]
    BY <2>6, ExtrasAssumption
  <2>8. DOMAIN map = {} => map = <<>>
    <3>1. PICK keys : keys = DOMAIN map
      OBVIOUS
    <3>2. map = [key \in keys |-> map[key]]
      BY <2>7, <3>1
    <3>3. ASSUME keys = {} PROVE map = <<>>
      BY <3>2, <3>3
    <3>4. QED
      BY <3>1, <3>3
  <2>9. QED
    BY <2>1, <2>2, <2>3, <2>4, <2>5, <2>6, <2>7, <2>8
<1>5. QED
  BY <1>2, <1>3, <1>4

\* What is counted of the bikes there are is how many are of a class.
LEMMA ClassesCounted ==
    ASSUME Based
    PROVE  LET bikes == There(catalogue) IN
           /\ {id \in bikes : catalogue[id].motorcycle.price = NULL} = In(catalogue, NoPrice)
           /\ {id \in bikes : catalogue[id].motorcycle.price # NULL} = In(catalogue, HasPrice)
           /\ {id \in bikes : catalogue[id].engine = Absent} = In(catalogue, NoEngine)
           /\ {id \in bikes : catalogue[id].dimension = Absent} = In(catalogue, NoDimension)
           /\ BlockRows("engine") = In(catalogue, HasEngine)
           /\ {id \in BlockRows("engine") : catalogue[id].engine.power = NULL} = In(catalogue, NoPower)
           /\ BlockRows("dimension") = In(catalogue, HasDimension)
           /\ {id \in bikes : catalogue[id].extras = <<>>} = In(catalogue, NoExtras)
           /\ {id \in bikes : Listed(id)} = In(catalogue, HasListPrice)
           /\ {id \in bikes : catalogue[id].motorcycle.price = NULL /\ ~Listed(id)} = In(catalogue, NoPriceAtAll)
<1>1. PICK bikes : bikes = There(catalogue)
  OBVIOUS
<1>2. bikes = {id \in Ids : catalogue[id] \in Versions}
  BY <1>1, BikesThere DEF In
<1>3. {id \in bikes : catalogue[id].motorcycle.price = NULL} = In(catalogue, NoPrice)
  BY <1>2 DEF In, NoPrice
<1>4. {id \in bikes : catalogue[id].motorcycle.price # NULL} = In(catalogue, HasPrice)
  BY <1>2 DEF In, HasPrice
<1>5. {id \in bikes : catalogue[id].engine = Absent} = In(catalogue, NoEngine)
  BY <1>2 DEF In, NoEngine
<1>6. {id \in bikes : catalogue[id].dimension = Absent} = In(catalogue, NoDimension)
  BY <1>2 DEF In, NoDimension
<1>7. BlockRows("engine") = In(catalogue, HasEngine)
  BY <1>1, <1>2 DEF In, HasEngine, BlockRows
<1>8. {id \in BlockRows("engine") : catalogue[id].engine.power = NULL} = In(catalogue, NoPower)
  BY <1>7 DEF In, HasEngine, NoPower
<1>9. BlockRows("dimension") = In(catalogue, HasDimension)
  BY <1>1, <1>2 DEF In, HasDimension, BlockRows
<1>10. {id \in bikes : catalogue[id].extras = <<>>} = In(catalogue, NoExtras)
  BY <1>2 DEF In, NoExtras
<1>11. {id \in bikes : Listed(id)} = In(catalogue, HasListPrice)
  BY <1>2 DEF In, HasListPrice, Listed
<1>12. {id \in bikes : catalogue[id].motorcycle.price = NULL /\ ~Listed(id)} = In(catalogue, NoPriceAtAll)
  BY <1>2 DEF In, NoPriceAtAll, Listed
<1>13. QED
  BY <1>1, <1>3, <1>4, <1>5, <1>6, <1>7, <1>8, <1>9, <1>10, <1>11, <1>12

\* The prices of the bikes that have one.
LEMMA PricesFacts ==
    ASSUME Based
    PROVE  Facts("prices", priceStats, catalogue)
<1> DEFINE priced == {id \in There(catalogue) : catalogue[id].motorcycle.price # NULL}
           prices == {catalogue[id].motorcycle.price : id \in priced}
           sum == MapThenSumSet(LAMBDA id : catalogue[id].motorcycle.price, priced)
           g == [id \in priced |-> catalogue[id].motorcycle.price]
<1>1. priced = In(catalogue, HasPrice) /\ IsFiniteSet(priced) /\ Cardinality(priced) = HowMany(catalogue, HasPrice)
  <2>1. priced = In(catalogue, HasPrice)
    BY ClassesCounted, Zenon
  <2>2. PICK there : there = In(catalogue, HasPrice) /\ IsFiniteSet(there)
    BY HowManyIs
  <2> HIDE DEF priced
  <2>3. QED
    BY <2>1, <2>2 DEF HowMany
<1>2. g \in [priced -> Nat]
  BY BikesThere
<1>3. NULL \notin Nat /\ Cardinality(priced) \in Nat
  BY <1>1, ColumnAssumption, HowManyIs
<1>4. priceStats = IF priced = {} THEN [min |-> NULL, avg |-> NULL, max |-> NULL, count |-> 0]
                   ELSE [min |-> Min(prices), max |-> Max(prices), count |-> Cardinality(priced),
                         avg |-> roundAvg(sum, Cardinality(priced))]
  BY DEF priceStats
<1>5. CASE priced = {}
  <2>1. Cardinality(priced) = 0
    BY <1>5, FS_EmptySet
  <2>2. priceStats.count = 0 /\ priceStats.avg = NULL
    BY <1>4, <1>5
  <2>3. QED
    BY <1>1, <2>1, <2>2 DEF Facts
<1>6. CASE priced # {}
  <2>1. prices \in SUBSET Nat /\ prices # {} /\ IsFiniteSet(prices)
    <3>1. prices = {g[id] : id \in priced}
      OBVIOUS
    <3> HIDE DEF g, priced, prices
    <3>2. g \in Surjection(priced, {g[id] : id \in priced})
      BY <1>2 DEF Surjection
    <3>3. IsFiniteSet({g[id] : id \in priced})
      BY <1>1, <3>2, FS_Surjection
    <3>4. QED
      BY <1>2, <1>6, <3>1, <3>3
  <2>2. PICK lo, hi : lo = Min(prices) /\ hi = Max(prices)
    OBVIOUS
  <2>3. lo \in Nat /\ hi \in Nat /\ \A x \in prices : lo <= x /\ x <= hi
    <3> HIDE DEF prices
    <3>1. lo \in prices /\ \A x \in prices : lo <= x
      BY <2>1, <2>2, LeastOf
    <3>2. hi \in prices /\ \A x \in prices : hi >= x
      BY <2>1, <2>2, GreatestFigure
    <3>3. \A x \in prices : x <= hi
      BY <2>1, <3>2
    <3>4. QED
      BY <2>1, <3>1, <3>2, <3>3
  <2>4. \A id \in priced : lo <= g[id] /\ g[id] <= hi
    BY <2>3
  <2>5. \E it : SumsUp(it, g, priced) /\ sum = it[priced]
    <3>1. PICK some : SumsUp(some, g, priced)
      <4> HIDE DEF g, priced
      <4>1. QED
        BY <1>1, <1>2, SumsExist
    <3>2. \A it : SumsUp(it, g, priced) <=>
            it = [s \in SUBSET priced |-> IF s = {} THEN 0
                    ELSE catalogue[CHOOSE x \in s : TRUE].motorcycle.price + it[s \ {CHOOSE x \in s : TRUE}]]
      <4> SUFFICES ASSUME NEW it
                   PROVE  SumsUp(it, g, priced) <=>
            it = [s \in SUBSET priced |-> IF s = {} THEN 0
                    ELSE catalogue[CHOOSE x \in s : TRUE].motorcycle.price + it[s \ {CHOOSE x \in s : TRUE}]]
        OBVIOUS
      <4>1. \A s \in SUBSET priced : s # {} => Chosen(s) \in priced
        BY DEF Chosen
      <4>2. \A s \in SUBSET priced : s # {} => g[Chosen(s)] = catalogue[CHOOSE x \in s : TRUE].motorcycle.price
        BY <4>1 DEF Chosen
      <4> HIDE DEF g, priced
      <4>3. [s \in SUBSET priced |-> IF s = {} THEN 0 ELSE g[Chosen(s)] + it[s \ {Chosen(s)}]]
            = [s \in SUBSET priced |-> IF s = {} THEN 0
                    ELSE catalogue[CHOOSE x \in s : TRUE].motorcycle.price + it[s \ {CHOOSE x \in s : TRUE}]]
        BY <4>2 DEF Chosen
      <4>4. QED
        BY <4>3 DEF SumsUp
    <3> DEFINE the == CHOOSE it :
            it = [s \in SUBSET priced |-> IF s = {} THEN 0
                    ELSE catalogue[CHOOSE x \in s : TRUE].motorcycle.price + it[s \ {CHOOSE x \in s : TRUE}]]
    <3>3. SumsUp(the, g, priced)
      BY <3>1, <3>2
    <3>4. sum = the[priced]
      BY DEF MapThenSumSet, MapThenFoldSet
    <3>5. QED
      BY <3>3, <3>4
  <2>6. PICK it : SumsUp(it, g, priced) /\ sum = it[priced]
    BY <2>5
  <2> HIDE DEF g, priced, prices, sum
  <2>7. PICK n \in Nat : n = Cardinality(priced) /\ n # 0
    BY <1>1, <1>3, <1>6, FS_EmptySet
  <2>8. it[priced] \in Nat /\ lo * n <= it[priced] /\ it[priced] <= hi * n
    BY <1>1, <1>2, <2>3, <2>4, <2>6, <2>7, SumBounds
  <2>9. PICK m \in Nat : m = it[priced]
    BY <2>8
  <2>10. lo <= roundAvg(m, n) /\ roundAvg(m, n) <= hi /\ roundAvg(m, n) \in Nat
    BY <2>3, <2>7, <2>8, <2>9, AverageBetween
  <2>11. /\ priceStats.count = n /\ priceStats.avg = roundAvg(m, n)
         /\ priceStats.min = lo /\ priceStats.max = hi
    BY <1>4, <1>6, <2>2, <2>6, <2>7, <2>9
  <2>12. priceStats.avg # NULL
    BY <1>3, <2>10, <2>11
  <2>13. QED
    BY <1>1, <2>7, <2>10, <2>11, <2>12 DEF Facts
<1>7. QED
  BY <1>5, <1>6

\* The bikes of each brand.
LEMMA BrandsFacts ==
    ASSUME Based
    PROVE  Facts("brands", countByBrand, catalogue)
<1> DEFINE bikes == There(catalogue)
           brands == {catalogue[id].motorcycle.brand : id \in bikes}
           h == [id \in bikes |-> catalogue[id].motorcycle.brand]
<1>1. bikes = In(catalogue, Versions) /\ IsFiniteSet(bikes) /\ Cardinality(bikes) = HowMany(catalogue, Versions)
  BY BikesThere DEF HowMany
<1>2. PICK g : g = countByBrand
  OBVIOUS
<1>3. g = [brand \in brands |-> Cardinality({id \in bikes : catalogue[id].motorcycle.brand = brand})]
  BY <1>2 DEF countByBrand
<1>4. h \in [bikes -> brands] /\ h \in Surjection(bikes, brands)
  BY DEF Surjection
<1>5. \A brand \in brands : g[brand] = Cardinality({id \in bikes : h[id] = brand})
  BY <1>3
<1>6. DOMAIN g = brands
  BY <1>3
<1> HIDE DEF brands, h, bikes
<1>7. IsFiniteSet(brands)
  BY <1>1, <1>4, FS_Surjection
<1>8. g \in [brands -> Nat]
  <2>1. ASSUME NEW brand \in brands PROVE g[brand] \in Nat
    <3>1. {id \in bikes : h[id] = brand} \in SUBSET bikes
      OBVIOUS
    <3>2. IsFiniteSet({id \in bikes : h[id] = brand})
      BY <1>1, <3>1, FS_Subset
    <3>3. QED
      BY <1>5, <3>2, FS_CardinalityType
  <2>2. g = [brand \in brands |-> g[brand]]
    BY <1>3
  <2>3. QED
    BY <2>1, <2>2
<1>9. \E it : SumsUp(it, g, brands) /\ MapThenSumSet(LAMBDA b : g[b], DOMAIN g) = it[brands]
  <2>1. PICK some : SumsUp(some, g, brands)
    BY <1>7, <1>8, SumsExist
  <2> DEFINE the == CHOOSE it :
          it = [s \in SUBSET DOMAIN g |-> IF s = {} THEN 0
                   ELSE g[CHOOSE x \in s : TRUE] + it[s \ {CHOOSE x \in s : TRUE}]]
  <2>2. the = [s \in SUBSET DOMAIN g |-> IF s = {} THEN 0
                   ELSE g[CHOOSE x \in s : TRUE] + the[s \ {CHOOSE x \in s : TRUE}]]
    <3>1. some = [s \in SUBSET DOMAIN g |-> IF s = {} THEN 0
                   ELSE g[CHOOSE x \in s : TRUE] + some[s \ {CHOOSE x \in s : TRUE}]]
      BY <1>6, <2>1 DEF SumsUp, Chosen
    <3>2. QED
      BY <3>1
  <2>3. SumsUp(the, g, brands)
    <3> HIDE DEF the
    <3>1. QED
      BY <1>6, <2>2 DEF SumsUp, Chosen
  <2>4. MapThenSumSet(LAMBDA b : g[b], DOMAIN g) = the[brands]
    BY <1>6 DEF MapThenSumSet, MapThenFoldSet
  <2>5. QED
    BY <2>3, <2>4
<1>10. PICK it : SumsUp(it, g, brands) /\ MapThenSumSet(LAMBDA b : g[b], DOMAIN g) = it[brands]
  BY <1>9
<1>11. it[brands] = Cardinality(bikes)
  BY <1>1, <1>4, <1>5, <1>7, <1>8, <1>10, SumOfParts
<1>12. MapThenSumSet(LAMBDA b : g[b], DOMAIN g) = HowMany(catalogue, Versions)
  BY <1>1, <1>10, <1>11
<1>13. Facts("brands", g, catalogue)
  BY <1>12 DEF Facts
<1>14. QED
  BY <1>2, <1>13

\* The long-tail specs of all bikes: each bike but the bare ones has one at least.
LEMMA EntriesFacts ==
    ASSUME Based
    PROVE  Facts("entries",
                 MapThenSumSet(LAMBDA id : Cardinality(DOMAIN catalogue[id].extras), There(catalogue)),
                 catalogue)
<1> DEFINE bikes == There(catalogue)
           g == [id \in bikes |-> Cardinality(DOMAIN catalogue[id].extras)]
           sum == MapThenSumSet(LAMBDA id : Cardinality(DOMAIN catalogue[id].extras), There(catalogue))
           some == {id \in bikes : g[id] # 0}
<1>1. IsFiniteSet(bikes) /\ g \in [bikes -> Nat]
  BY BikesThere, FS_CardinalityType
<1>2. \A id \in bikes : g[id] = 0 => catalogue[id].extras = <<>>
  BY BikesThere, FS_EmptySet
<1>3. \E it : SumsUp(it, g, bikes) /\ sum = it[bikes]
  <2>1. PICK one : SumsUp(one, g, bikes)
    <3> HIDE DEF g, bikes
    <3>1. QED
      BY <1>1, SumsExist
  <2>2. \A it : SumsUp(it, g, bikes) <=>
          it = [s \in SUBSET bikes |-> IF s = {} THEN 0
                  ELSE Cardinality(DOMAIN catalogue[CHOOSE x \in s : TRUE].extras)
                       + it[s \ {CHOOSE x \in s : TRUE}]]
    <3> SUFFICES ASSUME NEW it
                 PROVE  SumsUp(it, g, bikes) <=>
          it = [s \in SUBSET bikes |-> IF s = {} THEN 0
                  ELSE Cardinality(DOMAIN catalogue[CHOOSE x \in s : TRUE].extras)
                       + it[s \ {CHOOSE x \in s : TRUE}]]
      OBVIOUS
    <3>1. \A s \in SUBSET bikes : s # {} => Chosen(s) \in bikes
      BY DEF Chosen
    <3>2. \A s \in SUBSET bikes : s # {} =>
            g[Chosen(s)] = Cardinality(DOMAIN catalogue[CHOOSE x \in s : TRUE].extras)
      BY <3>1 DEF Chosen
    <3> HIDE DEF g, bikes
    <3>3. [s \in SUBSET bikes |-> IF s = {} THEN 0 ELSE g[Chosen(s)] + it[s \ {Chosen(s)}]]
          = [s \in SUBSET bikes |-> IF s = {} THEN 0
                  ELSE Cardinality(DOMAIN catalogue[CHOOSE x \in s : TRUE].extras)
                       + it[s \ {CHOOSE x \in s : TRUE}]]
      BY <3>2 DEF Chosen
    <3>4. QED
      BY <3>3 DEF SumsUp
  <2> DEFINE the == CHOOSE it :
          it = [s \in SUBSET bikes |-> IF s = {} THEN 0
                  ELSE Cardinality(DOMAIN catalogue[CHOOSE x \in s : TRUE].extras)
                       + it[s \ {CHOOSE x \in s : TRUE}]]
  <2>3. SumsUp(the, g, bikes)
    BY <2>1, <2>2
  <2>4. sum = the[bikes]
    BY DEF MapThenSumSet, MapThenFoldSet
  <2>5. QED
    BY <2>3, <2>4
<1>4. PICK it : SumsUp(it, g, bikes) /\ sum = it[bikes]
  BY <1>3
<1>5. bikes = In(catalogue, Versions) /\ {id \in bikes : catalogue[id].extras = <<>>} = In(catalogue, NoExtras)
  BY BikesThere, ClassesCounted, Zenon
<1>6. bikes \subseteq In(catalogue, NoExtras) \cup some
  BY <1>2, <1>5
<1> HIDE DEF sum
<1>7. sum \in Nat /\ Cardinality(some) <= sum
  <2>1. it[bikes] \in Nat /\ Cardinality({id \in bikes : g[id] # 0}) <= it[bikes]
    <3> HIDE DEF g, bikes, some
    <3>1. QED
      BY <1>1, <1>4, SumCounts
  <2>2. QED
    BY <1>4, <2>1
<1>8. IsFiniteSet(some) /\ some \subseteq bikes
  <2>1. some \in SUBSET bikes
    OBVIOUS
  <2> HIDE DEF some
  <2>2. QED
    BY <1>1, <2>1, FS_Subset
<1> HIDE DEF g, bikes, some
<1>9. PICK bare : bare = In(catalogue, NoExtras) /\ IsFiniteSet(bare)
  BY HowManyIs
<1>10. Cardinality(bikes) <= Cardinality(bare \cup some)
       /\ Cardinality(bare \cup some) = Cardinality(bare) + Cardinality(some) - Cardinality(bare \cap some)
       /\ IsFiniteSet(bare \cap some)
  <2>1. IsFiniteSet(bare \cup some) /\ bikes \in SUBSET (bare \cup some) /\ bare \cap some \in SUBSET bare
    BY <1>6, <1>8, <1>9, FS_Union
  <2>2. Cardinality(bikes) <= Cardinality(bare \cup some)
    BY <2>1, FS_Subset
  <2>3. IsFiniteSet(bare \cap some)
    BY <1>9, <2>1, FS_Subset
  <2>4. QED
    BY <1>8, <1>9, <2>2, <2>3, FS_Union
<1>11. Cardinality(bikes) <= Cardinality(bare) + sum
  <2>1. PICK a \in Nat, b \in Nat, c \in Nat, d \in Nat :
            /\ a = Cardinality(bikes) /\ b = Cardinality(bare) /\ c = Cardinality(some)
            /\ d = Cardinality(bare \cap some)
    BY <1>1, <1>8, <1>9, <1>10, FS_CardinalityType
  <2>2. QED
    BY <1>7, <1>10, <2>1
<1>12. HowMany(catalogue, Versions) <= HowMany(catalogue, NoExtras) + sum
  BY <1>5, <1>9, <1>11 DEF HowMany
<1>13. Facts("entries", sum, catalogue)
  BY <1>7, <1>12 DEF Facts
<1>14. QED
  BY <1>13 DEF sum

\* A figure is true of the table that its query reads.
LEMMA FigureFacts ==
    ASSUME Based, NEW n \in 1..11
    PROVE  Facts(Figures[n], Figure(Figures[n]), catalogue)
<1>1. CASE n = 1
  <2>1. PICK bikes : bikes = There(catalogue) /\ IsFiniteSet(bikes)
    BY BikesThere
  <2>2. /\ {id \in bikes : catalogue[id].motorcycle.price = NULL} = In(catalogue, NoPrice)
        /\ {id \in bikes : catalogue[id].engine = Absent} = In(catalogue, NoEngine)
        /\ {id \in bikes : catalogue[id].dimension = Absent} = In(catalogue, NoDimension)
    BY <2>1, ClassesCounted, Zenon
  <2>3. ASSUME NEW missing, NEW class, missing = In(catalogue, class), missing \subseteq bikes
        PROVE  orZero(CountIn(missing, bikes)) = HowMany(catalogue, class)
    <3>1. CASE bikes = {}
      <4>1. missing = {} /\ Cardinality(missing) = 0
        BY <2>3, <3>1, FS_EmptySet
      <4>2. QED
        BY <2>3, <3>1, <4>1 DEF orZero, CountIn, HowMany
    <3>2. CASE bikes # {}
      <4>1. CountIn(missing, bikes) = HowMany(catalogue, class)
        BY <2>3, <3>2 DEF CountIn, HowMany
      <4>2. HowMany(catalogue, class) \in Nat /\ NULL \notin Nat
        BY HowManyIs, ColumnAssumption
      <4>3. QED
        BY <4>1, <4>2 DEF orZero
    <3>3. QED
      BY <3>1, <3>2
  <2>4. /\ orZero(CountIn({id \in bikes : catalogue[id].motorcycle.price = NULL}, bikes)) = HowMany(catalogue, NoPrice)
        /\ orZero(CountIn({id \in bikes : catalogue[id].engine = Absent}, bikes)) = HowMany(catalogue, NoEngine)
        /\ orZero(CountIn({id \in bikes : catalogue[id].dimension = Absent}, bikes))
              = HowMany(catalogue, NoDimension)
    BY <2>2, <2>3
  <2>5. PICK gaps : gaps = fieldGaps
    OBVIOUS
  <2>6. /\ DOMAIN gaps = {"price", "engine", "dimension"}
        /\ orZero(gaps.price) = HowMany(catalogue, NoPrice)
        /\ orZero(gaps.engine) = HowMany(catalogue, NoEngine)
        /\ orZero(gaps.dimension) = HowMany(catalogue, NoDimension)
    BY <2>1, <2>4, <2>5 DEF fieldGaps
  <2>7. Figure("gaps") = [column \in DOMAIN gaps |-> orZero(gaps[column])]
    BY <2>5 DEF Figure
  <2>8. Facts("gaps", Figure("gaps"), catalogue)
    BY <2>6, <2>7 DEF Facts
  <2>9. QED
    BY <1>1, <2>8 DEF Figures
<1>2. CASE n = 2
  <2>1. Figure("total") = HowMany(catalogue, Versions)
    BY BikesThere DEF Figure, HowMany
  <2>2. QED
    BY <1>2, <2>1 DEF Figures, Facts
<1>3. CASE n = 3
  <2>1. Figures[n] = "brands" /\ Figure("brands") = countByBrand
    BY <1>3 DEF Figure, Figures
  <2>2. QED
    BY <2>1, BrandsFacts
<1>4. CASE n = 4
  <2>1. Figures[n] = "prices" /\ Figure("prices") = priceStats
    BY <1>4 DEF Figure, Figures
  <2>2. QED
    BY <2>1, PricesFacts
<1>5. CASE n = 5
  <2>1. BlockRows("engine") = In(catalogue, HasEngine)
    BY ClassesCounted, Zenon
  <2>2. Figure("engines") = HowMany(catalogue, HasEngine)
    BY <2>1 DEF Figure, HowMany
  <2>3. QED
    BY <1>5, <2>2 DEF Figures, Facts
<1>6. CASE n = 6
  <2>1. /\ BlockRows("engine") = In(catalogue, HasEngine)
        /\ {id \in BlockRows("engine") : catalogue[id].engine.power = NULL} = In(catalogue, NoPower)
    BY ClassesCounted, Zenon
  <2>2. PICK rows, missing : /\ rows = BlockRows("engine") /\ missing = In(catalogue, NoPower)
                             /\ missing \subseteq rows
    BY <2>1
  <2>3. powerGaps = CountIn(missing, rows)
    BY <2>1, <2>2 DEF powerGaps
  <2>4. orZero(CountIn(missing, rows)) = HowMany(catalogue, NoPower)
    <3>1. CASE rows = {}
      <4>1. missing = {} /\ Cardinality(missing) = 0
        BY <2>2, <3>1, FS_EmptySet
      <4>2. QED
        BY <2>2, <3>1, <4>1 DEF orZero, CountIn, HowMany
    <3>2. CASE rows # {}
      <4>1. CountIn(missing, rows) = HowMany(catalogue, NoPower)
        BY <2>2, <3>2 DEF CountIn, HowMany
      <4>2. HowMany(catalogue, NoPower) \in Nat /\ NULL \notin Nat
        BY HowManyIs, ColumnAssumption
      <4>3. QED
        BY <4>1, <4>2 DEF orZero
    <3>3. QED
      BY <3>1, <3>2
  <2>5. Figure("powerGaps") = HowMany(catalogue, NoPower)
    BY <2>3, <2>4 DEF Figure
  <2>6. QED
    BY <1>6, <2>5 DEF Figures, Facts
<1>7. CASE n = 7
  <2>1. BlockRows("dimension") = In(catalogue, HasDimension)
    BY ClassesCounted, Zenon
  <2>2. Figure("dimensions") = HowMany(catalogue, HasDimension)
    BY <2>1 DEF Figure, HowMany
  <2>3. QED
    BY <1>7, <2>2 DEF Figures, Facts
<1>8. CASE n = 8
  <2>1. Figures[n] = "entries"
        /\ Figure("entries")
           = MapThenSumSet(LAMBDA id : Cardinality(DOMAIN catalogue[id].extras), There(catalogue))
    BY <1>8 DEF Figure, Figures
  <2>2. QED
    BY <2>1, EntriesFacts
<1>9. CASE n = 9
  <2>1. {id \in There(catalogue) : catalogue[id].extras = <<>>} = In(catalogue, NoExtras)
    BY ClassesCounted, Zenon
  <2>2. Figure("bare") = HowMany(catalogue, NoExtras)
    BY <2>1 DEF Figure, HowMany
  <2>3. QED
    BY <1>9, <2>2 DEF Figures, Facts
<1>10. CASE n = 10
  <2>1. {id \in There(catalogue) : Listed(id)} = In(catalogue, HasListPrice)
    BY ClassesCounted, Zenon
  <2>2. Figure("listed") = HowMany(catalogue, HasListPrice)
    BY <2>1 DEF Figure, HowMany
  <2>3. QED
    BY <1>10, <2>2 DEF Figures, Facts
<1>11. CASE n = 11
  <2>1. {id \in There(catalogue) : catalogue[id].motorcycle.price = NULL /\ ~Listed(id)}
        = In(catalogue, NoPriceAtAll)
    BY ClassesCounted, Zenon
  <2>2. Figure("unpriced") = HowMany(catalogue, NoPriceAtAll)
    BY <2>1 DEF Figure, HowMany
  <2>3. QED
    BY <1>11, <2>2 DEF Figures, Facts
<1>12. QED
  BY <1>1, <1>2, <1>3, <1>4, <1>5, <1>6, <1>7, <1>8, <1>9, <1>10, <1>11

------------------------------------------------------------------------------
(* The dashboard *)

\* The first n figures are each of an instant of the request, none of an earlier one than the
\* figure before it.
Monotone(at, n) == \A i, j \in 1..n : i <= j => at[i] <= at[j]
FiguresAt(figures, at, n) ==
    /\ Monotone(at, n)
    /\ \A i \in 1..n : at[i] \in DOMAIN past /\ Facts(Figures[i], figures[Figures[i]], past[at[i]])
OfInstants(figures, n) == \E at \in [1..n -> DOMAIN past] : FiguresAt(figures, at, n)
FirstFigures(figures, n) == DOMAIN figures = {Figures[i] : i \in 1..n}
Gathered ==
    pc = "figures" =>
        \E n \in 0..10 : /\ Cardinality(DOMAIN draft) = n /\ IsFiniteSet(DOMAIN draft)
                         /\ FirstFigures(draft, n) /\ OfInstants(draft, n)

LEMMA FiguresDiffer == \A i, j \in 1..11 : Figures[i] = Figures[j] => i = j
BY DEF Figures

\* What was true of the instants there were stays true.
LEMMA OfInstantsStays ==
    ASSUME Based, past' = Append(past, catalogue'), NEW figures, NEW n \in 0..10, OfInstants(figures, n)
    PROVE  OfInstants(figures, n)'
<1>1. /\ DOMAIN past = 1..Len(past) /\ DOMAIN past' = 1..Len(past')
      /\ \A k \in 1..Len(past) : k \in 1..Len(past') /\ past'[k] = past[k]
  BY CommitsAppend
<1>2. PICK at \in [1..n -> DOMAIN past] : FiguresAt(figures, at, n)
  BY DEF OfInstants
<1>3. at \in [1..n -> DOMAIN past']
  BY <1>1
<1>4. Monotone(at, n)
  BY <1>2 DEF FiguresAt
<1>5. ASSUME NEW i \in 1..n
      PROVE  at[i] \in DOMAIN past' /\ Facts(Figures[i], figures[Figures[i]], past'[at[i]])
  <2>1. at[i] \in DOMAIN past /\ Facts(Figures[i], figures[Figures[i]], past[at[i]])
    BY <1>2 DEF FiguresAt
  <2>2. past'[at[i]] = past[at[i]] /\ at[i] \in DOMAIN past'
    BY <1>1, <2>1
  <2>3. QED
    BY <2>1, <2>2
<1>6. FiguresAt(figures, at, n)'
  BY <1>4, <1>5 DEF FiguresAt
<1>7. QED
  BY <1>3, <1>6 DEF OfInstants

\* The next figure is of the present instant.
LEMMA FigureRead ==
    ASSUME Based, pc = "figures", NEW n \in 0..10, NEW figures, FirstFigures(figures, n),
           OfInstants(figures, n), NEW next,
           next = [name \in DOMAIN figures \cup {Figures[n + 1]} |->
                      IF name = Figures[n + 1] THEN Figure(name) ELSE figures[name]]
    PROVE  FirstFigures(next, n + 1) /\ OfInstants(next, n + 1) /\ Figures[n + 1] \notin DOMAIN figures
<1>1. n + 1 \in 1..11 /\ 1..n + 1 = (1..n) \cup {n + 1} /\ n + 1 \notin 1..n /\ 1..n \subseteq 1..11
  OBVIOUS
<1>2. Figures[n + 1] \notin DOMAIN figures
  BY <1>1, FiguresDiffer DEF FirstFigures
<1>3. DOMAIN next = {Figures[i] : i \in 1..n + 1}
  <2>1. DOMAIN next = DOMAIN figures \cup {Figures[n + 1]}
    OBVIOUS
  <2>2. QED
    BY <1>1, <2>1 DEF FirstFigures
<1>4. \A i \in 1..n : next[Figures[i]] = figures[Figures[i]]
  BY <1>1, <1>2 DEF FirstFigures
<1>5. next[Figures[n + 1]] = Figure(Figures[n + 1])
  OBVIOUS
<1>6. PICK at \in [1..n -> DOMAIN past] : FiguresAt(figures, at, n)
  BY DEF OfInstants
<1>7. PICK now : /\ now = Len(past) /\ now \in Nat /\ DOMAIN past = 1..now /\ now \in DOMAIN past
                 /\ past[now] = catalogue
  BY LastIsPresent
<1>8. PICK then : then = [i \in 1..n + 1 |-> IF i = n + 1 THEN now ELSE at[i]]
  OBVIOUS
<1>9. then \in [1..n + 1 -> DOMAIN past] /\ then[n + 1] = now /\ \A i \in 1..n : then[i] = at[i]
  BY <1>1, <1>7, <1>8
<1>10. Monotone(then, n + 1)
  <2> SUFFICES ASSUME NEW i \in 1..n + 1, NEW j \in 1..n + 1, i <= j PROVE then[i] <= then[j]
    BY DEF Monotone
  <2>1. CASE j = n + 1
    <3>1. then[i] \in 1..now
      BY <1>7, <1>9
    <3>2. QED
      BY <1>7, <1>9, <2>1, <3>1
  <2>2. CASE j # n + 1
    <3>1. i \in 1..n /\ j \in 1..n
      BY <2>2
    <3>2. QED
      BY <1>6, <1>9, <3>1 DEF FiguresAt, Monotone
  <2>3. QED
    BY <2>1, <2>2
<1>11. ASSUME NEW i \in 1..n + 1
       PROVE  then[i] \in DOMAIN past /\ Facts(Figures[i], next[Figures[i]], past[then[i]])
  <2>1. CASE i = n + 1
    <3>1. Facts(Figures[n + 1], Figure(Figures[n + 1]), catalogue)
      BY <1>1, FigureFacts
    <3>2. QED
      BY <1>5, <1>7, <1>9, <2>1, <3>1
  <2>2. CASE i # n + 1
    <3>1. i \in 1..n
      BY <2>2
    <3>2. at[i] \in DOMAIN past /\ Facts(Figures[i], figures[Figures[i]], past[at[i]])
      BY <1>6, <3>1 DEF FiguresAt
    <3>3. QED
      BY <1>4, <1>9, <3>1, <3>2
  <2>3. QED
    BY <2>1, <2>2
<1>12. FiguresAt(next, then, n + 1)
  BY <1>10, <1>11 DEF FiguresAt
<1>13. QED
  BY <1>2, <1>3, <1>9, <1>12 DEF FirstFigures, OfInstants

LEMMA CountedStays ==
    ASSUME Based, Gathered, [Next]_vars
    PROVE  Gathered'
<1>1. CASE Writing
  <2>1. PICK id \in Ids, v \in Versions \cup {Absent} :
            /\ catalogue' = [catalogue EXCEPT ![id] = v]
            /\ past' = IF pc = "idle" THEN past ELSE Append(past, catalogue')
            /\ UNCHANGED <<pc, draft, answer, requests>>
    BY <1>1, WritingEffect
  <2>2. CASE pc = "figures"
    <3>1. PICK n \in 0..10 : /\ Cardinality(DOMAIN draft) = n /\ IsFiniteSet(DOMAIN draft)
                             /\ FirstFigures(draft, n) /\ OfInstants(draft, n)
      BY <2>2 DEF Gathered
    <3>2. PICK figures : figures = draft
      OBVIOUS
    <3>3. draft' = figures
      BY <2>1, <3>2
    <3>4. OfInstants(figures, n)'
      <4>1. past' = Append(past, catalogue') /\ OfInstants(figures, n)
        BY <2>1, <2>2, <3>1, <3>2
      <4>2. QED
        BY <4>1, OfInstantsStays
    <3>5. OfInstants(draft, n)' /\ FirstFigures(draft, n)'
      BY <3>1, <3>2, <3>3, <3>4
    <3>6. QED
      BY <3>1, <3>2, <3>3, <3>5 DEF Gathered
  <2>3. QED
    BY <2>1, <2>2 DEF Gathered
<1>2. CASE GetStats
  <2>1. draft' = <<>> /\ past' = <<catalogue>>
    BY <1>2 DEF GetStats, Begin, NoDraft
  <2>2. DOMAIN draft' = {} /\ Cardinality({}) = 0 /\ IsFiniteSet({})
    BY <2>1, FS_EmptySet
  <2>3. FirstFigures(draft, 0)'
    BY <2>2 DEF FirstFigures
  <2>4. OfInstants(draft, 0)'
    <3>1. PICK at : at = [i \in 1..0 |-> 1]
      OBVIOUS
    <3>2. at \in [1..0 -> DOMAIN past']
      BY <3>1
    <3>3. FiguresAt(draft, at, 0)'
      BY DEF FiguresAt, Monotone
    <3>4. QED
      BY <3>2, <3>3 DEF OfInstants
  <2>5. QED
    BY <2>2, <2>3, <2>4 DEF Gathered
<1>3. CASE ReadFigure
  <2>1. pc = "figures"
    BY <1>3 DEF ReadFigure
  <2>2. PICK n \in 0..10 : /\ Cardinality(DOMAIN draft) = n /\ IsFiniteSet(DOMAIN draft)
                           /\ FirstFigures(draft, n) /\ OfInstants(draft, n)
    BY <2>1 DEF Gathered
  <2>3. PICK next : next = [name \in DOMAIN draft \cup {Figures[n + 1]} |->
                               IF name = Figures[n + 1] THEN Figure(name) ELSE draft[name]]
    OBVIOUS
  <2>4. IF n + 1 < 11 THEN Goes("figures", next)
        ELSE Answer([status |-> 200, kind |-> "figures", figures |-> next])
    BY <1>3, <2>2, <2>3, FiguresAre DEF ReadFigure
  <2>5. CASE n + 1 < 11
    <3>1. draft' = next /\ UNCHANGED past
      BY <2>4, <2>5 DEF Goes
    <3>2. FirstFigures(next, n + 1) /\ OfInstants(next, n + 1) /\ Figures[n + 1] \notin DOMAIN draft
      <4>1. PICK figures : figures = draft
        OBVIOUS
      <4>2. FirstFigures(figures, n) /\ OfInstants(figures, n)
        BY <2>2, <4>1
      <4>3. next = [name \in DOMAIN figures \cup {Figures[n + 1]} |->
                       IF name = Figures[n + 1] THEN Figure(name) ELSE figures[name]]
        BY <2>3, <4>1
      <4>4. QED
        BY <2>1, <4>1, <4>2, <4>3, FigureRead
    <3>3. PICK names, name : names = DOMAIN draft /\ name = Figures[n + 1] /\ DOMAIN next = names \cup {name}
      BY <2>3
    <3>4. IsFiniteSet(DOMAIN next) /\ Cardinality(DOMAIN next) = n + 1
      <4>1. IsFiniteSet(names \cup {name}) /\ Cardinality(names \cup {name}) = Cardinality(names) + 1
        BY <2>2, <3>2, <3>3, FS_AddElement
      <4>2. QED
        BY <2>2, <3>3, <4>1
    <3>5. n + 1 \in 0..10
      BY <2>5
    <3>6. OfInstants(draft, n + 1)' /\ FirstFigures(draft, n + 1)'
      <4>1. OfInstants(next, n + 1)'
        BY <3>1, <3>2 DEF OfInstants, FiguresAt
      <4>2. QED
        BY <3>1, <3>2, <4>1
    <3>7. QED
      BY <3>1, <3>4, <3>5, <3>6 DEF Gathered
  <2>6. CASE ~(n + 1 < 11)
    <3>1. pc' = "idle"
      BY <2>4, <2>6 DEF Answer
    <3>2. QED
      BY <3>1 DEF Gathered
  <2>7. QED
    BY <2>5, <2>6
<1>4. CASE pc' # "figures"
  BY <1>4 DEF Gathered
<1>5. CASE Quiet \/ UNCHANGED vars
  <2>1. UNCHANGED <<pc, draft, past>>
    BY <1>5 DEF Quiet, vars
  <2>2. ASSUME NEW n, OfInstants(draft, n) PROVE OfInstants(draft, n)'
    BY <2>1, <2>2 DEF OfInstants, FiguresAt
  <2>3. ASSUME NEW n, FirstFigures(draft, n) PROVE FirstFigures(draft, n)'
    BY <2>1, <2>3 DEF FirstFigures
  <2>4. QED
    BY <2>1, <2>2, <2>3 DEF Gathered
<1>6. CASE Comparing \/ Searching
  <2>1. pc' # "figures"
    <3>1. CASE Comparing
      BY <3>1 DEF Comparing, Compare, ReadRows, ReadExtras, Begin, Goes, Answer
    <3>2. CASE Searching
      BY <3>2 DEF Searching, Search, ReadPage, ReadCount, LoadBlocks, AnswerPage, Get, ReadBike, ReadRest,
                  Begin, Goes, Answer
    <3>3. QED
      BY <1>6, <3>1, <3>2
  <2>2. QED
    BY <1>4, <2>1
<1>7. QED
  BY <1>1, <1>2, <1>3, <1>5, <1>6 DEF Next, Counting

\* As many bikes of a class as at another instant, give or take the writes between.
Apart(at, i, j, class) ==
    /\ at[i] <= at[j]
    /\ HowMany(past[at[j]], class) + at[i] <= HowMany(past[at[i]], class) + at[j]
    /\ HowMany(past[at[i]], class) + at[i] <= HowMany(past[at[j]], class) + at[j]
LEMMA DriftsOf ==
    ASSUME Based, Drifts, NEW n \in 1..11, NEW at \in [1..n -> DOMAIN past], Monotone(at, n),
           NEW i \in 1..n, NEW j \in 1..n, i <= j, NEW class \in SUBSET Versions
    PROVE  Apart(at, i, j, class)
<1>1. at[i] \in DOMAIN past /\ at[j] \in DOMAIN past /\ at[i] <= at[j]
  BY DEF Monotone
<1>2. PICK x \in Nat, y \in Nat : x = at[i] /\ y = at[j]
  <2>1. DOMAIN past = 1..Len(past)
    BY DEF Based
  <2>2. at[i] \in Nat /\ at[j] \in Nat
    BY <1>1, <2>1
  <2>3. QED
    BY <2>2
<1>3. PICK a \in Nat, b \in Nat : a = HowMany(past[x], class) /\ b = HowMany(past[y], class)
  BY HowManyIs
<1>4. b <= a + (y - x) /\ a <= b + (y - x)
  BY <1>1, <1>2, <1>3 DEF Drifts
<1>5. b + x <= a + y /\ a + x <= b + y
  BY <1>4
<1>6. QED
  BY <1>1, <1>2, <1>3, <1>5 DEF Apart

LEMMA ClassesParted ==
    ASSUME NEW table
    PROVE  /\ HowMany(table, Versions) = HowMany(table, NoPrice) + HowMany(table, HasPrice)
           /\ HowMany(table, Versions) = HowMany(table, NoEngine) + HowMany(table, HasEngine)
           /\ HowMany(table, Versions) = HowMany(table, NoDimension) + HowMany(table, HasDimension)
           /\ HowMany(table, NoPower) <= HowMany(table, HasEngine)
           /\ HowMany(table, NoPriceAtAll) <= HowMany(table, NoPrice)
           /\ HowMany(table, NoPrice) <= HowMany(table, NoPriceAtAll) + HowMany(table, HasListPrice)
           /\ HowMany(table, NoExtras) + HowMany(table, HasListPrice) <= HowMany(table, Versions)
<1>1. HowMany(table, Versions) = HowMany(table, NoPrice) + HowMany(table, HasPrice)
  <2>1. Versions = NoPrice \cup HasPrice /\ NoPrice \cap HasPrice = {}
    BY DEF NoPrice, HasPrice
  <2>2. QED
    BY <2>1, HowManyParted
<1>2. HowMany(table, Versions) = HowMany(table, NoEngine) + HowMany(table, HasEngine)
  <2>1. Versions = NoEngine \cup HasEngine /\ NoEngine \cap HasEngine = {}
    BY DEF NoEngine, HasEngine
  <2>2. QED
    BY <2>1, HowManyParted
<1>3. HowMany(table, Versions) = HowMany(table, NoDimension) + HowMany(table, HasDimension)
  <2>1. Versions = NoDimension \cup HasDimension /\ NoDimension \cap HasDimension = {}
    BY DEF NoDimension, HasDimension
  <2>2. QED
    BY <2>1, HowManyParted
<1>4. ASSUME NEW class, NEW wider, class \subseteq wider PROVE HowMany(table, class) <= HowMany(table, wider)
  <2>1. In(table, class) \in SUBSET In(table, wider)
    BY <1>4 DEF In
  <2>2. QED
    BY <2>1, HowManyIs, FS_Subset DEF HowMany
<1>5. HowMany(table, NoPower) <= HowMany(table, HasEngine)
  <2>1. NoPower \subseteq HasEngine
    BY DEF NoPower, HasEngine
  <2>2. QED
    BY <1>4, <2>1
<1>6. HowMany(table, NoPriceAtAll) <= HowMany(table, NoPrice)
  <2>1. NoPriceAtAll \subseteq NoPrice
    BY DEF NoPriceAtAll, NoPrice
  <2>2. QED
    BY <1>4, <2>1
<1>7. HowMany(table, NoPrice) <= HowMany(table, NoPriceAtAll) + HowMany(table, HasListPrice)
  <2>1. NoPrice \subseteq NoPriceAtAll \cup HasListPrice
    BY DEF NoPrice, NoPriceAtAll, HasListPrice
  <2>2. QED
    BY <2>1, HowManyWithin
<1>8. HowMany(table, NoExtras) + HowMany(table, HasListPrice) <= HowMany(table, Versions)
  <2>1. NoExtras \cap HasListPrice = {}
    <3>1. DOMAIN <<>> = {}
      OBVIOUS
    <3>2. QED
      BY <3>1 DEF NoExtras, HasListPrice
  <2>2. PICK both : both = NoExtras \cup HasListPrice
    OBVIOUS
  <2>3. HowMany(table, both) = HowMany(table, NoExtras) + HowMany(table, HasListPrice)
    BY <2>1, <2>2, HowManyParted
  <2>4. HowMany(table, both) <= HowMany(table, Versions)
    <3>1. both \subseteq Versions
      BY <2>2 DEF NoExtras, HasListPrice
    <3>2. QED
      BY <1>4, <3>1
  <2>5. QED
    BY <2>3, <2>4
<1>9. QED
  BY <1>1, <1>2, <1>3, <1>5, <1>6, <1>7, <1>8

\* Figures that differ by no more than drift, as the property has them.
Agree(f, drift) ==
    /\ NULL \notin {f.gaps.price, f.gaps.engine, f.gaps.dimension, f.powerGaps}
    /\ LET sum == MapThenSumSet(LAMBDA b : f.brands[b], DOMAIN f.brands)
       IN  f.total <= sum + drift /\ sum <= f.total + drift
    /\ f.total <= f.gaps.engine + f.engines + drift /\ f.gaps.engine + f.engines <= f.total + drift
    /\ f.total <= f.gaps.dimension + f.dimensions + drift
    /\ f.gaps.dimension + f.dimensions <= f.total + drift
    /\ f.total <= f.gaps.price + f.prices.count + drift
    /\ f.gaps.price + f.prices.count <= f.total + drift
    /\ f.powerGaps <= f.engines + drift
    /\ f.unpriced <= f.gaps.price + drift
    /\ f.gaps.price <= f.unpriced + f.listed + drift
    /\ f.bare + f.listed <= f.total + drift
    /\ f.total <= f.bare + f.entries + drift
    /\ f.prices.count = 0 <=> f.prices.avg = NULL
    /\ f.prices.count > 0 => f.prices.min <= f.prices.avg /\ f.prices.avg <= f.prices.max

\* Figures of instants that follow one another are at odds by no more than the writes between.
LEMMA FiguresNear ==
    ASSUME Based, Drifts, NEW f, NEW at \in [1..11 -> DOMAIN past], FiguresAt(f, at, 11),
           NEW drift \in Nat, drift + 1 = Len(past)
    PROVE  Agree(f, drift)
<1>1. \A i \in 1..11 : at[i] \in DOMAIN past /\ Facts(Figures[i], f[Figures[i]], past[at[i]])
  BY DEF FiguresAt
<1>2. /\ Facts("gaps", f.gaps, past[at[1]]) /\ Facts("total", f.total, past[at[2]])
      /\ Facts("brands", f.brands, past[at[3]]) /\ Facts("prices", f.prices, past[at[4]])
      /\ Facts("engines", f.engines, past[at[5]]) /\ Facts("powerGaps", f.powerGaps, past[at[6]])
      /\ Facts("dimensions", f.dimensions, past[at[7]]) /\ Facts("entries", f.entries, past[at[8]])
      /\ Facts("bare", f.bare, past[at[9]]) /\ Facts("listed", f.listed, past[at[10]])
      /\ Facts("unpriced", f.unpriced, past[at[11]])
  BY <1>1 DEF Figures
<1>3. /\ f.gaps.price = HowMany(past[at[1]], NoPrice)
      /\ f.gaps.engine = HowMany(past[at[1]], NoEngine)
      /\ f.gaps.dimension = HowMany(past[at[1]], NoDimension)
  BY <1>2 DEF Facts
<1>4. f.total = HowMany(past[at[2]], Versions)
  BY <1>2 DEF Facts
<1>5. MapThenSumSet(LAMBDA b : f.brands[b], DOMAIN f.brands) = HowMany(past[at[3]], Versions)
  <2>1. PICK brands, table : brands = f.brands /\ table = past[at[3]]
    OBVIOUS
  <2>2. MapThenSumSet(LAMBDA b : brands[b], DOMAIN brands) = HowMany(table, Versions)
    BY <1>2, <2>1 DEF Facts
  <2>3. QED
    BY <2>1, <2>2
<1>6. /\ f.prices.count = HowMany(past[at[4]], HasPrice)
      /\ f.prices.count = 0 <=> f.prices.avg = NULL
      /\ f.prices.count > 0 => f.prices.min <= f.prices.avg /\ f.prices.avg <= f.prices.max
  BY <1>2 DEF Facts
<1>7. f.engines = HowMany(past[at[5]], HasEngine) /\ f.powerGaps = HowMany(past[at[6]], NoPower)
      /\ f.dimensions = HowMany(past[at[7]], HasDimension)
  BY <1>2 DEF Facts
<1>8. f.entries \in Nat /\ HowMany(past[at[8]], Versions) <= HowMany(past[at[8]], NoExtras) + f.entries
  BY <1>2 DEF Facts
<1>9. f.bare = HowMany(past[at[9]], NoExtras) /\ f.listed = HowMany(past[at[10]], HasListPrice)
      /\ f.unpriced = HowMany(past[at[11]], NoPriceAtAll)
  BY <1>2 DEF Facts
<1>10. PICK len \in Nat : len = Len(past) /\ len = drift + 1 /\ DOMAIN past = 1..len
  <2>1. DOMAIN past = 1..Len(past)
    BY DEF Based
  <2>2. PICK len \in Nat : len = drift + 1
    OBVIOUS
  <2>3. len = Len(past)
    BY <2>2
  <2>4. QED
    BY <2>1, <2>2, <2>3
<1>11. ASSUME NEW i \in 1..11 PROVE \E x \in Nat : x = at[i] /\ 1 <= x /\ x <= len
  <2>1. at[i] \in 1..len
    BY <1>1, <1>10
  <2>2. PICK x \in 1..len : x = at[i]
    BY <2>1
  <2>3. x \in Nat /\ 1 <= x /\ x <= len
    OBVIOUS
  <2>4. QED
    BY <2>2, <2>3
<1>12. ASSUME NEW i \in 1..11, NEW j \in 1..11, i <= j, NEW class \in SUBSET Versions
       PROVE  Apart(at, i, j, class)
  <2>1. Monotone(at, 11) /\ 11 \in 1..11
    BY DEF FiguresAt
  <2>2. QED
    BY <1>12, <2>1, DriftsOf
<1>13. \A table, class : \E n \in Nat : n = HowMany(table, class)
  BY HowManyIs
<1>14. /\ NoPrice \in SUBSET Versions /\ NoEngine \in SUBSET Versions /\ NoDimension \in SUBSET Versions
       /\ HasEngine \in SUBSET Versions /\ HasDimension \in SUBSET Versions /\ HasPrice \in SUBSET Versions
       /\ NoExtras \in SUBSET Versions /\ HasListPrice \in SUBSET Versions
       /\ NoPriceAtAll \in SUBSET Versions /\ Versions \in SUBSET Versions
  BY DEF NoPrice, NoEngine, NoDimension, HasEngine, HasDimension, HasPrice, NoExtras, HasListPrice, NoPriceAtAll
<1>15. NULL \notin {f.gaps.price, f.gaps.engine, f.gaps.dimension, f.powerGaps}
  <2>1. f.gaps.price \in Nat /\ f.gaps.engine \in Nat /\ f.gaps.dimension \in Nat /\ f.powerGaps \in Nat
    BY <1>3, <1>7, HowManyIs
  <2>2. QED
    BY <2>1, ColumnAssumption
\* Every bike is of the first class or of the rest: one is counted by the first query, the other by a
\* later one, and all by the second.
<1>16. ASSUME NEW i \in 2..11, NEW first \in SUBSET Versions, NEW rest \in SUBSET Versions,
              HowMany(past[at[2]], Versions) = HowMany(past[at[2]], first) + HowMany(past[at[2]], rest),
              NEW a \in Nat, NEW d \in Nat, NEW e \in Nat, a = HowMany(past[at[1]], first),
              d = HowMany(past[at[i]], rest), e = HowMany(past[at[2]], Versions)
       PROVE  e <= a + d + drift /\ a + d <= e + drift
  <2>1. PICK b \in Nat, c \in Nat : b = HowMany(past[at[2]], first) /\ c = HowMany(past[at[2]], rest)
    BY <1>13
  <2>2. 1 \in 1..11 /\ 2 \in 1..11 /\ i \in 1..11 /\ 1 <= 2 /\ 2 <= i
    OBVIOUS
  <2>3. PICK x \in Nat : x = at[1] /\ 1 <= x /\ x <= len
    BY <1>11, <2>2
  <2>4. PICK y \in Nat : y = at[2] /\ 1 <= y /\ y <= len
    BY <1>11, <2>2
  <2>5. PICK z \in Nat : z = at[i] /\ 1 <= z /\ z <= len
    BY <1>11, <2>2
  <2>6. Apart(at, 1, 2, first) /\ Apart(at, 2, i, rest)
    BY <1>12, <2>2
  <2>7. b + x <= a + y /\ a + x <= b + y /\ d + y <= c + z /\ c + y <= d + z
    BY <1>16, <2>1, <2>3, <2>4, <2>5, <2>6 DEF Apart
  <2>8. e = b + c
    BY <1>16, <2>1
  <2>9. 1 <= x /\ z <= drift + 1
    BY <1>10, <2>3, <2>5
  <2>10. QED
    BY <2>7, <2>8, <2>9
<1>17. f.total <= f.gaps.engine + f.engines + drift /\ f.gaps.engine + f.engines <= f.total + drift
  <2>1. PICK a \in Nat, d \in Nat, e \in Nat :
            /\ a = HowMany(past[at[1]], NoEngine) /\ d = HowMany(past[at[5]], HasEngine)
            /\ e = HowMany(past[at[2]], Versions)
    BY <1>13
  <2>2. e <= a + d + drift /\ a + d <= e + drift
    <3>1. HowMany(past[at[2]], Versions) = HowMany(past[at[2]], NoEngine) + HowMany(past[at[2]], HasEngine)
      BY ClassesParted
    <3>2. 5 \in 2..11
      OBVIOUS
    <3>3. QED
      BY <1>14, <1>16, <2>1, <3>1, <3>2
  <2>3. QED
    BY <1>3, <1>4, <1>7, <2>1, <2>2
<1>18. /\ f.total <= f.gaps.dimension + f.dimensions + drift
       /\ f.gaps.dimension + f.dimensions <= f.total + drift
  <2>1. PICK a \in Nat, d \in Nat, e \in Nat :
            /\ a = HowMany(past[at[1]], NoDimension) /\ d = HowMany(past[at[7]], HasDimension)
            /\ e = HowMany(past[at[2]], Versions)
    BY <1>13
  <2>2. e <= a + d + drift /\ a + d <= e + drift
    <3>1. HowMany(past[at[2]], Versions) = HowMany(past[at[2]], NoDimension) + HowMany(past[at[2]], HasDimension)
      BY ClassesParted
    <3>2. 7 \in 2..11
      OBVIOUS
    <3>3. QED
      BY <1>14, <1>16, <2>1, <3>1, <3>2
  <2>3. QED
    BY <1>3, <1>4, <1>7, <2>1, <2>2
<1>19. /\ f.total <= f.gaps.price + f.prices.count + drift
       /\ f.gaps.price + f.prices.count <= f.total + drift
  <2>1. PICK a \in Nat, d \in Nat, e \in Nat :
            /\ a = HowMany(past[at[1]], NoPrice) /\ d = HowMany(past[at[4]], HasPrice)
            /\ e = HowMany(past[at[2]], Versions)
    BY <1>13
  <2>2. e <= a + d + drift /\ a + d <= e + drift
    <3>1. HowMany(past[at[2]], Versions) = HowMany(past[at[2]], NoPrice) + HowMany(past[at[2]], HasPrice)
      BY ClassesParted
    <3>2. 4 \in 2..11
      OBVIOUS
    <3>3. QED
      BY <1>14, <1>16, <2>1, <3>1, <3>2
  <2>3. QED
    BY <1>3, <1>4, <1>6, <2>1, <2>2
<1>20. ASSUME NEW i \in 1..11, NEW j \in 1..11, i <= j, NEW class \in SUBSET Versions,
              NEW a \in Nat, NEW b \in Nat, a = HowMany(past[at[i]], class), b = HowMany(past[at[j]], class)
       PROVE  b <= a + drift /\ a <= b + drift
  <2>1. PICK x \in Nat : x = at[i] /\ 1 <= x /\ x <= len
    BY <1>11
  <2>2. PICK y \in Nat : y = at[j] /\ 1 <= y /\ y <= len
    BY <1>11
  <2>3. Apart(at, i, j, class)
    BY <1>12, <1>20
  <2>4. b + x <= a + y /\ a + x <= b + y
    BY <1>20, <2>1, <2>2, <2>3 DEF Apart
  <2>5. 1 <= x /\ y <= drift + 1
    BY <1>10, <2>1, <2>2
  <2>6. QED
    BY <2>4, <2>5
<1>21. LET sum == MapThenSumSet(LAMBDA b : f.brands[b], DOMAIN f.brands)
       IN  f.total <= sum + drift /\ sum <= f.total + drift
  <2>1. PICK a \in Nat, sum \in Nat :
            a = HowMany(past[at[2]], Versions) /\ sum = HowMany(past[at[3]], Versions)
    BY <1>13
  <2>2. a <= sum + drift /\ sum <= a + drift
    <3>1. 2 \in 1..11 /\ 3 \in 1..11 /\ 2 <= 3
      OBVIOUS
    <3>2. QED
      BY <1>14, <1>20, <2>1, <3>1
  <2>3. f.total = a /\ MapThenSumSet(LAMBDA b : f.brands[b], DOMAIN f.brands) = sum
    BY <1>4, <1>5, <2>1
  <2>4. QED
    BY <2>2, <2>3
<1>22. f.powerGaps <= f.engines + drift
  <2>1. PICK a \in Nat, b \in Nat, c \in Nat :
            /\ a = HowMany(past[at[6]], NoPower) /\ b = HowMany(past[at[6]], HasEngine)
            /\ c = HowMany(past[at[5]], HasEngine)
    BY <1>13
  <2>2. a <= b
    BY <2>1, ClassesParted
  <2>3. b <= c + drift
    <3>1. 5 \in 1..11 /\ 6 \in 1..11 /\ 5 <= 6
      OBVIOUS
    <3>2. QED
      BY <1>14, <1>20, <2>1, <3>1
  <2>4. a <= c + drift
    BY <2>2, <2>3
  <2>5. QED
    BY <1>7, <2>1, <2>4
<1>23. f.unpriced <= f.gaps.price + drift
  <2>1. PICK a \in Nat, b \in Nat, c \in Nat :
            /\ a = HowMany(past[at[11]], NoPriceAtAll) /\ b = HowMany(past[at[11]], NoPrice)
            /\ c = HowMany(past[at[1]], NoPrice)
    BY <1>13
  <2>2. a <= b
    BY <2>1, ClassesParted
  <2>3. b <= c + drift
    <3>1. 1 \in 1..11 /\ 11 \in 1..11 /\ 1 <= 11
      OBVIOUS
    <3>2. QED
      BY <1>14, <1>20, <2>1, <3>1
  <2>4. a <= c + drift
    BY <2>2, <2>3
  <2>5. QED
    BY <1>3, <1>9, <2>1, <2>4
<1>24. PICK x \in Nat, o \in Nat, u \in Nat, y \in Nat, z \in Nat, w \in Nat :
           /\ x = at[1] /\ o = at[2] /\ u = at[8] /\ y = at[9] /\ z = at[10] /\ w = at[11]
           /\ 1 <= x /\ x <= o /\ o <= u /\ u <= y /\ y <= z /\ z <= w /\ w <= drift + 1
  <2>1. /\ Apart(at, 1, 2, Versions) /\ Apart(at, 2, 8, Versions) /\ Apart(at, 8, 9, Versions)
        /\ Apart(at, 9, 10, Versions) /\ Apart(at, 10, 11, Versions)
    BY <1>12, <1>14
  <2>2. at[1] <= at[2] /\ at[2] <= at[8] /\ at[8] <= at[9] /\ at[9] <= at[10] /\ at[10] <= at[11]
    BY <2>1 DEF Apart
  <2>3. PICK x \in Nat : x = at[1] /\ 1 <= x /\ x <= len
    BY <1>11
  <2>4. PICK o \in Nat : o = at[2] /\ 1 <= o /\ o <= len
    BY <1>11
  <2>5. PICK u \in Nat : u = at[8] /\ 1 <= u /\ u <= len
    BY <1>11
  <2>6. PICK y \in Nat : y = at[9] /\ 1 <= y /\ y <= len
    BY <1>11
  <2>7. PICK z \in Nat : z = at[10] /\ 1 <= z /\ z <= len
    BY <1>11
  <2>8. PICK w \in Nat : w = at[11] /\ 1 <= w /\ w <= len
    BY <1>11
  <2>9. x <= o /\ o <= u /\ u <= y /\ y <= z /\ z <= w /\ w <= drift + 1
    BY <1>10, <2>2, <2>3, <2>4, <2>5, <2>6, <2>7, <2>8
  <2>10. QED
    BY <2>3, <2>4, <2>5, <2>6, <2>7, <2>8, <2>9
<1>25. 1 <= x /\ x <= o /\ o <= u /\ u <= y /\ y <= z /\ z <= w /\ w <= drift + 1
  BY <1>24
<1>26. f.gaps.price <= f.unpriced + f.listed + drift
  <2>1. PICK a \in Nat, b \in Nat, c \in Nat, d \in Nat, e \in Nat :
            /\ a = HowMany(past[at[1]], NoPrice) /\ b = HowMany(past[at[10]], NoPrice)
            /\ c = HowMany(past[at[10]], NoPriceAtAll) /\ d = HowMany(past[at[10]], HasListPrice)
            /\ e = HowMany(past[at[11]], NoPriceAtAll)
    BY <1>13
  <2>2. Apart(at, 1, 10, NoPrice) /\ Apart(at, 10, 11, NoPriceAtAll)
    BY <1>12, <1>14
  <2>3. a + x <= b + z /\ c + z <= e + w
    BY <1>24, <2>1, <2>2 DEF Apart
  <2>4. b <= c + d
    BY <2>1, ClassesParted
  <2>5. a <= e + d + drift
    BY <1>25, <2>3, <2>4
  <2>6. QED
    BY <1>3, <1>9, <2>1, <2>5
<1>27. f.bare + f.listed <= f.total + drift
  <2>1. PICK a \in Nat, b \in Nat, c \in Nat, d \in Nat, e \in Nat :
            /\ a = HowMany(past[at[9]], NoExtras) /\ b = HowMany(past[at[10]], HasListPrice)
            /\ c = HowMany(past[at[9]], HasListPrice) /\ d = HowMany(past[at[9]], Versions)
            /\ e = HowMany(past[at[2]], Versions)
    BY <1>13
  <2>2. Apart(at, 9, 10, HasListPrice) /\ Apart(at, 2, 9, Versions)
    BY <1>12, <1>14
  <2>3. b + y <= c + z /\ d + o <= e + y
    BY <1>24, <2>1, <2>2 DEF Apart
  <2>4. a + c <= d
    BY <2>1, ClassesParted
  <2>5. a + b <= e + drift
    BY <1>25, <2>3, <2>4
  <2>6. QED
    BY <1>4, <1>9, <2>1, <2>5
<1>28. f.total <= f.bare + f.entries + drift
  <2>1. PICK a \in Nat, b \in Nat, c \in Nat, d \in Nat, e \in Nat :
            /\ a = HowMany(past[at[2]], Versions) /\ b = HowMany(past[at[8]], Versions)
            /\ c = HowMany(past[at[8]], NoExtras) /\ d = f.entries
            /\ e = HowMany(past[at[9]], NoExtras)
    BY <1>8, <1>13
  <2>2. Apart(at, 2, 8, Versions) /\ Apart(at, 8, 9, NoExtras)
    BY <1>12, <1>14
  <2>3. a + o <= b + u /\ c + u <= e + y
    BY <1>24, <2>1, <2>2 DEF Apart
  <2>4. b <= c + d
    BY <1>8, <2>1
  <2>5. a <= e + d + drift
    BY <1>25, <2>3, <2>4
  <2>6. QED
    BY <1>4, <1>9, <2>1, <2>5
<1>29. QED
  BY <1>6, <1>15, <1>17, <1>18, <1>19, <1>21, <1>22, <1>23, <1>26, <1>27, <1>28 DEF Agree

\* What was shown stays shown; only the last query of the figures shows figures.
LEMMA FigureSteps ==
    ASSUME Based, [Next]_vars
    PROVE  \/ UNCHANGED <<answer, past>>
           \/ answer'.status # 200
           \/ answer'.kind # "figures"
           \/ ReadFigure
<1>1. CASE ReadExtras
  BY <1>1 DEF ReadExtras, Answer, Table
<1>2. CASE ReadRest \/ AnswerPage
  BY <1>2 DEF ReadRest, AnswerPage, Answer
<1>3. CASE Writing
  <2>1. answer' = answer /\ past' = IF pc = "idle" THEN past ELSE Append(past, catalogue')
    BY <1>3, WritingEffect
  <2>2. pc # "idle" => answer'.status = 0
    BY <2>1 DEF Based, NoAnswer
  <2>3. QED
    BY <2>1, <2>2
<1>4. CASE Compare
  BY <1>4 DEF Compare, Begin, NoAnswer, Refused
<1>5. CASE ReadRows
  BY <1>5 DEF ReadRows, Goes, Answer, NotFound
<1>6. CASE Search \/ Get \/ GetStats
  BY <1>6 DEF Search, Get, GetStats, Begin, NoAnswer, Refused
<1>7. CASE ReadPage \/ ReadCount
  BY <1>7 DEF ReadPage, ReadCount, Goes
<1>8. CASE LoadBlocks
  BY <1>8 DEF LoadBlocks, Goes, Answer, Broken
<1>9. CASE ReadBike
  BY <1>9 DEF ReadBike, Goes, Answer
<1>10. CASE Quiet \/ UNCHANGED vars
  BY <1>10 DEF Quiet, vars
<1>11. QED
  BY <1>1, <1>2, <1>3, <1>4, <1>5, <1>6, <1>7, <1>8, <1>9, <1>10
     DEF Next, Comparing, Searching, Counting

LEMMA InitDrifts ==
    ASSUME past = <<catalogue>>
    PROVE  Drifts
<1>1. DOMAIN past = 1..1
  OBVIOUS
<1> SUFFICES ASSUME NEW class \in SUBSET Versions, NEW k \in DOMAIN past, NEW l \in DOMAIN past, k <= l
             PROVE  /\ HowMany(past[l], class) <= HowMany(past[k], class) + (l - k)
                    /\ HowMany(past[k], class) <= HowMany(past[l], class) + (l - k)
  BY DEF Drifts
<1>2. k = 1 /\ l = 1
  BY <1>1
<1>3. PICK n \in Nat : n = HowMany(past[1], class)
  BY HowManyIs
<1>4. n <= n + (1 - 1)
  OBVIOUS
<1>5. QED
  BY <1>2, <1>3, <1>4

LEMMA DriftsStep ==
    ASSUME Based, Drifts, [Next]_vars
    PROVE  Drifts'
<1>1. CASE Writing
  <2>1. PICK id \in Ids, v \in Versions \cup {Absent} :
            /\ catalogue' = [catalogue EXCEPT ![id] = v]
            /\ past' = IF pc = "idle" THEN past ELSE Append(past, catalogue')
    BY <1>1, WritingEffect
  <2>2. CASE pc = "idle"
    BY <2>1, <2>2 DEF Drifts
  <2>3. CASE pc # "idle"
    <3>1. past' = Append(past, catalogue') /\ catalogue = past[Len(past)]
      BY <2>1, <2>3 DEF Based
    <3>2. QED
      BY <2>1, <3>1, DriftsStay
  <2>4. QED
    BY <2>2, <2>3
<1>2. CASE Reading
  <2>1. CASE pc = "idle"
    <3>1. (past = <<catalogue>>)'
      BY <1>2, <2>1, ReadingEffect
    <3>2. QED
      <4>1. past' = <<catalogue'>>
        BY <3>1
      <4>2. DOMAIN past' = 1..1
        BY <4>1
      <4>3. ASSUME NEW class \in SUBSET Versions, NEW k \in DOMAIN past', NEW l \in DOMAIN past', k <= l
            PROVE  /\ HowMany(past'[l], class) <= HowMany(past'[k], class) + (l - k)
                   /\ HowMany(past'[k], class) <= HowMany(past'[l], class) + (l - k)
        <5>1. k = 1 /\ l = 1
          BY <4>2, <4>3
        <5>2. PICK n \in Nat : n = HowMany(past'[1], class)
          BY HowManyIs
        <5>3. n <= n + (1 - 1)
          OBVIOUS
        <5>4. QED
          BY <5>1, <5>2, <5>3
      <4>4. QED
        BY <4>3 DEF Drifts
  <2>2. CASE pc # "idle"
    <3>1. past' = past
      BY <1>2, <2>2, ReadingEffect
    <3>2. QED
      BY <3>1 DEF Drifts
  <2>3. QED
    BY <2>1, <2>2
<1>3. CASE Quiet \/ UNCHANGED vars
  <2>1. past' = past
    BY <1>3 DEF Quiet, vars
  <2>2. QED
    BY <2>1 DEF Drifts
<1>4. QED
  BY <1>1, <1>2, <1>3 DEF Next, Reading

\* What the property says of the last answer.
Agreed == answer.status = 200 /\ answer.kind = "figures" => Agree(answer.figures, Len(past) - 1)

LEMMA AgreedIsMeant == Agreed <=> FiguresDriftOnlyByWrites
<1>1. PICK f, drift : f = answer.figures /\ drift = Len(past) - 1
  OBVIOUS
<1>2. Agreed <=> (answer.status = 200 /\ answer.kind = "figures" => Agree(f, drift))
  BY <1>1 DEF Agreed
<1>3. FiguresDriftOnlyByWrites <=> (answer.status = 200 /\ answer.kind = "figures" => Agree(f, drift))
  BY <1>1 DEF FiguresDriftOnlyByWrites, Agree
<1>4. QED
  BY <1>2, <1>3

\* With its last query the dashboard shows figures of instants that follow one another.
LEMMA FiguresAnswered ==
    ASSUME Based, Drifts, Gathered, ReadFigure
    PROVE  Agreed'
<1>1. pc = "figures" /\ pc # "idle"
  BY DEF ReadFigure
<1>2. PICK n \in 0..10 : /\ Cardinality(DOMAIN draft) = n
                         /\ FirstFigures(draft, n) /\ OfInstants(draft, n)
  BY <1>1 DEF Gathered
<1>3. PICK figures : figures = draft
  OBVIOUS
<1>4. PICK next : next = [name \in DOMAIN figures \cup {Figures[n + 1]} |->
                             IF name = Figures[n + 1] THEN Figure(name) ELSE figures[name]]
  OBVIOUS
<1>5. IF n + 1 < 11 THEN Goes("figures", next)
      ELSE Answer([status |-> 200, kind |-> "figures", figures |-> next])
  BY <1>2, <1>3, <1>4, FiguresAre DEF ReadFigure
<1>6. CASE n + 1 < 11
  <2>1. answer' = answer /\ answer.status = 0
    BY <1>1, <1>5, <1>6 DEF Goes, Based, NoAnswer
  <2>2. QED
    BY <2>1 DEF Agreed
<1>7. CASE ~(n + 1 < 11)
  <2>1. n + 1 = 11
    BY <1>7
  <2>2. answer' = [status |-> 200, kind |-> "figures", figures |-> next] /\ past' = past
    BY <1>5, <1>7 DEF Answer
  <2>3. OfInstants(next, 11)
    <3>1. FirstFigures(figures, n) /\ OfInstants(figures, n)
      BY <1>2, <1>3
    <3>2. OfInstants(next, n + 1)
      BY <1>1, <1>4, <3>1, FigureRead
    <3>3. QED
      BY <2>1, <3>2
  <2>4. PICK at \in [1..11 -> DOMAIN past] : FiguresAt(next, at, 11)
    BY <2>3 DEF OfInstants
  <2>5. PICK drift \in Nat : drift + 1 = Len(past)
    <3>1. Len(past) \in Nat /\ Len(past) \in 1..Len(past)
      BY <1>1, LastIsPresent
    <3>2. PICK len \in Nat : len = Len(past) /\ 1 <= len
      BY <3>1
    <3>3. len - 1 \in Nat /\ (len - 1) + 1 = len
      BY <3>2
    <3>4. QED
      BY <3>2, <3>3
  <2>6. Len(past') - 1 = drift
    BY <2>2, <2>5
  <2>7. answer'.figures = next
    BY <2>2
  <2>8. Agree(next, drift)
    BY <2>4, <2>5, FiguresNear
  <2>9. QED
    BY <2>6, <2>7, <2>8 DEF Agreed
<1>8. QED
  BY <1>6, <1>7

\* Theorem.  Whatever is written while the dashboard is read, its totals, breakdowns and gaps are
\* at odds by no more than the writes committed between its first query and its last, and not at
\* all if there were none; a list price never passes for a price, and no gap is NULL.
\* (CatalogStatsService.buildStats, CatalogStatsRepository; FiguresDriftOnlyByWrites.)
THEOREM FiguresAgreeButForWrites == Spec => []FiguresDriftOnlyByWrites
<1>1. Init => Drifts /\ Gathered /\ Agreed
  <2>1. Init => Drifts
    BY InitDrifts DEF Init
  <2>2. Init => Gathered /\ Agreed
    BY DEF Init, Gathered, Agreed, NoAnswer
  <2>3. QED
    BY <2>1, <2>2
<1>2. ASSUME Based, Drifts, Gathered, Agreed, [Next]_vars
      PROVE  Agreed'
  <2>1. CASE UNCHANGED <<answer, past>>
    BY <1>2, <2>1 DEF Agreed
  <2>2. CASE answer'.status # 200 \/ answer'.kind # "figures"
    BY <2>2 DEF Agreed
  <2>3. CASE ReadFigure
    BY <1>2, <2>3, FiguresAnswered
  <2>4. QED
    BY <1>2, <2>1, <2>2, <2>3, FigureSteps
<1>3. Based /\ Drifts /\ [Next]_vars => Drifts'
  BY DriftsStep
<1>4. Based /\ Gathered /\ [Next]_vars => Gathered'
  BY CountedStays
<1>5. Based /\ Drifts /\ Gathered /\ Agreed /\ [Next]_vars => Agreed'
  BY <1>2
<1>6. QED
  BY <1>1, <1>3, <1>4, <1>5, AgreedIsMeant, SpecBased, PTL DEF Spec
==============================================================================
