---------------------------- MODULE ResearchProofs ----------------------------
(***************************************************************************)
(* Proofs about Research, for all slugs, batches, files and writes: types  *)
(* (TypeCorrect), what a generated script does to the catalogue            *)
(* (ScriptsFillGaps), over what it may stop a boot                         *)
(* (ScriptsStopBootsOnlyOverFlaws), that what it has put there stays       *)
(* staged (AppliedRowsStayStaged), and that a checked file can be imported *)
(* (CheckedFilesImport).                                                   *)
(***************************************************************************)
EXTENDS Research, FiniteSetTheorems, TLAPS

Cells(t) == [Columns[t] -> Stored \cup {NULL}]
Entries(t) ==
    [slug : Slugs \cup Odd \cup Long, values : [Columns[t] -> Texts \cup {NULL}],
     source : {"owner", "reprint", "classified", NULL}]
StagedRows(t) == [slug : Slugs \cup Odd \cup Long, values : Cells(t)]

\* What a generated script dies on, besides keys.
TooWide(t) ==
    CASE t \in {"brakes", "suspension", "descriptions"} -> {"long"}
      [] t = "tyres" -> {"wide", "long"}
      [] t = "price" -> {}
      [] t = "displacement" -> {"zero", "huge"}
      [] OTHER -> {"huge"}

\* The limits a column fitted by an importer has.
Widths == {{}, {"long"}, {"wide", "long"}}

(* The inductive invariant. *)

\* Everything is of its type, and there are finitely many scripts.
Shape ==
    /\ tool \in Tools
    /\ bikes \in [Slugs -> Cells(tool) \cup {Absent}]
    /\ list \subseteq Slugs /\ derived \subseteq Slugs
    /\ research \in Seq(Entries(tool))
    /\ checked \in BOOLEAN /\ unchecked \subseteq DOMAIN seeds /\ stopped \subseteq DOMAIN seeds
    /\ IsFiniteSet(DOMAIN seeds)
    /\ \A f \in DOMAIN seeds : seeds[f] \in Seq(StagedRows(tool))
    /\ DOMAIN recorded \subseteq DOMAIN seeds
    /\ filled \subseteq Slugs \X Columns[tool]
    /\ writes \in 0..MaxWrites

\* An engine is left to the displacement that the catalogue knows.
Displaceless(rows) ==
    tool = "engine" /\ \E i \in DOMAIN rows : rows[i].values["displacement_cc"] = NULL

\* Nothing is staged, or what nobody has checked does not fit, or a displacement is missing.
Flawed(f) ==
    \/ seeds[f] = <<>>
    \/ f \in unchecked /\ Oversized(seeds[f])
    \/ Displaceless(seeds[f])

\* Only such a script can be refused, and only such a one has been.
Sturdy ==
    \A f \in DOMAIN seeds :
        (f \in stopped \/ Refused(seeds[f], TooWide(tool))) => Flawed(f)

\* What a validator has accepted is a file of slugs the worklist had.
Vetted ==
    checked => tool \in {"brakes", "tyres", "price"} /\ SlugsOf(research) \subseteq Slugs

\* The one file of the suspension is what was researched when it was written, and its
\* research only grows.
Grown ==
    tool = "suspension" =>
        \A f \in DOMAIN seeds :
            /\ f = SharedFile
            /\ DOMAIN seeds[f] \subseteq DOMAIN research
            /\ \A i \in DOMAIN seeds[f] : seeds[f][i] = SuspensionRows(research)[i]

Sound == Shape /\ Sturdy /\ Vetted /\ Grown /\ AppliedRowsKept

------------------------------------------------------------------------------
(* Sets laid out in a sequence *)

LEMMA LaidOut ==
    ASSUME NEW S, IsFiniteSet(S)
    PROVE  /\ Cardinality(S) \in Nat
           /\ SetToSeq(S) \in [1..Cardinality(S) -> S]
           /\ IsInjective(SetToSeq(S))
<1>1. Cardinality(S) \in Nat /\ Bijection(1..Cardinality(S), S) # {}
  BY FS_CardinalityType DEF ExistsBijection
<1>2. PICK q : q \in Bijection(1..Cardinality(S), S)
  BY <1>1
<1>3. q \in [1..Cardinality(S) -> S] /\ IsInjective(q)
  BY <1>2 DEF Bijection, Injection
<1>4. \E f \in [1..Cardinality(S) -> S] : IsInjective(f)
  BY <1>3
<1>5. QED
  BY <1>1, <1>4 DEF SetToSeq

LEMMA PlacesAreFinite ==
    ASSUME NEW T, NEW file \in Seq(T), NEW places \in SUBSET (DOMAIN file)
    PROVE  IsFiniteSet(places)
<1>1. DOMAIN file = 1..Len(file) /\ Len(file) \in Nat
  OBVIOUS
<1>2. IsFiniteSet(1..Len(file))
  BY <1>1, FS_Interval
<1>3. QED
  BY <1>1, <1>2, FS_Subset

\* Picking entries of a file leaves a file.
LEMMA OnlyTypes ==
    ASSUME NEW T, NEW file \in Seq(T), NEW places \in SUBSET (DOMAIN file)
    PROVE  Only(file, places) \in Seq(T)
<1> DEFINE q == SetToSeq(places)
           n == Cardinality(places)
<1>1. n \in Nat /\ q \in [1..n -> places]
  BY PlacesAreFinite, LaidOut
<1>2. DOMAIN q = 1..n /\ \A i \in 1..n : file[q[i]] \in T
  <2> HIDE DEF q, n
  <2>1. QED
    BY <1>1
<1>3. Only(file, places) = [i \in 1..n |-> file[q[i]]]
  BY <1>2 DEF Only
<1>4. [i \in 1..n |-> file[q[i]]] \in Seq(T)
  <2> HIDE DEF q, n
  <2>1. QED
    BY <1>1, <1>2
<1>5. QED
  BY <1>3, <1>4

------------------------------------------------------------------------------
(* What an importer stages *)

LEMMA ColumnsOfTools ==
    /\ \A t \in {"brakes", "tyres", "suspension"} : Columns[t] = {"front", "rear"}
    /\ Columns["engine"] = KeyFields
    /\ \A t \in {"price", "descriptions", "displacement"} : Columns[t] = {t}
BY DEF Columns, Tools

LEMMA FitIsStored ==
    ASSUME NEW v \in Texts \cup {NULL}, NEW W \in Widths
    PROVE  /\ Fit(v, W) \in Stored \cup {NULL}
           /\ v # NULL => Fit(v, W) # NULL
           /\ Fit(v, W) \notin W
<1>1. NULL \notin Stored /\ Texts \subseteq Stored /\ {"", "cut"} \subseteq Stored
  BY SlugAssumption DEF Stored
<1>2. NULL \notin W /\ NULL # "blank"
  BY <1>1 DEF Widths, Stored, Texts
<1>3. CASE v = NULL
  BY <1>3, <1>2 DEF Fit
<1>4. CASE v = "blank"
  BY <1>4, <1>1, <1>2 DEF Fit, Widths
<1>5. CASE v # NULL /\ v # "blank" /\ v \in W
  BY <1>5, <1>1 DEF Fit, Widths
<1>6. CASE v # NULL /\ v # "blank" /\ v \notin W
  BY <1>6, <1>1 DEF Fit
<1>7. QED
  BY <1>3, <1>4, <1>5, <1>6

LEMMA EntriesOfFile ==
    ASSUME NEW t \in Tools, NEW file \in Seq(Entries(t))
    PROVE  /\ DOMAIN file = 1..Len(file) /\ Len(file) \in Nat
           /\ \A i \in DOMAIN file :
                 /\ file[i] \in Entries(t)
                 /\ file[i].slug \in Slugs \cup Odd \cup Long
                 /\ file[i].values \in [Columns[t] -> Texts \cup {NULL}]
<1>1. DOMAIN file = 1..Len(file) /\ Len(file) \in Nat
  OBVIOUS
<1>2. ASSUME NEW i \in DOMAIN file PROVE file[i] \in Entries(t)
  <2>1. i \in 1..Len(file)
    BY <1>1
  <2>2. QED
    BY <2>1
<1>3. QED
  BY <1>1, <1>2 DEF Entries

LEMMA FittedCells ==
    ASSUME NEW t \in Tools, NEW e \in Entries(t), NEW W \in Widths
    PROVE  /\ Fitted(e, W) \in Cells(t)
           /\ DOMAIN Fitted(e, W) = Columns[t]
           /\ \A c \in Columns[t] : /\ Fitted(e, W)[c] = Fit(e.values[c], W)
                                    /\ e.values[c] \in Texts \cup {NULL}
<1>1. e.values \in [Columns[t] -> Texts \cup {NULL}]
  BY DEF Entries
<1>2. DOMAIN e.values = Columns[t] /\ \A c \in Columns[t] : e.values[c] \in Texts \cup {NULL}
  BY <1>1
<1>3. Fitted(e, W) = [c \in Columns[t] |-> Fit(e.values[c], W)]
  BY <1>2 DEF Fitted
<1>4. \A c \in Columns[t] : Fit(e.values[c], W) \in Stored \cup {NULL}
  BY <1>2, FitIsStored
<1>5. QED
  BY <1>2, <1>3, <1>4 DEF Cells

LEMMA RowsOfFile ==
    ASSUME NEW t \in Tools, NEW file \in Seq(Entries(t)), NEW W \in Widths
    PROVE  /\ Rows(file, W) \in Seq(StagedRows(t))
           /\ DOMAIN Rows(file, W) = DOMAIN file
           /\ \A i \in DOMAIN file : /\ Rows(file, W)[i].slug = file[i].slug
                                     /\ Rows(file, W)[i].values = Fitted(file[i], W)
<1> DEFINE Row(i) == [slug |-> file[i].slug, values |-> Fitted(file[i], W)]
<1>1. Rows(file, W) = [i \in 1..Len(file) |-> Row(i)] /\ Len(file) \in Nat
  BY EntriesOfFile DEF Rows
<1>2. ASSUME NEW i \in 1..Len(file) PROVE Row(i) \in StagedRows(t)
  <2>1. file[i] \in Entries(t) /\ file[i].slug \in Slugs \cup Odd \cup Long
    BY EntriesOfFile
  <2>2. Fitted(file[i], W) \in Cells(t)
    BY <2>1, FittedCells
  <2>3. QED
    BY <2>1, <2>2 DEF StagedRows
<1>3. [i \in 1..Len(file) |-> Row(i)] \in Seq(StagedRows(t))
  <2> HIDE DEF Row
  <2>1. QED
    BY <1>1, <1>2
<1>4. DOMAIN Rows(file, W) = DOMAIN file
  BY <1>1, EntriesOfFile
<1>5. \A i \in DOMAIN file : Rows(file, W)[i] = Row(i)
  <2> HIDE DEF Row
  <2>1. QED
    BY <1>1, EntriesOfFile
<1>6. QED
  BY <1>1, <1>3, <1>4, <1>5

\* Rows of a file that names slugs of the right shape, each once, and has a value for each,
\* are refused only if there are none or a slug is too long.
LEMMA RowsAreTaken ==
    ASSUME NEW t \in Tools, NEW file \in Seq(Entries(t)),
           NEW W \in Widths,
           ~Twice(file),
           \A i \in DOMAIN file : /\ file[i].slug \in Slugs \cup Long
                                  /\ \E c \in Columns[t] : file[i].values[c] # NULL
    PROVE  Refused(Rows(file, W), W) =>
              \/ Rows(file, W) = <<>>
              \/ SlugsOf(Rows(file, W)) \cap Long # {}
<1> DEFINE rows == Rows(file, W)
<1>1. /\ DOMAIN rows = DOMAIN file
      /\ \A i \in DOMAIN file : rows[i].slug = file[i].slug /\ rows[i].values = Fitted(file[i], W)
  BY RowsOfFile
<1> HIDE DEF rows
<1>2. ~Twice(rows)
  BY <1>1 DEF Twice
<1>3. SlugsOf(rows) \cap Odd = {}
  BY <1>1, SlugAssumption DEF SlugsOf
<1>4. ASSUME NEW i \in DOMAIN rows
      PROVE  /\ \E c \in DOMAIN rows[i].values : rows[i].values[c] # NULL
             /\ \A c \in DOMAIN rows[i].values : rows[i].values[c] \notin W
  <2>1. file[i] \in Entries(t)
    BY <1>1, EntriesOfFile
  <2>2. /\ DOMAIN rows[i].values = Columns[t]
        /\ \A c \in Columns[t] : /\ rows[i].values[c] = Fit(file[i].values[c], W)
                                 /\ file[i].values[c] \in Texts \cup {NULL}
    BY <2>1, <1>1, FittedCells
  <2>3. PICK c \in Columns[t] : file[i].values[c] # NULL
    BY <1>1
  <2>4. rows[i].values[c] # NULL
    BY <2>2, <2>3, FitIsStored
  <2>5. \A d \in Columns[t] : rows[i].values[d] \notin W
    BY <2>2, FitIsStored
  <2>6. QED
    BY <2>2, <2>4, <2>5
<1>5. Refused(rows, W) => rows = <<>> \/ SlugsOf(rows) \cap Long # {}
  BY <1>2, <1>3, <1>4 DEF Refused
<1>6. QED
  BY <1>5 DEF rows

\* Rows laid out over some slugs, one for each.
LaidRows(S, v) ==
    [i \in DOMAIN SetToSeq(S) |-> [slug |-> SetToSeq(S)[i], values |-> v[SetToSeq(S)[i]]]]

\* The script takes them too, if there are any and no figure is too large.
LEMMA LaidOutRowsAreTaken ==
    ASSUME NEW t \in Tools, NEW S \in SUBSET Slugs, NEW v \in [S -> Cells(t)], NEW W,
           \A s \in S : /\ \E c \in Columns[t] : v[s][c] # NULL
                        /\ \A c \in Columns[t] : v[s][c] \in W => v[s][c] = "huge"
    PROVE  /\ LaidRows(S, v) \in Seq(StagedRows(t))
           /\ Refused(LaidRows(S, v), W) => LaidRows(S, v) = <<>> \/ Oversized(LaidRows(S, v))
<1> DEFINE rows == LaidRows(S, v)
           q == SetToSeq(S)
           n == Cardinality(S)
<1>1. n \in Nat /\ q \in [1..n -> S] /\ IsInjective(q)
  <2>1. IsFiniteSet(S)
    BY FS_Subset, SlugAssumption
  <2>2. QED
    BY <2>1, LaidOut
<1>2. rows = [i \in 1..n |-> [slug |-> q[i], values |-> v[q[i]]]]
  BY <1>1 DEF LaidRows
<1> HIDE DEF q, n, rows
<1>3. \A i \in 1..n : q[i] \in S /\ v[q[i]] \in Cells(t) /\ q[i] \in Slugs
  BY <1>1
<1>4. \A i \in 1..n : [slug |-> q[i], values |-> v[q[i]]] \in StagedRows(t)
  BY <1>3 DEF StagedRows
<1>5. rows \in Seq(StagedRows(t))
  BY <1>1, <1>2, <1>4
<1>6. DOMAIN rows = 1..n /\ \A i \in 1..n : rows[i].slug = q[i] /\ rows[i].values = v[q[i]]
  BY <1>2
<1>7. ~Twice(rows)
  <2>1. \A i, j \in 1..n : q[i] = q[j] => i = j
    BY <1>1 DEF IsInjective
  <2>2. ASSUME NEW i \in DOMAIN rows, NEW j \in DOMAIN rows, rows[i].slug = rows[j].slug
        PROVE  i = j
    <3>1. i \in 1..n /\ j \in 1..n /\ q[i] = q[j]
      BY <1>6, <2>2
    <3>2. QED
      BY <2>1, <3>1
  <2>3. QED
    BY <2>2 DEF Twice
<1>8. SlugsOf(rows) \cap (Odd \cup Long) = {}
  BY <1>3, <1>6, SlugAssumption DEF SlugsOf
<1>9. ASSUME NEW i \in DOMAIN rows
      PROVE  /\ \E c \in DOMAIN rows[i].values : rows[i].values[c] # NULL
             /\ \A c \in DOMAIN rows[i].values : rows[i].values[c] \in W => rows[i].values[c] = "huge"
  <2>1. rows[i].values = v[q[i]] /\ q[i] \in S /\ v[q[i]] \in Cells(t)
    BY <1>3, <1>6
  <2>2. DOMAIN rows[i].values = Columns[t]
    BY <2>1 DEF Cells
  <2>3. QED
    BY <2>1, <2>2
<1>10. Refused(rows, W) => rows = <<>> \/ Oversized(rows)
  BY <1>7, <1>8, <1>9 DEF Refused, Oversized
<1>11. QED
  BY <1>5, <1>10 DEF rows

LEMMA GreatestPlace ==
    ASSUME NEW n \in Nat, NEW S \in SUBSET (1..n), S # {}
    PROVE  \E m \in S : \A i \in S : i <= m
<1> DEFINE Above == {p \in Nat \X Nat : p[1] < p[2]}
           T == {n - i : i \in S}
<1>1. IsWellFoundedOn(Above, Nat)
  BY NatLessThanWellFounded DEF OpToRel
<1>2. T \subseteq Nat /\ T # {}
  <2>1. \A i \in S : n - i \in Nat
    OBVIOUS
  <2>2. QED
    BY <2>1
<1>3. PICK x \in T : \A y \in T : ~(<<y, x>> \in Above)
  <2> HIDE DEF Above, T
  <2>1. QED
    BY <1>1, <1>2, WFMin
<1>4. \A y \in T : ~(y < x)
  BY <1>2, <1>3
<1>5. PICK m \in S : x = n - m
  OBVIOUS
<1>6. ASSUME NEW i \in S PROVE i <= m
  <2>1. n - i \in T
    OBVIOUS
  <2>2. ~(n - i < n - m)
    BY <1>4, <1>5, <2>1
  <2>3. i \in Int /\ m \in Int
    OBVIOUS
  <2>4. QED
    BY <2>2, <2>3
<1>7. QED
  BY <1>6

LEMMA LatestIsAnEntry ==
    ASSUME NEW T, NEW file \in Seq(T), NEW s \in SlugsOf(file)
    PROVE  \E i \in DOMAIN file : file[i].slug = s /\ Latest(file, s) = file[i]
<1> DEFINE Places == {i \in DOMAIN file : file[i].slug = s}
<1>1. DOMAIN file = 1..Len(file) /\ Len(file) \in Nat
  OBVIOUS
<1>2. Places \subseteq 1..Len(file) /\ Places # {}
  BY <1>1 DEF SlugsOf
<1>3. \E m \in Places : \A i \in Places : i <= m
  <2> HIDE DEF Places
  <2>1. QED
    BY <1>1, <1>2, GreatestPlace
<1>4. \E i \in DOMAIN file : file[i].slug = s /\ \A j \in DOMAIN file : file[j].slug = s => j <= i
  BY <1>3
<1>5. QED
  BY <1>4 DEF Latest

\* An importer that accepts what was researched writes rows that its script refuses over a
\* flaw only: one lemma for each.

LEMMA FittedRows ==
    ASSUME Shape, Vetted, NEW W \in Widths, ~Twice(research),
           \A i \in DOMAIN research : Keyed(research[i]) /\ Gives(research[i])
    PROVE  /\ Rows(research, W) \in Seq(StagedRows(tool))
           /\ Refused(Rows(research, W), W) =>
                 Rows(research, W) = <<>> \/ (~checked /\ Oversized(Rows(research, W)))
<1>1. tool \in Tools /\ research \in Seq(Entries(tool))
  BY DEF Shape
<1>2. ASSUME NEW i \in DOMAIN research
      PROVE  /\ research[i].slug \in Slugs \cup Long
             /\ \E c \in Columns[tool] : research[i].values[c] # NULL
  <2>1. research[i].values \in [Columns[tool] -> Texts \cup {NULL}]
    BY <1>1, EntriesOfFile
  <2>2. PICK c \in Columns[tool] : Given(research[i].values[c])
    BY <2>1 DEF Gives
  <2>3. QED
    BY <2>2 DEF Given, Keyed
<1>3. Rows(research, W) \in Seq(StagedRows(tool))
  BY <1>1, RowsOfFile
<1>4. Refused(Rows(research, W), W) =>
         Rows(research, W) = <<>> \/ SlugsOf(Rows(research, W)) \cap Long # {}
  BY <1>1, <1>2, RowsAreTaken
<1>5. checked => SlugsOf(Rows(research, W)) \cap Long = {}
  <2>1. SlugsOf(Rows(research, W)) = SlugsOf(research)
    BY <1>1, RowsOfFile DEF SlugsOf
  <2>2. QED
    BY <2>1, SlugAssumption DEF Vetted
<1>6. QED
  BY <1>3, <1>4, <1>5 DEF Oversized

LEMMA PriceIsTaken ==
    ASSUME Shape, Vetted, tool = "price", PriceAccepted(research)
    PROVE  /\ PriceRows(research) \in Seq(StagedRows(tool))
           /\ Refused(PriceRows(research), {}) =>
                 PriceRows(research) = <<>> \/ (~checked /\ Oversized(PriceRows(research)))
<1>1. ~Twice(research)
  BY DEF PriceAccepted, PriceValid
<1>2. ASSUME NEW i \in DOMAIN research PROVE Keyed(research[i]) /\ Gives(research[i])
  <2>1. Keyed(research[i]) /\ research[i].values["price"] = "figure"
    BY DEF PriceAccepted, PriceValid
  <2>2. research[i].values \in [Columns[tool] -> Texts \cup {NULL}] /\ Columns[tool] = {"price"}
    BY EntriesOfFile, ColumnsOfTools DEF Shape
  <2>3. "figure" # NULL
    BY SlugAssumption DEF Stored, Texts
  <2>4. QED
    BY <2>1, <2>2, <2>3 DEF Gives, Given
<1>3. QED
  BY <1>1, <1>2, FittedRows DEF PriceRows, Widths

LEMMA DescriptionsAreTaken ==
    ASSUME Shape, tool = "descriptions", DescriptionsAccepted(research)
    PROVE  /\ DescriptionsRows(research) \in Seq(StagedRows(tool))
           /\ Refused(DescriptionsRows(research), {"long"}) =>
                 DescriptionsRows(research) = <<>> \/ Oversized(DescriptionsRows(research))
<1> DEFINE Described(s) ==
             IF s \in SlugsOf(research) THEN Fitted(Latest(research, s), {"long"})
             ELSE [c \in {"descriptions"} |-> "derived"]
           v == [s \in list |-> Described(s)]
           rows == DescriptionsRows(research)
<1>1. /\ tool \in Tools /\ list \in SUBSET Slugs /\ research \in Seq(Entries(tool))
      /\ Columns[tool] = {"descriptions"} /\ {"long"} \in Widths
  BY ColumnsOfTools DEF Shape, Widths
<1>2. ASSUME NEW s \in list
      PROVE  /\ Described(s) \in Cells(tool)
             /\ \E c \in Columns[tool] : Described(s)[c] # NULL
             /\ \A c \in Columns[tool] : Described(s)[c] \notin {"long"}
  <2>1. CASE s \in SlugsOf(research)
    <3>1. PICK i \in DOMAIN research : Latest(research, s) = research[i]
      BY <1>1, <2>1, LatestIsAnEntry
    <3>2. research[i] \in Entries(tool) /\ Given(research[i].values["descriptions"])
      BY <1>1, EntriesOfFile DEF DescriptionsAccepted
    <3>3. Described(s) = Fitted(research[i], {"long"})
      BY <2>1, <3>1
    <3>4. /\ Fitted(research[i], {"long"}) \in Cells(tool)
          /\ \A c \in Columns[tool] :
                /\ Fitted(research[i], {"long"})[c] = Fit(research[i].values[c], {"long"})
                /\ research[i].values[c] \in Texts \cup {NULL}
      BY <1>1, <3>2, FittedCells
    <3>5. research[i].values["descriptions"] # NULL
      BY <3>2 DEF Given
    <3>6. /\ Fitted(research[i], {"long"})["descriptions"] # NULL
          /\ \A c \in Columns[tool] : Fitted(research[i], {"long"})[c] \notin {"long"}
      BY <1>1, <3>4, <3>5, FitIsStored
    <3>7. QED
      BY <1>1, <3>3, <3>4, <3>6
  <2>2. CASE s \notin SlugsOf(research)
    <3>1. "derived" \in Stored /\ "derived" # NULL
      BY SlugAssumption DEF Stored
    <3>2. Described(s) = [c \in {"descriptions"} |-> "derived"]
      BY <2>2
    <3>3. [c \in {"descriptions"} |-> "derived"] \in Cells(tool)
      BY <1>1, <3>1 DEF Cells
    <3>4. QED
      BY <1>1, <3>1, <3>2, <3>3
  <2>3. QED
    BY <2>1, <2>2
<1>3. rows = [i \in DOMAIN SetToSeq(list) |->
                [slug |-> SetToSeq(list)[i], values |-> Described(SetToSeq(list)[i])]]
  BY DEF DescriptionsRows
<1>4. \A i \in DOMAIN SetToSeq(list) : SetToSeq(list)[i] \in list
  <2>1. IsFiniteSet(list)
    BY <1>1, FS_Subset, SlugAssumption
  <2>2. SetToSeq(list) \in [1..Cardinality(list) -> list]
    BY <2>1, LaidOut
  <2>3. QED
    BY <2>2
<1> HIDE DEF Described, rows
<1>5. v \in [list -> Cells(tool)]
  BY <1>2
<1>6. rows = LaidRows(list, v)
  <2>1. \A i \in DOMAIN SetToSeq(list) : v[SetToSeq(list)[i]] = Described(SetToSeq(list)[i])
    BY <1>4
  <2> HIDE DEF v
  <2>2. QED
    BY <1>3, <2>1, Zenon DEF LaidRows
<1>7. \A s \in list : /\ \E c \in Columns[tool] : v[s][c] # NULL
                      /\ \A c \in Columns[tool] : v[s][c] \notin {"long"}
  BY <1>2
<1> HIDE DEF v
<1>8. /\ rows \in Seq(StagedRows(tool))
      /\ Refused(rows, {"long"}) => rows = <<>> \/ Oversized(rows)
  <2>1. PICK W : W = {"long"}
    OBVIOUS
  <2>2. \A s \in list : /\ \E c \in Columns[tool] : v[s][c] # NULL
                        /\ \A c \in Columns[tool] : v[s][c] \in W => v[s][c] = "huge"
    BY <1>7, <2>1
  <2>3. rows \in Seq(StagedRows(tool)) /\ (Refused(rows, W) => rows = <<>> \/ Oversized(rows))
    BY <1>1, <1>5, <1>6, <2>2, LaidOutRowsAreTaken, Zenon
  <2>4. QED
    BY <2>1, <2>3
<1>9. QED
  BY <1>8 DEF rows

LEMMA DisplacementIsTaken ==
    ASSUME Shape, tool = "displacement", DisplacementAccepted(research)
    PROVE  /\ DisplacementRows(research) \in Seq(StagedRows(tool))
           /\ Refused(DisplacementRows(research), {"zero", "huge"}) =>
                 DisplacementRows(research) = <<>> \/ Oversized(DisplacementRows(research))
<1> DEFINE Displacement(s) == Latest(research, s).values["displacement"]
           S == {s \in list : Displacement(s) # NULL}
           v == [s \in S |-> [c \in {"displacement"} |-> Displacement(s)]]
           rows == DisplacementRows(research)
<1>1. tool \in Tools /\ list \subseteq Slugs /\ Columns[tool] = {"displacement"}
  BY ColumnsOfTools DEF Shape
<1>2. rows = [i \in DOMAIN SetToSeq(S) |->
                [slug |-> SetToSeq(S)[i],
                 values |-> [c \in {"displacement"} |-> Displacement(SetToSeq(S)[i])]]]
  BY DEF DisplacementRows
<1>3. \A s \in S : Displacement(s) \in {"figure", "huge"}
  BY DEF DisplacementAccepted
<1>4. S \in SUBSET Slugs
  BY <1>1
<1> HIDE DEF Displacement, rows, S
<1>5. \A i \in DOMAIN SetToSeq(S) : SetToSeq(S)[i] \in S
  <2>1. IsFiniteSet(S)
    BY <1>4, FS_Subset, SlugAssumption
  <2>2. SetToSeq(S) \in [1..Cardinality(S) -> S]
    BY <2>1, LaidOut
  <2>3. QED
    BY <2>2
<1>6. {"figure", "huge"} \subseteq Stored /\ NULL \notin {"figure", "huge"}
  BY SlugAssumption DEF Stored, Texts
<1>7. \A s \in S : [c \in {"displacement"} |-> Displacement(s)] \in Cells(tool)
  BY <1>1, <1>3, <1>6 DEF Cells
<1>8. v \in [S -> Cells(tool)]
  BY <1>7
<1>9. rows = LaidRows(S, v)
  <2>1. \A i \in DOMAIN SetToSeq(S) :
            v[SetToSeq(S)[i]] = [c \in {"displacement"} |-> Displacement(SetToSeq(S)[i])]
    BY <1>5
  <2> HIDE DEF v
  <2>2. QED
    BY <1>2, <2>1, Zenon DEF LaidRows
<1>10. \A s \in S : /\ \E c \in Columns[tool] : v[s][c] # NULL
                    /\ \A c \in Columns[tool] : v[s][c] \in {"zero", "huge"} => v[s][c] = "huge"
  BY <1>1, <1>3, <1>6
<1> HIDE DEF v
<1>11. /\ rows \in Seq(StagedRows(tool))
       /\ Refused(rows, {"zero", "huge"}) => rows = <<>> \/ Oversized(rows)
  <2>1. PICK W : W = {"zero", "huge"}
    OBVIOUS
  <2>2. \A s \in S : /\ \E c \in Columns[tool] : v[s][c] # NULL
                     /\ \A c \in Columns[tool] : v[s][c] \in W => v[s][c] = "huge"
    BY <1>10, <2>1
  <2>3. rows \in Seq(StagedRows(tool)) /\ (Refused(rows, W) => rows = <<>> \/ Oversized(rows))
    <3>1. tool \in Tools
      BY <1>1
    <3>2. /\ LaidRows(S, v) \in Seq(StagedRows(tool))
          /\ Refused(LaidRows(S, v), W) => LaidRows(S, v) = <<>> \/ Oversized(LaidRows(S, v))
      BY <3>1, <1>4, <1>8, <2>2, LaidOutRowsAreTaken, Zenon
    <3>3. QED
      BY <3>2, <1>9
  <2>4. QED
    BY <2>1, <2>3
<1>12. QED
  BY <1>11 DEF rows

\* The engine's rows are staged as they are.
LEMMA EnginesAreTaken ==
    ASSUME Shape, tool = "engine", EngineAccepted(research)
    PROVE  /\ EngineRows(research) \in Seq(StagedRows(tool))
           /\ Refused(EngineRows(research), {"huge"}) =>
                 \/ EngineRows(research) = <<>>
                 \/ Oversized(EngineRows(research)) \/ Displaceless(EngineRows(research))
<1> DEFINE rows == EngineRows(research)
<1>1. tool \in Tools /\ research \in Seq(Entries(tool)) /\ {} \in Widths /\ rows = Rows(research, {})
  BY DEF Shape, Widths, EngineRows
<1>2. /\ rows \in Seq(StagedRows(tool)) /\ DOMAIN rows = DOMAIN research
      /\ \A i \in DOMAIN research : /\ rows[i].slug = research[i].slug
                                    /\ rows[i].values = Fitted(research[i], {})
  BY <1>1, RowsOfFile
<1> HIDE DEF rows
<1>3. ~Twice(rows)
  BY <1>2 DEF Twice, EngineAccepted
<1>4. SlugsOf(rows) \cap Odd = {}
  BY <1>2, SlugAssumption DEF SlugsOf, EngineAccepted, Keyed
<1>5. ASSUME NEW i \in DOMAIN rows, \A c \in DOMAIN rows[i].values : rows[i].values[c] = NULL
      PROVE  Displaceless(rows)
  <2>1. research[i] \in Entries(tool)
    BY <1>1, <1>2, EntriesOfFile
  <2>2. DOMAIN rows[i].values = KeyFields
    BY <1>1, <1>2, <2>1, FittedCells, ColumnsOfTools
  <2>3. rows[i].values["displacement_cc"] = NULL
    BY <1>5, <2>2 DEF KeyFields
  <2>4. QED
    BY <2>3 DEF Displaceless
<1>6. Refused(rows, {"huge"}) => rows = <<>> \/ Oversized(rows) \/ Displaceless(rows)
  BY <1>3, <1>4, <1>5 DEF Refused, Oversized
<1>7. QED
  BY <1>2, <1>6 DEF rows

LEMMA StagedIsTaken ==
    ASSUME Shape, Vetted, Accepted(research)
    PROVE  /\ Staged(research) \in Seq(StagedRows(tool))
           /\ Refused(Staged(research), TooWide(tool)) =>
                 \/ Staged(research) = <<>>
                 \/ ~checked /\ Oversized(Staged(research))
                 \/ Displaceless(Staged(research))
<1>1. tool \in Tools /\ research \in Seq(Entries(tool))
  BY DEF Shape
<1>2. CASE tool = "brakes"
  <2>1. /\ Accepted(research) = BrakesAccepted(research)
        /\ Staged(research) = Rows(research, {"long"}) /\ TooWide(tool) = {"long"}
    BY <1>2 DEF Accepted, Staged, TooWide, BrakesRows
  <2>2. QED
    BY <2>1, FittedRows DEF BrakesAccepted, Widths
<1>3. CASE tool = "tyres"
  <2>1. /\ Accepted(research) = TyresAccepted(research)
        /\ Staged(research) = Rows(research, {"wide", "long"}) /\ TooWide(tool) = {"wide", "long"}
    BY <1>3 DEF Accepted, Staged, TooWide, TyresRows
  <2>2. QED
    BY <2>1, FittedRows DEF TyresAccepted, Widths
<1>4. CASE tool = "suspension"
  <2>1. /\ Accepted(research) = SuspensionAccepted(research)
        /\ Staged(research) = Rows(research, {"long"}) /\ TooWide(tool) = {"long"}
    BY <1>4 DEF Accepted, Staged, TooWide, SuspensionRows
  <2>2. QED
    BY <2>1, FittedRows DEF SuspensionAccepted, Widths
<1>5. CASE tool = "price"
  <2>1. /\ Accepted(research) = PriceAccepted(research)
        /\ Staged(research) = PriceRows(research) /\ TooWide(tool) = {}
    BY <1>5 DEF Accepted, Staged, TooWide
  <2>2. QED
    BY <1>5, <2>1, PriceIsTaken
<1>6. CASE tool = "descriptions"
  <2>1. /\ Accepted(research) = DescriptionsAccepted(research)
        /\ Staged(research) = DescriptionsRows(research) /\ TooWide(tool) = {"long"}
    BY <1>6 DEF Accepted, Staged, TooWide
  <2>2. ~checked
    BY <1>6 DEF Vetted
  <2>3. QED
    BY <1>6, <2>1, <2>2, DescriptionsAreTaken
<1>7. CASE tool = "displacement"
  <2>1. /\ Accepted(research) = DisplacementAccepted(research)
        /\ Staged(research) = DisplacementRows(research) /\ TooWide(tool) = {"zero", "huge"}
    BY <1>7 DEF Accepted, Staged, TooWide
  <2>2. ~checked
    BY <1>7 DEF Vetted
  <2>3. QED
    BY <1>7, <2>1, <2>2, DisplacementIsTaken
<1>8. CASE tool = "engine"
  <2>1. /\ Accepted(research) = EngineAccepted(research)
        /\ Staged(research) = EngineRows(research) /\ TooWide(tool) = {"huge"}
    BY <1>8 DEF Accepted, Staged, TooWide
  <2>2. ~checked
    BY <1>8 DEF Vetted
  <2>3. QED
    BY <1>8, <2>1, <2>2, EnginesAreTaken
<1>9. QED
  BY <1>1, <1>2, <1>3, <1>4, <1>5, <1>6, <1>7, <1>8 DEF Tools

------------------------------------------------------------------------------
(* What a script does to the catalogue *)

LEMMA RowsOfScript ==
    ASSUME Shape, NEW f \in DOMAIN seeds
    PROVE  /\ DOMAIN seeds[f] = 1..Len(seeds[f])
           /\ \A i \in DOMAIN seeds[f] : seeds[f][i].values \in Cells(tool)
<1>1. seeds[f] \in Seq(StagedRows(tool))
  BY DEF Shape
<1>2. ASSUME NEW i \in DOMAIN seeds[f] PROVE seeds[f][i] \in StagedRows(tool)
  BY <1>1
<1>3. QED
  BY <1>1, <1>2 DEF StagedRows

\* A table merged with rows differs from the catalogue in gaps only, and there by what a row
\* gives.
LEMMA MergeFillsGaps ==
    ASSUME Shape, NEW f \in DOMAIN seeds, NEW gaps
    PROVE  /\ Merged(seeds[f], gaps) \in [Slugs -> Cells(tool) \cup {Absent}]
           /\ \A s \in Slugs :
                 /\ bikes[s] = Absent <=> Merged(seeds[f], gaps)[s] = Absent
                 /\ bikes[s] # Absent =>
                       \A c \in Columns[tool] :
                          \/ Merged(seeds[f], gaps)[s][c] = bikes[s][c]
                          \/ /\ bikes[s][c] \in gaps
                             /\ \E i \in DOMAIN seeds[f] :
                                   /\ seeds[f][i].slug = s
                                   /\ Merged(seeds[f], gaps)[s][c] = seeds[f][i].values[c]
<1> DEFINE rows == seeds[f]
           table == Merged(rows, gaps)
           Named(s) == \E i \in DOMAIN rows : rows[i].slug = s /\ Bound(rows[i])
           RowOf(s) == rows[CHOOSE i \in DOMAIN rows : rows[i].slug = s]
           Filled(s) == [c \in DOMAIN bikes[s] |-> Coalesce(bikes[s][c], RowOf(s).values[c], gaps)]
<1>1. table = [s \in Slugs |-> IF Named(s) THEN Filled(s) ELSE bikes[s]]
  BY DEF Merged
<1>2. /\ tool \in Tools /\ Absent \notin Cells(tool)
      /\ bikes \in [Slugs -> Cells(tool) \cup {Absent}]
  BY AbsentAssumption DEF Shape, Cells
<1>3. ASSUME NEW s \in Slugs, Named(s)
      PROVE  /\ bikes[s] # Absent /\ bikes[s] \in Cells(tool)
             /\ Filled(s) \in Cells(tool)
             /\ \A c \in Columns[tool] :
                   \/ Filled(s)[c] = bikes[s][c]
                   \/ /\ bikes[s][c] \in gaps
                      /\ \E i \in DOMAIN rows : rows[i].slug = s /\ Filled(s)[c] = rows[i].values[c]
  <2>1. bikes[s] # Absent /\ bikes[s] \in Cells(tool)
    BY <1>2, <1>3 DEF Bound
  <2>2. PICK i \in DOMAIN rows : rows[i].slug = s /\ RowOf(s) = rows[i]
    <3>1. \E i \in DOMAIN rows : rows[i].slug = s
      BY <1>3
    <3>2. QED
      BY <3>1
  <2>3. rows[i].values \in Cells(tool)
    BY <2>2, RowsOfScript
  <2>4. Filled(s) = [c \in Columns[tool] |-> Coalesce(bikes[s][c], rows[i].values[c], gaps)]
    BY <2>1, <2>2 DEF Cells
  <2>5. \A c \in Columns[tool] : /\ bikes[s][c] \in Stored \cup {NULL}
                                 /\ rows[i].values[c] \in Stored \cup {NULL}
    BY <2>1, <2>3 DEF Cells
  <2>6. \A c \in Columns[tool] :
            Coalesce(bikes[s][c], rows[i].values[c], gaps) \in Stored \cup {NULL}
    BY <2>5 DEF Coalesce
  <2>7. Filled(s) \in Cells(tool)
    BY <2>4, <2>6 DEF Cells
  <2>8. \A c \in Columns[tool] :
            Filled(s)[c] = IF bikes[s][c] \in gaps THEN rows[i].values[c] ELSE bikes[s][c]
    BY <2>4 DEF Coalesce
  <2>9. QED
    BY <2>1, <2>2, <2>7, <2>8
<1> HIDE DEF table, Filled, Named, rows
<1>4. \A s \in Slugs : table[s] \in Cells(tool) \cup {Absent}
  BY <1>1, <1>2, <1>3
<1>5. table \in [Slugs -> Cells(tool) \cup {Absent}]
  BY <1>1, <1>4
<1>6. ASSUME NEW s \in Slugs
      PROVE  /\ bikes[s] = Absent <=> table[s] = Absent
             /\ bikes[s] # Absent =>
                   \A c \in Columns[tool] :
                      \/ table[s][c] = bikes[s][c]
                      \/ /\ bikes[s][c] \in gaps
                         /\ \E i \in DOMAIN rows : rows[i].slug = s /\ table[s][c] = rows[i].values[c]
  <2>1. CASE Named(s)
    <3>1. table[s] = Filled(s)
      BY <1>1, <2>1
    <3>2. bikes[s] # Absent /\ table[s] # Absent
      BY <1>2, <1>3, <2>1, <3>1
    <3>3. QED
      BY <1>3, <2>1, <3>1, <3>2
  <2>2. CASE ~Named(s)
    <3>1. table[s] = bikes[s]
      BY <1>1, <2>2
    <3>2. QED
      BY <3>1
  <2>3. QED
    BY <2>1, <2>2
<1>7. QED
  BY <1>5, <1>6 DEF table, rows

\* Each tool's script is a run of the merge.
LEMMA MigrationsMerge ==
    ASSUME Shape, NEW f, Migrate(f)
    PROVE  \E gaps \in {{NULL}, {NULL, "blank"}} :
              /\ gaps = {NULL} \/ tool = "descriptions"
              /\ \/ Runs(f, Merged(seeds[f], gaps), Refused(seeds[f], TooWide(tool)))
                 \/ /\ tool = "engine"
                    /\ Runs(f, Merged(seeds[f], gaps),
                            Refused(seeds[f], TooWide(tool)) \/ Powerless(seeds[f]))
<1>1. CASE MigrateBrakes(f)
  <2>1. tool = "brakes" /\ TooWide(tool) = {"long"}
    BY <1>1 DEF MigrateBrakes, TooWide
  <2>2. QED
    BY <1>1, <2>1 DEF MigrateBrakes
<1>2. CASE MigrateTyres(f)
  <2>1. tool = "tyres" /\ TooWide(tool) = {"wide", "long"}
    BY <1>2 DEF MigrateTyres, TooWide
  <2>2. QED
    BY <1>2, <2>1 DEF MigrateTyres
<1>3. CASE MigrateSuspension(f)
  <2>1. tool = "suspension" /\ TooWide(tool) = {"long"}
    BY <1>3 DEF MigrateSuspension, TooWide
  <2>2. QED
    BY <1>3, <2>1 DEF MigrateSuspension
<1>4. CASE MigratePrice(f)
  <2>1. tool = "price" /\ TooWide(tool) = {}
    BY <1>4 DEF MigratePrice, TooWide
  <2>2. QED
    BY <1>4, <2>1 DEF MigratePrice
<1>5. CASE MigrateDescriptions(f)
  <2>1. tool = "descriptions" /\ TooWide(tool) = {"long"}
    BY <1>5 DEF MigrateDescriptions, TooWide
  <2>2. QED
    BY <1>5, <2>1 DEF MigrateDescriptions
<1>6. CASE MigrateDisplacement(f)
  <2>1. tool = "displacement" /\ TooWide(tool) = {"zero", "huge"}
    BY <1>6 DEF MigrateDisplacement, TooWide
  <2>2. QED
    BY <1>6, <2>1 DEF MigrateDisplacement
<1>7. CASE MigrateEngine(f)
  <2>1. tool = "engine" /\ TooWide(tool) = {"huge"}
    BY <1>7 DEF MigrateEngine, TooWide
  <2>2. QED
    BY <1>7, <2>1 DEF MigrateEngine
<1>8. QED
  BY <1>1, <1>2, <1>3, <1>4, <1>5, <1>6, <1>7 DEF Migrate

\* What every script does to the state, whichever the tool.
LEMMA MigrationEffect ==
    ASSUME Shape, NEW f \in DOMAIN seeds, Migrate(f)
    PROVE  /\ bikes' \in [Slugs -> Cells(tool) \cup {Absent}]
           /\ \A s \in Slugs :
                 /\ bikes[s] = Absent <=> bikes'[s] = Absent
                 /\ bikes[s] # Absent =>
                       \A c \in Columns[tool] :
                          \/ bikes[s][c] \in {NULL, bikes'[s][c]}
                          \/ tool = "descriptions" /\ bikes[s][c] = "blank"
           /\ DOMAIN recorded' \subseteq DOMAIN seeds
           /\ filled' \subseteq Slugs \X Columns[tool]
           /\ tool # "descriptions" =>
                 \A cell \in filled' \ filled : \E i \in DOMAIN seeds[f] :
                    seeds[f][i].slug = cell[1] /\ seeds[f][i].values[cell[2]] # NULL
           /\ stopped' \subseteq {f}
           /\ stopped' # {} => Refused(seeds[f], TooWide(tool)) \/ Displaceless(seeds[f])
           /\ UNCHANGED <<tool, files, writes>>
<1>1. PICK gaps \in {{NULL}, {NULL, "blank"}} :
        /\ gaps = {NULL} \/ tool = "descriptions"
        /\ \/ Runs(f, Merged(seeds[f], gaps), Refused(seeds[f], TooWide(tool)))
           \/ /\ tool = "engine"
              /\ Runs(f, Merged(seeds[f], gaps),
                      Refused(seeds[f], TooWide(tool)) \/ Powerless(seeds[f]))
  BY MigrationsMerge
<1> DEFINE table == Merged(seeds[f], gaps)
<1>2. /\ table \in [Slugs -> Cells(tool) \cup {Absent}]
      /\ \A s \in Slugs :
            /\ bikes[s] = Absent <=> table[s] = Absent
            /\ bikes[s] # Absent =>
                  \A c \in Columns[tool] :
                     \/ table[s][c] = bikes[s][c]
                     \/ /\ bikes[s][c] \in gaps
                        /\ \E i \in DOMAIN seeds[f] :
                              /\ seeds[f][i].slug = s
                              /\ table[s][c] = seeds[f][i].values[c]
  BY MergeFillsGaps
<1> HIDE DEF table
<1> DEFINE Ran == /\ stopped' = {} /\ bikes' = table
                  /\ recorded' = Put(recorded, f, seeds[f])
                  /\ filled' = filled \cup {cell \in Slugs \X Columns[tool] :
                        /\ bikes[cell[1]] # Absent
                        /\ table[cell[1]][cell[2]] # bikes[cell[1]][cell[2]]}
           Dead == stopped' = {f} /\ UNCHANGED <<bikes, recorded, filled>>
<1>3. UNCHANGED <<tool, files, writes>>
  BY <1>1 DEF Runs
<1>4. /\ Ran \/ Dead
      /\ Dead => Refused(seeds[f], TooWide(tool)) \/ Displaceless(seeds[f])
  <2>1. \/ Runs(f, table, Refused(seeds[f], TooWide(tool)))
        \/ /\ tool = "engine"
           /\ Runs(f, table, Refused(seeds[f], TooWide(tool)) \/ Powerless(seeds[f]))
    BY <1>1 DEF table
  <2>2. ASSUME tool = "engine", Powerless(seeds[f]) PROVE Displaceless(seeds[f])
    BY <2>2 DEF Powerless, Displaceless, Coalesce
  <2>3. QED
    BY <2>1, <2>2 DEF Runs
<1>5. CASE Dead
  BY <1>3, <1>4, <1>5 DEF Shape
<1>6. CASE Ran
  <2>1. bikes' \in [Slugs -> Cells(tool) \cup {Absent}]
    BY <1>2, <1>6
  <2>2. \A s \in Slugs :
           /\ bikes[s] = Absent <=> bikes'[s] = Absent
           /\ bikes[s] # Absent =>
                 \A c \in Columns[tool] :
                    \/ bikes[s][c] \in {NULL, bikes'[s][c]}
                    \/ tool = "descriptions" /\ bikes[s][c] = "blank"
    BY <1>1, <1>2, <1>6
  <2>3. DOMAIN recorded' \subseteq DOMAIN seeds
    <3>1. DOMAIN Put(recorded, f, seeds[f]) = {f} \cup DOMAIN recorded
      BY DEF Put
    <3>2. QED
      BY <1>6, <3>1 DEF Shape
  <2>4. filled' \subseteq Slugs \X Columns[tool]
    BY <1>6 DEF Shape
  <2>5. ASSUME tool # "descriptions", NEW cell \in filled' \ filled
        PROVE  \E i \in DOMAIN seeds[f] :
                  seeds[f][i].slug = cell[1] /\ seeds[f][i].values[cell[2]] # NULL
    <3>1. /\ cell[1] \in Slugs /\ cell[2] \in Columns[tool] /\ bikes[cell[1]] # Absent
          /\ table[cell[1]][cell[2]] # bikes[cell[1]][cell[2]]
      BY <1>6, <2>5
    <3>2. gaps = {NULL}
      BY <1>1, <2>5
    <3>3. QED
      BY <1>2, <3>1, <3>2
  <2>6. QED
    BY <1>3, <1>6, <2>1, <2>2, <2>3, <2>4, <2>5
<1>7. QED
  BY <1>4, <1>5, <1>6

------------------------------------------------------------------------------
(* Types *)

LEMMA InitSound == Init => Sound
<1> SUFFICES ASSUME Init PROVE Sound
  OBVIOUS
<1>1. tool \in Tools /\ DOMAIN seeds = {} /\ DOMAIN recorded = {} /\ research = <<>>
  BY DEF Init
<1>2. bikes \in [Slugs -> Cells(tool) \cup {Absent}]
  <2>1. [c \in Columns[tool] |-> NULL] \in Cells(tool)
    BY DEF Cells
  <2>2. QED
    BY <2>1 DEF Init
<1>3. research \in Seq(Entries(tool))
  BY <1>1
<1>4. IsFiniteSet(DOMAIN seeds)
  BY <1>1, FS_EmptySet
<1>5. writes \in 0..MaxWrites
  BY BoundAssumption DEF Init
<1>6. Shape
  BY <1>1, <1>2, <1>3, <1>4, <1>5 DEF Shape, Init
<1>7. Sturdy /\ Vetted
  BY <1>1 DEF Sturdy, Vetted, Init
<1>8. Grown
  BY <1>1 DEF Grown
<1>9. AppliedRowsKept
  BY DEF AppliedRowsKept, StillStaged, Init
<1>10. QED
  BY <1>6, <1>7, <1>8, <1>9 DEF Sound

LEMMA ShapeStays ==
    ASSUME Shape, Vetted, [Next]_vars
    PROVE  Shape'
<1>1. CASE Measure
  BY <1>1 DEF Shape, Measure, Gap, database
<1>2. ASSUME NEW batch \in Batches[tool], Collect(batch) PROVE Shape'
  <2>1. batch \in Seq(Entries(tool))
    BY BatchAssumption DEF Shape, Entries
  <2>2. research' \in Seq(Entries(tool))
    BY <1>2, <2>1 DEF Collect, Shape
  <2>3. QED
    BY <1>2, <2>2 DEF Shape, Collect, database
<1>3. ASSUME NEW batch \in Batches[tool], Split(batch) PROVE Shape'
  <2>1. batch \in Seq(Entries(tool))
    BY BatchAssumption DEF Shape, Entries
  <2>2. research' \in Seq(Entries(tool))
    BY <1>3, <2>1, OnlyTypes DEF Split
  <2>3. QED
    BY <1>3, <2>2 DEF Shape, Split, database
<1>4. CASE Prune
  <2>1. research' \in Seq(Entries(tool))
    BY <1>4, OnlyTypes DEF Prune, Shape
  <2>2. QED
    BY <1>4, <2>1 DEF Shape, Prune, database
<1>5. CASE Derive
  BY <1>5 DEF Shape, Derive, database
<1>6. CASE Check
  BY <1>6 DEF Shape, Check, database
<1>7. CASE Import
  <2>1. PICK name : /\ seeds' = Put(seeds, name, Staged(research))
                    /\ unchecked' = IF checked THEN unchecked \ {name} ELSE unchecked \cup {name}
                    /\ stopped' = stopped \ {name}
    BY <1>7 DEF Import
  <2>2. Staged(research) \in Seq(StagedRows(tool))
    BY <1>7, StagedIsTaken DEF Import
  <2>3. DOMAIN seeds' = DOMAIN seeds \cup {name}
    BY <2>1 DEF Put
  <2>4. IsFiniteSet(DOMAIN seeds')
    BY <2>3, FS_AddElement DEF Shape
  <2>5. \A f \in DOMAIN seeds' : seeds'[f] \in Seq(StagedRows(tool))
    BY <2>1, <2>2 DEF Put, Shape
  <2>6. unchecked' \subseteq DOMAIN seeds' /\ stopped' \subseteq DOMAIN seeds'
    BY <2>1, <2>3 DEF Shape
  <2>7. DOMAIN recorded' \subseteq DOMAIN seeds'
    BY <1>7, <2>3 DEF Import, Shape
  <2>8. UNCHANGED <<tool, bikes, list, derived, research, checked, filled, writes>>
    BY <1>7 DEF Import
  <2>9. QED
    BY <2>4, <2>5, <2>6, <2>7, <2>8 DEF Shape
<1>8. ASSUME NEW f \in DOMAIN seeds, Migrate(f) PROVE Shape'
  <2>1. /\ bikes' \in [Slugs -> Cells(tool) \cup {Absent}]
        /\ DOMAIN recorded' \subseteq DOMAIN seeds
        /\ filled' \subseteq Slugs \X Columns[tool]
        /\ stopped' \subseteq {f}
        /\ UNCHANGED <<tool, files, writes>>
    BY <1>8, MigrationEffect
  <2>2. QED
    BY <2>1 DEF Shape, files
<1>9. ASSUME NEW s \in Slugs, NEW c \in Columns[tool], NEW v \in Typed, Write(s, c, v)
      PROVE  Shape'
  <2>1. v \in Stored \cup {NULL}
    BY DEF Typed, Stored, Texts
  <2>2. bikes[s] \in Cells(tool)
    BY <1>9 DEF Write, Shape
  <2>3. [bikes[s] EXCEPT ![c] = v] \in Cells(tool)
    BY <2>1, <2>2 DEF Cells
  <2>4. bikes' = [bikes EXCEPT ![s] = [bikes[s] EXCEPT ![c] = v]]
    BY <1>9 DEF Write
  <2>5. bikes' \in [Slugs -> Cells(tool) \cup {Absent}]
    BY <2>3, <2>4 DEF Shape
  <2>6. writes' \in 0..MaxWrites
    BY <1>9, BoundAssumption DEF Write, Shape
  <2>7. filled' \subseteq Slugs \X Columns[tool]
    BY <1>9 DEF Write, Shape
  <2>8. UNCHANGED <<tool, files, recorded, stopped>>
    BY <1>9 DEF Write
  <2>9. QED
    BY <2>5, <2>6, <2>7, <2>8 DEF Shape, files
<1>10. ASSUME NEW s \in Slugs, Delete(s) PROVE Shape'
  <2>1. bikes' \in [Slugs -> Cells(tool) \cup {Absent}]
    BY <1>10 DEF Delete, Shape
  <2>2. writes' \in 0..MaxWrites
    BY <1>10, BoundAssumption DEF Delete, Shape
  <2>3. filled' \subseteq Slugs \X Columns[tool]
    BY <1>10 DEF Delete, Shape
  <2>4. UNCHANGED <<tool, files, recorded, stopped>>
    BY <1>10 DEF Delete
  <2>5. QED
    BY <2>1, <2>2, <2>3, <2>4 DEF Shape, files
<1>11. CASE UNCHANGED vars
  BY <1>11 DEF Shape, vars, files, database
<1>12. QED
  BY <1>1, <1>2, <1>3, <1>4, <1>5, <1>6, <1>7, <1>8, <1>9, <1>10, <1>11 DEF Next

------------------------------------------------------------------------------
(* Scripts are refused over flaws only *)

LEMMA SturdyStays ==
    ASSUME Shape, Vetted, Sturdy, [Next]_vars
    PROVE  Sturdy'
<1>1. CASE UNCHANGED <<tool, seeds, unchecked, stopped>>
  BY <1>1 DEF Sturdy, Flawed, Displaceless
<1>2. CASE Import
  <2>1. PICK name : /\ seeds' = Put(seeds, name, Staged(research))
                    /\ unchecked' = IF checked THEN unchecked \ {name} ELSE unchecked \cup {name}
                    /\ stopped' = stopped \ {name}
    BY <1>2 DEF Import
  <2>2. tool' = tool
    BY <1>2 DEF Import
  <2>3. Refused(Staged(research), TooWide(tool)) =>
           \/ Staged(research) = <<>>
           \/ ~checked /\ Oversized(Staged(research))
           \/ Displaceless(Staged(research))
    BY <1>2, StagedIsTaken DEF Import
  <2>4. ASSUME NEW f \in DOMAIN seeds', f \in stopped' \/ Refused(seeds'[f], TooWide(tool))
        PROVE  Flawed(f)'
    <3>1. CASE f = name
      <4>1. seeds'[f] = Staged(research) /\ f \notin stopped' /\ (~checked => f \in unchecked')
        BY <2>1, <3>1 DEF Put
      <4>2. QED
        BY <2>2, <2>3, <2>4, <4>1 DEF Flawed, Displaceless
    <3>2. CASE f # name
      <4>1. f \in DOMAIN seeds /\ seeds'[f] = seeds[f]
        BY <2>1, <3>2 DEF Put
      <4>2. (f \in stopped' => f \in stopped) /\ (f \in unchecked => f \in unchecked')
        BY <2>1, <3>2
      <4>3. Flawed(f)
        BY <2>4, <4>1, <4>2 DEF Sturdy
      <4>4. QED
        BY <2>2, <4>1, <4>2, <4>3 DEF Flawed, Displaceless
    <3>3. QED
      BY <3>1, <3>2
  <2>5. QED
    BY <2>2, <2>4 DEF Sturdy
<1>3. ASSUME NEW f \in DOMAIN seeds, Migrate(f) PROVE Sturdy'
  <2>1. /\ stopped' \subseteq {f}
        /\ stopped' # {} => Refused(seeds[f], TooWide(tool)) \/ Displaceless(seeds[f])
        /\ UNCHANGED <<tool, seeds, unchecked>>
    BY <1>3, MigrationEffect DEF files
  <2>2. ASSUME NEW g \in DOMAIN seeds, g \in stopped' \/ Refused(seeds[g], TooWide(tool))
        PROVE  Flawed(g)
    BY <2>1, <2>2 DEF Sturdy, Flawed
  <2>3. QED
    BY <2>1, <2>2 DEF Sturdy, Flawed, Displaceless
<1>4. ASSUME Next, ~Import, \A f \in DOMAIN seeds : ~Migrate(f)
      PROVE  UNCHANGED <<tool, seeds, unchecked, stopped>>
  BY <1>4 DEF Next, Measure, Collect, Split, Prune, Derive, Check, Write, Delete, files, database
<1>5. CASE UNCHANGED vars
  BY <1>1, <1>5 DEF vars, files, database
<1>6. QED
  BY <1>1, <1>2, <1>3, <1>4, <1>5

LEMMA VettedStays ==
    ASSUME Shape, Vetted, [Next]_vars
    PROVE  Vetted'
<1>1. CASE Check
  <2>1. UNCHANGED <<tool, research>> /\ tool \in {"brakes", "tyres", "price"} /\ Valid(research)
    BY <1>1 DEF Check
  <2>2. \A i \in DOMAIN research : research[i].slug \in list
    BY <2>1 DEF Valid, BrakesValid, TyresValid, PriceValid
  <2>3. SlugsOf(research) \subseteq Slugs
    BY <2>2 DEF SlugsOf, Shape
  <2>4. QED
    BY <2>1, <2>3 DEF Vetted
<1>2. CASE UNCHANGED <<tool, research, checked>>
  BY <1>2 DEF Vetted
<1>3. ASSUME NEW f \in DOMAIN seeds, Migrate(f) PROVE Vetted'
  BY <1>2, <1>3, MigrationEffect DEF files
<1>4. ASSUME Next, ~Check, \A f \in DOMAIN seeds : ~Migrate(f)
      PROVE  ~checked' \/ UNCHANGED <<tool, research, checked>>
  BY <1>4 DEF Next, Measure, Collect, Split, Prune, Derive, Import, Write, Delete, files
<1>5. CASE UNCHANGED vars
  BY <1>2, <1>5 DEF vars, files
<1>6. QED
  BY <1>1, <1>2, <1>3, <1>4, <1>5 DEF Vetted

------------------------------------------------------------------------------
(* What a script has put into the catalogue stays staged *)

LEMMA GrownStays ==
    ASSUME Shape, Grown, [Next]_vars
    PROVE  Grown'
<1>1. CASE UNCHANGED <<tool, seeds, research>>
  BY <1>1 DEF Grown
<1>2. CASE tool # "suspension"
  <2>1. tool' = tool
    BY DEF Next, Measure, Collect, Split, Prune, Derive, Check, Import, Write, Delete, vars,
           Migrate, MigrateBrakes, MigrateTyres, MigrateSuspension, MigratePrice,
           MigrateDescriptions, MigrateDisplacement, MigrateEngine, Runs
  <2>2. QED
    BY <1>2, <2>1 DEF Grown
<1>3. ASSUME tool = "suspension", NEW batch \in Batches[tool], Collect(batch) PROVE Grown'
  <2>1. /\ batch \in Seq(Entries(tool)) /\ research \in Seq(Entries(tool)) /\ tool \in Tools
        /\ {"long"} \in Widths
    BY BatchAssumption DEF Shape, Entries, Widths
  <2>2. research' = research \o batch /\ UNCHANGED <<tool, seeds>>
    BY <1>3 DEF Collect
  <2>3. research' \in Seq(Entries(tool))
    BY <2>1, <2>2
  <2>4. DOMAIN research \subseteq DOMAIN research' /\ \A i \in DOMAIN research : research'[i] = research[i]
    BY <2>1, <2>2
  <2>5. \A i \in DOMAIN research : SuspensionRows(research')[i] = SuspensionRows(research)[i]
    BY <2>4 DEF SuspensionRows, Rows
  <2>6. QED
    BY <2>2, <2>4, <2>5 DEF Grown
<1>4. ASSUME tool = "suspension", Import PROVE Grown'
  <2>1. Staged(research) = SuspensionRows(research) /\ SuspensionRows(research) = Rows(research, {"long"})
    BY <1>4 DEF Staged, SuspensionRows
  <2>2. DOMAIN Staged(research) = DOMAIN research
    BY <2>1 DEF Rows
  <2>3. seeds' = Put(seeds, SharedFile, Staged(research))
    BY <1>4 DEF Import, FileOf
  <2>4. UNCHANGED <<tool, research>>
    BY <1>4 DEF Import
  <2>5. \A f \in DOMAIN seeds' : f = SharedFile /\ seeds'[f] = Staged(research)
    BY <1>4, <2>3 DEF Put, Grown
  <2>6. QED
    BY <2>1, <2>2, <2>4, <2>5 DEF Grown
<1>5. ASSUME tool = "suspension", Next, ~Import, \A batch \in Batches[tool] : ~Collect(batch)
      PROVE  UNCHANGED <<tool, seeds, research>>
  <2>1. CASE \E f \in DOMAIN seeds : Migrate(f)
    BY <2>1, MigrationEffect DEF files
  <2>2. CASE ~\E f \in DOMAIN seeds : Migrate(f)
    BY <1>5, <2>2 DEF Next, Measure, Split, Prune, Derive, Check, Write, Delete, files, database
  <2>3. QED
    BY <2>1, <2>2
<1>6. CASE UNCHANGED vars
  BY <1>1, <1>6 DEF vars, files
<1>7. QED
  BY <1>1, <1>2, <1>3, <1>4, <1>5, <1>6
\* The suffix of a second pass is one that no script of those brands has.
LEMMA SuffixIsFree ==
    ASSUME Shape, tool = "brakes", NEW rows, NEW pass \in FreeSuffixes(rows)
    PROVE  FileOf(rows, pass) \notin DOMAIN seeds
<1> DEFINE brands == Brands(SlugsOf(rows))
           namesakes == {g \in DOMAIN seeds : g.brands = brands}
           taken == {f.pass : f \in namesakes}
           passOf == [g \in namesakes |-> g.pass]
<1>1. IsFiniteSet(namesakes)
  <2>1. namesakes \subseteq DOMAIN seeds
    OBVIOUS
  <2>2. QED
    BY <2>1, FS_Subset DEF Shape
<1>2. passOf \in Surjection(namesakes, taken)
  <2>1. passOf \in [namesakes -> taken]
    OBVIOUS
  <2>2. \A p \in taken : \E g \in namesakes : passOf[g] = p
    OBVIOUS
  <2>3. QED
    BY <2>1, <2>2 DEF Surjection
<1>3. IsFiniteSet(taken)
  <2> HIDE DEF namesakes, taken, passOf
  <2>1. QED
    BY <1>1, <1>2, FS_Surjection
<1> DEFINE n == Cardinality(taken)
<1>4. n \in Nat
  <2> HIDE DEF taken
  <2>1. QED
    BY <1>3, FS_CardinalityType
<1>5. \E p \in 0..n : p \notin taken
  <2> SUFFICES ASSUME \A p \in 0..n : p \in taken PROVE FALSE
    OBVIOUS
  <2> HIDE DEF taken, n
  <2>1. 0..n \subseteq taken
    OBVIOUS
  <2>2. Cardinality(0..n) <= Cardinality(taken)
    BY <2>1, <1>3, FS_Subset
  <2>3. Cardinality(0..n) = n + 1
    BY <1>4, FS_Interval
  <2>4. QED
    BY <2>2, <2>3, <1>4 DEF n
<1>6. FreeSuffixes(rows) = {CHOOSE p \in 0..n : p \notin taken}
  BY DEF FreeSuffixes
<1>7. pass \notin taken
  <2> HIDE DEF taken, n
  <2>1. QED
    BY <1>5, <1>6
<1>8. FileOf(rows, pass) = [brands |-> brands, pass |-> pass]
  BY DEF FileOf, BrakesFile
<1>9. QED
  BY <1>7, <1>8

LEMMA AppliedRowsStay ==
    ASSUME Shape, Grown, AppliedRowsKept, [Next]_vars
    PROVE  AppliedRowsKept'
<1>1. tool' = tool
  BY DEF Next, Measure, Collect, Split, Prune, Derive, Check, Import, Write, Delete, vars,
         Migrate, MigrateBrakes, MigrateTyres, MigrateSuspension, MigratePrice,
         MigrateDescriptions, MigrateDisplacement, MigrateEngine, Runs
<1> SUFFICES ASSUME tool \in {"brakes", "suspension"}, StillStaged PROVE StillStaged'
  BY <1>1 DEF AppliedRowsKept
<1>2. ASSUME UNCHANGED seeds, filled' \subseteq filled PROVE StillStaged'
  BY <1>2 DEF StillStaged
<1>3. ASSUME Import PROVE StillStaged'
  <2>1. PICK pass \in FreeSuffixes(Staged(research)) :
           seeds' = Put(seeds, FileOf(Staged(research), pass), Staged(research))
    BY <1>3 DEF Import
  <2>2. filled' = filled
    BY <1>3 DEF Import
  <2> DEFINE name == FileOf(Staged(research), pass)
  <2>3. ASSUME NEW f \in DOMAIN seeds, NEW i \in DOMAIN seeds[f]
        PROVE  f \in DOMAIN seeds' /\ i \in DOMAIN seeds'[f] /\ seeds'[f][i] = seeds[f][i]
    <3>1. f \in DOMAIN seeds' /\ seeds'[f] = IF f = name THEN Staged(research) ELSE seeds[f]
      BY <2>1 DEF Put
    <3>2. CASE tool = "brakes"
      <4>1. f # name
        BY <3>2, SuffixIsFree
      <4>2. QED
        BY <3>1, <4>1
    <3>3. CASE tool = "suspension"
      <4>1. Staged(research) = SuspensionRows(research) /\ DOMAIN Staged(research) = DOMAIN research
        BY <3>3 DEF Staged, SuspensionRows, Rows
      <4>2. DOMAIN seeds[f] \subseteq DOMAIN research /\ seeds[f][i] = SuspensionRows(research)[i]
        BY <3>3 DEF Grown
      <4>3. QED
        BY <3>1, <4>1, <4>2
    <3>4. QED
      BY <3>2, <3>3
  <2>4. QED
    BY <2>2, <2>3 DEF StillStaged
<1>4. ASSUME NEW f \in DOMAIN seeds, Migrate(f) PROVE StillStaged'
  <2>1. /\ seeds' = seeds
        /\ \A cell \in filled' \ filled : \E i \in DOMAIN seeds[f] :
              seeds[f][i].slug = cell[1] /\ seeds[f][i].values[cell[2]] # NULL
    BY <1>4, MigrationEffect DEF files
  <2>2. ASSUME NEW cell \in filled'
        PROVE  \E g \in DOMAIN seeds : \E i \in DOMAIN seeds[g] :
                  seeds[g][i].slug = cell[1] /\ seeds[g][i].values[cell[2]] # NULL
    <3>1. CASE cell \in filled
      BY <3>1 DEF StillStaged
    <3>2. CASE cell \notin filled
      BY <2>1, <3>2
    <3>3. QED
      BY <3>1, <3>2
  <2>3. QED
    BY <2>1, <2>2 DEF StillStaged
<1>5. ASSUME Next, ~Import, \A f \in DOMAIN seeds : ~Migrate(f)
      PROVE  UNCHANGED seeds /\ filled' \subseteq filled
  BY <1>5 DEF Next, Measure, Collect, Split, Prune, Derive, Check, Write, Delete, files, database
<1>6. CASE UNCHANGED vars
  BY <1>2, <1>6 DEF vars, files, database
<1>7. QED
  BY <1>2, <1>3, <1>4, <1>5, <1>6

LEMMA SpecSound == Spec => []Sound
<1>1. Init => Sound
  BY InitSound
<1>2. Sound /\ [Next]_vars => Sound'
  BY ShapeStays, SturdyStays, VettedStays, GrownStays, AppliedRowsStay DEF Sound
<1>3. QED
  BY <1>1, <1>2, PTL DEF Spec

------------------------------------------------------------------------------
(* The theorems *)

\* Whatever the tools stage and admins write, the files, the catalogue and the history hold
\* values of their types: no importer writes the text "null" for a column that is not there.
THEOREM TypeCorrect == Spec => []TypeOK
<1>1. Sound => TypeOK
  <2> SUFFICES ASSUME Shape PROVE TypeOK
    BY DEF Sound
  <2>1. \A s \in Slugs : bikes[s] = Absent \/ bikes[s] \in [Columns[tool] -> Stored \cup {NULL}]
    BY DEF Shape, Cells
  <2>2. SlugsOf(research) \subseteq Slugs \cup Odd \cup Long
    BY EntriesOfFile DEF Shape, SlugsOf
  <2>3. \A f \in DOMAIN seeds : \A i \in DOMAIN seeds[f] :
            seeds[f][i].values \in [Columns[tool] -> Stored \cup {NULL}]
    BY RowsOfScript DEF Cells
  <2>4. QED
    BY <2>1, <2>2, <2>3 DEF TypeOK, Shape
<1>2. QED
  BY <1>1, SpecSound, PTL

\* A generated script that runs, however old the worklist it was made from, fills columns
\* that are empty: it replaces no value, and creates and removes no bike.
THEOREM ScriptsFillGaps == Spec => OnlyGapsFilled
<1>1. ASSUME Sound, [Next]_vars
      PROVE  [(\E f \in DOMAIN seeds : Migrate(f)) =>
                \A s \in Slugs :
                    /\ (bikes[s] = Absent) = (bikes'[s] = Absent)
                    /\ bikes[s] # Absent =>
                          \A c \in Columns[tool] :
                              \/ bikes[s][c] \in {NULL, bikes'[s][c]}
                              \/ tool = "descriptions" /\ bikes[s][c] = "blank"]_vars
  <2> SUFFICES ASSUME NEW f \in DOMAIN seeds, Migrate(f), NEW s \in Slugs
               PROVE  /\ (bikes[s] = Absent) = (bikes'[s] = Absent)
                      /\ bikes[s] # Absent =>
                            \A c \in Columns[tool] :
                                \/ bikes[s][c] \in {NULL, bikes'[s][c]}
                                \/ tool = "descriptions" /\ bikes[s][c] = "blank"
    OBVIOUS
  <2>1. /\ bikes[s] = Absent <=> bikes'[s] = Absent
        /\ bikes[s] # Absent =>
              \A c \in Columns[tool] :
                 \/ bikes[s][c] \in {NULL, bikes'[s][c]}
                 \/ tool = "descriptions" /\ bikes[s][c] = "blank"
    BY <1>1, MigrationEffect DEF Sound
  <2>2. (bikes[s] = Absent) = (bikes'[s] = Absent)
    BY <2>1
  <2>3. QED
    BY <2>1, <2>2
<1>2. QED
  BY <1>1, SpecSound, PTL DEF Spec, OnlyGapsFilled

\* Whatever was researched and has happened to the catalogue since, a script that an importer
\* wrote gives up a boot over one of three flaws only: it stages nothing; no validator accepted
\* its file, and a slug or a figure of it does not fit into its column; or it is the engine's,
\* and a row of it brings no displacement.
THEOREM ScriptsStopBootsOnlyOverFlaws == Spec => []OnlyFlawsStopBoots
<1>1. Sound => OnlyFlawsStopBoots
  BY DEF Sound, Shape, Sturdy, Flawed, Displaceless, OnlyFlawsStopBoots
<1>2. QED
  BY <1>1, SpecSound, PTL

\* What a brakes or suspension script has filled is staged by a script that is still there:
\* a second pass over the same brands gets a file of its own, and the suspension's one file
\* only grows.
THEOREM AppliedRowsStayStaged == Spec => []AppliedRowsKept
<1>1. Sound => AppliedRowsKept
  BY DEF Sound
<1>2. QED
  BY <1>1, SpecSound, PTL

\* A research file of brakes or tyres that its validator has accepted can be imported as long
\* as nobody touches it, whatever slugs have left the worklist since.
THEOREM CheckedFilesImport == Spec => []StaleListsDoNotStopImports
<1>1. Init => StaleListsDoNotStopImports
  BY DEF Init, StaleListsDoNotStopImports
<1>2. ASSUME StaleListsDoNotStopImports, [Next]_vars PROVE StaleListsDoNotStopImports'
  <2>1. ASSUME UNCHANGED <<tool, research>>, checked' => checked PROVE StaleListsDoNotStopImports'
    <3>1. CASE tool = "brakes"
      <4>1. checked => BrakesAccepted(research)
        BY <1>2, <3>1 DEF StaleListsDoNotStopImports, Accepted
      <4>2. checked' => BrakesAccepted(research')
        BY <2>1, <4>1 DEF BrakesAccepted
      <4>3. QED
        BY <2>1, <3>1, <4>2 DEF StaleListsDoNotStopImports, Accepted
    <3>2. CASE tool = "tyres"
      <4>1. checked => TyresAccepted(research)
        BY <1>2, <3>2 DEF StaleListsDoNotStopImports, Accepted
      <4>2. checked' => TyresAccepted(research')
        BY <2>1, <4>1 DEF TyresAccepted
      <4>3. QED
        BY <2>1, <3>2, <4>2 DEF StaleListsDoNotStopImports, Accepted
    <3>3. CASE tool \notin {"brakes", "tyres"}
      BY <2>1, <3>3 DEF StaleListsDoNotStopImports
    <3>4. QED
      BY <3>1, <3>2, <3>3
  <2>2. ASSUME checked' = FALSE PROVE StaleListsDoNotStopImports'
    BY <2>2 DEF StaleListsDoNotStopImports
  <2>3. CASE Check
    <3>1. UNCHANGED <<tool, research>> /\ Valid(research)
      BY <2>3 DEF Check
    <3>2. CASE tool = "brakes"
      <4>1. BrakesValid(research)
        BY <3>1, <3>2 DEF Valid
      <4>2. BrakesAccepted(research')
        BY <3>1, <4>1 DEF BrakesValid, BrakesAccepted
      <4>3. QED
        BY <3>1, <3>2, <4>2 DEF StaleListsDoNotStopImports, Accepted
    <3>3. CASE tool = "tyres"
      <4>1. TyresValid(research)
        BY <3>1, <3>3 DEF Valid
      <4>2. TyresAccepted(research')
        BY <3>1, <4>1 DEF TyresValid, TyresAccepted
      <4>3. QED
        BY <3>1, <3>3, <4>2 DEF StaleListsDoNotStopImports, Accepted
    <3>4. CASE tool \notin {"brakes", "tyres"}
      BY <3>1, <3>4 DEF StaleListsDoNotStopImports
    <3>5. QED
      BY <3>2, <3>3, <3>4
  <2>4. CASE \E batch \in Batches[tool] : Collect(batch) \/ Split(batch)
    BY <2>2, <2>4 DEF Collect, Split
  <2>5. CASE Prune
    BY <2>2, <2>5 DEF Prune
  <2>6. CASE \E f \in DOMAIN seeds : Migrate(f)
    BY <2>1, <2>6 DEF Migrate, MigrateBrakes, MigrateTyres, MigrateSuspension, MigratePrice,
       MigrateDescriptions, MigrateDisplacement, MigrateEngine, Runs, files
  <2>7. CASE Measure \/ Derive \/ Import
    BY <2>1, <2>7 DEF Measure, Derive, Import
  <2>8. CASE \E s \in Slugs : Delete(s) \/ \E c \in Columns[tool], v \in Typed : Write(s, c, v)
    BY <2>1, <2>8 DEF Delete, Write, files
  <2>9. CASE UNCHANGED vars
    BY <2>1, <2>9 DEF vars, files
  <2>10. QED
    <3>1. CASE Next
      BY <2>3, <2>4, <2>5, <2>6, <2>7, <2>8, <3>1 DEF Next
    <3>2. QED
      BY <1>2, <2>9, <3>1
<1>3. QED
  BY <1>1, <1>2, PTL DEF Spec
==============================================================================
