------------------------------ MODULE SheetsProofs ------------------------------
(***************************************************************************)
(* Proofs about Sheets, for every snapshot, gallery and number of runs:    *)
(* what a row keeps of its sheet, that the rows of a script pass the       *)
(* checks of their table and own their photos' copies, and that the        *)
(* copies are there before the script is.                                  *)
(*                                                                         *)
(* How the figures of a row are read plays no part: whatever measure and   *)
(* bounded return, the rules below put the columns of a row in order.      *)
(***************************************************************************)
EXTENDS Sheets, FiniteSetTheorems, NaturalsInduction, WellFoundedInduction, TLAPS

------------------------------------------------------------------------------
(* Merged records and chosen rows *)

\* The first record of a merge wins, the second fills what it does not have.
LEMMA OverFields ==
    ASSUME NEW f, NEW g
    PROVE  /\ DOMAIN Over(f, g) = DOMAIN f \cup DOMAIN g
           /\ \A c \in DOMAIN f : Over(f, g)[c] = f[c]
           /\ \A c \in DOMAIN g \ DOMAIN f : Over(f, g)[c] = g[c]
BY DEF Over

\* At(rs, places) has each place's element once.
LEMMA AtPlaces ==
    ASSUME NEW rs, NEW len \in Nat, DOMAIN rs = 1 .. len, NEW places \in SUBSET DOMAIN rs
    PROVE  /\ Cardinality(places) \in Nat
           /\ DOMAIN At(rs, places) = 1 .. Cardinality(places)
           /\ \A n \in DOMAIN At(rs, places) : \E i \in places : At(rs, places)[n] = rs[i]
           /\ \A m, n \in DOMAIN At(rs, places) : m # n =>
                \E i, j \in places : i # j /\ At(rs, places)[m] = rs[i] /\ At(rs, places)[n] = rs[j]
<1> DEFINE Rank(i) == Cardinality({j \in places : j <= i})
           n == Cardinality(places)
           rank == [i \in places |-> Rank(i)]
           Nth(m) == CHOOSE i \in places : Rank(i) = m
<1>1. places \subseteq 1 .. len /\ \A i \in places : i \in Nat
  OBVIOUS
<1>2. IsFiniteSet(places) /\ n \in Nat
  <2>1. IsFiniteSet(1 .. len)
    BY FS_Interval
  <2>2. IsFiniteSet(places)
    BY <1>1, <2>1, FS_Subset
  <2>3. QED
    BY <2>2, FS_CardinalityType
<1>3. ASSUME NEW i \in places PROVE Rank(i) \in 1 .. n
  <2> DEFINE S == {j \in places : j <= i}
  <2>1. S \subseteq places /\ i \in S
    BY <1>1
  <2> HIDE DEF S
  <2>2. IsFiniteSet(S) /\ Cardinality(S) <= n /\ Cardinality(S) \in Nat
    BY <1>2, <2>1, FS_Subset, FS_CardinalityType
  <2>3. Cardinality(S) # 0
    BY <2>1, <2>2, FS_EmptySet
  <2>4. Cardinality(S) \in 1 .. n
    BY <1>2, <2>2, <2>3
  <2>5. QED
    BY <2>4 DEF S
<1>4. ASSUME NEW i \in places, NEW k \in places, i < k PROVE Rank(i) # Rank(k)
  <2> DEFINE S == {j \in places : j <= i}
             T == {j \in places : j <= k}
  <2>1. S \subseteq T /\ k \in T /\ k \notin S /\ T \subseteq places
    <3>1. i \in Nat /\ k \in Nat
      BY <1>1
    <3>2. ~(k <= i) /\ k <= k /\ \A j \in Nat : j <= i => j <= k
      BY <1>4, <3>1
    <3>3. QED
      BY <1>1, <3>2
  <2> HIDE DEF S, T
  <2>2. IsFiniteSet(T)
    BY <1>2, <2>1, FS_Subset
  <2>3. Cardinality(T) = Cardinality(S) => T = S
    BY <2>1, <2>2, FS_Subset
  <2>4. Cardinality(S) # Cardinality(T)
    BY <2>1, <2>3
  <2>5. QED
    BY <2>4 DEF S, T
<1>5. rank \in Injection(places, 1 .. n)
  <2>1. rank \in [places -> 1 .. n]
    BY <1>3
  <2>2. ASSUME NEW i \in places, NEW k \in places, i # k PROVE rank[i] # rank[k]
    <3>1. i < k \/ k < i
      BY <1>1, <2>2
    <3>2. QED
      BY <1>4, <3>1
  <2>3. IsInjective(rank)
    BY <2>1, <2>2 DEF IsInjective
  <2>4. QED
    BY <2>1, <2>3 DEF Injection
<1>6. \A m \in 1 .. n : \E i \in places : Rank(i) = m
  <2>1. IsFiniteSet(1 .. n) /\ Cardinality(1 .. n) = n
    BY <1>2, FS_Interval
  <2>2. rank \in Surjection(places, 1 .. n)
    <3> HIDE DEF rank
    <3>1. QED
      BY <1>5, <1>2, <2>1, FS_Injection
  <2>3. \A m \in 1 .. n : \E i \in places : rank[i] = m
    <3> HIDE DEF rank
    <3>1. QED
      BY <2>2 DEF Surjection
  <2>4. QED
    BY <2>3
<1>7. \A m \in 1 .. n : Nth(m) \in places /\ Rank(Nth(m)) = m
  <2> HIDE DEF Rank
  <2>1. QED
    BY <1>6
<1>8. At(rs, places) = [m \in 1 .. n |-> rs[Nth(m)]]
  BY DEF At
<1> HIDE DEF Nth, Rank
<1>9. DOMAIN At(rs, places) = 1 .. n /\ \A m \in 1 .. n : At(rs, places)[m] = rs[Nth(m)]
  BY <1>8
<1>10. \A k, m \in 1 .. n : k # m => Nth(k) # Nth(m)
  BY <1>7
<1>11. QED
  BY <1>2, <1>7, <1>9, <1>10

\* The least of some numbers is one of them.
LEMMA LeastOf ==
    ASSUME NEW S \in SUBSET Nat, S # {}
    PROVE  Min(S) \in S
<1> DEFINE Below == {p \in Nat \X Nat : p[1] < p[2]}
<1>1. IsWellFoundedOn(Below, Nat)
  BY NatLessThanWellFounded DEF OpToRel
<1>2. PICK x \in S : \A y \in S : ~(<<y, x>> \in Below)
  <2> HIDE DEF Below
  <2>1. QED
    BY <1>1, WFMin
<1>3. ASSUME NEW y \in S PROVE x <= y
  <2>1. x \in Nat /\ y \in Nat /\ ~(<<y, x>> \in Below)
    BY <1>2
  <2>2. ~(y < x)
    BY <2>1
  <2>3. QED
    BY <2>1, <2>2
<1>4. QED
  BY <1>2, <1>3 DEF Min

------------------------------------------------------------------------------
(* The columns of a row *)

Figures == Int \cup {NULL}

\* A figure that is bounded is a number or NULL.
LEMMA BoundedFigures ==
    ASSUME NEW v, NEW least \in Nat, NEW most \in Nat
    PROVE  bounded(v, least, most) \in Figures /\ bounded(v, least, most) \in {v, NULL}
BY DEF bounded, Figures

\* Of two weights in the wrong order the dry one goes.
LEMMA WeightsInOrder ==
    ASSUME NEW kerb \in Figures, NEW dry \in Figures
    PROVE  NULL \in {kerb, BelowKerb(kerb, dry)} \/ BelowKerb(kerb, dry) <= kerb
BY DEF BelowKerb, Figures

ColumnNames == {"slug", "bore", "stroke", "hp", "hpRpm", "nm", "nmRpm", "speed", "kerb", "dry", "tank", "frame", "tyre"}

\* The columns every prose importer reads have these names, and figures for the weights.
LEMMA ColumnsOf ==
    ASSUME NEW brand, NEW sheet, NEW litres
    PROVE  LET cols == Columns(brand, sheet, litres) IN
           /\ DOMAIN cols = ColumnNames
           /\ cols.slug = sheet.slug /\ cols.kerb \in Figures /\ cols.dry \in Figures
<1>1. \A v : bounded(v, 20, 500) \in Figures
  BY BoundedFigures
<1>2. QED
  BY <1>1 DEF Columns, ColumnNames

\* A photo that is stored is one of the sheet's, and an image.
Photo(path) == path = NULL \/ (path \in Paths /\ ExtOf[path] \in Images)

\* A photo that is picked is one of the gallery and an image.
LEMMA ImagesOnly ==
    ASSUME NEW sheet, sheet.photos \in Seq(Paths)
    PROVE  Photo(imageFor(sheet))
<1> DEFINE there == {i \in DOMAIN sheet.photos :
                        photos[sheet.photos[i]] # NULL /\ ExtOf[sheet.photos[i]] \in Images}
<1>1. \A i \in there : i \in Nat /\ sheet.photos[i] \in Paths /\ ExtOf[sheet.photos[i]] \in Images
  OBVIOUS
<1>2. imageFor(sheet) = IF there = {} THEN NULL ELSE sheet.photos[Min(there)]
  BY DEF imageFor
<1>3. there # {} => Min(there) \in there
  <2>1. there \in SUBSET Nat
    BY <1>1
  <2> HIDE DEF there
  <2>2. QED
    BY <2>1, LeastOf
<1> HIDE DEF there
<1>4. CASE there = {}
  BY <1>2, <1>4 DEF Photo
<1>5. CASE there # {}
  <2>1. PICK i \in there : imageFor(sheet) = sheet.photos[i]
    BY <1>2, <1>3, <1>5
  <2>2. QED
    BY <1>1, <2>1 DEF Photo
<1>6. QED
  BY <1>4, <1>5

------------------------------------------------------------------------------
(* The engine *)

EngineFields == {"phrase", "count", "explicit", "valves", "each"}

\* What the description of an engine says, if it says anything, is the count beside it.
Agrees(brand, text, count) ==
    (text.explicit = NULL /\ count \in {1, 2, 3, 4, 6}) => cylindersOf(brand, text) \in {NULL, count}

\* A description is rewritten so that the count read from it is that of the column.
LEMMA RewrittenEngine ==
    ASSUME NEW brand \in {"harley", "kawasaki", "bmw", "enfield"}, NEW engine,
           DOMAIN engine = EngineFields, NEW cc, NEW bore, NEW stroke
    PROVE  LET e == EngineOf(brand, engine, cc, bore, stroke) IN
           /\ DOMAIN e = {"text", "cylinders", "valves"}
           /\ Agrees(brand, e.text, e.cylinders)
<1> DEFINE swept == cylindersFromSweptVolume(cc, bore, stroke)
           stated == Stated(brand, engine)
           said == Overruled(engine, stated, swept)
           count == Within(Prefer(swept, stated), 1, 8)
<1>1. EngineOf(brand, engine, cc, bore, stroke) = Engine(said, count)
  BY DEF EngineOf, Checked
<1>2. \A t, n : DOMAIN Engine(t, n) = {"text", "cylinders", "valves"}
                /\ Engine(t, n).text = t /\ Engine(t, n).cylinders = n
  BY DEF Engine
<1>3. \A n : Within(n, 1, 8) \in {n, NULL}
  BY DEF Within
<1>4. NULL \notin {1, 2, 3, 4, 6} /\ \A n \in {1, 2, 3, 4, 6} : n \in 1 .. 8
  BY NullAssumption
<1>5. "cylinder" \in Phrases(brand)
  BY DEF Phrases
<1> HIDE DEF swept, stated
<1>6. Agrees(brand, said, count)
  <2>1. CASE NULL \notin {stated, swept} /\ swept # stated
    <3>1. said = relabelLayout(engine, swept) /\ Prefer(swept, stated) = swept
      BY <2>1 DEF Overruled, Prefer
    <3>2. CASE swept \in {1, 2, 3, 4, 6} /\ engine.explicit = NULL
      <4>1. said.phrase = "cylinder" /\ said.count = swept
        BY <3>1, <3>2 DEF relabelLayout, EngineFields
      <4>2. count = swept
        BY <3>1, <3>2, <1>4, <2>1 DEF Within
      <4>3. QED
        BY <4>1, <4>2, <1>5 DEF Agrees, cylindersOf
    <3>3. CASE ~(swept \in {1, 2, 3, 4, 6} /\ engine.explicit = NULL)
      <4>1. said = engine
        BY <3>1, <3>3 DEF relabelLayout
      <4>2. count \in {swept, NULL}
        BY <1>3, <3>1
      <4>3. QED
        BY <3>3, <4>1, <4>2, <1>4 DEF Agrees
    <3>4. QED
      BY <3>2, <3>3
  <2>2. CASE ~(NULL \notin {stated, swept} /\ swept # stated)
    <3>1. said = engine
      BY <2>2 DEF Overruled
    <3>2. engine.explicit = NULL => stated = cylindersOf(brand, engine)
      BY DEF stated, Stated
    <3>3. stated # NULL => Prefer(swept, stated) = stated
      BY <2>2 DEF Prefer
    <3>4. stated # NULL => count \in {stated, NULL}
      BY <1>3, <3>3
    <3>5. QED
      BY <3>1, <3>2, <3>4, <1>4 DEF Agrees
  <2>3. QED
    BY <2>1, <2>2
<1>7. QED
  BY <1>1, <1>2, <1>6------------------------------------------------------------------------------
(* The row of a sheet *)

Ordered(row) == NULL \in {row.kerb, row.dry} \/ row.dry <= row.kerb

\* Completing the columns puts the weights in order and the engine beside its description.
LEMMA CompletedOf ==
    ASSUME NEW brand, NEW sheet, DOMAIN sheet.engine = EngineFields, NEW litres, NEW cc
    PROVE  LET r == Completed(brand, sheet, Columns(brand, sheet, litres), cc) IN
           /\ DOMAIN r = ColumnNames \cup {"cc", "text", "cylinders", "valves"}
           /\ r.slug = sheet.slug /\ Ordered(r)
           /\ brand \in {"harley", "kawasaki", "bmw", "enfield"} => Agrees(brand, r.text, r.cylinders)
<1> DEFINE cols == Columns(brand, sheet, litres)
           weighed == [cols EXCEPT !.dry = BelowKerb(cols.kerb, cols.dry)]
           engine == IF brand = "yamaha" THEN YamahaEngine(sheet.engine)
                     ELSE EngineOf(brand, sheet.engine, cc, cols.bore, cols.stroke)
           r == Completed(brand, sheet, cols, cc)
<1>1. DOMAIN cols = ColumnNames /\ cols.slug = sheet.slug /\ cols.kerb \in Figures /\ cols.dry \in Figures
  BY ColumnsOf
<1>2. DOMAIN engine = {"text", "cylinders", "valves"}
  BY DEF YamahaEngine, EngineOf, Checked, Engine
<1>3. brand \in {"harley", "kawasaki", "bmw", "enfield"} => Agrees(brand, engine.text, engine.cylinders)
  BY RewrittenEngine
<1>4. r = Over(weighed, Over([cc |-> cc], engine))
  BY DEF Completed
<1> HIDE DEF cols, engine, r
<1>5. DOMAIN weighed = ColumnNames /\ weighed.slug = sheet.slug /\ weighed.kerb = cols.kerb
      /\ weighed.dry = BelowKerb(cols.kerb, cols.dry)
  BY <1>1 DEF ColumnNames
<1>6. Ordered(weighed)
  BY <1>1, <1>5, WeightsInOrder DEF Ordered
<1> HIDE DEF weighed
<1> DEFINE rest == Over([cc |-> cc], engine)
<1>7. /\ DOMAIN rest = {"cc", "text", "cylinders", "valves"}
      /\ rest.text = engine.text /\ rest.cylinders = engine.cylinders
  BY <1>2 DEF Over
<1> HIDE DEF rest
<1>8. /\ DOMAIN r = ColumnNames \cup {"cc", "text", "cylinders", "valves"}
      /\ r.slug = weighed.slug /\ r.kerb = weighed.kerb /\ r.dry = weighed.dry
      /\ r.text = rest.text /\ r.cylinders = rest.cylinders
  BY <1>4, <1>5, <1>7 DEF ColumnNames, rest, Over
<1>9. QED
  BY <1>3, <1>5, <1>6, <1>7, <1>8 DEF Ordered, r, cols

CompletedNames == ColumnNames \cup {"cc", "text", "cylinders", "valves"}
OtherNames == {"ratio", "drive", "use", "emission", "seat", "laden", "category", "creates", "tail", "photo"}

\* A brand's row has the columns of Completed and those of its own.
LEMMA BrandRow ==
    ASSUME NEW r, DOMAIN r = CompletedNames, NEW own, DOMAIN own = OtherNames
    PROVE  LET row == Over(r, own) IN
           /\ DOMAIN row = CompletedNames \cup OtherNames
           /\ row.slug = r.slug /\ row.kerb = r.kerb /\ row.dry = r.dry
           /\ row.text = r.text /\ row.cylinders = r.cylinders
           /\ row.ratio = own.ratio /\ row.tail = own.tail /\ row.photo = own.photo
BY DEF Over, CompletedNames, ColumnNames, OtherNames

\* What RowsPassTheChecks, EngineTextAgrees and CopiesAreOwned ask of a row by itself.
Sound(by, row) ==
    /\ Photo(row.photo)
    /\ by \notin {"triumph", "research"} => Ordered(row)
    /\ by \in Typed => ~Contradicts(row.cc, row.bore, row.stroke, row.cylinders, 5)
    /\ by = "research" =>
          /\ ~Contradicts(row.cc, row.bore, row.stroke, row.cylinders, 1)
          /\ NULL \in {row.hpRpm, row.nmRpm} \/ row.nmRpm <= row.hpRpm
    /\ by \in {"harley", "kawasaki", "bmw", "enfield"} => Agrees(by, row.text, row.cylinders)

\* What PublishedWins asks of a row and its sheet.
Published(row, sheet) ==
    /\ RatioIn(sheet.ratio, {":", ";"}) \in {NULL, row.ratio}
    /\ longTailSpecs(sheet) \in {NULL, row.tail}

ReadFrom(by, row, sheet) ==
    /\ row.slug = sheet.slug /\ Sound(by, row)
    /\ by = "kawasaki" => Published(row, sheet)

\* The rows of the four brands that stage every column keep what they are asked for.
LEMMA FullBrandRows ==
    ASSUME NEW sheet, DOMAIN sheet.engine = EngineFields, sheet.photos \in Seq(Paths)
    PROVE  /\ importer = "harley" => ReadFrom(importer, HarleyRow(sheet), sheet)
           /\ importer = "enfield" => ReadFrom(importer, EnfieldRow(sheet), sheet)
           /\ importer = "yamaha" => ReadFrom(importer, YamahaRow(sheet), sheet)
           /\ importer = "bmw" => ReadFrom(importer, BmwRow(sheet), sheet)
<1>1. ASSUME importer \in {"harley", "enfield", "yamaha", "bmw"}, NEW litres, NEW cc,
             NEW own, DOMAIN own = OtherNames, own.photo = imageFor(sheet)
      PROVE  ReadFrom(importer, Over(Completed(importer, sheet, Columns(importer, sheet, litres), cc), own), sheet)
  <2> DEFINE r == Completed(importer, sheet, Columns(importer, sheet, litres), cc)
             row == Over(r, own)
  <2>1. /\ DOMAIN r = CompletedNames /\ r.slug = sheet.slug /\ Ordered(r)
        /\ importer \in {"harley", "kawasaki", "bmw", "enfield"} => Agrees(importer, r.text, r.cylinders)
    <3>1. PICK brand : brand = importer
      OBVIOUS
    <3>2. LET c == Completed(brand, sheet, Columns(brand, sheet, litres), cc) IN
          /\ DOMAIN c = ColumnNames \cup {"cc", "text", "cylinders", "valves"}
          /\ c.slug = sheet.slug /\ Ordered(c)
          /\ brand \in {"harley", "kawasaki", "bmw", "enfield"} => Agrees(brand, c.text, c.cylinders)
      BY CompletedOf
    <3>3. QED
      BY <3>1, <3>2 DEF CompletedNames
  <2> HIDE DEF r
  <2>2. /\ row.slug = r.slug /\ row.kerb = r.kerb /\ row.dry = r.dry
        /\ row.text = r.text /\ row.cylinders = r.cylinders /\ row.photo = imageFor(sheet)
    BY <1>1, <2>1, BrandRow
  <2> HIDE DEF row
  <2>3. Sound(importer, row) /\ row.slug = sheet.slug
    BY <1>1, <2>1, <2>2, ImagesOnly DEF Sound, Ordered, Typed
  <2>4. QED
    BY <1>1, <2>3 DEF ReadFrom, row, r
<1>2. importer = "harley" => ReadFrom(importer, HarleyRow(sheet), sheet)
  <2> DEFINE seat == [text |-> sheet.seat, laden |-> sheet.laden, unladen |-> sheet.unladen]
             own == [ratio |-> compressionOf(sheet.ratio, {":", ";", "."}),
                     drive |-> FirstOf(sheet.drive), use |-> HarleyConsumption("harley", sheet.use),
                     emission |-> EmissionAlias(sheet.emission),
                     seat |-> seatHeightOf(seat), laden |-> ladenSeatHeight(seat),
                     category |-> LabelOr(sheet, "CRUISER"), creates |-> TRUE,
                     tail |-> longTailSpecs(sheet), photo |-> imageFor(sheet)]
  <2>1. DOMAIN own = OtherNames /\ own.photo = imageFor(sheet)
    BY DEF OtherNames
  <2>2. HarleyRow(sheet) = Over(Completed("harley", sheet, Columns("harley", sheet, Metric),
                                          Displacement("harley", sheet)), own)
    BY DEF HarleyRow
  <2> HIDE DEF own
  <2>3. QED
    BY <1>1, <2>1, <2>2
<1>3. importer = "enfield" => ReadFrom(importer, EnfieldRow(sheet), sheet)
  <2> DEFINE own == [ratio |-> compressionOf(sheet.ratio, {":", "."}),
                     drive |-> FirstOf(sheet.drive), use |-> HarleyConsumption("enfield", sheet.use),
                     emission |-> EmissionAlias(sheet.emission), seat |-> Seat("enfield", sheet, {"bare"}),
                     laden |-> NULL, category |-> LabelOr(sheet, "CRUISER"), creates |-> TRUE,
                     tail |-> longTailSpecs(sheet), photo |-> imageFor(sheet)]
  <2>1. DOMAIN own = OtherNames /\ own.photo = imageFor(sheet)
    BY DEF OtherNames
  <2>2. EnfieldRow(sheet) = Over(Completed("enfield", sheet, Columns("enfield", sheet, Metric),
                                           Displacement("enfield", sheet)), own)
    BY DEF EnfieldRow
  <2> HIDE DEF own
  <2>3. QED
    BY <1>1, <2>1, <2>2
<1>4. importer = "yamaha" => ReadFrom(importer, YamahaRow(sheet), sheet)
  <2> DEFINE own == [ratio |-> compressionOf(sheet.ratio, {":", "."}),
                     drive |-> FirstOf(sheet.drive), use |-> HarleyConsumption("yamaha", sheet.use),
                     emission |-> EmissionAlias(sheet.emission), seat |-> Seat("yamaha", sheet, {"bare"}),
                     laden |-> NULL, category |-> LabelOr(sheet, "NAKED"), creates |-> TRUE,
                     tail |-> longTailSpecs(sheet), photo |-> imageFor(sheet)]
  <2>1. DOMAIN own = OtherNames /\ own.photo = imageFor(sheet)
    BY DEF OtherNames
  <2>2. YamahaRow(sheet) = Over(Completed("yamaha", sheet, Columns("yamaha", sheet, Metric),
                                          Displacement("yamaha", sheet)), own)
    BY DEF YamahaRow
  <2> HIDE DEF own
  <2>3. QED
    BY <1>1, <2>1, <2>2
<1>5. importer = "bmw" => ReadFrom(importer, BmwRow(sheet), sheet)
  <2> DEFINE own == [ratio |-> compressionOf(sheet.ratio, {":", ";", "."}),
                     drive |-> FirstOf(sheet.drive), use |-> BmwConsumption(sheet.use),
                     emission |-> EmissionIn(sheet.emission), seat |-> Seat("bmw", sheet, {"bare", "inches"}),
                     laden |-> NULL, category |-> CategoryOf(sheet), creates |-> TRUE,
                     tail |-> longTailSpecs(sheet), photo |-> imageFor(sheet)]
  <2>1. DOMAIN own = OtherNames /\ own.photo = imageFor(sheet)
    BY DEF OtherNames
  <2>2. BmwRow(sheet) = Over(Completed("bmw", sheet, Columns("bmw", sheet, Metric \cup {"liters"}),
                                       CubicDisplacement("bmw", sheet)), own)
    BY DEF BmwRow
  <2> HIDE DEF own
  <2>3. QED
    BY <1>1, <2>1, <2>2
<1>6. QED
  BY <1>2, <1>3, <1>4, <1>5

\* The research leaves alone what a row has, and all but four columns of it.
LEMMA ResearchedFills ==
    ASSUME NEW row, NEW c \in DOMAIN row
    PROVE  /\ row[c] # NULL => applyResearched(row)[c] = row[c]
           /\ c \notin {"ratio", "stroke", "drive", "use"} => applyResearched(row)[c] = row[c]
<1> DEFINE of == {e \in Researched : e.slug = row.slug /\ e.column = c /\ row[c] = NULL}
<1>1. applyResearched(row)[c] = IF of = {} THEN row[c] ELSE (CHOOSE e \in of : TRUE).new
  BY DEF applyResearched
<1>2. row[c] # NULL => of = {}
  OBVIOUS
<1>3. c \notin {"ratio", "stroke", "drive", "use"} => of = {}
  BY ResearchedAssumption
<1> HIDE DEF of
<1>4. QED
  BY <1>1, <1>2, <1>3

\* Kawasaki's do, and the researched table takes nothing a sheet has published.
LEMMA KawasakiRows ==
    ASSUME NEW sheet, DOMAIN sheet.engine = EngineFields, sheet.photos \in Seq(Paths),
           importer = "kawasaki"
    PROVE  ReadFrom(importer, KawasakiRow(sheet), sheet)
<1> DEFINE own == [ratio |-> KawasakiCompression(sheet.ratio),
                   drive |-> finalDriveOf(sheet.drive), use |-> KawasakiConsumption(sheet.use),
                   emission |-> EmissionIn(sheet.emission), seat |-> Seat("kawasaki", sheet, {"bare", "inches"}),
                   laden |-> NULL, category |-> CategoryOf(sheet), creates |-> TRUE,
                   tail |-> KawasakiTail(sheet), photo |-> imageFor(sheet)]
           r == Completed("kawasaki", sheet, Columns("kawasaki", sheet, Metric \cup {"liters"}),
                          CubicDisplacement("kawasaki", sheet))
           found == Over(r, own)
           row == applyResearched(found)
<1>1. KawasakiRow(sheet) = row
  BY DEF KawasakiRow
<1>2. /\ DOMAIN own = OtherNames /\ own.photo = imageFor(sheet)
      /\ own.ratio = KawasakiCompression(sheet.ratio) /\ own.tail = KawasakiTail(sheet)
  BY DEF OtherNames
<1>3. /\ DOMAIN r = ColumnNames \cup {"cc", "text", "cylinders", "valves"}
      /\ r.slug = sheet.slug /\ Ordered(r) /\ Agrees("kawasaki", r.text, r.cylinders)
  <2>1. PICK brand, litres, cc : /\ brand = "kawasaki" /\ litres = Metric \cup {"liters"}
                                 /\ cc = CubicDisplacement("kawasaki", sheet)
    OBVIOUS
  <2>2. LET c == Completed(brand, sheet, Columns(brand, sheet, litres), cc) IN
        /\ DOMAIN c = ColumnNames \cup {"cc", "text", "cylinders", "valves"}
        /\ c.slug = sheet.slug /\ Ordered(c)
        /\ brand \in {"harley", "kawasaki", "bmw", "enfield"} => Agrees(brand, c.text, c.cylinders)
    BY CompletedOf
  <2>3. QED
    BY <2>1, <2>2
<1> HIDE DEF own, r
<1>4. /\ DOMAIN found = CompletedNames \cup OtherNames
      /\ found.slug = r.slug /\ found.kerb = r.kerb /\ found.dry = r.dry
      /\ found.text = r.text /\ found.cylinders = r.cylinders
      /\ found.ratio = own.ratio /\ found.tail = own.tail /\ found.photo = own.photo
  <2>1. DOMAIN r = CompletedNames
    BY <1>3 DEF CompletedNames
  <2>2. QED
    BY <1>2, <2>1, BrandRow
<1>5. {"slug", "kerb", "dry", "text", "cylinders", "ratio", "tail", "photo"} \subseteq DOMAIN found
  BY <1>4 DEF CompletedNames, ColumnNames, OtherNames
<1> HIDE DEF found
<1>6. /\ row.slug = found.slug /\ row.kerb = found.kerb /\ row.dry = found.dry
      /\ row.text = found.text /\ row.cylinders = found.cylinders
      /\ row.tail = found.tail /\ row.photo = found.photo
      /\ found.ratio # NULL => row.ratio = found.ratio
  BY <1>5, ResearchedFills
<1> HIDE DEF row
<1>7. row.slug = sheet.slug /\ Sound(importer, row)
  <2>1. Ordered(row) /\ Agrees("kawasaki", row.text, row.cylinders)
    BY <1>3, <1>4, <1>6 DEF Ordered
  <2>2. Photo(row.photo)
    BY <1>2, <1>4, <1>6, ImagesOnly
  <2>3. row.slug = sheet.slug
    BY <1>3, <1>4, <1>6
  <2>4. QED
    BY <2>1, <2>2, <2>3 DEF Sound, Typed
<1>8. Published(row, sheet)
  <2>1. RatioIn(sheet.ratio, {":", ";"}) \in {NULL, row.ratio}
    BY <1>2, <1>4, <1>6 DEF KawasakiCompression
  <2>2. longTailSpecs(sheet) # NULL => KawasakiTail(sheet) = longTailSpecs(sheet)
    BY DEF KawasakiTail
  <2>3. QED
    BY <1>2, <1>4, <1>6, <2>1, <2>2 DEF Published
<1>9. QED
  BY <1>1, <1>7, <1>8 DEF ReadFrom

\* Triumph's rows have no photo, and nothing else to keep.
LEMMA TriumphRows ==
    ASSUME NEW sheet, importer = "triumph"
    PROVE  ReadFrom(importer, TriumphRow(sheet), sheet)
<1> DEFINE cols == Columns("triumph", sheet, Metric)
           engine == TriumphEngine(sheet.engine)
           own == [cc |-> Displacement("triumph", sheet), ratio |-> compressionOf(sheet.ratio, {":", "."}),
                   drive |-> NULL, use |-> NULL, emission |-> NULL, seat |-> Seat("triumph", sheet, {"bare"}),
                   laden |-> NULL, category |-> NULL, creates |-> FALSE,
                   tail |-> longTailSpecs(sheet), photo |-> NULL]
           told == [cols EXCEPT !.frame = proseField(sheet.frame), !.tyre = tyreField(sheet.tyre)]
<1>1. TriumphRow(sheet) = Over(told, Over(engine, own))
  BY DEF TriumphRow
<1>2. DOMAIN cols = ColumnNames /\ cols.slug = sheet.slug
  BY ColumnsOf
<1> HIDE DEF cols
<1>3. DOMAIN told = ColumnNames /\ told.slug = sheet.slug
  BY <1>2
<1>4. DOMAIN engine = {"text", "cylinders", "valves"}
  BY DEF TriumphEngine, Engine
<1>5. "photo" \in DOMAIN own /\ own.photo = NULL
  OBVIOUS
<1> HIDE DEF told, engine, own
<1> DEFINE rest == Over(engine, own)
<1>6. "photo" \in DOMAIN rest /\ rest.photo = NULL
  BY <1>4, <1>5 DEF Over
<1> HIDE DEF rest
<1>7. Over(told, rest).slug = sheet.slug /\ Over(told, rest).photo = NULL
  BY <1>3, <1>6 DEF Over, ColumnNames
<1>8. Sound(importer, Over(told, rest))
  BY <1>7 DEF Sound, Photo, Typed
<1>9. QED
  BY <1>1, <1>7, <1>8 DEF ReadFrom, rest

\* A pair that contradicts its displacement is not kept.
LEMMA AgreeingPair ==
    ASSUME NEW cc, NEW bore, NEW stroke, NEW cylinders
    PROVE  LET pair == Agreeing(cc, [bore |-> bore, stroke |-> stroke], cylinders) IN
           DOMAIN pair = {"bore", "stroke"} /\ ~Contradicts(cc, pair.bore, pair.stroke, cylinders, 5)
<1>1. CASE Contradicts(cc, bore, stroke, cylinders, 5)
  <2>1. ~Contradicts(cc, NULL, NULL, cylinders, 5)
    BY DEF Contradicts
  <2>2. QED
    BY <1>1, <2>1 DEF Agreeing
<1>2. CASE ~Contradicts(cc, bore, stroke, cylinders, 5)
  BY <1>2 DEF Agreeing
<1>3. QED
  BY <1>1, <1>2

TypedNames == {"slug", "cc", "cylinders", "text", "hp", "hpRpm", "nm", "nmRpm", "kerb", "dry", "speed",
               "seat", "tank", "laden", "frame", "tyre", "bore", "stroke"}

\* Typed columns have these names, an agreeing quartet and weights in order.
LEMMA TypedColumnsOf ==
    ASSUME NEW brand, NEW sheet
    PROVE  LET row == TypedColumns(brand, sheet) IN
           /\ DOMAIN row = TypedNames /\ row.slug = sheet.slug /\ Ordered(row)
           /\ ~Contradicts(row.cc, row.bore, row.stroke, row.cylinders, 5)
<1> DEFINE cylinders == Within(cylindersOf(brand, sheet.engine), 1, 8)
           cc == Number(sheet.cc, 100, 30, 2500)
           pair == Agreeing(cc, [bore |-> Number(sheet.bore, 1, 20, 150),
                                 stroke |-> Number(sheet.stroke, 1, 20, 150)], cylinders)
           kerb == Number(sheet.kerb, 10, 20, 600)
           dry == Number(sheet.dry, 10, 20, 600)
           own == [slug |-> sheet.slug, cc |-> cc, cylinders |-> cylinders, text |-> sheet.engine,
                   hp |-> powerOf(brand, sheet.power), hpRpm |-> rpmOf(brand, sheet.power),
                   nm |-> torqueOf(brand, sheet.torque), nmRpm |-> rpmOf(brand, sheet.torque),
                   kerb |-> kerb, dry |-> BelowKerb(kerb, dry),
                   speed |-> Number(sheet.speed, 100, 20, 400), seat |-> Number(sheet.seat, 100, 400, 1100),
                   tank |-> Number(sheet.tank, 10, 1, 60), laden |-> NULL,
                   frame |-> proseField(sheet.frame), tyre |-> tyreField(sheet.tyre)]
           row == TypedColumns(brand, sheet)
<1>1. row = Over(pair, own)
  BY DEF TypedColumns
<1>2. DOMAIN pair = {"bore", "stroke"} /\ ~Contradicts(cc, pair.bore, pair.stroke, cylinders, 5)
  BY AgreeingPair
<1>3. kerb \in Figures /\ dry \in Figures
  BY BoundedFigures DEF Number
<1> HIDE DEF pair, cc, cylinders, kerb, dry
<1>4. /\ DOMAIN own = TypedNames \ {"bore", "stroke"}
      /\ own.slug = sheet.slug /\ own.cc = cc /\ own.cylinders = cylinders
      /\ own.kerb = kerb /\ own.dry = BelowKerb(kerb, dry)
  BY DEF TypedNames
<1> HIDE DEF own, row
<1>5. /\ DOMAIN row = TypedNames /\ row.slug = own.slug /\ row.kerb = own.kerb /\ row.dry = own.dry
      /\ row.cc = own.cc /\ row.cylinders = own.cylinders
      /\ row.bore = pair.bore /\ row.stroke = pair.stroke
  BY <1>1, <1>2, <1>4 DEF Over, TypedNames
<1>6. Ordered(row)
  BY <1>3, <1>4, <1>5, WeightsInOrder DEF Ordered
<1>7. QED
  BY <1>2, <1>4, <1>5, <1>6 DEF row

\* The rows of 1000ps and of the gap-filling do too.
LEMMA TypedRows ==
    ASSUME NEW sheet, sheet.photos \in Seq(Paths)
    PROVE  /\ importer = "1000ps" => ReadFrom(importer, PsRow(sheet), sheet)
           /\ importer = "gapfill" => ReadFrom(importer, GapRow(sheet), sheet)
<1>1. ASSUME importer \in Typed, NEW row, NEW t, NEW own,
             DOMAIN t = TypedNames, t.slug = sheet.slug, Ordered(t),
             ~Contradicts(t.cc, t.bore, t.stroke, t.cylinders, 5),
             "photo" \in DOMAIN own, Photo(own.photo), row = Over(t, own)
      PROVE  ReadFrom(importer, row, sheet)
  <2>1. /\ row.slug = t.slug /\ row.kerb = t.kerb /\ row.dry = t.dry
        /\ row.cc = t.cc /\ row.bore = t.bore /\ row.stroke = t.stroke /\ row.cylinders = t.cylinders
        /\ row.photo = own.photo
    BY <1>1 DEF Over, TypedNames
  <2>2. QED
    BY <1>1, <2>1 DEF ReadFrom, Sound, Ordered, Typed
<1>2. ASSUME NEW brand, NEW own, "photo" \in DOMAIN own, Photo(own.photo), importer \in Typed
      PROVE  ReadFrom(importer, Over(TypedColumns(brand, sheet), own), sheet)
  <2>1. PICK t : t = TypedColumns(brand, sheet)
    OBVIOUS
  <2>2. /\ DOMAIN t = TypedNames /\ t.slug = sheet.slug /\ Ordered(t)
        /\ ~Contradicts(t.cc, t.bore, t.stroke, t.cylinders, 5)
    BY <2>1, TypedColumnsOf
  <2>3. ReadFrom(importer, Over(t, own), sheet)
    BY <1>1, <1>2, <2>2
  <2>4. QED
    BY <2>1, <2>3
<1>3. importer = "1000ps" => ReadFrom(importer, PsRow(sheet), sheet)
  <2> DEFINE own == [valves |-> IF sheet.engine.each THEN Within(sheet.engine.valves, 1, 8) ELSE NULL,
                     ratio |-> PsCompression(sheet.ratio), drive |-> FirstOf(sheet.drive),
                     use |-> IF sheet.use.unit = "kWh" THEN NULL
                             ELSE LET v == sheet.use.value IN IF v # NULL /\ v \in 50 .. 3000 THEN v ELSE NULL,
                     emission |-> FirstOf(sheet.emission), description |-> NULL,
                     tail |-> longTailSpecs(sheet), photo |-> imageFor(sheet)]
             rest == Over(PsCategory(sheet), own)
  <2>1. PsRow(sheet) = Over(TypedColumns("1000ps", sheet), rest)
    BY DEF PsRow
  <2>2. "photo" \in DOMAIN own /\ own.photo = imageFor(sheet)
    OBVIOUS
  <2>3. DOMAIN PsCategory(sheet) = {"category", "creates"}
    BY DEF PsCategory
  <2> HIDE DEF own
  <2>4. "photo" \in DOMAIN rest /\ rest.photo = imageFor(sheet)
    BY <2>2, <2>3 DEF Over
  <2> HIDE DEF rest
  <2>5. Photo(rest.photo)
    BY <2>4, ImagesOnly
  <2>6. QED
    BY <1>2, <2>1, <2>4, <2>5 DEF Typed
<1>4. importer = "gapfill" => ReadFrom(importer, GapRow(sheet), sheet)
  <2> DEFINE own == [valves |-> Within(sheet.engine.valves, 1, 8),
                     ratio |-> PsCompression(sheet.ratio), drive |-> FirstOf(sheet.drive),
                     use |-> LET v == sheet.use.value IN IF v # NULL /\ v \in 50 .. 3000 THEN v ELSE NULL,
                     emission |-> EmissionIn(sheet.emission), description |-> descriptionField(sheet.description),
                     category |-> IF sheet.model # NULL THEN sheet.model
                                  ELSE IF sheet.label \in {"quad", "oldtimer"} THEN NULL ELSE sheet.label,
                     creates |-> FALSE, tail |-> longTailSpecs(sheet), photo |-> NULL]
  <2>1. GapRow(sheet) = Over(TypedColumns("gapfill", sheet), own)
    BY DEF GapRow
  <2>2. "photo" \in DOMAIN own /\ own.photo = NULL
    OBVIOUS
  <2> HIDE DEF own
  <2>3. QED
    BY <1>2, <2>1, <2>2 DEF Typed, Photo
<1>5. QED
  BY <1>3, <1>4

\* An erratum corrects measures only.
LEMMA CorrectedSheet ==
    ASSUME NEW sheet, Measures \subseteq DOMAIN sheet
    PROVE  Measures \subseteq DOMAIN Corrected(sheet) /\ Corrected(sheet).slug = sheet.slug
<1> DEFINE of == {e \in Errata : /\ e.slug = sheet.slug
                                 /\ \A c \in DOMAIN e.holds : sheet[c] = e.holds[c]}
<1>1. CASE of = {}
  BY <1>1 DEF Corrected
<1>2. CASE of # {}
  <2>1. PICK e \in Errata : Corrected(sheet) = Over(e.gives, sheet)
    BY <1>2 DEF Corrected
  <2>2. "slug" \in DOMAIN sheet /\ "slug" \notin DOMAIN e.gives
    BY ErrataAssumption DEF Measures
  <2>3. QED
    BY <2>1, <2>2 DEF Over
<1>3. QED
  BY <1>1, <1>2

\* A researched row has an agreeing quartet and its peaks in order.
LEMMA ResearchRows ==
    ASSUME NEW sheet, Measures \subseteq DOMAIN sheet, importer = "research"
    PROVE  ReadFrom(importer, ResearchRow(sheet), sheet)
<1> DEFINE corrected == Corrected(sheet)
           r == CheckedGeometry(corrected)
           own == [cc |-> bounded(r.cc, 30, 2500), bore |-> bounded(r.bore, 30, 120),
                   stroke |-> bounded(r.stroke, 25, 130), cylinders |-> Within(r.cylinders, 1, 6),
                   valves |-> Within(r.valves, 2, 5), hp |-> bounded(r.hp, 1, 350),
                   hpRpm |-> bounded(r.hpRpm, 1500, 16000), nm |-> bounded(r.nm, 1, 250),
                   nmRpm |-> bounded(r.nmRpm, 1000, 14000), speed |-> bounded(r.speed, 40, 340),
                   use |-> IF r.use # NULL /\ r.use \in 150 .. 1500 THEN r.use ELSE NULL,
                   ratio |-> IF r.ratio = "wide" THEN NULL ELSE r.ratio,
                   slug |-> r.slug, creates |-> FALSE, photo |-> NULL]
           row == OrderedPeaks(own)
<1>1. ResearchRow(sheet) = row
  BY DEF ResearchRow
<1>2. Measures \subseteq DOMAIN corrected /\ corrected.slug = sheet.slug
  BY CorrectedSheet
<1> HIDE DEF corrected
<1>3. r.slug = sheet.slug /\ ~Contradicts(r.cc, r.bore, r.stroke, r.cylinders, 1)
  <2>1. CASE Contradicts(corrected.cc, corrected.bore, corrected.stroke, corrected.cylinders, 1)
    <3>1. r = [corrected EXCEPT !.bore = NULL, !.stroke = NULL]
      BY <2>1 DEF CheckedGeometry
    <3>2. r.bore = NULL /\ r.slug = corrected.slug
      BY <1>2, <3>1 DEF Measures
    <3>3. QED
      BY <1>2, <3>2 DEF Contradicts
  <2>2. CASE ~Contradicts(corrected.cc, corrected.bore, corrected.stroke, corrected.cylinders, 1)
    BY <1>2, <2>2 DEF CheckedGeometry
  <2>3. QED
    BY <2>1, <2>2
<1> HIDE DEF r
<1>4. /\ own.cc \in {r.cc, NULL} /\ own.bore \in {r.bore, NULL} /\ own.stroke \in {r.stroke, NULL}
      /\ own.cylinders \in {r.cylinders, NULL}
  BY BoundedFigures DEF Within
<1>5. own.hpRpm \in Figures /\ own.nmRpm \in Figures
  BY BoundedFigures
<1>6. own.slug = sheet.slug /\ own.photo = NULL
  BY <1>3
<1>7. {"hpRpm", "nmRpm", "slug", "photo", "cc", "bore", "stroke", "cylinders"} \subseteq DOMAIN own
  OBVIOUS
<1> HIDE DEF own
<1>8. /\ row.slug = own.slug /\ row.photo = own.photo /\ row.cc = own.cc /\ row.bore = own.bore
      /\ row.stroke = own.stroke /\ row.cylinders = own.cylinders /\ row.hpRpm = own.hpRpm
      /\ row.nmRpm \in {own.nmRpm, NULL}
      /\ NULL \notin {own.hpRpm, own.nmRpm} /\ own.nmRpm > own.hpRpm => row.nmRpm = NULL
  BY <1>7 DEF OrderedPeaks
<1> HIDE DEF row
<1>9. NULL \in {row.hpRpm, row.nmRpm} \/ row.nmRpm <= row.hpRpm
  BY <1>5, <1>8 DEF Figures
<1>10. ~Contradicts(row.cc, row.bore, row.stroke, row.cylinders, 1)
  <2>1. CASE NULL \in {row.cc, row.bore, row.stroke, row.cylinders}
    BY <2>1 DEF Contradicts
  <2>2. CASE NULL \notin {row.cc, row.bore, row.stroke, row.cylinders}
    <3>1. row.cc = r.cc /\ row.bore = r.bore /\ row.stroke = r.stroke /\ row.cylinders = r.cylinders
      BY <1>4, <1>8, <2>2
    <3>2. QED
      BY <1>3, <3>1
  <2>3. QED
    BY <2>1, <2>2
<1>11. QED
  BY <1>1, <1>6, <1>8, <1>9, <1>10 DEF ReadFrom, Sound, Photo, Typed

\* Every importer reads a sound row of every sheet of its snapshots.
LEMMA RowsOfSheets ==
    ASSUME importer \in Importers, NEW s \in Snapshots[importer], NEW k \in DOMAIN s
    PROVE  ReadFrom(importer, Row(s[k]), s[k])
<1>1. PICK sheet : sheet = s[k]
  OBVIOUS
<1>2. /\ sheet.photos \in Seq(Paths)
      /\ importer = "research" => Measures \subseteq DOMAIN sheet
      /\ importer # "research" => DOMAIN sheet.engine = EngineFields
  BY <1>1, SnapshotAssumption DEF EngineFields
<1>3. ReadFrom(importer, Row(sheet), sheet)
  <2>1. CASE importer \in {"harley", "enfield", "yamaha", "bmw"}
    BY <1>2, <2>1, FullBrandRows DEF Row
  <2>2. CASE importer = "kawasaki"
    BY <1>2, <2>2, KawasakiRows DEF Row
  <2>3. CASE importer = "triumph"
    BY <2>3, TriumphRows DEF Row
  <2>4. CASE importer \in {"1000ps", "gapfill"}
    BY <1>2, <2>4, TypedRows DEF Row
  <2>5. CASE importer = "research"
    BY <1>2, <2>5, ResearchRows DEF Row
  <2>6. QED
    BY <2>1, <2>2, <2>3, <2>4, <2>5 DEF Importers, Prose, Typed
<1>4. QED
  BY <1>1, <1>3

------------------------------------------------------------------------------
(* The rows of a snapshot *)

\* The rows are of these sheets, one a slug.
RowsRead(by, rs, sheets) ==
    /\ Len(rs) \in Nat /\ DOMAIN rs = 1 .. Len(rs)
    /\ \A i \in DOMAIN rs : \E k \in DOMAIN sheets : ReadFrom(by, rs[i], sheets[k])
    /\ \A i, j \in DOMAIN rs : rs[i].slug = rs[j].slug => i = j

\* A function on 1 .. n is a sequence of length n.
LEMMA Listed ==
    ASSUME NEW n \in Nat, NEW f, f = [m \in 1 .. n |-> f[m]]
    PROVE  Len(f) = n
<1>1. f \in Seq({f[m] : m \in 1 .. n})
  OBVIOUS
<1>2. DOMAIN f = 1 .. n
  OBVIOUS
<1>3. Len(f) \in Nat /\ DOMAIN f = 1 .. Len(f)
  BY <1>1
<1>4. QED
  BY <1>2, <1>3

\* Leaving rows out leaves rows of the same sheets.
LEMMA RowsLeft ==
    ASSUME NEW sheets, NEW rs, RowsRead(importer, rs, sheets), NEW places \in SUBSET DOMAIN rs
    PROVE  RowsRead(importer, At(rs, places), sheets)
<1> DEFINE n == Cardinality(places)
           at == At(rs, places)
<1>1. Len(rs) \in Nat /\ DOMAIN rs = 1 .. Len(rs)
  BY DEF RowsRead
<1>2. /\ n \in Nat /\ DOMAIN at = 1 .. n
      /\ \A m \in DOMAIN at : \E i \in places : at[m] = rs[i]
      /\ \A l, m \in DOMAIN at : l # m =>
            \E i, j \in places : i # j /\ at[l] = rs[i] /\ at[m] = rs[j]
  BY <1>1, AtPlaces
<1>3. at = [m \in 1 .. n |-> at[m]]
  BY <1>2 DEF At
<1> HIDE DEF n, at
<1>4. Len(at) = n
  BY <1>2, <1>3, Listed
<1>5. \A i \in DOMAIN rs : \E k \in DOMAIN sheets : ReadFrom(importer, rs[i], sheets[k])
  BY DEF RowsRead
<1>6. ASSUME NEW m \in DOMAIN at PROVE \E k \in DOMAIN sheets : ReadFrom(importer, at[m], sheets[k])
  <2>1. PICK i \in places : at[m] = rs[i]
    BY <1>2
  <2>2. QED
    BY <1>5, <2>1
<1>7. ASSUME NEW l \in DOMAIN at, NEW m \in DOMAIN at, at[l].slug = at[m].slug PROVE l = m
  <2>1. SUFFICES ASSUME l # m PROVE FALSE
    OBVIOUS
  <2>2. PICK i \in places, j \in places : i # j /\ at[l] = rs[i] /\ at[m] = rs[j]
    BY <1>2, <2>1
  <2>3. QED
    BY <1>7, <2>2 DEF RowsRead
<1>8. QED
  BY <1>2, <1>4, <1>6, <1>7 DEF RowsRead, at

\* One row a slug: of those that repeat it the first.
LEMMA RowsStaged ==
    ASSUME importer \in Importers, NEW s \in Snapshots[importer]
    PROVE  RowsRead(importer, bySlug([i \in DOMAIN s |-> Row(s[i])]), s)
<1> DEFINE rs == [i \in DOMAIN s |-> Row(s[i])]
           first == {i \in DOMAIN rs : \A j \in 1 .. i - 1 : rs[j].slug # rs[i].slug}
           at == At(rs, first)
           n == Cardinality(first)
<1>1. Len(s) \in Nat /\ DOMAIN s = 1 .. Len(s)
  BY SnapshotAssumption
<1>2. \A i \in DOMAIN s : rs[i] = Row(s[i]) /\ ReadFrom(importer, rs[i], s[i])
  BY RowsOfSheets
<1>3. DOMAIN rs = DOMAIN s
  OBVIOUS
<1>4. Len(rs) = Len(s)
  <2>1. rs = [m \in 1 .. Len(s) |-> rs[m]]
    BY <1>1
  <2> HIDE DEF rs
  <2>2. QED
    BY <1>1, <2>1, Listed
<1>5. bySlug(rs) = IF importer \in Typed THEN at ELSE rs
  BY DEF bySlug
<1> HIDE DEF rs
<1>6. CASE importer \notin Typed
  <2>1. \A i, j \in DOMAIN rs : rs[i].slug = rs[j].slug => i = j
    <3>1. \A j, k \in DOMAIN s : s[j].slug = s[k].slug => j = k
      BY <1>6, SnapshotAssumption
    <3>2. QED
      BY <1>2, <1>3, <3>1 DEF ReadFrom
  <2>2. RowsRead(importer, rs, s)
    BY <1>1, <1>2, <1>3, <1>4, <2>1 DEF RowsRead
  <2>3. QED
    BY <1>5, <1>6, <2>2 DEF rs
<1>7. CASE importer \in Typed
  <2>1. \A i, j \in first : i # j => rs[i].slug # rs[j].slug
    <3>1. \A i \in first : i \in Nat /\ i \in DOMAIN rs
      BY <1>1, <1>3
    <3>2. ASSUME NEW i \in first, NEW j \in first, i < j PROVE rs[i].slug # rs[j].slug
      <4>1. i \in 1 .. j - 1
        BY <1>1, <1>3, <3>1, <3>2
      <4>2. QED
        BY <4>1
    <3>3. \A i, j \in first : i # j => i < j \/ j < i
      BY <3>1
    <3>4. QED
      BY <3>2, <3>3
  <2>2. first \in SUBSET DOMAIN rs
    OBVIOUS
  <2> HIDE DEF first
  <2>3. /\ n \in Nat /\ DOMAIN at = 1 .. n
        /\ \A m \in DOMAIN at : \E i \in first : at[m] = rs[i]
        /\ \A l, m \in DOMAIN at : l # m =>
              \E i, j \in first : i # j /\ at[l] = rs[i] /\ at[m] = rs[j]
    BY <1>1, <1>3, <2>2, AtPlaces
  <2>4. at = [m \in 1 .. n |-> at[m]]
    BY <2>3 DEF At
  <2> HIDE DEF n, at
  <2>5. Len(at) = n
    BY <2>3, <2>4, Listed
  <2>6. \A m \in DOMAIN at : \E k \in DOMAIN s : ReadFrom(importer, at[m], s[k])
    BY <1>2, <1>3, <2>2, <2>3
  <2>7. \A l, m \in DOMAIN at : at[l].slug = at[m].slug => l = m
    BY <2>1, <2>3
  <2>8. RowsRead(importer, at, s)
    BY <2>3, <2>5, <2>6, <2>7 DEF RowsRead
  <2>9. QED
    BY <1>5, <1>7, <2>8 DEF rs
<1>8. QED
  BY <1>6, <1>7

------------------------------------------------------------------------------
(* The copies of a script's photos *)

InList(list) == {list[i] : i \in DOMAIN list}

\* Copies(rs) names images by their slugs, no name twice.
LEMMA CopiesNamed ==
    ASSUME NEW sheets, NEW rs, RowsRead(importer, rs, sheets)
    PROVE  LET C == Copies(rs) IN
           /\ Len(C) \in Nat /\ DOMAIN C = 1 .. Len(C) /\ C \in Seq(InList(C))
           /\ \A i \in DOMAIN C : C[i].from \in Paths /\ C[i].to[2] \in Images
           /\ \A i, j \in DOMAIN C : C[i].to = C[j].to => i = j
<1> DEFINE copied == {i \in DOMAIN rs : rs[i].photo # NULL /\ (importer = "1000ps" => rs[i].creates)}
           of == At(rs, copied)
           n == Cardinality(copied)
           C == [i \in DOMAIN of |-> [from |-> of[i].photo, to |-> fileName(of[i].slug, of[i].photo)]]
<1>1. Copies(rs) = C
  BY DEF Copies
<1>2. RowsRead(importer, of, sheets)
  BY RowsLeft
<1>3. Len(rs) \in Nat /\ DOMAIN rs = 1 .. Len(rs) /\ copied \in SUBSET DOMAIN rs
  BY DEF RowsRead
<1>4. \A i \in copied : rs[i].photo # NULL
  OBVIOUS
<1> HIDE DEF copied
<1>5. n \in Nat /\ DOMAIN of = 1 .. n /\ \A m \in DOMAIN of : \E i \in copied : of[m] = rs[i]
  BY <1>3, AtPlaces
<1> HIDE DEF of, n
<1>6. \A m \in DOMAIN of : of[m].photo \in Paths /\ ExtOf[of[m].photo] \in Images
  <2>1. ASSUME NEW m \in DOMAIN of PROVE of[m].photo \in Paths /\ ExtOf[of[m].photo] \in Images
    <3>1. of[m].photo # NULL
      BY <1>4, <1>5
    <3>2. Photo(of[m].photo)
      BY <1>2 DEF RowsRead, ReadFrom, Sound
    <3>3. QED
      BY <3>1, <3>2 DEF Photo
  <2>2. QED
    BY <2>1
<1>7. DOMAIN C = 1 .. n /\ \A i \in DOMAIN C : C[i].from = of[i].photo
                        /\ C[i].to = <<of[i].slug, ExtOf[of[i].photo]>>
  BY <1>5 DEF fileName
<1>8. C = [i \in 1 .. n |-> C[i]]
  BY <1>5
<1> HIDE DEF C
<1>9. Len(C) = n
  BY <1>5, <1>8, Listed
<1>10. C \in Seq(InList(C))
  <2>1. \A i \in 1 .. n : C[i] \in InList(C)
    BY <1>7 DEF InList
  <2>2. QED
    BY <1>5, <1>8, <2>1
<1>11. \A i, j \in DOMAIN C : C[i].to = C[j].to => i = j
  <2>1. \A i, j \in DOMAIN of : of[i].slug = of[j].slug => i = j
    BY <1>2 DEF RowsRead
  <2>2. QED
    BY <1>5, <1>7, <2>1
<1>12. \A i \in DOMAIN C : C[i].from \in Paths /\ C[i].to[2] \in Images
  BY <1>5, <1>6, <1>7
<1>13. QED
  BY <1>1, <1>5, <1>7, <1>9, <1>10, <1>11, <1>12

------------------------------------------------------------------------------
(* The inductive invariant *)

Untouched(c) == {<<"photo", c.from>>, <<"file", c.to>>} \cap changed = {}
Held(c) == c.to \in DOMAIN uploads /\ (importer # "1000ps" => uploads[c.to] = photos[c.from])
Dealt == Len(Copies(rows)) - Len(left)  \* copies the run has dealt with

\* A run's rows are of the snapshot it read, and what it has still to copy is the end of their
\* copies; of those before it each has its file, unless one of the two was touched.
Progress ==
    /\ pc = "copying" => mode # "sql"
    /\ pc # "idle" => read \in Snapshots[importer] /\ RowsRead(importer, rows, read)
    /\ pc # "idle" /\ mode # "sql" =>
          /\ left \in Seq(InList(Copies(rows))) /\ Dealt \in Nat
          /\ \A i \in DOMAIN left : left[i] = Copies(rows)[Dealt + i]
          /\ \A i \in 1 .. Dealt : Untouched(Copies(rows)[i]) => Held(Copies(rows)[i])

\* The script's rows are of the snapshot it was written from.
Written == seed # NULL => seed.from \in Snapshots[importer] /\ RowsRead(importer, seed.rows, seed.from)

IInv == TypeOK /\ Progress /\ Written

\* What is still to be copied are images of the gallery's photos.
LEMMA NextCopy ==
    ASSUME Progress, pc = "copying", left # <<>>
    PROVE  LET c == Head(left) IN
           /\ c = Copies(rows)[Dealt + 1] /\ Dealt + 1 \in DOMAIN Copies(rows)
           /\ c.from \in Paths /\ c.to[2] \in Images
           /\ Len(left) \in Nat \ {0} /\ Len(Tail(left)) = Len(left) - 1
           /\ Tail(left) \in Seq(InList(Copies(rows)))
           /\ \A i \in DOMAIN Tail(left) : i + 1 \in DOMAIN left /\ Tail(left)[i] = left[i + 1]
<1> DEFINE C == Copies(rows)
<1>1. RowsRead(importer, rows, read) /\ mode # "sql"
  BY DEF Progress
<1>2. /\ Len(C) \in Nat /\ DOMAIN C = 1 .. Len(C)
      /\ \A i \in DOMAIN C : C[i].from \in Paths /\ C[i].to[2] \in Images
  BY <1>1, CopiesNamed
<1>3. /\ left \in Seq(InList(C)) /\ Dealt \in Nat /\ Dealt = Len(C) - Len(left)
      /\ \A i \in DOMAIN left : left[i] = C[Dealt + i]
  BY <1>1 DEF Progress, Dealt
<1> HIDE DEF C
<1>4. Len(left) \in Nat \ {0} /\ DOMAIN left = 1 .. Len(left) /\ Head(left) = left[1] /\ 1 \in DOMAIN left
  BY <1>3
<1>5. Head(left) = C[Dealt + 1]
  BY <1>3, <1>4
<1>6. Dealt + 1 \in 1 .. Len(C)
  BY <1>2, <1>3, <1>4
<1>7. /\ Tail(left) \in Seq(InList(C)) /\ Len(Tail(left)) = Len(left) - 1
      /\ \A i \in DOMAIN Tail(left) : i + 1 \in DOMAIN left /\ Tail(left)[i] = left[i + 1]
  BY <1>3, <1>4
<1>8. QED
  BY <1>2, <1>4, <1>5, <1>6, <1>7 DEF C

\* A step keeps the shape of the state.
LEMMA StepTypeOK ==
    ASSUME IInv, [Next]_vars
    PROVE  TypeOK'
<1>1. TypeOK /\ Progress
  BY DEF IInv
<1>2. /\ importer \in Importers /\ snapshot \in Snapshots[importer] \cup {NULL}
      /\ photos \in [Paths -> Sizes \cup {NULL}]
      /\ \A name \in DOMAIN uploads : uploads[name] \in Nat /\ name[2] \in Images
      /\ pc \in {"idle", "copying", "writing"} /\ (pc = "idle" <=> mode = NULL)
      /\ pc = "writing" => left = <<>> /\ mode # "images"
      /\ pc = "idle" => rows = <<>> /\ left = <<>> /\ changed = {}
      /\ scrapes \in 0 .. MaxScrapes /\ downloads \in 0 .. MaxDownloads /\ runs \in 0 .. MaxRuns
  BY <1>1 DEF TypeOK
<1>3. Sizes \subseteq Nat /\ MaxScrapes \in Nat /\ MaxDownloads \in Nat /\ MaxRuns \in Nat
  BY BoundAssumption
<1> DEFINE Files == \A name \in DOMAIN uploads : uploads[name] \in Nat /\ name[2] \in Images
           Where == /\ pc \in {"idle", "copying", "writing"} /\ (pc = "idle" <=> mode = NULL)
                    /\ pc = "writing" => left = <<>> /\ mode # "images"
                    /\ pc = "idle" => rows = <<>> /\ left = <<>> /\ changed = {}
<1>4. SUFFICES /\ importer' \in Importers /\ snapshot' \in Snapshots[importer'] \cup {NULL}
               /\ photos' \in [Paths -> Sizes \cup {NULL}]
               /\ scrapes' \in 0 .. MaxScrapes /\ downloads' \in 0 .. MaxDownloads /\ runs' \in 0 .. MaxRuns
               /\ Files' /\ Where'
  BY DEF TypeOK
<1>5. ASSUME NEW name, NEW size \in Nat, name[2] \in Images, uploads' = Stored(name, size) PROVE Files'
  BY <1>2, <1>5 DEF Stored
<1>6. ASSUME Stop PROVE Where'
  BY <1>6 DEF Stop
<1>7. CASE Scrape
  BY <1>2, <1>3, <1>7 DEF Scrape, run
<1>8. ASSUME NEW path \in Paths, NEW size \in Sizes \cup {NULL}, Download(path, size) PROVE <1>4!1
  <2>1. downloads' \in 0 .. MaxDownloads
    BY <1>2, <1>3, <1>8 DEF Download
  <2>2. Where'
    BY <1>2, <1>8 DEF Download, run, Changes
  <2>3. QED
    BY <1>2, <1>8, <2>1, <2>2 DEF Download, run
<1>9. ASSUME NEW name \in DOMAIN uploads, Unlink(name) PROVE <1>4!1
  BY <1>2, <1>9 DEF Unlink, run, scraper, Changes
<1>10. ASSUME NEW m \in {"all", "sql", "images"}, Start(m) PROVE <1>4!1
  <2>1. Where'
    BY <1>10, NullAssumption DEF Start
  <2>2. runs' \in 0 .. MaxRuns
    BY <1>2, <1>3, <1>10 DEF Start
  <2>3. QED
    BY <1>2, <1>10, <2>1, <2>2 DEF Start, scraper
<1>11. CASE Skip
  BY <1>2, <1>11 DEF Skip, scraper
<1>12. CASE Copy
  <2>1. Head(left).from \in Paths /\ Head(left).to[2] \in Images
    BY <1>1, <1>12, NextCopy DEF Copy
  <2>2. photos[Head(left).from] \in Nat
    BY <1>2, <1>3, <1>12, <2>1 DEF Copy
  <2>3. Files'
    BY <1>5, <1>12, <2>1, <2>2 DEF Copy
  <2>4. QED
    BY <1>2, <1>12, <2>3 DEF Copy, scraper
<1>13. CASE Lose
  BY <1>2, <1>6, <1>13 DEF Lose, scraper
<1>14. CASE Copied
  <2>1. Where'
    BY <1>2, <1>6, <1>14 DEF Copied
  <2>2. QED
    BY <1>2, <1>14, <2>1 DEF Copied, scraper
<1>15. CASE Write
  BY <1>2, <1>6, <1>15 DEF Write, scraper
<1>16. CASE Kill
  <2>1. Files'
    <3>1. CASE UNCHANGED uploads
      BY <1>2, <3>1
    <3>2. CASE ~UNCHANGED uploads
      <4>1. /\ pc = "copying" /\ left # <<>>
            /\ photos[Head(left).from] # NULL
            /\ \E part \in 0 .. photos[Head(left).from] - 1 : uploads' = Stored(Head(left).to, part)
        BY <1>16, <3>2 DEF Kill
      <4>2. Head(left).to[2] \in Images
        BY <1>1, <4>1, NextCopy
      <4>3. \A part \in 0 .. photos[Head(left).from] - 1 : part \in Nat
        OBVIOUS
      <4>4. QED
        BY <1>5, <4>1, <4>2, <4>3
    <3>3. QED
      BY <3>1, <3>2
  <2>2. QED
    BY <1>2, <1>6, <1>16, <2>1 DEF Kill, scraper
<1>17. CASE UNCHANGED vars
  BY <1>2, <1>17 DEF vars, scraper, run
<1>18. QED
  BY <1>7, <1>8, <1>9, <1>10, <1>11, <1>12, <1>13, <1>14, <1>15, <1>16, <1>17 DEF Next

\* While a run goes on and its rows stay, so do their copies.
LEMMA SameCopies ==
    ASSUME importer' = importer, rows' = rows
    PROVE  Copies(rows)' = Copies(rows)
BY DEF Copies, fileName

\* What lies behind the copies dealt with lies there still, when only a touched thing changes.
Behind == \A i \in 1 .. Dealt : Untouched(Copies(rows)[i]) => Held(Copies(rows)[i])

\* A step keeps what a run has dealt with: only a copy made moves the run on.
LEMMA StepProgress ==
    ASSUME IInv, [Next]_vars
    PROVE  Progress'
<1> DEFINE C == Copies(rows)
           Copying == pc # "idle" /\ mode # "sql"
           Rest == left \in Seq(InList(C)) /\ Dealt \in Nat /\ \A i \in DOMAIN left : left[i] = C[Dealt + i]
           Owner == pc # "idle" => read \in Snapshots[importer] /\ RowsRead(importer, rows, read)
           Goes == pc = "copying" => mode # "sql"
<1>1. TypeOK /\ Progress
  BY DEF IInv
<1>2. Owner /\ Goes /\ (Copying => Rest /\ Behind)
  BY <1>1 DEF Progress, Behind
<1>3. SUFFICES Owner' /\ Goes' /\ (Copying' => Rest' /\ Behind')
  BY DEF Progress, Behind
<1>4. ASSUME UNCHANGED <<importer, pc, mode, read, rows>>
      PROVE  Owner' /\ Goes' /\ Copying' = Copying /\ C' = C
  BY <1>2, <1>4, SameCopies
<1>5. Copying => /\ Len(C) \in Nat /\ DOMAIN C = 1 .. Len(C)
                 /\ \A i \in DOMAIN C : C[i].from \in Paths
                 /\ \A i, j \in DOMAIN C : C[i].to = C[j].to => i = j
                 /\ 1 .. Dealt \subseteq DOMAIN C
  <2>1. ASSUME Copying PROVE /\ Len(C) \in Nat /\ DOMAIN C = 1 .. Len(C)
                             /\ \A i \in DOMAIN C : C[i].from \in Paths
                             /\ \A i, j \in DOMAIN C : C[i].to = C[j].to => i = j
    BY <1>2, <2>1, CopiesNamed
  <2>2. ASSUME Copying PROVE Len(left) \in Nat /\ Dealt \in Nat
    BY <1>2, <2>2
  <2>3. Copying => 1 .. Dealt \subseteq 1 .. Len(C)
    BY <2>1, <2>2 DEF Dealt
  <2>4. QED
    BY <2>1, <2>3
<1>6. ASSUME Stop PROVE <1>3!1
  BY <1>6 DEF Stop
<1>7. ASSUME UNCHANGED <<importer, pc, mode, read, rows, left, uploads, photos, changed>> PROVE <1>3!1
  BY <1>2, <1>4, <1>7 DEF Dealt, Behind, Untouched, Held
<1>8. CASE Scrape
  BY <1>7, <1>8 DEF Scrape, run
<1>9. ASSUME NEW path \in Paths, NEW size \in Sizes \cup {NULL}, Download(path, size) PROVE <1>3!1
  <2>1. UNCHANGED <<importer, pc, mode, read, rows, left, uploads>>
        /\ photos' = [photos EXCEPT ![path] = size] /\ photos \in [Paths -> Sizes \cup {NULL}]
    BY <1>1, <1>9 DEF Download, run, TypeOK
  <2>2. Owner' /\ Goes' /\ Copying' = Copying /\ C' = C /\ Dealt' = Dealt
    BY <1>4, <2>1 DEF Dealt
  <2>3. ASSUME Copying, NEW i \in 1 .. Dealt, Untouched(C[i])' PROVE Held(C[i])'
    <3>1. changed' = changed \cup {<<"photo", path>>}
      BY <1>9, <2>3 DEF Download, Changes
    <3>2. PICK c : c = C[i] /\ c.from \in Paths
      BY <1>5, <2>3
    <3>3. C[i]' = c
      BY <2>2, <3>2
    <3>4. Untouched(c) /\ c.from # path
      BY <2>3, <3>1, <3>3 DEF Untouched
    <3>5. Held(c)
      BY <1>2, <2>3, <3>2, <3>4 DEF Behind
    <3>6. photos'[c.from] = photos[c.from]
      BY <2>1, <3>2, <3>4
    <3>7. QED
      BY <2>1, <3>3, <3>5, <3>6 DEF Held
  <2>4. Copying => Rest' /\ Behind'
    BY <1>2, <2>1, <2>2, <2>3 DEF Behind
  <2>5. QED
    BY <2>2, <2>4
<1>10. ASSUME NEW name \in DOMAIN uploads, Unlink(name) PROVE <1>3!1
  <2>1. UNCHANGED <<importer, pc, mode, read, rows, left, photos>>
        /\ uploads' = [n \in DOMAIN uploads \ {name} |-> uploads[n]]
    BY <1>10 DEF Unlink, run, scraper
  <2>2. Owner' /\ Goes' /\ Copying' = Copying /\ C' = C /\ Dealt' = Dealt
    BY <1>4, <2>1 DEF Dealt
  <2>3. ASSUME Copying, NEW i \in 1 .. Dealt, Untouched(C[i])' PROVE Held(C[i])'
    <3>1. changed' = changed \cup {<<"file", name>>}
      BY <1>10, <2>3 DEF Unlink, Changes
    <3>2. PICK c : c = C[i]
      OBVIOUS
    <3>3. C[i]' = c
      BY <2>2, <3>2
    <3>4. Untouched(c) /\ c.to # name
      BY <2>3, <3>1, <3>3 DEF Untouched
    <3>5. Held(c)
      BY <1>2, <2>3, <3>2, <3>4 DEF Behind
    <3>6. c.to \in DOMAIN uploads' /\ uploads'[c.to] = uploads[c.to]
      BY <2>1, <3>4, <3>5 DEF Held
    <3>7. QED
      BY <2>1, <3>3, <3>5, <3>6 DEF Held
  <2>4. Copying => Rest' /\ Behind'
    BY <1>2, <2>1, <2>2, <2>3 DEF Behind
  <2>5. QED
    BY <2>2, <2>4
<1>11. ASSUME NEW m \in {"all", "sql", "images"}, Start(m) PROVE <1>3!1
  <2>1. /\ snapshot \in Snapshots[importer] /\ importer' = importer /\ importer \in Importers
        /\ rows' = bySlug([i \in DOMAIN snapshot |-> Row(snapshot[i])]) /\ read' = snapshot
        /\ mode' = m /\ pc' = IF m = "sql" THEN "writing" ELSE "copying"
    BY <1>1, <1>11 DEF Start, TypeOK
  <2>2. RowsRead(importer, rows', snapshot)
    BY <2>1, RowsStaged
  <2>3. Owner' /\ Goes'
    BY <2>1, <2>2
  <2>4. ASSUME Copying' PROVE Rest' /\ Behind'
    <3>1. m # "sql" /\ left' = Copies(rows')
      BY <1>11, <2>1, <2>4 DEF Start
    <3>2. Copies(rows)' = Copies(rows')
      BY <2>1 DEF Copies, fileName
    <3>3. Len(left') \in Nat /\ DOMAIN left' = 1 .. Len(left') /\ left' \in Seq(InList(left'))
      BY <2>2, <3>1, CopiesNamed
    <3>4. Dealt' = 0
      BY <3>1, <3>2, <3>3 DEF Dealt
    <3>5. Rest'
      BY <3>1, <3>2, <3>3, <3>4
    <3>6. Behind'
      BY <3>4 DEF Behind
    <3>7. QED
      BY <3>5, <3>6
  <2>5. QED
    BY <2>3, <2>4
<1>12. ASSUME NEW c, c = Head(left), Held(c)',
              pc = "copying", left # <<>>, left' = Tail(left),
              UNCHANGED <<importer, pc, mode, read, rows, photos, changed>>,
              \A n \in DOMAIN uploads : n # c.to => n \in DOMAIN uploads' /\ uploads'[n] = uploads[n]
       PROVE  <1>3!1
  <2>1. Owner' /\ Goes' /\ Copying' = Copying /\ C' = C /\ Copying
    BY <1>2, <1>4, <1>12
  <2>2. /\ c = C[Dealt + 1] /\ Dealt + 1 \in DOMAIN C
        /\ Len(left) \in Nat \ {0} /\ Len(left') = Len(left) - 1 /\ left' \in Seq(InList(C))
        /\ \A i \in DOMAIN left' : i + 1 \in DOMAIN left /\ left'[i] = left[i + 1]
    BY <1>1, <1>12, NextCopy
  <2>3. Dealt' = Dealt + 1 /\ Dealt \in Nat
    BY <1>2, <1>5, <2>1, <2>2 DEF Dealt
  <2>4. Rest'
    <3>1. \A i \in DOMAIN left : left[i] = C[Dealt + i]
      BY <1>2, <2>1
    <3>2. ASSUME NEW i \in DOMAIN left' PROVE left'[i] = C[Dealt' + i]
      <4>1. i \in Nat
        BY <2>2
      <4>2. left'[i] = C[Dealt + (i + 1)]
        BY <2>2, <3>1, <3>2
      <4>3. Dealt + (i + 1) = Dealt' + i
        BY <2>3, <4>1
      <4>4. QED
        BY <4>2, <4>3
    <3>3. QED
      BY <2>1, <2>2, <2>3, <3>2
  <2>5. ASSUME NEW i \in 1 .. Dealt', Untouched(C[i])' PROVE Held(C[i])'
    <3>1. PICK d : d = C[i]
      OBVIOUS
    <3>2. C[i]' = d
      BY <2>1, <3>1
    <3>3. CASE i = Dealt + 1
      BY <1>12, <2>2, <3>1, <3>2, <3>3
    <3>4. CASE i # Dealt + 1
      <4>1. i \in 1 .. Dealt
        BY <2>3, <3>4
      <4>2. Untouched(d)
        BY <1>12, <2>5, <3>2 DEF Untouched
      <4>3. Held(d)
        BY <1>2, <2>1, <3>1, <4>1, <4>2 DEF Behind
      <4>4. d.to # c.to
        BY <1>5, <2>1, <2>2, <3>1, <3>4, <4>1
      <4>5. d.to \in DOMAIN uploads' /\ uploads'[d.to] = uploads[d.to]
        BY <1>12, <4>3, <4>4 DEF Held
      <4>6. QED
        BY <1>12, <3>2, <4>3, <4>5 DEF Held
    <3>5. QED
      BY <3>3, <3>4
  <2>6. Behind'
    BY <2>5 DEF Behind
  <2>7. QED
    BY <2>1, <2>4, <2>6
<1>13. CASE Skip \/ Copy
  <2>1. CASE Skip
    <3>1. /\ pc = "copying" /\ left # <<>> /\ left' = Tail(left) /\ Kept(Head(left))
          /\ UNCHANGED <<importer, pc, mode, read, rows, photos, changed, uploads>>
      BY <2>1 DEF Skip, scraper
    <3>2. PICK c : c = Head(left)
      OBVIOUS
    <3>3. Held(c)'
      BY <3>1, <3>2 DEF Kept, Held
    <3>4. QED
      BY <1>12, <3>1, <3>2, <3>3
  <2>2. CASE Copy
    <3>1. /\ pc = "copying" /\ left # <<>> /\ left' = Tail(left)
          /\ uploads' = Stored(Head(left).to, photos[Head(left).from])
          /\ UNCHANGED <<importer, pc, mode, read, rows, photos, changed>>
      BY <2>2 DEF Copy, scraper
    <3>2. PICK c : c = Head(left)
      OBVIOUS
    <3>3. Held(c)'
      BY <3>1, <3>2 DEF Stored, Held
    <3>4. QED
      BY <1>12, <3>1, <3>2, <3>3 DEF Stored
  <2>3. QED
    BY <1>13, <2>1, <2>2
<1>14. CASE Lose \/ Write \/ Kill
  BY <1>6, <1>14 DEF Lose, Write, Kill
<1>15. CASE Copied
  <2>1. CASE mode = "images"
    BY <1>6, <1>15, <2>1 DEF Copied
  <2>2. CASE mode # "images"
    <3>1. pc = "copying" /\ pc' = "writing" /\ UNCHANGED <<importer, mode, read, rows, left, uploads, photos, changed>>
      BY <1>15, <2>2 DEF Copied, scraper
    <3>2. C' = C /\ Dealt' = Dealt
      BY <3>1, SameCopies DEF Dealt
    <3>3. QED
      BY <1>2, <3>1, <3>2 DEF Behind, Untouched, Held
  <2>3. QED
    BY <2>1, <2>2
<1>16. CASE UNCHANGED vars
  BY <1>7, <1>16 DEF vars, scraper, run
<1>17. QED
  BY <1>8, <1>9, <1>10, <1>11, <1>13, <1>14, <1>15, <1>16 DEF Next

\* Only Write stages rows, those a run has read, and a kill may leave no script.
LEMMA StepWritten ==
    ASSUME IInv, [Next]_vars
    PROVE  Written'
<1>1. Progress /\ Written
  BY DEF IInv
<1>2. ASSUME UNCHANGED <<importer, seed>> PROVE Written'
  BY <1>1, <1>2 DEF Written
<1>3. CASE Write
  <2>1. pc = "writing" /\ importer' = importer /\ seed' = [from |-> read, rows |-> emitted(rows)]
    BY <1>3 DEF Write
  <2>2. read \in Snapshots[importer] /\ RowsRead(importer, rows, read)
    BY <1>1, <2>1 DEF Progress
  <2>3. RowsRead(importer, emitted(rows), read)
    <3> DEFINE shown == {i \in DOMAIN rows : \/ importer = "research" \/ Carries(rows[i])
                                             \/ importer = "1000ps" /\ rows[i].creates}
    <3>1. emitted(rows) = At(rows, shown) /\ shown \in SUBSET DOMAIN rows
      BY DEF emitted
    <3> HIDE DEF shown
    <3>2. QED
      BY <2>2, <3>1, RowsLeft
  <2>4. PICK rs : rs = emitted(rows)
    OBVIOUS
  <2>5. seed'.from = read /\ seed'.rows = rs
    BY <2>1, <2>4
  <2>6. QED
    BY <2>1, <2>2, <2>3, <2>4, <2>5 DEF Written
<1>4. CASE Kill
  <2>1. importer' = importer /\ (seed' = NULL \/ UNCHANGED seed)
    BY <1>4 DEF Kill
  <2>2. QED
    BY <1>2, <2>1 DEF Written
<1>5. CASE Scrape \/ Skip \/ Copy \/ Lose \/ Copied
  BY <1>2, <1>5 DEF Scrape, Skip, Copy, Lose, Copied
<1>6. ASSUME NEW path \in Paths, NEW size \in Sizes \cup {NULL}, Download(path, size) PROVE Written'
  BY <1>2, <1>6 DEF Download
<1>7. ASSUME NEW name \in DOMAIN uploads, Unlink(name) PROVE Written'
  BY <1>2, <1>7 DEF Unlink
<1>8. ASSUME NEW m \in {"all", "sql", "images"}, Start(m) PROVE Written'
  BY <1>2, <1>8 DEF Start
<1>9. CASE UNCHANGED vars
  BY <1>2, <1>9 DEF vars
<1>10. QED
  BY <1>3, <1>4, <1>5, <1>6, <1>7, <1>8, <1>9 DEF Next

\* Before anything has happened the invariant holds,
LEMMA InitIInv ==
    ASSUME Init
    PROVE  IInv
<1>1. /\ importer \in Importers /\ snapshot = NULL /\ photos = [p \in Paths |-> NULL]
      /\ uploads = <<>> /\ seed = NULL /\ pc = "idle" /\ mode = NULL
      /\ rows = <<>> /\ left = <<>> /\ changed = {} /\ scrapes = 0 /\ downloads = 0 /\ runs = 0
  BY DEF Init
<1>2. scrapes \in 0 .. MaxScrapes /\ downloads \in 0 .. MaxDownloads /\ runs \in 0 .. MaxRuns
  BY <1>1, BoundAssumption
<1>3. photos \in [Paths -> Sizes \cup {NULL}] /\ DOMAIN uploads = {}
  BY <1>1
<1>4. TypeOK
  BY <1>1, <1>2, <1>3 DEF TypeOK
<1>5. QED
  BY <1>1, <1>4 DEF IInv, Progress, Written

\* and every step keeps it.
LEMMA StepIInv ==
    ASSUME IInv, [Next]_vars
    PROVE  IInv'
BY StepTypeOK, StepProgress, StepWritten DEF IInv

\* In every behaviour a run has its rows from the snapshot it read, has dealt with the copies
\* before the ones it still has to make, and a script has its rows from its snapshot.
THEOREM IInvHolds == Spec => []IInv
<1>1. Init => IInv
  BY InitIInv
<1>2. IInv /\ [Next]_vars => IInv'
  BY StepIInv
<1>3. QED
  BY <1>1, <1>2, PTL DEF Spec

------------------------------------------------------------------------------
(* What the script promises *)

\* Whatever is scraped, downloaded, deleted or killed, and in whatever order, the state keeps
\* the shape its variables document, and a run that has ended leaves nothing of itself behind.
THEOREM TypeOKHolds == Spec => []TypeOK
<1>1. IInv => TypeOK
  BY DEF IInv
<1>2. QED
  BY <1>1, IInvHolds, PTL

\* The staged rows are of one of the importer's snapshots.
LEMMA StagedRows ==
    ASSUME Written
    PROVE  /\ \A i \in DOMAIN Staged : Sound(importer, Staged[i])
           /\ \A i, j \in DOMAIN Staged : Staged[i].slug = Staged[j].slug => i = j
<1>1. CASE seed = NULL
  BY <1>1 DEF Staged
<1>2. CASE seed # NULL
  <2>1. Staged = seed.rows /\ RowsRead(importer, seed.rows, seed.from)
    BY <1>2 DEF Staged, Written
  <2> HIDE DEF Staged
  <2>2. QED
    BY <2>1 DEF RowsRead, ReadFrom
<1>3. QED
  BY <1>1, <1>2

\* Every script an importer writes, from whatever snapshot, passes the checks of the table and
\* of the import: one row a slug, no dry weight above the kerb weight, no displacement that
\* bore, stroke and cylinders contradict, no torque peaking above the power.
THEOREM RowsPass == Spec => []RowsPassTheChecks
<1>1. ASSUME Written PROVE RowsPassTheChecks
  <2>1. /\ \A i \in DOMAIN Staged : Sound(importer, Staged[i])
        /\ \A i, j \in DOMAIN Staged : Staged[i].slug = Staged[j].slug => i = j
    BY <1>1, StagedRows
  <2> HIDE DEF Staged
  <2>2. QED
    BY <2>1 DEF RowsPassTheChecks, Sound, Ordered
<1>2. IInv => RowsPassTheChecks
  BY <1>1 DEF IInv
<1>3. QED
  BY <1>2, IInvHolds, PTL

\* Wherever an importer rewrites the description of an engine, description and cylinder count
\* of every row it stages tell of one engine, whichever of the two the sheet had right.
THEOREM TextAgrees == Spec => []EngineTextAgrees
<1>1. ASSUME Written PROVE EngineTextAgrees
  <2>1. \A i \in DOMAIN Staged : Sound(importer, Staged[i])
    BY <1>1, StagedRows
  <2> HIDE DEF Staged
  <2>2. QED
    BY <2>1 DEF EngineTextAgrees, Sound, Agrees
<1>2. IInv => EngineTextAgrees
  BY <1>1 DEF IInv
<1>3. QED
  BY <1>2, IInvHolds, PTL

\* A figure or label the published sheet gives is the one its staged row has: the researched
\* table and the combined label only fill what the sheet leaves out.
THEOREM PublishedFirst == Spec => []PublishedWins
<1>1. ASSUME Written, importer \in Importers PROVE PublishedWins
  <2>1. SUFFICES ASSUME importer = "kawasaki", NEW p \in Pairs
                 PROVE  Published(Staged[p[1]], seed.from[p[2]])
    <3>1. ASSUME NEW row, NEW sheet, Published(row, sheet)
          PROVE  /\ RatioIn(sheet.ratio, {":", ";"}) \in {NULL, row.ratio}
                 /\ longTailSpecs(sheet) \in {NULL, row.tail}
      BY <3>1, Zenon DEF Published
    <3>2. QED
      BY <3>1, Zenon DEF PublishedWins
  <2>2. /\ seed # NULL /\ p[1] \in DOMAIN Staged /\ p[2] \in DOMAIN seed.from
        /\ Staged[p[1]].slug = seed.from[p[2]].slug
    <3> HIDE DEF Staged
    <3>1. /\ p[1] \in DOMAIN Staged /\ p[2] \in (IF seed = NULL THEN {} ELSE DOMAIN seed.from)
          /\ Staged[p[1]].slug = seed.from[p[2]].slug
      BY DEF Pairs
    <3>2. QED
      BY <3>1
  <2>3. Staged = seed.rows /\ seed.from \in Snapshots["kawasaki"] /\ RowsRead("kawasaki", seed.rows, seed.from)
    BY <1>1, <2>1, <2>2 DEF Staged, Written
  <2> HIDE DEF Staged
  <2>4. PICK k \in DOMAIN seed.from : ReadFrom("kawasaki", Staged[p[1]], seed.from[k])
    BY <2>2, <2>3 DEF RowsRead
  <2>5. k = p[2]
    <3>1. seed.from[k].slug = seed.from[p[2]].slug
      BY <2>2, <2>4 DEF ReadFrom
    <3>2. "kawasaki" \in Importers /\ "kawasaki" \notin Typed
      BY DEF Importers, Prose, Typed
    <3>3. QED
      BY <2>2, <2>3, <3>1, <3>2, SnapshotAssumption
  <2>6. QED
    BY <2>4, <2>5 DEF ReadFrom
<1>2. IInv => PublishedWins
  BY <1>1 DEF IInv, TypeOK
<1>3. QED
  BY <1>2, IInvHolds, PTL

\* Two staged bikes never share a photo's copy, so deleting one, whenever, leaves the other its
\* image: the copies are named by the bikes, not by the photos.
THEOREM CopiesOwned == Spec => []CopiesAreOwned
<1>1. ASSUME Written PROVE CopiesAreOwned
  <2>1. \A i, j \in DOMAIN Staged : Staged[i].slug = Staged[j].slug => i = j
    BY <1>1, StagedRows
  <2> HIDE DEF Staged
  <2>2. QED
    BY <2>1 DEF CopiesAreOwned, fileName
<1>2. IInv => CopiesAreOwned
  BY <1>1 DEF IInv
<1>3. QED
  BY <1>2, IInvHolds, PTL

\* A run that copies writes its script only when every photo the script names has its copy,
\* whole and of the size the gallery has now, whatever killed runs have left in the upload
\* directory and whatever was downloaded or deleted meanwhile, other than that photo or file.
THEOREM CopiesFirst == Spec => []CopiesPrecedeRows
<1>1. ASSUME TypeOK, Progress PROVE CopiesPrecedeRows
  <2> DEFINE C == Copies(rows)
  <2>1. SUFFICES ASSUME pc = "writing", mode = "all", NEW i \in DOMAIN C, Untouched(C[i])
                 PROVE  Held(C[i])
    BY DEF CopiesPrecedeRows, Untouched, Held
  <2>2. RowsRead(importer, rows, read)
        /\ \A j \in 1 .. Dealt : Untouched(C[j]) => Held(C[j])
    BY <1>1, <2>1 DEF Progress
  <2>3. left = <<>>
    BY <1>1, <2>1 DEF TypeOK
  <2>4. Len(C) \in Nat /\ DOMAIN C = 1 .. Len(C)
    BY <2>2, CopiesNamed
  <2>5. Dealt = Len(C)
    BY <2>3, <2>4 DEF Dealt
  <2>6. QED
    BY <2>1, <2>2, <2>4, <2>5
<1>2. IInv => CopiesPrecedeRows
  BY <1>1 DEF IInv
<1>3. QED
  BY <1>2, IInvHolds, PTL
================================================================================
