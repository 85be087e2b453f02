-------------------------------- MODULE Sheets --------------------------------
(***************************************************************************)
(* The specification importers at work.  A scraper leaves a snapshot of    *)
(* sheets and downloads photos, in any order and more than once; an        *)
(* importer reads the snapshot, copies one photo per row into the upload   *)
(* directory and writes its seed script; the process may be killed at any  *)
(* point, and the application deletes the files of the bikes it deletes.   *)
(*                                                                         *)
(* A behaviour follows one importer; they share no file but the uploads,   *)
(* and no name in it.  "research" is the Kawasaki engine research, whose   *)
(* sheets hold numbers and which copies no photos.                         *)
(***************************************************************************)
EXTENDS SheetReading

CONSTANTS
    Snapshots,    \* what a scrape may leave, by importer: sequences of sheets; the figures the
                  \* manufacturer published are in a sheet's "meant", which no importer sees
    Paths,        \* photos a sheet may name
    ExtOf,        \* the extension of a path
    Sizes,        \* sizes of photos
    Researched,   \* Kawasaki's RESEARCHED_SPECS: [slug, column, new]
    Errata,       \* of the engine research: [slug, holds, gives], columns that hold and get
    MaxScrapes,   \* bound: scrapes in one behaviour
    MaxDownloads, \* bound: downloads in one behaviour
    MaxRuns       \* bound: runs of the importer in one behaviour

Importers == Prose \cup Typed \cup {"research"}
Images == {"jpg", "png", "webp"}
Measures == {"slug", "cc", "bore", "stroke", "cylinders"}

ASSUME PathAssumption == ExtOf \in [Paths -> Images \cup {"gif"}]
ASSUME BoundAssumption ==
    /\ Sizes \subseteq Nat \ {0}
    /\ MaxScrapes \in Nat /\ MaxDownloads \in Nat /\ MaxRuns \in Nat
ASSUME NullAssumption == NULL \notin {"all", "sql", "images"} /\ NULL \notin Int
\* The brands' importers take it from their scrapers that no two sheets have one id, and the
\* research is an object keyed by slug; 1000ps and the gap-filling collapse repeats themselves.
ASSUME SnapshotAssumption ==
    \A i \in Importers : \A s \in Snapshots[i] :
        /\ Len(s) \in Nat /\ DOMAIN s = 1 .. Len(s)
        /\ i \notin Typed => \A j, k \in DOMAIN s : s[j].slug = s[k].slug => j = k
        /\ \A k \in DOMAIN s :
            /\ s[k].photos \in Seq(Paths)
            /\ i = "research" => Measures \subseteq DOMAIN s[k]
            /\ i # "research" => DOMAIN s[k].engine = {"phrase", "count", "explicit", "valves", "each"}
\* What RESEARCHED_SPECS and ERRATA write.
ASSUME ResearchedAssumption == \A e \in Researched : e.column \in {"ratio", "stroke", "drive", "use"}
ASSUME ErrataAssumption == \A e \in Errata : DOMAIN e.gives \subseteq {"bore", "stroke"}

VARIABLES
    importer, \* the importer this behaviour follows
    snapshot, \* the scraper's JSON file
    photos,   \* the scraper's gallery: the size of each file, NULL when it is not there
    uploads,  \* the upload directory: the size of each file there is, by name
    pc, mode, \* where a run is, and its flags: "all", "sql" or "images"
    read,     \* the snapshot a run has read
    rows,     \* the rows it stages
    left,     \* the rows whose photos it has still to copy
    seed,     \* the seed script: the rows staged and the snapshot they are of, NULL when cut
    changed,  \* photos downloaded and files deleted since the run began (history)
    scrapes, downloads, runs  \* so far

scraper == <<snapshot, photos, scrapes, downloads>>
run == <<pc, mode, read, rows, left, runs>>
vars == <<importer, scraper, uploads, run, seed, changed>>

------------------------------------------------------------------------------
(* Rows *)

\* The fields of f, and of g those that f does not have.
Over(f, g) == [c \in DOMAIN f \cup DOMAIN g |-> IF c \in DOMAIN f THEN f[c] ELSE g[c]]
\* The elements of rs at these places, in their order.
At(rs, places) ==
    LET Rank(i) == Cardinality({j \in places : j <= i})
    IN [n \in 1 .. Cardinality(places) |-> rs[CHOOSE i \in places : Rank(i) = n]]

NoOrder(kerb, dry) == dry  \* mutant: whatever the sheet says
\* A dry weight above the kerb weight would fail the table's check.
BelowKerb(kerb, dry) == IF NULL \notin {kerb, dry} /\ dry > kerb THEN NULL ELSE dry

AnyFile(sheet) ==  \* mutant: whatever the gallery holds
    LET there == {i \in DOMAIN sheet.photos : photos[sheet.photos[i]] # NULL}
    IN IF there = {} THEN NULL ELSE sheet.photos[Min(there)]
\* The first photo that has been downloaded and is an image.
imageFor(sheet) ==
    LET there == {i \in DOMAIN sheet.photos :
                    photos[sheet.photos[i]] # NULL /\ ExtOf[sheet.photos[i]] \in Images}
    IN IF there = {} THEN NULL ELSE sheet.photos[Min(there)]
NamedBySource(slug, path) == <<path, ExtOf[path]>>  \* mutant: one copy per photo
fileName(slug, path) == <<slug, ExtOf[path]>>

\* The first label of the table that has a value; a label never overwrites another.
longTailSpecs(sheet) ==
    LET given == {i \in DOMAIN sheet.tail : clean(sheet.tail[i]) # NULL}
    IN IF given = {} THEN NULL ELSE clean(sheet.tail[Min(given)])
\* "27.5 degrees / 4.7 in" gives the rake only where no sheet of its own has.
KawasakiTail(sheet) ==
    IF longTailSpecs(sheet) = NULL /\ Len(sheet.pair) = 2 THEN clean(sheet.pair[1])
    ELSE longTailSpecs(sheet)

\* A standard is found in any text naming one, or is the first text there is.
EmissionIn(texts) == IF \E i \in DOMAIN texts : texts[i] \in {"EURO5", "in prose"} THEN "Euro 5" ELSE NULL
EmissionAlias(texts) == IF FirstOf(texts) = "EURO5" THEN "Euro 5" ELSE FirstOf(texts)

\* The label of the source, then the model's name, then the brand's usual segment.
CategoryOf(sheet) == IF sheet.label # NULL THEN sheet.label
                     ELSE IF sheet.model # NULL THEN sheet.model ELSE "NAKED"
LabelOr(sheet, usual) == IF sheet.label # NULL THEN sheet.label ELSE usual
\* 1000ps: no quads, no unknown labels; an era says nothing, the name has to.
PsCategory(sheet) ==
    CASE sheet.label \in {NULL, "quad"} -> [category |-> NULL, creates |-> FALSE]
      [] sheet.label = "oldtimer" ->
            [category |-> IF sheet.model # NULL THEN sheet.model ELSE "NAKED", creates |-> TRUE]
      [] OTHER -> [category |-> sheet.label, creates |-> TRUE]

\* The columns every prose importer reads by the same rules.
Columns(brand, sheet, litres) ==
    LET kg(text) == bounded(round(measure(brand, text, {"kg"}, {}), 10), 20, 500)
        mm(text) == bounded(round(measure(brand, text, {"mm"}, {"bare"}), 1), 20, 150)
    IN [slug |-> sheet.slug,
        bore |-> mm(sheet.bore), stroke |-> mm(sheet.stroke),
        hp |-> powerOf(brand, sheet.power), hpRpm |-> rpmOf(brand, sheet.power),
        nm |-> torqueOf(brand, sheet.torque), nmRpm |-> rpmOf(brand, sheet.torque),
        speed |-> topSpeedOf(brand, sheet.speed),
        kerb |-> kg(sheet.kerb), dry |-> kg(sheet.dry),
        tank |-> bounded(round(measure(brand, sheet.tank, litres, {}), 10), 1, 50),
        frame |-> clean(sheet.frame), tyre |-> clean(sheet.tyre)]
Seat(brand, sheet, options) ==
    bounded(round(measure(brand, sheet.seat, {"mm"}, options), 100), 400, 1100)
Displacement(brand, sheet) == bounded(round(measure(brand, sheet.cc, {"cc"}, {"bare"}), 100), 30, 2500)
Metric == {"l", "litres"}

\* The engine and the weights, once the columns are read.
Completed(brand, sheet, cols, cc) ==
    Over([cols EXCEPT !.dry = BelowKerb(cols.kerb, cols.dry)],
         Over([cc |-> cc],
              IF brand = "yamaha" THEN YamahaEngine(sheet.engine)
              ELSE EngineOf(brand, sheet.engine, cc, cols.bore, cols.stroke)))

HarleyRow(sheet) ==
    LET seat == [text |-> sheet.seat, laden |-> sheet.laden, unladen |-> sheet.unladen]
    IN Over(Completed("harley", sheet, Columns("harley", sheet, Metric), Displacement("harley", sheet)),
       [ratio |-> compressionOf(sheet.ratio, {":", ";", "."}),
        drive |-> FirstOf(sheet.drive), use |-> HarleyConsumption("harley", sheet.use),
        emission |-> EmissionAlias(sheet.emission),
        seat |-> seatHeightOf(seat), laden |-> ladenSeatHeight(seat),
        category |-> LabelOr(sheet, "CRUISER"), creates |-> TRUE,
        tail |-> longTailSpecs(sheet), photo |-> imageFor(sheet)])

\* The same without the two seats.
EnfieldRow(sheet) ==
    Over(Completed("enfield", sheet, Columns("enfield", sheet, Metric), Displacement("enfield", sheet)),
    [ratio |-> compressionOf(sheet.ratio, {":", "."}),
     drive |-> FirstOf(sheet.drive), use |-> HarleyConsumption("enfield", sheet.use),
     emission |-> EmissionAlias(sheet.emission), seat |-> Seat("enfield", sheet, {"bare"}),
     laden |-> NULL, category |-> LabelOr(sheet, "CRUISER"), creates |-> TRUE,
     tail |-> longTailSpecs(sheet), photo |-> imageFor(sheet)])

\* No measurement overrules the prose here.
YamahaRow(sheet) ==
    Over(Completed("yamaha", sheet, Columns("yamaha", sheet, Metric), Displacement("yamaha", sheet)),
    [ratio |-> compressionOf(sheet.ratio, {":", "."}),
     drive |-> FirstOf(sheet.drive), use |-> HarleyConsumption("yamaha", sheet.use),
     emission |-> EmissionAlias(sheet.emission), seat |-> Seat("yamaha", sheet, {"bare"}),
     laden |-> NULL, category |-> LabelOr(sheet, "NAKED"), creates |-> TRUE,
     tail |-> longTailSpecs(sheet), photo |-> imageFor(sheet)])

CubicDisplacement(brand, sheet) == bounded(round(displacementOf(brand, sheet.cc), 100), 30, 2500)
BmwRow(sheet) ==
    Over(Completed("bmw", sheet, Columns("bmw", sheet, Metric \cup {"liters"}), CubicDisplacement("bmw", sheet)),
    [ratio |-> compressionOf(sheet.ratio, {":", ";", "."}),
     drive |-> FirstOf(sheet.drive), use |-> BmwConsumption(sheet.use),
     emission |-> EmissionIn(sheet.emission), seat |-> Seat("bmw", sheet, {"bare", "inches"}),
     laden |-> NULL, category |-> CategoryOf(sheet), creates |-> TRUE,
     tail |-> longTailSpecs(sheet), photo |-> imageFor(sheet)])

ResearchWins(row) ==  \* mutant: the research overwrites
    IF \E e \in Researched : e.slug = row.slug /\ e.column = "ratio"
    THEN [row EXCEPT !.ratio = (CHOOSE e \in Researched : e.slug = row.slug /\ e.column = "ratio").new]
    ELSE row
\* A researched figure fills only what the sheet has left NULL.
applyResearched(row) ==
    [c \in DOMAIN row |->
        LET of == {e \in Researched : e.slug = row.slug /\ e.column = c /\ row[c] = NULL}
        IN IF of = {} THEN row[c] ELSE (CHOOSE e \in of : TRUE).new]
KawasakiRow(sheet) ==
    applyResearched(Over(
        Completed("kawasaki", sheet, Columns("kawasaki", sheet, Metric \cup {"liters"}),
                  CubicDisplacement("kawasaki", sheet)),
        [ratio |-> KawasakiCompression(sheet.ratio),
         drive |-> finalDriveOf(sheet.drive), use |-> KawasakiConsumption(sheet.use),
         emission |-> EmissionIn(sheet.emission), seat |-> Seat("kawasaki", sheet, {"bare", "inches"}),
         laden |-> NULL, category |-> CategoryOf(sheet), creates |-> TRUE,
         tail |-> KawasakiTail(sheet), photo |-> imageFor(sheet)]))

\* No photo, no drive, no consumption; the script itself looks at the weights.
TriumphRow(sheet) ==
    Over([Columns("triumph", sheet, Metric) EXCEPT !.frame = proseField(sheet.frame),
                                                   !.tyre = tyreField(sheet.tyre)],
    Over(TriumphEngine(sheet.engine),
    [cc |-> Displacement("triumph", sheet), ratio |-> compressionOf(sheet.ratio, {":", "."}),
     drive |-> NULL, use |-> NULL, emission |-> NULL, seat |-> Seat("triumph", sheet, {"bare"}),
     laden |-> NULL, category |-> NULL, creates |-> FALSE,
     tail |-> longTailSpecs(sheet), photo |-> NULL]))

\* A bore and stroke more than 5 % off their own displacement are both dropped.
Agreeing(cc, pair, cylinders) ==
    IF Contradicts(cc, pair.bore, pair.stroke, cylinders, 5) THEN [bore |-> NULL, stroke |-> NULL]
    ELSE pair

\* A string in the place of a number is NULL.
Number(v, step, least, most) == bounded(round(v, step), least, most)
TypedColumns(brand, sheet) ==
    LET cylinders == Within(cylindersOf(brand, sheet.engine), 1, 8)
        cc == Number(sheet.cc, 100, 30, 2500)
        pair == Agreeing(cc, [bore |-> Number(sheet.bore, 1, 20, 150),
                              stroke |-> Number(sheet.stroke, 1, 20, 150)], cylinders)
        kerb == Number(sheet.kerb, 10, 20, 600)
    IN Over(pair,
       [slug |-> sheet.slug, cc |-> cc, cylinders |-> cylinders, text |-> sheet.engine,
        hp |-> powerOf(brand, sheet.power), hpRpm |-> rpmOf(brand, sheet.power),
        nm |-> torqueOf(brand, sheet.torque), nmRpm |-> rpmOf(brand, sheet.torque),
        kerb |-> kerb, dry |-> BelowKerb(kerb, Number(sheet.dry, 10, 20, 600)),
        speed |-> Number(sheet.speed, 100, 20, 400), seat |-> Number(sheet.seat, 100, 400, 1100),
        tank |-> Number(sheet.tank, 10, 1, 60), laden |-> NULL,
        frame |-> proseField(sheet.frame), tyre |-> tyreField(sheet.tyre)])

\* Kilowatt-hours are no litres.
PsRow(sheet) ==
    Over(TypedColumns("1000ps", sheet), Over(PsCategory(sheet),
    [valves |-> IF sheet.engine.each THEN Within(sheet.engine.valves, 1, 8) ELSE NULL,
     ratio |-> PsCompression(sheet.ratio), drive |-> FirstOf(sheet.drive),
     use |-> IF sheet.use.unit = "kWh" THEN NULL
             ELSE LET v == sheet.use.value IN IF v # NULL /\ v \in 50 .. 3000 THEN v ELSE NULL,
     emission |-> FirstOf(sheet.emission), description |-> NULL,
     tail |-> longTailSpecs(sheet), photo |-> imageFor(sheet)]))
GapRow(sheet) ==
    Over(TypedColumns("gapfill", sheet),
    [valves |-> Within(sheet.engine.valves, 1, 8),
     ratio |-> PsCompression(sheet.ratio), drive |-> FirstOf(sheet.drive),
     use |-> LET v == sheet.use.value IN IF v # NULL /\ v \in 50 .. 3000 THEN v ELSE NULL,
     emission |-> EmissionIn(sheet.emission), description |-> descriptionField(sheet.description),
     category |-> IF sheet.model # NULL THEN sheet.model
                  ELSE IF sheet.label \in {"quad", "oldtimer"} THEN NULL ELSE sheet.label,
     creates |-> FALSE, tail |-> longTailSpecs(sheet), photo |-> NULL])

\* An erratum is a published figure the researched row contradicts.
Corrected(sheet) ==
    LET of == {e \in Errata : /\ e.slug = sheet.slug
                              /\ \A c \in DOMAIN e.holds : sheet[c] = e.holds[c]}
    IN IF of = {} THEN sheet ELSE Over((CHOOSE e \in of : TRUE).gives, sheet)
\* The pair goes, never the displacement.
CheckedGeometry(r) ==
    IF Contradicts(r.cc, r.bore, r.stroke, r.cylinders, 1)
    THEN [r EXCEPT !.bore = NULL, !.stroke = NULL] ELSE r
\* Torque peaks below power.
OrderedPeaks(r) ==
    IF NULL \notin {r.hpRpm, r.nmRpm} /\ r.nmRpm > r.hpRpm THEN [r EXCEPT !.nmRpm = NULL] ELSE r
ResearchRow(sheet) ==
    LET r == CheckedGeometry(Corrected(sheet))
    IN OrderedPeaks(
       [cc |-> bounded(r.cc, 30, 2500), bore |-> bounded(r.bore, 30, 120),
        stroke |-> bounded(r.stroke, 25, 130), cylinders |-> Within(r.cylinders, 1, 6),
        valves |-> Within(r.valves, 2, 5), hp |-> bounded(r.hp, 1, 350),
        hpRpm |-> bounded(r.hpRpm, 1500, 16000), nm |-> bounded(r.nm, 1, 250),
        nmRpm |-> bounded(r.nmRpm, 1000, 14000), speed |-> bounded(r.speed, 40, 340),
        use |-> IF r.use # NULL /\ r.use \in 150 .. 1500 THEN r.use ELSE NULL,
        \* a text wider than its column is dropped, not cut
        ratio |-> IF r.ratio = "wide" THEN NULL ELSE r.ratio,
        slug |-> r.slug, creates |-> FALSE, photo |-> NULL])

Row(sheet) ==
    CASE importer = "harley" -> HarleyRow(sheet)
      [] importer = "kawasaki" -> KawasakiRow(sheet)
      [] importer = "bmw" -> BmwRow(sheet)
      [] importer = "yamaha" -> YamahaRow(sheet)
      [] importer = "enfield" -> EnfieldRow(sheet)
      [] importer = "triumph" -> TriumphRow(sheet)
      [] importer = "1000ps" -> PsRow(sheet)
      [] importer = "gapfill" -> GapRow(sheet)
      [] OTHER -> ResearchRow(sheet)

\* The first row of a slug, whatever it carries.
bySlug(rs) ==
    LET first == {i \in DOMAIN rs : \A j \in 1 .. i - 1 : rs[j].slug # rs[i].slug}
    IN IF importer \in Typed THEN At(rs, first) ELSE rs

\* A row that carries nothing is not staged, unless it may create its bike.
Carries(row) ==
    \/ \E c \in DOMAIN row \ {"slug", "creates", "text", "category"} : row[c] # NULL
    \/ row.text.phrase # NULL
    \/ importer = "gapfill" /\ row.category # NULL
emitted(rs) ==
    LET shown(row) == importer = "research" \/ Carries(row) \/ (importer = "1000ps" /\ row.creates)
    IN At(rs, {i \in DOMAIN rs : shown(rs[i])})

\* 1000ps copies for the rows that may create a bike, the brands for every row.
Copies(rs) ==
    LET copied(row) == row.photo # NULL /\ (importer = "1000ps" => row.creates)
        of == At(rs, {i \in DOMAIN rs : copied(rs[i])})
    IN [i \in DOMAIN of |-> [from |-> of[i].photo, to |-> fileName(of[i].slug, of[i].photo)]]

------------------------------------------------------------------------------
(* The scraper, the application and the importer *)

Init ==
    /\ importer \in Importers /\ snapshot = NULL /\ photos = [p \in Paths |-> NULL]
    /\ uploads = <<>> /\ seed = NULL /\ pc = "idle" /\ mode = NULL
    /\ read = <<>> /\ rows = <<>> /\ left = <<>> /\ changed = {}
    /\ scrapes = 0 /\ downloads = 0 /\ runs = 0

Stored(name, size) == [n \in DOMAIN uploads \cup {name} |-> IF n = name THEN size ELSE uploads[n]]
Changes(x) == changed' = IF pc = "idle" THEN {} ELSE changed \cup {x}

\* A new snapshot replaces the last, also under a run that has read it.
Scrape ==
    /\ scrapes < MaxScrapes /\ scrapes' = scrapes + 1
    /\ snapshot' \in Snapshots[importer]
    /\ UNCHANGED <<importer, photos, downloads, uploads, run, seed, changed>>

\* The galleries follow the sheets, in any order, again, or are cleared.
Download(path, size) ==
    /\ snapshot # NULL /\ \E i \in DOMAIN snapshot : path \in Range(snapshot[i].photos)
    /\ downloads < MaxDownloads /\ downloads' = downloads + 1
    /\ photos[path] # size /\ photos' = [photos EXCEPT ![path] = size]
    /\ Changes(<<"photo", path>>)
    /\ UNCHANGED <<importer, snapshot, scrapes, uploads, run, seed>>

\* The application deletes a bike, and with it its file.
Unlink(name) ==
    /\ name \in DOMAIN uploads
    /\ uploads' = [n \in DOMAIN uploads \ {name} |-> uploads[n]]
    /\ Changes(<<"file", name>>)
    /\ UNCHANGED <<importer, scraper, run, seed>>

\* --sql-only, --images-only, or neither; three importers copy nothing.
Modes == IF importer \in {"triumph", "gapfill", "research"} THEN {"sql"} ELSE {"all", "sql", "images"}
Start(m) ==
    /\ pc = "idle" /\ snapshot # NULL /\ runs < MaxRuns
    /\ m \in Modes /\ mode' = m
    /\ pc' = IF m = "sql" THEN "writing" ELSE "copying"
    /\ read' = snapshot
    /\ rows' = bySlug([i \in DOMAIN snapshot |-> Row(snapshot[i])])
    /\ left' = IF m = "sql" THEN <<>> ELSE Copies(rows')
    /\ runs' = runs + 1 /\ changed' = {}
    /\ UNCHANGED <<importer, scraper, uploads, seed>>

Stop ==
    /\ pc' = "idle" /\ mode' = NULL /\ read' = <<>> /\ rows' = <<>> /\ left' = <<>>
    /\ changed' = {}

KeptIfThere(copy) == copy.to \in DOMAIN uploads  \* mutant: any file of the name will do
\* A file of the same size is left alone; 1000ps leaves every file alone.
Kept(copy) ==
    copy.to \in DOMAIN uploads /\ (importer = "1000ps" \/ uploads[copy.to] = photos[copy.from])
Skip ==
    /\ pc = "copying" /\ left # <<>> /\ Kept(Head(left))
    /\ left' = Tail(left)
    /\ UNCHANGED <<importer, scraper, uploads, pc, mode, read, rows, runs, seed, changed>>
Copy ==
    /\ pc = "copying" /\ left # <<>> /\ ~Kept(Head(left)) /\ photos[Head(left).from] # NULL
    /\ uploads' = Stored(Head(left).to, photos[Head(left).from])
    /\ left' = Tail(left)
    /\ UNCHANGED <<importer, scraper, pc, mode, read, rows, runs, seed, changed>>
\* The photo has gone since it was looked for, and the run dies of it.
Lose ==
    /\ pc = "copying" /\ left # <<>> /\ ~Kept(Head(left)) /\ photos[Head(left).from] = NULL
    /\ Stop
    /\ UNCHANGED <<importer, scraper, uploads, runs, seed>>
Copied ==
    /\ pc = "copying" /\ left = <<>>
    /\ IF mode = "images" THEN Stop
       ELSE pc' = "writing" /\ UNCHANGED <<mode, read, rows, left, changed>>
    /\ UNCHANGED <<importer, scraper, uploads, runs, seed>>
Write ==
    /\ pc = "writing"
    /\ seed' = [from |-> read, rows |-> emitted(rows)]
    /\ Stop
    /\ UNCHANGED <<importer, scraper, uploads, runs>>

\* A kill may leave a part of the file being written.
Kill ==
    /\ pc # "idle"
    /\ \/ pc = "writing" /\ seed' = NULL /\ UNCHANGED uploads
       \/ /\ pc = "copying" /\ left # <<>> /\ ~Kept(Head(left)) /\ photos[Head(left).from] # NULL
          /\ \E part \in 0 .. photos[Head(left).from] - 1 :
                uploads' = Stored(Head(left).to, part)
          /\ UNCHANGED seed
       \/ UNCHANGED <<uploads, seed>>
    /\ Stop
    /\ UNCHANGED <<importer, scraper, runs>>

Next ==
    \/ Scrape
    \/ \E path \in Paths, size \in Sizes \cup {NULL} : Download(path, size)
    \/ \E name \in DOMAIN uploads : Unlink(name)
    \/ \E m \in {"all", "sql", "images"} : Start(m)
    \/ Skip \/ Copy \/ Lose \/ Copied \/ Write \/ Kill

Spec == Init /\ [][Next]_vars

------------------------------------------------------------------------------
(* Properties *)

Staged == IF seed = NULL THEN <<>> ELSE seed.rows
\* A staged row and the sheet it was read from.
Pairs == {p \in (DOMAIN Staged) \X (IF seed = NULL THEN {} ELSE DOMAIN seed.from) :
            Staged[p[1]].slug = seed.from[p[2]].slug}
Near(v, meant) == v # NULL /\ 100 * v \in 99 * meant .. 101 * meant

\* The state is of the shape its variables document, and a run keeps nothing behind it.
TypeOK ==
    /\ importer \in Importers /\ snapshot \in Snapshots[importer] \cup {NULL}
    /\ photos \in [Paths -> Sizes \cup {NULL}]
    /\ \A name \in DOMAIN uploads : uploads[name] \in Nat /\ name[2] \in Images
    /\ pc \in {"idle", "copying", "writing"} /\ (pc = "idle") = (mode = NULL)
    /\ pc = "writing" => left = <<>> /\ mode # "images"
    /\ pc = "idle" => rows = <<>> /\ left = <<>> /\ changed = {}
    /\ scrapes \in 0 .. MaxScrapes /\ downloads \in 0 .. MaxDownloads /\ runs \in 0 .. MaxRuns

\* Whatever a scrape leaves, the staged rows pass the checks of the table and of the import:
\* one row a slug, no dry weight above the kerb weight (Triumph's script looks itself), no
\* typed quartet more than 5 % off, no researched one more than 1 % off or peaking the wrong
\* way round.
RowsPassTheChecks ==
    /\ \A i, j \in DOMAIN Staged : Staged[i].slug = Staged[j].slug => i = j
    /\ \A i \in DOMAIN Staged :
        LET r == Staged[i] IN
        /\ importer \notin {"triumph", "research"} => NULL \in {r.kerb, r.dry} \/ r.dry <= r.kerb
        /\ importer \in Typed => ~Contradicts(r.cc, r.bore, r.stroke, r.cylinders, 5)
        /\ importer = "research" =>
              /\ ~Contradicts(r.cc, r.bore, r.stroke, r.cylinders, 1)
              /\ NULL \in {r.hpRpm, r.nmRpm} \/ r.nmRpm <= r.hpRpm

\* The description of an engine and the columns beside it tell of one engine, where the
\* importer rewrites descriptions and the count was not given a cell of its own.
EngineTextAgrees ==
    importer \in {"harley", "kawasaki", "bmw", "enfield"} =>
        \A i \in DOMAIN Staged :
            LET said == Staged[i].text IN
            (said.explicit = NULL /\ Staged[i].cylinders \in {1, 2, 3, 4, 6})
            => cylindersOf(importer, said) \in {NULL, Staged[i].cylinders}

Split(text) == \E i \in Places(text) : IsFigure(text[i]) /\ IsFigure(text[i + 1])
Cut(text) == \E i \in Places(text) : IsFigure(text[i]) /\ IsFigure(text[i + 1]) /\ text[i + 1].digits > 0
\* Texts an importer is known to misread: a split figure, for Kawasaki and BMW only one whose
\* rest has decimals, and for Yamaha a range.
Misread(text) ==
    \/ IF importer \in {"kawasaki", "bmw"} THEN Cut(Repaired(importer, text))
       ELSE Split(Repaired(importer, text))
    \/ importer = "yamaha" /\ Word("-") \in Range(text)
TextOf(sheet) ==
    [cc |-> sheet.cc, tank |-> sheet.tank, kerb |-> sheet.kerb, dry |-> sheet.dry,
     seat |-> sheet.seat, speed |-> sheet.speed, hp |-> sheet.power, nm |-> sheet.torque]

\* Torn digits, foreign units, ranges and thousands never become a figure other than the one
\* the manufacturer published: the column has that or nothing, and nothing only if no whole
\* figure stands before its metric unit.  Kawasaki's consumption is safe from every tear.
NeverAWrongFigure ==
    importer \in Prose => \A p \in Pairs :
        LET r == Staged[p[1]]
            sheet == seed.from[p[2]]
            text == TextOf(sheet)
            metric == [cc |-> "cc", tank |-> "l", seat |-> "mm", speed |-> "km/h", hp |-> "hp", nm |-> "Nm"]
            whole(c) == /\ text[c] # NULL /\ ~Split(text[c])
                        /\ \E i \in Places(text[c]) :
                              IsFigure(text[c][i]) /\ text[c][i + 1] = Word(metric[c])
        IN /\ \A c \in DOMAIN text :
                text[c] = NULL \/ Misread(text[c]) \/ r[c] = NULL \/ Near(r[c], sheet.meant[c])
           /\ \A c \in DOMAIN metric : whole(c) => r[c] # NULL
           /\ (importer = "kawasaki" /\ ~\E e \in Researched : e.slug = r.slug /\ e.column = "use")
                => r.use = NULL \/ Near(r.use, sheet.meant.use)

\* "A figure the snapshot published always wins over this table", and a label of its own over
\* the combined one.
PublishedWins ==
    importer = "kawasaki" => \A p \in Pairs :
        LET r == Staged[p[1]]
            sheet == seed.from[p[2]]
        IN /\ RatioIn(sheet.ratio, {":", ";"}) \in {NULL, r.ratio}
           /\ longTailSpecs(sheet) \in {NULL, r.tail}

\* "A shared name would blank the other rows' images": deleting one bike's file, whenever,
\* leaves the files of all other staged bikes alone.
CopiesAreOwned ==
    \A i, j \in DOMAIN Staged :
        (i # j /\ NULL \notin {Staged[i].photo, Staged[j].photo})
        => fileName(Staged[i].slug, Staged[i].photo) # fileName(Staged[j].slug, Staged[j].photo)

\* When a run that copies writes its script, every photo the script names has its copy, whole
\* and current, whatever killed runs have left behind; unless the photo or the file was touched
\* meanwhile.  1000ps only promises that there is a file.
CopiesPrecedeRows ==
    (pc = "writing" /\ mode = "all") =>
        \A i \in DOMAIN Copies(rows) :
            LET c == Copies(rows)[i] IN
            {<<"photo", c.from>>, <<"file", c.to>>} \cap changed = {} =>
                /\ c.to \in DOMAIN uploads
                /\ importer # "1000ps" => uploads[c.to] = photos[c.from]

==============================================================================
