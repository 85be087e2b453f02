------------------------------- MODULE Research -------------------------------
(***************************************************************************)
(* The research tools (tools/*.mjs): a worklist of the bikes that lack a   *)
(* column is measured, somebody researches values into a JSON file, a      *)
(* validator may look at it, an importer turns it into a seed script, and  *)
(* the next boot runs the scripts that have changed.  Meanwhile the        *)
(* worklist goes stale, more batches are researched and admins write.      *)
(*                                                                         *)
(* A behaviour follows one of the tools; they share no file but the        *)
(* catalogue, and no column.  A text is what the validators and the        *)
(* columns tell apart: "size" states no millimetres and "figure" does,     *)
(* "wide" has more than 60 characters and "long" more than 2000, "blank"   *)
(* is nothing but spaces, "prose" praises, and "huge" is a number that no  *)
(* numeric column holds.  "" and "cut" are only stored.                    *)
(***************************************************************************)
EXTENDS Naturals, SequencesExt

CONSTANTS
    Slugs,      \* slugs a bike bears or a list may name
    Odd,        \* what somebody wrote for a slug and is not of its shape
    Long,       \* and what has the shape, but more than 160 characters
    BrandOf,    \* the brand a slug begins with
    Batches,    \* what is researched in one pass, by tool
    NULL,       \* a column, a text or a source that is not there
    Absent,     \* no bike
    MaxFiles,   \* bound: generated scripts in one behaviour
    MaxEntries, \* bound: entries of a research file
    MaxWrites   \* bound: writes of admins in one behaviour

Tools == {"brakes", "tyres", "suspension", "price", "descriptions", "displacement", "engine"}
KeyFields == {"displacement_cc", "cylinders", "max_power_hp", "max_power_rpm",
              "max_torque_nm", "max_torque_rpm"}
Columns ==
    [t \in Tools |->
        CASE t \in {"brakes", "tyres", "suspension"} -> {"front", "rear"}
          [] t = "engine" -> KeyFields
          [] OTHER -> {t}]
Texts == {"size", "figure", "wide", "long", "blank", "prose", "zero", "huge"}
Stored == Texts \cup {"", "cut", "derived", "admin"}

ASSUME SlugAssumption ==
    /\ IsFiniteSet(Slugs) /\ Slugs \cap (Odd \cup Long) = {} /\ Odd \cap Long = {}
    /\ Slugs \cup Long \subseteq DOMAIN BrandOf
    /\ NULL \notin Stored
ASSUME AbsentAssumption ==
    \A t \in Tools : Absent \notin [Columns[t] -> Stored \cup {NULL}]
ASSUME BatchAssumption ==
    \A t \in Tools : Batches[t] \subseteq
        Seq([slug : Slugs \cup Odd \cup Long, values : [Columns[t] -> Texts \cup {NULL}],
             source : {"owner", "reprint", "classified", NULL}])
ASSUME BoundAssumption == MaxFiles \in Nat /\ MaxEntries \in Nat /\ MaxWrites \in Nat

VARIABLES
    tool,      \* the tool this behaviour follows
    bikes,     \* the catalogue: the columns of the tool, by slug
    list,      \* the worklist, a text file
    research,  \* the researched entries, a JSON file
    derived,   \* the slugs description-derived.json has an entry for
    checked,   \* the validator has accepted the research file as it is
    seeds,     \* the generated scripts: the rows staged, by file name
    recorded,  \* the scripts as they were when they last ran
    filled,    \* columns a script has filled and nobody has written since (history)
    unchecked, \* the scripts made from a file that no validator accepted (history)
    stopped,   \* the script that gave up the last boot, if one did and is as it was (history)
    writes     \* writes of admins so far

files == <<list, research, derived, checked, seeds, unchecked>>
database == <<bikes, recorded, filled, stopped>>
vars == <<tool, files, database, writes>>

------------------------------------------------------------------------------
(* Texts and entries *)

Given(v) == v \notin {NULL, ""}
Gives(e) == \E c \in DOMAIN e.values : Given(e.values[c])
Twice(file) == \E i, j \in DOMAIN file : i # j /\ file[i].slug = file[j].slug
\* The entries of a file at some of its places.  Their order is left open: no tool minds it.
Only(file, places) == LET q == SetToSeq(places) IN [i \in DOMAIN q |-> file[q[i]]]
\* An object names a key once: what is written later wins.
Latest(file, s) ==
    file[CHOOSE i \in DOMAIN file :
            file[i].slug = s /\ \A j \in DOMAIN file : file[j].slug = s => j <= i]
SlugsOf(file) == {file[i].slug : i \in DOMAIN file}
Brands(slugs) == {BrandOf[s] : s \in slugs}

\* What every importer looks at before it reads a value: a slug of the shape, and a source.
Keyed(e) == e.slug \in Slugs \cup Long /\ e.source # NULL

FitString(v, tooWide) == IF v = NULL THEN "null" ELSE v  \* mutant: String(null)
\* Trimmed, then cut at a word boundary where it is too wide for its column.
Fit(v, tooWide) ==
    CASE v = NULL -> NULL
      [] v = "blank" -> ""
      [] v \in tooWide -> "cut"
      [] OTHER -> v
Fitted(e, tooWide) == [c \in DOMAIN e.values |-> Fit(e.values[c], tooWide)]

Rows(file, tooWide) ==
    [i \in DOMAIN file |-> [slug |-> file[i].slug, values |-> Fitted(file[i], tooWide)]]

------------------------------------------------------------------------------
(* The validators *)

\* A measurable value, no praise, no stray space, within the column; a diameter only from
\* a source that owns it.
Measurable(v, source, tooWide) ==
    Given(v) => /\ v \notin {"blank", "prose"} \cup tooWide
                /\ v = "figure" => source = "owner"

BrakesValid(file) ==
    /\ ~Twice(file)
    /\ \A i \in DOMAIN file :
          /\ Keyed(file[i]) /\ file[i].slug \in list /\ Gives(file[i])
          /\ \A c \in DOMAIN file[i].values :
                Measurable(file[i].values[c], file[i].source, {"long"})

TyresValid(file) ==
    /\ ~Twice(file)
    /\ \A i \in DOMAIN file :
          /\ Keyed(file[i]) /\ file[i].slug \in list /\ Gives(file[i])
          /\ \A c \in DOMAIN file[i].values :
                Measurable(file[i].values[c], file[i].source, {"wide", "long"})

\* A finite number within the band, and a source that is no second-hand listing.  A
\* source of neither tier is only warned about.
PriceValid(file) ==
    /\ ~Twice(file)
    /\ \A i \in DOMAIN file :
          /\ Keyed(file[i]) /\ file[i].slug \in list
          /\ file[i].values["price"] = "figure"
          /\ file[i].source # "classified"

Valid(file) ==
    CASE tool = "brakes" -> BrakesValid(file)
      [] tool = "tyres" -> TyresValid(file)
      [] tool = "price" -> PriceValid(file)

------------------------------------------------------------------------------
(* The importers: what each dies on *)

BrakesOnList(file) ==  \* mutant: dies on a slug that has left the worklist
    ~Twice(file) /\ \A i \in DOMAIN file :
        Keyed(file[i]) /\ Gives(file[i]) /\ file[i].slug \in list
BrakesAccepted(file) ==
    ~Twice(file) /\ \A i \in DOMAIN file : Keyed(file[i]) /\ Gives(file[i])

TyresAccepted(file) ==
    ~Twice(file) /\ \A i \in DOMAIN file : Keyed(file[i]) /\ Gives(file[i])

SuspensionAccepted(file) ==
    ~Twice(file) /\ \A i \in DOMAIN file : Keyed(file[i]) /\ Gives(file[i])

\* The importer runs the validator itself.
PriceAccepted(file) == PriceValid(file)

\* Both files by themselves, and together exactly the worklist.
DescriptionsAccepted(file) ==
    /\ ~Twice(file)
    /\ \A i \in DOMAIN file :
          Keyed(file[i]) /\ Given(file[i].values["descriptions"])
                         /\ file[i].values["descriptions"] # "blank"
    /\ SlugsOf(file) \subseteq list
    /\ derived = list

\* The list is resolved against the research, not the other way round.  A displacement is
\* positive, and may be as large as you like.
DisplacementAccepted(file) ==
    /\ list \subseteq SlugsOf(file)
    /\ \A s \in list : Latest(file, s).values["displacement"] \in {NULL, "figure", "huge"}

KeyFieldFloor == 3
\* Power and torque may be nought; nothing has an upper limit.
Possible(c) ==
    {NULL, "figure", "huge"} \cup (IF c \in {"max_power_hp", "max_torque_nm"} THEN {"zero"} ELSE {})
EngineAccepted(file) ==
    /\ ~Twice(file)
    /\ \A i \in DOMAIN file :
          /\ Keyed(file[i]) /\ file[i].slug \in list
          /\ Cardinality({c \in KeyFields : file[i].values[c] # NULL}) >= KeyFieldFloor
          /\ \A c \in KeyFields : file[i].values[c] \in Possible(c)

Accepted(file) ==
    CASE tool = "brakes" -> BrakesAccepted(file)
      [] tool = "tyres" -> TyresAccepted(file)
      [] tool = "suspension" -> SuspensionAccepted(file)
      [] tool = "price" -> PriceAccepted(file)
      [] tool = "descriptions" -> DescriptionsAccepted(file)
      [] tool = "displacement" -> DisplacementAccepted(file)
      [] tool = "engine" -> EngineAccepted(file)

------------------------------------------------------------------------------
(* The importers: what each stages, and in which file *)

BrakesUncut(file) == Rows(file, {})  \* mutant: values are not fitted to the column
BrakesRows(file) == Rows(file, {"long"})

TyresRows(file) == Rows(file, {"wide", "long"})

\* Every entry, whether or not its slug is still on the list.
SuspensionRows(file) == Rows(file, {"long"})

PriceRows(file) == Rows(file, {})

\* One row for every slug of the list: what was researched, else what was derived.
DescriptionsRows(file) ==
    LET targets == SetToSeq(list)
        Described(s) ==
            IF s \in SlugsOf(file) THEN Fitted(Latest(file, s), {"long"})
            ELSE [c \in {"descriptions"} |-> "derived"]
    IN  [i \in DOMAIN targets |-> [slug |-> targets[i], values |-> Described(targets[i])]]

\* One row for every slug of the list whose nameplate has a displacement.
DisplacementRows(file) ==
    LET Displacement(s) == Latest(file, s).values["displacement"]
        known == SetToSeq({s \in list : Displacement(s) # NULL})
    IN  [i \in DOMAIN known |->
            [slug |-> known[i], values |-> [c \in {"displacement"} |-> Displacement(known[i])]]]

EngineRows(file) == Rows(file, {})

Staged(file) ==
    CASE tool = "brakes" -> BrakesRows(file)
      [] tool = "tyres" -> TyresRows(file)
      [] tool = "suspension" -> SuspensionRows(file)
      [] tool = "price" -> PriceRows(file)
      [] tool = "descriptions" -> DescriptionsRows(file)
      [] tool = "displacement" -> DisplacementRows(file)
      [] tool = "engine" -> EngineRows(file)

\* The brands of the batch and, for a second pass on them, a suffix of the operator's choice.
BrakesUnsuffixed(rows, pass) == [brands |-> Brands(SlugsOf(rows)), pass |-> 0]  \* mutant
BrakesFile(rows, pass) == [brands |-> Brands(SlugsOf(rows)), pass |-> pass]

TyresFile(rows) == [brands |-> Brands(SlugsOf(rows)), pass |-> 0]

SharedFile == [brands |-> {}, pass |-> 0]

FileOf(rows, pass) ==
    CASE tool = "brakes" -> BrakesFile(rows, pass)
      [] tool = "tyres" -> TyresFile(rows)
      [] OTHER -> SharedFile

\* A file is written: whatever had its name is gone.
Put(directory, name, content) ==
    [f \in DOMAIN directory \cup {name} |-> IF f = name THEN content ELSE directory[f]]

------------------------------------------------------------------------------
(* The scripts: what each fills, and what it gives up over *)

Overrule(old, new, gaps) == IF new = NULL THEN old ELSE new  \* mutant: the script wins
Coalesce(old, new, gaps) == IF old \in gaps THEN new ELSE old

Bound(row) == row.slug \in Slugs /\ bikes[row.slug] # Absent

\* The catalogue after the rows have filled the gaps of the bikes they bind to.
Merged(rows, gaps) ==
    [s \in Slugs |->
        IF \E i \in DOMAIN rows : rows[i].slug = s /\ Bound(rows[i])
        THEN LET row == rows[CHOOSE i \in DOMAIN rows : rows[i].slug = s]
             IN  [c \in DOMAIN bikes[s] |-> Coalesce(bikes[s][c], row.values[c], gaps)]
        ELSE bikes[s]]

\* An INSERT without a row is no SQL; then a key, a CHECK or the width of a column of the
\* temporary table, or the checks of the block before COMMIT.
Refused(rows, tooWide) ==
    \/ rows = <<>>
    \/ Twice(rows) \/ SlugsOf(rows) \cap (Odd \cup Long) # {}
    \/ \E i \in DOMAIN rows :
          \/ \A c \in DOMAIN rows[i].values : rows[i].values[c] = NULL
          \/ \E c \in DOMAIN rows[i].values : rows[i].values[c] \in tooWide

Pending == {f \in DOMAIN seeds : f \notin DOMAIN recorded \/ recorded[f] # seeds[f]}

\* One transaction: all of it, or the boot is given up.
Runs(f, table, refused) ==
    /\ f \in Pending
    /\ IF refused
       THEN stopped' = {f} /\ UNCHANGED <<bikes, recorded, filled>>
       ELSE /\ stopped' = {}
            /\ bikes' = table
            /\ recorded' = Put(recorded, f, seeds[f])
            /\ filled' = filled \cup {cell \in Slugs \X Columns[tool] :
                  /\ bikes[cell[1]] # Absent
                  /\ table[cell[1]][cell[2]] # bikes[cell[1]][cell[2]]}
    /\ UNCHANGED <<tool, files, writes>>

MigrateBrakes(f) ==
    tool = "brakes" /\ Runs(f, Merged(seeds[f], {NULL}), Refused(seeds[f], {"long"}))

MigrateTyres(f) ==
    tool = "tyres" /\ Runs(f, Merged(seeds[f], {NULL}), Refused(seeds[f], {"wide", "long"}))

MigrateSuspension(f) ==
    tool = "suspension" /\ Runs(f, Merged(seeds[f], {NULL}), Refused(seeds[f], {"long"}))

\* ON CONFLICT DO NOTHING: a key that is there keeps its value.
MigratePrice(f) ==
    tool = "price" /\ Runs(f, Merged(seeds[f], {NULL}), Refused(seeds[f], {}))

\* A description of nothing but spaces is none.
MigrateDescriptions(f) ==
    tool = "descriptions" /\ Runs(f, Merged(seeds[f], {NULL, "blank"}), Refused(seeds[f], {"long"}))

MigrateDisplacement(f) ==
    tool = "displacement" /\ Runs(f, Merged(seeds[f], {NULL}), Refused(seeds[f], {"zero", "huge"}))

\* The one check a merged row may fail: an engine whose displacement nobody knows.
Powerless(rows) ==
    \E i \in DOMAIN rows :
        Bound(rows[i]) /\ Coalesce(bikes[rows[i].slug]["displacement_cc"],
                                   rows[i].values["displacement_cc"], {NULL}) = NULL
MigrateEngine(f) ==
    tool = "engine"
    /\ Runs(f, Merged(seeds[f], {NULL}), Refused(seeds[f], {"huge"}) \/ Powerless(seeds[f]))

Migrate(f) ==
    \/ MigrateBrakes(f) \/ MigrateTyres(f) \/ MigrateSuspension(f) \/ MigratePrice(f)
    \/ MigrateDescriptions(f) \/ MigrateDisplacement(f) \/ MigrateEngine(f)

------------------------------------------------------------------------------
(* The operator *)

\* The bikes that lack one of the columns.  The price is researched for bikes without a
\* price_eur, which the script does not touch: here the list of all of them.
Gap ==
    {s \in Slugs : bikes[s] # Absent
        /\ (tool = "price" \/ \E c \in DOMAIN bikes[s] : bikes[s][c] \in {NULL, "blank"})}

Measure ==
    /\ list # Gap
    /\ list' = Gap
    /\ UNCHANGED <<tool, research, derived, checked, seeds, unchecked, database, writes>>

\* The research files of brakes and tyres are replaced batch by batch, the others grow.
Collect(batch) ==
    /\ research' = IF tool \in {"brakes", "tyres"} THEN batch ELSE research \o batch
    /\ Len(research') <= MaxEntries
    /\ checked' = FALSE
    /\ UNCHANGED <<tool, list, derived, seeds, unchecked, database, writes>>

\* One pass over a brand researches brakes and tyres together; of its entries only those
\* are taken that have a value and are on the list.
Split(batch) ==
    /\ tool \in {"brakes", "tyres"}
    /\ research' = Only(batch, {i \in DOMAIN batch : batch[i].slug \in list /\ Gives(batch[i])})
    /\ checked' = FALSE
    /\ UNCHANGED <<tool, list, derived, seeds, unchecked, database, writes>>

\* What an importer that dies on anything off the list leaves the operator to do.
Prune ==
    /\ tool \in {"price", "descriptions", "engine"}
    /\ ~(SlugsOf(research) \subseteq list)
    /\ research' = Only(research, {i \in DOMAIN research : research[i].slug \in list})
    /\ checked' = FALSE
    /\ UNCHANGED <<tool, list, derived, seeds, unchecked, database, writes>>

\* generate-description-from-specs.mjs: an entry for every bike of the measured dump.
Derive ==
    /\ tool = "descriptions" /\ derived # list
    /\ derived' = list
    /\ UNCHANGED <<tool, list, research, checked, seeds, unchecked, database, writes>>

Check ==
    /\ tool \in {"brakes", "tyres", "price"} /\ ~checked
    /\ Valid(research)
    /\ checked' = TRUE
    /\ UNCHANGED <<tool, list, research, derived, seeds, unchecked, database, writes>>

\* A second pass over brands that have a script takes a suffix that is still free: the
\* operator sees to that, the importer does not look.
FreeSuffixes(rows) ==
    LET taken == {f.pass : f \in {g \in DOMAIN seeds : g.brands = Brands(SlugsOf(rows))}}
    IN  IF tool = "brakes" THEN {CHOOSE p \in 0..Cardinality(taken) : p \notin taken} ELSE {0}

Import ==
    LET rows == Staged(research) IN
    /\ Accepted(research)
    /\ rows \notin Range(seeds) /\ Cardinality(DOMAIN seeds) < MaxFiles
    /\ \E pass \in FreeSuffixes(rows) :
          LET f == FileOf(rows, pass) IN
          /\ seeds' = Put(seeds, f, rows)
          /\ unchecked' = IF checked THEN unchecked \ {f} ELSE unchecked \cup {f}
          /\ stopped' = stopped \ {f}
    /\ UNCHANGED <<tool, list, research, derived, checked, bikes, recorded, filled, writes>>

------------------------------------------------------------------------------
(* Everyone else *)

\* What a column may be left with; nobody trims a description.
Typed == IF tool = "descriptions" THEN {NULL, "admin", "blank"} ELSE {NULL, "admin"}

\* PUT: a column gets another value, or none.
Write(s, c, v) ==
    /\ writes < MaxWrites
    /\ bikes[s] # Absent /\ bikes[s][c] # v
    /\ bikes' = [bikes EXCEPT ![s][c] = v]
    /\ filled' = filled \ {<<s, c>>}
    /\ writes' = writes + 1
    /\ UNCHANGED <<tool, files, recorded, stopped>>

\* DELETE, or a PUT that renames the bike.
Delete(s) ==
    /\ writes < MaxWrites
    /\ bikes[s] # Absent
    /\ bikes' = [bikes EXCEPT ![s] = Absent]
    /\ filled' = filled \ ({s} \X Columns[tool])
    /\ writes' = writes + 1
    /\ UNCHANGED <<tool, files, recorded, stopped>>

------------------------------------------------------------------------------

Init ==
    /\ tool \in Tools
    /\ bikes = [s \in Slugs |-> [c \in Columns[tool] |-> NULL]]
    /\ list = Slugs /\ research = <<>> /\ derived = {}
    /\ checked = FALSE /\ unchecked = {}
    /\ seeds = <<>> /\ recorded = <<>>
    /\ filled = {} /\ stopped = {}
    /\ writes = 0

Next ==
    \/ Measure
    \/ \E batch \in Batches[tool] : Collect(batch) \/ Split(batch)
    \/ Prune \/ Derive \/ Check \/ Import
    \/ \E f \in DOMAIN seeds : Migrate(f)
    \/ \E s \in Slugs :
          \/ \E c \in Columns[tool], v \in Typed : Write(s, c, v)
          \/ Delete(s)

Spec == Init /\ [][Next]_vars

------------------------------------------------------------------------------
(* Properties *)

\* The files, the catalogue and the history hold values of their types.
TypeOK ==
    /\ tool \in Tools
    /\ \A s \in Slugs : bikes[s] = Absent \/ bikes[s] \in [Columns[tool] -> Stored \cup {NULL}]
    /\ list \subseteq Slugs /\ derived \subseteq Slugs
    /\ SlugsOf(research) \subseteq Slugs \cup Odd \cup Long
    /\ checked \in BOOLEAN
    /\ \A f \in DOMAIN seeds : \A i \in DOMAIN seeds[f] :
          seeds[f][i].values \in [Columns[tool] -> Stored \cup {NULL}]
    /\ DOMAIN recorded \cup unchecked \cup stopped \subseteq DOMAIN seeds
    /\ filled \subseteq Slugs \X Columns[tool]
    /\ writes \in 0..MaxWrites

\* What a script has put into the catalogue is staged by some script that is still there:
\* a database built afresh from the seeds gets it too.
StillStaged ==
    \A cell \in filled : \E f \in DOMAIN seeds : \E i \in DOMAIN seeds[f] :
        seeds[f][i].slug = cell[1] /\ seeds[f][i].values[cell[2]] # NULL

\* import-brakes.mjs: a second pass must not overwrite "the first's already-applied rows";
\* import-suspension.mjs: that a slug has left the list "is not a reason to drop data".
AppliedRowsKept == tool \in {"brakes", "suspension"} => StillStaged

\* import-tyres.mjs: one file per brand, "never a shared file whose content changes across
\* runs", because that "would silently overwrite an already-applied, already-valid batch".
AppliedTyresKept == tool = "tyres" => StillStaged

\* However old the worklist a script was made from, it fills gaps: no value an admin or an
\* earlier script has left is replaced, and no bike is created or removed.
OnlyGapsFilled ==
    [][(\E f \in DOMAIN seeds : Migrate(f)) =>
          \A s \in Slugs :
              /\ (bikes[s] = Absent) = (bikes'[s] = Absent)
              /\ bikes[s] # Absent =>
                    \A c \in Columns[tool] :
                        \/ bikes[s][c] \in {NULL, bikes'[s][c]}
                        \/ tool = "descriptions" /\ bikes[s][c] = "blank"]_vars

\* A slug or a figure does not fit into its column.
Oversized(rows) ==
    \/ SlugsOf(rows) \cap Long # {}
    \/ \E i \in DOMAIN rows : \E c \in DOMAIN rows[i].values : rows[i].values[c] = "huge"

\* A generated script stops a boot only if it stages nothing; if it was made from a file
\* that no validator accepted, and something in it does not fit; or if it is the engine's,
\* and a row of it brings no displacement.  A text too wide, a slug twice, a column without
\* a value or what has happened to the catalogue since is never the reason.
OnlyFlawsStopBoots ==
    \A f \in stopped : LET rows == seeds[f] IN
        \/ rows = <<>>
        \/ f \in unchecked /\ Oversized(rows)
        \/ tool = "engine" /\ \E i \in DOMAIN rows : rows[i].values["displacement_cc"] = NULL

\* A research file that the validator has accepted can be imported, whatever slug has
\* left the worklist since.  (The price importer runs the validator again and refuses.)
StaleListsDoNotStopImports == checked /\ tool \in {"brakes", "tyres"} => Accepted(research)
==============================================================================
