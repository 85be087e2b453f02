# Verification of the Motorcycle Comparison API

TLA+ models of the Motorcycle Comparison API (Spring Boot, JPA/Hibernate, PostgreSQL,
Flyway) and of the tools that write its seeds, TLC configurations that check them on
small instances, and TLAPS proofs for every instance. Paths such as
`MotorcycleService.java:133` are relative to the repository; the Java sources live in
`src/main/java/com/motorcycle/comparison/`, the tools in `tools/`.

## 1. Inventory: the system and its parts

The API serves a catalogue of motorcycles. Anyone may read it; an administrator with a
JWT writes it. Every request is a thread of its own, and the application keeps no state
in memory: what is shared is the PostgreSQL database and a directory of uploaded images.
So everything that can go wrong between two requests goes wrong between two
transactions, or between a transaction and the directory, which knows none. The
catalogue's contents come from seeds, generated by Node scripts from scraped sheets and
from research, and run by Flyway before the server listens.

| Part | State | Operations | What is hard | What makes it correct |
|---|---|---|---|---|
| Catalogue writes (`MotorcycleController`, `MotorcycleService`, `MotorcycleWriter`) | tables `motorcycles`, `engine_specifications`, `dimensions`, and two element collections | POST, PUT, DELETE | statements of different transactions interleave; `existsBySlug` and the insert are in different transactions; the version covers the root row only; flush order; deadlocks | slugs unique; a write is one whole operation or nothing; an edit never overwrites a row it has not seen; nothing orphaned, nothing resurrected; every request answered |
| Slugs (`MotorcycleService`: `slugify`, `baseSlug`, `uniqueSlug`, `slugMatchesIdentity`) | `motorcycles.slug` | derive, probe, keep on edit | a number at the end of a name looks like a disambiguator | a slug fits the identity in its row; an edit that need not break links does not |
| Images (`FileStorageServiceImpl`, `updateImage`, `removeImage`, `delete`) | `image_url`, the storage directory | upload, clear, remove; a PUT writes the column back | file and row change at different times; each may fail alone | no row names a deleted file and no file is left over, except through a failure |
| Seeds and migrations (Flyway, `db/migration`, `db/seed`) | the whole database, `flyway_schema_history` | versioned scripts, then repeatable scripts by description whenever their checksum moved | a rerun meets rows that later scripts and admins have changed; a crash between a script's COMMIT and its history row; eleven kinds of script with rules of their own | a rerun changes nothing it need not; the first source to say something wins; a script accepts what it wrote |
| Search and single reads (`MotorcycleService.search`, `findById`) | none | filter, sort, page, count, load blocks in batches | several statements per answer, each with its own snapshot; LIKE characters in free text; NULLs and ties in an order | a page is a slice of one instant; what it says of a bike is that bike's |
| Comparison (`ComparisonService`) | none | compare 2 to N bikes | nulls, ties, rows removed between the reads | a winner is really best among comparable values |
| Statistics (`CatalogStatsService`) | none | one query per figure | figures of different instants beside each other | they differ by no more than was written meanwhile |
| Importers (`tools/import-*-specs.mjs`) | a scraper's snapshot and gallery, the upload directory, a generated seed | read measurements, dedupe, copy photos, write the seed | torn digits, foreign units, ranges, prose that contradicts figures, photos shared by bikes, kills half-way | no column gets a figure nobody published; rows pass the checks; a seed's photos are there before it |
| Research tools (`tools/import-brakes.mjs` and its like, the validators, the split) | worklists, research JSON, generated seeds | measure, collect, split, prune, validate, derive, import | stale worklists, a second batch under the first one's file name, flawed entries | a generated script only fills gaps, stops a boot over known flaws only, and keeps what earlier ones applied |
| Security (`SecurityConfig`, `JwtService`, `JwtAuthenticationFilter`, `AuthController`, `DevDefaultsGuard`) | users (from the configuration), signing key | login, authenticate, authorize | a token outlives what it says about the user | only an admin writes |
| Errors (`GlobalExceptionHandler`, `ConstraintViolations`) | none | exception to status | which handler an exception of the driver reaches | a refused request answers 4xx and changes nothing |

How they interact: the controller calls the service inside one transaction, except
POST, which calls `MotorcycleWriter.save` in a transaction per attempt so that a failed
insert can be retried on a clean session. The service calls the file storage inside its
transaction. The tools leave seeds in `db/seed` and photos in the directory that uploads
go to; the seeds write the tables before the server starts to listen.

## 2. Plan

| Order | Module | Models | State |
|---|---|---|---|
| 1 | `SlugRules` | slug derivation, as operators | done |
| 2 | `Catalogue` | abstract specification: whole bikes, one step per admin operation | done |
| 3 | `CatalogueWrites` (uses 1; implements 2) | POST, PUT, DELETE, statement by statement | done |
| 4 | `CatalogueWritesProofs`, `CatalogueRequestsProofs`, `CatalogueRefinementProofs` | every safety and action property of 3, and that it implements 2 | done |
| 5 | `ImageLifecycle` | row and directory | done |
| 6 | `SeedScripts` | what a script of each kind makes of one bike, as operators | done |
| 7 | `SeedPipeline` (uses 6) | Flyway runs, edits of scripts, crashes, admin writes in between | done, but for the versioned migrations |
| 8 | `CatalogueReads` | the committed catalogue as readers see it, and the writes between their statements | done |
| 9 | `Comparison`, `Search`, `CatalogStats` (each on 8) | the three kinds of answer | done |
| 10 | `Reads` (composes 8 and 9) | all of them over one catalogue | done |
| 11 | `Research` | the seven research tools, from worklist to boot | done |
| 12 | `SheetReading` | how importers read a measurement, as operators | done |
| 13 | `Sheets` (uses 12) | the nine importers: scrapes, downloads, copies, scripts, kills | done |
| 14 | `ImageLifecycleProofs` | every property of 5 | done |
| 15 | `SeedPipelineProofs` | every safety and action property of 7 | done |
| 16 | `ResearchProofs` | every property of 11 | done |
| 17 | `ReadsProofs` | every property of 10 | done |
| 18 | `SheetsProofs` | every property of 13 but `NeverAWrongFigure` | done |

What is left stays with TLC: liveness, which is out of the provers' reach, and whether what an
importer reads in a text is what the text means (`NeverAWrongFigure`). Of the system, section
7 lists what has no model. No module declares a RECURSIVE operator.

## 3. Modules and the code

### SlugRules
A slug is a sequence of tokens: words (model values) and numbers. `slugify` throws away
case, accents and punctuation; an identity therefore carries a `spelling` that
`BaseSlug` ignores. `Candidate`, `NextSuffix` and `Exhausted` are the loop of
`uniqueSlug`, whose suffix runs from 2 to 99 (`MaxSuffix` is the 100 at which it
throws). `SlugMatchesIdentity` is the pattern test of `slugMatchesIdentity`.

### CatalogueWrites
One process per request (`Clients`), one action per statement the code causes:

| Action | Code |
|---|---|
| `Begin`, `Load` | controller entry; `requireById` and the 404 |
| `Apply` | `apply`: assigns fields, clears and refills the collections (the first access loads them: a statement after `Load`'s, with a snapshot of its own) |
| `Probe` | one `existsBySlug` of `uniqueSlug`. In a PUT the query first flushes the half-applied edit (FlushMode AUTO): `pc = "autoflush"` |
| `InsertNew` | `MotorcycleWriter.save`; on a violated `uk_motorcycles_slug` the retry of `create` with a new entity, then 409 |
| `UpdateDimension`, `UpdateEngine`, `UpdateMotorcycle`, `UpdateExtras` | the statements of the flush: dimension, engine, motorcycle (`order_updates`, sorted by entity name), then the collections, then the removal of a dimension block the body omits |
| `RemoveExtras`, `RemoveMotorcycle`, `RemoveDimension`, `RemoveEngine` | the statements of a removal |
| `Commit` | publishes `writes` in one step |
| `BreakDeadlock`, `Fail` | PostgreSQL aborts one of a circle of waiters; timeouts, lost connections; both roll back and reach the catch-all 500 |

PostgreSQL is modelled from how the code uses it and marked external: reads see
committed data (READ COMMITTED), `RowHolders` and `KeyHolders` are the row and unique
index locks, `WaitsFor` who a statement waits for. Hibernate's dirty checking decides
the statements (`RootDirty`, `DimensionDirty`, `EngineDirty`, `ExtrasDirty`): clearing and
refilling a non-empty collection dirties the root and moves its version, and so does a
block that comes or goes, as the root refers to it; a block that changes does not. A
dimension block that goes and comes back is a new row, which a PUT that has loaded the old one
does not find: `DimensionRow` tells rows apart by the version the bike got with them.

`rivals` is a history variable: the commits, since a request began, that took a slug of
its base.

### Catalogue
The abstract specification. `CatalogueWrites` implements it under the mapping that
assembles a bike from its tables (`Whole`). Its `Replace` admits blocks other than
the request's: the code does (section 5), and the abstract specification says
so rather than hiding it. A request in flight does all it asks or nothing.

### ImageLifecycle
Bikes, the files in the directory and the requests that touch both. `StoreFile` is
`Files.copy` under a fresh UUID, before the row; `DropFile` is `deleteFile`, before the
commit, and its failure is only reported; `BreakFile` leaves part of a file. `CommitEdit`
writes every column back (Hibernate updates whole rows) after the version check. History:
`owner`, `strays` and `victims` say for whom a file was stored, and which files a failure
left or took.

### SeedScripts and SeedPipeline
`SeedScripts` says what a script does to one bike, as the generators in `tools/` write it:
`Merged`, `Creates`, `Bumped` and the checks that abort it (`Rejects...`).

| Kind | Scripts | Modelled |
|---|---|---|
| `dev` | `R__dev_seed.sql` | TRUNCATE and insert |
| `fipe` | `R__motorcycles_brazil_fipe_2026_08.sql` | inserts what the catalogue lacks |
| `displacement` | `R__motorcycles_displacement_cc_2026_09.sql` | fills displacements; its check of them |
| `brand` | the per-brand imports | inserts; fills gaps; the CHECK on the weights strikes in the filling statement |
| `research` | the Kawasaki engine research | fills engines; overrules a bore that does not sweep its displacement; checks geometry within 2 % |
| `triumph` | the Triumph import | as a brand, and looks at its weights and its geometry itself |
| `gapfill` | `R__zz_motorcycles_specs_gapfill.sql` | fills gaps; withdraws a bore it has staged; checks every row it stages |
| `countries` | `R__zzz_motorcycle_available_countries_brazil.sql` | adds BR to every bike |
| `1000ps` | `R__zzzz_motorcycles_1000ps_specs_2026_09.sql` | inserts; fills gaps, deciding weights and bore in the statement that fills them; checks the engines it changed |
| `engine` | the engine specs research | fills engines; refuses one left without a displacement |
| `patch` | the other research backfills | fill gaps of bikes there are, and move no version |

A bike keeps the columns that these treat differently: `spec` stands for every column
that is only ever filled, `bore` for the displacement that bore, stroke and cylinders
sweep, and a dimension block is there when it holds something. A name is slug, brand,
model and year at once.

In `SeedPipeline`, a script is its kind and the rows it stages, in one or more editions.
`Boot`, `Apply`, `Record`, `Abort` and `Serve` are Flyway, modelled from the
configuration and marked external: it takes the first script, by description, whose
checksum is not the recorded one, and looks again. Most scripts end with a COMMIT of their
own, so the history row is a step of its own and a crash fits between; for the two that
have none (the dev seed and the countries) the model allows that crash too, which only
adds behaviours. `Edit` deploys a new edition of a script; `Write` and `Delete` are the
API while it is up. There is one instance: nobody serves while another migrates.

### CatalogueReads, Comparison, Search, CatalogStats, Reads
`CatalogueReads` holds the committed table, one request at a time (`Begin`, `Goes`,
`Answer`; no reader sees another) and the commits of `CatalogueWrites`, each one step for a
reader: `Post`, `Put`, `Delete`. A PUT without a dimension block removes its row, and one
that brings it back gives it a new one. `past` is a history variable: the tables since the
request began.

- `Comparison`: `Compare` is the controller's bound, the de-duplication and
  `validateSize`; `ReadRows` the one query with both blocks joined, and the 404;
  `ReadExtras` the batch that loads the collections. `Winners` and `Differing` are the
  marks of a row. Every column of the database fixes the scale of its figures, so a figure
  is a number and prints as itself.
- `Search`: `Like` and `Escaped` are LIKE and `escapeLike`; `Matches` the specification
  that the filter builds; `Orders` every order of the bikes that a sort allows (NULLs
  last, as Hibernate is configured, and ties anywhere); `ReadPage` and `ReadCount` the
  two queries of a page, of which Spring leaves the second out when the first tells the
  total; `LoadBlocks` the lazy blocks, loaded in batches while the response is made, where
  a block whose row is gone is a 500; `Get` with `ReadBike` and `ReadRest` is one bike. The
  model name stands for brand, model and slug in the free text, and facets that are read
  alike are one.
- `CatalogStats`: `ReadFigure` is one query, in the order of the response. The gaps of three columns
  stand for those of all.
- `Reads` composes them. `Quiet` lets a behaviour end when its requests are used up.

### Research
A behaviour follows one tool: brakes, tyres, suspension, price, descriptions,
displacement or engine. `Measure` is the worklist query; `Collect` and `Split` bring a
batch into the research file (the split replaces the file); `Prune` drops what has left
the worklist; `Derive` is the description generated from specs; `Check` a validator;
`Import` the importer with its refusals (`...Accepted`), its fitting to the column and its
rows (`...Rows`) and its file name (`...File`); `Migrate...` a boot running a generated
script (Flyway is external), each tool's with its own merge; `Write` and `Delete` are
admins. A text is one of the few that validators and columns tell apart: too wide, too
long, blank, without a measurement, or a number too large; a slug is one of the catalogue's,
one not of the shape (`Odd`), or one of the shape and over 160 characters (`Long`).

No tool minds an empty file: importers write an INSERT without rows, which is no SQL.
`OnlyFlawsStopBoots` names the three flaws a boot can be given up over: a script without rows;
an overlong slug or an outsized number, in a script whose file no validator accepted (three
tools have one, and brakes and tyres do not run theirs); and an engine row without a
displacement. The suffix of a second pass over brakes is the operator's to choose; the model
takes a free one (`FreeSuffixes`), and the brakes half of `AppliedRowsKept` rests on that.

### SheetReading and Sheets
`SheetReading` is how the importers read a cell. A text is a sequence of figures and words;
values are in hundredths. It has the repair of digits and decimals that came apart, ranges,
figures anchored at a unit and bare ones, thousands, foreign units, consumption by
distance and by litres, ratios, seats, the number of cylinders in prose, and the checks of a stated
engine against its bore and stroke. Each importer has its own set of these rules, and
the operators take the importer as an argument where they share a form.

`Sheets` has the importers around it: six that read prose, two that read JSON numbers, and
the Kawasaki engine research. `Scrape`, `Download` and `Unlink` (the API deleting a
bike's file) may come between any two steps of a run; `Start` reads the snapshot and
makes the rows (`HarleyRow` ... `ResearchRow`, with `Carries` and the first row per slug);
`Skip`, `Copy`, `Lose` and `Copied` are the loop over the photos; `Write` writes the
script; `Kill` ends the process anywhere, and a copy or a script may be left cut. The
figures a manufacturer published are the sheet's `meant`, which no importer sees: the
properties compare with it. Fields read by one rule are one field.

## 4. Runs

| Run | Question | Bounds | Distinct states |
|---|---|---|---|
| `naming` | slugs unique and fitting their rows; links survive edits; 409 for a create only after two lost races | 3 threads, 4 requests, 2 names of one word, suffixes to 3, symmetry | 1,040,700 |
| `edits` | PUTs and DELETEs of a bike and of one without blocks: refinement of `Catalogue`, version check, no orphan, no resurrection, deadlock only over a removal of the bike or its dimension block, every request answered | 2 threads, 3 requests, fair | 218,839 |
| `images` | broken images and stranded files only from failures | 2 threads, 4 requests, 3 files, 2 bikes, symmetry | 962,491 |
| `seeding` | what reruns add, where bikes are offered, that a boot ends | 7 scripts, 3 bikes, 2 editions of the brand, gap-fill and 1000ps imports, 2 admin writes, 1 crash, fair | 71,014 |
| `engines` | scripts that look at engines accept again what they wrote; the first source wins; only contradictions are overruled | 8 scripts, 3 bikes, 2 editions of four of them, 2 admin writes, 1 crash | 79,048 |
| `reading` | winners and marks; the instants answers are of; when a page fails; how far figures are at odds | 4 ids, 3 catalogues, 4 contents, 7 id lists, 14 pages, batches of 2, 2 writes, 1 request | 397,384 |
| `research` | gaps only, boots stopped over three flaws only, applied rows kept, accepted research importable | 7 tools, 3 slugs, 5 to 7 batches, 2 scripts, 3 entries, 1 admin write | 959,851 |
| `sheets` | no figure nobody published, none lost, rows that agree with themselves and the checks, photos before rows | 9 importers, up to 17 snapshots of 1 or 2 sheets, 3 photos, 2 scrapes, downloads and runs | 1,196,715 |
| `overwrite`, `shared`, `weights`, `rewritten` | what the documentation says and the code does not do | as small as the counterexample | |

Why these bounds are enough to be interesting. *Writes*: three threads are what a create
needs to lose twice; four requests let a slug be freed and taken again while a third
request sits between its probe and its insert. `MaxId` leaves every attempt of every
create an id (both attempts of one consume one), so that the id bound never disables a
step. In `edits` two threads make every circle of waiters there is between a PUT and a
removal, and the second bike has no blocks, as imports may leave them. Three files let an
upload be replaced twice. Where request threads are symmetric the cfg says so; the runs
with a liveness property use no symmetry.

*Seeds*: in `seeding` three bikes are one that the dev seed has, one of the FIPE seed and
one that only 1000ps knows; the staged figures make every guard matter: weights that
contradict across sources, a bore the brand and the gap-fill both publish, a displacement
no staged bore sweeps. The admins' bodies set a light bike, an engine without a
displacement, a contradictory engine (which the API accepts) and a bike of nothing. In
`engines` displacements lie 3, 10 or 36 % apart: beyond the tolerance of the research,
beyond that of Triumph and the gap-fill too, and beyond all. Both edit imports only: an edited
dev seed or backfill of countries is a remark of section 5.

*Reads*: no reader writes, so one request against every placement of two writes meets every
race of one answer; the batch is smaller than a page, and pages end before, at and after the
last bike. MaxItems, MaxCompareIds and the batch are scaled down from 4, 100 and 32.

*Tools*: the batches of `research` are sound, overlapping, or have one flaw each (an empty
file comes of the start, a split or a pruning); two scripts allow a file, its overwrite and
another. The sheets of `sheets` differ from a sound one in the ways the scraped ones do. Two runs and two scrapes put a killed run, a refreshed
photo and a second run in any order. In both, nobody is obliged to act, and a behaviour
may end anywhere (CHECK_DEADLOCK FALSE); the other runs check deadlock.

Fairness: `CatalogueWrites!FairSpec` asks weak fairness of `Serve(c)`, the steps of one request, for
each request. The server gives every request a thread, PostgreSQL wakes a waiter when
the lock it waits for is released and breaks a circle of waiters, and a transaction is
cut off after 15 s (`application.yml:42-44`). Nothing is asked of clients (`Begin`) or
of failures (`Fail`). `SeedPipeline!FairSpec` asks weak fairness of `Migrate`, the steps
of Flyway, which runs by itself once the application starts; not of developers, admins
or crashes.

## 5. Where code and documentation disagree

- **overwrite.** `README.md:159-161` says the second of two simultaneous PUTs gets a 409.
  A PUT that changes the engine block alone writes `engine_specifications` only, which
  has no version: both answer 200 and the first is lost.
- **shared.** `storedFileNameOf` (`:192-193`): "the caller must not delete a file it did not
  store". POST stores any `imageUrl`, another bike's uploaded image included, and the
  file is then deleted with either bike.
- **weights.** `R__motorcycles_harley_davidson_specs_2026_08.sql:1710-1711` (and the other
  brand imports and the gap-fill in their words) means to drop a dry weight above the kerb
  weight on the row, for "the CHECK would otherwise abort the entire import". The statement
  before it has violated the CHECK already, and the boot is given up.
- **rewritten.** `import-tyres.mjs:3-4` and `:93-97` promise a file per brand, never one
  "whose content changes across runs". Its name is the brands of the batch and nothing
  else: a second batch of a brand overwrites the first one's script, and a fresh database
  never gets the rows it had applied. `import-brakes.mjs` has `--suffix` for this.

Smaller differences have no run of their own. Those that a property which holds had to
admit are named with it.

Writes and slugs:

- `slugMatchesIdentity` (`MotorcycleService.java:400-409`) is said to recognise what
  `uniqueSlug` appends. It takes any number: "MT 2023", 2024 corrected to "MT", 2023 keeps
  `-mt-2023-2024`.
- `update()` calls itself a full replacement (`MotorcycleService.java:122`). A PUT that finds
  a block as it wants it sends no statement for it; racing a PUT of that block, it leaves
  a mix of the two, which `Catalogue` admits (`ReplaceBlocks`): the block it sent may even
  be gone when it answers 200.
- The second of two PUTs may get a 500 in place of the 409 of `README.md:159-161`: one that
  drops the dimension block deletes it after the motorcycle's UPDATE, one that changes it
  updates it before, and the two can deadlock. `DeadlockNeedsRemoval` says that nothing else
  makes PUTs do so.

Reads:

- A page that races the removal of one of its bikes, or of the dimension block of one,
  answers 500: the row a lazy batch asks for is gone and the exception reaches the
  catch-all. `FailsOnlyRacingRemovals` says that nothing else makes a page fail.
- `application.yml:55-57` says a batch fetches a whole page in one extra query. A batch is
  32 and a page up to 100.

Seeds:

- 1000ps promises that "an admin edit or a richer earlier import always wins" (`:89-90`)
  and that rerunning it "changes nothing" (`:92`). `TakesOnlyContradictions` admits that a
  stored dry weight is taken when it lies above the imported kerb weight, and
  `RerunAddsOnlyWeights` that the next run puts 1000ps' own in its place. Neither property
  holds without these disjuncts.
- The gap-fill promises that "a bore another seed published is never cleared"
  (`R__zz_motorcycles_specs_gapfill.sql:29568-29569`). It compares values, not sources: a
  bore that both publish is cleared (the `bore` disjunct of `TakesOnlyContradictions`).
- `R__zzz_motorcycle_available_countries_brazil.sql:9-11` says a rerun "never touches a
  country an admin has since changed" and that it "sees every row every other seed has
  inserted". It puts BR back on a bike taken out of Brazil; it runs again only when its own
  text changes, so that what an edited dev seed inserts later has no country; and an edit of
  it stamps the European bikes. `seeding` therefore edits neither.
- 1000ps checks that its bikes have no country, which "fires if the file is ever reordered"
  (`:27427-27428`). It looks at rows its own transaction has created: it can never fire. Its
  geometry check still stops a boot when it fills a displacement beside a stored bore.
- The Triumph import says of its own geometry check (`import-triumph-specs.mjs:667-671`)
  that it never fires; an edited script beside a bore of 1000ps makes it. The other brand
  imports check no geometry.
- An edit of a scraped seed cannot correct what an earlier edition has stored: it fills gaps
  only. The research patches move neither version nor `updated_at`. A bike that an admin
  deletes or renames comes back under its old slug when a script that stages it reruns.

Research tools:

- `import-price-research.mjs:70-80` mirrors the validator's tiers but lacks three of its
  sources (`validate-price-research.mjs:64-66`).
- The engine, price and description importers die on a slug off the worklist and write one
  file under a fixed name; pruning the slug makes them run and drops its applied row from
  the seed. A price the list fills never leaves it, as the worklist looks at `price_eur` and
  the script writes the long-tail key.
- The displacement importer's header contradicts itself (`:133-137`, `:259-262`). The
  engine importer's floor of three fields need not include the displacement, and the script
  then stops the boot (`import-engine-specs.mjs:338-344`) of a catalogue that knows none
  either: the third flaw of `OnlyFlawsStopBoots`.
- No validator or importer refuses an empty list (`validate-brakes-research.test.mjs:252-262`
  tests that one is valid, and the split writes one where nothing matches): the script then
  reads `VALUES ;` (`import-brakes.mjs:200-201`, `import-tyres.mjs:195-196`,
  `import-suspension.mjs:224-225`, `import-price-research.mjs:170-171`,
  `import-descriptions.mjs:181-182`, `import-engine-specs.mjs:268-269`,
  `import-displacement-research.mjs:219-221`, whose list may also hold electric bikes only),
  and the boot fails. The brakes, tyres and suspension importers take a slug of any length,
  displacement and engine a figure of any size; the columns do not. The displacement
  importer's header (`:3-4`) has what is wrong fail "the generator, not Flyway hours later".
- The "safe no-op" rows of brakes (`:44-48`) decide on a fresh database, by file order.
  Suspension has no validator, and a value of spaces is stored as ''. The split replaces a
  batch nobody has imported yet.

Importers:

- `import-kawasaki-specs.mjs:275-277` says consumption is the only field that a figure torn at
  its decimals can fool. Figures anchored at a unit take the rest where bounds allow: a tank
  of "1 8.5 L" is 5 l; BMW's alike. Bare reads of Harley, Yamaha, Royal Enfield and Triumph
  take the first fragment of a spaced number, which comments say is refused; Yamaha reads
  the high end of a range. `NeverAWrongFigure` names these in `Misread`, and holds of all
  other texts.
- A cylinder count with a cell of its own leaves the engine's text as it was. Kawasaki's
  researched values are merged after the checks. Triumph reads "por cilindro" as a total of
  valves.
- A copied photo of the same size is never refreshed; 1000ps refreshes none and keeps half a
  copy (exempted in `CopiesPrecedeRows`). `--sql-only` names photos nobody has copied.
- The first row of a slug is kept even if it carries nothing (`import-1000ps-specs.mjs:496-506`,
  `import-motorcycle-specs.mjs:444-454`), where the comment says that the first that carries
  anything wins.

## 6. What is proved

Each theorem holds for every value of the constants: any number of clients, bikes, files,
scripts, queries, requests and writes, and any contents. The assumptions are the named ASSUMEs
of the modules, which TLC evaluates on every run; most give a constant its type or say that
the value for "none" is no other value. Those that say more: `ScriptAssumption` (what a script
stages carries no dry weight above its kerb weight, and what the gap-fill and 1000ps stage no
bore beyond their tolerance: their generators drop these), `CatalogueWrites!SeedAssumption`
(seeded slugs are distinct and fit), `RegistryAssumption` and `ColumnAssumption` (a column
that is ranked, sorted by or bounded holds a figure or nothing, wherever its block is there),
`ExtrasAssumption` (the long-tail specs of a bike are finitely many), `TextAssumption` (a model
name and the text searched for are sequences of characters), and `SnapshotAssumption`
(no two sheets of a brand's snapshot have one slug, which those importers take from their
scrapers, and no two entries of the research, an object by slug; the others collapse repeats
themselves). Every inductive invariant named here was checked by TLC on the runs in brackets.
Two it cannot evaluate as they stand: `JustApplied` ranges over all tables, and `Drifts` over
all classes of bikes, of which it checked those the figures count.

### The catalogue's writes
[`edits`, `naming`]

- `TypeCorrect`, `SlugsAlwaysUnique` (`CatalogueWritesProofs`). `TypeOK` is not inductive: a
  PUT's `Wrote` is well-typed only if it has loaded a row, and `probe` serves creates and
  PUTs; `Shape` adds what a request holds at each `pc`. `SlugsUnique` says nothing of open
  transactions, so a commit could break it; `Exclusive` adds that no two of them hold one
  slug or one row, none holds a slug another committed row has, and ids not handed out are
  unused. The probe plays no part: uniqueness rests on the index and its waits alone.
- `SlugsAlwaysFit`, `LinksSurvive`, `NothingResurrected`, `RootEditsAreDetected`,
  `NothingOrphaned`, `TwoRivalsForAConflict` (`CatalogueRequestsProofs`). To `Shape` and
  `Exclusive`, `Requested` adds `LocalInv`, what each request has sent and has still to send,
  and in which order; and `Shared`, what it may rely on of others' work: the row it loaded
  is unchanged while its version is, a row it has locked is as it loaded it, and of two
  requests that hold parts of one bike none has the other's. The rest follows from `Requested`
  at the step that commits.
- `RequestsRefine` (`CatalogueRefinementProofs`): `CatalogueWrites` implements `Catalogue`,
  as `RequestsAreAtomic` has it. A bike maps to its tables put together, a request in flight
  to what it asks. `Begin` maps to the request's arrival, `Commit` to the one operation of
  the abstract catalogue that does all of it, a refusal or a failure to its departure, and
  every other statement to a stutter, as only a commit changes a committed table.
- `DeadlocksNeedRemovals` (`CatalogueRequestsProofs`): a statement waits only for a
  transaction that has already written the part it is about to write, and all write the
  parts in one order, so that a circle without a removal would have to climb forever. Only
  a PUT that renames writes the row twice; `RenamesOrdered` says that among any renames
  under way one goes to a slug that no bike of them has, so they do not close a circle
  either.

### Images
[`images`] `TypeCorrect`, `PutsKeepImages`, `ImagesBreakOnlyByFailure`,
`FilesStrandOnlyByFailure`, with `Phases` (what a request holds as its image at each point),
`Versions` (a row that still has the version a request loaded is the row it loaded) and
`Owned` (a file belongs to one bike, and a file just stored to nobody else). The last two
theorems suppose that no POST names a file of this API's directory; `shared` is the
counterexample without it.

### Seeds
[`seeding`, `engines`]

- `TypeCorrect`, `RerunsAreAccepted`, `RerunsAddOnlyWeights`: between a script's COMMIT and
  its history row the catalogue is what that script made of an earlier one (`JustApplied`). So
  it is enough to show of each kind of script, bike by bike, that it accepts and leaves alone
  what it has made.
- `ScriptsTakeOnlyContradictions`: the same lemmas about `Merged`, without the history.
- `EuropeIsNotBrazil`, for scripts that are `InOrder(c)`, as those of `seeding` are: the dev
  seed first, the backfill of countries `c` after those that bring Brazilian bikes and before
  1000ps, neither of the two ever edited, and each bike an import brings in some edition
  brought by some script in all of them. The code's names and contents see to this today, and
  section 5 says what an edit does to it. The invariant (`RanInOrder`, `Stamped`, `Brought`)
  says that scripts were first recorded in their order, that from the backfill on every bike
  but those of 1000ps has its country, and that what a script brings is there once it has run.
- `FirstSourceIsKept`, for scripts with `SaidInTime`, as those of `engines` are: the dev seed
  first, the FIPE seed repeating no bike, the backfill of countries staging none, and no
  script speaking of a bike before the one that brings it. The invariant (`Seeded`) says that
  while nobody has edited a script or a bike, the catalogue is what the first k scripts make
  of nothing (`MadeBy`, column by column), where Flyway's history has all of them but perhaps
  the k-th: a crash between a COMMIT and its history row only makes the k-th run again, and a
  script leaves alone what it has made.

### Reads
[`reading`]

- `TypeCorrect`, from `Based` (the table, the ids, and that the last of `past` is the present
  table) and one invariant for each kind of request (`Compared`, `Paged`, `Single`,
  `FiguresLeft`).
- `MarksAreRight`, from lemmas about `Winners` and `Differing` for rows of any length: the
  best of finitely many figures exists and no other beats it. `ValueOfVersion` is what the
  registry has to promise for that.
- `ColumnsAreConsistent`: `Compared` says that what is read of the bikes is the table at one
  instant of `past`. `MentionedOnce` is the de-duplication of the ids.
- `PagesFailOnlyByRemovals`: `Traced` says of each bike of a page under way that either a
  removal of it has raced, or what its row refers to is still there, the dimension row of the
  same number included; `TouchedIsUnread` that the block loaded next is one that is not loaded
  yet.
- `AnswersAreOfTheirInstants`: `Dated` says that the rows of a page under way are a slice, in
  an order the sort allows, of what is wanted of one instant; that its total is of that
  instant or a later one; and that each block loaded so far is the block of its own bike at no
  earlier instant. `SliceStands` is that a slice of any order is one, whatever the page.
  `LikeIsLiteral` is that LIKE finds a text by its escaped form exactly where the text is:
  the pattern spells the text, each of the three characters that LIKE knows behind an escape
  (`Spells`; `SpellsAgain` is why the escape has to be escaped first), and a pattern that
  spells a text fits where the text is (`LikeSpells`). What the two recursive functions
  compute is shown without an operator as a parameter: `RecursionHasSolution` builds the
  function from its steps, and `AllNumbers` is induction for a set of numbers.
- `FiguresAgreeButForWrites`: `Gathered` says that the figures read so far are each of an
  instant of the request, none of an earlier one than the figure before it; `Drifts` that
  between two instants no class of bikes (those without a price, with a dimension block, and
  so on) has gained or lost more bikes than there were writes. Each conjunct compares two or
  three figures; going from the instant of one to that of the next costs the writes between,
  and as the instants only go up these add up to no more than all the writes of the request.
  Sums are dealt with by induction on finite sets: `ByElements` takes the property to be shown
  as the set of sets that have it, as a theorem cannot have it as an operator.
  `AverageBetween` is that the average, rounded half up, lies between minimum and maximum.

### Research
[`research`] `TypeCorrect`, `ScriptsFillGaps`, `ScriptsStopBootsOnlyOverFlaws`,
`AppliedRowsStayStaged`, `CheckedFilesImport`. `Sound` adds to the types that a script which a
boot refuses, over a slug twice or unknown, an empty row, a text too wide or anything else,
has one of the three flaws (`Sturdy`); that what a validator has accepted is a file of slugs
the worklist had, and so of none too long (`Vetted`); and that the one file of the suspension
is a beginning of its research, which only grows (`Grown`). `Sturdy` needs that the displacement importer goes by
the slugs of the list: a slug that its research names twice is staged once.

### Importers
[`sheets`] How a figure is read plays no part in these: they hold whatever the operators of
`SheetReading` that read a text make of it. What is proved about a row is proved for each
importer in turn (`ReadFrom`: `BrandRow`, `KawasakiRows`, `TriumphRows`, `TypedRows`,
`ResearchRows`), and `RowsRead` carries it from the snapshot through a run to the script.

- `TypeOKHolds`, `RowsPass`, `TextAgrees`, `PublishedFirst`: `Written` and `Progress` say that
  the rows a run stages, and those of the script it leaves, are of the sheets of one snapshot,
  one a slug. A script of an earlier snapshot than the present one is covered, as `seed`
  remembers its own.
- `CopiesOwned`, `CopiesFirst`: the copy of a photo is named after the slug of its row, of
  which a script has one each. `Progress` says that what a run has still to copy is the end of
  the list of its rows' copies, and that of those before it each has its file, unless the
  photo or the file was touched since the run began.

`Sheets` merges records by `Over` and chooses rows by `At`, both plain set theory, as the
provers know neither `@@` nor `SelectSeq`.

### What is only model-checked
- Liveness (`EveryRequestAnswered`, `BootCompletes`) and whatever else needs fairness or
  ENABLED: out of the prover's reach.
- `NeverAWrongFigure`, which compares what an importer reads in a text with what the text
  means. What the readings do with the words of a text has many cases, in each importer others,
  and the texts that are judged are those of the runs.

Every other property of the passing runs is a theorem.

## 7. What is not modelled, and why

- Access control: the route table is a constant, and a token is signed and read without any
  state on the server, so that nothing interleaves. That it outlives what it says of a user
  is a documented limitation (`README.md:292-293`).
- Contents of a specification on the write path (weights, powers, texts): values it copies and
  never looks at, with the CHECK constraints over them.
- Validation of request bodies by annotations (`CreateMotorcycleRequest`): a request that
  fails it never reaches the service.
- A POST that is sent again after a lost answer makes a second bike, and a slug may be longer
  than its column: hazards without a property, as no document promises anything and names
  are tokens.
- OpenAPI configuration, DTO mapping, Docker, Postman collection, CI: no behaviour of
  their own. The list of brands is one query.
- The generated seed data: data, not code; the scripts' control is `SeedScripts` and
  `SeedPipeline`.
- In the seeds: slugs against identities, brand spelling, `image_url`, long-tail specs, engine
  speeds (so the last check of the Kawasaki research, torque peaking no later than power,
  `import-kawasaki-engine-research.mjs:386-394`, is not in `RejectsGeometry`), and the
  versioned migrations, which run once on tables no seed has filled.
- In comparisons: texts, units, grouping, the response's countries. In the statistics: the
  breakdowns and the date of the last update.
- In the tools: wording, headers of the scripts, tables of labels, the scrapers' network.
