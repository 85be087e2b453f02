--------------------------- MODULE CatalogueWrites ---------------------------
(***************************************************************************)
(* The three writing endpoints of the catalogue (POST, PUT and DELETE on   *)
(* /api/v1/motorcycles), served concurrently: MotorcycleService.create,    *)
(* update and delete over the tables motorcycles, engine_specifications,   *)
(* dimensions and motorcycle_additional_specs.                             *)
(*                                                                         *)
(* A request is a process.  Its steps are the statements its code sends to *)
(* PostgreSQL, in order: reads see what is committed (READ COMMITTED),     *)
(* writes lock what they touch and stay private until Commit.              *)
(***************************************************************************)
EXTENDS SlugRules

CONSTANTS
    Clients,      \* request threads
    MaxId,        \* bound: the last id the identity column hands out
    MaxRequests,  \* bound: the requests served in one behaviour
    Engines,      \* contents of an engine_specifications row
    Dimensions,   \* contents of a dimensions row
    Extras,       \* contents of the two element collections of a motorcycle
    NoExtras,     \* both collections empty: no rows in their tables
    Absent,       \* no row
    Untouched,    \* a transaction has not written this part of the aggregate
    Requests,     \* the requests clients send
    Seeded        \* the bikes the seed migrations left, by id

BikeIds == 1..MaxId
MotorcycleRow == [slug : Slug, ident : Identity, version : Nat]
\* A dimensions row is told from its successors by the version the bike got with it.
DimensionRow == [row : Nat, figures : Dimensions]

\* bike is the path variable of PUT and DELETE; POST ignores it, and DELETE the body.
Request == [op : {"create", "update", "delete"}, bike : BikeIds,
            ident : Identity, engine : Engines, dimension : Dimensions \cup {Absent},
            extras : Extras]
SeededBike == [motorcycle : MotorcycleRow, engine : Engines \cup {Absent},
               dimension : DimensionRow \cup {Absent}, extras : Extras]

ASSUME BoundAssumption == MaxId \in Nat \ {0} /\ MaxRequests \in Nat
ASSUME ContentAssumption ==
    /\ NoExtras \in Extras
    /\ Untouched \notin MotorcycleRow \cup Engines \cup DimensionRow \cup Extras \cup {Absent}
    /\ Absent \notin MotorcycleRow \cup Engines \cup Dimensions \cup DimensionRow \cup Request
    /\ Absent \notin [slug : Slug, ident : Identity, version : Nat, engine : Engines \cup {Absent},
                      dimension : Dimensions \cup {Absent}, extras : Extras]
    /\ Requests \subseteq Request
    /\ Requests # {}
\* The seeds write the slug the service would derive, and the unique index holds there too.
ASSUME SeedAssumption ==
    /\ Seeded \in Seq(SeededBike)
    /\ Len(Seeded) <= MaxId
    /\ \A i, j \in DOMAIN Seeded :
           Seeded[i].motorcycle.slug = Seeded[j].motorcycle.slug => i = j
    /\ \A i \in DOMAIN Seeded :
           SlugMatchesIdentity(Seeded[i].motorcycle.slug, BaseSlug(Seeded[i].motorcycle.ident))

VARIABLES
    motorcycles,      \* committed rows, by id
    engineSpecs,      \* committed engine block of a bike, by the id of the bike
    dimensions,       \* committed dimension block of a bike, by the id of the bike
    additionalSpecs,  \* committed element collections, by id
    nextId,           \* the identity column's sequence
    req,              \* the request a client is being served, or was last
    reply,            \* the HTTP status it got ("none" while in flight)
    issued,           \* requests sent so far
    rivals,           \* commits that took a slug of this request's base since it began
    pc,               \* where the request's code is
    bike,             \* the id it works on
    attempt,          \* 1 or 2: which insert of a create this is
    suffix,           \* which candidate uniqueSlug tries
    slug,             \* slug of the managed entity
    snap,             \* what the persistence context loaded
    todo,             \* statements of the flush still to be sent
    writes            \* what the transaction wrote, not yet committed

tables == <<motorcycles, engineSpecs, dimensions, additionalSpecs, nextId>>
envelope == <<req, issued, rivals>>
locals == <<bike, attempt, suffix, slug, snap>>
vars == <<tables, envelope, reply, pc, locals, todo, writes>>

NoSnap == [motorcycle |-> Absent, engine |-> Absent, dimension |-> Absent, extras |-> NoExtras]
NoWrites == [motorcycle |-> Untouched, engine |-> Untouched, dimension |-> Untouched,
             extras |-> Untouched]
Parts == {"motorcycle", "engine", "dimension", "extras"}

------------------------------------------------------------------------------
(* What the code asks of the state *)

Existing == {i \in BikeIds : motorcycles[i] # Absent}

NeverTaken(s) == FALSE  \* mutant: the probe sees nothing

\* existsBySlug, and the unique index uk_motorcycles_slug.
SlugTaken(s) == \E i \in Existing : motorcycles[i].slug = s
SlugTakenByAnother(s, id) == \E i \in Existing \ {id} : motorcycles[i].slug = s

\* Hibernate's dirty checks on a PUT r over the loaded state s.  apply() clears
\* and refills both collections, which dirties the root whenever they held or
\* now hold anything; a block that changes dirties only its own row, one that
\* comes or goes the root, which refers to it.
EngineDirty(r, s) == r.engine # s.engine
Figures(row) == IF row = Absent THEN Absent ELSE row.figures
DimensionDirty(r, s) == r.dimension # Absent /\ r.dimension # Figures(s.dimension)
DropsDimension(r, s) == r.dimension = Absent /\ s.dimension # Absent
FilledExtras(r, s) == r.extras # NoExtras  \* mutant: clear() reaches no row
ExtrasDirty(r, s) == r.extras # s.extras
RootDirtyButEngine(r, s) ==                \* mutant: a new engine block goes unnoticed
    \/ r.ident # s.motorcycle.ident
    \/ (r.dimension = Absent) # (s.dimension = Absent)
    \/ r.extras # NoExtras
    \/ s.extras # NoExtras
RootDirty(r, s) ==
    \/ r.ident # s.motorcycle.ident
    \/ s.engine = Absent
    \/ (r.dimension = Absent) # (s.dimension = Absent)
    \/ r.extras # NoExtras
    \/ s.extras # NoExtras

If(cond, part) == IF cond THEN <<part>> ELSE <<>>

\* Mutant: the order of the updates follows the code path instead of the entity name.
UnsortedStatements(r, s, slugMoved) ==
    IF r.ident = s.motorcycle.ident
    THEN If(EngineDirty(r, s), "engine") \o If(RootDirty(r, s), "motorcycle")
    ELSE <<"motorcycle">> \o If(EngineDirty(r, s), "engine")

\* order_updates sorts the updates by entity name: dimension, engine, motorcycle;
\* collection rows come after them, and the removal of an orphaned dimension last.
UpdateStatements(r, s, slugMoved) ==
    If(DimensionDirty(r, s), "dimension")
        \o If(EngineDirty(r, s), "engine")
        \o If(RootDirty(r, s) \/ slugMoved, "motorcycle")
        \o If(ExtrasDirty(r, s), "extras")
        \o If(DropsDimension(r, s), "dimension")

\* A removal deletes the collection rows first and the cascaded blocks last.
DeleteStatements(s) ==
    <<"extras", "motorcycle">> \o If(s.dimension # Absent, "dimension")
                               \o If(s.engine # Absent, "engine")

Base(c) == BaseSlug(req[c].ident)

\* Mutants: any trailing number is stripped, the year too; a disambiguator is not allowed for.
KeepsSlugButYear(c) == SubSeq(slug[c], 1, Len(slug[c]) - 1) = req[c].ident.name
KeepsBareSlug(c) == slug[c] = Base(c)

\* An edit derives a new slug only when the identity moved away from the current one.
KeepsSlug(c) == SlugMatchesIdentity(slug[c], Base(c))

Never(c) == FALSE  \* mutant: a lost insert is not retried
MayRetry(c) == attempt[c] = 1

InFlush(c, part) ==
    /\ pc[c] \in {"autoflush", "flush"}
    /\ todo[c] # <<>>
    /\ Head(todo[c]) = part

------------------------------------------------------------------------------
(* Locks.  A written row stays locked until its transaction ends, and an     *)
(* index entry that an open transaction adds or takes away makes every other *)
(* writer of the same key wait.                                              *)

RowHolders(c, part) ==
    {d \in Clients \ {c} : bike[d] = bike[c] /\ writes[d][part] # Untouched}

SameDimension(x, y) == Absent \notin {x, y} /\ x.row = y.row

\* Two requests may have loaded different dimension rows of one bike.
DimensionHolders(c) ==
    {d \in RowHolders(c, "dimension") : SameDimension(snap[d].dimension, snap[c].dimension)}

KeyHolders(c, s) ==
    {d \in Clients \ {c} :
        /\ writes[d].motorcycle # Untouched
        /\ \/ writes[d].motorcycle # Absent /\ writes[d].motorcycle.slug = s
           \/ bike[d] \in Existing /\ motorcycles[bike[d]].slug = s}

\* An insert locks nothing that exists, and deleting no rows waits for nobody.
WaitsFor(c) ==
    CASE pc[c] = "insert" -> KeyHolders(c, slug[c])
      [] InFlush(c, "motorcycle") ->
            RowHolders(c, "motorcycle")
                \cup IF req[c].op = "update" THEN KeyHolders(c, slug[c]) ELSE {}
      [] InFlush(c, "engine") /\ snap[c].engine # Absent -> RowHolders(c, "engine")
      [] InFlush(c, "dimension") /\ snap[c].dimension # Absent -> DimensionHolders(c)
      [] InFlush(c, "extras") /\ additionalSpecs[bike[c]] # NoExtras -> RowHolders(c, "extras")
      [] OTHER -> {}

\* Transactions that all wait for one another, each waited for by one of them.
Deadlock(S) ==
    /\ S # {}
    /\ \A c \in S : WaitsFor(c) \cap S # {}
    /\ \A c \in S : \E d \in S : c \in WaitsFor(d)

------------------------------------------------------------------------------
(* Ends of a request *)

\* The response leaves, the transaction (if one is open) is over.
Finish(c, status) ==
    /\ reply' = [reply EXCEPT ![c] = status]
    /\ pc' = [pc EXCEPT ![c] = "idle"]
    /\ attempt' = [attempt EXCEPT ![c] = 1]
    /\ suffix' = [suffix EXCEPT ![c] = 1]
    /\ slug' = [slug EXCEPT ![c] = <<>>]
    /\ snap' = [snap EXCEPT ![c] = NoSnap]
    /\ todo' = [todo EXCEPT ![c] = <<>>]
    /\ writes' = [writes EXCEPT ![c] = NoWrites]
    /\ UNCHANGED <<req, issued, bike>>

\* An exception reaches the handler: everything written so far is rolled back.
Refuse(c, status) == Finish(c, status) /\ UNCHANGED <<tables, rivals>>

\* A statement succeeds; the last one of an AUTO flush lets the query run.
Wrote(c, part, value) ==
    /\ writes' = [writes EXCEPT ![c][part] = value]
    /\ todo' = [todo EXCEPT ![c] = Tail(@)]
    /\ pc' = [pc EXCEPT ![c] = IF @ = "autoflush" /\ Len(todo[c]) = 1 THEN "probe" ELSE @]
    /\ UNCHANGED <<tables, envelope, reply, locals>>

------------------------------------------------------------------------------
(* Reads *)

Begin(c) ==
    /\ pc[c] = "idle"
    /\ issued < MaxRequests
    /\ \E r \in Requests :
        /\ req' = [req EXCEPT ![c] = r]
        /\ bike' = [bike EXCEPT ![c] = r.bike]
        /\ pc' = [pc EXCEPT ![c] = IF r.op = "create" THEN "probe" ELSE "load"]
    /\ issued' = issued + 1
    /\ reply' = [reply EXCEPT ![c] = "none"]
    /\ rivals' = [rivals EXCEPT ![c] = 0]
    /\ UNCHANGED <<tables, attempt, suffix, slug, snap, todo, writes>>

\* requireById: the motorcycle and its blocks, in one query.  delete() then only
\* queues the removal; update() goes on to apply().
Load(c) ==
    /\ pc[c] = "load"
    /\ IF motorcycles[bike[c]] = Absent
       THEN Refuse(c, "404")
       ELSE LET s == [motorcycle |-> motorcycles[bike[c]],
                      engine |-> engineSpecs[bike[c]],
                      dimension |-> dimensions[bike[c]],
                      extras |-> NoExtras]
                removal == req[c].op = "delete"
            IN  /\ snap' = [snap EXCEPT ![c] = s]
                /\ slug' = [slug EXCEPT ![c] = s.motorcycle.slug]
                /\ pc' = [pc EXCEPT ![c] = IF removal THEN "flush" ELSE "apply"]
                /\ todo' = [todo EXCEPT ![c] = IF removal THEN DeleteStatements(s) ELSE <<>>]
                /\ UNCHANGED <<tables, envelope, reply, bike, attempt, suffix, writes>>

\* apply() initialises the lazy collections, a query of its own; then the slug is
\* kept or has to be derived again.  Deriving queries motorcycles, and Hibernate
\* flushes first when that table has changes pending.
Apply(c) ==
    LET s == [snap[c] EXCEPT !.extras = additionalSpecs[bike[c]]]
        statements == UpdateStatements(req[c], s, FALSE)
    IN  /\ pc[c] = "apply"
        /\ snap' = [snap EXCEPT ![c] = s]
        /\ pc' = [pc EXCEPT ![c] = IF KeepsSlug(c) THEN "flush"
                                   ELSE IF RootDirty(req[c], s) THEN "autoflush" ELSE "probe"]
        /\ todo' = [todo EXCEPT ![c] = IF KeepsSlug(c) \/ RootDirty(req[c], s)
                                       THEN statements ELSE <<>>]
        /\ UNCHANGED <<tables, envelope, reply, bike, attempt, suffix, slug, writes>>

\* One turn of uniqueSlug's loop.
Probe(c) ==
    LET candidate == Candidate(Base(c), suffix[c])
        creating == req[c].op = "create"
        kept == ~creating /\ candidate = snap[c].motorcycle.slug
        taken == ~kept /\ SlugTaken(candidate)
        flushed == RootDirty(req[c], snap[c])
        moved == candidate # slug[c]
    IN  /\ pc[c] = "probe"
        /\ \/ /\ ~taken
              /\ slug' = [slug EXCEPT ![c] = candidate]
              /\ pc' = [pc EXCEPT ![c] = IF creating THEN "insert" ELSE "flush"]
              /\ todo' = [todo EXCEPT ![c] =
                            IF creating THEN <<>>
                            ELSE IF flushed THEN If(moved, "motorcycle")
                            ELSE UpdateStatements(req[c], snap[c], moved)]
              /\ UNCHANGED <<tables, envelope, reply, bike, attempt, suffix, snap, writes>>
           \/ /\ taken
              /\ ~Exhausted(suffix[c])
              /\ suffix' = [suffix EXCEPT ![c] = NextSuffix(@)]
              /\ UNCHANGED <<tables, envelope, reply, pc, bike, attempt, slug, snap, todo, writes>>
           \/ /\ taken
              /\ Exhausted(suffix[c])
              /\ Refuse(c, "409")

------------------------------------------------------------------------------
(* Writes of a create *)

DimensionOf(r, row) ==
    IF r.dimension = Absent THEN Absent ELSE [row |-> row, figures |-> r.dimension]

\* MotorcycleWriter.save: an insert in a transaction of its own.  The first
\* collision starts over with a fresh entity, the second is the client's 409.
InsertNew(c) ==
    /\ pc[c] = "insert"
    /\ WaitsFor(c) = {}
    /\ \/ /\ ~SlugTaken(slug[c])
          /\ nextId <= MaxId
          /\ bike' = [bike EXCEPT ![c] = nextId]
          /\ nextId' = nextId + 1
          /\ writes' = [writes EXCEPT ![c] =
                [motorcycle |-> [slug |-> slug[c], ident |-> req[c].ident, version |-> 0],
                 engine |-> req[c].engine,
                 dimension |-> DimensionOf(req[c], 0),
                 extras |-> req[c].extras]]
          /\ pc' = [pc EXCEPT ![c] = "flush"]
          /\ UNCHANGED <<motorcycles, engineSpecs, dimensions, additionalSpecs, envelope,
                         reply, attempt, suffix, slug, snap, todo>>
       \/ /\ SlugTaken(slug[c])
          /\ MayRetry(c)
          /\ attempt' = [attempt EXCEPT ![c] = 2]
          /\ suffix' = [suffix EXCEPT ![c] = 1]
          /\ slug' = [slug EXCEPT ![c] = <<>>]
          /\ pc' = [pc EXCEPT ![c] = "probe"]
          /\ UNCHANGED <<tables, envelope, reply, bike, snap, todo, writes>>
       \/ /\ SlugTaken(slug[c])
          /\ ~MayRetry(c)
          /\ Refuse(c, "409")

------------------------------------------------------------------------------
(* Writes of an update or a delete *)

\* Mutants: no version in the where clause; a row that is gone is written anew.
RowExists(c) == motorcycles[bike[c]] # Absent
Anyhow(c) == TRUE

\* "where id = ? and version = ?" finds the row this transaction knows: its own
\* pending one, or the committed one if nobody moved it on.
VersionHolds(c) ==
    \/ writes[c].motorcycle # Untouched
    \/ /\ motorcycles[bike[c]] # Absent
       /\ motorcycles[bike[c]].version = snap[c].motorcycle.version

NextVersion(c) ==
    1 + IF writes[c].motorcycle # Untouched
        THEN writes[c].motorcycle.version ELSE snap[c].motorcycle.version

UpdateMotorcycle(c) ==
    /\ InFlush(c, "motorcycle")
    /\ req[c].op = "update"
    /\ WaitsFor(c) = {}
    /\ \/ /\ VersionHolds(c)
          /\ ~SlugTakenByAnother(slug[c], bike[c])
          /\ Wrote(c, "motorcycle",
                   [slug |-> slug[c], ident |-> req[c].ident, version |-> NextVersion(c)])
       \/ /\ ~VersionHolds(c) \/ SlugTakenByAnother(slug[c], bike[c])
          /\ Refuse(c, "409")

\* mergeEngine: the loaded block is updated in place, a missing one is inserted.
UpdateEngine(c) ==
    /\ InFlush(c, "engine")
    /\ req[c].op = "update"
    /\ WaitsFor(c) = {}
    /\ \/ /\ snap[c].engine = Absent \/ engineSpecs[bike[c]] # Absent
          /\ Wrote(c, "engine", req[c].engine)
       \/ /\ snap[c].engine # Absent
          /\ engineSpecs[bike[c]] = Absent
          /\ Refuse(c, "409")

\* "where id = ?": the row this transaction has loaded, wherever the bike refers to now.
DimensionThere(c) == SameDimension(dimensions[bike[c]], snap[c].dimension)

\* The row it updates, or a new one.
RowFor(s) == IF s.dimension = Absent THEN s.motorcycle.version + 1 ELSE s.dimension.row

\* mergeDimension: the same for the dimension block, but that one which the body omits goes
\* (orphanRemoval).  By then the root has been written, and nobody else has taken it away.
UpdateDimension(c) ==
    /\ InFlush(c, "dimension")
    /\ req[c].op = "update"
    /\ WaitsFor(c) = {}
    /\ \/ /\ req[c].dimension = Absent \/ snap[c].dimension = Absent \/ DimensionThere(c)
          /\ Wrote(c, "dimension", DimensionOf(req[c], RowFor(snap[c])))
       \/ /\ Absent \notin {req[c].dimension, snap[c].dimension}
          /\ ~DimensionThere(c)
          /\ Refuse(c, "409")

UpdateExtras(c) ==
    /\ InFlush(c, "extras")
    /\ req[c].op = "update"
    /\ WaitsFor(c) = {}
    /\ Wrote(c, "extras", req[c].extras)

RemoveExtras(c) ==
    /\ InFlush(c, "extras")
    /\ req[c].op = "delete"
    /\ WaitsFor(c) = {}
    /\ Wrote(c, "extras",
             IF additionalSpecs[bike[c]] = NoExtras THEN Untouched ELSE NoExtras)

RemoveMotorcycle(c) ==
    /\ InFlush(c, "motorcycle")
    /\ req[c].op = "delete"
    /\ WaitsFor(c) = {}
    /\ IF VersionHolds(c) THEN Wrote(c, "motorcycle", Absent) ELSE Refuse(c, "409")

\* No version here: the blocks are the motorcycle's, whose lock is held.
RemoveDimension(c) ==
    /\ InFlush(c, "dimension")
    /\ req[c].op = "delete"
    /\ WaitsFor(c) = {}
    /\ Wrote(c, "dimension", Absent)

RemoveEngine(c) ==
    /\ InFlush(c, "engine")
    /\ req[c].op = "delete"
    /\ WaitsFor(c) = {}
    /\ Wrote(c, "engine", Absent)

Overlay(table, c, part) == [table EXCEPT ![bike[c]] = writes[c][part]]  \* mutant

After(table, c, part) ==
    IF writes[c][part] = Untouched THEN table
    ELSE [table EXCEPT ![bike[c]] = writes[c][part]]

\* A commit of d that puts a slug of c's base in the index counts against c.
TakesSlugOf(c, d) ==
    /\ writes[d].motorcycle \notin {Untouched, Absent}
    /\ SlugMatchesIdentity(writes[d].motorcycle.slug, Base(c))
    /\ ~SlugTaken(writes[d].motorcycle.slug)

Status(op) == CASE op = "create" -> "201" [] op = "update" -> "200" [] OTHER -> "204"

Commit(c) ==
    /\ pc[c] = "flush"
    /\ todo[c] = <<>>
    /\ motorcycles' = After(motorcycles, c, "motorcycle")
    /\ engineSpecs' = After(engineSpecs, c, "engine")
    /\ dimensions' = After(dimensions, c, "dimension")
    /\ additionalSpecs' = After(additionalSpecs, c, "extras")
    /\ rivals' = [d \in Clients |->
                    IF d # c /\ pc[d] # "idle" /\ TakesSlugOf(d, c)
                    THEN rivals[d] + 1 ELSE rivals[d]]
    /\ Finish(c, Status(req[c].op))
    /\ UNCHANGED nextId

------------------------------------------------------------------------------
(* Failures *)

\* PostgreSQL breaks a cycle of waiting transactions by aborting one of them;
\* no handler knows the exception, so the catch-all answers.
BreakDeadlock(c) ==
    /\ \E S \in SUBSET Clients : c \in S /\ Deadlock(S)
    /\ Refuse(c, "500")

\* A statement or transaction timeout, a lost connection, the process dying.
Fail(c) ==
    /\ pc[c] # "idle"
    /\ Refuse(c, "500")

------------------------------------------------------------------------------

Init ==
    LET seed(i) == i \in DOMAIN Seeded
    IN  /\ motorcycles = [i \in BikeIds |-> IF seed(i) THEN Seeded[i].motorcycle ELSE Absent]
        /\ engineSpecs = [i \in BikeIds |-> IF seed(i) THEN Seeded[i].engine ELSE Absent]
        /\ dimensions = [i \in BikeIds |-> IF seed(i) THEN Seeded[i].dimension ELSE Absent]
        /\ additionalSpecs = [i \in BikeIds |-> IF seed(i) THEN Seeded[i].extras ELSE NoExtras]
        /\ nextId = Len(Seeded) + 1
        /\ req = [c \in Clients |-> CHOOSE r \in Requests : TRUE]
        /\ reply = [c \in Clients |-> "none"]
        /\ issued = 0
        /\ rivals = [c \in Clients |-> 0]
        /\ pc = [c \in Clients |-> "idle"]
        /\ bike = [c \in Clients |-> 1]
        /\ attempt = [c \in Clients |-> 1]
        /\ suffix = [c \in Clients |-> 1]
        /\ slug = [c \in Clients |-> <<>>]
        /\ snap = [c \in Clients |-> NoSnap]
        /\ todo = [c \in Clients |-> <<>>]
        /\ writes = [c \in Clients |-> NoWrites]

\* What the server does on its own, once a request is in.
Serve(c) ==
    \/ Load(c) \/ Apply(c) \/ Probe(c) \/ InsertNew(c)
    \/ UpdateMotorcycle(c) \/ UpdateEngine(c) \/ UpdateDimension(c) \/ UpdateExtras(c)
    \/ RemoveExtras(c) \/ RemoveMotorcycle(c) \/ RemoveDimension(c) \/ RemoveEngine(c)
    \/ Commit(c) \/ BreakDeadlock(c)

\* The clients have nothing more to send (end of a bounded behaviour).
Quiet ==
    /\ issued = MaxRequests
    /\ \A c \in Clients : pc[c] = "idle"
    /\ UNCHANGED vars

Next == (\E c \in Clients : Begin(c) \/ Serve(c) \/ Fail(c)) \/ Quiet

Spec == Init /\ [][Next]_vars
FairSpec == Spec /\ \A c \in Clients : WF_vars(Serve(c))

------------------------------------------------------------------------------
(* Properties *)

SnapType == [motorcycle : MotorcycleRow \cup {Absent},
             engine : Engines \cup {Absent},
             dimension : DimensionRow \cup {Absent},
             extras : Extras]
WritesType == [motorcycle : MotorcycleRow \cup {Absent, Untouched},
               engine : Engines \cup {Absent, Untouched},
               dimension : DimensionRow \cup {Absent, Untouched},
               extras : Extras \cup {Untouched}]

\* Every table and every local of a request holds a value of its type.
TypeOK ==
    /\ motorcycles \in [BikeIds -> MotorcycleRow \cup {Absent}]
    /\ engineSpecs \in [BikeIds -> Engines \cup {Absent}]
    /\ dimensions \in [BikeIds -> DimensionRow \cup {Absent}]
    /\ additionalSpecs \in [BikeIds -> Extras]
    /\ nextId \in 1..MaxId + 1
    /\ req \in [Clients -> Requests]
    /\ reply \in [Clients -> {"none", "200", "201", "204", "404", "409", "500"}]
    /\ issued \in 0..MaxRequests
    /\ rivals \in [Clients -> Nat]
    /\ pc \in [Clients -> {"idle", "load", "apply", "autoflush", "probe", "insert", "flush"}]
    /\ bike \in [Clients -> BikeIds]
    /\ attempt \in [Clients -> {1, 2}]
    /\ suffix \in [Clients -> 1..MaxSuffix - 1]
    /\ slug \in [Clients -> Slug]
    /\ snap \in [Clients -> SnapType]
    /\ todo \in [Clients -> Seq(Parts)]
    /\ writes \in [Clients -> WritesType]

\* No two bikes answer to one public identifier, whatever creates and renames race
\* (uk_motorcycles_slug, and the writes it refuses).
SlugsUnique ==
    \A i, j \in Existing : motorcycles[i].slug = motorcycles[j].slug => i = j

\* A row c has inserted or changed, and not yet committed.
HasRow(c) == writes[c].motorcycle \notin {Untouched, Absent}

\* Before it commits, a slug is already exclusive: no committed row of another bike and
\* no other open transaction holds it, and no two transactions write one row.  This is
\* what makes the probe, the index and the wait for a rival add up to SlugsUnique.
PendingSlugsExclusive ==
    /\ \A i \in Existing : i < nextId
    /\ \A c \in Clients : writes[c].motorcycle # Untouched => bike[c] < nextId
    /\ \A c, d \in Clients :
           c # d /\ writes[c].motorcycle # Untouched /\ writes[d].motorcycle # Untouched
               => bike[c] # bike[d]
    /\ \A c, d \in Clients :
           c # d /\ HasRow(c) /\ HasRow(d) => writes[c].motorcycle.slug # writes[d].motorcycle.slug
    /\ \A c \in Clients : HasRow(c) =>
           \A i \in Existing \ {bike[c]} : motorcycles[i].slug # writes[c].motorcycle.slug

\* What a request holds at each point of its code: a PUT or DELETE past its load has a
\* row, nothing is written before the flush, and only a DELETE writes a removal.
PhasesConsistent ==
    \A c \in Clients :
        /\ pc[c] \in {"idle", "load", "apply", "insert"} => writes[c] = NoWrites
        /\ pc[c] \in {"idle", "load", "apply", "insert", "probe"} => todo[c] = <<>>
        /\ pc[c] \in {"load", "apply", "autoflush"} => req[c].op # "create"
        /\ pc[c] = "insert" => req[c].op = "create"
        /\ pc[c] = "probe" /\ req[c].op = "create" => writes[c] = NoWrites
        /\ pc[c] \in {"apply", "autoflush", "probe", "flush"} /\ req[c].op # "create"
               => snap[c].motorcycle # Absent
        /\ req[c].op = "create" => todo[c] = <<>>
        /\ req[c].op = "update" => writes[c].motorcycle # Absent

\* The slug of a bike passes slugMatchesIdentity for the brand, model and year in the
\* same row: no interleaving of renames leaves one bike's name under another's slug.
SlugFitsIdentity ==
    \A i \in Existing : SlugMatchesIdentity(motorcycles[i].slug, BaseSlug(motorcycles[i].ident))

\* The cascade and the version check leave no block or collection row without its
\* motorcycle, even when a PUT of a block alone races the DELETE.
NoOrphanRows ==
    \A i \in BikeIds \ Existing :
        engineSpecs[i] = Absent /\ dimensions[i] = Absent /\ additionalSpecs[i] = NoExtras

\* Transactions can only wait for one another in a circle when one of them removes what
\* another one edits, the bike or its dimension block: edits lock the blocks before the
\* motorcycle, a removal after it.  Creates, renames and other edits never deadlock.
DeadlockNeedsRemoval ==
    \A S \in SUBSET Clients :
        Deadlock(S) => \E c, d \in S :
            /\ req[c].op = "update" => DropsDimension(req[c], snap[c])
            /\ req[c].op # "create"
            /\ req[d].op = "update"
            /\ bike[c] = bike[d] /\ c # d

\* An edit that leaves the identity alone, or returns to one the slug still fits,
\* never breaks the links to the bike (update(): "existing links survive").
LinksSurviveEdits ==
    [][\A i \in Existing :
          motorcycles'[i] # Absent /\ motorcycles'[i].slug # motorcycles[i].slug
              => ~SlugMatchesIdentity(motorcycles[i].slug, BaseSlug(motorcycles'[i].ident))]_vars

\* A create is only refused for its slug after losing to two other commits, or after
\* finding every disambiguator taken: one lost race is always absorbed by the retry.
ConflictNeedsTwoRivals ==
    [][\A c \in Clients :
          req[c].op = "create" /\ pc[c] # "idle" /\ pc'[c] = "idle" /\ reply'[c] = "409"
              => rivals[c] >= 2 \/ Exhausted(suffix[c])]_vars

\* A bike that is gone stays gone: a row only appears under an id by the create that
\* was handed that id, never by an edit that was under way when the bike was deleted.
NoResurrection ==
    [][\A i \in BikeIds \ Existing :
          motorcycles'[i] # Absent
              => \E c \in Clients : req[c].op = "create" /\ bike[c] = i /\ pc[c] = "flush"]_vars

\* c commits, having written the given part.
CommitsPart(c, part) ==
    pc[c] = "flush" /\ pc'[c] = "idle" /\ reply'[c] = "200" /\ writes[c][part] # Untouched

\* A PUT that writes the motorcycle row replaces exactly the version it loaded, and
\* what it leaves behind in the row and the collections is its own request, whole, with
\* a dimension block if and only if it has one.
RootEditsDetected ==
    [][\A c \in Clients :
          CommitsPart(c, "motorcycle")
              => /\ motorcycles[bike[c]] = snap[c].motorcycle
                 /\ (dimensions'[bike[c]] = Absent) = (req[c].dimension = Absent)
                 /\ additionalSpecs[bike[c]] = snap[c].extras
                 /\ motorcycles'[bike[c]].ident = req[c].ident
                 /\ additionalSpecs'[bike[c]] = req[c].extras]_vars

\* What the README and Motorcycle.java say of any two simultaneous PUTs: the second is
\* refused instead of silently overwriting the first.
NoSilentOverwrite ==
    [][\A c \in Clients, part \in Parts :
          CommitsPart(c, part)
              => [motorcycle |-> motorcycles[bike[c]],
                  engine |-> engineSpecs[bike[c]],
                  dimension |-> dimensions[bike[c]],
                  extras |-> additionalSpecs[bike[c]]] = snap[c]]_vars

\* Every request is answered, whoever it waits for.
EveryRequestAnswered == \A c \in Clients : pc[c] # "idle" ~> pc[c] = "idle"

\* Every request is one operation of the abstract catalogue, its own, applied whole at
\* its commit; or it leaves no trace there.
Whole(i) ==
    IF motorcycles[i] = Absent THEN Absent
    ELSE [slug |-> motorcycles[i].slug, ident |-> motorcycles[i].ident,
          version |-> motorcycles[i].version,
          engine |-> engineSpecs[i], dimension |-> Figures(dimensions[i]), extras |-> additionalSpecs[i]]
SeedBike(i) ==
    IF i \notin DOMAIN Seeded THEN Absent
    ELSE [slug |-> Seeded[i].motorcycle.slug, ident |-> Seeded[i].motorcycle.ident,
          version |-> Seeded[i].motorcycle.version,
          engine |-> Seeded[i].engine, dimension |-> Figures(Seeded[i].dimension), extras |-> Seeded[i].extras]
Abstract == INSTANCE Catalogue WITH
    Seeds <- [i \in BikeIds |-> SeedBike(i)],
    NoBike <- Absent,
    NoRequest <- Absent,
    bikes <- [i \in BikeIds |-> Whole(i)],
    asked <- [c \in Clients |-> IF pc[c] = "idle" THEN Absent ELSE req[c]]
RequestsAreAtomic == Abstract!Spec
==============================================================================
