----------------------- MODULE CatalogueRefinementProofs -----------------------
(***************************************************************************)
(* CatalogueWrites implements Catalogue, for every number of clients,      *)
(* bikes and requests: each step of a request is one operation of the      *)
(* abstract catalogue, that of its own request, or changes nothing there.  *)
(***************************************************************************)
EXTENDS CatalogueRequestsProofs

\* The abstract state (see Abstract in CatalogueWrites).
Bikes == [i \in BikeIds |-> Whole(i)]
Asked == [c \in Clients |-> IF pc[c] = "idle" THEN Absent ELSE req[c]]

WholeBike == [slug : Slug, ident : Identity, version : Nat, engine : Engines \cup {Absent},
              dimension : Dimensions \cup {Absent}, extras : Extras]

\* A PUT or DELETE works on the bike of its path, all along.
BikeAsked == \A c \in Clients : req[c].op # "create" /\ pc[c] # "idle" => bike[c] = req[c].bike

Atomic == Requested /\ NoOrphanRows /\ BikeAsked

\* Once it is in, a request stays what it is until it is answered.
LEMMA RequestStays ==
    ASSUME Shape, NEW c \in Clients, Serve(c) \/ Fail(c), pc'[c] # "idle"
    PROVE  /\ pc[c] # "idle" /\ req'[c] = req[c]
           /\ ~InsertNew(c) => bike'[c] = bike[c]
<1> USE DEF Shape, TypeOK
<1>1. CASE BreakDeadlock(c) \/ Fail(c) \/ Commit(c)
  BY <1>1 DEF BreakDeadlock, Fail, Commit, Refuse, Finish
<1>2. CASE Load(c) \/ Apply(c) \/ Probe(c)
  BY <1>2, Zenon DEF Load, Apply, Probe, Refuse, Finish, envelope, locals
<1>3. CASE InsertNew(c)
  BY <1>3, Zenon DEF InsertNew, Refuse, Finish, envelope
<1>4. CASE UpdateMotorcycle(c) \/ UpdateEngine(c) \/ UpdateDimension(c) \/ UpdateExtras(c)
  BY <1>4 DEF UpdateMotorcycle, UpdateEngine, UpdateDimension, UpdateExtras, InFlush,
              Refuse, Finish, Wrote, envelope, locals
<1>5. CASE RemoveMotorcycle(c) \/ RemoveEngine(c) \/ RemoveDimension(c) \/ RemoveExtras(c)
  BY <1>5 DEF RemoveMotorcycle, RemoveEngine, RemoveDimension, RemoveExtras, InFlush,
              Refuse, Finish, Wrote, envelope, locals
<1> QED BY <1>1, <1>2, <1>3, <1>4, <1>5 DEF Serve

LEMMA StepBikeAsked == Shape /\ BikeAsked /\ [Next]_vars => BikeAsked'
<1> SUFFICES ASSUME Shape, BikeAsked, [Next]_vars,
                    NEW d \in Clients, req'[d].op # "create", pc'[d] # "idle"
             PROVE  bike'[d] = req'[d].bike
  BY DEF BikeAsked
<1> USE DEF Shape, TypeOK
<1>1. CASE UNCHANGED vars
  BY <1>1 DEF vars, envelope, locals, BikeAsked
<1>2. ASSUME NEW c \in Clients, Begin(c) \/ Serve(c) \/ Fail(c)
      PROVE  bike'[d] = req'[d].bike
  <2>1. CASE c # d
    BY <1>2, <2>1, OthersKeepTheirs DEF BikeAsked
  <2>2. CASE c = d /\ Begin(c)
    BY <2>2, SMT DEF Begin
  <2>3. CASE c = d /\ InsertNew(c)
    <3>1. req[c].op = "create"
      BY <2>3 DEF InsertNew, PhasesConsistent
    <3> QED BY <2>3, <3>1, Zenon DEF InsertNew, Refuse, Finish, envelope
  <2>4. CASE c = d /\ ~Begin(c) /\ ~InsertNew(c)
    <3>1. pc[c] # "idle" /\ req'[c] = req[c] /\ bike'[c] = bike[c]
      BY <1>2, <2>4, RequestStays
    <3> QED BY <2>4, <3>1 DEF BikeAsked
  <2> QED BY <2>1, <2>2, <2>3, <2>4
<1> QED BY <1>1, <1>2 DEF Next, Quiet

LEMMA AtomicHolds == Spec => []Atomic
<1>1. Init => BikeAsked
  BY DEF Init, BikeAsked
<1>2. Shape /\ BikeAsked /\ [Next]_vars => BikeAsked'
  BY StepBikeAsked
<1>3. Requested => Shape
  BY DEF Requested
<1> QED BY <1>1, <1>2, <1>3, RequestedHolds, NothingOrphaned, PTL DEF Spec, Atomic

------------------------------------------------------------------------------
(* What the abstract catalogue shows of a step *)

LEMMA FiguresOfBlock ==
    ASSUME NEW r \in Request, NEW row \in Nat
    PROVE  Figures(DimensionOf(r, row)) = r.dimension
<1>1. CASE r.dimension = Absent
  BY <1>1 DEF Figures, DimensionOf
<1>2. CASE r.dimension # Absent
  <2> DEFINE block == [row |-> row, figures |-> r.dimension]
  <2>1. block \in DimensionRow
    BY <1>2, SMT DEF DimensionRow, Request
  <2>2. block.figures = r.dimension
    OBVIOUS
  <2>3. DimensionOf(r, row) = block
    BY <1>2 DEF DimensionOf
  <2> HIDE DEF block
  <2> QED BY <2>1, <2>2, <2>3, ContentAssumption DEF Figures
<1> QED BY <1>1, <1>2

LEMMA FiguresThere ==
    ASSUME NEW block \in DimensionRow \cup {Absent}
    PROVE  /\ Figures(block) \in Dimensions \cup {Absent}
           /\ Figures(block) = Absent <=> block = Absent
<1>1. CASE block = Absent
  BY <1>1 DEF Figures
<1>2. CASE block \in DimensionRow
  <2>1. block # Absent /\ Absent \notin Dimensions
    BY <1>2, ContentAssumption
  <2>2. block.figures \in Dimensions
    BY <1>2, SMT DEF DimensionRow
  <2> QED BY <2>1, <2>2 DEF Figures
<1> QED BY <1>1, <1>2

LEMMA WholeType ==
    ASSUME Shape, NEW i \in BikeIds
    PROVE  /\ motorcycles[i] = Absent => Whole(i) = Absent
           /\ motorcycles[i] # Absent =>
                  /\ Whole(i) # Absent
                  /\ Whole(i).slug = motorcycles[i].slug
                  /\ Whole(i).ident = motorcycles[i].ident
                  /\ Whole(i).version = motorcycles[i].version
                  /\ Whole(i).engine = engineSpecs[i]
                  /\ Whole(i).dimension = Figures(dimensions[i])
                  /\ Whole(i).extras = additionalSpecs[i]
<1>1. CASE motorcycles[i] = Absent
  BY <1>1 DEF Whole
<1>2. CASE motorcycles[i] # Absent
  <2> DEFINE b == [slug |-> motorcycles[i].slug, ident |-> motorcycles[i].ident,
                   version |-> motorcycles[i].version,
                   engine |-> engineSpecs[i], dimension |-> Figures(dimensions[i]),
                   extras |-> additionalSpecs[i]]
  <2>1. b \in WholeBike
    <3>1. motorcycles[i] \in MotorcycleRow /\ engineSpecs[i] \in Engines \cup {Absent}
          /\ additionalSpecs[i] \in Extras /\ dimensions[i] \in DimensionRow \cup {Absent}
      BY <1>2 DEF Shape, TypeOK
    <3>2. Figures(dimensions[i]) \in Dimensions \cup {Absent}
      BY <3>1, FiguresThere
    <3> QED BY <3>1, <3>2, SMT DEF MotorcycleRow, WholeBike
  <2>2. Whole(i) = b
    BY <1>2 DEF Whole
  <2>3. Whole(i) # Absent
    BY <2>1, <2>2, ContentAssumption DEF WholeBike
  <2> QED BY <1>2, <2>2, <2>3
<1> QED BY <1>1, <1>2

LEMMA BikesStay ==
    ASSUME UNCHANGED <<motorcycles, engineSpecs, dimensions, additionalSpecs>>
    PROVE  Bikes' = Bikes
BY DEF Bikes, Whole

\* A commit changes one bike.
LEMMA OneBikeCommitted ==
    ASSUME Shape, NEW c \in Clients, Commit(c), NEW b \in BikeIds, b = bike[c]
    PROVE  Bikes' = [Bikes EXCEPT ![b] = Whole(b)']
<1>1. ASSUME NEW j \in BikeIds, j # b PROVE Whole(j)' = Whole(j)
  BY <1>1, Committed DEF Whole
<1> QED BY <1>1 DEF Bikes

LEMMA AskedAfter ==
    ASSUME Shape, NEW c \in Clients, Begin(c) \/ Serve(c) \/ Fail(c)
    PROVE  Asked' = [Asked EXCEPT ![c] = IF pc'[c] = "idle" THEN Absent ELSE req'[c]]
<1>1. ASSUME NEW d \in Clients \ {c} PROVE Asked'[d] = Asked[d]
  BY <1>1, OthersKeepTheirs DEF Asked
<1> QED BY <1>1 DEF Asked

\* What Catalogue takes from SlugRules is what CatalogueWrites does.
LEMMA SameSlugRules ==
    /\ \A i : Abstract!BaseSlug(i) = BaseSlug(i)
    /\ \A b : Abstract!DerivedFrom(b) = DerivedFrom(b)
    /\ \A s, b : Abstract!SlugMatchesIdentity(s, b) <=> SlugMatchesIdentity(s, b)
<1>1. \A i : Abstract!BaseSlug(i) = BaseSlug(i)
  BY DEF Abstract!BaseSlug, BaseSlug
<1>2. \A b : Abstract!DerivedFrom(b) = DerivedFrom(b)
  BY DEF Abstract!DerivedFrom, DerivedFrom, Abstract!Candidate, Candidate
<1>3. \A s, b : Abstract!SlugMatchesIdentity(s, b) <=> SlugMatchesIdentity(s, b)
  BY DEF Abstract!SlugMatchesIdentity, SlugMatchesIdentity
<1> QED BY <1>1, <1>2, <1>3

LEMMA InitRefines == Init => Abstract!Init
<1> SUFFICES ASSUME Init PROVE Abstract!Init
  OBVIOUS
<1>1. Asked = [c \in Clients |-> Absent]
  BY DEF Init, Asked
<1>2. ASSUME NEW i \in BikeIds PROVE Whole(i) = SeedBike(i)
  <2>1. CASE i \in DOMAIN Seeded
    <3>1. Seeded[i] \in SeededBike
      <4>1. \A j \in DOMAIN Seeded : Seeded[j] \in SeededBike
        BY SeedAssumption, SMT
      <4> QED BY <2>1, <4>1
    <3>2. Seeded[i].motorcycle # Absent
      <4>1. Seeded[i].motorcycle \in MotorcycleRow
        BY <3>1, SMT DEF SeededBike
      <4> QED BY <4>1, ContentAssumption
    <3> QED BY <2>1, <3>2 DEF Init, Whole, SeedBike
  <2>2. CASE i \notin DOMAIN Seeded
    BY <2>2 DEF Init, Whole, SeedBike
  <2> QED BY <2>1, <2>2
<1>3. Bikes = [i \in BikeIds |-> SeedBike(i)]
  BY <1>2 DEF Bikes
<1> QED BY <1>1, <1>3 DEF Abstract!Init, Bikes, Asked

------------------------------------------------------------------------------
(* Each commit is the operation its request asked for *)

\* The answer of a request that commits, and what it asked.
LEMMA CommitAnswers ==
    ASSUME Shape, NEW c \in Clients, Commit(c)
    PROVE  /\ pc[c] # "idle" /\ Asked[c] = req[c] /\ Asked[c] # Absent
           /\ Asked' = [Asked EXCEPT ![c] = Absent]
           /\ req[c] \in Request
<1>1. pc[c] = "flush" /\ pc'[c] = "idle"
  BY DEF Commit, Finish, Shape, TypeOK
<1>2. req[c] \in Request
  BY ContentAssumption DEF Shape, TypeOK
<1>3. Asked' = [Asked EXCEPT ![c] = Absent]
  BY <1>1, AskedAfter DEF Serve
<1> QED BY <1>1, <1>2, <1>3, ContentAssumption DEF Asked

LEMMA SlugFree ==
    ASSUME Shape, NEW b \in BikeIds, NEW s,
           \A i \in Existing : motorcycles[i].slug # s
    PROVE  Abstract!Free(s)
<1> SUFFICES ASSUME NEW i \in BikeIds, Bikes[i] # Absent PROVE Bikes[i].slug # s
  BY DEF Abstract!Free, Bikes
<1>1. Whole(i) # Absent /\ Bikes[i] = Whole(i)
  BY DEF Bikes
<1>2. motorcycles[i] # Absent
  BY <1>1, WholeType
<1> QED BY <1>1, <1>2, WholeType DEF Existing

LEMMA CreateRefines ==
    ASSUME Atomic, NEW c \in Clients, Commit(c), req[c].op = "create"
    PROVE  Abstract!Create(c)
<1> DEFINE b == bike[c]
           row == [slug |-> slug[c], ident |-> req[c].ident, version |-> 0]
           whole == [slug |-> slug[c], ident |-> req[c].ident, version |-> 0,
                     engine |-> req[c].engine, dimension |-> req[c].dimension,
                     extras |-> req[c].extras]
<1>1. Requested /\ Shape
  BY DEF Atomic, Requested
<1>2. b \in BikeIds /\ req[c] \in Request /\ slug[c] \in Slug
  BY <1>1, CommitAnswers DEF Shape, TypeOK
<1>3. Written(c, "motorcycle")
  BY <1>1, BlocksOnly DEF Requested
<1>4. motorcycles[b] = Absent /\ slug[c] \in DerivedFrom(Base(c)) /\ writes[c].motorcycle = row
  BY <1>1, <1>3, RowCommitted
<1>5. writes[c] = [motorcycle |-> row, engine |-> req[c].engine,
                   dimension |-> DimensionOf(req[c], 0), extras |-> req[c].extras]
  BY <1>1, AtCommit DEF Requested, InsertProgress
<1>6. row \in MotorcycleRow
  BY <1>2, SMT DEF MotorcycleRow, Request
<1>7. row # Absent
  BY <1>6, ContentAssumption
<1>8. Abstract!Free(slug[c])
  <2>1. HasRow(c)
    BY <1>3, <1>4, <1>7 DEF HasRow, Written
  <2>2. row.slug = slug[c]
    OBVIOUS
  <2>3. \A i \in Existing : motorcycles[i].slug # slug[c]
    BY <1>1, <1>4, <2>1, <2>2 DEF Requested, Exclusive, PendingSlugsExclusive, Existing
  <2> QED BY <1>1, <1>2, <2>3, SlugFree
<1>9. Whole(b)' = whole
  <2>1. /\ motorcycles'[b] = row
        /\ engineSpecs'[b] = req[c].engine
        /\ dimensions'[b] = DimensionOf(req[c], 0)
        /\ additionalSpecs'[b] = req[c].extras
    <3>1. req[c].engine # Untouched /\ req[c].extras # Untouched
      <4>1. req[c].engine \in Engines /\ req[c].extras \in Extras
        BY <1>2, SMT DEF Request
      <4> QED BY <4>1, ContentAssumption
    <3>2. DimensionOf(req[c], 0) # Untouched
      <4>1. DimensionOf(req[c], 0) \in DimensionRow \cup {Absent}
        BY <1>2, SMT DEF DimensionOf, DimensionRow, Request
      <4> QED BY <4>1, ContentAssumption
    <3>3. /\ writes[c].engine = req[c].engine /\ writes[c].extras = req[c].extras
          /\ writes[c].dimension = DimensionOf(req[c], 0)
      BY <1>5
    <3> QED BY <1>1, <1>2, <1>3, <1>4, <3>1, <3>2, <3>3, Committed DEF Written
  <2>2. Figures(DimensionOf(req[c], 0)) = req[c].dimension
    BY <1>2, FiguresOfBlock, SMT
  <2>3. row.slug = slug[c] /\ row.ident = req[c].ident /\ row.version = 0
    OBVIOUS
  <2> HIDE DEF row
  <2> QED BY <1>7, <2>1, <2>2, <2>3 DEF Whole, Commit, Finish
<1>10. Bikes' = [Bikes EXCEPT ![b] = whole]
  <2>1. \A i \in BikeIds : i = bike[c] => Bikes' = [Bikes EXCEPT ![i] = Whole(i)']
    BY <1>1, OneBikeCommitted
  <2>2. \A i \in BikeIds : i = b => Whole(i)' = whole
    BY <1>9 DEF Commit, Finish
  <2> HIDE DEF whole
  <2> QED BY <1>2, <2>1, <2>2
<1>11. Bikes[b] = Absent
  BY <1>1, <1>2, <1>4, WholeType DEF Bikes
<1>12. /\ Asked[c] = req[c] /\ Asked[c] # Absent
       /\ Asked' = [Asked EXCEPT ![c] = Absent]
  BY <1>1, CommitAnswers
<1>13. slug[c] \in Abstract!DerivedFrom(Abstract!BaseSlug(req[c].ident))
  BY <1>4, SameSlugRules DEF Base
<1> HIDE DEF b
<1> QED BY <1>2, <1>8, <1>10, <1>11, <1>12, <1>13
      DEF Abstract!Create, Abstract!Asks, Abstract!Answer, Bikes, Asked

LEMMA RemoveRefines ==
    ASSUME Atomic, NEW c \in Clients, Commit(c), req[c].op = "delete"
    PROVE  Abstract!Remove(c)
<1> DEFINE b == req[c].bike
<1>1. Requested /\ Shape
  BY DEF Atomic, Requested
<1>2. /\ Asked[c] = req[c] /\ Asked[c] # Absent /\ pc[c] # "idle"
      /\ Asked' = [Asked EXCEPT ![c] = Absent]
  BY <1>1, CommitAnswers
<1>3. b = bike[c] /\ b \in BikeIds
  BY <1>1, <1>2 DEF Atomic, BikeAsked, Shape, TypeOK
<1>4. Written(c, "motorcycle")
  BY <1>1, BlocksOnly DEF Requested
<1>5. motorcycles'[b] = Absent /\ motorcycles[b] # Absent
  BY <1>1, <1>3, <1>4, RowCommitted DEF Current
<1>6. Bikes[b] # Absent
  BY <1>1, <1>3, <1>5, WholeType DEF Bikes
<1>7. Whole(b)' = Absent
  BY <1>5 DEF Whole, Commit, Finish
<1>8. Bikes' = [Bikes EXCEPT ![b] = Absent]
  <2>1. \A i \in BikeIds : i = bike[c] => Bikes' = [Bikes EXCEPT ![i] = Whole(i)']
    BY <1>1, OneBikeCommitted
  <2>2. \A i \in BikeIds : i = b => Whole(i)' = Absent
    BY <1>7 DEF Commit, Finish
  <2> QED BY <1>3, <2>1, <2>2
<1> QED BY <1>2, <1>6, <1>8 DEF Abstract!Remove, Abstract!Asks, Abstract!Answer, Bikes, Asked

\* What a PUT leaves of the blocks of its bike: what it found there, or its own.
LEMMA BlocksCommitted ==
    ASSUME Atomic, NEW c \in Clients, Commit(c), req[c].op = "update", NEW b \in BikeIds, b = bike[c]
    PROVE  /\ engineSpecs'[b] \in {engineSpecs[b], req[c].engine}
           /\ Figures(dimensions'[b]) \in {Figures(dimensions[b]), req[c].dimension}
           /\ dimensions'[b] \in DimensionRow \cup {Absent}
<1>1. Requested /\ Shape
  BY DEF Atomic, Requested
<1>2. Loaded(c) /\ EditedEngine(c) /\ EditedDimension(c)
  BY <1>1, AtCommit DEF Requested, EditProgress
<1>3. engineSpecs'[b] \in {engineSpecs[b], req[c].engine}
  BY <1>1, <1>2, Committed DEF EditedEngine
<1>4. Figures(DimensionOf(req[c], RowFor(snap[c]))) = req[c].dimension
  <2>1. req[c] \in Request /\ snap[c] \in SnapType /\ snap[c].motorcycle # Absent
    BY <1>1, <1>2, ContentAssumption DEF Shape, TypeOK, PhasesConsistent, Loaded
  <2>2. snap[c].motorcycle \in MotorcycleRow /\ snap[c].dimension \in DimensionRow \cup {Absent}
    BY <2>1, SMT DEF SnapType
  <2>3. RowFor(snap[c]) \in Nat
    BY <2>2, SMT DEF RowFor, MotorcycleRow, DimensionRow
  <2> QED BY <2>1, <2>3, FiguresOfBlock
<1>5. Figures(dimensions'[b]) \in {Figures(dimensions[b]), req[c].dimension}
  BY <1>1, <1>2, <1>4, Committed DEF EditedDimension
<1>6. dimensions'[b] \in DimensionRow \cup {Absent}
  BY <1>1, StepShape DEF Shape, TypeOK, Next, Serve
<1> QED BY <1>3, <1>5, <1>6

\* What Replace of Catalogue makes of bike b for a request r.
Replaced(r, b, s, e, m, bumps) ==
    /\ (m = Absent) = (r.dimension = Absent)
    /\ IF Abstract!SlugMatchesIdentity(Bikes[b].slug, Abstract!BaseSlug(r.ident))
       THEN s = Bikes[b].slug ELSE Abstract!Free(s)
    /\ Bikes' = [Bikes EXCEPT ![b] =
                     [slug |-> s, ident |-> r.ident, version |-> Bikes[b].version + bumps,
                      engine |-> e, dimension |-> m, extras |-> r.extras]]

LEMMA ReplaceRefines ==
    ASSUME Atomic, NEW c \in Clients, Commit(c), req[c].op = "update", Written(c, "motorcycle")
    PROVE  Abstract!Replace(c)
<1> DEFINE b == req[c].bike
           s == slug[c]
           e == engineSpecs'[b]
           m == Figures(dimensions'[b])
           bumps == writes[c].motorcycle.version - snap[c].motorcycle.version
           whole == [slug |-> s, ident |-> req[c].ident, version |-> Bikes[b].version + bumps,
                     engine |-> e, dimension |-> m, extras |-> req[c].extras]
<1>1. Requested /\ Shape /\ [Next]_vars
  BY DEF Atomic, Requested, Next, Serve
<1>2. /\ Asked[c] = req[c] /\ Asked[c] # Absent /\ pc[c] # "idle"
      /\ Asked' = [Asked EXCEPT ![c] = Absent]
  BY <1>1, CommitAnswers
<1>3. b = bike[c] /\ b \in BikeIds
  BY <1>1, <1>2 DEF Atomic, BikeAsked, Shape, TypeOK
<1>4. /\ motorcycles[b] = snap[c].motorcycle /\ motorcycles[b] # Absent
      /\ motorcycles'[b] = writes[c].motorcycle /\ writes[c].motorcycle # Absent
      /\ writes[c].motorcycle.slug = s
      /\ writes[c].motorcycle.ident = req[c].ident
      /\ KeepsSlug(c)
      /\ Moved(c) => /\ ~SlugMatchesIdentity(snap[c].motorcycle.slug, Base(c))
                     /\ s \in DerivedFrom(Base(c))
  BY <1>1, <1>3, RowCommitted
<1>5. /\ dimensions'[b] = Absent <=> req[c].dimension = Absent
      /\ additionalSpecs'[b] = req[c].extras
  BY <1>1, <1>3, EditCommitted
<1>6. /\ Bikes[b] # Absent /\ Bikes[b].slug = motorcycles[b].slug
      /\ Bikes[b].version = motorcycles[b].version
      /\ Bikes[b].engine = engineSpecs[b] /\ Bikes[b].dimension = Figures(dimensions[b])
  BY <1>1, <1>3, <1>4, WholeType DEF Bikes
<1>7. e \in {Bikes[b].engine, req[c].engine} /\ m \in {Bikes[b].dimension, req[c].dimension}
  BY <1>1, <1>3, <1>6, BlocksCommitted
<1>8. m = Absent <=> req[c].dimension = Absent
  BY <1>3, <1>5, BlocksCommitted, FiguresThere
<1>9. /\ bumps \in {1, 2}
      /\ Bikes[b].version + bumps = writes[c].motorcycle.version
  <2>1. writes[c].motorcycle.version \in
            {snap[c].motorcycle.version + 1, snap[c].motorcycle.version + 2}
    BY <1>1, AtCommit DEF Requested, EditProgress, EditedMotorcycle
  <2>2. snap[c].motorcycle.version \in Nat
    <3>1. motorcycles[b] \in MotorcycleRow
      BY <1>1, <1>3, <1>4 DEF Shape, TypeOK
    <3> QED BY <1>4, <3>1, SMT DEF MotorcycleRow
  <2>3. Bikes[b].version = snap[c].motorcycle.version
    BY <1>4, <1>6
  <2> QED BY <2>1, <2>2, <2>3, SMT
<1>10. IF SlugMatchesIdentity(Bikes[b].slug, Base(c)) THEN s = Bikes[b].slug ELSE Abstract!Free(s)
  <2>1. CASE ~Moved(c)
    BY <1>4, <1>6, <2>1 DEF Moved, KeepsSlug
  <2>2. CASE Moved(c)
    <3>1. ~SlugMatchesIdentity(Bikes[b].slug, Base(c)) /\ Bikes[b].slug # s
      BY <1>4, <1>6, <2>2 DEF Moved
    <3>2. HasRow(c)
      BY <1>4 DEF HasRow, Written
    <3>3. \A i \in Existing : motorcycles[i].slug # s
      BY <1>1, <1>3, <1>4, <1>6, <3>1, <3>2 DEF Requested, Exclusive, PendingSlugsExclusive
    <3>4. Abstract!Free(s)
      BY <1>1, <1>3, <3>3, SlugFree
    <3> QED BY <3>1, <3>4
  <2> QED BY <2>1, <2>2
<1>11. s \in {Bikes[b].slug} \cup DerivedFrom(Base(c))
  BY <1>4, <1>6 DEF Moved
<1>12. Bikes' = [Bikes EXCEPT ![b] = whole]
  <2>1. \A i \in BikeIds : i = bike[c] => Bikes' = [Bikes EXCEPT ![i] = Whole(i)']
    BY <1>1, OneBikeCommitted
  <2> HIDE DEF bumps
  <2>2. \A i \in BikeIds : i = b => Whole(i)' = whole
    BY <1>4, <1>5, <1>9 DEF Whole
  <2> HIDE DEF whole
  <2> QED BY <1>3, <2>1, <2>2
<1>13. /\ Abstract!BaseSlug(req[c].ident) = Base(c)
       /\ Abstract!DerivedFrom(Base(c)) = DerivedFrom(Base(c))
       /\ Abstract!SlugMatchesIdentity(Bikes[b].slug, Base(c)) <=> SlugMatchesIdentity(Bikes[b].slug, Base(c))
  BY SameSlugRules DEF Base
<1>14. (m = Absent) = (req[c].dimension = Absent)
  BY <1>8
<1> HIDE DEF b, s, e, m, bumps
<1>15. /\ Abstract!Asks(c, "update") /\ Abstract!Answer(c)
  BY <1>2 DEF Abstract!Asks, Abstract!Answer, Asked
<1>16. Replaced(req[c], b, s, e, m, bumps)
  <2>1. IF Abstract!SlugMatchesIdentity(Bikes[b].slug, Abstract!BaseSlug(req[c].ident))
        THEN s = Bikes[b].slug ELSE Abstract!Free(s)
    BY <1>10, <1>13
  <2>2. Bikes' = [Bikes EXCEPT ![b] =
                      [slug |-> s, ident |-> req[c].ident, version |-> Bikes[b].version + bumps,
                       engine |-> e, dimension |-> m, extras |-> req[c].extras]]
    BY <1>12
  <2> HIDE DEF whole
  <2> QED BY <1>14, <2>1, <2>2 DEF Replaced
<1> HIDE DEF whole
<1>17. \E s1 \in {Bikes[b].slug} \cup Abstract!DerivedFrom(Abstract!BaseSlug(req[c].ident)),
          e1 \in {Bikes[b].engine, req[c].engine}, m1 \in {Bikes[b].dimension, req[c].dimension},
          bumps1 \in {1, 2} : Replaced(req[c], b, s1, e1, m1, bumps1)
  BY <1>7, <1>9, <1>11, <1>13, <1>16
<1>18. /\ Asked[c] = req[c] /\ Asked[c].bike = b
  BY <1>2 DEF b
<1>19. \E s1 \in {Bikes[Asked[c].bike].slug} \cup Abstract!DerivedFrom(Abstract!BaseSlug(Asked[c].ident)),
          e1 \in {Bikes[Asked[c].bike].engine, Asked[c].engine},
          m1 \in {Bikes[Asked[c].bike].dimension, Asked[c].dimension},
          bumps1 \in {1, 2} : Replaced(Asked[c], Asked[c].bike, s1, e1, m1, bumps1)
  BY <1>17, <1>18
<1>20. Bikes[Asked[c].bike] # Absent
  BY <1>6, <1>18
<1> QED BY <1>15, <1>19, <1>20, Zenon DEF Abstract!Replace, Replaced, Bikes, Asked

WithEngine(b, e) == [b EXCEPT !.engine = e]
WithDimension(b, m) == [b EXCEPT !.dimension = m]

\* What ReplaceBlocks of Catalogue makes of bike b.
BlocksReplaced(b, e, m) ==
    /\ (m = Absent) = (Bikes[b].dimension = Absent)
    /\ Bikes' = [Bikes EXCEPT ![b].engine = e, ![b].dimension = m]

\* A PUT that has not written the motorcycle row finds its bike gone, and then it has
\* written nothing; or it replaces blocks that are there.
LEMMA BlocksRefine ==
    ASSUME Atomic, NEW c \in Clients, Commit(c), req[c].op = "update", ~Written(c, "motorcycle")
    PROVE  Abstract!Decline(c) \/ Abstract!ReplaceBlocks(c)
<1> DEFINE b == req[c].bike
           e == engineSpecs'[b]
           m == Figures(dimensions'[b])
<1>1. Requested /\ Shape /\ NoOrphanRows
  BY DEF Atomic, Requested
<1>2. /\ Asked[c] = req[c] /\ Asked[c] # Absent /\ pc[c] # "idle"
      /\ Asked' = [Asked EXCEPT ![c] = Absent]
  BY <1>1, CommitAnswers
<1>3. b = bike[c] /\ b \in BikeIds
  BY <1>1, <1>2 DEF Atomic, BikeAsked, Shape, TypeOK
<1>4. /\ ~Written(c, "extras")
      /\ Written(c, "engine") => engineSpecs[b] # Absent
      /\ Written(c, "dimension") => /\ SameDimension(dimensions[b], writes[c].dimension)
                                    /\ writes[c].dimension.figures = req[c].dimension
  BY <1>1, <1>3, BlocksOnly DEF Requested
<1>5. CASE motorcycles[b] = Absent
  <2>1. engineSpecs[b] = Absent /\ dimensions[b] = Absent
    BY <1>1, <1>3, <1>5 DEF NoOrphanRows, Existing
  <2>2. ~Written(c, "engine") /\ ~Written(c, "dimension")
    BY <1>4, <2>1 DEF SameDimension
  <2>3. \A i \in BikeIds :
            /\ motorcycles'[i] = motorcycles[i] /\ engineSpecs'[i] = engineSpecs[i]
            /\ dimensions'[i] = dimensions[i] /\ additionalSpecs'[i] = additionalSpecs[i]
    BY <1>1, <1>4, <2>2, Committed
  <2>4. Bikes' = Bikes
    BY <2>3 DEF Bikes, Whole
  <2>5. Abstract!Decline(c)
    BY <1>2, <2>4 DEF Abstract!Decline, Abstract!Answer, Bikes, Asked
  <2> QED BY <2>5
<1>6. CASE motorcycles[b] # Absent
  <2>1. /\ motorcycles'[b] = motorcycles[b] /\ additionalSpecs'[b] = additionalSpecs[b]
    BY <1>1, <1>3, <1>4, Committed
  <2>2. /\ e \in {engineSpecs[b], req[c].engine}
        /\ m \in {Figures(dimensions[b]), req[c].dimension}
    BY <1>3, BlocksCommitted
  <2>3. /\ Bikes[b] # Absent /\ Bikes[b] = Whole(b)
        /\ Bikes[b].engine = engineSpecs[b]
        /\ Bikes[b].dimension = Figures(dimensions[b])
    BY <1>1, <1>3, <1>6, WholeType DEF Bikes
  <2>4. m = Absent <=> Bikes[b].dimension = Absent
    <3>1. dimensions'[b] = Absent <=> dimensions[b] = Absent
      <4>1. CASE Written(c, "dimension")
        BY <1>1, <1>3, <1>4, <4>1, Committed DEF SameDimension
      <4>2. CASE ~Written(c, "dimension")
        BY <1>1, <1>3, <4>2, Committed
      <4> QED BY <4>1, <4>2
    <3>2. dimensions[b] \in DimensionRow \cup {Absent} /\ dimensions'[b] \in DimensionRow \cup {Absent}
      BY <1>1, <1>3, BlocksCommitted DEF Shape, TypeOK
    <3> QED BY <2>3, <3>1, <3>2, FiguresThere
  <2>5. [Bikes EXCEPT ![b] = Whole(b)'] = [Bikes EXCEPT ![b].engine = e, ![b].dimension = m]
    <3> DEFINE row == motorcycles[b]
               whole(x, y) == [slug |-> row.slug, ident |-> row.ident, version |-> row.version,
                               engine |-> x, dimension |-> y, extras |-> additionalSpecs[b]]
    <3>1. Whole(b)' = whole(e, m) /\ Whole(b) = whole(engineSpecs[b], Figures(dimensions[b]))
      BY <1>3, <1>6, <2>1 DEF Whole, Commit, Finish
    <3> HIDE DEF e, m
    <3>2. \A x, y, z : WithEngine(whole(x, y), z) = whole(z, y)
      BY DEF WithEngine
    <3>3. \A x, y, z : WithDimension(whole(x, y), z) = whole(x, z)
      BY DEF WithDimension
    <3> HIDE DEF row, whole
    <3>4. WithDimension(WithEngine(Bikes[b], e), m) = whole(e, m)
      BY <2>3, <3>1, <3>2, <3>3
    <3>5. [Bikes EXCEPT ![b].engine = e, ![b].dimension = m]
              = [Bikes EXCEPT ![b] = WithDimension(WithEngine(Bikes[b], e), m)]
      BY <1>3 DEF Bikes, WithEngine, WithDimension
    <3> QED BY <3>1, <3>4, <3>5
  <2>6. Bikes' = [Bikes EXCEPT ![b].engine = e, ![b].dimension = m]
    <3>1. \A i \in BikeIds : i = bike[c] => Bikes' = [Bikes EXCEPT ![i] = Whole(i)']
      BY <1>1, OneBikeCommitted
    <3>2. \A i \in BikeIds : i = b => Whole(i)' = Whole(b)'
      BY DEF Whole, Commit, Finish
    <3> HIDE DEF e, m
    <3> QED BY <1>3, <2>5, <3>1, <3>2
  <2>7. BlocksReplaced(b, e, m)
    <3>1. (m = Absent) = (Bikes[b].dimension = Absent)
      BY <2>4
    <3> HIDE DEF b, e, m
    <3> QED BY <2>6, <3>1 DEF BlocksReplaced
  <2>8. Abstract!Asks(c, "update") /\ Abstract!Answer(c)
    BY <1>2 DEF Abstract!Asks, Abstract!Answer, Asked
  <2>9. Asked[c] = req[c] /\ Asked[c].bike = b
    BY <1>2
  <2> HIDE DEF b, e, m
  <2>10. \E e1 \in {Bikes[Asked[c].bike].engine, Asked[c].engine},
            m1 \in {Bikes[Asked[c].bike].dimension, Asked[c].dimension} :
             BlocksReplaced(Asked[c].bike, e1, m1)
    BY <2>2, <2>3, <2>7, <2>9
  <2>11. Bikes[Asked[c].bike] # Absent
    BY <2>3, <2>9
  <2>12. Abstract!ReplaceBlocks(c)
    BY <2>8, <2>10, <2>11, Zenon DEF Abstract!ReplaceBlocks, BlocksReplaced, Bikes, Asked
  <2> QED BY <2>12
<1> QED BY <1>5, <1>6

------------------------------------------------------------------------------

LEMMA CommitRefines ==
    ASSUME Atomic, NEW c \in Clients, Commit(c)
    PROVE  Abstract!Next
<1>1. req[c].op \in {"create", "update", "delete"}
  BY AtCommit DEF Atomic, Requested
<1> QED BY <1>1, CreateRefines, RemoveRefines, ReplaceRefines, BlocksRefine DEF Abstract!Next

\* A step that commits nothing shows only as the arrival or the refusal of a request.
LEMMA OthersRefine ==
    ASSUME Atomic, [Next]_vars, \A c \in Clients : ~Commit(c)
    PROVE  Abstract!Next \/ UNCHANGED <<Bikes, Asked>>
<1>1. Shape
  BY DEF Atomic, Requested
<1>2. Bikes' = Bikes
  BY OnlyCommitsShow, BikesStay
<1>3. CASE UNCHANGED vars
  BY <1>2, <1>3 DEF vars, envelope, Asked
<1>4. ASSUME NEW c \in Clients, Begin(c)
      PROVE  Abstract!Ask(c)
  <2>1. pc[c] = "idle" /\ Asked[c] = Absent
    BY <1>4 DEF Begin, Asked
  <2>2. req'[c] \in Requests /\ pc'[c] # "idle"
    BY <1>1, <1>4 DEF Begin, Shape, TypeOK
  <2>3. Asked' = [Asked EXCEPT ![c] = req'[c]]
    BY <1>1, <1>4, <2>2, AskedAfter
  <2> QED BY <1>2, <2>1, <2>2, <2>3 DEF Abstract!Ask, Bikes, Asked
<1>5. ASSUME NEW c \in Clients, Serve(c) \/ Fail(c), ~Begin(c)
      PROVE  Abstract!Decline(c) \/ UNCHANGED Asked
  <2>1. CASE pc[c] # "idle" /\ pc'[c] = "idle"
    <3>1. Asked[c] # Absent
      <4>1. req[c] \in Request
        BY <1>1, ContentAssumption DEF Shape, TypeOK
      <4> QED BY <2>1, <4>1, ContentAssumption DEF Asked
    <3>2. Asked' = [Asked EXCEPT ![c] = Absent]
      BY <1>1, <1>5, <2>1, AskedAfter
    <3>3. Abstract!Decline(c)
      BY <1>2, <3>1, <3>2 DEF Abstract!Decline, Abstract!Answer, Bikes, Asked
    <3> QED BY <3>3
  <2>2. CASE pc'[c] # "idle"
    <3>1. pc[c] # "idle" /\ req'[c] = req[c]
      BY <1>1, <1>5, <2>2, RequestStays
    <3>2. Asked' = [Asked EXCEPT ![c] = Asked[c]]
      BY <1>1, <1>5, <2>2, <3>1, AskedAfter DEF Asked
    <3> QED BY <3>2 DEF Asked
  <2>3. CASE pc[c] = "idle" /\ pc'[c] = "idle"
    <3>1. Asked' = [Asked EXCEPT ![c] = Asked[c]]
      BY <1>1, <1>5, <2>3, AskedAfter DEF Asked
    <3> QED BY <3>1 DEF Asked
  <2> QED BY <2>1, <2>2, <2>3
<1> QED BY <1>2, <1>3, <1>4, <1>5 DEF Next, Quiet, Abstract!Next

\* Every request, whatever it races, does to the catalogue all that it asks in the one step
\* of its commit, or nothing (RequestsAreAtomic of CatalogueWrites): a POST adds a whole
\* bike under a free slug, a DELETE takes a whole bike away, a PUT replaces the row and the
\* collections together and each block by its own or not at all, and a refusal, a failure
\* or an aborted deadlock leaves no trace.
THEOREM RequestsRefine == Spec => RequestsAreAtomic
<1>1. Init => Abstract!Init
  BY InitRefines
<1>2. Atomic /\ [Next]_vars => [Abstract!Next]_<<Bikes, Asked>>
  BY CommitRefines, OthersRefine
<1>3. Spec => [][Abstract!Next]_<<Bikes, Asked>>
  BY <1>2, AtomicHolds, PTL DEF Spec
<1> QED BY <1>1, <1>3, PTL DEF Spec, RequestsAreAtomic, Abstract!Spec, Bikes, Asked

================================================================================
