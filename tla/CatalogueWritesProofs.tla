------------------------ MODULE CatalogueWritesProofs ------------------------
(***************************************************************************)
(* Proofs about CatalogueWrites, for every number of clients, bikes and    *)
(* requests: the types and the shape of a request (TypeCorrect), then the  *)
(* uniqueness of slugs (SlugsAlwaysUnique).                                *)
(***************************************************************************)
EXTENDS CatalogueWrites, SequenceTheorems, TLAPS

Shape == TypeOK /\ PhasesConsistent

------------------------------------------------------------------------------
(* What the operators of the model return *)

LEMMA BaseSlugType == \A i \in Identity : BaseSlug(i) \in Slug
BY SMT DEF BaseSlug, Identity, Slug, Token

LEMMA CandidateType == \A b \in Slug, n \in Nat : Candidate(b, n) \in Slug
BY SMT DEF Candidate, Slug, Token

LEMMA IfType ==
    ASSUME NEW cond, NEW p \in Parts
    PROVE  If(cond, p) \in Seq(Parts)
<1>1. <<p>> \in Seq(Parts) /\ <<>> \in Seq(Parts)
  BY SMT
<1>2. If(cond, p) = <<p>> \/ If(cond, p) = <<>>
  BY Zenon DEF If
<1> QED BY <1>1, <1>2

LEMMA UpdateStatementsType ==
    ASSUME NEW r, NEW s, NEW moved
    PROVE  UpdateStatements(r, s, moved) \in Seq(Parts)
<1>1. "engine" \in Parts /\ "motorcycle" \in Parts /\ "extras" \in Parts /\ "dimension" \in Parts
  BY DEF Parts
<1>2. /\ If(EngineDirty(r, s), "engine") \in Seq(Parts)
      /\ If(DimensionDirty(r, s), "dimension") \in Seq(Parts)
      /\ If(DropsDimension(r, s), "dimension") \in Seq(Parts)
  BY <1>1, IfType
<1>3. If(RootDirty(r, s) \/ moved, "motorcycle") \in Seq(Parts)
  BY <1>1, IfType
<1>4. If(ExtrasDirty(r, s), "extras") \in Seq(Parts)
  BY <1>1, IfType
<1> QED BY <1>2, <1>3, <1>4, SMT DEF UpdateStatements

LEMMA DeleteStatementsType == ASSUME NEW s PROVE DeleteStatements(s) \in Seq(Parts)
<1>1. "engine" \in Parts /\ "dimension" \in Parts
  BY DEF Parts
<1>2. /\ If(s.engine # Absent, "engine") \in Seq(Parts)
      /\ If(s.dimension # Absent, "dimension") \in Seq(Parts)
  BY <1>1, IfType
<1>3. <<"extras", "motorcycle">> \in Seq(Parts)
  BY SMT DEF Parts
<1> QED BY <1>2, <1>3, SMT DEF DeleteStatements

LEMMA DimensionOfType ==
    ASSUME NEW r \in Request, NEW n \in Nat
    PROVE  DimensionOf(r, n) \in DimensionRow \cup {Absent}
BY SMT DEF DimensionOf, DimensionRow, Request

\* A transaction that may write the motorcycle waits for no other writer of the row, nor,
\* when it writes a slug, for any other writer of that slug.
LEMMA MotorcycleLocks ==
    ASSUME NEW c, InFlush(c, "motorcycle"), WaitsFor(c) = {}
    PROVE  /\ RowHolders(c, "motorcycle") = {}
           /\ req[c].op = "update" => KeyHolders(c, slug[c]) = {}
<1>1. /\ pc[c] # "insert" /\ ~InFlush(c, "engine")
      /\ ~InFlush(c, "dimension") /\ ~InFlush(c, "extras")
  BY DEF InFlush
<1>2. WaitsFor(c) = RowHolders(c, "motorcycle")
                      \cup IF req[c].op = "update" THEN KeyHolders(c, slug[c]) ELSE {}
  BY <1>1 DEF WaitsFor
<1> QED BY <1>2

LEMMA InsertLocks ==
    ASSUME NEW c, pc[c] = "insert", WaitsFor(c) = {}
    PROVE  KeyHolders(c, slug[c]) = {}
<1>1. /\ ~InFlush(c, "motorcycle") /\ ~InFlush(c, "engine")
      /\ ~InFlush(c, "dimension") /\ ~InFlush(c, "extras")
  BY DEF InFlush
<1> QED BY <1>1 DEF WaitsFor

------------------------------------------------------------------------------
(* Types and shape *)

LEMMA InitShape == Init => Shape
<1> SUFFICES ASSUME Init PROVE Shape
  OBVIOUS
<1> USE BoundAssumption, ContentAssumption, SuffixAssumption
<1>1. Len(Seeded) \in Nat /\ Len(Seeded) <= MaxId /\ DOMAIN Seeded = 1..Len(Seeded)
  BY SeedAssumption, SMT
<1>2. \A i \in DOMAIN Seeded : Seeded[i] \in SeededBike
  BY SeedAssumption, SMT
<1>3. /\ motorcycles \in [BikeIds -> MotorcycleRow \cup {Absent}]
      /\ engineSpecs \in [BikeIds -> Engines \cup {Absent}]
      /\ dimensions \in [BikeIds -> DimensionRow \cup {Absent}]
      /\ additionalSpecs \in [BikeIds -> Extras]
  BY <1>2, SMT DEF Init, SeededBike
<1>4. nextId \in 1..MaxId + 1
  BY <1>1, SMT DEF Init
<1>5. (CHOOSE r \in Requests : TRUE) \in Requests
  BY Zenon
<1>6. req \in [Clients -> Requests]
  BY <1>5, Zenon DEF Init
<1>7. 1 \in BikeIds /\ 1 \in 1..MaxSuffix - 1 /\ 0 \in Nat /\ 0 \in 0..MaxRequests
  BY SMT DEF BikeIds
<1>8. <<>> \in Slug /\ <<>> \in Seq(Parts)
  BY SMT DEF Slug
<1>9. NoSnap \in SnapType /\ NoWrites \in WritesType
  BY SMT DEF NoSnap, NoWrites, SnapType, WritesType
<1>10. TypeOK
  BY <1>3, <1>4, <1>6, <1>7, <1>8, <1>9, SMT DEF Init, TypeOK
<1>11. PhasesConsistent
  BY SMT DEF Init, PhasesConsistent, NoWrites
<1> QED BY <1>10, <1>11 DEF Shape

\* A request that ends leaves its locals as they were before the first one.
LEMMA FinishShape ==
    ASSUME Shape, NEW c \in Clients, NEW status \in {"200", "201", "204", "404", "409", "500"},
           Finish(c, status),
           motorcycles' \in [BikeIds -> MotorcycleRow \cup {Absent}],
           engineSpecs' \in [BikeIds -> Engines \cup {Absent}],
           dimensions' \in [BikeIds -> DimensionRow \cup {Absent}],
           additionalSpecs' \in [BikeIds -> Extras],
           nextId' \in 1..MaxId + 1,
           rivals' \in [Clients -> Nat]
    PROVE  Shape'
<1> USE BoundAssumption, ContentAssumption, SuffixAssumption
<1>1. 1 \in 1..MaxSuffix - 1 /\ <<>> \in Slug /\ <<>> \in Seq(Parts)
  BY SMT DEF Slug
<1>2. NoSnap \in SnapType /\ NoWrites \in WritesType
  BY SMT DEF NoSnap, NoWrites, SnapType, WritesType
<1>3. TypeOK'
  <2>1. /\ req' \in [Clients -> Requests] /\ issued' \in 0..MaxRequests
        /\ bike' \in [Clients -> BikeIds]
    BY SMT DEF Shape, TypeOK, Finish
  <2>2. /\ reply' \in [Clients -> {"none", "200", "201", "204", "404", "409", "500"}]
        /\ pc' \in [Clients -> {"idle", "load", "apply", "autoflush", "probe", "insert", "flush"}]
        /\ attempt' \in [Clients -> {1, 2}]
    BY SMT DEF Shape, TypeOK, Finish
  <2>3. suffix' \in [Clients -> 1..MaxSuffix - 1] /\ slug' \in [Clients -> Slug]
    BY <1>1, SMT DEF Shape, TypeOK, Finish
  <2>4. snap' \in [Clients -> SnapType] /\ writes' \in [Clients -> WritesType]
    BY <1>2, SMT DEF Shape, TypeOK, Finish
  <2>5. todo' \in [Clients -> Seq(Parts)]
    BY <1>1, SMT DEF Shape, TypeOK, Finish
  <2> QED BY <2>1, <2>2, <2>3, <2>4, <2>5 DEF TypeOK
<1>4. PhasesConsistent'
  BY SMT DEF Shape, TypeOK, Finish, PhasesConsistent, NoWrites
<1> QED BY <1>3, <1>4 DEF Shape

LEMMA RefuseShape ==
    ASSUME Shape, NEW c \in Clients, NEW status \in {"200", "201", "204", "404", "409", "500"},
           Refuse(c, status)
    PROVE  Shape'
<1>1. /\ motorcycles' \in [BikeIds -> MotorcycleRow \cup {Absent}]
      /\ engineSpecs' \in [BikeIds -> Engines \cup {Absent}]
      /\ dimensions' \in [BikeIds -> DimensionRow \cup {Absent}]
      /\ additionalSpecs' \in [BikeIds -> Extras]
      /\ nextId' \in 1..MaxId + 1
      /\ rivals' \in [Clients -> Nat]
  BY SMT DEF Refuse, Shape, TypeOK, tables
<1>2. Finish(c, status)
  BY DEF Refuse
<1> QED BY <1>1, <1>2, FinishShape

\* A statement of an edit or a removal that writes a well-typed value.
LEMMA WroteShape ==
    ASSUME Shape, NEW c \in Clients, NEW part \in Parts, NEW value,
           InFlush(c, part), req[c].op # "create",
           [writes[c] EXCEPT ![part] = value] \in WritesType,
           part = "motorcycle" /\ req[c].op = "update" => value # Absent,
           Wrote(c, part, value)
    PROVE  Shape'
<1> USE DEF Shape, TypeOK
<1>1. todo[c] \in Seq(Parts) /\ todo[c] # <<>> /\ Tail(todo[c]) \in Seq(Parts)
  BY SMT DEF InFlush
<1>2. todo' \in [Clients -> Seq(Parts)]
  BY <1>1, SMT DEF Wrote
<1>3. writes' = [writes EXCEPT ![c] = [writes[c] EXCEPT ![part] = value]]
  BY SMT DEF Wrote
<1>4. writes' \in [Clients -> WritesType]
  BY <1>3, SMT
<1>5. pc' \in [Clients -> {"idle", "load", "apply", "autoflush", "probe", "insert", "flush"}]
  BY SMT DEF Wrote
<1>6. TypeOK'
  BY <1>2, <1>4, <1>5, SMT DEF Wrote, tables, envelope, locals
<1>7. pc[c] \in {"autoflush", "flush"}
  BY DEF InFlush
<1>8. pc'[c] = "probe" => todo'[c] = <<>>
  <2>1. pc'[c] = "probe" => Len(todo[c]) = 1
    BY <1>7, SMT DEF Wrote
  <2>2. Len(todo[c]) = 1 => Tail(todo[c]) = <<>>
    <3>1. Len(todo[c]) = 1 => Len(Tail(todo[c])) = 0
      BY <1>1, SMT
    <3> QED BY <1>1, <3>1, EmptySeq, Zenon
  <2>3. todo'[c] = Tail(todo[c])
    BY SMT DEF Wrote
  <2> QED BY <2>1, <2>2, <2>3
<1>9. pc'[c] \in {"autoflush", "flush", "probe"} /\ (pc'[c] = "autoflush" => pc[c] = "autoflush")
  BY <1>7, SMT DEF Wrote
<1>10. req[c].op = "update" => writes'[c].motorcycle # Absent
  <2>1. writes[c] \in WritesType
    OBVIOUS
  <2>2. writes'[c] = [writes[c] EXCEPT ![part] = value]
    BY <1>3, SMT
  <2>3. CASE part = "motorcycle"
    BY <2>1, <2>2, <2>3, SMT DEF WritesType
  <2>4. CASE part # "motorcycle"
    <3>1. writes'[c].motorcycle = writes[c].motorcycle
      BY <2>1, <2>2, <2>4, SMT DEF WritesType
    <3> QED BY <3>1 DEF PhasesConsistent
  <2> QED BY <2>3, <2>4
<1>11. PhasesConsistent'
  <2> SUFFICES ASSUME NEW d \in Clients PROVE PhasesConsistent!(d)'
    BY DEF PhasesConsistent
  <2>1. UNCHANGED <<req, snap>>
    BY DEF Wrote, envelope, locals
  <2>2. CASE d = c
    BY <2>1, <2>2, <1>7, <1>8, <1>9, <1>10, SMT DEF PhasesConsistent
  <2>3. CASE d # c
    <3>1. pc'[d] = pc[d] /\ todo'[d] = todo[d] /\ writes'[d] = writes[d]
      BY <2>3, SMT DEF Wrote
    <3> QED BY <2>1, <3>1 DEF PhasesConsistent
  <2> QED BY <2>2, <2>3
<1> QED BY <1>6, <1>11

LEMMA BeginShape == ASSUME Shape, NEW c \in Clients, Begin(c) PROVE Shape'
<1> USE DEF Shape, TypeOK
<1>1. PICK r \in Requests :
          /\ req' = [req EXCEPT ![c] = r]
          /\ bike' = [bike EXCEPT ![c] = r.bike]
          /\ pc' = [pc EXCEPT ![c] = IF r.op = "create" THEN "probe" ELSE "load"]
  BY DEF Begin
<1>2. r.bike \in BikeIds
  BY ContentAssumption, SMT DEF Request
<1>3. issued' \in 0..MaxRequests
  BY BoundAssumption, SMT DEF Begin
<1>4. rivals' \in [Clients -> Nat] /\ reply' \in [Clients -> {"none", "200", "201", "204", "404", "409", "500"}]
  BY SMT DEF Begin
<1>5. TypeOK'
  BY <1>1, <1>2, <1>3, <1>4, SMT DEF Begin, tables
<1>6. writes[c] = NoWrites /\ todo[c] = <<>>
  BY DEF Begin, PhasesConsistent
<1>7. PhasesConsistent'
  BY <1>1, <1>6, ContentAssumption, SMT DEF Begin, PhasesConsistent, NoWrites
<1> QED BY <1>5, <1>7

LEMMA LoadShape == ASSUME Shape, NEW c \in Clients, Load(c) PROVE Shape'
<1>1. CASE motorcycles[bike[c]] = Absent
  BY <1>1, RefuseShape DEF Load
<1>2. CASE motorcycles[bike[c]] # Absent
  <2> DEFINE s == [motorcycle |-> motorcycles[bike[c]],
                   engine |-> engineSpecs[bike[c]],
                   dimension |-> dimensions[bike[c]],
                   extras |-> NoExtras]
             removal == req[c].op = "delete"
  <2>1. /\ pc[c] = "load"
        /\ snap' = [snap EXCEPT ![c] = s]
        /\ slug' = [slug EXCEPT ![c] = s.motorcycle.slug]
        /\ pc' = [pc EXCEPT ![c] = IF removal THEN "flush" ELSE "apply"]
        /\ todo' = [todo EXCEPT ![c] = IF removal THEN DeleteStatements(s) ELSE <<>>]
        /\ UNCHANGED <<tables, envelope, reply, bike, attempt, suffix, writes>>
    BY <1>2, Zenon DEF Load
  <2>2. s \in SnapType /\ s.motorcycle.slug \in Slug /\ s.motorcycle # Absent
    BY <1>2, ContentAssumption, SMT DEF Shape, TypeOK, SnapType, MotorcycleRow
  <2>3. DeleteStatements(s) \in Seq(Parts) /\ <<>> \in Seq(Parts)
    BY DeleteStatementsType, EmptySeq
  <2> HIDE DEF s
  <2>4. TypeOK'
    BY <2>1, <2>2, <2>3, SMT DEF Shape, TypeOK, tables, envelope
  <2>5. req[c].op # "create" /\ writes[c] = NoWrites
    BY <2>1 DEF Shape, PhasesConsistent
  <2>6. PhasesConsistent'
    BY <2>1, <2>2, <2>5, SMT DEF Shape, TypeOK, PhasesConsistent, NoWrites, envelope
  <2> QED BY <2>4, <2>6 DEF Shape
<1> QED BY <1>1, <1>2

LEMMA ApplyShape == ASSUME Shape, NEW c \in Clients, Apply(c) PROVE Shape'
<1> DEFINE s == [snap[c] EXCEPT !.extras = additionalSpecs[bike[c]]]
           t == IF KeepsSlug(c) \/ RootDirty(req[c], s)
                THEN UpdateStatements(req[c], s, FALSE) ELSE <<>>
           at == IF KeepsSlug(c) THEN "flush"
                 ELSE IF RootDirty(req[c], s) THEN "autoflush" ELSE "probe"
<1>1. /\ pc[c] = "apply"
      /\ snap' = [snap EXCEPT ![c] = s]
      /\ pc' = [pc EXCEPT ![c] = at]
      /\ todo' = [todo EXCEPT ![c] = t]
      /\ UNCHANGED <<tables, envelope, reply, bike, attempt, suffix, slug, writes>>
  BY Zenon DEF Apply
<1>2. s \in SnapType /\ s.motorcycle = snap[c].motorcycle
  <2>1. snap[c] \in SnapType /\ additionalSpecs[bike[c]] \in Extras
    BY DEF Shape, TypeOK
  <2> QED BY <2>1, SMT DEF SnapType
<1>3. t \in Seq(Parts)
  BY UpdateStatementsType, EmptySeq
<1>4. at \in {"flush", "autoflush", "probe"} /\ (at = "probe" => t = <<>>)
  BY Zenon
<1> HIDE DEF s, t, at
<1>5. TypeOK'
  BY <1>1, <1>2, <1>3, <1>4, SMT DEF Shape, TypeOK, tables, envelope
<1>6. req[c].op # "create" /\ writes[c] = NoWrites /\ snap[c].motorcycle # Absent
  BY <1>1 DEF Shape, PhasesConsistent
<1>7. PhasesConsistent'
  BY <1>1, <1>2, <1>4, <1>6, SMT DEF Shape, TypeOK, PhasesConsistent, NoWrites, envelope
<1> QED BY <1>5, <1>7 DEF Shape

LEMMA ProbeShape == ASSUME Shape, NEW c \in Clients, Probe(c) PROVE Shape'
<1> DEFINE candidate == Candidate(Base(c), suffix[c])
           creating == req[c].op = "create"
           taken == ~(~creating /\ candidate = snap[c].motorcycle.slug) /\ SlugTaken(candidate)
           moved == candidate # slug[c]
           t == IF creating THEN <<>>
                ELSE IF RootDirty(req[c], snap[c]) THEN If(moved, "motorcycle")
                ELSE UpdateStatements(req[c], snap[c], moved)
<1>1. CASE /\ pc[c] = "probe"
           /\ slug' = [slug EXCEPT ![c] = candidate]
           /\ pc' = [pc EXCEPT ![c] = IF creating THEN "insert" ELSE "flush"]
           /\ todo' = [todo EXCEPT ![c] = t]
           /\ UNCHANGED <<tables, envelope, reply, bike, attempt, suffix, snap, writes>>
  <2>1. req[c].ident \in Identity /\ suffix[c] \in Nat
    BY ContentAssumption, SMT DEF Shape, TypeOK, Request
  <2>2. candidate \in Slug
    BY <2>1, BaseSlugType, CandidateType, Zenon DEF Base
  <2>3. t \in Seq(Parts)
    <3>1. "motorcycle" \in Parts
      BY DEF Parts
    <3>2. If(moved, "motorcycle") \in Seq(Parts)
      BY <3>1, IfType
    <3> QED BY <3>2, UpdateStatementsType, EmptySeq, Zenon
  <2>4. creating => t = <<>>
    BY Zenon
  <2> HIDE DEF candidate, t
  <2>5. TypeOK'
    BY <1>1, <2>2, <2>3, SMT DEF Shape, TypeOK, tables, envelope
  <2>6. creating => writes[c] = NoWrites
    BY <1>1 DEF Shape, PhasesConsistent
  <2>7. PhasesConsistent'
    BY <1>1, <2>4, <2>6, SMT DEF Shape, TypeOK, PhasesConsistent, NoWrites, envelope
  <2> QED BY <2>5, <2>7 DEF Shape
<1>2. CASE /\ pc[c] = "probe"
           /\ ~Exhausted(suffix[c])
           /\ suffix' = [suffix EXCEPT ![c] = NextSuffix(@)]
           /\ UNCHANGED <<tables, envelope, reply, pc, bike, attempt, slug, snap, todo, writes>>
  <2>1. NextSuffix(suffix[c]) \in 1..MaxSuffix - 1
    BY <1>2, SuffixAssumption, SMT DEF Shape, TypeOK, Exhausted, NextSuffix
  <2>2. TypeOK'
    BY <1>2, <2>1, SMT DEF Shape, TypeOK, tables, envelope
  <2>3. PhasesConsistent'
    BY <1>2 DEF Shape, PhasesConsistent, envelope
  <2> QED BY <2>2, <2>3 DEF Shape
<1>3. CASE Refuse(c, "409")
  BY <1>3, RefuseShape
<1> QED BY <1>1, <1>2, <1>3, Zenon DEF Probe

LEMMA InsertNewShape == ASSUME Shape, NEW c \in Clients, InsertNew(c) PROVE Shape'
<1> DEFINE row == [motorcycle |-> [slug |-> slug[c], ident |-> req[c].ident, version |-> 0],
                   engine |-> req[c].engine,
                   dimension |-> DimensionOf(req[c], 0),
                   extras |-> req[c].extras]
<1>1. CASE /\ nextId <= MaxId
           /\ bike' = [bike EXCEPT ![c] = nextId]
           /\ nextId' = nextId + 1
           /\ writes' = [writes EXCEPT ![c] = row]
           /\ pc' = [pc EXCEPT ![c] = "flush"]
           /\ UNCHANGED <<motorcycles, engineSpecs, dimensions, additionalSpecs, envelope,
                          reply, attempt, suffix, slug, snap, todo>>
  <2>1. req[c] \in Request
    BY ContentAssumption DEF Shape, TypeOK
  <2>2. row \in WritesType
    BY <2>1, DimensionOfType, SMT DEF Shape, TypeOK, WritesType, MotorcycleRow, Request
  <2>3. nextId \in BikeIds /\ nextId' \in 1..MaxId + 1
    BY <1>1, BoundAssumption, SMT DEF Shape, TypeOK, BikeIds
  <2> HIDE DEF row
  <2>4. TypeOK'
    BY <1>1, <2>2, <2>3, SMT DEF Shape, TypeOK, envelope
  <2>5. req[c].op = "create" /\ todo[c] = <<>>
    BY DEF InsertNew, Shape, PhasesConsistent
  <2>6. PhasesConsistent'
    BY <1>1, <2>5, SMT DEF Shape, TypeOK, PhasesConsistent, envelope
  <2> QED BY <2>4, <2>6 DEF Shape
<1>2. CASE /\ attempt' = [attempt EXCEPT ![c] = 2]
           /\ suffix' = [suffix EXCEPT ![c] = 1]
           /\ slug' = [slug EXCEPT ![c] = <<>>]
           /\ pc' = [pc EXCEPT ![c] = "probe"]
           /\ UNCHANGED <<tables, envelope, reply, bike, snap, todo, writes>>
  <2>1. 1 \in 1..MaxSuffix - 1 /\ <<>> \in Slug
    BY SuffixAssumption, SMT DEF Slug
  <2>2. TypeOK'
    BY <1>2, <2>1, SMT DEF Shape, TypeOK, tables, envelope
  <2>3. req[c].op = "create" /\ todo[c] = <<>> /\ writes[c] = NoWrites
    BY DEF InsertNew, Shape, PhasesConsistent
  <2>4. PhasesConsistent'
    BY <1>2, <2>3, SMT DEF Shape, TypeOK, PhasesConsistent, envelope
  <2> QED BY <2>2, <2>4 DEF Shape
<1>3. CASE Refuse(c, "409")
  BY <1>3, RefuseShape
<1> QED BY <1>1, <1>2, <1>3, Zenon DEF InsertNew

LEMMA StatementShape ==
    ASSUME Shape, NEW c \in Clients,
           \/ UpdateMotorcycle(c) \/ UpdateEngine(c) \/ UpdateDimension(c) \/ UpdateExtras(c)
           \/ RemoveExtras(c) \/ RemoveMotorcycle(c) \/ RemoveDimension(c) \/ RemoveEngine(c)
    PROVE  Shape'
<1>1. /\ req[c] \in Request
      /\ snap[c] \in SnapType
      /\ writes[c] \in WritesType
      /\ slug[c] \in Slug
  BY ContentAssumption DEF Shape, TypeOK
<1>2. Parts = {"motorcycle", "engine", "dimension", "extras"}
  BY DEF Parts
<1>3. ASSUME NEW value \in MotorcycleRow \cup {Absent, Untouched}
      PROVE  [writes[c] EXCEPT !["motorcycle"] = value] \in WritesType
  BY <1>1, SMT DEF WritesType
<1>4. ASSUME NEW value \in Engines \cup {Absent, Untouched}
      PROVE  [writes[c] EXCEPT !["engine"] = value] \in WritesType
  BY <1>1, SMT DEF WritesType
<1>5. ASSUME NEW value \in Extras \cup {Untouched}
      PROVE  [writes[c] EXCEPT !["extras"] = value] \in WritesType
  BY <1>1, SMT DEF WritesType
<1>6. CASE UpdateMotorcycle(c)
  <2> DEFINE row == [slug |-> slug[c], ident |-> req[c].ident, version |-> NextVersion(c)]
  <2>1. CASE Wrote(c, "motorcycle", row)
    <3>1. InFlush(c, "motorcycle") /\ req[c].op = "update"
      BY <1>6 DEF UpdateMotorcycle
    <3>2. snap[c].motorcycle \in MotorcycleRow
      BY <1>1, <3>1, SMT DEF Shape, PhasesConsistent, InFlush, SnapType
    <3>3. writes[c].motorcycle \in MotorcycleRow \cup {Untouched}
      BY <1>1, <3>1, SMT DEF Shape, PhasesConsistent, WritesType
    <3>4. NextVersion(c) \in Nat
      BY <3>2, <3>3, SMT DEF NextVersion, MotorcycleRow
    <3>5. row \in MotorcycleRow
      BY <1>1, <3>4, SMT DEF MotorcycleRow, Request
    <3>6. row # Absent
      BY <3>5, ContentAssumption, Zenon
    <3> HIDE DEF row
    <3> QED BY <1>2, <1>3, <2>1, <3>1, <3>5, <3>6, WroteShape
  <2> QED BY <1>6, <2>1, RefuseShape DEF UpdateMotorcycle
<1>7. CASE UpdateEngine(c)
  <2>1. req[c].engine \in Engines
    BY <1>1, SMT DEF Request
  <2>2. CASE Wrote(c, "engine", req[c].engine)
    BY <1>2, <1>4, <1>7, <2>1, <2>2, WroteShape DEF UpdateEngine
  <2> QED BY <1>7, <2>2, RefuseShape DEF UpdateEngine
<1>8. CASE UpdateExtras(c)
  <2>1. req[c].extras \in Extras
    BY <1>1, SMT DEF Request
  <2> QED BY <1>2, <1>5, <1>8, <2>1, WroteShape DEF UpdateExtras
<1>9. CASE RemoveExtras(c)
  <2> DEFINE value == IF additionalSpecs[bike[c]] = NoExtras THEN Untouched ELSE NoExtras
  <2>1. value \in Extras \cup {Untouched}
    BY ContentAssumption, Zenon
  <2>2. Wrote(c, "extras", value) /\ InFlush(c, "extras") /\ req[c].op # "create"
    BY <1>9 DEF RemoveExtras
  <2> HIDE DEF value
  <2> QED BY <1>2, <1>5, <2>1, <2>2, WroteShape
<1>10. CASE RemoveMotorcycle(c)
  <2>1. CASE Wrote(c, "motorcycle", Absent)
    BY <1>2, <1>3, <1>10, <2>1, WroteShape DEF RemoveMotorcycle
  <2> QED BY <1>10, <2>1, RefuseShape DEF RemoveMotorcycle
<1>11. CASE RemoveEngine(c)
  BY <1>2, <1>4, <1>11, WroteShape DEF RemoveEngine
<1>12. ASSUME NEW value \in DimensionRow \cup {Absent, Untouched}
       PROVE  [writes[c] EXCEPT !["dimension"] = value] \in WritesType
  BY <1>1, SMT DEF WritesType
<1>13. CASE UpdateDimension(c)
  <2> DEFINE row == DimensionOf(req[c], RowFor(snap[c]))
  <2>1. CASE Wrote(c, "dimension", row)
    <3>1. InFlush(c, "dimension") /\ req[c].op = "update"
      BY <1>13 DEF UpdateDimension
    <3>2. snap[c].motorcycle \in MotorcycleRow /\ snap[c].dimension \in DimensionRow \cup {Absent}
      BY <1>1, <3>1, SMT DEF Shape, PhasesConsistent, InFlush, SnapType
    <3>3. RowFor(snap[c]) \in Nat
      BY <3>2, SMT DEF RowFor, MotorcycleRow, DimensionRow
    <3>4. row \in DimensionRow \cup {Absent}
      BY <1>1, <3>3, DimensionOfType
    <3> HIDE DEF row
    <3> QED BY <1>2, <1>12, <2>1, <3>1, <3>4, WroteShape
  <2> QED BY <1>13, <2>1, RefuseShape DEF UpdateDimension
<1>14. CASE RemoveDimension(c)
  BY <1>2, <1>12, <1>14, WroteShape DEF RemoveDimension
<1> QED BY <1>6, <1>7, <1>8, <1>9, <1>10, <1>11, <1>13, <1>14

LEMMA CommitShape == ASSUME Shape, NEW c \in Clients, Commit(c) PROVE Shape'
<1>1. writes[c] \in WritesType /\ bike[c] \in BikeIds
  BY DEF Shape, TypeOK
<1>2. motorcycles' \in [BikeIds -> MotorcycleRow \cup {Absent}]
  BY <1>1, SMT DEF Commit, After, Shape, TypeOK, WritesType
<1>3. engineSpecs' \in [BikeIds -> Engines \cup {Absent}]
  BY <1>1, SMT DEF Commit, After, Shape, TypeOK, WritesType
<1>4. dimensions' \in [BikeIds -> DimensionRow \cup {Absent}]
  BY <1>1, SMT DEF Commit, After, Shape, TypeOK, WritesType
<1>5. additionalSpecs' \in [BikeIds -> Extras]
  BY <1>1, SMT DEF Commit, After, Shape, TypeOK, WritesType
<1>6. rivals' \in [Clients -> Nat] /\ nextId' \in 1..MaxId + 1
  BY SMT DEF Commit, Shape, TypeOK
<1>7. Status(req[c].op) \in {"200", "201", "204", "404", "409", "500"}
  BY DEF Status
<1>8. Finish(c, Status(req[c].op))
  BY DEF Commit
<1> QED BY <1>2, <1>3, <1>4, <1>5, <1>6, <1>7, <1>8, FinishShape

LEMMA StepShape == Shape /\ [Next]_vars => Shape'
<1> SUFFICES ASSUME Shape, [Next]_vars PROVE Shape'
  OBVIOUS
<1>1. CASE UNCHANGED vars
  BY <1>1 DEF vars, tables, envelope, locals, Shape, TypeOK, PhasesConsistent
<1>2. ASSUME NEW c \in Clients, Begin(c) \/ Serve(c) \/ Fail(c) PROVE Shape'
  <2>1. CASE Begin(c) \/ Load(c) \/ Apply(c) \/ Probe(c) \/ InsertNew(c) \/ Commit(c)
    BY <2>1, BeginShape, LoadShape, ApplyShape, ProbeShape, InsertNewShape, CommitShape
  <2>2. CASE BreakDeadlock(c) \/ Fail(c)
    BY <2>2, RefuseShape DEF BreakDeadlock, Fail
  <2> QED BY <1>2, <2>1, <2>2, StatementShape DEF Serve
<1> QED BY <1>1, <1>2 DEF Next, Quiet

\* In every behaviour, whatever the requests and their interleaving, every table and every
\* local of a request holds a value of its type (TypeOK of CatalogueWrites): a version is
\* always a number, uniqueSlug never passes its last suffix, and no id beyond the sequence
\* is used.  Inductive together with what a request holds at each point of its code.
THEOREM TypeCorrect == Spec => []TypeOK
<1>1. Spec => []Shape
  BY InitShape, StepShape, PTL DEF Spec
<1>2. Shape => TypeOK
  BY DEF Shape
<1> QED BY <1>1, <1>2, PTL

------------------------------------------------------------------------------
(* Slugs *)

Exclusive == PendingSlugsExclusive /\ SlugsUnique

LEMMA InitExclusive == Init => Exclusive
<1> SUFFICES ASSUME Init PROVE Exclusive
  OBVIOUS
<1>1. DOMAIN Seeded = 1..Len(Seeded) /\ Len(Seeded) \in Nat
  BY SeedAssumption, SMT
<1>2. \A i \in Existing : i \in DOMAIN Seeded /\ motorcycles[i] = Seeded[i].motorcycle
  BY SMT DEF Init, Existing
<1>3. SlugsUnique
  BY <1>2, SeedAssumption, Zenon DEF SlugsUnique
<1>4. \A i \in Existing : i < nextId
  <2>1. nextId = Len(Seeded) + 1
    BY DEF Init
  <2> QED BY <1>1, <1>2, <2>1, SMT
<1>5. \A c \in Clients : writes[c].motorcycle = Untouched
  BY SMT DEF Init, NoWrites
<1>6. PendingSlugsExclusive
  BY <1>4, <1>5, SMT DEF PendingSlugsExclusive, HasRow
<1> QED BY <1>3, <1>6 DEF Exclusive

\* A step that commits nothing, and at most forgets what some transaction wrote in
\* motorcycles, keeps pending slugs exclusive.
LEMMA NothingPendingAdded ==
    ASSUME Exclusive, UNCHANGED <<motorcycles, nextId>>,
           \A d \in Clients : \/ writes'[d].motorcycle = Untouched
                              \/ /\ writes'[d].motorcycle = writes[d].motorcycle
                                 /\ bike'[d] = bike[d]
    PROVE  Exclusive'
<1>1. SlugsUnique' /\ Existing' = Existing
  BY DEF Exclusive, SlugsUnique, Existing
<1>2. \A d \in Clients : writes'[d].motorcycle # Untouched =>
          writes'[d].motorcycle = writes[d].motorcycle /\ bike'[d] = bike[d]
  OBVIOUS
<1>3. \A d \in Clients : HasRow(d)' => HasRow(d) /\ writes'[d].motorcycle # Untouched
  BY <1>2 DEF HasRow
<1>4. PendingSlugsExclusive'
  <2>1. PendingSlugsExclusive
    BY DEF Exclusive
  <2>2. \A i \in Existing' : i < nextId'
    BY <1>1, <2>1 DEF PendingSlugsExclusive
  <2>3. \A c \in Clients : writes'[c].motorcycle # Untouched => bike'[c] < nextId'
    BY <1>2, <2>1 DEF PendingSlugsExclusive
  <2>4. \A c, d \in Clients :
            c # d /\ writes'[c].motorcycle # Untouched /\ writes'[d].motorcycle # Untouched
                => bike'[c] # bike'[d]
    BY <1>2, <2>1 DEF PendingSlugsExclusive
  <2>5. \A c, d \in Clients :
            c # d /\ HasRow(c)' /\ HasRow(d)'
                => writes'[c].motorcycle.slug # writes'[d].motorcycle.slug
    BY <1>2, <1>3, <2>1 DEF PendingSlugsExclusive
  <2>6. \A c \in Clients : HasRow(c)' =>
            \A i \in Existing' \ {bike'[c]} : motorcycles'[i].slug # writes'[c].motorcycle.slug
    BY <1>1, <1>2, <1>3, <2>1 DEF PendingSlugsExclusive
  <2> QED BY <2>2, <2>3, <2>4, <2>5, <2>6 DEF PendingSlugsExclusive
<1> QED BY <1>1, <1>4 DEF Exclusive

\* A step that adds a pending write of c to motorcycles keeps pending slugs exclusive
\* when no other open transaction has the row, or the slug, and no other bike either.
LEMMA PendingAdded ==
    ASSUME Shape, Exclusive, NEW c \in Clients, motorcycles' = motorcycles,
           \A d \in Clients \ {c} : writes'[d] = writes[d] /\ bike'[d] = bike[d],
           nextId' \in Nat, nextId <= nextId', bike'[c] < nextId',
           \A d \in Clients \ {c} : writes[d].motorcycle # Untouched => bike[d] # bike'[c],
           HasRow(c)' =>
               /\ \A d \in Clients \ {c} : HasRow(d) =>
                      writes[d].motorcycle.slug # writes'[c].motorcycle.slug
               /\ \A i \in Existing \ {bike'[c]} :
                      motorcycles[i].slug # writes'[c].motorcycle.slug
    PROVE  Exclusive'
<1>1. SlugsUnique' /\ Existing' = Existing
  BY DEF Exclusive, SlugsUnique, Existing
<1>2. nextId \in Nat /\ bike \in [Clients -> Nat] /\ \A i \in Existing : i \in Nat
  BY BoundAssumption, SMT DEF Shape, TypeOK, BikeIds, Existing
<1>3. \A i \in Existing' : i < nextId'
  BY <1>1, <1>2, SMT DEF Exclusive, PendingSlugsExclusive
<1>4. \A d \in Clients : writes'[d].motorcycle # Untouched => bike'[d] < nextId'
  <2> TAKE d \in Clients
  <2>1. CASE d = c
    BY <2>1
  <2>2. CASE d # c
    <3>1. writes[d].motorcycle # Untouched => bike[d] < nextId
      BY DEF Exclusive, PendingSlugsExclusive
    <3>2. bike[d] \in Nat
      BY <1>2
    <3> QED BY <1>2, <2>2, <3>1, <3>2, SMT
  <2> QED BY <2>1, <2>2
<1>5. \A a, b \in Clients :
          a # b /\ writes'[a].motorcycle # Untouched /\ writes'[b].motorcycle # Untouched
              => bike'[a] # bike'[b]
  <2> SUFFICES ASSUME NEW a \in Clients, NEW b \in Clients, a # b,
                      writes'[a].motorcycle # Untouched, writes'[b].motorcycle # Untouched
               PROVE  bike'[a] # bike'[b]
    OBVIOUS
  <2>1. CASE a = c
    BY <2>1
  <2>2. CASE b = c
    BY <2>2
  <2>3. CASE a # c /\ b # c
    BY <2>3 DEF Exclusive, PendingSlugsExclusive
  <2> QED BY <2>1, <2>2, <2>3
<1>6. \A d \in Clients \ {c} : HasRow(d)' <=> HasRow(d)
  BY DEF HasRow
<1>7. \A a, b \in Clients :
          a # b /\ HasRow(a)' /\ HasRow(b)'
              => writes'[a].motorcycle.slug # writes'[b].motorcycle.slug
  <2> SUFFICES ASSUME NEW a \in Clients, NEW b \in Clients, a # b, HasRow(a)', HasRow(b)'
               PROVE  writes'[a].motorcycle.slug # writes'[b].motorcycle.slug
    OBVIOUS
  <2>1. CASE a = c
    BY <1>6, <2>1
  <2>2. CASE b = c
    BY <1>6, <2>2
  <2>3. CASE a # c /\ b # c
    BY <1>6, <2>3 DEF Exclusive, PendingSlugsExclusive
  <2> QED BY <2>1, <2>2, <2>3
<1>8. \A d \in Clients : HasRow(d)' =>
          \A i \in Existing' \ {bike'[d]} : motorcycles'[i].slug # writes'[d].motorcycle.slug
  <2> SUFFICES ASSUME NEW d \in Clients, HasRow(d)', NEW i \in Existing \ {bike'[d]}
               PROVE  motorcycles[i].slug # writes'[d].motorcycle.slug
    BY <1>1
  <2>1. CASE d = c
    BY <2>1
  <2>2. CASE d # c
    BY <1>6, <2>2 DEF Exclusive, PendingSlugsExclusive
  <2> QED BY <2>1, <2>2
<1>9. PendingSlugsExclusive'
  BY <1>3, <1>4, <1>5, <1>7, <1>8 DEF PendingSlugsExclusive
<1> QED BY <1>1, <1>9 DEF Exclusive

LEMMA FinishForgets ==
    ASSUME Shape, Exclusive, NEW c \in Clients, NEW status, Refuse(c, status)
    PROVE  Exclusive'
<1>1. UNCHANGED <<motorcycles, nextId, bike>>
  BY DEF Refuse, Finish, tables
<1>2. \A d \in Clients : writes'[d].motorcycle \in {writes[d].motorcycle, Untouched}
  BY SMT DEF Refuse, Finish, NoWrites, Shape, TypeOK
<1> QED BY <1>1, <1>2, NothingPendingAdded

\* The statements of other tables leave the pending motorcycle row alone.
LEMMA WroteElsewhere ==
    ASSUME Shape, Exclusive, NEW c \in Clients, NEW part \in {"engine", "dimension", "extras"}, NEW value,
           Wrote(c, part, value)
    PROVE  Exclusive'
<1>1. UNCHANGED <<motorcycles, nextId, bike>>
  BY DEF Wrote, tables, locals
<1>2. \A d \in Clients : writes'[d].motorcycle = writes[d].motorcycle
  <2> TAKE d \in Clients
  <2>1. writes[c] \in WritesType /\ writes \in [Clients -> WritesType]
    BY DEF Shape, TypeOK
  <2>2. CASE d # c
    BY <2>1, <2>2, SMT DEF Wrote
  <2>3. CASE d = c
    <3>1. writes'[c] = [writes[c] EXCEPT ![part] = value]
      BY <2>1, SMT DEF Wrote
    <3> QED BY <2>1, <2>3, <3>1, SMT DEF WritesType
  <2> QED BY <2>2, <2>3
<1> QED BY <1>1, <1>2, NothingPendingAdded

\* The flush of the motorcycle row, changed or removed: the row lock keeps it to one
\* transaction; the index, and the wait for whoever holds the key, keep the slug to one.
LEMMA MotorcycleWritten ==
    ASSUME Shape, Exclusive, NEW c \in Clients, NEW row, InFlush(c, "motorcycle"),
           WaitsFor(c) = {}, VersionHolds(c), Wrote(c, "motorcycle", row),
           row # Absent => /\ req[c].op = "update"
                           /\ row.slug = slug[c]
                           /\ ~SlugTakenByAnother(slug[c], bike[c])
    PROVE  Exclusive'
<1>1. UNCHANGED <<motorcycles, nextId, bike>>
  BY DEF Wrote, tables, locals
<1>2. /\ \A d \in Clients \ {c} : writes'[d] = writes[d]
      /\ writes'[c].motorcycle = row
  BY SMT DEF Wrote, Shape, TypeOK, WritesType
<1>3. nextId \in Nat
  BY BoundAssumption, SMT DEF Shape, TypeOK
<1>4. bike[c] < nextId
  <2>1. CASE writes[c].motorcycle # Untouched
    BY <2>1 DEF Exclusive, PendingSlugsExclusive
  <2>2. CASE motorcycles[bike[c]] # Absent
    <3>1. bike[c] \in Existing
      BY <2>2 DEF Existing, Shape, TypeOK
    <3> QED BY <3>1 DEF Exclusive, PendingSlugsExclusive
  <2> QED BY <2>1, <2>2 DEF VersionHolds
<1>5. \A d \in Clients \ {c} : writes[d].motorcycle # Untouched => bike[d] # bike[c]
  BY MotorcycleLocks, SMT DEF RowHolders
<1>6. ASSUME HasRow(c)'
      PROVE  /\ \A d \in Clients \ {c} : HasRow(d) => writes[d].motorcycle.slug # row.slug
             /\ \A i \in Existing \ {bike[c]} : motorcycles[i].slug # row.slug
  <2>1. row # Absent
    BY <1>2, <1>6 DEF HasRow
  <2>2. KeyHolders(c, slug[c]) = {}
    BY <2>1, MotorcycleLocks
  <2>3. \A d \in Clients \ {c} : HasRow(d) => writes[d].motorcycle.slug # slug[c]
    BY <2>2 DEF KeyHolders, HasRow
  <2>4. \A i \in Existing \ {bike[c]} : motorcycles[i].slug # slug[c]
    BY <2>1 DEF SlugTakenByAnother
  <2> QED BY <2>1, <2>3, <2>4
<1> QED BY <1>1, <1>2, <1>3, <1>4, <1>5, <1>6, PendingAdded, SMT

LEMMA StatementExclusive ==
    ASSUME Shape, Exclusive, NEW c \in Clients,
           \/ UpdateMotorcycle(c) \/ UpdateEngine(c) \/ UpdateDimension(c) \/ UpdateExtras(c)
           \/ RemoveExtras(c) \/ RemoveMotorcycle(c) \/ RemoveDimension(c) \/ RemoveEngine(c)
    PROVE  Exclusive'
<1>1. CASE UpdateMotorcycle(c)
  <2> DEFINE row == [slug |-> slug[c], ident |-> req[c].ident, version |-> NextVersion(c)]
  <2>1. CASE /\ VersionHolds(c)
             /\ ~SlugTakenByAnother(slug[c], bike[c])
             /\ Wrote(c, "motorcycle", row)
    <3>1. InFlush(c, "motorcycle") /\ WaitsFor(c) = {} /\ req[c].op = "update"
      BY <1>1 DEF UpdateMotorcycle
    <3>2. row.slug = slug[c]
      OBVIOUS
    <3> HIDE DEF row
    <3> QED BY <2>1, <3>1, <3>2, MotorcycleWritten
  <2> QED BY <1>1, <2>1, FinishForgets DEF UpdateMotorcycle
<1>2. CASE UpdateEngine(c) \/ UpdateDimension(c)
  BY <1>2, FinishForgets, WroteElsewhere DEF UpdateEngine, UpdateDimension
<1>3. CASE UpdateExtras(c) \/ RemoveExtras(c) \/ RemoveDimension(c) \/ RemoveEngine(c)
  BY <1>3, WroteElsewhere DEF UpdateExtras, RemoveExtras, RemoveDimension, RemoveEngine
<1>4. CASE RemoveMotorcycle(c)
  <2>1. CASE VersionHolds(c) /\ Wrote(c, "motorcycle", Absent)
    BY <1>4, <2>1, MotorcycleWritten DEF RemoveMotorcycle
  <2> QED BY <1>4, <2>1, FinishForgets DEF RemoveMotorcycle
<1> QED BY <1>1, <1>2, <1>3, <1>4

\* The insert of a create gets an id nobody has, and waits like any writer of its slug.
LEMMA InsertNewExclusive ==
    ASSUME Shape, Exclusive, NEW c \in Clients, InsertNew(c) PROVE Exclusive'
<1> DEFINE row == [motorcycle |-> [slug |-> slug[c], ident |-> req[c].ident, version |-> 0],
                   engine |-> req[c].engine,
                   dimension |-> DimensionOf(req[c], 0),
                   extras |-> req[c].extras]
<1>1. CASE /\ ~SlugTaken(slug[c])
           /\ bike' = [bike EXCEPT ![c] = nextId]
           /\ nextId' = nextId + 1
           /\ writes' = [writes EXCEPT ![c] = row]
           /\ UNCHANGED motorcycles
  <2>1. nextId \in Nat
    BY BoundAssumption, SMT DEF Shape, TypeOK
  <2>2. /\ \A d \in Clients \ {c} : writes'[d] = writes[d] /\ bike'[d] = bike[d]
        /\ writes'[c] = row
        /\ bike'[c] = nextId
    BY <1>1, Zenon DEF Shape, TypeOK
  <2>3. row.motorcycle.slug = slug[c]
    OBVIOUS
  <2>4. \A d \in Clients \ {c} : writes[d].motorcycle # Untouched => bike[d] # nextId
    <3>1. \A d \in Clients : bike[d] \in Nat
      BY BoundAssumption, SMT DEF Shape, TypeOK, BikeIds
    <3>2. \A d \in Clients : writes[d].motorcycle # Untouched => bike[d] < nextId
      BY DEF Exclusive, PendingSlugsExclusive
    <3> QED BY <2>1, <3>1, <3>2, SMT
  <2>5. \A d \in Clients \ {c} : HasRow(d) => writes[d].motorcycle.slug # slug[c]
    <3>1. KeyHolders(c, slug[c]) = {}
      BY InsertLocks DEF InsertNew
    <3> QED BY <3>1 DEF KeyHolders, HasRow
  <2>6. \A i \in Existing : motorcycles[i].slug # slug[c]
    BY <1>1 DEF SlugTaken
  <2> HIDE DEF row
  <2>7. motorcycles' = motorcycles /\ nextId' \in Nat /\ nextId <= nextId' /\ nextId < nextId'
    BY <1>1, <2>1, SMT
  <2> QED BY <2>2, <2>3, <2>4, <2>5, <2>6, <2>7, PendingAdded, Zenon
<1>2. CASE UNCHANGED <<tables, bike, writes>>
  BY <1>2, NothingPendingAdded DEF tables
<1>3. CASE Refuse(c, "409")
  BY <1>3, FinishForgets
<1> QED BY <1>1, <1>2, <1>3, Zenon DEF InsertNew

\* A commit only publishes what was exclusive while it was pending.
LEMMA CommitExclusive ==
    ASSUME Shape, Exclusive, NEW c \in Clients, Commit(c) PROVE Exclusive'
<1> DEFINE w == writes[c].motorcycle
<1>1. UNCHANGED <<nextId, bike>>
  BY DEF Commit, Finish
<1>2. /\ \A d \in Clients \ {c} : writes'[d] = writes[d]
      /\ writes'[c].motorcycle = Untouched
  BY SMT DEF Commit, Finish, NoWrites, Shape, TypeOK
<1>3. ~HasRow(c)' /\ \A d \in Clients \ {c} : HasRow(d)' <=> HasRow(d)
  BY <1>2 DEF HasRow
<1>4. CASE w = Untouched
  <2>1. motorcycles' = motorcycles
    BY <1>4 DEF Commit, After
  <2> QED BY <1>1, <1>2, <2>1, NothingPendingAdded
<1>5. CASE w # Untouched
  <2>1. motorcycles' = [motorcycles EXCEPT ![bike[c]] = w]
    BY <1>5 DEF Commit, After
  <2>2. bike[c] \in BikeIds /\ bike[c] < nextId
    BY <1>5 DEF Shape, TypeOK, Exclusive, PendingSlugsExclusive
  <2>3. \A i \in BikeIds : motorcycles'[i] = IF i = bike[c] THEN w ELSE motorcycles[i]
    BY <2>1, <2>2 DEF Shape, TypeOK
  <2> HIDE DEF w
  <2>4. \A i \in Existing' : \/ i = bike[c] /\ w # Absent /\ motorcycles'[i] = w
                             \/ i \in Existing \ {bike[c]} /\ motorcycles'[i] = motorcycles[i]
    BY <2>3 DEF Existing
  <2>5. w # Absent => /\ HasRow(c)
                      /\ \A i \in Existing \ {bike[c]} : motorcycles[i].slug # w.slug
    BY <1>5 DEF w, HasRow, Exclusive, PendingSlugsExclusive
  <2>6. SlugsUnique'
    BY <2>4, <2>5 DEF Exclusive, SlugsUnique
  <2>7. \A i \in Existing' : i < nextId'
    BY <1>1, <2>2, <2>4 DEF Exclusive, PendingSlugsExclusive
  <2>8. \A d \in Clients : writes'[d].motorcycle # Untouched => bike'[d] < nextId'
    BY <1>1, <1>2 DEF Exclusive, PendingSlugsExclusive
  <2>9. \A d, e \in Clients :
            d # e /\ writes'[d].motorcycle # Untouched /\ writes'[e].motorcycle # Untouched
                => bike'[d] # bike'[e]
    BY <1>1, <1>2 DEF Exclusive, PendingSlugsExclusive
  <2>10. \A d, e \in Clients :
             d # e /\ HasRow(d)' /\ HasRow(e)'
                 => writes'[d].motorcycle.slug # writes'[e].motorcycle.slug
    BY <1>2, <1>3 DEF Exclusive, PendingSlugsExclusive
  <2>11. \A d \in Clients : HasRow(d)' =>
             \A i \in Existing' \ {bike'[d]} : motorcycles'[i].slug # writes'[d].motorcycle.slug
    <3> SUFFICES ASSUME NEW d \in Clients \ {c}, HasRow(d), NEW i \in Existing' \ {bike[d]}
                 PROVE  motorcycles'[i].slug # writes[d].motorcycle.slug
      BY <1>1, <1>2, <1>3
    <3>1. CASE i = bike[c] /\ w # Absent /\ motorcycles'[i] = w
      BY <2>5, <3>1 DEF w, Exclusive, PendingSlugsExclusive
    <3>2. CASE i \in Existing \ {bike[c]} /\ motorcycles'[i] = motorcycles[i]
      BY <3>2 DEF Exclusive, PendingSlugsExclusive
    <3> QED BY <2>4, <3>1, <3>2
  <2>12. PendingSlugsExclusive'
    BY <2>7, <2>8, <2>9, <2>10, <2>11 DEF PendingSlugsExclusive
  <2> QED BY <2>6, <2>12 DEF Exclusive
<1> QED BY <1>4, <1>5

LEMMA StepExclusive == Shape /\ Exclusive /\ [Next]_vars => Exclusive'
<1> SUFFICES ASSUME Shape, Exclusive, [Next]_vars PROVE Exclusive'
  OBVIOUS
<1>1. CASE UNCHANGED vars
  BY <1>1, NothingPendingAdded DEF vars, tables, locals
<1>2. ASSUME NEW c \in Clients, Begin(c) \/ Serve(c) \/ Fail(c) PROVE Exclusive'
  <2>1. CASE Begin(c)
    <3>1. writes[c].motorcycle = Untouched
      BY <2>1 DEF Begin, Shape, PhasesConsistent, NoWrites
    <3>2. \A d \in Clients \ {c} : bike'[d] = bike[d]
      BY <2>1, SMT DEF Begin, Shape, TypeOK
    <3>3. UNCHANGED <<motorcycles, nextId, writes>>
      BY <2>1 DEF Begin, tables
    <3> QED BY <3>1, <3>2, <3>3, NothingPendingAdded
  <2>2. CASE Load(c)
    <3>1. CASE Refuse(c, "404")
      BY <3>1, FinishForgets
    <3>2. CASE UNCHANGED <<tables, bike, writes>>
      BY <3>2, NothingPendingAdded DEF tables
    <3> QED BY <2>2, <3>1, <3>2, Zenon DEF Load
  <2>3. CASE Apply(c)
    BY <2>3, NothingPendingAdded DEF Apply, tables
  <2>4. CASE Probe(c)
    <3>1. CASE Refuse(c, "409")
      BY <3>1, FinishForgets
    <3>2. CASE UNCHANGED <<tables, bike, writes>>
      BY <3>2, NothingPendingAdded DEF tables
    <3> QED BY <2>4, <3>1, <3>2, Zenon DEF Probe
  <2>5. CASE BreakDeadlock(c) \/ Fail(c)
    BY <2>5, FinishForgets DEF BreakDeadlock, Fail
  <2> QED BY <1>2, <2>1, <2>2, <2>3, <2>4, <2>5, InsertNewExclusive, StatementExclusive,
             CommitExclusive DEF Serve
<1> QED BY <1>1, <1>2 DEF Next, Quiet

\* No two motorcycles ever have one slug (SlugsUnique of CatalogueWrites), for any number
\* of creates, renames and removals in flight: what uniqueSlug's probe misses, the insert
\* or the update finds in the index, and a rival that has not committed is waited for.
THEOREM SlugsAlwaysUnique == Spec => []SlugsUnique
<1>1. Spec => [](Shape /\ Exclusive)
  BY InitShape, InitExclusive, StepShape, StepExclusive, PTL DEF Spec
<1>2. Shape /\ Exclusive => SlugsUnique
  BY DEF Exclusive
<1> QED BY <1>1, <1>2, PTL

==============================================================================
