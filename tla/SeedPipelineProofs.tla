-------------------------- MODULE SeedPipelineProofs --------------------------
(***************************************************************************)
(* Proofs about SeedPipeline, for all scripts, editions, bikes and writes: *)
(* types (TypeCorrect), that a script accepts what it has written and      *)
(* changes nothing when it runs again (RerunsAreAccepted,                  *)
(* RerunsAddOnlyWeights), what scripts take from a bike                    *)
(* (ScriptsTakeOnlyContradictions), where bikes are offered                *)
(* (EuropeIsNotBrazil), and whose figure a fresh catalogue has             *)
(* (FirstSourceIsKept).                                                    *)
(***************************************************************************)
EXTENDS SeedPipeline, WellFoundedInduction, TLAPS

------------------------------------------------------------------------------
(* Scripts *)

LEMMA ScriptIndices == DOMAIN Scripts = 1..Len(Scripts) /\ Len(Scripts) \in Nat
BY ScriptAssumption

LEMMA ScriptTypes ==
    ASSUME NEW i \in DOMAIN Scripts
    PROVE  /\ Scripts[i].kind \in Kinds
           /\ Scripts[i].editions \in Seq([Names -> Figures \cup {Missing}])
           /\ 1 \in DOMAIN Scripts[i].editions
           /\ DOMAIN Scripts[i].editions = 1..Len(Scripts[i].editions)
           /\ Len(Scripts[i].editions) \in Nat
           /\ \A k \in DOMAIN Scripts[i].editions :
                  Scripts[i].editions[k] \in [Names -> Figures \cup {Missing}]
<1> DEFINE Editions == Seq([Names -> Figures \cup {Missing}]) \ {<<>>}
           Script == [kind : Kinds, editions : Editions]
<1>1. Scripts \in Seq(Script) /\ i \in 1..Len(Scripts)
  BY ScriptAssumption, ScriptIndices
<1>2. Scripts[i] \in Script
  <2> HIDE DEF Script
  <2>1. QED
    BY <1>1
<1>3. Scripts[i].editions \in Editions /\ Scripts[i].kind \in Kinds
  <2> HIDE DEF Editions
  <2>1. QED
    BY <1>2
<1>4. Scripts[i].editions \in Seq([Names -> Figures \cup {Missing}]) /\ Scripts[i].editions # <<>>
  BY <1>3
<1> DEFINE Rows == [Names -> Figures \cup {Missing}]
<1>5. ASSUME NEW e \in Seq(Rows), e # <<>>
      PROVE  /\ 1 \in DOMAIN e /\ DOMAIN e = 1..Len(e) /\ Len(e) \in Nat
             /\ \A k \in DOMAIN e : e[k] \in Rows
  <2> HIDE DEF Rows
  <2>1. QED
    BY <1>5
<1>6. QED
  BY <1>3, <1>4, <1>5

LEMMA LeastNatural ==
    ASSUME NEW S, S \subseteq Nat, S # {}
    PROVE  Min(S) \in S /\ \A y \in S : Min(S) <= y
<1> DEFINE Below == {p \in Nat \X Nat : p[1] < p[2]}
<1>1. IsWellFoundedOn(Below, Nat)
  BY NatLessThanWellFounded DEF OpToRel
<1>2. PICK x \in S : \A y \in S : ~(<<y, x>> \in Below)
  <2> HIDE DEF Below
  <2>1. QED
    BY <1>1, WFMin
<1>3. \A y \in S : x <= y
  <2> SUFFICES ASSUME NEW y \in S PROVE x <= y
    OBVIOUS
  <2>1. y < x => <<y, x>> \in Below
    OBVIOUS
  <2>2. QED
    BY <1>2, <2>1
<1>4. QED
  BY <1>3 DEF Min

LEMMA CurrentIsFirst ==
    ASSUME Pending # {}
    PROVE  /\ Current \in Pending /\ Current \in DOMAIN Scripts
           /\ \A i \in DOMAIN Scripts : i < Current => recorded[i] = edition[i]
<1>1. Pending \subseteq Nat
  BY ScriptIndices DEF Pending
<1>2. Current \in Pending /\ \A i \in Pending : Current <= i
  BY <1>1, LeastNatural DEF Current
<1>3. QED
  BY <1>2, ScriptIndices DEF Pending
------------------------------------------------------------------------------
(* Columns *)

LEMMA Columns ==
    ASSUME NEW f \in Figures
    PROVE  /\ DOMAIN f = {"spec", "kerb", "dry", "bore", "cc"}
           /\ f.spec \in Specs \cup {NULL}
           /\ f.kerb \in Nat \cup {NULL} /\ f.dry \in Nat \cup {NULL}
           /\ f.bore \in Nat \cup {NULL} /\ f.cc \in Nat \cup {NULL}
           /\ f = [spec |-> f.spec, kerb |-> f.kerb, dry |-> f.dry, bore |-> f.bore, cc |-> f.cc]
BY DEF Figures

LEMMA SameColumns ==
    ASSUME NEW f \in Figures, NEW g \in Figures,
           f.spec = g.spec, f.kerb = g.kerb, f.dry = g.dry, f.bore = g.bore, f.cc = g.cc
    PROVE  f = g
BY Columns

LEMMA FilledColumns ==
    ASSUME NEW f \in Figures, NEW s \in Figures
    PROVE  Filled(f, s) = [spec |-> Coalesce(f.spec, s.spec), kerb |-> Coalesce(f.kerb, s.kerb),
                           dry |-> Coalesce(f.dry, s.dry), bore |-> Coalesce(f.bore, s.bore),
                           cc |-> Coalesce(f.cc, s.cc)]
<1>1. DOMAIN f = {"spec", "kerb", "dry", "bore", "cc"}
  BY Columns
<1>2. QED
  BY <1>1 DEF Filled

LEMMA CoalesceType ==
    ASSUME NEW S, NEW x \in S \cup {NULL}, NEW y \in S \cup {NULL}
    PROVE  Coalesce(x, y) \in S \cup {NULL}
BY DEF Coalesce

LEMMA AColumnEach ==
    ASSUME NEW x \in Specs \cup {NULL}, NEW k \in Nat \cup {NULL}, NEW d \in Nat \cup {NULL},
           NEW b \in Nat \cup {NULL}, NEW c \in Nat \cup {NULL}
    PROVE  [spec |-> x, kerb |-> k, dry |-> d, bore |-> b, cc |-> c] \in Figures
BY DEF Figures

LEMMA CoalescedTypes ==
    ASSUME NEW f \in Figures, NEW s \in Figures
    PROVE  /\ Coalesce(f.spec, s.spec) \in Specs \cup {NULL}
           /\ Coalesce(f.kerb, s.kerb) \in Nat \cup {NULL}
           /\ Coalesce(f.dry, s.dry) \in Nat \cup {NULL}
           /\ Coalesce(f.bore, s.bore) \in Nat \cup {NULL}
           /\ Coalesce(f.cc, s.cc) \in Nat \cup {NULL}
BY Columns, CoalesceType

LEMMA FilledTypes ==
    ASSUME NEW f \in Figures, NEW s \in Figures
    PROVE  Filled(f, s) \in Figures
BY FilledColumns, CoalescedTypes DEF Figures

\* The columns of every kind of merge.
LEMMA FilledEngineColumns ==
    ASSUME NEW f \in Figures, NEW s \in Figures
    PROVE  /\ FilledEngine(f, s) \in Figures
           /\ FilledEngine(f, s) =
                 [spec |-> Coalesce(f.spec, s.spec), kerb |-> f.kerb, dry |-> f.dry,
                  bore |-> Coalesce(f.bore, s.bore), cc |-> Coalesce(f.cc, s.cc)]
<1>1. FilledEngine(f, s) =
                 [spec |-> Coalesce(f.spec, s.spec), kerb |-> f.kerb, dry |-> f.dry,
                  bore |-> Coalesce(f.bore, s.bore), cc |-> Coalesce(f.cc, s.cc)]
  <2>1. DOMAIN f = {"spec", "kerb", "dry", "bore", "cc"}
    BY Columns
  <2>2. QED
    BY <2>1 DEF FilledEngine
<1>2. QED
  BY <1>1, Columns, CoalescedTypes DEF Figures

LEMMA WithoutBore ==
    ASSUME NEW m \in Figures, NEW b \in Nat \cup {NULL}
    PROVE  /\ [m EXCEPT !.bore = b] \in Figures
           /\ [m EXCEPT !.bore = b] =
                 [spec |-> m.spec, kerb |-> m.kerb, dry |-> m.dry, bore |-> b, cc |-> m.cc]
<1>1. [m EXCEPT !.bore = b] = [spec |-> m.spec, kerb |-> m.kerb, dry |-> m.dry, bore |-> b, cc |-> m.cc]
  BY Columns
<1>2. QED
  BY <1>1, Columns DEF Figures

LEMMA WithDry ==
    ASSUME NEW m \in Figures, NEW d \in Nat \cup {NULL}
    PROVE  /\ [m EXCEPT !.dry = d] \in Figures
           /\ [m EXCEPT !.dry = d] =
                 [spec |-> m.spec, kerb |-> m.kerb, dry |-> d, bore |-> m.bore, cc |-> m.cc]
<1>1. [m EXCEPT !.dry = d] = [spec |-> m.spec, kerb |-> m.kerb, dry |-> d, bore |-> m.bore, cc |-> m.cc]
  BY Columns
<1>2. QED
  BY <1>1, Columns DEF Figures

LEMMA WithCc ==
    ASSUME NEW m \in Figures, NEW x \in Nat \cup {NULL}
    PROVE  /\ [m EXCEPT !.cc = x] \in Figures
           /\ [m EXCEPT !.cc = x] =
                 [spec |-> m.spec, kerb |-> m.kerb, dry |-> m.dry, bore |-> m.bore, cc |-> x]
<1>1. [m EXCEPT !.cc = x] = [spec |-> m.spec, kerb |-> m.kerb, dry |-> m.dry, bore |-> m.bore, cc |-> x]
  BY Columns
<1>2. QED
  BY <1>1, Columns DEF Figures

LEMMA WithSpec ==
    ASSUME NEW m \in Figures, NEW x \in Specs \cup {NULL}
    PROVE  /\ [m EXCEPT !.spec = x] \in Figures
           /\ [m EXCEPT !.spec = x] =
                 [spec |-> x, kerb |-> m.kerb, dry |-> m.dry, bore |-> m.bore, cc |-> m.cc]
<1>1. [m EXCEPT !.spec = x] = [spec |-> x, kerb |-> m.kerb, dry |-> m.dry, bore |-> m.bore, cc |-> m.cc]
  BY Columns
<1>2. QED
  BY <1>1, Columns DEF Figures

\* What 1000ps makes of a row.
LEMMA EuropeColumns ==
    ASSUME NEW f \in Figures, NEW s \in Figures
    PROVE  /\ Merged("1000ps", f, s) \in Figures
           /\ Merged("1000ps", f, s) =
                 [spec |-> Coalesce(f.spec, s.spec), kerb |-> Coalesce(f.kerb, s.kerb),
                  dry |-> FittingDry(f, s), bore |-> FittingBore(f, s), cc |-> Coalesce(f.cc, s.cc)]
<1>1. Merged("1000ps", f, s) = Fitted(f, s)
  BY DEF Merged
<1>2. Fitted(f, s) =
          [spec |-> Coalesce(f.spec, s.spec), kerb |-> Coalesce(f.kerb, s.kerb),
           dry |-> FittingDry(f, s), bore |-> FittingBore(f, s), cc |-> Coalesce(f.cc, s.cc)]
  <2>1. DOMAIN f = {"spec", "kerb", "dry", "bore", "cc"}
    BY Columns
  <2>2. QED
    BY <2>1 DEF Fitted
<1>3. FittingDry(f, s) \in Nat \cup {NULL} /\ FittingBore(f, s) \in Nat \cup {NULL}
  BY CoalescedTypes DEF FittingDry, FittingBore
<1>4. QED
  BY <1>1, <1>2, <1>3, CoalescedTypes DEF Figures

\* A merge is one of six.
LEMMA MergedCases ==
    ASSUME NEW f, NEW s
    PROVE  /\ \A kind \in {"brand", "triumph"} : Merged(kind, f, s) = Filled(f, s)
           /\ Merged("engine", f, s) = FilledEngine(f, s)
           /\ Merged("displacement", f, s) = [f EXCEPT !.cc = Coalesce(f.cc, s.cc)]
           /\ Merged("research", f, s) = Overruled(f, s)
           /\ Merged("gapfill", f, s) = Withdrawn(f, s)
           /\ Merged("patch", f, s) = [f EXCEPT !.spec = Coalesce(f.spec, s.spec)]
           /\ \A kind \in {"dev", "fipe", "countries"} : Merged(kind, f, s) = f
BY DEF Merged

LEMMA MergedTypes ==
    ASSUME NEW kind \in Kinds, NEW f \in Figures, NEW s \in Figures
    PROVE  Merged(kind, f, s) \in Figures
<1>1. CASE kind \in {"brand", "triumph"}
  BY <1>1, MergedCases, FilledTypes
<1>2. CASE kind = "engine"
  BY <1>2, MergedCases, FilledEngineColumns
<1>3. CASE kind = "displacement"
  <2>1. [f EXCEPT !.cc = Coalesce(f.cc, s.cc)] \in Figures
    <3>1. Coalesce(f.cc, s.cc) \in Nat \cup {NULL}
      BY CoalescedTypes
    <3>2. ASSUME NEW x \in Nat \cup {NULL} PROVE [f EXCEPT !.cc = x] \in Figures
      BY WithCc
    <3>3. QED
      BY <3>1, <3>2
  <2>2. QED
    BY <1>3, <2>1, MergedCases
<1>4. CASE kind = "research"
  <2>1. FilledEngine(f, s) \in Figures
    BY FilledEngineColumns
  <2>2. [FilledEngine(f, s) EXCEPT !.bore = s.bore] \in Figures
    BY <2>1, WithoutBore, Columns
  <2>3. QED
    BY <1>4, <2>1, <2>2, MergedCases DEF Overruled
<1>5. CASE kind = "gapfill"
  <2>1. [Filled(f, s) EXCEPT !.bore = NULL] \in Figures
    BY FilledTypes, WithoutBore
  <2>2. QED
    BY <1>5, <2>1, FilledTypes, MergedCases DEF Withdrawn
<1>6. CASE kind = "patch"
  <2>1. [f EXCEPT !.spec = Coalesce(f.spec, s.spec)] \in Figures
    <3>1. Coalesce(f.spec, s.spec) \in Specs \cup {NULL}
      BY CoalescedTypes
    <3>2. ASSUME NEW x \in Specs \cup {NULL} PROVE [f EXCEPT !.spec = x] \in Figures
      BY WithSpec
    <3>3. QED
      BY <3>1, <3>2
  <2>2. QED
    BY <1>6, <2>1, MergedCases
<1>7. CASE kind \in {"dev", "fipe", "countries"}
  BY <1>7, MergedCases
<1>8. CASE kind = "1000ps"
  BY <1>8, EuropeColumns
<1>9. QED
  BY <1>1, <1>2, <1>3, <1>4, <1>5, <1>6, <1>7, <1>8 DEF Kinds
------------------------------------------------------------------------------
(* What a script makes of one bike *)

Table == [Names -> Bike \cup {Missing}]

\* Editions are numbers that are deployed, and recorded: the part of TypeOK about Flyway,
\* and that both are functions of the scripts.
Deployed ==
    /\ DOMAIN edition = DOMAIN Scripts /\ DOMAIN recorded = DOMAIN Scripts
    /\ \A i \in DOMAIN Scripts :
          /\ edition[i] \in DOMAIN Scripts[i].editions
          /\ recorded[i] \in 0..edition[i]

LEMMA StagedTypes ==
    ASSUME Deployed, NEW i \in DOMAIN Scripts, NEW n \in Names
    PROVE  /\ Staged(i)[n] \in Figures \cup {Missing}
           /\ Staged(i)[n] # Missing =>
                 /\ ~Above(Staged(i)[n].dry, Staged(i)[n].kerb)
                 /\ Scripts[i].kind \in {"gapfill", "1000ps"} =>
                       ~Contradict(Staged(i)[n].bore, Staged(i)[n].cc, 5)
<1>1. edition[i] \in DOMAIN Scripts[i].editions
  BY DEF Deployed
<1>2. Staged(i) \in [Names -> Figures \cup {Missing}]
  BY <1>1, ScriptTypes DEF Staged
<1>3. QED
  BY <1>1, <1>2, ScriptAssumption DEF Staged

LEMMA MissingIsNoBike == Missing \notin Figures /\ Missing \notin Bike
BY ValueAssumption

\* What a script makes of one bike is what one of five cases says, which exclude one another.
OneBike(i, n, table) ==
    CASE Inserts(i, n, table) -> Created(Scripts[i].kind, Staged(i)[n])
      [] Meets(i, n, table) ->
            [table[n] EXCEPT !.figures = Merged(Scripts[i].kind, table[n].figures, Staged(i)[n]),
                             !.version = Bumped(Scripts[i].kind, table[n], Staged(i)[n])]
      [] Scripts[i].kind = "countries" /\ table[n] # Missing -> [table[n] EXCEPT !.brazil = TRUE]
      [] Scripts[i].kind = "dev" /\ ~Inserts(i, n, table) -> Missing
      [] OTHER -> table[n]

LEMMA EffectOnOne ==
    ASSUME NEW i, NEW table, NEW n \in Names
    PROVE  Effect(i, table)[n] = OneBike(i, n, table)
BY DEF Effect, OneBike

LEMMA CasesExclude ==
    ASSUME NEW i, NEW table, NEW n
    PROVE  /\ Scripts[i].kind = "countries" => ~Inserts(i, n, table) /\ ~Meets(i, n, table)
           /\ Scripts[i].kind = "dev" => ~Meets(i, n, table) /\ Scripts[i].kind # "countries"
           /\ Meets(i, n, table) => ~Inserts(i, n, table)
<1>1. /\ Scripts[i].kind = "countries" => ~Inserts(i, n, table) /\ ~Meets(i, n, table)
      /\ Scripts[i].kind = "dev" => ~Meets(i, n, table)
      /\ Meets(i, n, table) => ~Inserts(i, n, table)
  BY DEF Inserts, Meets, Creates
<1>2. Scripts[i].kind = "dev" => Scripts[i].kind # "countries"
  OBVIOUS
<1>3. QED
  BY <1>1, <1>2, Zenon

LEMMA EffectInserted ==
    ASSUME NEW i, NEW table, NEW n \in Names, Inserts(i, n, table)
    PROVE  Effect(i, table)[n] = Created(Scripts[i].kind, Staged(i)[n])
<1>1. OneBike(i, n, table) = Created(Scripts[i].kind, Staged(i)[n])
  BY CasesExclude, Zenon DEF OneBike
<1>2. QED
  BY <1>1, EffectOnOne, Zenon

LEMMA EffectMet ==
    ASSUME NEW i, NEW table, NEW n \in Names, Meets(i, n, table)
    PROVE  Effect(i, table)[n] = [table[n] EXCEPT
                   !.figures = Merged(Scripts[i].kind, table[n].figures, Staged(i)[n]),
                   !.version = Bumped(Scripts[i].kind, table[n], Staged(i)[n])]
<1>1. OneBike(i, n, table) = [table[n] EXCEPT
                   !.figures = Merged(Scripts[i].kind, table[n].figures, Staged(i)[n]),
                   !.version = Bumped(Scripts[i].kind, table[n], Staged(i)[n])]
  BY CasesExclude, Zenon DEF OneBike
<1>2. QED
  BY <1>1, EffectOnOne, Zenon

LEMMA EffectStamped ==
    ASSUME NEW i, NEW table, NEW n \in Names, Scripts[i].kind = "countries", table[n] # Missing
    PROVE  Effect(i, table)[n] = [table[n] EXCEPT !.brazil = TRUE]
<1>1. OneBike(i, n, table) = [table[n] EXCEPT !.brazil = TRUE]
  BY CasesExclude, Zenon DEF OneBike
<1>2. QED
  BY <1>1, EffectOnOne, Zenon

LEMMA EffectDropped ==
    ASSUME NEW i, NEW table, NEW n \in Names, Scripts[i].kind = "dev", ~Inserts(i, n, table)
    PROVE  Effect(i, table)[n] = Missing
<1>1. OneBike(i, n, table) = Missing
  BY CasesExclude, Zenon DEF OneBike
<1>2. QED
  BY <1>1, EffectOnOne, Zenon

LEMMA EffectKept ==
    ASSUME NEW i, NEW table, NEW n \in Names, ~Inserts(i, n, table), ~Meets(i, n, table),
           ~(Scripts[i].kind = "countries" /\ table[n] # Missing), Scripts[i].kind # "dev"
    PROVE  Effect(i, table)[n] = table[n]
<1>1. OneBike(i, n, table) = table[n]
  BY CasesExclude, Zenon DEF OneBike
<1>2. QED
  BY <1>1, EffectOnOne, Zenon

\* A bike by its columns.
LEMMA BikeFields ==
    ASSUME NEW b \in Bike
    PROVE  /\ b.figures \in Figures /\ b.version \in Nat /\ b.brazil \in BOOLEAN
           /\ b.origin \in Kinds \cup {"admin"} /\ DOMAIN b = {"figures", "version", "brazil", "origin"}
           /\ b = [figures |-> b.figures, version |-> b.version, brazil |-> b.brazil,
                   origin |-> b.origin]
BY DEF Bike

LEMMA BikeTypes ==
    ASSUME NEW f \in Figures, NEW v \in Nat, NEW z \in BOOLEAN, NEW o \in Kinds \cup {"admin"}
    PROVE  [figures |-> f, version |-> v, brazil |-> z, origin |-> o] \in Bike
BY DEF Bike

LEMMA CreatedTypes ==
    ASSUME NEW kind \in Kinds, NEW s \in Figures
    PROVE  /\ Created(kind, s) \in Bike /\ Created(kind, s).figures = s
           /\ Created(kind, s).version = 0 /\ Created(kind, s).brazil = FALSE
           /\ Created(kind, s).origin = kind
<1>1. Created(kind, s) \in Bike
  BY DEF Created, Bike
<1>2. QED
  BY <1>1 DEF Created

LEMMA BumpedTypes ==
    ASSUME NEW kind, NEW b \in Bike, NEW s
    PROVE  Bumped(kind, b, s) \in Nat
BY BikeFields DEF Bumped

LEMMA StampedTypes ==
    ASSUME NEW b \in Bike
    PROVE  /\ [b EXCEPT !.brazil = TRUE] \in Bike
           /\ [b EXCEPT !.brazil = TRUE].figures = b.figures
           /\ [b EXCEPT !.brazil = TRUE].origin = b.origin
           /\ [b EXCEPT !.brazil = TRUE].brazil = TRUE
           /\ [b EXCEPT !.brazil = TRUE].version = b.version
<1> DEFINE stamped(z) ==
             [figures |-> b.figures, version |-> b.version, brazil |-> z, origin |-> b.origin]
<1>1. ASSUME NEW z PROVE [b EXCEPT !.brazil = z] = stamped(z)
  BY BikeFields
<1>2. [b EXCEPT !.brazil = TRUE] = stamped(TRUE)
  BY <1>1
<1>3. QED
  BY <1>2, BikeFields DEF Bike
LEMMA TwoFieldsChanged ==
    ASSUME NEW b, DOMAIN b = {"figures", "version", "brazil", "origin"}, NEW x, NEW y
    PROVE  [b EXCEPT !.figures = x, !.version = y] =
               [c \in DOMAIN b |-> IF c = "figures" THEN x ELSE IF c = "version" THEN y ELSE b[c]]
OBVIOUS

LEMMA MetFields ==
    ASSUME Deployed, NEW i \in DOMAIN Scripts, NEW table \in Table, NEW n \in Names,
           Meets(i, n, table)
    PROVE  /\ table[n] \in Bike /\ Staged(i)[n] \in Figures
           /\ Effect(i, table)[n] \in Bike
           /\ Effect(i, table)[n].figures =
                  Merged(Scripts[i].kind, table[n].figures, Staged(i)[n])
           /\ Effect(i, table)[n].version = Bumped(Scripts[i].kind, table[n], Staged(i)[n])
           /\ Effect(i, table)[n].brazil = table[n].brazil
           /\ Effect(i, table)[n].origin = table[n].origin
<1> DEFINE b == table[n]
           f == Merged(Scripts[i].kind, b.figures, Staged(i)[n])
           v == Bumped(Scripts[i].kind, b, Staged(i)[n])
           e == [b EXCEPT !.figures = f, !.version = v]
<1>1. table[n] \in Bike /\ Staged(i)[n] \in Figures
  BY StagedTypes DEF Meets, Table
<1>2. f \in Figures
  <2>1. Scripts[i].kind \in Kinds /\ b.figures \in Figures
    BY <1>1, ScriptTypes, BikeFields
  <2>2. QED
    BY <1>1, <2>1, MergedTypes
<1>3. v \in Nat
  BY <1>1, BumpedTypes
<1>4. DOMAIN b = {"figures", "version", "brazil", "origin"}
  BY <1>1, BikeFields
<1> HIDE DEF b, f, v
<1>5. e = [figures |-> f, version |-> v, brazil |-> b.brazil, origin |-> b.origin]
  <2>1. e = [c \in DOMAIN b |-> IF c = "figures" THEN f ELSE IF c = "version" THEN v ELSE b[c]]
    BY <1>4, TwoFieldsChanged
  <2> HIDE DEF e
  <2>2. QED
    BY <1>4, <2>1
<1>6. /\ e \in Bike /\ e.figures = f /\ e.version = v /\ e.brazil = b.brazil
      /\ e.origin = b.origin
  BY <1>1, <1>2, <1>3, <1>5, BikeFields DEF Bike, b
<1>7. Effect(i, table)[n] = e
  BY EffectMet, Zenon DEF f, v, b
<1> HIDE DEF e
<1>8. QED
  BY <1>1, <1>6, <1>7 DEF f, v, b

\* What holds of the bikes before it holds of them after any script: a type.
LEMMA EffectTypes ==
    ASSUME Deployed, NEW i \in DOMAIN Scripts, NEW table \in Table
    PROVE  Effect(i, table) \in Table
<1>1. ASSUME NEW n \in Names PROVE Effect(i, table)[n] \in Bike \cup {Missing}
  <2>1. CASE Inserts(i, n, table)
    <3>1. Staged(i)[n] \in Figures
      BY <2>1, StagedTypes DEF Inserts
    <3>2. Created(Scripts[i].kind, Staged(i)[n]) \in Bike
      BY <3>1, CreatedTypes, ScriptTypes
    <3>3. QED
      BY <2>1, <3>2, EffectInserted
  <2>2. CASE Meets(i, n, table)
    BY <2>2, MetFields
  <2>3. CASE Scripts[i].kind = "countries" /\ table[n] # Missing
    <3>1. table[n] \in Bike
      BY <2>3 DEF Table
    <3>2. [table[n] EXCEPT !.brazil = TRUE] \in Bike
      BY <3>1, StampedTypes
    <3>3. Effect(i, table)[n] = [table[n] EXCEPT !.brazil = TRUE]
      BY <2>3, EffectStamped
    <3>4. QED
      BY <3>2, <3>3, Zenon
  <2>4. CASE ~Inserts(i, n, table) /\ ~Meets(i, n, table)
             /\ ~(Scripts[i].kind = "countries" /\ table[n] # Missing)
    <3>1. Effect(i, table)[n] \in {Missing, table[n]}
      BY <2>4, EffectDropped, EffectKept
    <3>2. QED
      BY <3>1 DEF Table
  <2>5. QED
    BY <2>1, <2>2, <2>3, <2>4
<1>2. Effect(i, table) = [n \in Names |-> Effect(i, table)[n]]
  BY DEF Effect
<1>3. QED
  BY <1>1, <1>2 DEF Table

LEMMA RejectsValues ==
    ASSUME NEW i, NEW table
    PROVE  Rejects(i, table) \in {"no", "weights", "geometry", "displacement"}
BY Zenon DEF Rejects
------------------------------------------------------------------------------
(* Types *)

Typed == TypeOK /\ Deployed

LEMMA EditionTypes ==
    ASSUME Deployed, NEW i \in DOMAIN Scripts
    PROVE  /\ edition[i] \in Nat \ {0} /\ edition[i] <= Len(Scripts[i].editions)
           /\ recorded[i] \in 0..edition[i] /\ recorded[i] \in Nat
<1>1. edition[i] \in 1..Len(Scripts[i].editions) /\ Len(Scripts[i].editions) \in Nat
  BY ScriptTypes DEF Deployed
<1>2. recorded[i] \in 0..edition[i]
  BY DEF Deployed
<1>3. QED
  BY <1>1, <1>2

LEMMA InitTyped == Init => Typed
<1> SUFFICES ASSUME Init PROVE Typed
  OBVIOUS
<1>1. bikes \in Table
  BY DEF Init, Table
<1>2. \A i \in DOMAIN Scripts : 1 \in DOMAIN Scripts[i].editions
  BY ScriptTypes
<1>3. Deployed
  BY <1>2 DEF Init, Deployed
<1>4. QED
  BY <1>1, <1>3, BoundAssumption DEF Init, Typed, TypeOK, Deployed, Table

\* What PUT or POST makes of a row.
Written(b, body) ==
    [figures |-> body.figures, brazil |-> body.brazil,
     version |-> IF b = Missing THEN 0 ELSE b.version + 1,
     origin |-> IF b = Missing THEN "admin" ELSE b.origin]

LEMMA WrittenTypes ==
    ASSUME NEW b \in Bike \cup {Missing}, NEW body \in Bodies
    PROVE  Written(b, body) \in Bike
<1>1. body.figures \in Figures /\ body.brazil \in BOOLEAN
  BY BodyAssumption
<1>2. (IF b = Missing THEN 0 ELSE b.version + 1) \in Nat
  BY BikeFields
<1>3. (IF b = Missing THEN "admin" ELSE b.origin) \in Kinds \cup {"admin"}
  BY BikeFields
<1>4. QED
  BY <1>1, <1>2, <1>3 DEF Written, Bike

LEMMA WriteChanges ==
    ASSUME NEW n \in Names, Write(n)
    PROVE  \E body \in Bodies : bikes' = [bikes EXCEPT ![n] = Written(bikes[n], body)]
BY Zenon DEF Write, Written

LEMMA NextTyped == Typed /\ [Next]_vars => Typed'
<1> SUFFICES ASSUME Typed, [Next]_vars PROVE Typed'
  OBVIOUS
<1>0. Deployed /\ bikes \in Table
  BY DEF Typed, TypeOK, Table
<1>1. CASE Boot
  BY <1>1 DEF Boot, Typed, TypeOK, Deployed
<1>2. CASE Apply
  <2>1. Current \in DOMAIN Scripts
    BY <1>2, CurrentIsFirst DEF Apply
  <2>2. bikes' \in Table
    BY <1>0, <1>2, <2>1, EffectTypes DEF Apply
  <2>3. byAdmin' \subseteq Names
    BY <1>2 DEF Apply, Typed, TypeOK
  <2>4. QED
    BY <1>2, <2>2, <2>3 DEF Apply, Typed, TypeOK, Deployed, Table
<1>3. CASE Abort
  <2>1. stopped' \in {"no", "weights", "geometry", "displacement"}
    BY <1>3, RejectsValues DEF Abort
  <2>2. QED
    BY <1>3, <2>1 DEF Abort, Typed, TypeOK, Deployed
<1>4. CASE Record
  <2>1. \A i \in DOMAIN Scripts : recorded'[i] \in 0..edition[i]
    <3> TAKE i \in DOMAIN Scripts
    <3>1. recorded'[i] \in {recorded[i], edition[i]}
      BY <1>0, <1>4 DEF Record, Checksum, Deployed
    <3>2. QED
      BY <1>0, <3>1, EditionTypes
  <2>2. DOMAIN recorded' = DOMAIN Scripts
    BY <1>0, <1>4 DEF Record, Deployed
  <2>3. QED
    BY <1>4, <2>1, <2>2 DEF Record, Typed, TypeOK, Deployed
<1>5. CASE Serve
  BY <1>5 DEF Serve, Typed, TypeOK, Deployed
<1>6. ASSUME NEW n \in Names, Write(n) PROVE Typed'
  <2>1. PICK body \in Bodies : bikes' = [bikes EXCEPT ![n] = Written(bikes[n], body)]
    BY <1>6, WriteChanges
  <2>2. Written(bikes[n], body) \in Bike
    BY <1>0, WrittenTypes DEF Table
  <2>3. bikes' \in Table
    BY <1>0, <2>1, <2>2 DEF Table
  <2>4. writes' \in 0..MaxWrites
    BY <1>6, BoundAssumption DEF Write, Typed, TypeOK
  <2>5. byAdmin' \subseteq Names
    BY <1>6 DEF Write, Typed, TypeOK
  <2>6. UNCHANGED <<edition, recorded, phase, stopped, crashes>>
    BY <1>6 DEF Write
  <2>7. QED
    BY <2>3, <2>4, <2>5, <2>6 DEF Typed, TypeOK, Deployed, Table
<1>7. ASSUME NEW n \in Names, Delete(n) PROVE Typed'
  <2>1. bikes' \in Table
    BY <1>0, <1>7 DEF Delete, Table
  <2>2. writes' \in 0..MaxWrites
    BY <1>7, BoundAssumption DEF Delete, Typed, TypeOK
  <2>3. QED
    BY <1>7, <2>1, <2>2 DEF Delete, Typed, TypeOK, Deployed, Table
<1>8. ASSUME NEW i \in DOMAIN Scripts, Edit(i) PROVE Typed'
  <2>1. \A j \in DOMAIN Scripts :
            edition'[j] \in DOMAIN Scripts[j].editions /\ recorded'[j] \in 0..edition'[j]
    <3> TAKE j \in DOMAIN Scripts
    <3>1. CASE j = i
      <4>1. edition'[i] = edition[i] + 1 /\ recorded'[i] = recorded[i]
        BY <1>0, <1>8 DEF Edit, Deployed
      <4>2. edition[i] < Len(Scripts[i].editions)
        BY <1>8 DEF Edit
      <4>3. QED
        BY <1>0, <3>1, <4>1, <4>2, EditionTypes, ScriptTypes
    <3>2. CASE j # i
      BY <1>0, <1>8, <3>2 DEF Edit, Deployed
    <3>3. QED
      BY <3>1, <3>2
  <2>2. DOMAIN edition' = DOMAIN Scripts
    BY <1>0, <1>8 DEF Edit, Deployed
  <2>3. QED
    BY <1>8, <2>1, <2>2 DEF Edit, Typed, TypeOK, Deployed
<1>9. CASE Shutdown
  BY <1>9 DEF Shutdown, Typed, TypeOK, Deployed
<1>10. CASE Crash
  <2>1. crashes' \in 0..MaxCrashes
    BY <1>10, BoundAssumption DEF Crash, Typed, TypeOK
  <2>2. QED
    BY <1>10, <2>1 DEF Crash, Typed, TypeOK, Deployed
<1>11. CASE UNCHANGED vars
  BY <1>11 DEF vars, Typed, TypeOK, Deployed
<1>12. QED
  BY <1>1, <1>2, <1>3, <1>4, <1>5, <1>6, <1>7, <1>8, <1>9, <1>10, <1>11 DEF Next, Migrate

LEMMA AlwaysTyped == Spec => []Typed
BY InitTyped, NextTyped, PTL DEF Spec

\* The catalogue, Flyway's history and the boot hold values of their types, through every
\* order of boots, edits, rejected scripts, writes of admins and crashes.
THEOREM TypeCorrect == Spec => []TypeOK
<1>1. Typed => TypeOK
  BY DEF Typed
<1>2. QED
  BY <1>1, AlwaysTyped, PTL
------------------------------------------------------------------------------
(* Merging the same row twice *)

\* The columns of a merge that is not that of 1000ps, but for the bore: filled, or left alone.
LEMMA MergedColumns ==
    ASSUME NEW kind \in Kinds, NEW f \in Figures, NEW s \in Figures
    PROVE  LET m == Merged(kind, f, s) IN
           /\ m \in Figures
           /\ kind \in {"brand", "triumph", "gapfill", "1000ps"} =>
                 /\ m.spec = Coalesce(f.spec, s.spec) /\ m.kerb = Coalesce(f.kerb, s.kerb)
                 /\ m.cc = Coalesce(f.cc, s.cc)
                 /\ kind # "1000ps" => m.dry = Coalesce(f.dry, s.dry)
           /\ kind \in {"brand", "triumph"} => m.bore = Coalesce(f.bore, s.bore)
           /\ kind \in {"engine", "research"} =>
                 /\ m.spec = Coalesce(f.spec, s.spec) /\ m.kerb = f.kerb /\ m.dry = f.dry
                 /\ m.cc = Coalesce(f.cc, s.cc)
                 /\ kind = "engine" => m.bore = Coalesce(f.bore, s.bore)
           /\ kind = "displacement" =>
                 /\ m.spec = f.spec /\ m.kerb = f.kerb /\ m.dry = f.dry /\ m.bore = f.bore
                 /\ m.cc = Coalesce(f.cc, s.cc)
           /\ kind = "patch" =>
                 /\ m.spec = Coalesce(f.spec, s.spec)
                 /\ m.kerb = f.kerb /\ m.dry = f.dry /\ m.bore = f.bore /\ m.cc = f.cc
           /\ kind \in {"dev", "fipe", "countries"} => m = f
           /\ kind = "1000ps" => m.dry = FittingDry(f, s) /\ m.bore = FittingBore(f, s)
           /\ kind = "gapfill" =>
                 LET b == Coalesce(f.bore, s.bore)
                 IN  m.bore = IF b = s.bore /\ Contradict(b, m.cc, 5) THEN NULL ELSE b
           /\ kind = "research" =>
                 LET b == Coalesce(f.bore, s.bore)
                 IN  m.bore = IF /\ s.bore # NULL /\ Contradict(b, m.cc, 2)
                                 /\ ~Contradict(s.bore, m.cc, 2)
                              THEN s.bore ELSE b
<1> DEFINE m == Merged(kind, f, s)
<1>0. m \in Figures
  BY MergedTypes
<1> HIDE DEF m
<1>1. CASE kind \in {"brand", "triumph"}
  <2>1. m = Filled(f, s)
    BY <1>1, MergedCases DEF m
  <2>2. /\ m.spec = Coalesce(f.spec, s.spec) /\ m.kerb = Coalesce(f.kerb, s.kerb)
        /\ m.dry = Coalesce(f.dry, s.dry) /\ m.bore = Coalesce(f.bore, s.bore)
        /\ m.cc = Coalesce(f.cc, s.cc)
    BY <2>1, FilledColumns
  <2>3. QED
    BY <1>0, <1>1, <2>2 DEF m
<1>2. CASE kind = "engine"
  <2>1. m = FilledEngine(f, s)
    BY <1>2, MergedCases DEF m
  <2>2. /\ m.spec = Coalesce(f.spec, s.spec) /\ m.kerb = f.kerb /\ m.dry = f.dry
        /\ m.bore = Coalesce(f.bore, s.bore) /\ m.cc = Coalesce(f.cc, s.cc)
    <3>1. m = [spec |-> Coalesce(f.spec, s.spec), kerb |-> f.kerb, dry |-> f.dry,
               bore |-> Coalesce(f.bore, s.bore), cc |-> Coalesce(f.cc, s.cc)]
      BY <2>1, FilledEngineColumns
    <3>2. QED
      BY <3>1
  <2>3. QED
    BY <1>0, <1>2, <2>2 DEF m
<1>3. CASE kind = "displacement"
  <2>1. m = [f EXCEPT !.cc = Coalesce(f.cc, s.cc)]
    BY <1>3, MergedCases DEF m
  <2>2. /\ m.spec = f.spec /\ m.kerb = f.kerb /\ m.dry = f.dry /\ m.bore = f.bore
        /\ m.cc = Coalesce(f.cc, s.cc)
    BY <2>1, Columns
  <2>3. QED
    BY <1>0, <1>3, <2>2 DEF m
<1>4. CASE kind = "patch"
  <2>1. m = [f EXCEPT !.spec = Coalesce(f.spec, s.spec)]
    BY <1>4, MergedCases DEF m
  <2>2. /\ m.spec = Coalesce(f.spec, s.spec)
        /\ m.kerb = f.kerb /\ m.dry = f.dry /\ m.bore = f.bore /\ m.cc = f.cc
    BY <2>1, Columns
  <2>3. QED
    BY <1>0, <1>4, <2>2 DEF m
<1>5. CASE kind \in {"dev", "fipe", "countries"}
  <2>1. m = f
    BY <1>5, MergedCases DEF m
  <2>2. QED
    BY <1>0, <1>5, <2>1 DEF m
<1>6. CASE kind = "1000ps"
  <2>1. /\ m.spec = Coalesce(f.spec, s.spec) /\ m.kerb = Coalesce(f.kerb, s.kerb)
        /\ m.cc = Coalesce(f.cc, s.cc)
        /\ m.dry = FittingDry(f, s) /\ m.bore = FittingBore(f, s)
    <3>1. m = [spec |-> Coalesce(f.spec, s.spec), kerb |-> Coalesce(f.kerb, s.kerb),
               dry |-> FittingDry(f, s), bore |-> FittingBore(f, s), cc |-> Coalesce(f.cc, s.cc)]
      BY <1>6, EuropeColumns DEF m
    <3>2. QED
      BY <3>1
  <2>2. QED
    BY <1>0, <1>6, <2>1 DEF m
<1>7. CASE kind = "gapfill"
  <2> DEFINE g == Filled(f, s)
             b == Coalesce(f.bore, s.bore)
  <2>1. m = IF g.bore = s.bore /\ Contradict(g.bore, g.cc, 5) THEN [g EXCEPT !.bore = NULL] ELSE g
    BY <1>7, MergedCases DEF m, Withdrawn
  <2>2. /\ g.spec = Coalesce(f.spec, s.spec) /\ g.kerb = Coalesce(f.kerb, s.kerb)
        /\ g.dry = Coalesce(f.dry, s.dry) /\ g.bore = b /\ g.cc = Coalesce(f.cc, s.cc)
        /\ g \in Figures
    <3>1. /\ g = [spec |-> Coalesce(f.spec, s.spec), kerb |-> Coalesce(f.kerb, s.kerb),
                  dry |-> Coalesce(f.dry, s.dry), bore |-> b, cc |-> Coalesce(f.cc, s.cc)]
          /\ g \in Figures
      BY FilledColumns, FilledTypes
    <3> HIDE DEF g
    <3>2. QED
      BY <3>1
  <2> HIDE DEF g, b
  <2>3. /\ m.spec = g.spec /\ m.kerb = g.kerb /\ m.dry = g.dry /\ m.cc = g.cc
        /\ m.bore = IF g.bore = s.bore /\ Contradict(g.bore, g.cc, 5) THEN NULL ELSE g.bore
    BY <2>1, <2>2, Columns
  <2>4. m.bore = IF b = s.bore /\ Contradict(b, m.cc, 5) THEN NULL ELSE b
    BY <2>2, <2>3
  <2>5. QED
    BY <1>0, <1>7, <2>2, <2>3, <2>4 DEF m, b
<1>8. CASE kind = "research"
  <2> DEFINE g == FilledEngine(f, s)
             b == Coalesce(f.bore, s.bore)
  <2>1. m = IF s.bore # NULL /\ Contradict(g.bore, g.cc, 2) /\ ~Contradict(s.bore, g.cc, 2)
            THEN [g EXCEPT !.bore = s.bore] ELSE g
    BY <1>8, MergedCases DEF m, Overruled
  <2>2. /\ g.spec = Coalesce(f.spec, s.spec) /\ g.kerb = f.kerb /\ g.dry = f.dry
        /\ g.bore = b /\ g.cc = Coalesce(f.cc, s.cc) /\ g \in Figures
    <3>1. /\ g = [spec |-> Coalesce(f.spec, s.spec), kerb |-> f.kerb, dry |-> f.dry,
                  bore |-> b, cc |-> Coalesce(f.cc, s.cc)]
          /\ g \in Figures
      BY FilledEngineColumns
    <3> HIDE DEF g
    <3>2. QED
      BY <3>1
  <2> HIDE DEF g, b
  <2>3. /\ m.spec = g.spec /\ m.kerb = g.kerb /\ m.dry = g.dry /\ m.cc = g.cc
        /\ m.bore = IF s.bore # NULL /\ Contradict(g.bore, g.cc, 2) /\ ~Contradict(s.bore, g.cc, 2)
                    THEN s.bore ELSE g.bore
    BY <2>1, <2>2, Columns
  <2>4. m.bore = IF /\ s.bore # NULL /\ Contradict(b, m.cc, 2)
                    /\ ~Contradict(s.bore, m.cc, 2)
                 THEN s.bore ELSE b
    BY <2>2, <2>3
  <2>5. QED
    BY <1>0, <1>8, <2>2, <2>3, <2>4 DEF m, b
<1>9. QED
  BY <1>1, <1>2, <1>3, <1>4, <1>5, <1>6, <1>7, <1>8 DEF Kinds
\* Merging the same row again changes nothing, but that 1000ps fills in the dry weight it has
\* just dropped for another one.
LEMMA MergedAgain ==
    ASSUME NEW kind \in Kinds, NEW f \in Figures, NEW s \in Figures
    PROVE  LET m == Merged(kind, f, s)
               again == Merged(kind, m, s)
           IN  \/ again = m
               \/ /\ kind = "1000ps" /\ m.dry = NULL /\ again \in Figures
                  /\ again.spec = m.spec /\ again.kerb = m.kerb /\ again.dry = s.dry
                  /\ again.bore = m.bore /\ again.cc = m.cc
<1> DEFINE m == Merged(kind, f, s)
           again == Merged(kind, m, s)
           same == /\ again.spec = m.spec /\ again.kerb = m.kerb /\ again.bore = m.bore
                   /\ again.cc = m.cc
<1>0. m \in Figures /\ again \in Figures
  BY MergedTypes
<1>1. CASE kind \in {"brand", "triumph"}
  <2>1. /\ m.spec = Coalesce(f.spec, s.spec) /\ m.kerb = Coalesce(f.kerb, s.kerb)
        /\ m.dry = Coalesce(f.dry, s.dry) /\ m.bore = Coalesce(f.bore, s.bore)
        /\ m.cc = Coalesce(f.cc, s.cc)
    BY <1>1, MergedColumns
  <2>2. /\ again.spec = Coalesce(m.spec, s.spec) /\ again.kerb = Coalesce(m.kerb, s.kerb)
        /\ again.dry = Coalesce(m.dry, s.dry) /\ again.bore = Coalesce(m.bore, s.bore)
        /\ again.cc = Coalesce(m.cc, s.cc)
    BY <1>0, <1>1, MergedColumns
  <2> HIDE DEF m, again
  <2>3. same /\ again.dry = m.dry
    BY <2>1, <2>2 DEF Coalesce
  <2>4. QED
    BY <1>0, <2>3, SameColumns DEF m, again
<1>2. CASE kind \in {"engine", "research", "displacement", "patch"}
  <2>1. /\ m.spec \in {f.spec, Coalesce(f.spec, s.spec)} /\ m.kerb = f.kerb /\ m.dry = f.dry
        /\ m.cc \in {f.cc, Coalesce(f.cc, s.cc)}
    BY <1>2, MergedColumns
  <2>2. /\ again.spec \in {m.spec, Coalesce(m.spec, s.spec)} /\ again.kerb = m.kerb
        /\ again.dry = m.dry /\ again.cc \in {m.cc, Coalesce(m.cc, s.cc)}
    BY <1>0, <1>2, MergedColumns
  <2>3. /\ kind # "displacement" => m.spec = Coalesce(f.spec, s.spec)
        /\ kind = "displacement" => m.spec = f.spec /\ again.spec = m.spec
        /\ kind # "patch" => m.cc = Coalesce(f.cc, s.cc)
        /\ kind = "patch" => m.cc = f.cc /\ again.cc = m.cc
    BY <1>0, <1>2, MergedColumns
  <2>4. /\ kind \in {"displacement", "patch"} => again.bore = m.bore
        /\ kind = "engine" =>
              m.bore = Coalesce(f.bore, s.bore) /\ again.bore = Coalesce(m.bore, s.bore)
    BY <1>0, <1>2, MergedColumns
  <2> DEFINE res(x, b, cc) ==
               IF s.bore # NULL /\ Contradict(Coalesce(b, s.bore), cc, 2)
                  /\ ~Contradict(s.bore, cc, 2)
               THEN s.bore ELSE Coalesce(b, s.bore)
  <2>5. kind = "research" =>
            m.bore = res(f, f.bore, m.cc) /\ again.bore = res(m, m.bore, again.cc)
    BY <1>0, MergedColumns
  <2> HIDE DEF m, again
  <2>6. again.spec = m.spec /\ again.cc = m.cc
    BY <2>1, <2>2, <2>3 DEF Coalesce
  <2>7. again.bore = m.bore
    BY <1>2, <2>4, <2>5, <2>6 DEF Coalesce
  <2>8. QED
    BY <1>0, <2>2, <2>6, <2>7, SameColumns DEF m, again
<1>3. CASE kind \in {"dev", "fipe", "countries"}
  <2>1. m = f /\ again = m
    BY <1>0, <1>3, MergedColumns
  <2>2. QED
    BY <2>1
<1>4. CASE kind = "gapfill"
  <2>1. /\ m.spec = Coalesce(f.spec, s.spec) /\ m.kerb = Coalesce(f.kerb, s.kerb)
        /\ m.dry = Coalesce(f.dry, s.dry) /\ m.cc = Coalesce(f.cc, s.cc)
    BY <1>4, MergedColumns
  <2>2. /\ again.spec = Coalesce(m.spec, s.spec) /\ again.kerb = Coalesce(m.kerb, s.kerb)
        /\ again.dry = Coalesce(m.dry, s.dry) /\ again.cc = Coalesce(m.cc, s.cc)
    BY <1>0, <1>4, MergedColumns
  <2> DEFINE res(b, cc) ==
               IF Coalesce(b, s.bore) = s.bore /\ Contradict(Coalesce(b, s.bore), cc, 5)
               THEN NULL ELSE Coalesce(b, s.bore)
  <2>3. m.bore = res(f.bore, m.cc) /\ again.bore = res(m.bore, again.cc)
    BY <1>0, <1>4, MergedColumns
  <2> HIDE DEF m, again
  <2>4. again.spec = m.spec /\ again.kerb = m.kerb /\ again.dry = m.dry /\ again.cc = m.cc
    BY <2>1, <2>2 DEF Coalesce
  <2>5. again.bore = m.bore
    BY <2>3, <2>4 DEF Coalesce
  <2>6. QED
    BY <1>0, <2>4, <2>5, SameColumns DEF m, again
<1>5. CASE kind = "1000ps"
  <2>1. /\ m.spec = Coalesce(f.spec, s.spec) /\ m.kerb = Coalesce(f.kerb, s.kerb)
        /\ m.cc = Coalesce(f.cc, s.cc)
        /\ m.dry = FittingDry(f, s) /\ m.bore = FittingBore(f, s)
    BY <1>5, MergedColumns
  <2>2. /\ again.spec = Coalesce(m.spec, s.spec) /\ again.kerb = Coalesce(m.kerb, s.kerb)
        /\ again.cc = Coalesce(m.cc, s.cc)
        /\ again.dry = FittingDry(m, s) /\ again.bore = FittingBore(m, s)
    BY <1>0, <1>5, MergedColumns
  <2> HIDE DEF m, again
  <2>3. again.spec = m.spec /\ again.kerb = m.kerb /\ again.cc = m.cc
    BY <2>1, <2>2 DEF Coalesce
  <2>4. Coalesce(m.kerb, s.kerb) = Coalesce(f.kerb, s.kerb) /\ Coalesce(m.cc, s.cc) = Coalesce(f.cc, s.cc)
    BY <2>1 DEF Coalesce
  <2>5. again.bore = m.bore
    BY <2>1, <2>2, <2>4 DEF FittingBore, Coalesce
  <2>6. m.dry = NULL => again.dry \in {NULL, s.dry}
    BY <2>2 DEF FittingDry, Coalesce
  <2>7. m.dry # NULL => again.dry = m.dry
    <3>1. m.dry # NULL => /\ m.dry = Coalesce(f.dry, s.dry) /\ Coalesce(m.dry, s.dry) = m.dry
                          /\ ~Above(Coalesce(f.dry, s.dry), Coalesce(f.kerb, s.kerb))
      BY <2>1 DEF FittingDry, Coalesce
    <3>2. QED
      BY <2>2, <2>4, <3>1 DEF FittingDry
  <2>8. again.dry = m.dry \/ (m.dry = NULL /\ again.dry = s.dry)
    BY <2>6, <2>7
  <2>9. again.dry = m.dry => again = m
    BY <1>0, <2>3, <2>5, SameColumns
  <2>10. QED
    BY <1>0, <1>5, <2>3, <2>5, <2>8, <2>9 DEF m, again
<1>6. QED
  BY <1>1, <1>2, <1>3, <1>4, <1>5 DEF Kinds

\* A row that a script inserted is not changed by merging what it staged for it.
LEMMA MergedOwn ==
    ASSUME NEW kind \in {"brand", "1000ps"}, NEW s \in Figures, ~Above(s.dry, s.kerb)
    PROVE  Merged(kind, s, s) = s
<1> DEFINE m == Merged(kind, s, s)
<1>1. /\ m \in Figures
      /\ m.spec = Coalesce(s.spec, s.spec) /\ m.kerb = Coalesce(s.kerb, s.kerb)
      /\ m.cc = Coalesce(s.cc, s.cc)
      /\ kind = "brand" => m.dry = Coalesce(s.dry, s.dry) /\ m.bore = Coalesce(s.bore, s.bore)
      /\ kind = "1000ps" => m.dry = FittingDry(s, s) /\ m.bore = FittingBore(s, s)
  BY MergedColumns DEF Kinds
<1> HIDE DEF m
<1>2. \A x : Coalesce(x, x) = x
  BY DEF Coalesce
<1>3. FittingDry(s, s) = s.dry
  BY <1>2 DEF FittingDry
<1>4. FittingBore(s, s) = s.bore
  BY <1>2 DEF FittingBore, Contradict
<1>5. m.dry = s.dry /\ m.bore = s.bore
  BY <1>1, <1>2, <1>3, <1>4
<1>6. QED
  BY <1>1, <1>2, <1>5, SameColumns DEF m

\* After a spec import has met a row, it adds nothing to it.
LEMMA AddsOnce ==
    ASSUME NEW kind \in {"brand", "triumph", "gapfill", "1000ps"},
           NEW f \in Figures, NEW s \in Figures
    PROVE  ~Adds(Merged(kind, f, s), s)
<1> DEFINE m == Merged(kind, f, s)
<1>1. /\ m.spec = Coalesce(f.spec, s.spec) /\ m.kerb = Coalesce(f.kerb, s.kerb)
      /\ kind # "1000ps" => m.dry = Coalesce(f.dry, s.dry)
      /\ kind = "1000ps" => m.dry = FittingDry(f, s)
  BY MergedColumns DEF Kinds
<1> HIDE DEF m
<1>2. ~(m.spec = NULL /\ s.spec # NULL)
  BY <1>1 DEF Coalesce
<1>3. m.kerb = NULL => Coalesce(f.kerb, s.kerb) = NULL /\ s.kerb = NULL
  BY <1>1 DEF Coalesce
<1>4. m.kerb = NULL => m.dry = Coalesce(f.dry, s.dry)
  BY <1>1, <1>3 DEF FittingDry, Above
<1>5. m.kerb = NULL /\ m.dry = NULL => s.kerb = NULL /\ s.dry = NULL
  BY <1>3, <1>4 DEF Coalesce
<1>6. QED
  BY <1>2, <1>5 DEF Adds, NoBlock, m
------------------------------------------------------------------------------
(* Running a script again *)

\* What gives up a boot, one by one.
ByWeights(i, table) ==
    \E n \in Names : Meets(i, n, table) /\ RejectsWeights(Scripts[i].kind, table[n].figures, Staged(i)[n])
ByGeometry(i, table) ==
    \E n \in Names : Meets(i, n, table) /\ RejectsGeometry(Scripts[i].kind, table[n].figures, Staged(i)[n])
ByBrand(i, table) ==
    \E n \in Triumphs : Effect(i, table)[n] # Missing
                        /\ RejectsBrand(Scripts[i].kind, Effect(i, table)[n].figures)
ByDisplacement(i, table) ==
    \E n \in Names : Meets(i, n, table)
                     /\ RejectsDisplacement(Scripts[i].kind, table[n].figures, Staged(i)[n])

LEMMA RejectsIsOneOf ==
    ASSUME NEW i, NEW table
    PROVE  Rejects(i, table) =
               CASE ByWeights(i, table) -> "weights"
                 [] ByGeometry(i, table) \/ ByBrand(i, table) -> "geometry"
                 [] ByDisplacement(i, table) -> "displacement"
                 [] OTHER -> "no"
<1> DEFINE kind == Scripts[i].kind
           s == Staged(i)
           met == {n \in Names : Meets(i, n, table)}
           brand == {n \in Triumphs : Effect(i, table)[n] # Missing}
<1>1. (\E n \in met : RejectsWeights(kind, table[n].figures, s[n])) <=> ByWeights(i, table)
  BY Zenon DEF ByWeights
<1>2. (\E n \in met : RejectsGeometry(kind, table[n].figures, s[n])) <=> ByGeometry(i, table)
  BY Zenon DEF ByGeometry
<1>3. (\E n \in brand : RejectsBrand(kind, Effect(i, table)[n].figures)) <=> ByBrand(i, table)
  BY Zenon DEF ByBrand
<1>4. (\E n \in met : RejectsDisplacement(kind, table[n].figures, s[n])) <=> ByDisplacement(i, table)
  BY Zenon DEF ByDisplacement
<1>5. Rejects(i, table) =
          CASE \E n \in met : RejectsWeights(kind, table[n].figures, s[n]) -> "weights"
            [] \/ \E n \in met : RejectsGeometry(kind, table[n].figures, s[n])
               \/ \E n \in brand : RejectsBrand(kind, Effect(i, table)[n].figures) -> "geometry"
            [] \E n \in met : RejectsDisplacement(kind, table[n].figures, s[n]) -> "displacement"
            [] OTHER -> "no"
  BY Zenon DEF Rejects
<1> HIDE DEF met, brand, s, kind
<1>6. QED
  BY <1>1, <1>2, <1>3, <1>4, <1>5

LEMMA RejectsNothing ==
    ASSUME NEW i, NEW table
    PROVE  Rejects(i, table) = "no" <=>
               ~ByWeights(i, table) /\ ~ByGeometry(i, table) /\ ~ByBrand(i, table)
               /\ ~ByDisplacement(i, table)
BY RejectsIsOneOf
\* A row that a script meets when it runs again it has met before, or inserted.
LEMMA MetAgain ==
    ASSUME Deployed, NEW i \in DOMAIN Scripts, NEW table \in Table, NEW n \in Names,
           Meets(i, n, Effect(i, table))
    PROVE  \/ Meets(i, n, table)
           \/ /\ Inserts(i, n, table) /\ Scripts[i].kind \in {"brand", "1000ps"}
              /\ Staged(i)[n] \in Figures /\ ~Above(Staged(i)[n].dry, Staged(i)[n].kerb)
              /\ Effect(i, table)[n] = Created(Scripts[i].kind, Staged(i)[n])
<1>1. /\ Scripts[i].kind \notin {"dev", "fipe", "countries"}
      /\ Effect(i, table)[n] # Missing /\ Staged(i)[n] # Missing
  BY DEF Meets
<1>2. CASE table[n] # Missing
  BY <1>1, <1>2 DEF Meets
<1>3. CASE table[n] = Missing /\ Inserts(i, n, table)
  <2>1. Scripts[i].kind \in {"brand", "1000ps"}
    BY <1>1, <1>3 DEF Inserts, Creates
  <2>2. QED
    BY <1>1, <1>3, <2>1, StagedTypes, EffectInserted
<1>4. CASE table[n] = Missing /\ ~Inserts(i, n, table)
  <2>1. ~Meets(i, n, table)
    BY <1>4 DEF Meets
  <2>2. Effect(i, table)[n] = table[n]
    BY <1>1, <1>4, <2>1, EffectKept
  <2>3. QED
    BY <1>1, <1>4, <2>2
<1>5. QED
  BY <1>2, <1>3, <1>4

LEMMA AgainOnMet ==
    ASSUME Deployed, NEW i \in DOMAIN Scripts, NEW table \in Table, NEW n \in Names,
           Meets(i, n, table)
    PROVE  /\ Meets(i, n, Effect(i, table))
           /\ table[n].figures \in Figures /\ Staged(i)[n] \in Figures
           /\ Scripts[i].kind \in Kinds
           /\ Effect(i, table)[n].figures =
                  Merged(Scripts[i].kind, table[n].figures, Staged(i)[n])
<1>1. Effect(i, table)[n] \in Bike /\ table[n] \in Bike
  BY MetFields
<1>2. Effect(i, table)[n] # Missing
  BY <1>1, MissingIsNoBike
<1>3. QED
  BY <1>1, <1>2, MetFields, BikeFields, ScriptTypes DEF Meets

\* What none of the checks found when a script ran, none finds when it runs again.
LEMMA WeightsAgain ==
    ASSUME NEW kind \in Kinds, NEW f \in Figures, NEW s \in Figures, ~RejectsWeights(kind, f, s)
    PROVE  ~RejectsWeights(kind, Merged(kind, f, s), s)
<1> DEFINE m == Merged(kind, f, s)
           again == Merged(kind, m, s)
<1>0. m \in Figures
  BY MergedTypes
<1>1. CASE kind = "gapfill"
  <2>1. m.kerb = Coalesce(f.kerb, s.kerb) /\ m.dry = Coalesce(f.dry, s.dry)
    BY <1>1, MergedColumns
  <2>2. Filled(f, s).kerb = m.kerb /\ Filled(f, s).dry = m.dry
    <3> HIDE DEF m
    <3>1. QED
      BY <2>1, FilledColumns
  <2>3. Filled(m, s).kerb = Coalesce(m.kerb, s.kerb) /\ Filled(m, s).dry = Coalesce(m.dry, s.dry)
    <3> HIDE DEF m
    <3>1. QED
      BY <1>0, FilledColumns
  <2>4. Coalesce(m.kerb, s.kerb) = m.kerb /\ Coalesce(m.dry, s.dry) = m.dry
    <3> HIDE DEF m
    <3>1. QED
      BY <2>1 DEF Coalesce
  <2>5. ~Above(m.dry, m.kerb)
    BY <1>1, <2>2 DEF RejectsWeights
  <2>6. QED
    BY <1>1, <2>3, <2>4, <2>5 DEF RejectsWeights
<1>2. CASE kind = "1000ps"
  <2>1. again.kerb = Coalesce(m.kerb, s.kerb) /\ again.dry = FittingDry(m, s)
    BY <1>0, <1>2, MergedColumns
  <2> HIDE DEF again
  <2>2. ~Above(again.dry, again.kerb)
    BY <2>1 DEF FittingDry, Above
  <2>3. QED
    BY <1>2, <2>2 DEF RejectsWeights, again
<1>3. CASE kind \notin {"gapfill", "1000ps"}
  <2>1. again = m
    BY <1>3, MergedAgain
  <2>2. QED
    BY <1>3, <2>1 DEF RejectsWeights
<1>4. QED
  BY <1>1, <1>2, <1>3

LEMMA GeometryAgain ==
    ASSUME NEW kind \in Kinds, NEW f \in Figures, NEW s \in Figures, ~RejectsGeometry(kind, f, s)
    PROVE  ~RejectsGeometry(kind, Merged(kind, f, s), s)
<1> DEFINE m == Merged(kind, f, s)
           again == Merged(kind, m, s)
<1>1. again.bore = m.bore /\ again.cc = m.cc
  BY MergedAgain
<1>2. kind = "research" => ~Contradict(m.bore, m.cc, 2)
  BY DEF RejectsGeometry
<1>3. kind = "gapfill" => ~Contradict(m.bore, m.cc, 25)
  BY DEF RejectsGeometry
<1> HIDE DEF again
<1>4. QED
  BY <1>1, <1>2, <1>3 DEF RejectsGeometry, again

LEMMA DisplacementAgain ==
    ASSUME NEW kind \in Kinds, NEW f \in Figures, NEW s \in Figures,
           ~RejectsDisplacement(kind, f, s)
    PROVE  ~RejectsDisplacement(kind, Merged(kind, f, s), s)
BY MergedAgain DEF RejectsDisplacement

LEMMA OwnNotRejected ==
    ASSUME NEW kind \in {"brand", "1000ps"}, NEW s \in Figures, ~Above(s.dry, s.kerb)
    PROVE  /\ ~RejectsWeights(kind, s, s) /\ ~RejectsGeometry(kind, s, s)
           /\ ~RejectsDisplacement(kind, s, s)
BY MergedOwn DEF RejectsWeights, RejectsGeometry, RejectsDisplacement

\* A Triumph is as the import left it, whether or not the import has met it.
LEMMA BrandAgain ==
    ASSUME Deployed, NEW i \in DOMAIN Scripts, NEW table \in Table, ~ByBrand(i, table)
    PROVE  ~ByBrand(i, Effect(i, table))
<1> DEFINE t == Effect(i, table)
<1>0. t \in Table
  BY EffectTypes
<1> SUFFICES ASSUME NEW n \in Triumphs, Effect(i, t)[n] # Missing,
                    RejectsBrand(Scripts[i].kind, Effect(i, t)[n].figures)
             PROVE  FALSE
  BY DEF ByBrand
<1>1. Scripts[i].kind = "triumph" /\ n \in Names
  BY NameAssumption DEF RejectsBrand
<1>2. ~Inserts(i, n, t) /\ ~Inserts(i, n, table)
  BY <1>1 DEF Inserts, Creates
<1>3. CASE Meets(i, n, t)
  <2>1. Meets(i, n, table)
    BY <1>1, <1>2, <1>3, MetAgain
  <2>2. /\ t[n].figures = Merged("triumph", table[n].figures, Staged(i)[n])
        /\ table[n].figures \in Figures /\ Staged(i)[n] \in Figures
    BY <1>1, <2>1, AgainOnMet
  <2>3. Effect(i, t)[n].figures = Merged("triumph", t[n].figures, Staged(i)[n])
    BY <1>0, <1>1, <1>3, AgainOnMet
  <2>4. Effect(i, t)[n].figures = t[n].figures
    <3> HIDE DEF t
    <3>1. "triumph" \in Kinds
      BY DEF Kinds
    <3>2. QED
      BY <2>2, <2>3, <3>1, MergedAgain
  <2>5. t[n] # Missing
    BY <1>3 DEF Meets
  <2>6. QED
    BY <2>4, <2>5 DEF ByBrand
<1>4. CASE ~Meets(i, n, t)
  <2>1. Effect(i, t)[n] = t[n]
    BY <1>1, <1>2, <1>4, EffectKept
  <2>2. QED
    BY <2>1 DEF ByBrand
<1>5. QED
  BY <1>3, <1>4

LEMMA AcceptedAgain ==
    ASSUME Deployed, NEW i \in DOMAIN Scripts, NEW table \in Table, Rejects(i, table) = "no"
    PROVE  Rejects(i, Effect(i, table)) = "no"
<1> DEFINE t == Effect(i, table)
           kind == Scripts[i].kind
<1>1. /\ ~ByWeights(i, table) /\ ~ByGeometry(i, table) /\ ~ByBrand(i, table)
      /\ ~ByDisplacement(i, table)
  BY RejectsNothing
<1>2. ASSUME NEW n \in Names, Meets(i, n, t)
      PROVE  /\ ~RejectsWeights(kind, t[n].figures, Staged(i)[n])
             /\ ~RejectsGeometry(kind, t[n].figures, Staged(i)[n])
             /\ ~RejectsDisplacement(kind, t[n].figures, Staged(i)[n])
  <2>1. CASE Meets(i, n, table)
    <3>1. /\ ~RejectsWeights(kind, table[n].figures, Staged(i)[n])
          /\ ~RejectsGeometry(kind, table[n].figures, Staged(i)[n])
          /\ ~RejectsDisplacement(kind, table[n].figures, Staged(i)[n])
      BY <1>1, <2>1 DEF ByWeights, ByGeometry, ByDisplacement
    <3>2. /\ t[n].figures = Merged(kind, table[n].figures, Staged(i)[n]) /\ kind \in Kinds
          /\ table[n].figures \in Figures /\ Staged(i)[n] \in Figures
      BY <2>1, AgainOnMet
    <3> HIDE DEF t, kind
    <3>3. QED
      BY <3>1, <3>2, WeightsAgain, GeometryAgain, DisplacementAgain
  <2>2. CASE ~Meets(i, n, table)
    <3>1. /\ kind \in {"brand", "1000ps"}
          /\ Staged(i)[n] \in Figures /\ ~Above(Staged(i)[n].dry, Staged(i)[n].kerb)
          /\ t[n] = Created(kind, Staged(i)[n])
      BY <1>2, <2>2, MetAgain
    <3>2. t[n].figures = Staged(i)[n]
      BY <3>1 DEF Created
    <3> HIDE DEF t, kind
    <3>3. QED
      BY <3>1, <3>2, OwnNotRejected
  <2>3. QED
    BY <2>1, <2>2
<1>3. ~ByWeights(i, t) /\ ~ByGeometry(i, t) /\ ~ByDisplacement(i, t)
  BY <1>2 DEF ByWeights, ByGeometry, ByDisplacement
<1>4. ~ByBrand(i, t)
  BY <1>1, BrandAgain
<1>5. QED
  BY <1>3, <1>4, RejectsNothing
\* Running a script again changes a bike at most in the dry weight 1000ps dropped.
LEMMA EffectAgain ==
    ASSUME Deployed, NEW i \in DOMAIN Scripts, NEW table \in Table, NEW n \in Names
    PROVE  LET t == Effect(i, table)
               again == Effect(i, t)[n]
           IN  \/ again = t[n]
               \/ /\ Scripts[i].kind = "1000ps"
                  /\ t[n].figures.dry = NULL
                  /\ again.figures = [t[n].figures EXCEPT !.dry = Staged(i)[n].dry]
                  /\ again.version = t[n].version
<1> DEFINE t == Effect(i, table)
           again == Effect(i, t)[n]
           kind == Scripts[i].kind
           s == Staged(i)[n]
<1>0. t \in Table /\ kind \in Kinds
  BY EffectTypes, ScriptTypes
<1>1. CASE kind = "dev"
  <2>1. Inserts(i, n, t) <=> Inserts(i, n, table)
    BY <1>1 DEF Inserts
  <2>2. CASE Inserts(i, n, table)
    BY <2>1, <2>2, EffectInserted
  <2>3. CASE ~Inserts(i, n, table)
    BY <1>1, <2>1, <2>3, EffectDropped
  <2>4. QED
    BY <2>2, <2>3
<1>2. CASE kind = "countries"
  <2>1. ~Inserts(i, n, table) /\ ~Meets(i, n, table) /\ ~Inserts(i, n, t) /\ ~Meets(i, n, t)
    BY <1>2 DEF Inserts, Meets, Creates
  <2>2. CASE table[n] # Missing
    <3>1. t[n] = [table[n] EXCEPT !.brazil = TRUE]
      BY <1>2, <2>2, EffectStamped
    <3>2. table[n] \in Bike
      BY <2>2 DEF Table
    <3>3. t[n] \in Bike /\ t[n].brazil = TRUE
      BY <3>1, <3>2, StampedTypes
    <3>4. again = [t[n] EXCEPT !.brazil = TRUE]
      BY <1>2, <3>3, EffectStamped, MissingIsNoBike
    <3> HIDE DEF t, again
    <3>5. \A z : z = t[n].brazil => [t[n] EXCEPT !.brazil = z] = t[n]
      BY <3>3, BikeFields
    <3>6. [t[n] EXCEPT !.brazil = TRUE] = t[n]
      BY <3>3, <3>5, Zenon
    <3>7. QED
      BY <3>4, <3>6, Zenon DEF t, again
  <2>3. CASE table[n] = Missing
    <3>1. t[n] = Missing
      BY <1>2, <2>1, <2>3, EffectKept
    <3>2. again = t[n]
      BY <1>2, <2>1, <3>1, EffectKept
    <3>3. QED
      BY <3>2
  <2>4. QED
    BY <2>2, <2>3
<1>3. CASE Meets(i, n, t)
  <2>1. /\ t[n] \in Bike /\ again \in Bike /\ s \in Figures
        /\ again.figures = Merged(kind, t[n].figures, s) /\ again.version = Bumped(kind, t[n], s)
        /\ again.brazil = t[n].brazil /\ again.origin = t[n].origin
    BY <1>0, <1>3, MetFields
  <2>2. CASE Meets(i, n, table)
    <3>1. /\ t[n].figures = Merged(kind, table[n].figures, s)
          /\ table[n].figures \in Figures
      BY <2>2, AgainOnMet
    <3>2. again.version = t[n].version
      <4> HIDE DEF again, t, s, kind
      <4>1. kind \in {"brand", "triumph", "gapfill", "1000ps"} => ~Adds(t[n].figures, s)
        BY <2>1, <3>1, AddsOnce
      <4>2. QED
        BY <2>1, <4>1 DEF Bumped
    <3>3. \/ again.figures = t[n].figures
          \/ /\ kind = "1000ps" /\ t[n].figures.dry = NULL /\ again.figures \in Figures
             /\ again.figures.spec = t[n].figures.spec /\ again.figures.kerb = t[n].figures.kerb
             /\ again.figures.dry = s.dry /\ again.figures.bore = t[n].figures.bore
             /\ again.figures.cc = t[n].figures.cc
      <4> HIDE DEF again, t, s, kind
      <4>1. QED
        BY <1>0, <2>1, <3>1, MergedAgain
    <3>4. again.figures = t[n].figures => again = t[n]
      <4> HIDE DEF again, t
      <4>1. QED
        BY <2>1, <3>2, BikeFields
    <3>5. again.figures # t[n].figures =>
              again.figures = [t[n].figures EXCEPT !.dry = s.dry]
      <4> HIDE DEF again, t, s, kind
      <4>1. t[n].figures \in Figures /\ s.dry \in Nat \cup {NULL}
        BY <2>1, BikeFields, Columns
      <4> DEFINE w == [t[n].figures EXCEPT !.dry = s.dry]
      <4>2. w \in Figures
        BY <4>1, WithDry
      <4>3. w = [spec |-> t[n].figures.spec, kerb |-> t[n].figures.kerb, dry |-> s.dry,
                 bore |-> t[n].figures.bore, cc |-> t[n].figures.cc]
        BY <4>1, WithDry
      <4> HIDE DEF w
      <4>4. again.figures # t[n].figures => again.figures = w
        BY <3>3, <4>2, <4>3, SameColumns
      <4>5. QED
        BY <4>4 DEF w
    <3>6. QED
      BY <3>2, <3>3, <3>4, <3>5
  <2>3. CASE ~Meets(i, n, table)
    <3>1. /\ kind \in {"brand", "1000ps"} /\ ~Above(s.dry, s.kerb)
          /\ t[n] = Created(kind, s)
      BY <1>3, <2>3, MetAgain
    <3>2. t[n].figures = s
      BY <3>1 DEF Created
    <3>3. again.figures = t[n].figures
      <4> HIDE DEF again, t, s, kind
      <4>1. QED
        BY <2>1, <3>1, <3>2, MergedOwn
    <3>4. again.version = t[n].version
      <4> HIDE DEF again, t, s, kind
      <4>1. ~Adds(s, s)
        BY DEF Adds
      <4>2. QED
        BY <2>1, <3>2, <4>1 DEF Bumped
    <3>5. again = t[n]
      <4> HIDE DEF again, t
      <4>1. QED
        BY <2>1, <3>3, <3>4, BikeFields
    <3>6. QED
      BY <3>5
  <2>4. QED
    BY <2>2, <2>3
<1>4. CASE kind \notin {"dev", "countries"} /\ ~Meets(i, n, t)
  <2>1. CASE Inserts(i, n, table)
    <3>1. s \in Figures
      BY <2>1, StagedTypes DEF Inserts
    <3>2. t[n] = Created(kind, s)
      BY <2>1, EffectInserted
    <3>3. t[n] \in Bike
      BY <1>0, <3>1, <3>2, CreatedTypes
    <3>4. ~Inserts(i, n, t)
      BY <1>4, <3>3, MissingIsNoBike DEF Inserts
    <3>5. again = t[n]
      BY <1>4, <3>4, EffectKept
    <3>6. QED
      BY <3>5
  <2>2. CASE Meets(i, n, table)
    BY <1>4, <2>2, AgainOnMet
  <2>3. CASE ~Inserts(i, n, table) /\ ~Meets(i, n, table)
    <3>1. t[n] = table[n]
      BY <1>4, <2>3, EffectKept
    <3>2. ~Inserts(i, n, t)
      BY <2>3, <3>1 DEF Inserts
    <3>3. again = t[n]
      BY <1>4, <3>2, EffectKept
    <3>4. QED
      BY <3>3
  <2>4. QED
    BY <2>1, <2>2, <2>3
<1>5. QED
  BY <1>1, <1>2, <1>3, <1>4
\* The catalogue is what a script made of a table that it did not reject.
MadeOf(i, table) ==
    /\ \A n \in Names : bikes[n] = OneBike(i, n, table)
    /\ ~ByWeights(i, table) /\ ~ByGeometry(i, table) /\ ~ByDisplacement(i, table)
    /\ \A n \in Triumphs : bikes[n] # Missing => ~RejectsBrand(Scripts[i].kind, bikes[n].figures)

\* Between a script's COMMIT and its history row, that script is the first pending one, and
\* the catalogue is what it made of an earlier one.
JustApplied ==
    phase = "applied" => Pending # {} /\ \E table \in Table : MadeOf(Current, table)

\* While the application is up, nothing is pending.
Settled == phase = "up" => Pending = {}

History == Typed /\ JustApplied /\ Settled

LEMMA MadeOfEffect ==
    ASSUME bikes \in Table, NEW i, NEW table, MadeOf(i, table)
    PROVE  bikes = Effect(i, table) /\ Rejects(i, table) = "no"
<1>1. \A n \in Names : Effect(i, table)[n] = bikes[n]
  BY EffectOnOne DEF MadeOf
<1>2. Effect(i, table) = [n \in Names |-> Effect(i, table)[n]]
  BY DEF Effect
<1>3. bikes = Effect(i, table)
  BY <1>1, <1>2 DEF Table
<1>4. ~ByBrand(i, table)
  BY <1>1, NameAssumption DEF ByBrand, MadeOf
<1>5. QED
  BY <1>3, <1>4, RejectsNothing DEF MadeOf

LEMMA SamePending ==
    ASSUME UNCHANGED <<edition, recorded>>
    PROVE  Pending' = Pending /\ Current' = Current
<1>1. Pending' = Pending
  BY DEF Pending
<1>2. QED
  BY <1>1 DEF Current

LEMMA SameStatements ==
    ASSUME UNCHANGED edition, NEW i, NEW table, NEW n
    PROVE  /\ Meets(i, n, table)' <=> Meets(i, n, table)
           /\ Inserts(i, n, table)' <=> Inserts(i, n, table)
           /\ Staged(i)' = Staged(i)
           /\ OneBike(i, n, table)' = OneBike(i, n, table)
<1>1. Staged(i)' = Staged(i)
  BY DEF Staged
<1>2. Meets(i, n, table)' <=> Meets(i, n, table)
  BY <1>1, Zenon DEF Meets
<1>3. Inserts(i, n, table)' <=> Inserts(i, n, table)
  BY <1>1, Zenon DEF Inserts
<1>4. OneBike(i, n, table)' = OneBike(i, n, table)
  BY <1>1, <1>2, <1>3 DEF OneBike
<1>5. QED
  BY <1>1, <1>2, <1>3, <1>4

LEMMA SameChecks ==
    ASSUME UNCHANGED edition, NEW i, NEW table
    PROVE  /\ ByWeights(i, table)' <=> ByWeights(i, table)
           /\ ByGeometry(i, table)' <=> ByGeometry(i, table)
           /\ ByDisplacement(i, table)' <=> ByDisplacement(i, table)
<1>1. Staged(i)' = Staged(i)
  BY SameStatements
<1>2. \A n \in Names : Meets(i, n, table)' <=> Meets(i, n, table)
  BY SameStatements
<1>3. QED
  BY <1>1, <1>2, Zenon DEF ByWeights, ByGeometry, ByDisplacement
LEMMA InitHistory == Init => History
<1> SUFFICES ASSUME Init PROVE History
  OBVIOUS
<1>1. Typed
  BY InitTyped
<1>2. phase = "down"
  BY DEF Init
<1>3. QED
  BY <1>1, <1>2 DEF History, JustApplied, Settled

LEMMA NextHistory == History /\ [Next]_vars => History'
<1> SUFFICES ASSUME History, [Next]_vars PROVE History'
  OBVIOUS
<1>0. Typed /\ JustApplied /\ Settled /\ Typed' /\ Deployed /\ bikes \in Table
  <2>1. Typed /\ JustApplied /\ Settled
    BY DEF History
  <2>2. QED
    BY <2>1, NextTyped DEF Typed, TypeOK, Table
<1>1. CASE Apply
  <2>1. UNCHANGED <<edition, recorded>> /\ phase' = "applied" /\ Pending # {}
        /\ bikes' = Effect(Current, bikes) /\ Rejects(Current, bikes) = "no"
    BY <1>1 DEF Apply
  <2>2. Pending' = Pending /\ Current' = Current
    BY <2>1, SamePending
  <2> DEFINE c == Current
  <2>3. ASSUME NEW i, NEW table, i = c, table = bikes
        PROVE  MadeOf(i, table)'
    <3>1. ~ByWeights(i, table) /\ ~ByGeometry(i, table) /\ ~ByBrand(i, table)
          /\ ~ByDisplacement(i, table)
      BY <2>1, <2>3, RejectsNothing
    <3>2. ~ByWeights(i, table)' /\ ~ByGeometry(i, table)' /\ ~ByDisplacement(i, table)'
      BY <2>1, <3>1, SameChecks
    <3>3. \A n \in Names : bikes'[n] = OneBike(i, n, table)
      BY <2>1, <2>3, EffectOnOne
    <3>4. \A n \in Names : OneBike(i, n, table)' = OneBike(i, n, table)
      BY <2>1, SameStatements
    <3>5. \A n \in Triumphs :
              bikes'[n] # Missing => ~RejectsBrand(Scripts[i].kind, bikes'[n].figures)
      BY <2>1, <2>3, <3>1 DEF ByBrand
    <3>6. QED
      BY <3>2, <3>3, <3>4, <3>5 DEF MadeOf
  <2>4. \E table \in Table : \E i : i = Current' /\ MadeOf(i, table)'
    <3>1. PICK t \in Table : t = bikes
      BY <1>0
    <3>2. PICK i : i = c
      OBVIOUS
    <3>3. MadeOf(i, t)'
      BY <2>3, <3>1, <3>2
    <3>4. QED
      BY <2>2, <3>2, <3>3
  <2>5. (\E table \in Table : MadeOf(Current, table))'
    BY <2>4
  <2>6. QED
    BY <1>0, <2>1, <2>2, <2>5 DEF History, JustApplied, Settled
<1>2. CASE Serve
  BY <1>0, <1>2, SamePending DEF Serve, History, JustApplied, Settled
<1>3. CASE Boot \/ Abort \/ Record \/ Shutdown \/ Crash \/ \E i \in DOMAIN Scripts : Edit(i)
  <2>1. phase' \in {"down", "migrating"}
    BY <1>3 DEF Boot, Abort, Record, Shutdown, Crash, Edit
  <2>2. QED
    BY <1>0, <2>1 DEF History, JustApplied, Settled
<1>4. CASE \E n \in Names : Write(n) \/ Delete(n)
  <2>1. phase = "up" /\ phase' = "up" /\ UNCHANGED <<edition, recorded>>
    BY <1>4 DEF Write, Delete
  <2>2. QED
    BY <1>0, <2>1, SamePending DEF History, JustApplied, Settled
<1>5. CASE UNCHANGED vars
  <2>1. UNCHANGED <<edition, recorded, bikes, phase>>
    BY <1>5 DEF vars
  <2>2. Pending' = Pending /\ Current' = Current
    BY <2>1, SamePending
  <2>3. ASSUME NEW i, NEW table, MadeOf(i, table) PROVE MadeOf(i, table)'
    BY <2>1, <2>3, SameStatements, SameChecks DEF MadeOf
  <2>4. (\E table \in Table : MadeOf(Current, table)) =>
            (\E table \in Table : MadeOf(Current, table))'
    <3>1. SUFFICES ASSUME NEW table \in Table, MadeOf(Current, table)
                   PROVE  (\E t \in Table : MadeOf(Current, t))'
      OBVIOUS
    <3>2. PICK i : i = Current
      OBVIOUS
    <3>3. MadeOf(i, table)'
      BY <2>3, <3>1, <3>2
    <3>4. QED
      BY <2>2, <3>2, <3>3
  <2>5. QED
    BY <1>0, <2>1, <2>2, <2>4 DEF History, JustApplied, Settled
<1>6. QED
  BY <1>1, <1>2, <1>3, <1>4, <1>5 DEF Next, Migrate

LEMMA AlwaysHistory == Spec => []History
BY InitHistory, NextHistory, PTL DEF Spec

\* Whatever the scripts stage, whatever is edited and whatever admins have written, the boot
\* after a crash between a script's COMMIT and its history row is not given up over what the
\* script itself wrote.
THEOREM RerunsAreAccepted == Spec => []RerunIsAccepted
<1>1. History => RerunIsAccepted
  <2> SUFFICES ASSUME History, phase = "applied" PROVE Rejects(Current, bikes) = "no"
    BY DEF RerunIsAccepted
  <2>1. Deployed /\ bikes \in Table /\ Pending # {}
    BY DEF History, Typed, TypeOK, JustApplied, Table
  <2>2. PICK table \in Table : MadeOf(Current, table)
    BY DEF History, JustApplied
  <2>3. Current \in DOMAIN Scripts
    BY <2>1, CurrentIsFirst
  <2>4. bikes = Effect(Current, table) /\ Rejects(Current, table) = "no"
    BY <2>1, <2>2, MadeOfEffect
  <2>5. QED
    BY <2>1, <2>3, <2>4, AcceptedAgain
<1>2. QED
  BY <1>1, AlwaysHistory, PTL

\* Nor does it change anything: a script run again at once leaves every bike as it is, its
\* version too, but for a dry weight that 1000ps had dropped for another.
THEOREM RerunsAddOnlyWeights == Spec => []RerunAddsOnlyWeights
<1>1. History => RerunAddsOnlyWeights
  <2> SUFFICES ASSUME History, phase = "applied", NEW n \in Names
               PROVE  LET again == Effect(Current, bikes)[n] IN
                        \/ again = bikes[n]
                        \/ /\ Scripts[Current].kind = "1000ps"
                           /\ bikes[n].figures.dry = NULL
                           /\ again.figures =
                                  [bikes[n].figures EXCEPT !.dry = Staged(Current)[n].dry]
                           /\ again.version = bikes[n].version
    BY Zenon DEF RerunAddsOnlyWeights
  <2>1. Deployed /\ bikes \in Table /\ Pending # {}
    BY DEF History, Typed, TypeOK, JustApplied, Table
  <2>2. PICK table \in Table : MadeOf(Current, table)
    BY DEF History, JustApplied
  <2>3. Current \in DOMAIN Scripts
    BY <2>1, CurrentIsFirst
  <2>4. bikes = Effect(Current, table)
    BY <2>1, <2>2, MadeOfEffect
  <2>5. QED
    BY <2>1, <2>3, <2>4, EffectAgain
<1>2. QED
  BY <1>1, AlwaysHistory, PTL
------------------------------------------------------------------------------
(* What a script takes *)

LEMMA WiderContradiction ==
    ASSUME NEW b \in Nat \cup {NULL}, NEW cc \in Nat \cup {NULL}, Contradict(b, cc, 5)
    PROVE  Contradict(b, cc, 2)
<1>1. b \in Nat /\ cc \in Nat
  BY DEF Contradict
<1>2. b # NULL /\ cc # NULL /\ (100 * b > 105 * cc \/ 100 * b < 95 * cc)
  BY DEF Contradict
<1>3. 100 * b > 102 * cc \/ 100 * b < 98 * cc
  BY <1>1, <1>2
<1>4. QED
  BY <1>2, <1>3 DEF Contradict

LEMMA MergeTakes ==
    ASSUME NEW kind \in Kinds, NEW f \in Figures, NEW s \in Figures
    PROVE  LET m == Merged(kind, f, s) IN
           /\ f.spec \in {NULL, m.spec} /\ f.kerb \in {NULL, m.kerb} /\ f.cc \in {NULL, m.cc}
           /\ f.dry \notin {NULL, m.dry} => m.dry = NULL /\ Above(f.dry, m.kerb)
           /\ f.bore \notin {NULL, m.bore} =>
                 Contradict(f.bore, m.cc, 2) /\ ~Contradict(m.bore, m.cc, 2)
<1> DEFINE m == Merged(kind, f, s)
<1>0. m \in Figures
  BY MergedTypes
<1>1. CASE kind \in {"brand", "triumph", "gapfill"}
  <2>1. /\ m.spec = Coalesce(f.spec, s.spec) /\ m.kerb = Coalesce(f.kerb, s.kerb)
        /\ m.dry = Coalesce(f.dry, s.dry) /\ m.cc = Coalesce(f.cc, s.cc)
        /\ kind # "gapfill" => m.bore = Coalesce(f.bore, s.bore)
    BY <1>1, MergedColumns
  <2>2. kind = "gapfill" =>
            m.bore = IF Coalesce(f.bore, s.bore) = s.bore
                        /\ Contradict(Coalesce(f.bore, s.bore), m.cc, 5)
                     THEN NULL ELSE Coalesce(f.bore, s.bore)
    BY MergedColumns
  <2> HIDE DEF m
  <2>3. f.bore \notin {NULL, m.bore} => m.bore = NULL /\ Contradict(f.bore, m.cc, 5)
    BY <1>1, <2>1, <2>2 DEF Coalesce
  <2>4. ~Contradict(NULL, m.cc, 2)
    BY DEF Contradict
  <2>5. f.bore \notin {NULL, m.bore} => Contradict(f.bore, m.cc, 2)
    BY <1>0, <2>3, Columns, WiderContradiction
  <2>6. QED
    BY <2>1, <2>3, <2>4, <2>5 DEF Coalesce, m
<1>2. CASE kind \in {"engine", "research", "displacement", "patch"}
  <2>1. /\ m.spec \in {f.spec, Coalesce(f.spec, s.spec)} /\ m.kerb = f.kerb /\ m.dry = f.dry
        /\ m.cc \in {f.cc, Coalesce(f.cc, s.cc)}
        /\ kind # "research" => m.bore \in {f.bore, Coalesce(f.bore, s.bore)}
    BY <1>2, MergedColumns
  <2>2. kind = "research" =>
            m.bore = IF /\ s.bore # NULL /\ Contradict(Coalesce(f.bore, s.bore), m.cc, 2)
                        /\ ~Contradict(s.bore, m.cc, 2)
                     THEN s.bore ELSE Coalesce(f.bore, s.bore)
    BY MergedColumns
  <2> HIDE DEF m
  <2>3. QED
    BY <2>1, <2>2 DEF Coalesce, m
<1>3. CASE kind \in {"dev", "fipe", "countries"}
  <2>1. m = f
    BY <1>3, MergedColumns
  <2>2. QED
    BY <2>1
<1>4. CASE kind = "1000ps"
  <2>1. /\ m.spec = Coalesce(f.spec, s.spec) /\ m.kerb = Coalesce(f.kerb, s.kerb)
        /\ m.cc = Coalesce(f.cc, s.cc)
        /\ m.dry = FittingDry(f, s) /\ m.bore = FittingBore(f, s)
    BY <1>4, MergedColumns
  <2> HIDE DEF m
  <2>2. f.bore \in {NULL, m.bore}
    BY <2>1 DEF FittingBore, Coalesce
  <2>3. f.dry \notin {NULL, m.dry} => m.dry = NULL /\ Above(f.dry, m.kerb)
    BY <2>1 DEF FittingDry, Coalesce
  <2>4. QED
    BY <2>1, <2>2, <2>3 DEF Coalesce, m
<1>5. QED
  BY <1>1, <1>2, <1>3, <1>4 DEF Kinds

LEMMA OthersTakeNothing ==
    ASSUME NEW i \in DOMAIN Scripts, NEW table \in Table, NEW n \in Names,
           table[n] # Missing, Scripts[i].kind # "dev", ~Meets(i, n, table)
    PROVE  /\ table[n] \in Bike /\ Effect(i, table)[n] \in Bike
           /\ Effect(i, table)[n].figures = table[n].figures
<1>1. table[n] \in Bike
  BY DEF Table
<1>2. ~Inserts(i, n, table)
  BY DEF Inserts
<1>3. CASE Scripts[i].kind = "countries"
  <2>1. Effect(i, table)[n] = [table[n] EXCEPT !.brazil = TRUE]
    BY <1>3, EffectStamped
  <2>2. QED
    BY <1>1, <2>1, StampedTypes
<1>4. CASE Scripts[i].kind # "countries"
  <2>1. Effect(i, table)[n] = table[n]
    BY <1>2, <1>4, EffectKept
  <2>2. QED
    BY <1>1, <2>1
<1>5. QED
  BY <1>3, <1>4

\* What a script other than the dev seed takes from any bike, whoever wrote it, is a dry weight
\* above the kerb weight, or a bore that does not sweep the displacement, for nothing or for
\* one that does.
THEOREM ScriptsTakeOnlyContradictions == Spec => TakesOnlyContradictions
<1> DEFINE taken(n) ==
             bikes[n] # Missing =>
                 LET old == bikes[n].figures
                     new == bikes'[n].figures
                 IN  /\ bikes'[n] # Missing
                     /\ \A c \in DOMAIN old : old[c] \notin {NULL, new[c]} =>
                           \/ c = "dry" /\ new.dry = NULL /\ Above(old.dry, new.kerb)
                           \/ c = "bore" /\ Contradict(old.bore, new.cc, 2)
                              /\ ~Contradict(new.bore, new.cc, 2)
           step == phase = "migrating" /\ phase' = "applied" /\ Scripts[Current].kind # "dev" =>
                       \A n \in Names : taken(n)
<1>1. Typed /\ [Next]_vars => [step]_vars
  <2> SUFFICES ASSUME Typed, [Next]_vars, phase = "migrating", phase' = "applied",
                      Scripts[Current].kind # "dev", NEW n \in Names, bikes[n] # Missing
               PROVE  taken(n)
    BY Zenon
  <2>1. Apply
    BY DEF Next, Migrate, Boot, Abort, Record, Serve, Write, Delete, Shutdown, Edit, Crash, vars
  <2> DEFINE old == bikes[n].figures
             new == bikes'[n].figures
  <2>2. /\ Current \in DOMAIN Scripts /\ Deployed /\ bikes \in Table
        /\ bikes' = Effect(Current, bikes)
    BY <2>1, CurrentIsFirst DEF Apply, Typed, TypeOK, Table
  <2>3. bikes'[n] \in Bike /\ old \in Figures
        /\ \/ new = old
           \/ \E s \in Figures : new = Merged(Scripts[Current].kind, old, s)
    <3>1. CASE Meets(Current, n, bikes)
      BY <2>2, <3>1, MetFields, BikeFields
    <3>2. CASE ~Meets(Current, n, bikes)
      BY <2>2, <3>2, OthersTakeNothing, BikeFields
    <3>3. QED
      BY <3>1, <3>2
  <2>4. /\ old.spec \in {NULL, new.spec} /\ old.kerb \in {NULL, new.kerb}
        /\ old.cc \in {NULL, new.cc}
        /\ old.dry \notin {NULL, new.dry} => new.dry = NULL /\ Above(old.dry, new.kerb)
        /\ old.bore \notin {NULL, new.bore} =>
              Contradict(old.bore, new.cc, 2) /\ ~Contradict(new.bore, new.cc, 2)
    <3> HIDE DEF old, new
    <3>1. Scripts[Current].kind \in Kinds
      BY <2>2, ScriptTypes
    <3>2. QED
      BY <2>3, <3>1, MergeTakes
  <2>5. DOMAIN old = {"spec", "kerb", "dry", "bore", "cc"}
    BY <2>3, Columns
  <2>6. bikes'[n] # Missing
    BY <2>3, MissingIsNoBike
  <2>7. ASSUME NEW c \in DOMAIN old, old[c] \notin {NULL, new[c]}
        PROVE  \/ c = "dry" /\ new.dry = NULL /\ Above(old.dry, new.kerb)
               \/ c = "bore" /\ Contradict(old.bore, new.cc, 2) /\ ~Contradict(new.bore, new.cc, 2)
    <3> HIDE DEF old, new
    <3>1. QED
      BY <2>4, <2>5, <2>7
  <2>8. QED
    BY <2>6, <2>7, Zenon
<1> HIDE DEF step
<1>2. Spec => [][step]_vars
  BY <1>1, AlwaysTyped, PTL DEF Spec
<1>3. QED
  BY <1>2 DEF TakesOnlyContradictions, step
------------------------------------------------------------------------------
(* Where a bike is offered *)

\* The scripts that bring Brazilian bikes.
Brings(i) == Scripts[i].kind \in {"dev", "fipe", "brand"}

\* What the names and the contents of the scripts see to: the dev seed is the first of them,
\* the backfill of countries (c) lies between those that bring Brazilian bikes and 1000ps,
\* neither is ever edited, and of what the others bring some script says so in every edition,
\* so that it is there by the time of the backfill.
InOrder(c) ==
    /\ c \in DOMAIN Scripts /\ Scripts[c].kind = "countries" /\ Len(Scripts[c].editions) = 1
    /\ \A i \in DOMAIN Scripts :
          /\ Scripts[i].kind = "countries" => i = c
          /\ Brings(i) => i < c
          /\ Scripts[i].kind = "1000ps" => c < i
          /\ Scripts[i].kind = "dev" =>
                Len(Scripts[i].editions) = 1 /\ \A j \in DOMAIN Scripts : i <= j
    /\ \A n \in Names : \A i \in DOMAIN Scripts : \A k \in DOMAIN Scripts[i].editions :
          Brings(i) /\ Scripts[i].editions[k][n] # Missing =>
              \E j \in DOMAIN Scripts :
                  Brings(j) /\ \A l \in DOMAIN Scripts[j].editions :
                                   Scripts[j].editions[l][n] # Missing

\* A script that has made something of the catalogue which a crash has not made Flyway forget.
Ran(i) == recorded[i] # 0 \/ (phase = "applied" /\ Current = i)

RanInOrder ==
    \A i, j \in DOMAIN Scripts : i < j /\ recorded[j] # 0 => recorded[i] # 0

\* A bike of 1000ps is there after the backfill only, and every other from the backfill on
\* has its country.
Stamped(c) ==
    \A n \in Names \ byAdmin : bikes[n] # Missing =>
        /\ bikes[n].origin = "1000ps" => bikes[n].brazil = FALSE /\ recorded[c] # 0
        /\ bikes[n].origin # "1000ps" /\ Ran(c) => bikes[n].brazil = TRUE

\* What a script brings in every edition is there once it has run.
Brought ==
    \A i \in DOMAIN Scripts : Brings(i) /\ Ran(i) =>
        \A n \in Names \ byAdmin :
            (\A l \in DOMAIN Scripts[i].editions : Scripts[i].editions[l][n] # Missing) =>
                bikes[n] # Missing

Offered(c) == History /\ RanInOrder /\ Stamped(c) /\ Brought

LEMMA InitOffered ==
    ASSUME NEW c, InOrder(c)
    PROVE  Init => Offered(c)
<1> SUFFICES ASSUME Init PROVE Offered(c)
  OBVIOUS
<1>1. History
  BY InitHistory
<1>2. /\ \A i \in DOMAIN Scripts : recorded[i] = 0
      /\ phase = "down" /\ \A n \in Names : bikes[n] = Missing
  BY DEF Init
<1>3. QED
  BY <1>1, <1>2 DEF Offered, RanInOrder, Stamped, Brought, Ran

\* Steps after which the same scripts have run on the same catalogue.
LEMMA NothingRuns ==
    ASSUME NEW c \in DOMAIN Scripts, Offered(c), History',
           UNCHANGED <<bikes, recorded, byAdmin>>, phase' # "applied"
    PROVE  Offered(c)'
<1>1. \A i : Ran(i)' => Ran(i)
  BY DEF Ran
<1>2. RanInOrder'
  BY DEF Offered, RanInOrder
<1>3. Stamped(c)'
  BY <1>1 DEF Offered, Stamped
<1>4. Brought'
  BY <1>1 DEF Offered, Brought
<1>5. QED
  BY <1>2, <1>3, <1>4 DEF Offered

\* A bike that was there, after a script that neither truncates nor stamps.
LEMMA KeepsItsPlace ==
    ASSUME Deployed, NEW i \in DOMAIN Scripts, NEW table \in Table, NEW n \in Names,
           table[n] # Missing, Scripts[i].kind \notin {"dev", "countries"}
    PROVE  /\ Effect(i, table)[n] \in Bike
           /\ Effect(i, table)[n].origin = table[n].origin
           /\ Effect(i, table)[n].brazil = table[n].brazil
<1>1. table[n] \in Bike /\ ~Inserts(i, n, table)
  BY DEF Table, Inserts
<1>2. CASE Meets(i, n, table)
  BY <1>2, MetFields
<1>3. CASE ~Meets(i, n, table)
  BY <1>1, <1>3, EffectKept
<1>4. QED
  BY <1>2, <1>3

LEMMA PendingOnce ==
    ASSUME Deployed, NEW i \in Pending, Len(Scripts[i].editions) = 1
    PROVE  recorded[i] = 0
<1>1. i \in DOMAIN Scripts /\ recorded[i] # edition[i]
  BY DEF Pending
<1>2. edition[i] \in Nat \ {0} /\ edition[i] <= 1 /\ recorded[i] \in 0..edition[i]
  BY <1>1, EditionTypes
<1>3. QED
  BY <1>1, <1>2
\* Which scripts have run after one more has: the others are those in Flyway's history.
LEMMA RanAfter ==
    ASSUME Apply, NEW i
    PROVE  /\ Current' = Current
           /\ Ran(i)' => i = Current \/ recorded[i] # 0
<1>1. UNCHANGED <<edition, recorded>>
  BY DEF Apply
<1>2. Current' = Current
  BY <1>1, SamePending
<1>3. QED
  BY <1>1, <1>2 DEF Ran

LEMMA ApplyDevOffered ==
    ASSUME NEW c, InOrder(c), Offered(c), Apply, Scripts[Current].kind = "dev", History'
    PROVE  Offered(c)'
<1> DEFINE d == Current
<1>0. /\ Deployed /\ bikes \in Table /\ d \in Pending /\ d \in DOMAIN Scripts
      /\ bikes' = Effect(d, bikes) /\ byAdmin' = {} /\ UNCHANGED <<edition, recorded>>
  BY CurrentIsFirst DEF Offered, History, Typed, TypeOK, Table, Apply
<1> HIDE DEF d
<1>1. recorded[d] = 0
  BY <1>0, PendingOnce DEF InOrder, d
<1>2. \A j \in DOMAIN Scripts : recorded[j] = 0
  <2> SUFFICES ASSUME NEW j \in DOMAIN Scripts, recorded[j] # 0 PROVE FALSE
    OBVIOUS
  <2>1. d <= j /\ d # j
    BY <1>0, <1>1 DEF InOrder, d
  <2>2. d < j
    BY <1>0, <2>1, ScriptIndices
  <2>3. QED
    BY <1>0, <1>1, <2>2 DEF Offered, RanInOrder
<1>3. \A j \in DOMAIN Scripts : Ran(j)' => j = d
  BY <1>2, RanAfter DEF d
<1>4. ASSUME NEW n \in Names
      PROVE  /\ bikes'[n] # Missing <=> Staged(d)[n] # Missing
             /\ bikes'[n] # Missing => bikes'[n].origin = "dev"
  <2>1. CASE Inserts(d, n, bikes)
    <3>1. Staged(d)[n] \in Figures /\ Staged(d)[n] # Missing
      BY <1>0, <2>1, StagedTypes DEF Inserts
    <3>2. bikes'[n] = Created("dev", Staged(d)[n])
      BY <1>0, <2>1, EffectInserted DEF d
    <3>3. bikes'[n] \in Bike /\ bikes'[n].origin = "dev"
      <4>1. "dev" \in Kinds
        BY DEF Kinds
      <4>2. Created("dev", Staged(d)[n]) \in Bike
        BY <3>1, <4>1, CreatedTypes
      <4>3. Created("dev", Staged(d)[n]).origin = "dev"
        BY DEF Created
      <4>4. QED
        BY <3>2, <4>2, <4>3, Zenon
    <3>4. QED
      BY <3>1, <3>3, MissingIsNoBike
  <2>2. CASE ~Inserts(d, n, bikes)
    <3>1. bikes'[n] = Missing
      BY <1>0, <2>2, EffectDropped DEF d
    <3>2. Staged(d)[n] = Missing
      BY <2>2 DEF Inserts, Creates, d
    <3>3. QED
      BY <3>1, <3>2
  <2>3. QED
    BY <2>1, <2>2
<1>5. c \in DOMAIN Scripts /\ c # d
  BY DEF InOrder, d
<1>6. Stamped(c)'
  BY <1>3, <1>4, <1>5 DEF Stamped
<1>7. Brought'
  <2> SUFFICES ASSUME NEW i \in DOMAIN Scripts, Ran(i)', NEW n \in Names,
                      \A l \in DOMAIN Scripts[i].editions : Scripts[i].editions[l][n] # Missing
               PROVE  bikes'[n] # Missing
    BY DEF Brought
  <2>1. i = d
    BY <1>3
  <2>2. Staged(d)[n] # Missing
    BY <1>0, <2>1 DEF Staged, Deployed
  <2>3. QED
    BY <1>4, <2>2
<1>8. RanInOrder'
  BY <1>0, <1>2 DEF RanInOrder
<1>9. QED
  BY <1>6, <1>7, <1>8 DEF Offered

\* Once the backfill has run, what any script brings is there.
LEMMA NothingNew ==
    ASSUME NEW c, InOrder(c), Offered(c), recorded[c] # 0,
           NEW i \in DOMAIN Scripts, Brings(i), NEW k \in DOMAIN Scripts[i].editions,
           NEW n \in Names \ byAdmin, Scripts[i].editions[k][n] # Missing
    PROVE  bikes[n] # Missing
<1>1. PICK j \in DOMAIN Scripts :
          Brings(j) /\ \A l \in DOMAIN Scripts[j].editions : Scripts[j].editions[l][n] # Missing
  BY DEF InOrder
<1>2. recorded[j] # 0
  BY <1>1 DEF InOrder, Offered, RanInOrder
<1>3. QED
  BY <1>1, <1>2 DEF Offered, Brought, Ran

LEMMA ApplyOffered ==
    ASSUME NEW c, InOrder(c), Offered(c), Apply, Scripts[Current].kind # "dev", History'
    PROVE  Offered(c)'
<1> DEFINE d == Current
<1>0. /\ Deployed /\ bikes \in Table /\ d \in Pending /\ d \in DOMAIN Scripts
      /\ \A i \in DOMAIN Scripts : i < d => recorded[i] = edition[i]
      /\ bikes' = Effect(d, bikes) /\ byAdmin' = byAdmin /\ UNCHANGED <<edition, recorded>>
  BY CurrentIsFirst DEF Offered, History, Typed, TypeOK, Table, Apply
<1>a. c \in DOMAIN Scripts /\ Scripts[c].kind = "countries"
  BY DEF InOrder
<1>b. Scripts[d].kind # "dev"
  OBVIOUS
<1>c. \A i \in DOMAIN Scripts : i < d => recorded[i] # 0
  BY <1>0, EditionTypes
<1>d. \A i \in DOMAIN Scripts : Ran(i)' => i = d \/ recorded[i] # 0
  BY RanAfter
<1> HIDE DEF d
<1>1. ASSUME NEW n \in Names, bikes[n] # Missing
      PROVE  /\ bikes'[n] # Missing /\ bikes'[n].origin = bikes[n].origin
             /\ d # c => bikes'[n].brazil = bikes[n].brazil
             /\ d = c => bikes'[n].brazil = TRUE
  <2>1. CASE d = c
    <3>1. bikes'[n] = [bikes[n] EXCEPT !.brazil = TRUE] /\ bikes[n] \in Bike
      BY <1>0, <1>1, <1>a, <2>1, EffectStamped DEF Table
    <3>2. bikes'[n] \in Bike /\ bikes'[n].origin = bikes[n].origin /\ bikes'[n].brazil = TRUE
      BY <3>1, StampedTypes
    <3>3. QED
      BY <2>1, <3>2, MissingIsNoBike
  <2>2. CASE d # c
    <3>1. Scripts[d].kind # "countries"
      BY <1>0, <2>2 DEF InOrder
    <3>2. /\ bikes'[n] \in Bike /\ bikes'[n].origin = bikes[n].origin
          /\ bikes'[n].brazil = bikes[n].brazil
      BY <1>0, <1>1, <1>b, <3>1, KeepsItsPlace
    <3>3. QED
      BY <2>2, <3>2, MissingIsNoBike
  <2>3. QED
    BY <2>1, <2>2
<1>2. ASSUME NEW n \in Names, bikes[n] = Missing, bikes'[n] # Missing
      PROVE  /\ Inserts(d, n, bikes) /\ bikes'[n].origin = Scripts[d].kind
             /\ bikes'[n].brazil = FALSE /\ Staged(d)[n] # Missing
  <2>1. ~Meets(d, n, bikes)
    BY <1>2 DEF Meets
  <2>2. Inserts(d, n, bikes)
    BY <1>0, <1>2, <1>b, <2>1, EffectKept
  <2>3. Staged(d)[n] \in Figures /\ Staged(d)[n] # Missing
    BY <1>0, <2>2, StagedTypes DEF Inserts
  <2>4. bikes'[n] = Created(Scripts[d].kind, Staged(d)[n])
    BY <1>0, <2>2, EffectInserted
  <2>5. /\ Created(Scripts[d].kind, Staged(d)[n]).origin = Scripts[d].kind
        /\ Created(Scripts[d].kind, Staged(d)[n]).brazil = FALSE
    BY DEF Created
  <2>6. QED
    BY <2>2, <2>3, <2>4, <2>5, Zenon
<1>3. Stamped(c)'
  <2> SUFFICES ASSUME NEW n \in Names \ byAdmin, bikes'[n] # Missing
               PROVE  /\ bikes'[n].origin = "1000ps" => bikes'[n].brazil = FALSE /\ recorded'[c] # 0
                      /\ bikes'[n].origin # "1000ps" /\ Ran(c)' => bikes'[n].brazil = TRUE
    BY <1>0 DEF Stamped
  <2>1. CASE bikes[n] # Missing /\ d = c
    <3>1. recorded[c] = 0
      BY <1>0, <2>1, PendingOnce DEF InOrder
    <3>2. bikes[n].origin # "1000ps"
      BY <2>1, <3>1 DEF Offered, Stamped
    <3>3. QED
      BY <1>1, <2>1, <3>2
  <2>2. CASE bikes[n] # Missing /\ d # c
    <3>1. Ran(c)' => Ran(c)
      BY <1>a, <1>d, <2>2 DEF Ran
    <3>2. /\ bikes[n].origin = "1000ps" => bikes[n].brazil = FALSE /\ recorded[c] # 0
          /\ bikes[n].origin # "1000ps" /\ Ran(c) => bikes[n].brazil = TRUE
      BY <2>2 DEF Offered, Stamped
    <3>3. bikes'[n].origin = bikes[n].origin /\ bikes'[n].brazil = bikes[n].brazil
      BY <1>1, <2>2
    <3>4. QED
      BY <1>0, <3>1, <3>2, <3>3
  <2>3. CASE bikes[n] = Missing
    <3>1. /\ Inserts(d, n, bikes) /\ bikes'[n].origin = Scripts[d].kind
          /\ bikes'[n].brazil = FALSE /\ Staged(d)[n] # Missing
      BY <1>2, <2>3
    <3>2. CASE Scripts[d].kind = "1000ps"
      <4>1. recorded[c] # 0
        BY <1>0, <1>a, <1>c, <3>2 DEF InOrder
      <4>2. QED
        BY <1>0, <3>1, <3>2, <4>1
    <3>3. CASE Scripts[d].kind # "1000ps"
      <4>1. Brings(d)
        BY <3>1, <3>3 DEF Inserts, Creates, Brings
      <4>2. d # c
        BY <1>a, <4>1 DEF Brings
      <4>3. recorded[c] = 0
        BY <1>0, <2>3, <3>1, <4>1, NothingNew DEF Staged, Deployed
      <4>4. ~Ran(c)'
        BY <1>a, <1>d, <4>2, <4>3
      <4>5. QED
        BY <3>1, <3>3, <4>4
    <3>4. QED
      BY <3>2, <3>3
  <2>4. QED
    BY <2>1, <2>2, <2>3
<1>4. Brought'
  <2> SUFFICES ASSUME NEW i \in DOMAIN Scripts, Brings(i), Ran(i)', NEW n \in Names \ byAdmin,
                      \A l \in DOMAIN Scripts[i].editions : Scripts[i].editions[l][n] # Missing
               PROVE  bikes'[n] # Missing
    BY <1>0 DEF Brought
  <2>1. CASE bikes[n] # Missing
    BY <1>1, <2>1
  <2>2. CASE bikes[n] = Missing /\ i = d
    <3>1. Staged(d)[n] # Missing
      BY <1>0, <2>2 DEF Staged, Deployed
    <3>2. Inserts(d, n, bikes)
      BY <2>2, <3>1 DEF Inserts, Brings, Creates
    <3>3. bikes'[n] = Created(Scripts[d].kind, Staged(d)[n])
      BY <1>0, <3>2, EffectInserted
    <3>4. bikes'[n] \in Bike
      <4>1. Scripts[d].kind \in Kinds /\ Staged(d)[n] \in Figures
        BY <1>0, <3>1, StagedTypes, ScriptTypes
      <4>2. QED
        BY <3>3, <4>1, CreatedTypes
    <3>5. QED
      BY <3>4, MissingIsNoBike
  <2>3. CASE bikes[n] = Missing /\ i # d
    <3>1. Ran(i)
      BY <1>d, <2>3 DEF Ran
    <3>2. QED
      BY <2>3, <3>1 DEF Offered, Brought
  <2>4. QED
    BY <2>1, <2>2, <2>3
<1>5. RanInOrder'
  BY <1>0 DEF Offered, RanInOrder
<1>6. QED
  BY <1>3, <1>4, <1>5 DEF Offered

LEMMA NextOffered ==
    ASSUME NEW c, InOrder(c)
    PROVE  Offered(c) /\ [Next]_vars => Offered(c)'
<1> SUFFICES ASSUME Offered(c), [Next]_vars PROVE Offered(c)'
  OBVIOUS
<1>0. History /\ History' /\ Deployed /\ c \in DOMAIN Scripts
  BY NextHistory DEF Offered, History, Typed, InOrder
<1>1. CASE Apply
  BY <1>0, <1>1, ApplyDevOffered, ApplyOffered
<1>2. CASE Record
  <2>1. /\ phase = "applied" /\ Current \in DOMAIN Scripts
        /\ \A i \in DOMAIN Scripts : i < Current => recorded[i] = edition[i]
    BY <1>0, <1>2, CurrentIsFirst DEF Record, History, JustApplied
  <2>2. \A i \in DOMAIN Scripts : recorded'[i] = IF i = Current THEN edition[i] ELSE recorded[i]
    BY <1>0, <1>2 DEF Record, Checksum, Deployed
  <2>3. \A i \in DOMAIN Scripts : edition[i] # 0 /\ (i < Current => recorded[i] # 0)
    BY <1>0, <2>1, EditionTypes
  <2>4. \A i \in DOMAIN Scripts : Ran(i)' => Ran(i)
    <3>1. phase' # "applied"
      BY <1>2 DEF Record
    <3>2. QED
      BY <2>1, <2>2, <3>1 DEF Ran
  <2>5. RanInOrder'
    <3> SUFFICES ASSUME NEW i \in DOMAIN Scripts, NEW j \in DOMAIN Scripts, i < j, recorded'[j] # 0
                 PROVE  recorded'[i] # 0
      BY DEF RanInOrder
    <3>1. CASE j = Current
      BY <2>2, <2>3, <3>1
    <3>2. CASE j # Current
      BY <2>2, <2>3, <3>2 DEF Offered, RanInOrder
    <3>3. QED
      BY <3>1, <3>2
  <2>6. recorded[c] # 0 => recorded'[c] # 0
    BY <1>0, <2>2, <2>3
  <2>7. UNCHANGED <<bikes, byAdmin>>
    BY <1>2 DEF Record
  <2>8. Stamped(c)'
    BY <1>0, <2>4, <2>6, <2>7 DEF Offered, Stamped
  <2>9. Brought'
    BY <2>4, <2>7 DEF Offered, Brought
  <2>10. QED
    BY <1>0, <2>5, <2>8, <2>9 DEF Offered
<1>3. CASE Boot \/ Abort \/ Serve \/ Shutdown \/ Crash \/ \E i \in DOMAIN Scripts : Edit(i)
  <2>1. UNCHANGED <<bikes, recorded, byAdmin>> /\ phase' # "applied"
    BY <1>3 DEF Boot, Abort, Serve, Shutdown, Crash, Edit
  <2>2. QED
    BY <1>0, <2>1, NothingRuns
<1>4. CASE \E n \in Names : Write(n) \/ Delete(n)
  <2>1. PICK n \in Names : Write(n) \/ Delete(n)
    BY <1>4
  <2>2. /\ phase' = "up" /\ recorded' = recorded /\ byAdmin' = byAdmin \cup {n}
        /\ \A m \in Names \ {n} : bikes'[m] = bikes[m]
    BY <1>0, <2>1 DEF Write, Delete, History, Typed, TypeOK
  <2>3. \A i : Ran(i)' => Ran(i)
    BY <2>2 DEF Ran
  <2>4. RanInOrder'
    BY <2>2 DEF Offered, RanInOrder
  <2>5. Stamped(c)'
    BY <2>2, <2>3 DEF Offered, Stamped
  <2>6. Brought'
    BY <2>2, <2>3 DEF Offered, Brought
  <2>7. QED
    BY <1>0, <2>4, <2>5, <2>6 DEF Offered
<1>5. CASE UNCHANGED vars
  <2>1. UNCHANGED <<bikes, recorded, byAdmin, edition, phase>>
    BY <1>5 DEF vars
  <2>2. Current' = Current
    BY <2>1, SamePending
  <2>3. \A i : Ran(i)' => Ran(i)
    BY <2>1, <2>2 DEF Ran
  <2>4. RanInOrder'
    BY <2>1 DEF Offered, RanInOrder
  <2>5. Stamped(c)'
    BY <2>1, <2>3 DEF Offered, Stamped
  <2>6. Brought'
    BY <2>1, <2>3 DEF Offered, Brought
  <2>7. QED
    BY <1>0, <2>4, <2>5, <2>6 DEF Offered
<1>6. QED
  BY <1>1, <1>2, <1>3, <1>4, <1>5 DEF Next, Migrate

\* With the scripts in the order of their names, whatever else is edited and rerun and whatever
\* crashes: while the application is up, every bike an import brought and admins have left
\* alone is offered in Brazil exactly if it is not one of 1000ps.
THEOREM EuropeIsNotBrazil ==
    ASSUME \E c : InOrder(c)
    PROVE  Spec => []BrazilIsNotEurope
<1>1. PICK c : InOrder(c)
  OBVIOUS
<1>2. Init => Offered(c)
  BY <1>1, InitOffered
<1>3. Offered(c) /\ [Next]_vars => Offered(c)'
  BY <1>1, NextOffered
<1>4. Offered(c) => BrazilIsNotEurope
  <2> SUFFICES ASSUME Offered(c), phase = "up", NEW n \in Names \ byAdmin, bikes[n] # Missing
               PROVE  bikes[n].brazil <=> bikes[n].origin # "1000ps"
    BY DEF BrazilIsNotEurope
  <2>1. c \in DOMAIN Scripts /\ Deployed /\ Pending = {}
    BY <1>1 DEF InOrder, Offered, History, Typed, Settled
  <2>2. recorded[c] = edition[c] /\ edition[c] # 0
    BY <2>1, EditionTypes DEF Pending
  <2>3. Ran(c)
    BY <2>2 DEF Ran
  <2>4. /\ bikes[n].origin = "1000ps" => bikes[n].brazil = FALSE
        /\ bikes[n].origin # "1000ps" => bikes[n].brazil = TRUE
    BY <2>3 DEF Offered, Stamped
  <2>5. QED
    BY <2>4
<1>5. QED
  BY <1>2, <1>3, <1>4, PTL DEF Spec
------------------------------------------------------------------------------
(* Which source a fresh catalogue has its figures from *)

\* What a script stages in the editions a fresh catalogue is seeded from.
First(i, n) == Scripts[i].editions[1][n]

\* It brings the bike, or says something of it in a column that its kind fills.
Inserting(i, n) == First(i, n) # Missing /\ Creates(Scripts[i].kind, n \notin Quads)
Says(i, n, c) ==
    /\ First(i, n) # Missing /\ First(i, n)[c] # NULL
    /\ Scripts[i].kind = "displacement" => c = "cc"
    /\ Scripts[i].kind = "patch" => c = "spec"

\* What the order of the scripts and their contents see to: the dev seed truncates nothing that
\* others have brought, the FIPE seed repeats no bike, the backfill of countries stages none,
\* and no script speaks of a bike before the one that brings it.
SaidInTime ==
    /\ \A i \in DOMAIN Scripts : Scripts[i].kind = "dev" => i = 1
    /\ \A i \in DOMAIN Scripts, n \in Names :
          /\ Scripts[i].kind = "countries" => First(i, n) = Missing
          /\ Scripts[i].kind = "fipe" /\ First(i, n) # Missing =>
                \A j \in DOMAIN Scripts : j < i => ~Inserting(j, n)
          /\ \A c \in {"spec", "cc"}, j \in DOMAIN Scripts :
                Says(i, n, c) /\ Inserting(j, n) =>
                    \E l \in DOMAIN Scripts : l <= i /\ Inserting(l, n)

\* v is what the first of the scripts up to k to say anything says.
Told(v, n, c, k) ==
    IF v = NULL THEN \A i \in DOMAIN Scripts : i <= k => ~Says(i, n, c)
    ELSE \E i \in DOMAIN Scripts :
            /\ i <= k /\ Says(i, n, c) /\ v = First(i, n)[c]
            /\ \A j \in DOMAIN Scripts : j < i => ~Says(j, n, c)
\* b is what the scripts up to k make of a catalogue without bikes.
MadeBy(b, n, k) ==
    IF b = Missing THEN \A i \in DOMAIN Scripts : i <= k => ~Inserting(i, n)
    ELSE /\ \E i \in DOMAIN Scripts : i <= k /\ Inserting(i, n)
         /\ \A c \in {"spec", "cc"} : Told(b.figures[c], n, c, k)

\* Nobody has written, and nothing has been edited.
Untouched == writes = 0 /\ \A i \in DOMAIN Scripts : edition[i] = 1

\* The scripts up to some k have made the catalogue, and Flyway knows of them, but perhaps of k.
UpTo(k) ==
    /\ k \in 0 .. Len(Scripts)
    /\ phase = "applied" => k = Current
    /\ \A i \in DOMAIN Scripts : (i < k => recorded[i] # 0) /\ (i > k => recorded[i] = 0)
    /\ \A n \in Names : MadeBy(bikes[n], n, k)
Seeded == Untouched => \E k \in 0 .. Len(Scripts) : UpTo(k)

\* A script stages figures or nothing.
LEMMA FirstTypes ==
    ASSUME NEW i \in DOMAIN Scripts, NEW n \in Names
    PROVE  First(i, n) \in Figures \cup {Missing} /\ i \in Nat /\ Scripts[i].kind \in Kinds
<1>1. Scripts[i].editions[1] \in [Names -> Figures \cup {Missing}] /\ Scripts[i].kind \in Kinds
  BY ScriptTypes
<1>2. QED
  BY <1>1, ScriptIndices DEF First

\* A merge gives a column its first value and never another.
LEMMA ToldOn ==
    ASSUME NEW d \in DOMAIN Scripts, NEW n \in Names, NEW c \in {"spec", "cc"}, NEW old, NEW new,
           NEW k \in {d - 1, d}, Told(old, n, c, k),
           First(d, n) # Missing, new = IF Says(d, n, c) THEN Coalesce(old, First(d, n)[c]) ELSE old
    PROVE  Told(new, n, c, d)
<1>1. \A i \in DOMAIN Scripts : /\ i <= k => i <= d
                                /\ i < d => i <= k
                                /\ i <= d => i = d \/ i < d
  BY ScriptIndices
<1>2. CASE old # NULL
  <2>1. new = old
    BY <1>2 DEF Coalesce
  <2>2. PICK i \in DOMAIN Scripts : /\ i <= k /\ Says(i, n, c) /\ old = First(i, n)[c]
                                    /\ \A j \in DOMAIN Scripts : j < i => ~Says(j, n, c)
    BY <1>2 DEF Told
  <2>3. QED
    BY <1>1, <1>2, <2>1, <2>2 DEF Told
<1>3. CASE old = NULL
  <2>1. \A i \in DOMAIN Scripts : i < d => ~Says(i, n, c)
    BY <1>1, <1>3 DEF Told
  <2>2. CASE Says(d, n, c)
    <3>1. new = First(d, n)[c] /\ new # NULL
      BY <1>3, <2>2 DEF Coalesce, Says
    <3>2. d <= d
      BY ScriptIndices
    <3>3. QED
      BY <2>1, <2>2, <3>1, <3>2 DEF Told
  <2>3. CASE ~Says(d, n, c)
    BY <1>1, <1>3, <2>1, <2>3 DEF Told
  <2>4. QED
    BY <2>2, <2>3
<1>4. QED
  BY <1>2, <1>3

\* Every kind of merge fills the columns it says something in.
LEMMA MergedSays ==
    ASSUME NEW d \in DOMAIN Scripts, NEW n \in Names, First(d, n) # Missing, NEW f \in Figures,
           Scripts[d].kind \notin {"dev", "fipe", "countries"}, NEW c \in {"spec", "cc"}
    PROVE  Merged(Scripts[d].kind, f, First(d, n))[c] =
              IF Says(d, n, c) THEN Coalesce(f[c], First(d, n)[c]) ELSE f[c]
<1>1. PICK kind \in Kinds, s \in Figures : kind = Scripts[d].kind /\ s = First(d, n)
  BY FirstTypes
<1>2. PICK m : m = Merged(kind, f, s)
  OBVIOUS
<1>3. /\ kind = "patch" => m.spec = Coalesce(f.spec, s.spec) /\ m.cc = f.cc
      /\ kind = "displacement" => m.spec = f.spec /\ m.cc = Coalesce(f.cc, s.cc)
      /\ kind \in {"brand", "triumph", "gapfill", "1000ps", "engine", "research"} =>
            m.spec = Coalesce(f.spec, s.spec) /\ m.cc = Coalesce(f.cc, s.cc)
  BY <1>2, MergedColumns
<1>4. kind \in {"brand", "triumph", "gapfill", "1000ps", "engine", "research", "patch", "displacement"}
  BY <1>1 DEF Kinds
<1>5. \A x : Coalesce(x, NULL) = x
  BY DEF Coalesce
<1>6. Says(d, n, c) <=> /\ s[c] # NULL
                        /\ kind = "displacement" => c = "cc"
                        /\ kind = "patch" => c = "spec"
  BY <1>1 DEF Says
<1>7. m[c] = IF Says(d, n, c) THEN Coalesce(f[c], s[c]) ELSE f[c]
  <2>1. CASE kind = "patch"
    BY <1>3, <1>5, <1>6, <2>1
  <2>2. CASE kind = "displacement"
    BY <1>3, <1>5, <1>6, <2>2
  <2>3. CASE kind \notin {"patch", "displacement"}
    BY <1>3, <1>4, <1>5, <1>6, <2>3
  <2>4. QED
    BY <2>1, <2>2, <2>3
<1>8. QED
  BY <1>1, <1>2, <1>7

\* The next script, or the last once more, makes of a bike what is to be made of it.
LEMMA EffectMadeBy ==
    ASSUME SaidInTime, Deployed, NEW d \in DOMAIN Scripts, NEW k \in {d - 1, d},
           NEW table \in Table, NEW n \in Names, Staged(d)[n] = First(d, n), MadeBy(table[n], n, k)
    PROVE  MadeBy(Effect(d, table)[n], n, d)
<1>1. \A i \in DOMAIN Scripts : /\ i <= k => i <= d
                                /\ i < d => i <= k
                                /\ i <= d => i = d \/ i < d
                                /\ i <= i
  BY ScriptIndices
<1> DEFINE kind == Scripts[d].kind
<1>2. CASE Inserts(d, n, table)
  <2>1. First(d, n) \in Figures /\ Inserting(d, n)
    BY <1>2, FirstTypes DEF Inserts, Inserting
  <2>2. PICK b \in Bike : b = Effect(d, table)[n] /\ b.figures = First(d, n)
    <3>1. Effect(d, table)[n] = Created(kind, First(d, n))
      BY <1>2, EffectInserted
    <3>2. kind \in Kinds
      BY FirstTypes
    <3>3. QED
      BY <2>1, <3>1, <3>2, CreatedTypes
  <2>3. kind \notin {"displacement", "patch"}
    BY <2>1 DEF Inserting, Creates
  <2>4. ASSUME NEW c \in {"spec", "cc"}, NEW j \in DOMAIN Scripts, j < d PROVE ~Says(j, n, c)
    <3>1. CASE kind = "dev"
      <4>1. d = 1
        BY <3>1 DEF SaidInTime
      <4>2. QED
        BY <2>4, <4>1, ScriptIndices
    <3>2. CASE kind # "dev"
      <4>1. table[n] = Missing
        BY <1>2, <3>2 DEF Inserts
      <4>2. \A i \in DOMAIN Scripts : i <= j => ~Inserting(i, n)
        BY <1>1, <2>4, <4>1, ScriptIndices DEF MadeBy
      <4>3. QED
        BY <2>1, <4>2 DEF SaidInTime
    <3>3. QED
      BY <3>1, <3>2
  <2>5. ASSUME NEW c \in {"spec", "cc"} PROVE Told(b.figures[c], n, c, d)
    <3>1. Says(d, n, c) <=> First(d, n)[c] # NULL
      BY <2>1, <2>3 DEF Says, Inserting
    <3>2. CASE First(d, n)[c] # NULL
      BY <1>1, <2>2, <2>4, <3>1, <3>2 DEF Told
    <3>3. CASE First(d, n)[c] = NULL
      BY <1>1, <2>2, <2>4, <3>1, <3>3 DEF Told
    <3>4. QED
      BY <3>2, <3>3
  <2>6. QED
    BY <1>1, <2>1, <2>2, <2>5, MissingIsNoBike DEF MadeBy
<1>3. CASE Meets(d, n, table)
  <2>1. PICK f \in Figures, b \in Bike :
            /\ f = table[n].figures /\ b = Effect(d, table)[n]
            /\ b.figures = Merged(kind, f, First(d, n))
    BY <1>3, MetFields, BikeFields
  <2>2. table[n] # Missing /\ First(d, n) # Missing /\ kind \notin {"dev", "fipe", "countries"}
    BY <1>3 DEF Meets
  <2>3. \E i \in DOMAIN Scripts : i <= d /\ Inserting(i, n)
    BY <1>1, <2>2 DEF MadeBy
  <2>4. ASSUME NEW c \in {"spec", "cc"} PROVE Told(b.figures[c], n, c, d)
    <3>1. b.figures[c] = IF Says(d, n, c) THEN Coalesce(f[c], First(d, n)[c]) ELSE f[c]
      BY <2>1, <2>2, MergedSays
    <3>2. Told(f[c], n, c, k)
      BY <2>1, <2>2 DEF MadeBy
    <3>3. QED
      BY <2>2, <3>1, <3>2, ToldOn
  <2>5. QED
    BY <2>1, <2>3, <2>4, MissingIsNoBike DEF MadeBy
<1>4. CASE ~Inserts(d, n, table) /\ ~Meets(d, n, table)
  <2>1. CASE table[n] = Missing
    <3>1. ~Inserting(d, n)
      BY <1>4, <2>1 DEF Inserts, Inserting
    <3>2. Effect(d, table)[n] = Missing
      BY <1>4, <2>1, EffectKept, EffectDropped
    <3>3. QED
      BY <1>1, <2>1, <3>1, <3>2 DEF MadeBy
  <2>2. CASE table[n] # Missing /\ kind = "dev"
    <3>1. ~Inserting(d, n)
      BY <1>4, <2>2 DEF Inserts, Inserting
    <3>2. Effect(d, table)[n] = Missing /\ d = 1
      BY <1>4, <2>2, EffectDropped DEF SaidInTime
    <3>3. \A i \in DOMAIN Scripts : i <= d => i = d
      BY <3>2, ScriptIndices
    <3>4. QED
      BY <3>1, <3>2, <3>3 DEF MadeBy
  <2>3. CASE table[n] # Missing /\ kind # "dev"
    <3>1. Effect(d, table)[n] # Missing /\ Effect(d, table)[n].figures = table[n].figures
      <4>1. CASE kind = "countries"
        <5>1. table[n] \in Bike
          BY <2>3 DEF Table
        <5>2. [table[n] EXCEPT !.brazil = TRUE] \in Bike
              /\ [table[n] EXCEPT !.brazil = TRUE].figures = table[n].figures
          BY <5>1, StampedTypes
        <5>3. Effect(d, table)[n] = [table[n] EXCEPT !.brazil = TRUE]
          BY <2>3, <4>1, EffectStamped
        <5>4. QED
          BY <5>2, <5>3, MissingIsNoBike, Zenon
      <4>2. CASE kind # "countries"
        BY <1>4, <2>3, <4>2, EffectKept
      <4>3. QED
        BY <4>1, <4>2
    <3>2. PICK i \in DOMAIN Scripts : i <= k /\ Inserting(i, n)
      BY <2>3 DEF MadeBy
    <3>3. ASSUME k # d PROVE First(d, n) = Missing
      <4>1. i < d
        BY <3>2, <3>3, ScriptIndices
      <4>2. CASE kind \in {"countries", "fipe"}
        BY <3>2, <4>1, <4>2 DEF SaidInTime
      <4>3. CASE kind \notin {"countries", "fipe"}
        BY <1>4, <2>3, <4>3 DEF Meets
      <4>4. QED
        BY <4>2, <4>3
    <3>4. ASSUME NEW c \in {"spec", "cc"} PROVE Told(table[n].figures[c], n, c, d)
      <4>1. Told(table[n].figures[c], n, c, k)
        BY <2>3 DEF MadeBy
      <4>2. CASE k = d
        BY <4>1, <4>2
      <4>3. CASE k # d
        <5>1. ~Says(d, n, c)
          BY <3>3, <4>3 DEF Says
        <5>2. QED
          BY <1>1, <4>1, <5>1 DEF Told
      <4>4. QED
        BY <4>2, <4>3
    <3>5. QED
      BY <1>1, <3>1, <3>2, <3>4 DEF MadeBy
  <2>4. QED
    BY <2>1, <2>2, <2>3
<1>5. QED
  BY <1>2, <1>3, <1>4
\* Nobody has written yet, so each step but a script's leaves the bikes alone.
LEMMA NextSeeded ==
    ASSUME SaidInTime
    PROVE  History /\ Seeded /\ [Next]_vars => Seeded'
<1> SUFFICES ASSUME History, Seeded, [Next]_vars, Untouched' PROVE \E k \in 0 .. Len(Scripts) : UpTo(k)'
  BY DEF Seeded
<1>1. Deployed /\ bikes \in Table /\ Typed' /\ writes \in Nat
  <2>1. Typed /\ Typed'
    BY NextTyped DEF History
  <2>2. QED
    BY <2>1, BoundAssumption DEF Typed, TypeOK, Table
<1>2. Untouched
  <2>1. writes = 0
    <3>1. CASE \E n \in Names : Write(n) \/ Delete(n)
      BY <1>1, <3>1 DEF Write, Delete, Untouched
    <3>2. CASE ~\E n \in Names : Write(n) \/ Delete(n)
      BY <3>2 DEF Untouched, Next, Migrate, Boot, Apply, Abort, Record, Serve, Shutdown, Crash, Edit, vars
    <3>3. QED
      BY <3>1, <3>2
  <2>2. edition' = edition
    <3>1. CASE \E i \in DOMAIN Scripts : Edit(i)
      <4>1. PICK i \in DOMAIN Scripts : edition' = [edition EXCEPT ![i] = @ + 1]
        BY <3>1 DEF Edit
      <4>2. edition[i] \in Nat \ {0} /\ edition'[i] = edition[i] + 1
        BY <1>1, <4>1, EditionTypes DEF Deployed
      <4>3. QED
        BY <4>2 DEF Untouched
    <3>2. CASE ~\E i \in DOMAIN Scripts : Edit(i)
      BY <3>2 DEF Next, Migrate, Boot, Apply, Abort, Record, Serve, Shutdown, Crash, Write, Delete, vars
    <3>3. QED
      BY <3>1, <3>2
  <2>3. QED
    BY <2>1, <2>2 DEF Untouched
<1>3. PICK k \in 0 .. Len(Scripts) : UpTo(k)
  BY <1>2 DEF Seeded
<1>4. ASSUME UNCHANGED <<bikes, edition, recorded>>, phase' # "applied" PROVE UpTo(k)'
  BY <1>3, <1>4 DEF UpTo
<1>5. CASE Apply
  <2>0. PICK d : d = Current
    OBVIOUS
  <2>1. /\ Pending # {} /\ bikes' = Effect(d, bikes) /\ UNCHANGED <<edition, recorded>>
        /\ phase = "migrating"
    BY <1>5, <2>0 DEF Apply
  <2>2. /\ d \in Pending /\ d \in DOMAIN Scripts /\ Current' = d
        /\ \A i \in DOMAIN Scripts : i < d => recorded[i] = 1
    BY <1>2, <2>0, <2>1, CurrentIsFirst, SamePending DEF Untouched
  <2>3. recorded[d] = 0
    BY <1>1, <1>2, <2>2, EditionTypes DEF Pending, Untouched
  <2>4. k \in {d - 1, d}
    <3>1. DOMAIN Scripts = 1 .. Len(Scripts) /\ Len(Scripts) \in Nat /\ d \in Nat \ {0} /\ k \in Nat
      BY <2>2, ScriptIndices
    <3>2. ~(d < k)
      BY <1>3, <2>2, <2>3 DEF UpTo
    <3>3. ASSUME k < d - 1 PROVE FALSE
      <4>1. k + 1 \in DOMAIN Scripts /\ k < k + 1 /\ k + 1 < d
        BY <2>2, <3>1, <3>3
      <4>2. QED
        BY <1>3, <2>2, <4>1 DEF UpTo
    <3>4. QED
      BY <3>1, <3>2, <3>3
  <2>5. \A n \in Names : Staged(d)[n] = First(d, n)
    BY <1>2, <2>2 DEF Staged, First, Untouched
  <2>6. ASSUME NEW n \in Names PROVE MadeBy(bikes'[n], n, d)
    BY <1>1, <1>3, <2>1, <2>2, <2>4, <2>5, EffectMadeBy DEF UpTo
  <2>7. \A i \in DOMAIN Scripts : (i < d => recorded'[i] # 0) /\ (i > d => recorded'[i] = 0)
    <3>1. \A i \in DOMAIN Scripts : i > d => i > k
      BY <2>2, <2>4, ScriptIndices
    <3>2. QED
      BY <1>3, <2>1, <2>2, <3>1 DEF UpTo
  <2>8. UpTo(d)'
    BY <2>2, <2>6, <2>7, ScriptIndices DEF UpTo
  <2>9. QED
    BY <2>2, <2>8, ScriptIndices
<1>6. CASE Record
  <2>1. /\ phase = "applied" /\ phase' = "migrating" /\ UNCHANGED <<bikes, edition>>
        /\ \A i \in DOMAIN Scripts : i # Current => recorded'[i] = recorded[i]
    BY <1>1, <1>6 DEF Record, Deployed
  <2>2. k = Current
    BY <1>3, <2>1 DEF UpTo
  <2>3. \A i \in DOMAIN Scripts : i < k \/ i > k => i # k
    BY ScriptIndices
  <2>4. UpTo(k)'
    BY <1>3, <2>1, <2>2, <2>3 DEF UpTo
  <2>5. QED
    BY <2>4
<1>7. CASE Boot \/ Abort \/ Serve \/ Shutdown \/ Crash \/ \E i \in DOMAIN Scripts : Edit(i)
  <2>1. UNCHANGED <<bikes, recorded>> /\ phase' # "applied"
    BY <1>7 DEF Boot, Abort, Serve, Shutdown, Crash, Edit
  <2>2. UpTo(k)'
    BY <1>3, <2>1 DEF UpTo
  <2>3. QED
    BY <2>2
<1>8. CASE \E n \in Names : Write(n) \/ Delete(n)
  BY <1>1, <1>8 DEF Write, Delete, Untouched
<1>9. CASE UNCHANGED vars
  <2>1. UNCHANGED <<bikes, edition, recorded, phase>>
    BY <1>9 DEF vars
  <2>2. Current' = Current
    BY <2>1, SamePending
  <2>3. UpTo(k)'
    BY <1>3, <2>1, <2>2 DEF UpTo
  <2>4. QED
    BY <2>3
<1>10. QED
  BY <1>5, <1>6, <1>7, <1>8, <1>9 DEF Next, Migrate

\* No script has made a catalogue without bikes.
LEMMA InitSeeded == Init => Seeded
<1> SUFFICES ASSUME Init PROVE Seeded
  OBVIOUS
<1>1. /\ phase = "down" /\ \A i \in DOMAIN Scripts : recorded[i] = 0
      /\ \A n \in Names : bikes[n] = Missing
  BY DEF Init
<1>2. \A i \in DOMAIN Scripts : ~(i <= 0) /\ ~(i < 0)
  BY ScriptIndices
<1>3. 0 \in 0 .. Len(Scripts)
  BY ScriptIndices
<1>4. UpTo(0)
  BY <1>1, <1>2, <1>3 DEF UpTo, MadeBy
<1>5. QED
  BY <1>3, <1>4 DEF Seeded

\* In a catalogue that is seeded from nothing, whatever crashes on the way and is run again, a
\* bike's figure is the one the first script to say it says, where no script speaks of a bike
\* before the one that brings it.
THEOREM FirstSourceIsKept ==
    ASSUME SaidInTime
    PROVE  Spec => []FirstSourceWins
<1>1. ASSUME History, Seeded PROVE FirstSourceWins
  <2>1. SUFFICES ASSUME phase = "up", Untouched, NEW n \in Names, NEW c \in {"spec", "cc"}, bikes[n] # Missing
                 PROVE  LET says == {i \in DOMAIN Scripts :
                                       /\ Staged(i)[n] # Missing /\ Staged(i)[n][c] # NULL
                                       /\ Scripts[i].kind = "displacement" => c = "cc"
                                       /\ Scripts[i].kind = "patch" => c = "spec"}
                        IN bikes[n].figures[c] = IF says = {} THEN NULL ELSE Staged(Min(says))[n][c]
    BY DEF FirstSourceWins, Untouched
  <2> DEFINE says == {i \in DOMAIN Scripts :
                        /\ Staged(i)[n] # Missing /\ Staged(i)[n][c] # NULL
                        /\ Scripts[i].kind = "displacement" => c = "cc"
                        /\ Scripts[i].kind = "patch" => c = "spec"}
             v == bikes[n].figures[c]
  <2>2. \A i \in DOMAIN Scripts : Staged(i)[n] = First(i, n) /\ (i \in says <=> Says(i, n, c))
    BY <2>1 DEF Untouched, Staged, First, Says
  <2>3. says \subseteq DOMAIN Scripts
    OBVIOUS
  <2>4. PICK k \in 0 .. Len(Scripts) : UpTo(k)
    BY <1>1, <2>1 DEF Seeded
  <2>5. \A i \in DOMAIN Scripts : i <= k
    <3>1. \A i \in DOMAIN Scripts : recorded[i] = 1
      BY <1>1, <2>1 DEF History, Settled, Pending, Untouched
    <3>2. \A i \in DOMAIN Scripts : i > k => recorded[i] = 0
      BY <2>4 DEF UpTo
    <3>3. QED
      BY <3>1, <3>2, ScriptIndices
  <2>6. Told(v, n, c, k)
    BY <2>1, <2>4 DEF UpTo, MadeBy
  <2> HIDE DEF says, v
  <2>7. CASE v = NULL
    BY <2>2, <2>3, <2>5, <2>6, <2>7 DEF Told, says, v
  <2>8. CASE v # NULL
    <3>1. PICK i \in DOMAIN Scripts : /\ Says(i, n, c) /\ v = First(i, n)[c]
                                      /\ \A j \in DOMAIN Scripts : j < i => ~Says(j, n, c)
      BY <2>6, <2>8 DEF Told
    <3>2. i \in says /\ \A j \in says : ~(j < i)
      BY <2>2, <2>3, <3>1
    <3>3. Min(says) \in says /\ \A j \in says : Min(says) <= j
      <4>1. says \subseteq Nat /\ says # {}
        BY <2>3, <3>2, ScriptIndices
      <4>2. QED
        BY <4>1, LeastNatural
    <3>4. Min(says) = i
      <4>1. Min(says) \in Nat /\ i \in Nat
        BY <2>3, <3>2, <3>3, ScriptIndices
      <4>2. QED
        BY <3>2, <3>3, <4>1
    <3>5. Staged(i)[n][c] = v
      BY <2>2, <3>1
    <3>6. QED
      BY <3>2, <3>4, <3>5 DEF says, v
  <2>9. QED
    BY <2>7, <2>8
<1>2. Init => Seeded
  BY InitSeeded
<1>3. History /\ Seeded /\ [Next]_vars => Seeded'
  BY NextSeeded
<1>4. History /\ Seeded => FirstSourceWins
  BY <1>1
<1>5. QED
  BY <1>2, <1>3, <1>4, AlwaysHistory, PTL DEF Spec
===============================================================================
