------------------------------ MODULE SeedScripts ------------------------------
(***************************************************************************)
(* What a seed script makes of one bike, as the generators in tools/ write *)
(* the scripts.  A bike is the columns the scripts treat differently: spec *)
(* for every column that is only gap-filled, the two weights, the bore     *)
(* (what bore, stroke and cylinders sweep) against the displacement it     *)
(* should be, the row version, and whether Brazil is among its countries.  *)
(***************************************************************************)
EXTENDS Naturals

CONSTANTS
    Specs,    \* contents of a gap-filled column
    NULL,     \* a column without a value
    Missing   \* no row: of the catalogue, or staged by a script

Figures == [spec : Specs \cup {NULL}, kerb : Nat \cup {NULL}, dry : Nat \cup {NULL},
            bore : Nat \cup {NULL}, cc : Nat \cup {NULL}]

\* brand: Harley-Davidson, Kawasaki, BMW, Royal Enfield and Yamaha, from one template.
\* research: the researched Kawasaki engines.  patch: the backfills of Research.
Kinds == {"dev", "fipe", "displacement", "brand", "research", "triumph", "gapfill",
          "countries", "1000ps", "engine", "patch"}

\* A bike remembers the kind of script that has inserted it.
Bike == [figures : Figures, version : Nat, brazil : BOOLEAN, origin : Kinds \cup {"admin"}]

\* SQL's comparisons: NULL is neither above nor in contradiction with anything.
Above(dry, kerb) == dry # NULL /\ kerb # NULL /\ dry > kerb
Contradict(bore, cc, pct) ==
    /\ bore # NULL /\ cc # NULL
    /\ 100 * bore > (100 + pct) * cc \/ 100 * bore < (100 - pct) * cc

ASSUME ValueAssumption == NULL \notin Specs \cup Nat /\ Missing \notin Figures \cup Bike

------------------------------------------------------------------------------
(* Columns *)

Coalesce(old, new) == IF old = NULL THEN new ELSE old

Filled(f, s) == [c \in DOMAIN f |-> Coalesce(f[c], s[c])]

\* The research and the engine backfill write the engine block only.
FilledEngine(f, s) ==
    [c \in DOMAIN f |-> IF c \in {"kerb", "dry"} THEN f[c] ELSE Coalesce(f[c], s[c])]

\* 1000ps decides the weight in the statement that fills it, ...
FittingDry(f, s) ==
    IF Above(Coalesce(f.dry, s.dry), Coalesce(f.kerb, s.kerb)) THEN NULL
    ELSE Coalesce(f.dry, s.dry)
\* ... and fills the bore only where it sweeps the displacement there is by then.
FittingBore(f, s) ==
    IF f.bore = NULL /\ Contradict(s.bore, Coalesce(f.cc, s.cc), 25) THEN NULL
    ELSE Coalesce(f.bore, s.bore)
Fitted(f, s) ==
    [c \in DOMAIN f |-> CASE c = "dry" -> FittingDry(f, s)
                         [] c = "bore" -> FittingBore(f, s)
                         [] OTHER -> Coalesce(f[c], s[c])]

\* The gap-fill merges like a brand import, then withdraws a bore that equals its own
\* and does not sweep the displacement.
Withdrawn(f, s) ==
    LET m == Filled(f, s)
    IN  IF m.bore = s.bore /\ Contradict(m.bore, m.cc, 5) THEN [m EXCEPT !.bore = NULL] ELSE m

\* Mutant: what is stored need not be wrong.
OverruledAnyhow(f, s) ==
    LET m == FilledEngine(f, s)
    IN  IF s.bore # NULL /\ ~Contradict(s.bore, m.cc, 2) THEN [m EXCEPT !.bore = s.bore] ELSE m
\* The one place where a stored value is overruled: by a researched bore that sweeps the
\* displacement, when the stored one does not.
Overruled(f, s) ==
    LET m == FilledEngine(f, s)
    IN  IF s.bore # NULL /\ Contradict(m.bore, m.cc, 2) /\ ~Contradict(s.bore, m.cc, 2)
        THEN [m EXCEPT !.bore = s.bore] ELSE m

Merged(kind, f, s) ==
    CASE kind \in {"brand", "triumph"} -> Filled(f, s)
      [] kind = "engine" -> FilledEngine(f, s)
      [] kind = "displacement" -> [f EXCEPT !.cc = Coalesce(@, s.cc)]
      [] kind = "research" -> Overruled(f, s)
      [] kind = "gapfill" -> Withdrawn(f, s)
      [] kind = "1000ps" -> Fitted(f, s)
      [] kind = "patch" -> [f EXCEPT !.spec = Coalesce(@, s.spec)]
      [] OTHER -> f

------------------------------------------------------------------------------
(* Rows *)

\* A dimension block is there when it holds something.
NoBlock(f) == f.kerb = NULL /\ f.dry = NULL

\* The row lacks it and the import supplies it.
AddsAnything(f, s) == f.spec = NULL \/ NoBlock(f)  \* mutant: whether or not it does
Adds(f, s) ==
    \/ f.spec = NULL /\ s.spec # NULL
    \/ NoBlock(f) /\ ~NoBlock(s)

\* The spec imports bump the version where they write the row; what only writes an engine
\* block, and the backfills, do not.
Bumped(kind, b, s) ==
    IF kind \in {"brand", "triumph", "gapfill", "1000ps"} /\ Adds(b.figures, s)
    THEN b.version + 1 ELSE b.version

\* Mutant: the column list of an insert that does not mention the version.
CreatedUnversioned(kind, s) ==
    [figures |-> s, version |-> NULL, brazil |-> FALSE, origin |-> kind]
Created(kind, s) == [figures |-> s, version |-> 0, brazil |-> FALSE, origin |-> kind]

\* 1000ps also stages quads and scooters, to fill those that are there already.
Creates(kind, motorcycle) ==
    \/ kind \in {"dev", "fipe", "brand"}
    \/ kind = "1000ps" /\ motorcycle

------------------------------------------------------------------------------
(* What gives up the boot: the CHECKs of the tables, and the checks before COMMIT *)

\* ck_dimensions_dry_weight_below_kerb, on the statement that fills the weights: the
\* statement after it that would drop the dry weight is never reached.
RejectsWeights(kind, f, s) ==
    LET m == IF kind = "gapfill" THEN Filled(f, s) ELSE Merged(kind, f, s)
    IN  Above(m.dry, m.kerb)

\* Mutant: reports what it wrote and raises what it found.
RejectsPrior(kind, f, s) ==
    LET m == Merged(kind, f, s)
    IN  \/ kind = "research" /\ Contradict(m.bore, m.cc, 2)
        \/ kind = "gapfill" /\ Contradict(m.bore, m.cc, 25)
        \/ kind = "1000ps" /\ Contradict(m.bore, m.cc, 25) /\ m.bore = f.bore /\ m.cc = f.cc
\* Engines nothing can sweep.  The research and the gap-fill look at every row they stage,
\* 1000ps at those whose figures it has changed.  (The research also wants torque to peak no
\* later than power; engine speeds are left out.)
RejectsGeometry(kind, f, s) ==
    LET m == Merged(kind, f, s)
    IN  \/ kind = "research" /\ Contradict(m.bore, m.cc, 2)
        \/ kind = "gapfill" /\ Contradict(m.bore, m.cc, 25)
        \/ /\ kind = "1000ps" /\ Contradict(m.bore, m.cc, 25)
           /\ m.bore # f.bore \/ m.cc # f.cc

\* The Triumph import looks at every Triumph of the catalogue, its own or not.
RejectsBrand(kind, f) == kind = "triumph" /\ Contradict(f.bore, f.cc, 5)

\* The engine backfills want a displacement in every block they have filled.
RejectsDisplacement(kind, f, s) ==
    kind \in {"displacement", "engine"} /\ Merged(kind, f, s).cc = NULL
==============================================================================
