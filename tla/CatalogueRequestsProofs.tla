------------------------ MODULE CatalogueRequestsProofs ------------------------
(***************************************************************************)
(* Proofs about the requests of CatalogueWrites, for every number of       *)
(* clients, bikes and requests: what a request has sent and has still to   *)
(* send (Local), and what it can rely on of what it has loaded (Shared);   *)
(* from these, that slugs fit their rows, that links survive, that a bike  *)
(* that is gone stays gone and leaves nothing behind, that edits of a row  *)
(* are detected, that a create is only refused after two lost races, and   *)
(* that only removals make requests wait for one another in a circle.      *)
(***************************************************************************)
EXTENDS CatalogueWritesProofs

------------------------------------------------------------------------------
(* What a request has sent, and has still to send *)

Occurs(p, s) == \E k \in DOMAIN s : s[k] = p
Pending(c, p) == Occurs(p, todo[c])
Written(c, p) == writes[c][p] # Untouched

\* The order in which a request writes the parts of a bike.
Rank(r, p) ==
    IF r.op = "delete"
    THEN IF p = "extras" THEN 1 ELSE IF p = "motorcycle" THEN 2 ELSE IF p = "dimension" THEN 3 ELSE 4
    ELSE IF p = "engine" THEN 2 ELSE IF p = "motorcycle" THEN 3 ELSE IF p = "extras" THEN 4
         ELSE IF r.dimension = Absent THEN 5 ELSE 1
Ascending(r, s) == \A j, k \in DOMAIN s : j < k => Rank(r, s[j]) < Rank(r, s[k])

\* A PUT past its apply, and what it has to write of each part.
Editing(c) == req[c].op = "update" /\ pc[c] \in {"autoflush", "probe", "flush"}
Moved(c) == slug[c] # snap[c].motorcycle.slug
Dirty(c) == RootDirty(req[c], snap[c])
DimensionChanges(c) == DimensionDirty(req[c], snap[c]) \/ DropsDimension(req[c], snap[c])
\* Nothing has been flushed before the probe: the root had no changes.
Unflushed(c) == pc[c] = "probe" /\ ~Dirty(c)

EditedSlug(c) ==
    /\ pc[c] \in {"autoflush", "probe"} => ~Moved(c) /\ ~KeepsSlug(c)
    /\ pc[c] = "flush" => KeepsSlug(c)
    /\ Moved(c) => /\ ~SlugMatchesIdentity(snap[c].motorcycle.slug, Base(c))
                   /\ slug[c] \in DerivedFrom(Base(c))

EditedEngine(c) ==
    /\ Pending(c, "engine") => EngineDirty(req[c], snap[c])
    /\ Written(c, "engine") => /\ EngineDirty(req[c], snap[c])
                               /\ writes[c].engine = req[c].engine
                               /\ ~Pending(c, "engine")
    /\ EngineDirty(req[c], snap[c]) => Pending(c, "engine") \/ Written(c, "engine") \/ Unflushed(c)

EditedDimension(c) ==
    /\ Pending(c, "dimension") => DimensionChanges(c)
    /\ Written(c, "dimension") => /\ DimensionChanges(c)
                                  /\ writes[c].dimension = DimensionOf(req[c], RowFor(snap[c]))
                                  /\ ~Pending(c, "dimension")
    /\ DimensionChanges(c) => Pending(c, "dimension") \/ Written(c, "dimension") \/ Unflushed(c)

EditedExtras(c) ==
    /\ Pending(c, "extras") => ExtrasDirty(req[c], snap[c])
    /\ Written(c, "extras") => /\ ExtrasDirty(req[c], snap[c])
                               /\ writes[c].extras = req[c].extras
                               /\ ~Pending(c, "extras")
    /\ ExtrasDirty(req[c], snap[c]) => Pending(c, "extras") \/ Written(c, "extras") \/ Unflushed(c)

\* The row may be written twice: with the old slug before the probe, and with the new one.
EditedMotorcycle(c) ==
    /\ Pending(c, "motorcycle") => Dirty(c) \/ Moved(c)
    /\ Written(c, "motorcycle") => /\ Dirty(c) \/ Moved(c)
                                   /\ writes[c].motorcycle.ident = req[c].ident
                                   /\ writes[c].motorcycle.version \in
                                        {snap[c].motorcycle.version + 1, snap[c].motorcycle.version + 2}
    /\ Written(c, "motorcycle") /\ ~Pending(c, "motorcycle") => writes[c].motorcycle.slug = slug[c]
    /\ Written(c, "motorcycle") /\ (Pending(c, "motorcycle") \/ pc[c] # "flush") =>
           /\ writes[c].motorcycle.slug = snap[c].motorcycle.slug
           /\ writes[c].motorcycle.version = snap[c].motorcycle.version + 1
    /\ Written(c, "motorcycle") /\ Pending(c, "motorcycle") =>
           pc[c] = "flush" /\ todo[c] = <<"motorcycle">> /\ Moved(c)
    /\ Dirty(c) \/ Moved(c) => Pending(c, "motorcycle") \/ Written(c, "motorcycle") \/ Unflushed(c)

\* What is written comes before what is pending, but for the second UPDATE of the row.
InOrder(c) ==
    /\ Ascending(req[c], todo[c])
    /\ \A p, q \in Parts : Written(c, p) /\ Pending(c, q) =>
           \/ Rank(req[c], p) < Rank(req[c], q)
           \/ q = "motorcycle" /\ Written(c, "motorcycle")

EditProgress(c) ==
    /\ pc[c] = "autoflush" => Dirty(c) /\ todo[c] # <<>>
    /\ Unflushed(c) => writes[c] = NoWrites
    /\ EditedSlug(c) /\ EditedEngine(c) /\ EditedDimension(c) /\ EditedExtras(c)
    /\ EditedMotorcycle(c) /\ InOrder(c)

RemovalProgress(c) ==
    /\ InOrder(c)
    /\ slug[c] = snap[c].motorcycle.slug
    /\ writes[c].motorcycle \in {Untouched, Absent} /\ writes[c].extras \in {Untouched, NoExtras}
    /\ writes[c].engine \in {Untouched, Absent} /\ writes[c].dimension \in {Untouched, Absent}
    /\ Pending(c, "motorcycle") \/ Written(c, "motorcycle")
    /\ Pending(c, "motorcycle") => ~Written(c, "motorcycle")
    /\ snap[c].engine # Absent => Pending(c, "engine") \/ Written(c, "engine")
    /\ snap[c].dimension # Absent => Pending(c, "dimension") \/ Written(c, "dimension")
    /\ Pending(c, "engine") \/ Written(c, "engine") => snap[c].engine # Absent
    /\ Pending(c, "dimension") \/ Written(c, "dimension") => snap[c].dimension # Absent

InsertProgress(c) ==
    /\ slug[c] \in DerivedFrom(Base(c))
    /\ pc[c] = "flush" =>
           writes[c] = [motorcycle |-> [slug |-> slug[c], ident |-> req[c].ident, version |-> 0],
                        engine |-> req[c].engine,
                        dimension |-> DimensionOf(req[c], 0),
                        extras |-> req[c].extras]

Local(c) ==
    /\ Editing(c) => EditProgress(c)
    /\ req[c].op = "delete" /\ pc[c] = "flush" => RemovalProgress(c)
    /\ req[c].op = "delete" => pc[c] \in {"idle", "load", "flush"}
    /\ req[c].op = "create" /\ pc[c] \in {"insert", "flush"} => InsertProgress(c)
    /\ pc[c] = "apply" => req[c].op = "update" /\ ~Moved(c)

------------------------------------------------------------------------------
(* What a request can rely on *)

Loaded(c) == req[c].op # "create" /\ pc[c] \in {"apply", "autoflush", "probe", "flush"}
Inserted(c) == req[c].op = "create" /\ pc[c] = "flush"

\* The committed row is the version c has loaded.
Current(c) ==
    /\ motorcycles[bike[c]] # Absent
    /\ motorcycles[bike[c]].version = snap[c].motorcycle.version

\* Versions only grow, so the row of the version loaded is the row loaded; and what comes
\* and goes with the row is as it was: blocks may have new figures, and nothing else.
Reliable(c) ==
    /\ bike[c] < nextId
    /\ motorcycles[bike[c]] # Absent =>
           snap[c].motorcycle.version <= motorcycles[bike[c]].version
    /\ Current(c) =>
           /\ motorcycles[bike[c]] = snap[c].motorcycle
           /\ (engineSpecs[bike[c]] = Absent) <=> (snap[c].engine = Absent)
           /\ (dimensions[bike[c]] = Absent) <=> (snap[c].dimension = Absent)
           /\ snap[c].dimension # Absent => SameDimension(dimensions[bike[c]], snap[c].dimension)
           /\ Editing(c) => additionalSpecs[bike[c]] = snap[c].extras
           /\ req[c].op = "delete" /\ ~Pending(c, "extras") =>
                  NoExtras \in {writes[c].extras, additionalSpecs[bike[c]]}

\* A transaction that has written a row or a block keeps it from the others.
Held(c) ==
    /\ Written(c, "motorcycle") => Current(c)
    /\ Written(c, "engine") /\ snap[c].engine # Absent => engineSpecs[bike[c]] # Absent
    /\ Written(c, "dimension") /\ snap[c].dimension # Absent /\ req[c].dimension # Absent
           => SameDimension(dimensions[bike[c]], snap[c].dimension)

Fresh(c) ==
    /\ motorcycles[bike[c]] = Absent
    /\ \A d \in Clients \ {c} : Loaded(d) \/ Inserted(d) => bike[d] # bike[c]

Apart(c, d) ==
    bike[c] = bike[d] =>
        /\ Written(c, "engine") /\ Written(d, "engine") => Absent \in {snap[c].engine, snap[d].engine}
        /\ Written(c, "dimension") /\ Written(d, "dimension")
               => ~SameDimension(snap[c].dimension, snap[d].dimension)

Shared ==
    /\ \A c \in Clients : Loaded(c) => Reliable(c) /\ Held(c)
    /\ \A c \in Clients : Inserted(c) => bike[c] < nextId /\ Fresh(c)
    /\ \A c, d \in Clients : c # d /\ Loaded(c) /\ Loaded(d) => Apart(c, d)

LocalInv == \A c \in Clients : Local(c)
------------------------------------------------------------------------------
(* Sequences of statements *)

LEMMA OccursConcat ==
    ASSUME NEW s \in Seq(Parts), NEW t \in Seq(Parts), NEW p
    PROVE  Occurs(p, s \o t) <=> Occurs(p, s) \/ Occurs(p, t)
<1>1. /\ s \o t \in Seq(Parts) /\ Len(s \o t) = Len(s) + Len(t)
      /\ \A k \in 1..Len(s) : (s \o t)[k] = s[k]
      /\ \A k \in 1..Len(t) : (s \o t)[Len(s) + k] = t[k]
  BY SMT
<1>2. Len(s) \in Nat /\ Len(t) \in Nat
  BY SMT
<1>3. DOMAIN s = 1..Len(s) /\ DOMAIN t = 1..Len(t) /\ DOMAIN (s \o t) = 1..Len(s) + Len(t)
  BY <1>1, SMT
<1>4. \A k \in 1..Len(s) + Len(t) :
          \/ k \in 1..Len(s) /\ (s \o t)[k] = s[k]
          \/ k - Len(s) \in 1..Len(t) /\ (s \o t)[k] = t[k - Len(s)]
  BY <1>1, <1>2, SMT
<1>5. \A k \in 1..Len(s) : k \in 1..Len(s) + Len(t)
  BY <1>2, SMT
<1>6. \A k \in 1..Len(t) : Len(s) + k \in 1..Len(s) + Len(t)
  BY <1>2, SMT
<1> QED BY <1>1, <1>3, <1>4, <1>5, <1>6 DEF Occurs

LEMMA OccursHead ==
    ASSUME NEW s \in Seq(Parts), s # <<>>, NEW p
    PROVE  Occurs(p, s) <=> p = Head(s) \/ Occurs(p, Tail(s))
<1>1. /\ Len(s) \in Nat \ {0} /\ DOMAIN s = 1..Len(s) /\ Head(s) = s[1]
      /\ DOMAIN Tail(s) = 1..Len(s) - 1
      /\ \A k \in 1..Len(s) - 1 : Tail(s)[k] = s[k + 1]
  BY SMT
<1>2. \A k \in 1..Len(s) : k = 1 \/ (k - 1 \in 1..Len(s) - 1 /\ Tail(s)[k - 1] = s[k])
  BY <1>1, SMT
<1>3. 1 \in 1..Len(s) /\ \A k \in 1..Len(s) - 1 : k + 1 \in 1..Len(s)
  BY <1>1, SMT
<1> QED BY <1>1, <1>2, <1>3 DEF Occurs

LEMMA OccursIf ==
    ASSUME NEW cond, NEW p, NEW q
    PROVE  Occurs(p, If(cond, q)) <=> cond /\ p = q
<1>1. DOMAIN <<q>> = {1} /\ <<q>>[1] = q /\ DOMAIN <<>> = {}
  BY SMT
<1> QED BY <1>1 DEF Occurs, If

LEMMA OccursNowhere == \A p : ~Occurs(p, <<>>)
<1>1. DOMAIN <<>> = {}
  BY SMT
<1> QED BY <1>1 DEF Occurs

LEMMA AscendingIf == ASSUME NEW r, NEW cond, NEW q PROVE Ascending(r, If(cond, q))
<1>1. DOMAIN <<q>> = {1} /\ DOMAIN <<>> = {} /\ ~(1 < 1)
  BY SMT
<1> QED BY <1>1 DEF Ascending, If

LEMMA AscendingConcat ==
    ASSUME NEW r, NEW s \in Seq(Parts), NEW t \in Seq(Parts), Ascending(r, s), Ascending(r, t),
           \A p, q : Occurs(p, s) /\ Occurs(q, t) => Rank(r, p) < Rank(r, q)
    PROVE  Ascending(r, s \o t)
<1>1. /\ Len(s) \in Nat /\ Len(t) \in Nat
      /\ DOMAIN s = 1..Len(s) /\ DOMAIN t = 1..Len(t) /\ DOMAIN (s \o t) = 1..Len(s) + Len(t)
      /\ \A k \in 1..Len(s) + Len(t) :
             (s \o t)[k] = IF k <= Len(s) THEN s[k] ELSE t[k - Len(s)]
  BY SMT
<1> SUFFICES ASSUME NEW j \in 1..Len(s) + Len(t), NEW k \in 1..Len(s) + Len(t), j < k
             PROVE  Rank(r, (s \o t)[j]) < Rank(r, (s \o t)[k])
  BY <1>1 DEF Ascending
<1>2. CASE k <= Len(s)
  <2>1. j \in 1..Len(s) /\ k \in 1..Len(s) /\ (s \o t)[j] = s[j] /\ (s \o t)[k] = s[k]
    BY <1>1, <1>2, SMT
  <2> QED BY <1>1, <2>1 DEF Ascending
<1>3. CASE j > Len(s)
  <2>1. /\ j - Len(s) \in 1..Len(t) /\ k - Len(s) \in 1..Len(t) /\ j - Len(s) < k - Len(s)
        /\ (s \o t)[j] = t[j - Len(s)] /\ (s \o t)[k] = t[k - Len(s)]
    BY <1>1, <1>3, SMT
  <2> QED BY <1>1, <2>1 DEF Ascending
<1>4. CASE j <= Len(s) /\ k > Len(s)
  <2>1. /\ j \in 1..Len(s) /\ k - Len(s) \in 1..Len(t)
        /\ (s \o t)[j] = s[j] /\ (s \o t)[k] = t[k - Len(s)]
    BY <1>1, <1>4, SMT
  <2>2. Occurs(s[j], s) /\ Occurs(t[k - Len(s)], t)
    BY <1>1, <2>1 DEF Occurs
  <2> QED BY <2>1, <2>2
<1> QED BY <1>1, <1>2, <1>3, <1>4, SMT

LEMMA AscendingTail ==
    ASSUME NEW r, NEW s \in Seq(Parts), s # <<>>, Ascending(r, s)
    PROVE  /\ Ascending(r, Tail(s))
           /\ \A p : Occurs(p, Tail(s)) => Rank(r, Head(s)) < Rank(r, p)
<1>1. /\ Len(s) \in Nat \ {0} /\ DOMAIN s = 1..Len(s) /\ Head(s) = s[1]
      /\ DOMAIN Tail(s) = 1..Len(s) - 1
      /\ \A k \in 1..Len(s) - 1 : Tail(s)[k] = s[k + 1]
      /\ 1 \in 1..Len(s)
  BY SMT
<1>2. \A j, k \in 1..Len(s) - 1 :
          j + 1 \in 1..Len(s) /\ k + 1 \in 1..Len(s) /\ 1 < k + 1 /\ (j < k => j + 1 < k + 1)
  BY <1>1, SMT
<1> QED BY <1>1, <1>2 DEF Ascending, Occurs

LEMMA Then ==
    ASSUME NEW r, NEW s \in Seq(Parts), NEW t \in Seq(Parts), Ascending(r, s), Ascending(r, t),
           \A p, q : Occurs(p, s) /\ Occurs(q, t) => Rank(r, p) < Rank(r, q)
    PROVE  /\ s \o t \in Seq(Parts) /\ Ascending(r, s \o t)
           /\ \A p : Occurs(p, s \o t) <=> Occurs(p, s) \/ Occurs(p, t)
<1>1. s \o t \in Seq(Parts)
  BY SMT
<1> QED BY <1>1, AscendingConcat, OccursConcat

LEMMA UpdateStatementsOccur ==
    ASSUME NEW r, r.op = "update", NEW s, NEW moved \in BOOLEAN
    PROVE  LET t == UpdateStatements(r, s, moved)
           IN  /\ t \in Seq(Parts)
               /\ Ascending(r, t)
               /\ Occurs("engine", t) <=> EngineDirty(r, s)
               /\ Occurs("dimension", t) <=> DimensionDirty(r, s) \/ DropsDimension(r, s)
               /\ Occurs("motorcycle", t) <=> RootDirty(r, s) \/ moved
               /\ Occurs("extras", t) <=> ExtrasDirty(r, s)
<1> DEFINE m == If(DimensionDirty(r, s), "dimension")
           e == If(EngineDirty(r, s), "engine")
           b == If(RootDirty(r, s) \/ moved, "motorcycle")
           x == If(ExtrasDirty(r, s), "extras")
           n == If(DropsDimension(r, s), "dimension")
<1>1. m \in Seq(Parts) /\ e \in Seq(Parts) /\ b \in Seq(Parts) /\ x \in Seq(Parts) /\ n \in Seq(Parts)
  BY IfType DEF Parts
<1>2. /\ \A p : Occurs(p, m) <=> DimensionDirty(r, s) /\ p = "dimension"
      /\ \A p : Occurs(p, e) <=> EngineDirty(r, s) /\ p = "engine"
      /\ \A p : Occurs(p, b) <=> (RootDirty(r, s) \/ moved) /\ p = "motorcycle"
      /\ \A p : Occurs(p, x) <=> ExtrasDirty(r, s) /\ p = "extras"
      /\ \A p : Occurs(p, n) <=> DropsDimension(r, s) /\ p = "dimension"
  BY OccursIf
<1>3. /\ Ascending(r, m) /\ Ascending(r, e) /\ Ascending(r, b)
      /\ Ascending(r, x) /\ Ascending(r, n)
  BY AscendingIf
<1>4. /\ Rank(r, "engine") = 2 /\ Rank(r, "motorcycle") = 3 /\ Rank(r, "extras") = 4
      /\ DimensionDirty(r, s) => Rank(r, "dimension") = 1
      /\ DropsDimension(r, s) => Rank(r, "dimension") = 5 /\ ~DimensionDirty(r, s)
  BY SMT DEF Rank, DimensionDirty, DropsDimension
<1>5. UpdateStatements(r, s, moved) = (((m \o e) \o b) \o x) \o n
  BY DEF UpdateStatements
<1> HIDE DEF m, e, b, x, n
<1>6. /\ m \o e \in Seq(Parts) /\ Ascending(r, m \o e)
      /\ \A p : Occurs(p, m \o e) <=> Occurs(p, m) \/ Occurs(p, e)
  <2>1. \A p, q : Occurs(p, m) /\ Occurs(q, e) => Rank(r, p) < Rank(r, q)
    BY <1>2, <1>4, SMT
  <2> QED BY <1>1, <1>3, <2>1, Then
<1> DEFINE me == m \o e
<1>7. /\ me \o b \in Seq(Parts) /\ Ascending(r, me \o b)
      /\ \A p : Occurs(p, me \o b) <=> Occurs(p, me) \/ Occurs(p, b)
  <2>1. \A p, q : Occurs(p, me) /\ Occurs(q, b) => Rank(r, p) < Rank(r, q)
    BY <1>2, <1>4, <1>6, SMT
  <2>2. me \in Seq(Parts) /\ Ascending(r, me)
    BY <1>6
  <2> HIDE DEF me
  <2> QED BY <1>1, <1>3, <2>1, <2>2, Then
<1> DEFINE meb == me \o b
<1>8. /\ meb \o x \in Seq(Parts) /\ Ascending(r, meb \o x)
      /\ \A p : Occurs(p, meb \o x) <=> Occurs(p, meb) \/ Occurs(p, x)
  <2>1. \A p, q : Occurs(p, meb) /\ Occurs(q, x) => Rank(r, p) < Rank(r, q)
    BY <1>2, <1>4, <1>6, <1>7, SMT
  <2>2. meb \in Seq(Parts) /\ Ascending(r, meb)
    BY <1>7
  <2> HIDE DEF meb
  <2> QED BY <1>1, <1>3, <2>1, <2>2, Then
<1> DEFINE mebx == meb \o x
<1>9. /\ mebx \o n \in Seq(Parts) /\ Ascending(r, mebx \o n)
      /\ \A p : Occurs(p, mebx \o n) <=> Occurs(p, mebx) \/ Occurs(p, n)
  <2>1. \A p, q : Occurs(p, mebx) /\ Occurs(q, n) => Rank(r, p) < Rank(r, q)
    <3>1. \A p : Occurs(p, mebx) => \/ DimensionDirty(r, s) /\ p = "dimension"
                                    \/ p \in {"engine", "motorcycle", "extras"}
      BY <1>2, <1>6, <1>7, <1>8
    <3> HIDE DEF mebx
    <3> QED BY <3>1, <1>2, <1>4, SMT
  <2>2. mebx \in Seq(Parts) /\ Ascending(r, mebx)
    BY <1>8
  <2> HIDE DEF mebx
  <2> QED BY <1>1, <1>3, <2>1, <2>2, Then
<1>10. \A p : Occurs(p, mebx \o n) <=>
           \/ DimensionDirty(r, s) /\ p = "dimension"
           \/ EngineDirty(r, s) /\ p = "engine"
           \/ (RootDirty(r, s) \/ moved) /\ p = "motorcycle"
           \/ ExtrasDirty(r, s) /\ p = "extras"
           \/ DropsDimension(r, s) /\ p = "dimension"
  BY <1>2, <1>6, <1>7, <1>8, <1>9
<1>11. UpdateStatements(r, s, moved) = mebx \o n
  BY <1>5
<1> HIDE DEF mebx
<1> QED BY <1>9, <1>10, <1>11, SMT

LEMMA DeleteStatementsOccur ==
    ASSUME NEW r, r.op = "delete", NEW s
    PROVE  LET t == DeleteStatements(s)
           IN  /\ t \in Seq(Parts)
               /\ Ascending(r, t)
               /\ Occurs("extras", t) /\ Occurs("motorcycle", t)
               /\ Occurs("engine", t) <=> s.engine # Absent
               /\ Occurs("dimension", t) <=> s.dimension # Absent
<1> DEFINE a == <<"extras", "motorcycle">>
           m == If(s.dimension # Absent, "dimension")
           e == If(s.engine # Absent, "engine")
<1>1. a \in Seq(Parts) /\ m \in Seq(Parts) /\ e \in Seq(Parts)
  <2>1. a \in Seq(Parts)
    BY SMT DEF Parts
  <2> QED BY <2>1, IfType DEF Parts
<1>2. /\ \A p : Occurs(p, m) <=> s.dimension # Absent /\ p = "dimension"
      /\ \A p : Occurs(p, e) <=> s.engine # Absent /\ p = "engine"
  BY OccursIf
<1>3. DOMAIN a = 1..2 /\ a[1] = "extras" /\ a[2] = "motorcycle"
  BY SMT
<1>4. \A p : Occurs(p, a) <=> p \in {"extras", "motorcycle"}
  BY <1>3, SMT DEF Occurs
<1>5. /\ Rank(r, "extras") = 1 /\ Rank(r, "motorcycle") = 2
      /\ Rank(r, "dimension") = 3 /\ Rank(r, "engine") = 4
  BY SMT DEF Rank
<1>6. Ascending(r, a) /\ Ascending(r, m) /\ Ascending(r, e)
  <2>1. Ascending(r, a)
    <3>1. \A j, k \in 1..2 : j < k => j = 1 /\ k = 2
      BY SMT
    <3> QED BY <1>3, <1>5, <3>1, SMT DEF Ascending
  <2> QED BY <2>1, AscendingIf
<1>7. DeleteStatements(s) = (a \o m) \o e
  BY DEF DeleteStatements
<1> HIDE DEF a, m, e
<1>8. /\ a \o m \in Seq(Parts) /\ Ascending(r, a \o m)
      /\ \A p : Occurs(p, a \o m) <=> Occurs(p, a) \/ Occurs(p, m)
  <2>1. \A p, q : Occurs(p, a) /\ Occurs(q, m) => Rank(r, p) < Rank(r, q)
    BY <1>2, <1>4, <1>5, SMT
  <2> QED BY <1>1, <1>6, <2>1, Then
<1> DEFINE am == a \o m
<1>9. /\ am \o e \in Seq(Parts) /\ Ascending(r, am \o e)
      /\ \A p : Occurs(p, am \o e) <=> Occurs(p, am) \/ Occurs(p, e)
  <2>1. \A p, q : Occurs(p, am) /\ Occurs(q, e) => Rank(r, p) < Rank(r, q)
    BY <1>2, <1>4, <1>5, <1>8, SMT
  <2>2. am \in Seq(Parts) /\ Ascending(r, am)
    BY <1>8
  <2> HIDE DEF am
  <2> QED BY <1>1, <1>6, <2>1, <2>2, Then
<1>10. \A p : Occurs(p, am \o e) <=>
           \/ p \in {"extras", "motorcycle"}
           \/ s.dimension # Absent /\ p = "dimension"
           \/ s.engine # Absent /\ p = "engine"
  BY <1>2, <1>4, <1>8, <1>9
<1>11. DeleteStatements(s) = am \o e
  BY <1>7
<1> HIDE DEF am
<1>12. am \o e \in Seq(Parts) /\ Ascending(r, am \o e)
  BY <1>9
<1>13. /\ Occurs("extras", am \o e) /\ Occurs("motorcycle", am \o e)
       /\ Occurs("engine", am \o e) <=> s.engine # Absent
       /\ Occurs("dimension", am \o e) <=> s.dimension # Absent
  BY <1>10, SMT
<1> QED BY <1>11, <1>12, <1>13, Zenon

------------------------------------------------------------------------------
(* What a request has sent stays in step with its code *)

\* A request does not touch the locals of another.
LEMMA OthersKeepTheirs ==
    ASSUME Shape, NEW c \in Clients, Begin(c) \/ Serve(c) \/ Fail(c), NEW d \in Clients \ {c}
    PROVE  /\ pc'[d] = pc[d] /\ req'[d] = req[d] /\ bike'[d] = bike[d] /\ attempt'[d] = attempt[d]
           /\ suffix'[d] = suffix[d] /\ slug'[d] = slug[d] /\ snap'[d] = snap[d]
           /\ todo'[d] = todo[d] /\ writes'[d] = writes[d]
<1> DEFINE goal == /\ pc'[d] = pc[d] /\ req'[d] = req[d] /\ bike'[d] = bike[d]
                   /\ attempt'[d] = attempt[d] /\ suffix'[d] = suffix[d] /\ slug'[d] = slug[d]
                   /\ snap'[d] = snap[d] /\ todo'[d] = todo[d] /\ writes'[d] = writes[d]
<1> SUFFICES goal
  OBVIOUS
<1> USE DEF Shape, TypeOK
<1>1. ASSUME NEW status, Finish(c, status) PROVE goal
  BY <1>1, SMT DEF Finish
<1>2. ASSUME NEW part, NEW value, Wrote(c, part, value) PROVE goal
  BY <1>2, SMT DEF Wrote, envelope, locals
<1>3. CASE Begin(c)
  BY <1>3, SMT DEF Begin
<1>4. CASE Load(c)
  <2>1. CASE Refuse(c, "404")
    BY <1>1, <2>1 DEF Refuse
  <2> HIDE DEF goal
  <2>2. CASE motorcycles[bike[c]] # Absent
    BY <1>4, <2>2, SMT DEF Load, envelope, goal
  <2> QED BY <1>4, <2>1, <2>2, Zenon DEF Load
<1>5. CASE Apply(c)
  BY <1>5, Zenon DEF Apply, envelope
<1>6. CASE Probe(c)
  BY <1>1, <1>6, Zenon DEF Probe, Refuse, envelope
<1>7. CASE InsertNew(c)
  BY <1>1, <1>7, Zenon DEF InsertNew, Refuse, envelope
<1>8. CASE UpdateMotorcycle(c) \/ UpdateEngine(c) \/ UpdateDimension(c) \/ UpdateExtras(c)
  <2>1. \/ \E part, value : Wrote(c, part, value)
        \/ \E status : Finish(c, status)
    BY <1>8 DEF UpdateMotorcycle, UpdateEngine, UpdateDimension, UpdateExtras, Refuse
  <2> QED BY <1>1, <1>2, <2>1
<1>9. CASE RemoveMotorcycle(c) \/ RemoveEngine(c) \/ RemoveDimension(c) \/ RemoveExtras(c)
  <2>1. \/ \E part, value : Wrote(c, part, value)
        \/ \E status : Finish(c, status)
    BY <1>9 DEF RemoveMotorcycle, RemoveEngine, RemoveDimension, RemoveExtras, Refuse
  <2> QED BY <1>1, <1>2, <2>1
<1>10. CASE Commit(c)
  BY <1>1, <1>10 DEF Commit
<1>11. CASE BreakDeadlock(c) \/ Fail(c)
  BY <1>1, <1>11 DEF BreakDeadlock, Fail, Refuse
<1> QED BY <1>3, <1>4, <1>5, <1>6, <1>7, <1>8, <1>9, <1>10, <1>11 DEF Serve

\* Local is about the locals of the request alone.
LEMMA LocalStays ==
    ASSUME NEW d \in Clients, Local(d), pc'[d] = pc[d], req'[d] = req[d], slug'[d] = slug[d],
           snap'[d] = snap[d], todo'[d] = todo[d], writes'[d] = writes[d]
    PROVE  Local(d)'
<1>1. \A p : (Pending(d, p)' <=> Pending(d, p)) /\ (Written(d, p)' <=> Written(d, p))
  BY DEF Pending, Written
<1>2. /\ Base(d)' = Base(d) /\ (KeepsSlug(d)' <=> KeepsSlug(d)) /\ (Moved(d)' <=> Moved(d))
      /\ (Dirty(d)' <=> Dirty(d)) /\ (DimensionChanges(d)' <=> DimensionChanges(d))
  BY DEF Base, KeepsSlug, Moved, Dirty, DimensionChanges
<1>3. (Unflushed(d)' <=> Unflushed(d)) /\ (Editing(d)' <=> Editing(d))
  BY <1>2 DEF Unflushed, Editing
<1>4. InOrder(d)' <=> InOrder(d)
  BY <1>1 DEF InOrder
<1>5. EditProgress(d) => EditProgress(d)'
  BY <1>1, <1>2, <1>3, <1>4 DEF EditProgress, EditedSlug, EditedEngine, EditedDimension,
     EditedExtras, EditedMotorcycle
<1>6. RemovalProgress(d) => RemovalProgress(d)'
  BY <1>1, <1>4 DEF RemovalProgress
<1>7. InsertProgress(d) => InsertProgress(d)'
  BY <1>2 DEF InsertProgress
<1> QED BY <1>2, <1>3, <1>5, <1>6, <1>7 DEF Local

LEMMA CandidateDerived ==
    ASSUME NEW b \in Slug, NEW n \in 1..MaxSuffix - 1
    PROVE  Candidate(b, n) \in DerivedFrom(b) /\ SlugMatchesIdentity(Candidate(b, n), b)
<1>1. Candidate(b, n) \in DerivedFrom(b)
  BY DEF DerivedFrom
<1>2. CASE n = 1
  BY <1>1, <1>2 DEF Candidate, SlugMatchesIdentity
<1>3. CASE n # 1
  <2> DEFINE s == Append(b, n)
  <2>1. n \in Nat /\ n \in Token
    BY SuffixAssumption, SMT DEF Token
  <2>2. /\ b \in Seq(Token) /\ Len(s) = Len(b) + 1 /\ s[Len(b) + 1] = n
    BY <2>1, SMT DEF Slug
  <2>3. SubSeq(s, 1, Len(b)) = b
    BY <2>1, <2>2, AppendProperties, SubSeqProperties, SMT
  <2> QED BY <1>1, <1>3, <2>1, <2>2, <2>3 DEF Candidate, SlugMatchesIdentity
<1> QED BY <1>2, <1>3

\* A request that is not past its load has nothing to keep in step.
LEMMA LocalBefore ==
    ASSUME NEW c \in Clients,
           pc'[c] \in {"idle", "load"} \/ (pc'[c] = "probe" /\ req'[c].op = "create")
    PROVE  Local(c)'
BY DEF Local, Editing

LEMMA FinishLocal ==
    ASSUME Shape, NEW c \in Clients, NEW status, Finish(c, status) PROVE Local(c)'
<1>1. pc'[c] = "idle"
  BY DEF Finish, Shape, TypeOK
<1> QED BY <1>1, LocalBefore

LEMMA LoadLocal == ASSUME Shape, NEW c \in Clients, Load(c) PROVE Local(c)'
<1>1. CASE Refuse(c, "404")
  BY <1>1, FinishLocal DEF Refuse
<1>2. CASE motorcycles[bike[c]] # Absent
  <2> DEFINE s == [motorcycle |-> motorcycles[bike[c]],
                   engine |-> engineSpecs[bike[c]],
                   dimension |-> dimensions[bike[c]],
                   extras |-> NoExtras]
             removal == req[c].op = "delete"
  <2>1. /\ pc[c] = "load"
        /\ snap' = [snap EXCEPT ![c] = s]
        /\ slug' = [slug EXCEPT ![c] = s.motorcycle.slug]
        /\ pc' = [pc EXCEPT ![c] = IF removal THEN "flush" ELSE "apply"]
        /\ todo' = [todo EXCEPT ![c] = IF removal THEN DeleteStatements(s) ELSE <<>>]
        /\ UNCHANGED <<tables, envelope, reply, bike, attempt, suffix, writes>>
    BY <1>2, Zenon DEF Load
  <2>2. /\ snap'[c] = s /\ slug'[c] = s.motorcycle.slug /\ writes'[c] = NoWrites
        /\ pc'[c] = (IF removal THEN "flush" ELSE "apply")
        /\ todo'[c] = (IF removal THEN DeleteStatements(s) ELSE <<>>)
        /\ req'[c] = req[c] /\ req[c].op # "create" /\ req[c].op \in {"create", "update", "delete"}
    BY <2>1, ContentAssumption, SMT DEF Shape, TypeOK, PhasesConsistent, envelope, Request
  <2>3. \A p \in Parts : ~Written(c, p)'
    BY <2>2, SMT DEF Written, NoWrites, Parts
  <2>4. ~Moved(c)'
    BY <2>2 DEF Moved
  <2>5. CASE removal
    <3> DEFINE t == DeleteStatements(s)
    <3>1. /\ t \in Seq(Parts) /\ Ascending(req[c], t)
          /\ Occurs("extras", t) /\ Occurs("motorcycle", t)
          /\ Occurs("engine", t) <=> s.engine # Absent
          /\ Occurs("dimension", t) <=> s.dimension # Absent
      BY <2>5, DeleteStatementsOccur
    <3>2. todo'[c] = t /\ pc'[c] = "flush"
      BY <2>2, <2>5
    <3> HIDE DEF t, s
    <3>3. InOrder(c)'
      BY <2>2, <2>3, <3>1, <3>2 DEF InOrder
    <3>4. RemovalProgress(c)'
      BY <2>2, <2>3, <3>1, <3>2, <3>3 DEF RemovalProgress, Pending, Parts, Written, NoWrites
    <3> QED BY <2>2, <2>5, <3>2, <3>4 DEF Local, Editing
  <2>6. CASE ~removal
    <3>1. pc'[c] = "apply" /\ req'[c].op = "update"
      BY <2>2, <2>6
    <3> QED BY <2>4, <3>1 DEF Local, Editing
  <2> QED BY <2>5, <2>6
<1> QED BY <1>1, <1>2, Zenon DEF Load

LEMMA ApplyLocal == ASSUME Shape, NEW c \in Clients, Local(c), Apply(c) PROVE Local(c)'
<1> DEFINE s == [snap[c] EXCEPT !.extras = additionalSpecs[bike[c]]]
           u == UpdateStatements(req[c], s, FALSE)
           t == IF KeepsSlug(c) \/ RootDirty(req[c], s) THEN u ELSE <<>>
           at == IF KeepsSlug(c) THEN "flush"
                 ELSE IF RootDirty(req[c], s) THEN "autoflush" ELSE "probe"
<1>1. /\ pc[c] = "apply"
      /\ snap' = [snap EXCEPT ![c] = s]
      /\ pc' = [pc EXCEPT ![c] = at]
      /\ todo' = [todo EXCEPT ![c] = t]
      /\ UNCHANGED <<tables, envelope, reply, bike, attempt, suffix, slug, writes>>
  BY Zenon DEF Apply
<1>2. req[c].op = "update" /\ slug[c] = snap[c].motorcycle.slug /\ writes[c] = NoWrites
  BY <1>1 DEF Local, Moved, Shape, PhasesConsistent
<1>3. s.motorcycle = snap[c].motorcycle
  BY SMT DEF Shape, TypeOK, SnapType
<1>4. /\ snap'[c] = s /\ pc'[c] = at /\ todo'[c] = t
      /\ req' = req /\ slug' = slug /\ writes'[c] = NoWrites
  BY <1>1, <1>2, Zenon DEF Shape, TypeOK, envelope
<1>5. /\ u \in Seq(Parts) /\ Ascending(req[c], u)
      /\ Occurs("engine", u) <=> EngineDirty(req[c], s)
      /\ Occurs("dimension", u) <=> DimensionDirty(req[c], s) \/ DropsDimension(req[c], s)
      /\ Occurs("motorcycle", u) <=> RootDirty(req[c], s)
      /\ Occurs("extras", u) <=> ExtrasDirty(req[c], s)
  BY <1>2, UpdateStatementsOccur
<1> HIDE DEF s, u
<1>6. ~Moved(c)' /\ (KeepsSlug(c)' <=> KeepsSlug(c)) /\ (Dirty(c)' <=> RootDirty(req[c], s))
  BY <1>2, <1>3, <1>4 DEF Moved, KeepsSlug, Base, Dirty
<1>7. \A p \in Parts : ~Written(c, p)'
  BY <1>4, SMT DEF Written, NoWrites, Parts
<1>8. EditedSlug(c)'
  BY <1>4, <1>6, SMT DEF EditedSlug
<1>9. Unflushed(c)' <=> ~(KeepsSlug(c) \/ RootDirty(req[c], s))
  BY <1>4, <1>6, SMT DEF Unflushed
<1>10. \A p : Pending(c, p)' <=> Occurs(p, u) /\ ~Unflushed(c)'
  BY <1>4, <1>9, OccursNowhere, Zenon DEF Pending
<1>11. EditedEngine(c)' /\ EditedDimension(c)' /\ EditedExtras(c)'
  BY <1>4, <1>5, <1>7, <1>10, SMT DEF EditedEngine, EditedDimension, EditedExtras,
     DimensionChanges, Parts
<1>12. EditedMotorcycle(c)'
  BY <1>4, <1>5, <1>6, <1>7, <1>10, SMT DEF EditedMotorcycle, Parts
<1>13. InOrder(c)'
  <2>1. Ascending(req[c], <<>>)
    BY SMT DEF Ascending
  <2> QED BY <1>4, <1>5, <1>7, <2>1 DEF InOrder
<1>14. pc'[c] = "autoflush" => Dirty(c)' /\ todo'[c] # <<>>
  <2>1. u # <<>> \/ ~RootDirty(req[c], s)
    BY <1>5, OccursNowhere
  <2> QED BY <1>4, <1>6, <2>1, SMT
<1>15. EditProgress(c)'
  BY <1>4, <1>8, <1>11, <1>12, <1>13, <1>14 DEF EditProgress
<1>16. pc'[c] \in {"flush", "autoflush", "probe"}
  BY <1>4, Zenon
<1> QED BY <1>2, <1>4, <1>15, <1>16 DEF Local

\* A rename found its slug: what is left to flush is the row, again if it was flushed before.
LEMMA RenameLocal ==
    ASSUME Shape, NEW c \in Clients, Local(c), pc[c] = "probe", req[c].op = "update",
           NEW candidate, candidate \in DerivedFrom(Base(c)), SlugMatchesIdentity(candidate, Base(c)),
           slug' = [slug EXCEPT ![c] = candidate],
           pc' = [pc EXCEPT ![c] = "flush"],
           todo' = [todo EXCEPT ![c] =
                        IF RootDirty(req[c], snap[c]) THEN If(candidate # slug[c], "motorcycle")
                        ELSE UpdateStatements(req[c], snap[c], candidate # slug[c])],
           UNCHANGED <<req, snap, writes>>
    PROVE  Local(c)'
<1>1. EditProgress(c) /\ ~Moved(c) /\ ~KeepsSlug(c) /\ todo[c] = <<>>
  BY DEF Local, Editing, EditProgress, EditedSlug, Shape, PhasesConsistent
<1>2. candidate # slug[c]
  BY <1>1 DEF KeepsSlug
<1> DEFINE u == UpdateStatements(req[c], snap[c], TRUE)
<1>3. /\ slug'[c] = candidate /\ pc'[c] = "flush"
      /\ todo'[c] = IF RootDirty(req[c], snap[c]) THEN <<"motorcycle">> ELSE u
  <2>1. If(candidate # slug[c], "motorcycle") = <<"motorcycle">>
    BY <1>2 DEF If
  <2>2. (candidate # slug[c]) = TRUE
    BY <1>2
  <2> QED BY <2>1, <2>2, Zenon DEF Shape, TypeOK
<1>4. /\ u \in Seq(Parts) /\ Ascending(req[c], u)
      /\ Occurs("engine", u) <=> EngineDirty(req[c], snap[c])
      /\ Occurs("dimension", u) <=> DimensionDirty(req[c], snap[c]) \/ DropsDimension(req[c], snap[c])
      /\ Occurs("motorcycle", u)
      /\ Occurs("extras", u) <=> ExtrasDirty(req[c], snap[c])
  BY UpdateStatementsOccur
<1> HIDE DEF u
<1>5. /\ KeepsSlug(c)' /\ Moved(c)' /\ Base(c)' = Base(c)
      /\ (Dirty(c)' <=> Dirty(c)) /\ (DimensionChanges(c)' <=> DimensionChanges(c))
  BY <1>1, <1>2, <1>3 DEF KeepsSlug, Moved, Base, Dirty, DimensionChanges
<1>6. \A p : Written(c, p)' <=> Written(c, p)
  BY DEF Written
<1>7. ~Unflushed(c)'
  BY <1>3 DEF Unflushed
<1>8. EditedSlug(c)'
  <2>1. ~SlugMatchesIdentity(snap[c].motorcycle.slug, Base(c))
    BY <1>1 DEF KeepsSlug, Moved
  <2> QED BY <1>3, <1>5, <2>1, SMT DEF EditedSlug
<1>9. CASE Dirty(c)
  <2>1. todo'[c] = <<"motorcycle">> /\ ~Unflushed(c)
    BY <1>3, <1>9 DEF Dirty, Unflushed
  <2>2. \A p : (Pending(c, p)' <=> p = "motorcycle") /\ ~Pending(c, p)
    <3>1. \A p : Occurs(p, <<"motorcycle">>) <=> p = "motorcycle"
      <4>1. If(TRUE, "motorcycle") = <<"motorcycle">>
        BY DEF If
      <4>2. \A p : Occurs(p, If(TRUE, "motorcycle")) <=> TRUE /\ p = "motorcycle"
        BY OccursIf, Zenon
      <4> QED BY <4>1, <4>2
    <3> QED BY <1>1, <2>1, <3>1, OccursNowhere DEF Pending
  <2>3. EditedEngine(c)' /\ EditedDimension(c)' /\ EditedExtras(c)'
    BY <1>1, <1>5, <1>6, <1>7, <2>1, <2>2 DEF EditProgress, EditedEngine, EditedDimension, EditedExtras
  <2>4. EditedMotorcycle(c)'
    <3>1. Written(c, "motorcycle")
      BY <1>1, <1>9, <2>1, <2>2 DEF EditProgress, EditedMotorcycle
    <3>2. /\ writes[c].motorcycle.slug = snap[c].motorcycle.slug
          /\ writes[c].motorcycle.version = snap[c].motorcycle.version + 1
          /\ writes[c].motorcycle.ident = req[c].ident
      BY <1>1, <3>1 DEF EditProgress, EditedMotorcycle
    <3> QED BY <1>3, <1>5, <1>6, <1>9, <2>1, <2>2, <3>1, <3>2 DEF EditedMotorcycle
  <2>5. InOrder(c)'
    <3>1. Ascending(req[c], <<"motorcycle">>)
      <4>1. If(TRUE, "motorcycle") = <<"motorcycle">>
        BY DEF If
      <4> QED BY <4>1, AscendingIf
    <3>2. Written(c, "motorcycle")
      BY <1>1, <1>9, <2>1, <2>2 DEF EditProgress, EditedMotorcycle
    <3> QED BY <1>6, <2>1, <2>2, <3>1, <3>2 DEF InOrder
  <2>6. EditProgress(c)'
    BY <1>3, <1>7, <1>8, <2>3, <2>4, <2>5 DEF EditProgress
  <2> QED BY <1>3, <2>6 DEF Local, Editing
<1>10. CASE ~Dirty(c)
  <2>1. todo'[c] = u /\ writes[c] = NoWrites
    BY <1>1, <1>3, <1>10 DEF Dirty, Unflushed, EditProgress
  <2>2. \A p \in Parts : ~Written(c, p)'
    BY <1>6, <2>1, SMT DEF Written, NoWrites, Parts
  <2>3. EditedEngine(c)' /\ EditedDimension(c)' /\ EditedExtras(c)'
    BY <1>4, <1>5, <2>1, <2>2 DEF EditedEngine, EditedDimension, EditedExtras,
       DimensionChanges, Parts, Pending
  <2>4. EditedMotorcycle(c)'
    BY <1>3, <1>4, <1>5, <2>1, <2>2 DEF EditedMotorcycle, Parts, Pending
  <2>5. InOrder(c)'
    BY <1>4, <2>1, <2>2 DEF InOrder
  <2>6. EditProgress(c)'
    BY <1>3, <1>7, <1>8, <2>3, <2>4, <2>5 DEF EditProgress
  <2> QED BY <1>3, <2>6 DEF Local, Editing
<1> QED BY <1>9, <1>10

LEMMA ProbeLocal == ASSUME Shape, NEW c \in Clients, Local(c), Probe(c) PROVE Local(c)'
<1> DEFINE candidate == Candidate(Base(c), suffix[c])
           creating == req[c].op = "create"
           t == IF creating THEN <<>>
                ELSE IF RootDirty(req[c], snap[c]) THEN If(candidate # slug[c], "motorcycle")
                ELSE UpdateStatements(req[c], snap[c], candidate # slug[c])
<1>1. CASE /\ slug' = [slug EXCEPT ![c] = candidate]
           /\ pc' = [pc EXCEPT ![c] = IF creating THEN "insert" ELSE "flush"]
           /\ todo' = [todo EXCEPT ![c] = t]
           /\ UNCHANGED <<tables, envelope, reply, bike, attempt, suffix, snap, writes>>
  <2>1. Base(c) \in Slug /\ suffix[c] \in 1..MaxSuffix - 1
    <3>1. req[c].ident \in Identity
      BY ContentAssumption, SMT DEF Shape, TypeOK, Request
    <3> QED BY <3>1, BaseSlugType DEF Base, Shape, TypeOK
  <2>2. candidate \in DerivedFrom(Base(c)) /\ SlugMatchesIdentity(candidate, Base(c))
    BY <2>1, CandidateDerived
  <2> HIDE DEF candidate
  <2>3. CASE creating
    <3>1. pc'[c] = "insert" /\ slug'[c] = candidate /\ req' = req
      BY <1>1, <2>3, Zenon DEF Shape, TypeOK, envelope
    <3>2. InsertProgress(c)'
      BY <2>2, <3>1 DEF InsertProgress, Base
    <3> QED BY <2>3, <3>1, <3>2 DEF Local, Editing
  <2>4. CASE ~creating
    <3>1. req[c].op = "update" /\ pc[c] = "probe"
      <4>1. req[c].op \in {"create", "update", "delete"}
        BY ContentAssumption, SMT DEF Shape, TypeOK, Request
      <4> QED BY <2>4, <4>1 DEF Local, Probe
    <3>2. pc' = [pc EXCEPT ![c] = "flush"] /\ UNCHANGED <<req, snap, writes>>
      BY <1>1, <2>4 DEF envelope
    <3>3. todo' = [todo EXCEPT ![c] =
                     IF RootDirty(req[c], snap[c]) THEN If(candidate # slug[c], "motorcycle")
                     ELSE UpdateStatements(req[c], snap[c], candidate # slug[c])]
      BY <1>1, <2>4, Zenon
    <3> QED BY <1>1, <2>2, <3>1, <3>2, <3>3, RenameLocal
  <2> QED BY <2>3, <2>4
<1>2. CASE UNCHANGED <<tables, envelope, reply, pc, bike, attempt, slug, snap, todo, writes>>
  BY <1>2, LocalStays DEF envelope
<1>3. CASE Refuse(c, "409")
  BY <1>3, FinishLocal DEF Refuse
<1> QED BY <1>1, <1>2, <1>3, Zenon DEF Probe

LEMMA InsertNewLocal == ASSUME Shape, NEW c \in Clients, Local(c), InsertNew(c) PROVE Local(c)'
<1> DEFINE row == [motorcycle |-> [slug |-> slug[c], ident |-> req[c].ident, version |-> 0],
                   engine |-> req[c].engine,
                   dimension |-> DimensionOf(req[c], 0),
                   extras |-> req[c].extras]
<1>1. pc[c] = "insert" /\ req[c].op = "create" /\ InsertProgress(c)
  BY DEF InsertNew, Shape, PhasesConsistent, Local
<1>2. CASE /\ writes' = [writes EXCEPT ![c] = row]
           /\ pc' = [pc EXCEPT ![c] = "flush"]
           /\ UNCHANGED <<motorcycles, engineSpecs, dimensions, additionalSpecs, envelope,
                          reply, attempt, suffix, slug, snap, todo>>
  <2>1. writes'[c] = row /\ pc'[c] = "flush" /\ req' = req /\ slug' = slug
    BY <1>2, Zenon DEF Shape, TypeOK, envelope
  <2>2. InsertProgress(c)'
    BY <1>1, <2>1 DEF InsertProgress, Base, DimensionOf
  <2> QED BY <1>1, <2>1, <2>2 DEF Local, Editing
<1>3. CASE /\ pc' = [pc EXCEPT ![c] = "probe"]
           /\ UNCHANGED <<tables, envelope, reply, bike, snap, todo, writes>>
  <2>1. pc'[c] = "probe" /\ req'[c].op = "create"
    BY <1>1, <1>3, Zenon DEF Shape, TypeOK, envelope
  <2> QED BY <2>1, LocalBefore
<1>4. CASE Refuse(c, "409")
  BY <1>4, FinishLocal DEF Refuse
<1> QED BY <1>2, <1>3, <1>4, Zenon DEF InsertNew

\* What a statement that succeeds does to the locals of its request.
LEMMA StatementSent ==
    ASSUME Shape, NEW c \in Clients, InOrder(c), NEW part \in Parts, NEW value,
           InFlush(c, part), Wrote(c, part, value)
    PROVE  /\ UNCHANGED <<tables, req, bike, slug, snap, attempt, suffix>>
           /\ \A p \in Parts : writes'[c][p] = IF p = part THEN value ELSE writes[c][p]
           /\ \A p : Pending(c, p) <=> p = part \/ Pending(c, p)'
           /\ ~Pending(c, part)'
           /\ InOrder(c)'
           /\ pc'[c] \in {pc[c], "probe"}
           /\ pc[c] \in {"autoflush", "flush"}
           /\ pc[c] = "flush" => pc'[c] = "flush"
           /\ pc'[c] = "autoflush" => todo'[c] # <<>>
           /\ pc'[c] = "probe" => todo'[c] = <<>>
<1> DEFINE t == todo[c]
<1>1. t \in Seq(Parts) /\ t # <<>> /\ part = Head(t) /\ pc[c] \in {"autoflush", "flush"}
  BY DEF InFlush, Shape, TypeOK
<1>2. todo'[c] = Tail(t) /\ writes'[c] = [writes[c] EXCEPT ![part] = value]
  BY SMT DEF Wrote, Shape, TypeOK
<1>3. pc'[c] = IF pc[c] = "autoflush" /\ Len(t) = 1 THEN "probe" ELSE pc[c]
  BY DEF Wrote, Shape, TypeOK
<1>4. UNCHANGED <<tables, req, bike, slug, snap, attempt, suffix>>
  BY DEF Wrote, envelope, locals
<1>5. \A p \in Parts : writes'[c][p] = IF p = part THEN value ELSE writes[c][p]
  <2>1. writes[c] \in WritesType
    BY DEF Shape, TypeOK
  <2> QED BY <1>2, <2>1, SMT DEF WritesType, Parts
<1>6. \A p : Pending(c, p) <=> p = part \/ Pending(c, p)'
  BY <1>1, <1>2, OccursHead DEF Pending
<1>7. Ascending(req[c], t) /\ Ascending(req[c], Tail(t))
      /\ \A p : Occurs(p, Tail(t)) => Rank(req[c], part) < Rank(req[c], p)
  BY <1>1, AscendingTail DEF InOrder
<1>8. ~Pending(c, part)'
  <2>1. Rank(req[c], part) \in Nat
    BY SMT DEF Rank
  <2>2. ~(Rank(req[c], part) < Rank(req[c], part))
    BY <2>1, SMT
  <2> QED BY <1>2, <1>7, <2>2 DEF Pending
<1>9. InOrder(c)'
  <2>1. Ascending(req'[c], todo'[c])
    BY <1>2, <1>4, <1>7
  <2> SUFFICES ASSUME NEW p \in Parts, NEW q \in Parts, Written(c, p)', Pending(c, q)'
               PROVE  (\/ Rank(req[c], p) < Rank(req[c], q)
                       \/ q = "motorcycle" /\ Written(c, "motorcycle")')
    BY <1>4, <2>1 DEF InOrder
  <2>2. CASE p = part
    BY <1>2, <1>7, <2>2 DEF Pending
  <2>3. CASE p # part
    <3>1. Written(c, p) /\ Pending(c, q) /\ q # part
      BY <1>5, <1>6, <1>8, <2>3 DEF Written
    <3>2. Written(c, "motorcycle") /\ q = "motorcycle" => Written(c, "motorcycle")'
      BY <1>5, <3>1 DEF Written
    <3> QED BY <3>1, <3>2 DEF InOrder
  <2> QED BY <2>2, <2>3
<1>10. (Len(t) = 1 => Tail(t) = <<>>) /\ (Tail(t) = <<>> => Len(t) = 1)
  <2>1. Len(Tail(t)) = Len(t) - 1 /\ Len(t) \in Nat /\ Tail(t) \in Seq(Parts)
    BY <1>1, SMT
  <2>2. Len(t) = 1 => Len(Tail(t)) = 0
    BY <2>1, SMT
  <2>3. Len(<<>>) = 0
    BY EmptySeq
  <2>4. ASSUME Tail(t) = <<>> PROVE Len(t) = 1
    <3>1. Len(Tail(t)) = 0
      BY <2>3, <2>4, Zenon
    <3> QED BY <2>1, <3>1, SMT
  <2> QED BY <2>1, <2>2, <2>4, EmptySeq, Zenon
<1> QED BY <1>1, <1>2, <1>3, <1>4, <1>5, <1>6, <1>8, <1>9, <1>10, Zenon

\* The values an edit writes.
EditValue(c, part) ==
    CASE part = "motorcycle" -> [slug |-> slug[c], ident |-> req[c].ident, version |-> NextVersion(c)]
      [] part = "engine" -> req[c].engine
      [] part = "dimension" -> DimensionOf(req[c], RowFor(snap[c]))
      [] OTHER -> req[c].extras

LEMMA EditStatementLocal ==
    ASSUME Shape, NEW c \in Clients, Local(c), req[c].op = "update", NEW part \in Parts,
           InFlush(c, part), Wrote(c, part, EditValue(c, part)), EditValue(c, part) # Untouched
    PROVE  Local(c)'
<1> DEFINE value == EditValue(c, part)
<1>1. EditProgress(c) /\ InOrder(c)
  BY DEF Local, Editing, InFlush, EditProgress
<1> HIDE DEF value
<1>2. /\ UNCHANGED <<tables, req, bike, slug, snap, attempt, suffix>>
      /\ \A p \in Parts : writes'[c][p] = IF p = part THEN value ELSE writes[c][p]
      /\ \A p : Pending(c, p) <=> p = part \/ Pending(c, p)'
      /\ ~Pending(c, part)'
      /\ InOrder(c)'
      /\ pc'[c] \in {pc[c], "probe"}
      /\ pc[c] \in {"autoflush", "flush"}
      /\ pc[c] = "flush" => pc'[c] = "flush"
      /\ pc'[c] = "autoflush" => todo'[c] # <<>>
  BY <1>1, StatementSent DEF value
<1>3. /\ Base(c)' = Base(c) /\ (KeepsSlug(c)' <=> KeepsSlug(c)) /\ (Moved(c)' <=> Moved(c))
      /\ (Dirty(c)' <=> Dirty(c)) /\ (DimensionChanges(c)' <=> DimensionChanges(c))
  BY <1>2 DEF Base, KeepsSlug, Moved, Dirty, DimensionChanges
<1>4. \A p \in Parts : Written(c, p)' <=> p = part \/ Written(c, p)
  BY <1>2 DEF Written, value
<1>5. ~Unflushed(c) /\ ~Unflushed(c)' /\ (pc'[c] = "autoflush" => Dirty(c)' /\ todo'[c] # <<>>)
  BY <1>1, <1>2, <1>3 DEF Unflushed, EditProgress
<1>6. EditedSlug(c)'
  BY <1>1, <1>2, <1>3 DEF EditProgress, EditedSlug
<1>7. "engine" \in Parts /\ "dimension" \in Parts /\ "extras" \in Parts /\ "motorcycle" \in Parts
  BY DEF Parts
<1>8. EditedEngine(c)'
  <2>1. EditedEngine(c)
    BY <1>1 DEF EditProgress
  <2>2. part = "engine" => value = req[c].engine
    BY DEF value, EditValue
  <2> QED BY <1>2, <1>4, <1>5, <1>7, <2>1, <2>2 DEF EditedEngine
<1>9. EditedDimension(c)'
  <2>1. EditedDimension(c)
    BY <1>1 DEF EditProgress
  <2>2. part = "dimension" => value = DimensionOf(req[c], RowFor(snap[c]))
    BY DEF value, EditValue
  <2> QED BY <1>2, <1>3, <1>4, <1>5, <1>7, <2>1, <2>2 DEF EditedDimension
<1>10. EditedExtras(c)'
  <2>1. EditedExtras(c)
    BY <1>1 DEF EditProgress
  <2>2. part = "extras" => value = req[c].extras
    BY DEF value, EditValue
  <2> QED BY <1>2, <1>4, <1>5, <1>7, <2>1, <2>2 DEF EditedExtras
<1>11. EditedMotorcycle(c)'
  <2>1. EditedMotorcycle(c)
    BY <1>1 DEF EditProgress
  <2>2. CASE part = "motorcycle"
    <3>1. value = [slug |-> slug[c], ident |-> req[c].ident, version |-> NextVersion(c)]
      BY <2>2 DEF value, EditValue
    <3>2. value.slug = slug[c] /\ value.ident = req[c].ident /\ value.version = NextVersion(c)
      BY <3>1
    <3>3. snap[c].motorcycle \in MotorcycleRow
      BY SMT DEF Shape, TypeOK, PhasesConsistent, InFlush, SnapType
    <3>4. snap[c].motorcycle.version \in Nat
      BY <3>3, SMT DEF MotorcycleRow
    <3>5. Pending(c, "motorcycle")
      BY <1>2, <2>2
    <3>6. Written(c, "motorcycle") => writes[c].motorcycle.version = snap[c].motorcycle.version + 1
      BY <2>1, <3>5 DEF EditedMotorcycle
    <3>7. /\ Written(c, "motorcycle") => NextVersion(c) = snap[c].motorcycle.version + 2
          /\ ~Written(c, "motorcycle") => NextVersion(c) = snap[c].motorcycle.version + 1
      <4>1. CASE Written(c, "motorcycle")
        <5>1. NextVersion(c) = 1 + writes[c].motorcycle.version
          BY <4>1 DEF NextVersion, Written
        <5> QED BY <3>4, <3>6, <4>1, <5>1, SMT
      <4>2. CASE ~Written(c, "motorcycle")
        <5>1. NextVersion(c) = 1 + snap[c].motorcycle.version
          BY <4>2 DEF NextVersion, Written
        <5> QED BY <3>4, <4>2, <5>1, SMT
      <4> QED BY <4>1, <4>2
    <3>8. pc'[c] # "flush" => ~Written(c, "motorcycle") /\ ~Moved(c)
      BY <1>1, <1>2, <2>1, <3>5 DEF EditedMotorcycle, EditProgress, EditedSlug
    <3>9. writes'[c].motorcycle = value
      BY <1>2, <1>7, <2>2
    <3>10. Dirty(c) \/ Moved(c)
      BY <2>1, <3>5 DEF EditedMotorcycle
    <3> QED BY <1>2, <1>3, <1>4, <1>7, <2>2, <3>2, <3>7, <3>8, <3>9, <3>10 DEF EditedMotorcycle, Moved
  <2>3. CASE part # "motorcycle"
    <3>1. writes'[c].motorcycle = writes[c].motorcycle
      BY <1>2, <1>7, <2>3
    <3>2. (Written(c, "motorcycle")' <=> Written(c, "motorcycle"))
          /\ (Pending(c, "motorcycle")' <=> Pending(c, "motorcycle"))
      BY <1>2, <1>4, <1>7, <2>3
    <3>3. ~(Written(c, "motorcycle") /\ Pending(c, "motorcycle"))
      <4> SUFFICES ASSUME Written(c, "motorcycle"), Pending(c, "motorcycle") PROVE FALSE
        OBVIOUS
      <4>1. todo[c] = <<"motorcycle">>
        BY <2>1 DEF EditedMotorcycle
      <4>2. part = Head(todo[c])
        BY DEF InFlush
      <4> QED BY <2>3, <4>1, <4>2, SMT
    <3>4. pc'[c] # "flush" => pc[c] # "flush"
      BY <1>2
    <3> QED BY <1>2, <1>3, <1>5, <2>1, <3>1, <3>2, <3>3, <3>4 DEF EditedMotorcycle
  <2> QED BY <2>2, <2>3
<1>12. EditProgress(c)'
  BY <1>2, <1>5, <1>6, <1>8, <1>9, <1>10, <1>11 DEF EditProgress
<1> QED BY <1>2, <1>12 DEF Local, Editing

LEMMA RemovalStatementLocal ==
    ASSUME Shape, NEW c \in Clients, Local(c), req[c].op = "delete", NEW part \in Parts, NEW value,
           InFlush(c, part), Wrote(c, part, value),
           IF part = "extras" THEN value \in {Untouched, NoExtras} ELSE value = Absent
    PROVE  Local(c)'
<1>1. pc[c] = "flush" /\ RemovalProgress(c) /\ InOrder(c)
  BY DEF Local, InFlush, RemovalProgress
<1>2. /\ UNCHANGED <<tables, req, bike, slug, snap, attempt, suffix>>
      /\ \A p \in Parts : writes'[c][p] = IF p = part THEN value ELSE writes[c][p]
      /\ \A p : Pending(c, p) <=> p = part \/ Pending(c, p)'
      /\ ~Pending(c, part)'
      /\ InOrder(c)'
      /\ pc'[c] = "flush"
  BY <1>1, StatementSent
<1>3. "engine" \in Parts /\ "dimension" \in Parts /\ "extras" \in Parts /\ "motorcycle" \in Parts
  BY DEF Parts
<1>4. Absent # Untouched
  BY ContentAssumption
<1>5. /\ writes'[c].motorcycle \in {Untouched, Absent} /\ writes'[c].extras \in {Untouched, NoExtras}
      /\ writes'[c].engine \in {Untouched, Absent} /\ writes'[c].dimension \in {Untouched, Absent}
  BY <1>1, <1>2, <1>3 DEF RemovalProgress
<1>6. \A p \in Parts : p # "extras" => (Written(c, p)' <=> p = part \/ Written(c, p))
  BY <1>2, <1>4 DEF Written
<1>7. RemovalProgress(c)'
  <2>1. Pending(c, "motorcycle")' \/ Written(c, "motorcycle")'
    BY <1>1, <1>2, <1>3, <1>6 DEF RemovalProgress
  <2>2. Pending(c, "motorcycle")' => ~Written(c, "motorcycle")'
    BY <1>1, <1>2, <1>3, <1>6 DEF RemovalProgress
  <2>3. (Pending(c, "engine") \/ Written(c, "engine"))' <=> Pending(c, "engine") \/ Written(c, "engine")
    BY <1>2, <1>3, <1>6
  <2>4. (Pending(c, "dimension") \/ Written(c, "dimension"))'
            <=> Pending(c, "dimension") \/ Written(c, "dimension")
    BY <1>2, <1>3, <1>6
  <2> QED BY <1>1, <1>2, <1>5, <2>1, <2>2, <2>3, <2>4 DEF RemovalProgress
<1> QED BY <1>2, <1>7 DEF Local, Editing

\* No value that a statement of an edit writes stands for "not written".
LEMMA EditValueIsWritten ==
    ASSUME Shape, NEW c \in Clients, NEW part \in Parts, InFlush(c, part), req[c].op = "update"
    PROVE  EditValue(c, part) # Untouched
<1> DEFINE row == [slug |-> slug[c], ident |-> req[c].ident, version |-> NextVersion(c)]
<1>1. req[c] \in Request /\ snap[c] \in SnapType /\ writes[c] \in WritesType /\ slug[c] \in Slug
  BY ContentAssumption DEF Shape, TypeOK
<1>2. snap[c].motorcycle \in MotorcycleRow /\ snap[c].dimension \in DimensionRow \cup {Absent}
  BY <1>1, SMT DEF Shape, PhasesConsistent, InFlush, SnapType
<1>3. row \in MotorcycleRow
  <2>1. writes[c].motorcycle \in MotorcycleRow \cup {Untouched}
    BY <1>1, SMT DEF Shape, PhasesConsistent, WritesType
  <2>2. NextVersion(c) \in Nat
    BY <1>2, <2>1, SMT DEF NextVersion, MotorcycleRow
  <2> QED BY <1>1, <2>2, SMT DEF MotorcycleRow, Request
<1>4. DimensionOf(req[c], RowFor(snap[c])) \in DimensionRow \cup {Absent}
  <2>1. RowFor(snap[c]) \in Nat
    BY <1>2, SMT DEF RowFor, MotorcycleRow, DimensionRow
  <2> QED BY <1>1, <2>1, DimensionOfType
<1>5. req[c].engine \in Engines /\ req[c].extras \in Extras
  BY <1>1, SMT DEF Request
<1> HIDE DEF row
<1>6. EditValue(c, part) \in {row, req[c].engine, DimensionOf(req[c], RowFor(snap[c])), req[c].extras}
  BY SMT DEF EditValue, row
<1> QED BY <1>3, <1>4, <1>5, <1>6, ContentAssumption

LEMMA StatementLocal ==
    ASSUME Shape, NEW c \in Clients, Local(c),
           \/ UpdateMotorcycle(c) \/ UpdateEngine(c) \/ UpdateDimension(c) \/ UpdateExtras(c)
           \/ RemoveExtras(c) \/ RemoveMotorcycle(c) \/ RemoveDimension(c) \/ RemoveEngine(c)
    PROVE  Local(c)'
<1>1. "engine" \in Parts /\ "dimension" \in Parts /\ "extras" \in Parts /\ "motorcycle" \in Parts
  BY DEF Parts
<1>2. ASSUME NEW part \in Parts, InFlush(c, part), req[c].op = "update",
             Wrote(c, part, EditValue(c, part))
      PROVE  Local(c)'
  BY <1>2, EditValueIsWritten, EditStatementLocal
<1>3. ASSUME NEW status, Refuse(c, status) PROVE Local(c)'
  BY <1>3, FinishLocal DEF Refuse
<1>4. CASE UpdateMotorcycle(c)
  <2>1. EditValue(c, "motorcycle") = [slug |-> slug[c], ident |-> req[c].ident, version |-> NextVersion(c)]
    BY DEF EditValue
  <2> QED BY <1>1, <1>2, <1>3, <1>4, <2>1 DEF UpdateMotorcycle
<1>5. CASE UpdateEngine(c)
  <2>1. EditValue(c, "engine") = req[c].engine
    BY DEF EditValue
  <2> QED BY <1>1, <1>2, <1>3, <1>5, <2>1 DEF UpdateEngine
<1>6. CASE UpdateDimension(c)
  <2>1. EditValue(c, "dimension") = DimensionOf(req[c], RowFor(snap[c]))
    BY DEF EditValue
  <2> QED BY <1>1, <1>2, <1>3, <1>6, <2>1 DEF UpdateDimension
<1>7. CASE UpdateExtras(c)
  <2>1. EditValue(c, "extras") = req[c].extras
    BY DEF EditValue
  <2> QED BY <1>1, <1>2, <1>7, <2>1 DEF UpdateExtras
<1>8. CASE RemoveExtras(c)
  <2> DEFINE value == IF additionalSpecs[bike[c]] = NoExtras THEN Untouched ELSE NoExtras
  <2>1. value \in {Untouched, NoExtras}
    BY Zenon
  <2>2. Wrote(c, "extras", value) /\ InFlush(c, "extras") /\ req[c].op = "delete"
    BY <1>8 DEF RemoveExtras
  <2> HIDE DEF value
  <2> QED BY <1>1, <2>1, <2>2, RemovalStatementLocal
<1>9. CASE RemoveMotorcycle(c)
  BY <1>1, <1>3, <1>9, RemovalStatementLocal DEF RemoveMotorcycle
<1>10. CASE RemoveDimension(c)
  BY <1>1, <1>10, RemovalStatementLocal DEF RemoveDimension
<1>11. CASE RemoveEngine(c)
  BY <1>1, <1>11, RemovalStatementLocal DEF RemoveEngine
<1> QED BY <1>4, <1>5, <1>6, <1>7, <1>8, <1>9, <1>10, <1>11

LEMMA InitLocal == Init => LocalInv
BY SMT DEF Init, LocalInv, Local, Editing

LEMMA StepLocal == Shape /\ LocalInv /\ [Next]_vars => LocalInv'
<1> SUFFICES ASSUME Shape, LocalInv, [Next]_vars, NEW d \in Clients PROVE Local(d)'
  BY DEF LocalInv
<1>1. Local(d)
  BY DEF LocalInv
<1>2. CASE UNCHANGED vars
  BY <1>1, <1>2, LocalStays DEF vars, envelope, locals
<1>3. ASSUME NEW c \in Clients, Begin(c) \/ Serve(c) \/ Fail(c) PROVE Local(d)'
  <2>1. CASE d # c
    BY <1>1, <1>3, <2>1, OthersKeepTheirs, LocalStays
  <2>2. CASE Begin(d) \/ BreakDeadlock(d) \/ Fail(d) \/ Commit(d)
    <3>1. CASE Begin(d)
      <4>1. pc'[d] = "load" \/ (pc'[d] = "probe" /\ req'[d].op = "create")
        BY <3>1, SMT DEF Begin, Shape, TypeOK
      <4> QED BY <4>1, LocalBefore
    <3> QED BY <2>2, <3>1, FinishLocal DEF BreakDeadlock, Fail, Commit, Refuse
  <2> QED BY <1>1, <1>3, <2>1, <2>2, LoadLocal, ApplyLocal, ProbeLocal, InsertNewLocal,
             StatementLocal DEF Serve
<1> QED BY <1>2, <1>3 DEF Next, Quiet

------------------------------------------------------------------------------
(* What a request can rely on stays reliable *)

LEMMA InitShared == Init => Shared
BY SMT DEF Init, Shared, Loaded, Inserted

LEMMA ApartSymmetric == ASSUME NEW c, NEW d, Apart(c, d) PROVE Apart(d, c)
BY DEF Apart, SameDimension

\* What d relies on is untouched by a step that leaves the tables and the locals of d alone.
LEMMA RelianceStays ==
    ASSUME Shape, NEW d \in Clients, UNCHANGED <<motorcycles, engineSpecs, dimensions, additionalSpecs>>,
           nextId' \in Nat, nextId <= nextId', pc'[d] = pc[d], req'[d] = req[d], bike'[d] = bike[d],
           snap'[d] = snap[d], todo'[d] = todo[d], writes'[d] = writes[d]
    PROVE  /\ Loaded(d)' <=> Loaded(d)
           /\ Inserted(d)' <=> Inserted(d)
           /\ Reliable(d) => Reliable(d)'
           /\ Held(d) => Held(d)'
           /\ bike[d] < nextId => bike'[d] < nextId'
<1>1. bike[d] < nextId => bike'[d] < nextId'
  <2>1. bike[d] \in Nat /\ nextId \in Nat
    BY BoundAssumption, SMT DEF Shape, TypeOK, BikeIds
  <2> QED BY <2>1, SMT
<1>2. \A p : (Pending(d, p)' <=> Pending(d, p)) /\ (Written(d, p)' <=> Written(d, p))
  BY DEF Pending, Written
<1>3. (Current(d)' <=> Current(d)) /\ (Editing(d)' <=> Editing(d))
  BY DEF Current, Editing
<1>4. Reliable(d) => Reliable(d)'
  BY <1>1, <1>2, <1>3 DEF Reliable
<1>5. Held(d) => Held(d)'
  BY <1>2, <1>3 DEF Held
<1> QED BY <1>1, <1>4, <1>5 DEF Loaded, Inserted

\* A step of c that commits nothing leaves the others' reliance alone; what is left to
\* see is c itself, and c against each of the others.
LEMMA UncommittedShared ==
    ASSUME Shape, Shared, NEW c \in Clients, Begin(c) \/ Serve(c) \/ Fail(c),
           UNCHANGED <<motorcycles, engineSpecs, dimensions, additionalSpecs>>,
           nextId' \in Nat, nextId <= nextId',
           Loaded(c)' => Reliable(c)' /\ Held(c)',
           Inserted(c)' => bike'[c] < nextId' /\ Fresh(c)',
           (Loaded(c) \/ Inserted(c))' =>
               \A d \in Clients \ {c} : Inserted(d) => bike'[c] # bike[d],
           Loaded(c)' => \A d \in Clients \ {c} : Loaded(d)' => Apart(c, d)'
    PROVE  Shared'
<1>1. ASSUME NEW d \in Clients \ {c}
      PROVE  /\ pc'[d] = pc[d] /\ req'[d] = req[d] /\ bike'[d] = bike[d]
             /\ snap'[d] = snap[d] /\ todo'[d] = todo[d] /\ writes'[d] = writes[d]
             /\ Loaded(d)' <=> Loaded(d)
             /\ Inserted(d)' <=> Inserted(d)
             /\ Loaded(d) => Reliable(d)' /\ Held(d)'
             /\ bike[d] < nextId => bike'[d] < nextId'
  <2>1. /\ pc'[d] = pc[d] /\ req'[d] = req[d] /\ bike'[d] = bike[d]
        /\ snap'[d] = snap[d] /\ todo'[d] = todo[d] /\ writes'[d] = writes[d]
    BY OthersKeepTheirs
  <2>2. /\ Loaded(d)' <=> Loaded(d)
        /\ Inserted(d)' <=> Inserted(d)
        /\ Reliable(d) => Reliable(d)'
        /\ Held(d) => Held(d)'
        /\ bike[d] < nextId => bike'[d] < nextId'
    BY <2>1, RelianceStays
  <2> QED BY <2>1, <2>2 DEF Shared
<1>2. \A d \in Clients : Loaded(d)' => Reliable(d)' /\ Held(d)'
  BY <1>1
<1>3. ASSUME NEW d \in Clients, Inserted(d)' PROVE bike'[d] < nextId' /\ Fresh(d)'
  <2>1. CASE d = c
    BY <1>3, <2>1
  <2>2. CASE d # c
    <3>1. Inserted(d) /\ bike[d] < nextId /\ Fresh(d) /\ bike'[d] = bike[d] /\ bike'[d] < nextId'
      BY <1>1, <1>3, <2>2 DEF Shared
    <3>2. \A e \in Clients \ {d} : Loaded(e)' \/ Inserted(e)' => bike'[e] # bike'[d]
      <4> SUFFICES ASSUME NEW e \in Clients \ {d}, Loaded(e)' \/ Inserted(e)'
                   PROVE  bike'[e] # bike'[d]
        OBVIOUS
      <4>1. CASE e = c
        BY <2>2, <3>1, <4>1
      <4>2. CASE e # c
        BY <1>1, <3>1, <4>2 DEF Fresh
      <4> QED BY <4>1, <4>2
    <3>3. motorcycles'[bike'[d]] = Absent
      BY <3>1 DEF Fresh
    <3> QED BY <3>1, <3>2, <3>3 DEF Fresh
  <2> QED BY <2>1, <2>2
<1>4. ASSUME NEW d \in Clients, NEW e \in Clients, d # e, Loaded(d)', Loaded(e)' PROVE Apart(d, e)'
  <2>1. CASE d = c
    BY <1>4, <2>1
  <2>2. CASE e = c
    BY <1>4, <2>2 DEF Apart, SameDimension
  <2>3. CASE d # c /\ e # c
    <3>1. Apart(d, e)
      BY <1>1, <1>4, <2>3 DEF Shared
    <3>2. (\A p : Written(d, p)' <=> Written(d, p)) /\ (\A p : Written(e, p)' <=> Written(e, p))
      BY <1>1, <2>3 DEF Written
    <3> QED BY <1>1, <2>3, <3>1, <3>2 DEF Apart
  <2> QED BY <2>1, <2>2, <2>3
<1> QED BY <1>2, <1>3, <1>4 DEF Shared

LEMMA NotLoadedShared ==
    ASSUME Shape, Shared, NEW c \in Clients, Begin(c) \/ Serve(c) \/ Fail(c),
           UNCHANGED tables, ~Loaded(c)', ~Inserted(c)'
    PROVE  Shared'
<1>1. nextId' \in Nat /\ nextId <= nextId'
  BY BoundAssumption, SMT DEF Shape, TypeOK, tables
<1> QED BY <1>1, UncommittedShared DEF tables

LEMMA RefuseShared ==
    ASSUME Shape, Shared, NEW c \in Clients, Begin(c) \/ Serve(c) \/ Fail(c),
           NEW status, Refuse(c, status)
    PROVE  Shared'
<1>1. pc'[c] = "idle"
  BY DEF Refuse, Finish, Shape, TypeOK
<1> QED BY <1>1, NotLoadedShared DEF Refuse, Loaded, Inserted

\* A request that has written nothing is apart from every other.
LEMMA NothingWrittenApart ==
    ASSUME NEW c, NEW d, writes[c] = NoWrites PROVE Apart(c, d)
<1>1. ~Written(c, "engine") /\ ~Written(c, "dimension")
  BY SMT DEF Written, NoWrites
<1> QED BY <1>1 DEF Apart

LEMMA LoadShared ==
    ASSUME Shape, Exclusive, Shared, NEW c \in Clients, Load(c) PROVE Shared'
<1>1. CASE Refuse(c, "404")
  BY <1>1, RefuseShared DEF Serve
<1>2. CASE motorcycles[bike[c]] # Absent
  <2> DEFINE s == [motorcycle |-> motorcycles[bike[c]],
                   engine |-> engineSpecs[bike[c]],
                   dimension |-> dimensions[bike[c]],
                   extras |-> NoExtras]
             removal == req[c].op = "delete"
  <2>1. /\ pc[c] = "load"
        /\ snap' = [snap EXCEPT ![c] = s]
        /\ pc' = [pc EXCEPT ![c] = IF removal THEN "flush" ELSE "apply"]
        /\ todo' = [todo EXCEPT ![c] = IF removal THEN DeleteStatements(s) ELSE <<>>]
        /\ UNCHANGED <<tables, envelope, reply, bike, attempt, suffix, writes>>
    BY <1>2, Zenon DEF Load
  <2>2. /\ snap'[c] = s /\ writes'[c] = NoWrites
        /\ pc'[c] = (IF removal THEN "flush" ELSE "apply")
        /\ todo'[c] = (IF removal THEN DeleteStatements(s) ELSE <<>>)
        /\ req' = req /\ req[c].op # "create" /\ bike' = bike
    BY <2>1 DEF Shape, TypeOK, PhasesConsistent, envelope
  <2>3. /\ UNCHANGED <<motorcycles, engineSpecs, dimensions, additionalSpecs>>
        /\ nextId' = nextId /\ nextId \in Nat /\ nextId <= nextId'
    BY <2>1, BoundAssumption, SMT DEF Shape, TypeOK, tables
  <2>4. bike[c] < nextId /\ bike[c] \in BikeIds
    BY <1>2 DEF Exclusive, PendingSlugsExclusive, Existing, Shape, TypeOK
  <2>5. motorcycles[bike[c]].version <= motorcycles[bike[c]].version
    <3>1. motorcycles[bike[c]] \in MotorcycleRow
      BY <1>2, <2>4 DEF Shape, TypeOK
    <3> QED BY <3>1, SMT DEF MotorcycleRow
  <2>6. \A p \in Parts : ~Written(c, p)'
    BY <2>2, SMT DEF Written, NoWrites, Parts
  <2>7. removal => Pending(c, "extras")'
    <3>1. removal => Occurs("extras", DeleteStatements(s))
      BY DeleteStatementsOccur
    <3> QED BY <2>2, <3>1 DEF Pending
  <2>8. ~Editing(c)'
    BY <2>2, Zenon DEF Editing
  <2>9. /\ snap'[c].motorcycle = motorcycles[bike[c]] /\ snap'[c].engine = engineSpecs[bike[c]]
        /\ snap'[c].dimension = dimensions[bike[c]]
    BY <2>2
  <2> HIDE DEF s
  <2>10. Reliable(c)'
    BY <2>2, <2>3, <2>4, <2>5, <2>7, <2>8, <2>9 DEF Reliable, SameDimension
  <2>11. Held(c)'
    BY <2>6 DEF Held, Parts
  <2>12. \A d \in Clients \ {c} : Inserted(d) => bike'[c] # bike[d]
    BY <1>2, <2>2 DEF Shared, Fresh
  <2>13. \A d \in Clients \ {c} : Apart(c, d)'
    BY <2>6 DEF Apart, Parts
  <2>14. ~Inserted(c)'
    BY <2>2 DEF Inserted
  <2>15. Serve(c)
    BY DEF Serve
  <2> QED BY <2>3, <2>10, <2>11, <2>12, <2>13, <2>14, <2>15, UncommittedShared
<1> QED BY <1>1, <1>2, Zenon DEF Load

\* Steps of a request past its load that keep the bike and the row it has loaded.
LEMMA LoadedStepShared ==
    ASSUME Shape, Shared, NEW c \in Clients, Serve(c), Loaded(c), ~Inserted(c)',
           UNCHANGED tables, bike'[c] = bike[c],
           Reliable(c)', Held(c)', \A d \in Clients \ {c} : Loaded(d) => Apart(c, d)'
    PROVE  Shared'
<1>1. nextId' \in Nat /\ nextId <= nextId'
  BY BoundAssumption, SMT DEF Shape, TypeOK, tables
<1>2. \A d \in Clients \ {c} : Inserted(d) => bike'[c] # bike[d]
  BY DEF Shared, Fresh
<1>3. \A d \in Clients \ {c} : Loaded(d)' <=> Loaded(d)
  BY OthersKeepTheirs DEF Loaded
<1> QED BY <1>1, <1>2, <1>3, UncommittedShared DEF tables

LEMMA ApplyShared ==
    ASSUME Shape, LocalInv, Shared, NEW c \in Clients, Apply(c) PROVE Shared'
<1> DEFINE s == [snap[c] EXCEPT !.extras = additionalSpecs[bike[c]]]
           t == IF KeepsSlug(c) \/ RootDirty(req[c], s)
                THEN UpdateStatements(req[c], s, FALSE) ELSE <<>>
           at == IF KeepsSlug(c) THEN "flush"
                 ELSE IF RootDirty(req[c], s) THEN "autoflush" ELSE "probe"
<1>1. /\ pc[c] = "apply"
      /\ snap' = [snap EXCEPT ![c] = s]
      /\ UNCHANGED <<tables, envelope, reply, bike, attempt, suffix, slug, writes>>
  BY Zenon DEF Apply
<1>2. req[c].op = "update" /\ writes[c] = NoWrites
  BY <1>1 DEF LocalInv, Local, Shape, PhasesConsistent
<1>3. /\ s.motorcycle = snap[c].motorcycle /\ s.engine = snap[c].engine
      /\ s.dimension = snap[c].dimension /\ s.extras = additionalSpecs[bike[c]]
  BY SMT DEF Shape, TypeOK, SnapType
<1>4. snap'[c] = s /\ req' = req /\ writes' = writes /\ bike' = bike /\ UNCHANGED tables
  BY <1>1, Zenon DEF Shape, TypeOK, envelope
<1> HIDE DEF s
<1>5. Loaded(c)
  BY <1>1, <1>2 DEF Loaded
<1>6. Reliable(c) /\ (Current(c)' <=> Current(c))
  BY <1>3, <1>4, <1>5 DEF Shared, Current, tables
<1>7. Reliable(c)'
  BY <1>2, <1>3, <1>4, <1>6 DEF Reliable, tables
<1>8. \A p \in Parts : ~Written(c, p)'
  BY <1>2, <1>4, SMT DEF Written, NoWrites, Parts
<1>9. Held(c)' /\ \A d \in Clients \ {c} : Apart(c, d)'
  BY <1>8 DEF Held, Apart, Parts
<1>10. Serve(c) /\ ~Inserted(c)'
  BY <1>2, <1>4 DEF Serve, Inserted
<1> QED BY <1>4, <1>5, <1>7, <1>9, <1>10, LoadedStepShared

LEMMA ProbeShared ==
    ASSUME Shape, LocalInv, Shared, NEW c \in Clients, Probe(c) PROVE Shared'
<1>1. CASE Refuse(c, "409")
  BY <1>1, RefuseShared DEF Serve
<1>2. CASE UNCHANGED <<tables, req, bike, snap, writes>> /\ pc'[c] \in {"insert", "flush", "probe"}
           /\ (req[c].op = "create" => pc'[c] # "flush")
  <2>1. req[c].op \in {"create", "update", "delete"} /\ pc[c] = "probe" /\ Serve(c)
    BY ContentAssumption, SMT DEF Shape, TypeOK, Request, Probe, Serve
  <2>2. CASE req[c].op = "create"
    BY <1>2, <2>1, <2>2, NotLoadedShared DEF Loaded, Inserted
  <2>3. CASE req[c].op = "update"
    <3>1. Loaded(c) /\ Reliable(c) /\ Held(c) /\ ~Inserted(c)'
      BY <1>2, <2>1, <2>3 DEF Loaded, Inserted, Shared
    <3>2. (Current(c)' <=> Current(c)) /\ Editing(c) /\ \A p : Written(c, p)' <=> Written(c, p)
      BY <1>2, <2>1, <2>3 DEF Current, tables, Editing, Written
    <3>3. Reliable(c)'
      BY <1>2, <2>3, <3>1, <3>2 DEF Reliable, tables
    <3>4. Held(c)'
      BY <1>2, <3>1, <3>2 DEF Held, tables
    <3>5. \A d \in Clients \ {c} : Loaded(d) => Apart(c, d)'
      <4> SUFFICES ASSUME NEW d \in Clients \ {c}, Loaded(d) PROVE Apart(c, d)'
        OBVIOUS
      <4>1. Apart(c, d) /\ \A p : Written(d, p)' <=> Written(d, p)
        BY <1>2, <3>1 DEF Shared, Written
      <4> QED BY <1>2, <3>2, <4>1 DEF Apart
    <3> QED BY <1>2, <2>1, <3>1, <3>3, <3>4, <3>5, LoadedStepShared
  <2>4. CASE req[c].op = "delete"
    BY <2>1, <2>4 DEF LocalInv, Local
  <2> QED BY <2>1, <2>2, <2>3, <2>4
<1>3. \/ Refuse(c, "409")
      \/ UNCHANGED <<tables, req, bike, snap, writes>> /\ pc'[c] \in {"insert", "flush", "probe"}
           /\ (req[c].op = "create" => pc'[c] # "flush")
  <2>1. pc \in [Clients -> {"idle", "load", "apply", "autoflush", "probe", "insert", "flush"}]
    BY DEF Shape, TypeOK
  <2> QED BY <2>1, Zenon DEF Probe, envelope
<1> QED BY <1>1, <1>2, <1>3

LEMMA InsertNewShared ==
    ASSUME Shape, Exclusive, Shared, NEW c \in Clients, InsertNew(c) PROVE Shared'
<1>1. pc[c] = "insert" /\ req[c].op = "create" /\ Serve(c)
  BY DEF InsertNew, Shape, PhasesConsistent, Serve
<1>2. CASE /\ nextId <= MaxId
           /\ bike' = [bike EXCEPT ![c] = nextId]
           /\ nextId' = nextId + 1
           /\ UNCHANGED <<motorcycles, engineSpecs, dimensions, additionalSpecs, envelope>>
  <2>1. nextId \in Nat /\ nextId' \in Nat /\ nextId <= nextId' /\ nextId < nextId' /\ nextId \in BikeIds
    BY <1>2, BoundAssumption, SMT DEF Shape, TypeOK, BikeIds
  <2>2. bike'[c] = nextId /\ req' = req
    BY <1>2 DEF Shape, TypeOK, envelope
  <2>3. \A d \in Clients : bike[d] \in Nat
    BY BoundAssumption, SMT DEF Shape, TypeOK, BikeIds
  <2>4. ~Loaded(c)'
    BY <1>1, <2>2 DEF Loaded
  <2>5. \A d \in Clients : Loaded(d) \/ Inserted(d) => bike[d] < nextId
    BY DEF Shared, Reliable
  <2>6. \A d \in Clients : Loaded(d) \/ Inserted(d) => bike[d] # nextId
    BY <2>1, <2>3, <2>5, SMT
  <2>7. \A d \in Clients \ {c} : Inserted(d) => bike'[c] # bike[d]
    BY <2>2, <2>6
  <2>8. motorcycles'[nextId] = Absent
    <3>1. nextId \notin Existing
      BY <2>1, SMT DEF Exclusive, PendingSlugsExclusive
    <3> QED BY <1>2, <2>1, <3>1 DEF Existing
  <2>9. \A d \in Clients \ {c} : Loaded(d)' \/ Inserted(d)' => bike'[d] # bike'[c]
    <3> SUFFICES ASSUME NEW d \in Clients \ {c}, Loaded(d)' \/ Inserted(d)' PROVE bike'[d] # bike'[c]
      OBVIOUS
    <3>1. (Loaded(d) \/ Inserted(d)) /\ bike'[d] = bike[d]
      BY <1>1, OthersKeepTheirs DEF Loaded, Inserted
    <3> QED BY <2>2, <2>6, <3>1
  <2>10. bike'[c] < nextId' /\ Fresh(c)'
    BY <2>1, <2>2, <2>8, <2>9 DEF Fresh
  <2> QED BY <1>1, <1>2, <2>1, <2>4, <2>7, <2>10, UncommittedShared
<1>3. CASE /\ pc' = [pc EXCEPT ![c] = "probe"]
           /\ UNCHANGED <<tables, envelope>>
  <2>1. pc'[c] = "probe" /\ req'[c].op = "create" /\ UNCHANGED tables
    BY <1>1, <1>3 DEF Shape, TypeOK, envelope
  <2> QED BY <1>1, <2>1, NotLoadedShared DEF Loaded, Inserted
<1>4. CASE Refuse(c, "409")
  BY <1>1, <1>4, RefuseShared
<1> QED BY <1>2, <1>3, <1>4, Zenon DEF InsertNew

LEMMA EngineLocks ==
    ASSUME NEW c, InFlush(c, "engine"), snap[c].engine # Absent, WaitsFor(c) = {}
    PROVE  RowHolders(c, "engine") = {}
<1>1. /\ pc[c] # "insert" /\ ~InFlush(c, "motorcycle")
      /\ ~InFlush(c, "dimension") /\ ~InFlush(c, "extras")
  BY DEF InFlush
<1> QED BY <1>1 DEF WaitsFor

LEMMA DimensionLocks ==
    ASSUME NEW c, InFlush(c, "dimension"), snap[c].dimension # Absent, WaitsFor(c) = {}
    PROVE  DimensionHolders(c) = {}
<1>1. /\ pc[c] # "insert" /\ ~InFlush(c, "motorcycle")
      /\ ~InFlush(c, "engine") /\ ~InFlush(c, "extras")
  BY DEF InFlush
<1> QED BY <1>1 DEF WaitsFor

\* A statement keeps what its request relies on, when the row it writes is there, and the
\* request waits for whoever has written it.
LEMMA WroteShared ==
    ASSUME Shape, LocalInv, Shared, NEW c \in Clients, Serve(c), NEW part \in Parts, NEW value,
           InFlush(c, part), WaitsFor(c) = {}, Wrote(c, part, value),
           part = "motorcycle" => VersionHolds(c),
           part = "engine" /\ snap[c].engine # Absent => engineSpecs[bike[c]] # Absent,
           part = "dimension" /\ Absent \notin {snap[c].dimension, req[c].dimension}
               => DimensionThere(c),
           part = "extras" /\ req[c].op = "delete"
               => NoExtras \in {value, additionalSpecs[bike[c]]}
    PROVE  Shared'
<1>1. pc[c] \in {"autoflush", "flush"} /\ req[c].op \in {"update", "delete"}
  <2>1. req[c].op \in {"create", "update", "delete"}
    BY ContentAssumption, SMT DEF Shape, TypeOK, Request
  <2> QED BY <2>1 DEF InFlush, Shape, PhasesConsistent
<1>2. InOrder(c)
  BY <1>1 DEF LocalInv, Local, Editing, EditProgress, RemovalProgress
<1>3. /\ UNCHANGED <<tables, req, bike, slug, snap, attempt, suffix>>
      /\ \A p \in Parts : writes'[c][p] = IF p = part THEN value ELSE writes[c][p]
      /\ \A p : Pending(c, p) <=> p = part \/ Pending(c, p)'
      /\ pc'[c] \in {pc[c], "probe"}
  BY <1>2, StatementSent
<1>4. Loaded(c) /\ ~Inserted(c)' /\ Reliable(c) /\ Held(c)
  BY <1>1, <1>3 DEF Loaded, Inserted, Shared
<1>5. "engine" \in Parts /\ "dimension" \in Parts /\ "extras" \in Parts /\ "motorcycle" \in Parts
  BY DEF Parts
<1>6. Current(c)' <=> Current(c)
  BY <1>3 DEF Current, tables
<1>7. Reliable(c)'
  <2>1. Editing(c)' => Editing(c)
    BY <1>1, <1>3 DEF Editing
  <2>2. req[c].op = "delete" /\ ~Pending(c, "extras")' /\ Current(c) =>
            NoExtras \in {writes'[c].extras, additionalSpecs[bike[c]]}
    <3>1. CASE part = "extras"
      BY <1>3, <1>5, <3>1
    <3>2. CASE part # "extras"
      BY <1>3, <1>4, <1>5, <3>2 DEF Reliable
    <3> QED BY <3>1, <3>2
  <2> QED BY <1>3, <1>4, <1>6, <2>1, <2>2 DEF Reliable, tables
<1>8. Held(c)'
  <2>1. Written(c, "motorcycle")' => Current(c)
    <3>1. VersionHolds(c) => Current(c)
      BY <1>4 DEF VersionHolds, Held, Written, Current
    <3> QED BY <1>3, <1>4, <1>5, <3>1 DEF Held, Written
  <2>2. Written(c, "engine")' /\ snap[c].engine # Absent => engineSpecs[bike[c]] # Absent
    BY <1>3, <1>4, <1>5 DEF Held, Written
  <2>3. Written(c, "dimension")' /\ snap[c].dimension # Absent /\ req[c].dimension # Absent
            => SameDimension(dimensions[bike[c]], snap[c].dimension)
    BY <1>3, <1>4, <1>5 DEF Held, Written, DimensionThere
  <2> QED BY <1>3, <1>6, <2>1, <2>2, <2>3 DEF Held, tables
<1>9. ASSUME NEW d \in Clients \ {c}, Loaded(d) PROVE Apart(c, d)'
  <2>1. Apart(c, d) /\ bike'[d] = bike[d] /\ snap'[d] = snap[d] /\ writes'[d] = writes[d]
    BY <1>4, <1>9, OthersKeepTheirs DEF Shared
  <2>2. \A p : Written(d, p)' <=> Written(d, p)
    BY <2>1 DEF Written
  <2>3. ASSUME bike[c] = bike[d], part = "engine", Written(d, "engine")
        PROVE  Absent \in {snap[c].engine, snap[d].engine}
    BY <2>3, EngineLocks DEF RowHolders, Written
  <2>4. ASSUME bike[c] = bike[d], part = "dimension", Written(d, "dimension")
        PROVE  ~SameDimension(snap[c].dimension, snap[d].dimension)
    BY <2>4, DimensionLocks DEF DimensionHolders, RowHolders, Written, SameDimension
  <2>5. \A p \in Parts : Written(c, p)' => p = part \/ Written(c, p)
    BY <1>3 DEF Written
  <2> QED BY <1>3, <1>5, <2>1, <2>2, <2>3, <2>4, <2>5 DEF Apart
<1> QED BY <1>3, <1>4, <1>7, <1>8, <1>9, LoadedStepShared

\* By the time a removal reaches the blocks it has written the motorcycle row.
LEMMA BlocksRemovedLast ==
    ASSUME Shape, LocalInv, Shared, NEW c \in Clients, NEW part \in {"engine", "dimension"},
           InFlush(c, part), req[c].op = "delete"
    PROVE  Current(c) /\ snap[c][part] # Absent
<1>1. pc[c] = "flush" /\ RemovalProgress(c)
  BY DEF LocalInv, Local, InFlush
<1>2. todo[c] \in Seq(Parts) /\ todo[c] # <<>> /\ part = Head(todo[c])
  BY DEF InFlush, Shape, TypeOK
<1>3. Pending(c, part)
  BY <1>2, OccursHead DEF Pending
<1>4. ~Pending(c, "motorcycle")
  <2>1. \A p : Occurs(p, Tail(todo[c])) => Rank(req[c], part) < Rank(req[c], p)
    BY <1>1, <1>2, AscendingTail DEF RemovalProgress, InOrder
  <2>2. ~(Rank(req[c], part) < Rank(req[c], "motorcycle"))
    <3>1. Rank(req[c], "motorcycle") = 2 /\ Rank(req[c], part) \in {3, 4}
      BY SMT DEF Rank
    <3> QED BY <3>1, SMT
  <2> QED BY <1>2, <2>1, <2>2, OccursHead DEF Pending
<1>5. Written(c, "motorcycle") /\ Loaded(c)
  BY <1>1, <1>4 DEF RemovalProgress, Loaded
<1> QED BY <1>1, <1>3, <1>5 DEF Shared, Held, RemovalProgress

LEMMA StatementShared ==
    ASSUME Shape, LocalInv, Shared, NEW c \in Clients,
           \/ UpdateMotorcycle(c) \/ UpdateEngine(c) \/ UpdateDimension(c) \/ UpdateExtras(c)
           \/ RemoveExtras(c) \/ RemoveMotorcycle(c) \/ RemoveDimension(c) \/ RemoveEngine(c)
    PROVE  Shared'
<1>1. "engine" \in Parts /\ "dimension" \in Parts /\ "extras" \in Parts /\ "motorcycle" \in Parts
  BY DEF Parts
<1>2. Serve(c)
  BY DEF Serve
<1>3. ASSUME NEW status, Refuse(c, status) PROVE Shared'
  BY <1>2, <1>3, RefuseShared
<1>4. CASE UpdateMotorcycle(c)
  <2> DEFINE row == [slug |-> slug[c], ident |-> req[c].ident, version |-> NextVersion(c)]
  <2>1. CASE VersionHolds(c) /\ Wrote(c, "motorcycle", row)
    <3> HIDE DEF row
    <3> QED BY <1>1, <1>2, <1>4, <2>1, WroteShared DEF UpdateMotorcycle
  <2> QED BY <1>3, <1>4, <2>1 DEF UpdateMotorcycle
<1>5. CASE UpdateEngine(c)
  <2>1. CASE (snap[c].engine = Absent \/ engineSpecs[bike[c]] # Absent) /\ Wrote(c, "engine", req[c].engine)
    BY <1>1, <1>2, <1>5, <2>1, WroteShared DEF UpdateEngine
  <2> QED BY <1>3, <1>5, <2>1 DEF UpdateEngine
<1>6. CASE UpdateDimension(c)
  <2> DEFINE row == DimensionOf(req[c], RowFor(snap[c]))
  <2>1. CASE /\ req[c].dimension = Absent \/ snap[c].dimension = Absent \/ DimensionThere(c)
             /\ Wrote(c, "dimension", row)
    <3> HIDE DEF row
    <3> QED BY <1>1, <1>2, <1>6, <2>1, WroteShared DEF UpdateDimension
  <2> QED BY <1>3, <1>6, <2>1 DEF UpdateDimension
<1>7. CASE UpdateExtras(c)
  BY <1>1, <1>2, <1>7, WroteShared DEF UpdateExtras
<1>8. CASE RemoveExtras(c)
  <2> DEFINE value == IF additionalSpecs[bike[c]] = NoExtras THEN Untouched ELSE NoExtras
  <2>1. NoExtras \in {value, additionalSpecs[bike[c]]}
    BY Zenon
  <2>2. Wrote(c, "extras", value) /\ InFlush(c, "extras") /\ WaitsFor(c) = {}
    BY <1>8 DEF RemoveExtras
  <2> HIDE DEF value
  <2> QED BY <1>1, <1>2, <2>1, <2>2, WroteShared
<1>9. CASE RemoveMotorcycle(c)
  <2>1. CASE VersionHolds(c) /\ Wrote(c, "motorcycle", Absent)
    BY <1>1, <1>2, <1>9, <2>1, WroteShared DEF RemoveMotorcycle
  <2> QED BY <1>3, <1>9, <2>1 DEF RemoveMotorcycle
<1>10. CASE RemoveDimension(c)
  <2>1. Current(c) /\ snap[c].dimension # Absent /\ Reliable(c)
    <3>1. Loaded(c)
      BY <1>10 DEF RemoveDimension, InFlush, Loaded
    <3> QED BY <1>10, <3>1, BlocksRemovedLast DEF RemoveDimension, Shared
  <2>2. DimensionThere(c)
    BY <2>1 DEF Reliable, DimensionThere
  <2> QED BY <1>1, <1>2, <1>10, <2>2, WroteShared DEF RemoveDimension
<1>11. CASE RemoveEngine(c)
  <2>1. Current(c) /\ snap[c].engine # Absent /\ Reliable(c)
    <3>1. Loaded(c)
      BY <1>11 DEF RemoveEngine, InFlush, Loaded
    <3> QED BY <1>11, <3>1, BlocksRemovedLast DEF RemoveEngine, Shared
  <2>2. engineSpecs[bike[c]] # Absent
    BY <2>1 DEF Reliable
  <2> QED BY <1>1, <1>2, <1>11, <2>2, WroteShared DEF RemoveEngine
<1> QED BY <1>4, <1>5, <1>6, <1>7, <1>8, <1>9, <1>10, <1>11

\* What a commit does to the tables: the written parts of one bike.
LEMMA Committed ==
    ASSUME Shape, NEW c \in Clients, Commit(c), NEW i \in BikeIds
    PROVE  /\ motorcycles'[i] = IF i = bike[c] /\ Written(c, "motorcycle")
                                THEN writes[c].motorcycle ELSE motorcycles[i]
           /\ engineSpecs'[i] = IF i = bike[c] /\ Written(c, "engine")
                                THEN writes[c].engine ELSE engineSpecs[i]
           /\ dimensions'[i] = IF i = bike[c] /\ Written(c, "dimension")
                               THEN writes[c].dimension ELSE dimensions[i]
           /\ additionalSpecs'[i] = IF i = bike[c] /\ Written(c, "extras")
                                    THEN writes[c].extras ELSE additionalSpecs[i]
BY DEF Commit, After, Written, Shape, TypeOK

\* What a request has done when it commits.
LEMMA AtCommit ==
    ASSUME Shape, LocalInv, NEW c \in Clients, Commit(c)
    PROVE  /\ pc[c] = "flush" /\ todo[c] = <<>> /\ \A p : ~Pending(c, p)
           /\ req[c].op \in {"create", "update", "delete"}
           /\ req[c].op = "create" => Inserted(c) /\ InsertProgress(c)
           /\ req[c].op = "update" => Editing(c) /\ Loaded(c) /\ EditProgress(c) /\ ~Unflushed(c)
           /\ req[c].op = "delete" => Loaded(c) /\ RemovalProgress(c)
<1>1. pc[c] = "flush" /\ todo[c] = <<>>
  BY DEF Commit
<1>2. req[c].op \in {"create", "update", "delete"}
  BY ContentAssumption, SMT DEF Shape, TypeOK, Request
<1>3. \A p : ~Pending(c, p)
  BY <1>1, OccursNowhere DEF Pending
<1> QED BY <1>1, <1>2, <1>3 DEF LocalInv, Local, Inserted, Loaded, Editing, Unflushed

\* A PUT that commits without the motorcycle row has changed figures and nothing else.
LEMMA BlocksOnly ==
    ASSUME Shape, LocalInv, Shared, NEW c \in Clients, Commit(c), ~Written(c, "motorcycle")
    PROVE  /\ req[c].op = "update" /\ ~Written(c, "extras")
           /\ Written(c, "engine") =>
                  engineSpecs[bike[c]] # Absent /\ writes[c].engine = req[c].engine /\ req[c].engine # Absent
           /\ Written(c, "dimension") =>
                  /\ SameDimension(dimensions[bike[c]], writes[c].dimension)
                  /\ writes[c].dimension.figures = req[c].dimension
                  /\ req[c].dimension # Absent
<1>1. /\ pc[c] = "flush" /\ todo[c] = <<>> /\ \A p : ~Pending(c, p)
      /\ req[c].op \in {"create", "update", "delete"}
      /\ req[c].op = "create" => Inserted(c) /\ InsertProgress(c)
      /\ req[c].op = "update" => Editing(c) /\ Loaded(c) /\ EditProgress(c) /\ ~Unflushed(c)
      /\ req[c].op = "delete" => Loaded(c) /\ RemovalProgress(c)
  BY AtCommit
<1>2. req[c] \in Request /\ snap[c] \in SnapType
  BY ContentAssumption DEF Shape, TypeOK
<1>3. req[c].op = "update"
  <2>1. req[c].op # "delete"
    BY <1>1 DEF RemovalProgress
  <2>2. req[c].op # "create"
    <3> SUFFICES ASSUME req[c].op = "create" PROVE FALSE
      OBVIOUS
    <3> DEFINE row == [slug |-> slug[c], ident |-> req[c].ident, version |-> 0]
    <3>1. writes[c].motorcycle = row
      BY <1>1 DEF InsertProgress
    <3>2. row \in MotorcycleRow
      BY <1>2, SMT DEF MotorcycleRow, Request, Shape, TypeOK
    <3> HIDE DEF row
    <3> QED BY <3>1, <3>2, ContentAssumption DEF Written
  <2> QED BY <1>1, <2>1, <2>2
<1>4. ~Dirty(c)
  BY <1>1, <1>3 DEF EditProgress, EditedMotorcycle
<1>5. /\ snap[c].engine # Absent /\ ~DropsDimension(req[c], snap[c])
      /\ ~ExtrasDirty(req[c], snap[c])
      /\ (req[c].dimension = Absent) = (snap[c].dimension = Absent)
  BY <1>4 DEF Dirty, RootDirty, DropsDimension, ExtrasDirty
<1>6. Held(c)
  BY <1>1, <1>3 DEF Shared
<1>7. ~Written(c, "extras")
  BY <1>1, <1>3, <1>5 DEF EditProgress, EditedExtras
<1>8. req[c].engine \in Engines /\ req[c].engine # Absent
  BY <1>2, ContentAssumption, SMT DEF Request
<1>9. ASSUME Written(c, "dimension")
      PROVE  /\ SameDimension(dimensions[bike[c]], writes[c].dimension)
             /\ writes[c].dimension.figures = req[c].dimension
             /\ req[c].dimension # Absent
  <2>1. DimensionDirty(req[c], snap[c]) /\ writes[c].dimension = DimensionOf(req[c], RowFor(snap[c]))
    BY <1>1, <1>3, <1>5, <1>9 DEF EditProgress, EditedDimension, DimensionChanges
  <2>2. req[c].dimension # Absent /\ snap[c].dimension # Absent
    BY <1>5, <2>1 DEF DimensionDirty
  <2>3. writes[c].dimension = [row |-> snap[c].dimension.row, figures |-> req[c].dimension]
    BY <2>1, <2>2 DEF DimensionOf, RowFor
  <2>4. writes[c].dimension.row = snap[c].dimension.row /\ writes[c].dimension.figures = req[c].dimension
    BY <2>3
  <2>5. writes[c].dimension # Absent
    <3>1. writes[c].dimension \in DimensionRow
      <4>1. snap[c].dimension \in DimensionRow /\ req[c].dimension \in Dimensions
        BY <1>2, <2>2, SMT DEF SnapType, Request
      <4> QED BY <2>3, <4>1, SMT DEF DimensionRow
    <3> QED BY <3>1, ContentAssumption
  <2>6. SameDimension(dimensions[bike[c]], snap[c].dimension)
    BY <1>6, <1>9, <2>2 DEF Held
  <2> QED BY <2>2, <2>4, <2>5, <2>6 DEF SameDimension
<1> QED BY <1>1, <1>3, <1>5, <1>6, <1>7, <1>8, <1>9 DEF EditProgress, EditedEngine, Held

\* A commit that writes the motorcycle row leaves the others on it with a version that is
\* not current; what they hold of its blocks it has not touched.
LEMMA RowCommitReliance ==
    ASSUME Shape, Exclusive, LocalInv, Shared, NEW c \in Clients, Commit(c), Written(c, "motorcycle"),
           Loaded(c), NEW d \in Clients \ {c}, Loaded(d), bike[d] = bike[c]
    PROVE  Reliable(d)' /\ Held(d)'
<1>1. /\ pc[c] = "flush" /\ todo[c] = <<>> /\ \A p : ~Pending(c, p)
      /\ req[c].op \in {"create", "update", "delete"}
      /\ req[c].op = "create" => Inserted(c) /\ InsertProgress(c)
      /\ req[c].op = "update" => Editing(c) /\ Loaded(c) /\ EditProgress(c) /\ ~Unflushed(c)
      /\ req[c].op = "delete" => Loaded(c) /\ RemovalProgress(c)
  BY AtCommit
<1>2. req[c].op \in {"update", "delete"}
  BY <1>1 DEF Loaded
<1>3. Current(c) /\ Reliable(c) /\ Held(c) /\ Reliable(d) /\ Held(d) /\ Apart(c, d)
  BY DEF Shared, Held
<1>4. /\ pc'[d] = pc[d] /\ req'[d] = req[d] /\ bike'[d] = bike[d]
      /\ snap'[d] = snap[d] /\ todo'[d] = todo[d] /\ writes'[d] = writes[d]
  BY OthersKeepTheirs DEF Serve
<1>5. ~Written(d, "motorcycle") /\ \A p : Written(d, p)' <=> Written(d, p)
  BY <1>4 DEF Exclusive, PendingSlugsExclusive, Written
<1>6. bike[c] \in BikeIds /\ nextId' = nextId
  BY DEF Commit, Shape, TypeOK
<1>7. motorcycles'[bike[c]] = writes[c].motorcycle
  BY <1>6, Committed
<1>8. motorcycles'[bike[c]] # Absent => snap[d].motorcycle.version < motorcycles'[bike[c]].version
  <2>1. CASE req[c].op = "delete"
    BY <1>1, <1>7, <2>1 DEF RemovalProgress, Written
  <2>2. CASE req[c].op = "update"
    <3>1. writes[c].motorcycle.version \in
              {snap[c].motorcycle.version + 1, snap[c].motorcycle.version + 2}
      BY <1>1, <2>2 DEF EditProgress, EditedMotorcycle
    <3>2. motorcycles[bike[c]] = snap[c].motorcycle /\ motorcycles[bike[c]] # Absent
      BY <1>3 DEF Reliable, Current
    <3>3. snap[d].motorcycle.version <= snap[c].motorcycle.version
      BY <1>3, <3>2 DEF Reliable
    <3>4. snap[c].motorcycle.version \in Nat /\ snap[d].motorcycle.version \in Nat
      <4>1. snap[d].motorcycle # Absent
        BY DEF Loaded, Shape, PhasesConsistent
      <4>2. snap[d].motorcycle \in MotorcycleRow /\ snap[c].motorcycle \in MotorcycleRow
        BY <3>2, <4>1, SMT DEF Shape, TypeOK, SnapType
      <4> QED BY <4>2, SMT DEF MotorcycleRow
    <3> QED BY <1>7, <3>1, <3>3, <3>4, SMT
  <2> QED BY <1>2, <2>1, <2>2
<1>9. /\ motorcycles'[bike[c]] # Absent =>
             /\ snap[d].motorcycle.version <= motorcycles'[bike[c]].version
             /\ motorcycles'[bike[c]].version # snap[d].motorcycle.version
  <2> SUFFICES ASSUME motorcycles'[bike[c]] # Absent
               PROVE  /\ snap[d].motorcycle.version <= motorcycles'[bike[c]].version
                      /\ motorcycles'[bike[c]].version # snap[d].motorcycle.version
    OBVIOUS
  <2>1. motorcycles'[bike[c]].version \in Nat /\ snap[d].motorcycle.version \in Nat
    <3>1. snap[d].motorcycle # Absent
      BY DEF Loaded, Shape, PhasesConsistent
    <3>2. snap[d].motorcycle \in MotorcycleRow
      BY <3>1, SMT DEF Shape, TypeOK, SnapType
    <3>3. writes[c].motorcycle \in MotorcycleRow
      BY <1>7, SMT DEF Shape, TypeOK, WritesType, Written
    <3> QED BY <1>7, <3>2, <3>3, SMT DEF MotorcycleRow
  <2> QED BY <1>8, <2>1, SMT
<1>10. ~Current(d)'
  BY <1>4, <1>9 DEF Current
<1>11. Reliable(d)'
  BY <1>3, <1>4, <1>6, <1>9, <1>10 DEF Reliable
<1>12. ASSUME Written(d, "engine"), snap[d].engine # Absent PROVE engineSpecs'[bike[c]] # Absent
  <2>1. engineSpecs[bike[c]] # Absent /\ snap[c].engine # Absent
    BY <1>3, <1>12 DEF Held, Reliable
  <2>2. ~Written(c, "engine")
    BY <1>3, <1>12, <2>1 DEF Apart
  <2> QED BY <1>6, <2>1, <2>2, Committed
<1>13. ASSUME Written(d, "dimension"), snap[d].dimension # Absent, req[d].dimension # Absent
       PROVE  SameDimension(dimensions'[bike[c]], snap[d].dimension)
  <2>1. SameDimension(dimensions[bike[c]], snap[d].dimension)
    BY <1>3, <1>13 DEF Held
  <2>2. snap[c].dimension # Absent
    BY <1>3, <2>1 DEF Reliable, SameDimension
  <2>3. SameDimension(dimensions[bike[c]], snap[c].dimension)
    BY <1>3, <2>2 DEF Reliable
  <2>4. ~Written(c, "dimension")
    BY <1>3, <1>13, <2>1, <2>3 DEF Apart, SameDimension
  <2> QED BY <1>6, <2>1, <2>4, Committed
<1>14. Held(d)'
  BY <1>4, <1>5, <1>12, <1>13 DEF Held
<1> QED BY <1>11, <1>14

LEMMA BlockCommitReliance ==
    ASSUME Shape, LocalInv, Shared, NEW c \in Clients, Commit(c), ~Written(c, "motorcycle"),
           NEW d \in Clients \ {c}, Loaded(d), bike[d] = bike[c]
    PROVE  Reliable(d)' /\ Held(d)'
<1>1. Reliable(d) /\ Held(d)
  BY DEF Shared
<1>2. /\ pc'[d] = pc[d] /\ req'[d] = req[d] /\ bike'[d] = bike[d]
      /\ snap'[d] = snap[d] /\ todo'[d] = todo[d] /\ writes'[d] = writes[d]
  BY OthersKeepTheirs DEF Serve
<1>3. /\ \A p : Written(d, p)' <=> Written(d, p)
      /\ \A p : Pending(d, p)' <=> Pending(d, p)
      /\ Editing(d)' <=> Editing(d)
  BY <1>2 DEF Written, Pending, Editing
<1>4. bike[c] \in BikeIds /\ nextId' = nextId
  BY DEF Commit, Shape, TypeOK
<1>5. motorcycles'[bike[c]] = motorcycles[bike[c]] /\ additionalSpecs'[bike[c]] = additionalSpecs[bike[c]]
  BY <1>4, Committed, BlocksOnly
<1>6. engineSpecs'[bike[c]] = Absent <=> engineSpecs[bike[c]] = Absent
  BY <1>4, Committed, BlocksOnly
<1>7. /\ dimensions'[bike[c]] = Absent <=> dimensions[bike[c]] = Absent
      /\ \A x : SameDimension(dimensions'[bike[c]], x) <=> SameDimension(dimensions[bike[c]], x)
  BY <1>4, Committed, BlocksOnly DEF SameDimension
<1>8. Current(d)' <=> Current(d)
  BY <1>2, <1>5 DEF Current
<1>9. Reliable(d)'
  BY <1>1, <1>2, <1>3, <1>4, <1>5, <1>6, <1>7, <1>8 DEF Reliable
<1>10. Held(d)'
  BY <1>1, <1>2, <1>3, <1>6, <1>7, <1>8 DEF Held
<1> QED BY <1>9, <1>10

LEMMA ElsewhereCommitReliance ==
    ASSUME Shape, LocalInv, Shared, NEW c \in Clients, Commit(c),
           NEW d \in Clients \ {c}, Loaded(d), bike[d] # bike[c]
    PROVE  Reliable(d)' /\ Held(d)'
<1>1. Reliable(d) /\ Held(d)
  BY DEF Shared
<1>2. /\ pc'[d] = pc[d] /\ req'[d] = req[d] /\ bike'[d] = bike[d]
      /\ snap'[d] = snap[d] /\ todo'[d] = todo[d] /\ writes'[d] = writes[d]
  BY OthersKeepTheirs DEF Serve
<1>3. /\ \A p : Written(d, p)' <=> Written(d, p)
      /\ \A p : Pending(d, p)' <=> Pending(d, p)
      /\ Editing(d)' <=> Editing(d)
  BY <1>2 DEF Written, Pending, Editing
<1>4. bike[d] \in BikeIds /\ nextId' = nextId
  BY DEF Commit, Shape, TypeOK
<1>5. /\ motorcycles'[bike[d]] = motorcycles[bike[d]] /\ engineSpecs'[bike[d]] = engineSpecs[bike[d]]
      /\ dimensions'[bike[d]] = dimensions[bike[d]] /\ additionalSpecs'[bike[d]] = additionalSpecs[bike[d]]
  BY <1>4, Committed
<1>6. Current(d)' <=> Current(d)
  BY <1>2, <1>5 DEF Current
<1>7. Reliable(d)'
  BY <1>1, <1>2, <1>3, <1>4, <1>5, <1>6 DEF Reliable
<1>8. Held(d)'
  BY <1>1, <1>2, <1>3, <1>5, <1>6 DEF Held
<1> QED BY <1>7, <1>8

LEMMA CommitShared ==
    ASSUME Shape, Exclusive, LocalInv, Shared, NEW c \in Clients, Commit(c) PROVE Shared'
<1>1. Loaded(c) \/ Inserted(c)
  BY AtCommit
<1>2. ~Loaded(c)' /\ ~Inserted(c)'
  <2>1. pc'[c] = "idle"
    BY DEF Commit, Finish, Shape, TypeOK
  <2> QED BY <2>1 DEF Loaded, Inserted
<1>3. ASSUME NEW d \in Clients \ {c}
      PROVE  /\ bike'[d] = bike[d] /\ snap'[d] = snap[d] /\ writes'[d] = writes[d]
             /\ Loaded(d)' <=> Loaded(d)
             /\ Inserted(d)' <=> Inserted(d)
  BY OthersKeepTheirs DEF Serve, Loaded, Inserted
<1>4. ASSUME NEW d \in Clients \ {c}, Loaded(d) PROVE Reliable(d)' /\ Held(d)'
  <2>1. CASE bike[d] # bike[c]
    BY <1>4, <2>1, ElsewhereCommitReliance
  <2>2. CASE bike[d] = bike[c] /\ ~Written(c, "motorcycle")
    BY <1>4, <2>2, BlockCommitReliance
  <2>3. CASE bike[d] = bike[c] /\ Written(c, "motorcycle")
    <3>1. Loaded(c)
      BY <1>1, <1>4, <2>3 DEF Shared, Fresh
    <3> QED BY <1>4, <2>3, <3>1, RowCommitReliance
  <2> QED BY <2>1, <2>2, <2>3
<1>5. ASSUME NEW d \in Clients \ {c}, Inserted(d) PROVE bike'[d] < nextId' /\ Fresh(d)'
  <2>1. bike[d] < nextId /\ Fresh(d) /\ bike[c] # bike[d]
    BY <1>1, <1>5 DEF Shared, Fresh
  <2>2. bike[d] \in BikeIds /\ nextId' = nextId
    BY DEF Commit, Shape, TypeOK
  <2>3. motorcycles'[bike[d]] = Absent
    BY <2>1, <2>2, Committed DEF Fresh
  <2>4. \A e \in Clients \ {d} : Loaded(e)' \/ Inserted(e)' => bike'[e] # bike'[d]
    <3> SUFFICES ASSUME NEW e \in Clients \ {d}, Loaded(e)' \/ Inserted(e)' PROVE bike'[e] # bike'[d]
      OBVIOUS
    <3>1. e # c
      BY <1>2
    <3> QED BY <1>3, <2>1, <3>1 DEF Fresh
  <2> QED BY <1>3, <2>1, <2>2, <2>3, <2>4 DEF Fresh
<1>6. ASSUME NEW d \in Clients, NEW e \in Clients, d # e, Loaded(d)', Loaded(e)' PROVE Apart(d, e)'
  <2>1. d # c /\ e # c
    BY <1>2, <1>6
  <2>2. Apart(d, e)
    BY <1>3, <1>6, <2>1 DEF Shared
  <2>3. (\A p : Written(d, p)' <=> Written(d, p)) /\ (\A p : Written(e, p)' <=> Written(e, p))
    BY <1>3, <2>1 DEF Written
  <2> QED BY <1>3, <2>1, <2>2, <2>3 DEF Apart
<1> QED BY <1>2, <1>3, <1>4, <1>5, <1>6 DEF Shared

LEMMA StepShared ==
    Shape /\ Exclusive /\ LocalInv /\ Shared /\ [Next]_vars => Shared'
<1> SUFFICES ASSUME Shape, Exclusive, LocalInv, Shared, [Next]_vars PROVE Shared'
  OBVIOUS
<1>1. CASE UNCHANGED vars
  <2>1. nextId \in Nat /\ nextId' = nextId /\ nextId <= nextId'
    BY <1>1, BoundAssumption, SMT DEF Shape, TypeOK, vars, tables
  <2>2. \A d \in Clients :
            /\ Loaded(d)' <=> Loaded(d)
            /\ Inserted(d)' <=> Inserted(d)
            /\ Reliable(d) => Reliable(d)'
            /\ Held(d) => Held(d)'
    BY <1>1, <2>1, RelianceStays DEF vars, tables, envelope, locals
  <2>3. \A d \in Clients : Fresh(d) => Fresh(d)'
    BY <1>1, <2>2 DEF Fresh, vars, tables, locals
  <2>4. \A d, e \in Clients : Apart(d, e) => Apart(d, e)'
    BY <1>1 DEF Apart, Written, vars, locals
  <2> QED BY <1>1, <2>2, <2>3, <2>4 DEF Shared, vars, tables, locals
<1>2. ASSUME NEW c \in Clients, Begin(c) \/ Serve(c) \/ Fail(c) PROVE Shared'
  <2>1. CASE Begin(c)
    <3>1. pc'[c] \in {"load", "probe"} /\ (pc'[c] = "probe" => req'[c].op = "create")
      BY <2>1, SMT DEF Begin, Shape, TypeOK
    <3>2. UNCHANGED tables
      BY <2>1 DEF Begin
    <3> QED BY <2>1, <3>1, <3>2, NotLoadedShared DEF Loaded, Inserted
  <2>2. CASE BreakDeadlock(c) \/ Fail(c)
    BY <2>2, RefuseShared DEF BreakDeadlock, Fail, Serve
  <2> QED BY <1>2, <2>1, <2>2, LoadShared, ApplyShared, ProbeShared, InsertNewShared,
             StatementShared, CommitShared DEF Serve
<1> QED BY <1>1, <1>2 DEF Next, Quiet

------------------------------------------------------------------------------
(* The properties *)

Requested == Shape /\ Exclusive /\ LocalInv /\ Shared

LEMMA RequestedHolds == Spec => []Requested
<1>1. Init => Requested
  BY InitShape, InitExclusive, InitLocal, InitShared DEF Requested
<1>2. Requested /\ [Next]_vars => Requested'
  BY StepShape, StepExclusive, StepLocal, StepShared DEF Requested
<1> QED BY <1>1, <1>2, PTL DEF Spec

\* Only a commit changes what the others see.
LEMMA OnlyCommitsShow ==
    ASSUME [Next]_vars, \A c \in Clients : ~Commit(c)
    PROVE  UNCHANGED <<motorcycles, engineSpecs, dimensions, additionalSpecs>>
<1>1. CASE UNCHANGED vars
  BY <1>1 DEF vars, tables
<1>2. ASSUME NEW c \in Clients, Begin(c) \/ Serve(c) \/ Fail(c)
      PROVE  UNCHANGED <<motorcycles, engineSpecs, dimensions, additionalSpecs>>
  <2>1. CASE Begin(c) \/ BreakDeadlock(c) \/ Fail(c)
    BY <2>1 DEF Begin, BreakDeadlock, Fail, Refuse, tables
  <2>2. CASE Load(c) \/ Apply(c) \/ Probe(c) \/ InsertNew(c)
    BY <2>2, Zenon DEF Load, Apply, Probe, InsertNew, Refuse, tables
  <2>3. CASE UpdateMotorcycle(c) \/ UpdateEngine(c) \/ UpdateDimension(c) \/ UpdateExtras(c)
    BY <2>3 DEF UpdateMotorcycle, UpdateEngine, UpdateDimension, UpdateExtras, Refuse, Wrote, tables
  <2>4. CASE RemoveMotorcycle(c) \/ RemoveEngine(c) \/ RemoveDimension(c) \/ RemoveExtras(c)
    BY <2>4 DEF RemoveMotorcycle, RemoveEngine, RemoveDimension, RemoveExtras, Refuse, Wrote, tables
  <2> QED BY <1>2, <2>1, <2>2, <2>3, <2>4 DEF Serve
<1> QED BY <1>1, <1>2 DEF Next, Quiet

\* What a commit of the motorcycle row is: a new row of a create, the version after the one
\* loaded, or a removal.
LEMMA RowCommitted ==
    ASSUME Requested, NEW c \in Clients, Commit(c), Written(c, "motorcycle")
    PROVE  /\ bike[c] \in BikeIds /\ motorcycles'[bike[c]] = writes[c].motorcycle
           /\ req[c].op = "create" =>
                  /\ motorcycles[bike[c]] = Absent /\ pc[c] = "flush"
                  /\ writes[c].motorcycle = [slug |-> slug[c], ident |-> req[c].ident, version |-> 0]
                  /\ slug[c] \in DerivedFrom(Base(c))
           /\ req[c].op = "update" =>
                  /\ motorcycles[bike[c]] = snap[c].motorcycle /\ motorcycles[bike[c]] # Absent
                  /\ writes[c].motorcycle # Absent
                  /\ writes[c].motorcycle.slug = slug[c]
                  /\ writes[c].motorcycle.ident = req[c].ident
                  /\ KeepsSlug(c)
                  /\ Moved(c) => /\ ~SlugMatchesIdentity(snap[c].motorcycle.slug, Base(c))
                                 /\ slug[c] \in DerivedFrom(Base(c))
           /\ req[c].op = "delete" => writes[c].motorcycle = Absent /\ Current(c)
           /\ req[c].op \in {"create", "update", "delete"}
<1>1. /\ pc[c] = "flush" /\ todo[c] = <<>> /\ \A p : ~Pending(c, p)
      /\ req[c].op \in {"create", "update", "delete"}
      /\ req[c].op = "create" => Inserted(c) /\ InsertProgress(c)
      /\ req[c].op = "update" => Editing(c) /\ Loaded(c) /\ EditProgress(c) /\ ~Unflushed(c)
      /\ req[c].op = "delete" => Loaded(c) /\ RemovalProgress(c)
  BY AtCommit DEF Requested
<1>2. bike[c] \in BikeIds
  BY DEF Requested, Shape, TypeOK
<1>3. motorcycles'[bike[c]] = writes[c].motorcycle
  BY <1>2, Committed DEF Requested
<1>4. CASE req[c].op = "create"
  <2> DEFINE row == [slug |-> slug[c], ident |-> req[c].ident, version |-> 0]
  <2>1. writes[c].motorcycle = row /\ slug[c] \in DerivedFrom(Base(c))
    BY <1>1, <1>4 DEF InsertProgress
  <2>2. motorcycles[bike[c]] = Absent
    BY <1>1, <1>4 DEF Requested, Shared, Fresh
  <2> QED BY <1>1, <1>2, <1>3, <1>4, <2>1, <2>2
<1>5. CASE req[c].op = "update"
  <2>1. EditedSlug(c) /\ EditedMotorcycle(c)
    BY <1>1, <1>5 DEF EditProgress
  <2>2. motorcycles[bike[c]] = snap[c].motorcycle /\ motorcycles[bike[c]] # Absent
    BY <1>1, <1>5 DEF Requested, Shared, Held, Reliable, Current
  <2>3. writes[c].motorcycle # Absent
    BY <1>5 DEF Requested, Shape, PhasesConsistent
  <2> QED BY <1>1, <1>2, <1>3, <1>5, <2>1, <2>2, <2>3 DEF EditedSlug, EditedMotorcycle
<1>6. CASE req[c].op = "delete"
  <2>1. writes[c].motorcycle = Absent
    BY <1>1, <1>6 DEF RemovalProgress, Written
  <2>2. Current(c)
    BY <1>1, <1>6 DEF Requested, Shared, Held
  <2> QED BY <1>1, <1>2, <1>3, <1>6, <2>1, <2>2
<1> QED BY <1>1, <1>4, <1>5, <1>6

\* The row of a bike only changes by the commit of a request for that bike.
LEMMA RowChange ==
    ASSUME Requested, [Next]_vars, NEW i \in BikeIds, motorcycles'[i] # motorcycles[i]
    PROVE  \E c \in Clients : Commit(c) /\ Written(c, "motorcycle") /\ i = bike[c]
<1>1. PICK c \in Clients : Commit(c)
  BY OnlyCommitsShow
<1>2. Written(c, "motorcycle") /\ i = bike[c]
  BY <1>1, Committed DEF Requested
<1> QED BY <1>1, <1>2

LEMMA DerivedMatches ==
    ASSUME NEW b \in Slug, NEW s \in DerivedFrom(b) PROVE SlugMatchesIdentity(s, b)
<1>1. PICK n \in 1..MaxSuffix - 1 : s = Candidate(b, n)
  BY DEF DerivedFrom
<1> QED BY <1>1, CandidateDerived

LEMMA BaseType == ASSUME Shape, NEW c \in Clients PROVE Base(c) \in Slug
<1>1. req[c].ident \in Identity
  BY ContentAssumption, SMT DEF Shape, TypeOK, Request
<1> QED BY <1>1, BaseSlugType DEF Base

\* The slug of every bike passes slugMatchesIdentity for the brand, model and year of its
\* own row (SlugFitsIdentity of CatalogueWrites), however renames and creates interleave:
\* what update() writes is the identity it was asked for under the slug it kept or derived
\* for that identity, and the version check lets no other PUT's half in between.
THEOREM SlugsAlwaysFit == Spec => []SlugFitsIdentity
<1>1. Init => SlugFitsIdentity
  <2> SUFFICES ASSUME Init, NEW i \in Existing
               PROVE  SlugMatchesIdentity(motorcycles[i].slug, BaseSlug(motorcycles[i].ident))
    BY DEF SlugFitsIdentity
  <2>1. i \in DOMAIN Seeded /\ motorcycles[i] = Seeded[i].motorcycle
    BY SMT DEF Init, Existing
  <2> QED BY <2>1, SeedAssumption
<1>2. Requested /\ SlugFitsIdentity /\ [Next]_vars => SlugFitsIdentity'
  <2> SUFFICES ASSUME Requested, SlugFitsIdentity, [Next]_vars, NEW i \in Existing'
               PROVE  SlugMatchesIdentity(motorcycles'[i].slug, BaseSlug(motorcycles'[i].ident))
    BY DEF SlugFitsIdentity
  <2>1. i \in BikeIds /\ motorcycles'[i] # Absent
    BY DEF Existing
  <2>2. CASE motorcycles'[i] = motorcycles[i]
    <3>1. i \in Existing
      BY <2>1, <2>2 DEF Existing
    <3> QED BY <2>2, <3>1 DEF SlugFitsIdentity
  <2>3. CASE motorcycles'[i] # motorcycles[i]
    <3>1. PICK c \in Clients : Commit(c) /\ Written(c, "motorcycle") /\ i = bike[c]
      BY <2>1, <2>3, RowChange
    <3>2. motorcycles'[i].slug = slug[c] /\ motorcycles'[i].ident = req[c].ident
      <4>1. CASE req[c].op = "create"
        <5>1. motorcycles'[i] = [slug |-> slug[c], ident |-> req[c].ident, version |-> 0]
          BY <3>1, <4>1, RowCommitted
        <5> QED BY <5>1
      <4>2. CASE req[c].op = "update"
        BY <3>1, <4>2, RowCommitted
      <4>3. req[c].op # "delete"
        BY <2>1, <3>1, RowCommitted
      <4> QED BY <3>1, <4>1, <4>2, <4>3, RowCommitted
    <3>3. SlugMatchesIdentity(slug[c], Base(c))
      <4>1. CASE req[c].op = "create"
        BY <3>1, <4>1, RowCommitted, BaseType, DerivedMatches DEF Requested
      <4>2. CASE req[c].op = "update"
        BY <3>1, <4>2, RowCommitted DEF KeepsSlug
      <4>3. req[c].op # "delete"
        BY <2>1, <3>1, RowCommitted
      <4> QED BY <3>1, <4>1, <4>2, <4>3, RowCommitted
    <3> QED BY <3>2, <3>3 DEF Base
  <2> QED BY <2>2, <2>3
<1> QED BY <1>1, <1>2, RequestedHolds, PTL DEF Spec

\* An edit that leaves the identity alone, or returns to one the slug still fits, never
\* breaks the links to the bike (LinksSurviveEdits of CatalogueWrites): update() derives a
\* new slug only past slugMatchesIdentity, and the row it replaces is the one it tested.
THEOREM LinksSurvive == Spec => LinksSurviveEdits
<1> DEFINE keeps == \A i \in Existing :
                        motorcycles'[i] # Absent /\ motorcycles'[i].slug # motorcycles[i].slug
                            => ~SlugMatchesIdentity(motorcycles[i].slug, BaseSlug(motorcycles'[i].ident))
<1>1. Requested /\ [Next]_vars => keeps
  <2> SUFFICES ASSUME Requested, [Next]_vars, NEW i \in Existing, motorcycles'[i] # Absent,
                      motorcycles'[i].slug # motorcycles[i].slug
               PROVE  ~SlugMatchesIdentity(motorcycles[i].slug, BaseSlug(motorcycles'[i].ident))
    OBVIOUS
  <2>1. i \in BikeIds /\ motorcycles[i] # Absent
    BY DEF Existing
  <2>2. PICK c \in Clients : Commit(c) /\ Written(c, "motorcycle") /\ i = bike[c]
    BY <2>1, RowChange
  <2>3. req[c].op = "update"
    BY <2>1, <2>2, RowCommitted
  <2>4. /\ motorcycles[i] = snap[c].motorcycle /\ motorcycles'[i].slug = slug[c]
        /\ motorcycles'[i].ident = req[c].ident
        /\ Moved(c) => ~SlugMatchesIdentity(snap[c].motorcycle.slug, Base(c))
    BY <2>2, <2>3, RowCommitted
  <2>5. Moved(c)
    BY <2>4 DEF Moved
  <2> QED BY <2>4, <2>5 DEF Base
<1> QED BY <1>1, RequestedHolds, PTL DEF Spec, LinksSurviveEdits

\* A bike that is gone stays gone (NoResurrection of CatalogueWrites): a row appears only
\* under an id by the create that was handed it, never by a PUT that was under way when
\* the DELETE committed, because its "where id = ? and version = ?" finds nothing.
THEOREM NothingResurrected == Spec => NoResurrection
<1> DEFINE created == \A i \in BikeIds \ Existing :
                          motorcycles'[i] # Absent
                              => \E c \in Clients : req[c].op = "create" /\ bike[c] = i /\ pc[c] = "flush"
<1>1. Requested /\ [Next]_vars => created
  <2> SUFFICES ASSUME Requested, [Next]_vars, NEW i \in BikeIds \ Existing, motorcycles'[i] # Absent
               PROVE  \E c \in Clients : req[c].op = "create" /\ bike[c] = i /\ pc[c] = "flush"
    OBVIOUS
  <2>1. motorcycles[i] = Absent
    BY DEF Existing
  <2>2. PICK c \in Clients : Commit(c) /\ Written(c, "motorcycle") /\ i = bike[c]
    BY <2>1, RowChange
  <2>3. req[c].op = "create" /\ pc[c] = "flush"
    BY <2>1, <2>2, RowCommitted
  <2> QED BY <2>2, <2>3
<1> QED BY <1>1, RequestedHolds, PTL DEF Spec, NoResurrection

\* The 200 of a PUT leaves with its commit.
LEMMA EditAnswered ==
    ASSUME Requested, [Next]_vars, NEW c \in Clients, NEW part \in Parts, CommitsPart(c, part)
    PROVE  Commit(c) /\ req[c].op = "update"
<1> USE DEF Requested, Shape, TypeOK
<1>1. pc[c] = "flush" /\ pc'[c] = "idle" /\ reply'[c] = "200"
  BY DEF CommitsPart
<1>2. PICK d \in Clients : Begin(d) \/ Serve(d) \/ Fail(d)
  BY <1>1 DEF Next, Quiet, vars
<1>3. d = c
  BY <1>1, <1>2, OthersKeepTheirs
<1>4. ASSUME NEW status, Refuse(c, status) PROVE status = "200"
  BY <1>1, <1>4 DEF Refuse, Finish
<1>5. ASSUME NEW p, NEW value, Wrote(c, p, value) PROVE FALSE
  BY <1>1, <1>5 DEF Wrote
<1>6. ~Begin(c) /\ ~Load(c) /\ ~Apply(c) /\ ~Probe(c) /\ ~InsertNew(c)
  BY <1>1 DEF Begin, Load, Apply, Probe, InsertNew
<1>7. ~BreakDeadlock(c) /\ ~Fail(c)
  BY <1>4 DEF BreakDeadlock, Fail
<1>8. ~UpdateMotorcycle(c) /\ ~UpdateEngine(c) /\ ~UpdateDimension(c) /\ ~UpdateExtras(c)
  BY <1>4, <1>5 DEF UpdateMotorcycle, UpdateEngine, UpdateDimension, UpdateExtras
<1>9. ~RemoveMotorcycle(c) /\ ~RemoveEngine(c) /\ ~RemoveDimension(c) /\ ~RemoveExtras(c)
  BY <1>4, <1>5 DEF RemoveMotorcycle, RemoveEngine, RemoveDimension, RemoveExtras
<1>10. Commit(c)
  BY <1>2, <1>3, <1>6, <1>7, <1>8, <1>9 DEF Serve
<1>11. Status(req[c].op) = "200"
  BY <1>1, <1>10 DEF Commit, Finish
<1> QED BY <1>10, <1>11 DEF Status

\* What a PUT that writes the motorcycle row leaves behind when it commits.
LEMMA EditCommitted ==
    ASSUME Requested, [Next]_vars, NEW c \in Clients, Commit(c), req[c].op = "update",
           Written(c, "motorcycle")
    PROVE  /\ bike[c] \in BikeIds
           /\ motorcycles[bike[c]] = snap[c].motorcycle
           /\ dimensions'[bike[c]] = Absent <=> req[c].dimension = Absent
           /\ additionalSpecs[bike[c]] = snap[c].extras
           /\ motorcycles'[bike[c]].ident = req[c].ident
           /\ additionalSpecs'[bike[c]] = req[c].extras
<1>1. bike[c] \in BikeIds
  BY DEF Requested, Shape, TypeOK
<1>2. /\ \A p : ~Pending(c, p)
      /\ Editing(c) /\ Loaded(c) /\ EditProgress(c) /\ ~Unflushed(c)
  BY <1>1, AtCommit DEF Requested
<1>3. /\ motorcycles[bike[c]] = snap[c].motorcycle
      /\ motorcycles'[bike[c]].ident = req[c].ident
  BY RowCommitted
<1>4. Current(c) /\ Reliable(c)
  BY <1>2 DEF Requested, Shared, Held
<1>5. additionalSpecs[bike[c]] = snap[c].extras
  BY <1>2, <1>4 DEF Reliable
<1>6. additionalSpecs'[bike[c]] = req[c].extras
  <2>1. CASE Written(c, "extras")
    BY <1>1, <1>2, <2>1, Committed DEF Requested, EditProgress, EditedExtras
  <2>2. CASE ~Written(c, "extras")
    <3>1. req[c].extras = snap[c].extras
      BY <1>2, <2>2 DEF EditProgress, EditedExtras, ExtrasDirty
    <3> QED BY <1>1, <1>5, <2>2, <3>1, Committed DEF Requested
  <2> QED BY <2>1, <2>2
<1>7. dimensions'[bike[c]] = Absent <=> req[c].dimension = Absent
  <2>1. CASE Written(c, "dimension")
    <3>1. dimensions'[bike[c]] = DimensionOf(req[c], RowFor(snap[c]))
      BY <1>1, <1>2, <2>1, Committed DEF Requested, EditProgress, EditedDimension
    <3>2. writes[c].dimension \in DimensionRow \cup {Absent}
      BY <2>1, SMT DEF Requested, Shape, TypeOK, WritesType, Written
    <3>3. req[c].dimension # Absent => DimensionOf(req[c], RowFor(snap[c])) # Absent
      <4> SUFFICES ASSUME req[c].dimension # Absent
                   PROVE  DimensionOf(req[c], RowFor(snap[c])) # Absent
        OBVIOUS
      <4>1. snap[c].motorcycle \in MotorcycleRow /\ snap[c].dimension \in DimensionRow \cup {Absent}
            /\ req[c].dimension \in Dimensions
        <5>1. snap[c] \in SnapType /\ req[c] \in Request /\ snap[c].motorcycle # Absent
          BY <1>2, ContentAssumption DEF Requested, Shape, TypeOK, PhasesConsistent, Loaded
        <5> QED BY <5>1, SMT DEF SnapType, Request
      <4>2. RowFor(snap[c]) \in Nat
        BY <4>1, SMT DEF RowFor, MotorcycleRow, DimensionRow
      <4>3. DimensionOf(req[c], RowFor(snap[c])) \in DimensionRow
        BY <4>1, <4>2, SMT DEF DimensionOf, DimensionRow
      <4> QED BY <4>3, ContentAssumption
    <3> QED BY <3>1, <3>3 DEF DimensionOf
  <2>2. CASE ~Written(c, "dimension")
    <3>1. ~DimensionDirty(req[c], snap[c]) /\ ~DropsDimension(req[c], snap[c])
      BY <1>2, <2>2 DEF EditProgress, EditedDimension, DimensionChanges
    <3>2. req[c].dimension = Absent <=> snap[c].dimension = Absent
      BY <3>1 DEF DimensionDirty, DropsDimension, Figures
    <3>3. dimensions'[bike[c]] = dimensions[bike[c]]
      BY <1>1, <2>2, Committed DEF Requested
    <3> QED BY <1>4, <3>2, <3>3 DEF Reliable
  <2> QED BY <2>1, <2>2
<1> QED BY <1>1, <1>3, <1>5, <1>6, <1>7

\* A PUT that writes the motorcycle row replaces exactly the version it loaded, and leaves
\* its own request behind in the row and the collections, whole, with a dimension block if
\* and only if it has one (RootEditsDetected of CatalogueWrites): @Version on the row
\* guards everything a PUT that dirties the row writes, though the blocks have none.
THEOREM RootEditsAreDetected == Spec => RootEditsDetected
<1> DEFINE detected ==
        \A c \in Clients :
            CommitsPart(c, "motorcycle")
                => /\ motorcycles[bike[c]] = snap[c].motorcycle
                   /\ (dimensions'[bike[c]] = Absent) = (req[c].dimension = Absent)
                   /\ additionalSpecs[bike[c]] = snap[c].extras
                   /\ motorcycles'[bike[c]].ident = req[c].ident
                   /\ additionalSpecs'[bike[c]] = req[c].extras
<1>1. Requested /\ [Next]_vars => detected
  <2> SUFFICES ASSUME Requested, [Next]_vars, NEW c \in Clients, CommitsPart(c, "motorcycle")
               PROVE  /\ motorcycles[bike[c]] = snap[c].motorcycle
                      /\ (dimensions'[bike[c]] = Absent) = (req[c].dimension = Absent)
                      /\ additionalSpecs[bike[c]] = snap[c].extras
                      /\ motorcycles'[bike[c]].ident = req[c].ident
                      /\ additionalSpecs'[bike[c]] = req[c].extras
    OBVIOUS
  <2>1. Commit(c) /\ req[c].op = "update" /\ Written(c, "motorcycle") /\ bike[c] \in BikeIds
    <3>1. "motorcycle" \in Parts
      BY DEF Parts
    <3> QED BY <3>1, EditAnswered DEF CommitsPart, Written, Requested, Shape, TypeOK
  <2> QED BY <2>1, EditCommitted
<1> QED BY <1>1, RequestedHolds, PTL DEF Spec, RootEditsDetected

\* The cascade and the version check leave no block or collection row without its
\* motorcycle (NoOrphanRows of CatalogueWrites), even when a PUT of a block alone races
\* the DELETE: the DELETE has the row's version, so it removes what is there, and the PUT
\* that comes after it finds no block to update.
THEOREM NothingOrphaned == Spec => []NoOrphanRows
<1>1. Init => NoOrphanRows
  <2> SUFFICES ASSUME Init, NEW i \in BikeIds \ Existing
               PROVE  engineSpecs[i] = Absent /\ dimensions[i] = Absent /\ additionalSpecs[i] = NoExtras
    BY DEF NoOrphanRows
  <2>1. i \notin DOMAIN Seeded
    <3> SUFFICES ASSUME i \in DOMAIN Seeded PROVE FALSE
      OBVIOUS
    <3>1. motorcycles[i] = Seeded[i].motorcycle
      BY DEF Init
    <3>2. Seeded[i].motorcycle \in MotorcycleRow
      <4>1. \A j \in DOMAIN Seeded : Seeded[j] \in SeededBike
        BY SeedAssumption, SMT
      <4>2. Seeded[i] \in SeededBike
        BY <4>1
      <4> QED BY <4>2, SMT DEF SeededBike
    <3> QED BY <3>1, <3>2, ContentAssumption DEF Existing
  <2> QED BY <2>1 DEF Init
<1>2. Requested /\ NoOrphanRows /\ [Next]_vars => NoOrphanRows'
  <2> SUFFICES ASSUME Requested, NoOrphanRows, [Next]_vars, NEW i \in BikeIds, motorcycles'[i] = Absent
               PROVE  engineSpecs'[i] = Absent /\ dimensions'[i] = Absent /\ additionalSpecs'[i] = NoExtras
    BY DEF NoOrphanRows, Existing
  <2>1. motorcycles[i] = Absent =>
            engineSpecs[i] = Absent /\ dimensions[i] = Absent /\ additionalSpecs[i] = NoExtras
    BY DEF NoOrphanRows, Existing
  <2>2. CASE \A c \in Clients : ~Commit(c)
    BY <2>1, <2>2, OnlyCommitsShow
  <2>3. ASSUME NEW c \in Clients, Commit(c)
        PROVE  engineSpecs'[i] = Absent /\ dimensions'[i] = Absent /\ additionalSpecs'[i] = NoExtras
    <3>1. CASE i # bike[c]
      BY <2>1, <2>3, <3>1, Committed DEF Requested
    <3>2. CASE i = bike[c] /\ ~Written(c, "motorcycle")
      <4>1. motorcycles[i] = Absent
        BY <2>3, <3>2, Committed DEF Requested
      <4>2. ~Written(c, "engine") /\ ~Written(c, "dimension") /\ ~Written(c, "extras")
        BY <2>1, <2>3, <3>2, <4>1, BlocksOnly DEF Requested, SameDimension
      <4> QED BY <2>1, <2>3, <4>1, <4>2, Committed DEF Requested
    <3>3. CASE i = bike[c] /\ Written(c, "motorcycle")
      <4>1. req[c].op = "delete" /\ Current(c)
        <5>1. motorcycles'[i] = writes[c].motorcycle
          BY <2>3, <3>3, RowCommitted
        <5>2. req[c].op # "create"
          <6> SUFFICES ASSUME req[c].op = "create" PROVE FALSE
            OBVIOUS
          <6> DEFINE row == [slug |-> slug[c], ident |-> req[c].ident, version |-> 0]
          <6>1. writes[c].motorcycle = row
            BY <2>3, <3>3, RowCommitted
          <6>2. row \in MotorcycleRow
            <7>1. req[c] \in Request /\ slug[c] \in Slug
              BY ContentAssumption DEF Requested, Shape, TypeOK
            <7> QED BY <7>1, SMT DEF MotorcycleRow, Request
          <6> HIDE DEF row
          <6> QED BY <5>1, <6>1, <6>2, ContentAssumption
        <5> QED BY <2>3, <3>3, <5>1, <5>2, RowCommitted
      <4>2. (\A p : ~Pending(c, p)) /\ Loaded(c) /\ RemovalProgress(c)
        BY <2>3, <4>1, AtCommit DEF Requested
      <4>3. Reliable(c)
        BY <4>2 DEF Requested, Shared
      <4>4. engineSpecs'[i] = Absent
        BY <2>3, <3>3, <4>1, <4>2, <4>3, Committed DEF Requested, RemovalProgress, Reliable, Written
      <4>5. dimensions'[i] = Absent
        BY <2>3, <3>3, <4>1, <4>2, <4>3, Committed DEF Requested, RemovalProgress, Reliable, Written
      <4>6. additionalSpecs'[i] = NoExtras
        <5>1. NoExtras # Untouched
          BY ContentAssumption
        <5> QED BY <2>3, <3>3, <4>1, <4>2, <4>3, <5>1, Committed
               DEF Requested, RemovalProgress, Reliable, Written
      <4> QED BY <4>4, <4>5, <4>6
    <3> QED BY <3>1, <3>2, <3>3
  <2> QED BY <2>2, <2>3
<1> QED BY <1>1, <1>2, RequestedHolds, PTL DEF Spec

\* What a create has lost so far: one insert per attempt gone by, and the race for the
\* slug it is about to insert if somebody has taken that since it was probed.
Lost(c) ==
    /\ pc[c] = "idle" => attempt[c] = 1
    /\ req[c].op = "create" /\ pc[c] \in {"probe", "insert"} => attempt[c] <= rivals[c] + 1
    /\ req[c].op = "create" /\ pc[c] = "insert" /\ SlugTaken(slug[c]) => attempt[c] <= rivals[c]

LEMMA LostStays ==
    ASSUME Shape, NEW d \in Clients, Lost(d), pc'[d] = pc[d], req'[d] = req[d],
           attempt'[d] = attempt[d], slug'[d] = slug[d], rivals[d] <= rivals'[d],
           rivals'[d] \in Nat,
           req[d].op = "create" /\ pc[d] = "insert" /\ SlugTaken(slug[d])' =>
               SlugTaken(slug[d]) \/ rivals[d] < rivals'[d]
    PROVE  Lost(d)'
<1>1. attempt[d] \in Nat /\ rivals[d] \in Nat
  BY SMT DEF Shape, TypeOK
<1>2. req[d].op = "create" /\ pc[d] \in {"probe", "insert"} => attempt[d] <= rivals'[d] + 1
  BY <1>1, SMT DEF Lost
<1>3. req[d].op = "create" /\ pc[d] = "insert" /\ SlugTaken(slug[d])' => attempt[d] <= rivals'[d]
  BY <1>1, SMT DEF Lost
<1> QED BY <1>2, <1>3 DEF Lost

\* A commit that takes the slug a create is about to insert is counted against it.
LEMMA RivalCounted ==
    ASSUME Requested, NEW c \in Clients, Commit(c), NEW d \in Clients \ {c}
    PROVE  /\ rivals'[d] \in Nat /\ rivals[d] <= rivals'[d]
           /\ req[d].op = "create" /\ pc[d] = "insert" /\ SlugTaken(slug[d])' =>
                  SlugTaken(slug[d]) \/ rivals[d] < rivals'[d]
<1>1. rivals[d] \in Nat
  BY DEF Requested, Shape, TypeOK
<1>2. rivals'[d] = IF pc[d] # "idle" /\ TakesSlugOf(d, c) THEN rivals[d] + 1 ELSE rivals[d]
  BY DEF Commit
<1>3. rivals'[d] \in Nat /\ rivals[d] <= rivals'[d]
  BY <1>1, <1>2, SMT
<1>4. ASSUME req[d].op = "create", pc[d] = "insert", SlugTaken(slug[d])', ~SlugTaken(slug[d])
      PROVE  rivals[d] < rivals'[d]
  <2>1. PICK i \in BikeIds : motorcycles'[i] # Absent /\ motorcycles'[i].slug = slug[d]
    <3>1. slug'[d] = slug[d]
      BY OthersKeepTheirs DEF Requested, Serve
    <3> QED BY <1>4, <3>1 DEF SlugTaken, Existing
  <2>2. motorcycles'[i] # motorcycles[i]
    BY <1>4, <2>1 DEF SlugTaken, Existing
  <2>3. i = bike[c] /\ Written(c, "motorcycle") /\ motorcycles'[i] = writes[c].motorcycle
    BY <2>1, <2>2, Committed DEF Requested
  <2>4. writes[c].motorcycle \notin {Untouched, Absent} /\ writes[c].motorcycle.slug = slug[d]
    BY <2>1, <2>3 DEF Written
  <2>5. SlugMatchesIdentity(slug[d], Base(d))
    BY <1>4, BaseType, DerivedMatches DEF Requested, LocalInv, Local, InsertProgress
  <2>6. TakesSlugOf(d, c)
    BY <1>4, <2>4, <2>5 DEF TakesSlugOf
  <2> QED BY <1>1, <1>2, <1>4, <2>6, SMT
<1> QED BY <1>3, <1>4

LEMMA StepLost == Requested /\ (\A d \in Clients : Lost(d)) /\ [Next]_vars => (\A d \in Clients : Lost(d))'
<1> SUFFICES ASSUME Requested, \A d \in Clients : Lost(d), [Next]_vars, NEW d \in Clients PROVE Lost(d)'
  OBVIOUS
<1> USE DEF Requested
<1>1. rivals[d] \in Nat /\ rivals[d] <= rivals[d] /\ attempt[d] \in {1, 2}
  BY SMT DEF Shape, TypeOK
<1>2. CASE UNCHANGED vars
  BY <1>1, <1>2, LostStays DEF vars, tables, envelope, locals, SlugTaken, Existing
<1>3. ASSUME NEW c \in Clients, Begin(c) \/ Serve(c) \/ Fail(c) PROVE Lost(d)'
  <2>1. CASE d # c
    <3>1. /\ pc'[d] = pc[d] /\ req'[d] = req[d] /\ attempt'[d] = attempt[d] /\ slug'[d] = slug[d]
      BY <1>3, <2>1, OthersKeepTheirs
    <3>2. CASE Commit(c)
      BY <2>1, <3>1, <3>2, RivalCounted, LostStays
    <3>3. CASE ~Commit(c)
      <4>1. UNCHANGED motorcycles /\ rivals'[d] = rivals[d]
        <5>1. CASE Begin(c)
          BY <2>1, <5>1 DEF Begin, tables, Shape, TypeOK
        <5>2. CASE BreakDeadlock(c) \/ Fail(c)
          BY <5>2 DEF BreakDeadlock, Fail, Refuse, tables
        <5>3. CASE Load(c) \/ Apply(c) \/ Probe(c) \/ InsertNew(c)
          BY <5>3, Zenon DEF Load, Apply, Probe, InsertNew, Refuse, tables, envelope
        <5>4. CASE UpdateMotorcycle(c) \/ UpdateEngine(c) \/ UpdateDimension(c) \/ UpdateExtras(c)
          BY <5>4 DEF UpdateMotorcycle, UpdateEngine, UpdateDimension, UpdateExtras, Refuse, Wrote,
             tables, envelope
        <5>5. CASE RemoveMotorcycle(c) \/ RemoveEngine(c) \/ RemoveDimension(c) \/ RemoveExtras(c)
          BY <5>5 DEF RemoveMotorcycle, RemoveEngine, RemoveDimension, RemoveExtras, Refuse, Wrote,
             tables, envelope
        <5> QED BY <1>3, <3>3, <5>1, <5>2, <5>3, <5>4, <5>5 DEF Serve
      <4>2. SlugTaken(slug[d])' <=> SlugTaken(slug[d])
        BY <3>1, <4>1 DEF SlugTaken, Existing
      <4> QED BY <1>1, <3>1, <4>1, <4>2, LostStays
    <3> QED BY <3>2, <3>3
  <2>2. ASSUME d = c, NEW status, Finish(d, status) PROVE Lost(d)'
    BY <2>2 DEF Finish, Lost, Shape, TypeOK
  <2>3. CASE d = c /\ Begin(d)
    <3>1. /\ attempt'[d] = 1 /\ rivals'[d] = 0 /\ pc'[d] \notin {"idle", "insert"}
      BY <2>3 DEF Begin, Lost, Shape, TypeOK
    <3> QED BY <3>1, SMT DEF Lost
  <2>4. ASSUME d = c, req'[d].op # "create", pc'[d] # "idle" PROVE Lost(d)'
    BY <2>4 DEF Lost
  <2>5. CASE d = c /\ (Load(d) \/ Apply(d))
    <3>1. \/ \E status : Finish(d, status)
          \/ req'[d].op # "create" /\ pc'[d] # "idle"
      <4>1. req[d].op # "create" /\ pc \in [Clients -> {"idle", "load", "apply", "autoflush", "probe", "insert", "flush"}]
        BY <2>5 DEF Load, Apply, Shape, PhasesConsistent, TypeOK
      <4>2. CASE Load(d)
        BY <4>1, <4>2, Zenon DEF Load, Refuse, envelope
      <4>3. CASE Apply(d)
        <5>1. req' = req
          BY <4>3, Zenon DEF Apply, envelope
        <5>2. pc'[d] # "idle"
          BY <4>1, <4>3, Zenon DEF Apply
        <5> QED BY <4>1, <5>1, <5>2
      <4> QED BY <2>5, <4>2, <4>3
    <3> QED BY <2>2, <2>4, <2>5, <3>1
  <2>6. CASE d = c /\ Probe(d)
    <3>1. CASE req[d].op = "create"
      <4>1. CASE \E status : Finish(d, status)
        BY <2>2, <2>6, <4>1
      <4>2. CASE /\ ~SlugTaken(Candidate(Base(d), suffix[d]))
                 /\ slug' = [slug EXCEPT ![d] = Candidate(Base(d), suffix[d])]
                 /\ pc' = [pc EXCEPT ![d] = "insert"]
                 /\ UNCHANGED <<tables, envelope, attempt>>
        <5>1. pc'[d] = "insert" /\ ~SlugTaken(slug'[d])
          BY <4>2 DEF Shape, TypeOK
        <5>2. pc[d] = "probe"
          BY <2>6 DEF Probe
        <5> QED BY <3>1, <4>2, <5>1, <5>2 DEF Lost, tables, envelope, SlugTaken, Existing
      <4>3. CASE UNCHANGED <<tables, envelope, pc, attempt, slug>>
        BY <1>1, <4>3, LostStays DEF tables, envelope, SlugTaken, Existing
      <4> QED BY <2>6, <3>1, <4>1, <4>2, <4>3, Zenon DEF Probe, Refuse
    <3>2. CASE req[d].op # "create"
      <4>1. pc \in [Clients -> {"idle", "load", "apply", "autoflush", "probe", "insert", "flush"}]
        BY DEF Shape, TypeOK
      <4>2. (\E status : Finish(d, status)) \/ (req'[d].op # "create" /\ pc'[d] # "idle")
        BY <2>6, <3>2, <4>1, Zenon DEF Probe, Refuse, envelope
      <4> QED BY <2>2, <2>4, <2>6, <4>2
    <3> QED BY <3>1, <3>2
  <2>7. CASE d = c /\ InsertNew(d)
    <3>1. CASE \E status : Finish(d, status)
      BY <2>2, <2>7, <3>1
    <3>2. CASE pc' = [pc EXCEPT ![d] = "flush"]
      BY <3>2 DEF Lost, Shape, TypeOK
    <3>3. CASE /\ SlugTaken(slug[d]) /\ MayRetry(d)
               /\ attempt' = [attempt EXCEPT ![d] = 2]
               /\ pc' = [pc EXCEPT ![d] = "probe"]
               /\ UNCHANGED <<tables, envelope>>
      <4>1. attempt'[d] = 2 /\ pc'[d] = "probe" /\ rivals'[d] = rivals[d]
        BY <3>3 DEF Shape, TypeOK, envelope
      <4>2. pc[d] = "insert" /\ req[d].op = "create" /\ attempt[d] = 1
        BY <2>7, <3>3 DEF InsertNew, MayRetry, Shape, PhasesConsistent
      <4>3. 1 <= rivals[d]
        BY <3>3, <4>2 DEF Lost
      <4>4. 2 <= rivals'[d] + 1
        BY <1>1, <4>1, <4>3, SMT
      <4> QED BY <4>1, <4>4 DEF Lost
    <3> QED BY <2>7, <3>1, <3>2, <3>3, Zenon DEF InsertNew, Refuse
  <2>8. CASE d = c /\ (BreakDeadlock(d) \/ Fail(d) \/ Commit(d))
    BY <2>2, <2>8 DEF BreakDeadlock, Fail, Commit, Refuse
  <2>9. CASE /\ d = c
             /\ \/ UpdateMotorcycle(d) \/ UpdateEngine(d) \/ UpdateDimension(d) \/ UpdateExtras(d)
                \/ RemoveExtras(d) \/ RemoveMotorcycle(d) \/ RemoveDimension(d) \/ RemoveEngine(d)
    <3>1. CASE \E status : Finish(d, status)
      BY <2>2, <2>9, <3>1
    <3>2. CASE \E part, value : Wrote(d, part, value)
      <4>1. req[d].op # "create" /\ pc[d] \in {"autoflush", "flush"}
        BY <2>9 DEF UpdateMotorcycle, UpdateEngine, UpdateDimension, UpdateExtras,
           RemoveMotorcycle, RemoveEngine, RemoveDimension, RemoveExtras, InFlush
      <4>2. req' = req /\ pc'[d] # "idle"
        BY <3>2, <4>1 DEF Wrote, envelope, Shape, TypeOK
      <4> QED BY <2>4, <2>9, <4>1, <4>2
    <3>3. (\E status : Finish(d, status)) \/ \E part, value : Wrote(d, part, value)
      BY <2>9 DEF UpdateMotorcycle, UpdateEngine, UpdateDimension, UpdateExtras,
         RemoveMotorcycle, RemoveEngine, RemoveDimension, RemoveExtras, Refuse
    <3> QED BY <3>1, <3>2, <3>3
  <2> QED BY <1>3, <2>1, <2>3, <2>5, <2>6, <2>7, <2>8, <2>9 DEF Serve
<1> QED BY <1>2, <1>3 DEF Next, Quiet

\* A create is refused for its slug only after it has lost to two other commits, or has
\* found every disambiguator taken (ConflictNeedsTwoRivals of CatalogueWrites): the retry
\* of create() absorbs one lost race, always.
THEOREM TwoRivalsForAConflict == Spec => ConflictNeedsTwoRivals
<1> DEFINE inv == \A d \in Clients : Lost(d)
           lost == \A c \in Clients :
                       req[c].op = "create" /\ pc[c] # "idle" /\ pc'[c] = "idle" /\ reply'[c] = "409"
                           => rivals[c] >= 2 \/ Exhausted(suffix[c])
<1>1. Init => inv
  BY SMT DEF Init, Lost
<1>2. Requested /\ inv /\ [Next]_vars => lost
  <2> SUFFICES ASSUME Requested, inv, [Next]_vars, NEW c \in Clients, req[c].op = "create",
                      pc[c] # "idle", pc'[c] = "idle", reply'[c] = "409"
               PROVE  rivals[c] >= 2 \/ Exhausted(suffix[c])
    OBVIOUS
  <2> USE DEF Requested, Shape, TypeOK
  <2>1. PICK d \in Clients : Begin(d) \/ Serve(d) \/ Fail(d)
    BY DEF Next, Quiet, vars
  <2>2. d = c
    BY <2>1, OthersKeepTheirs
  <2>3. ASSUME NEW status, Refuse(c, status) PROVE status = "409"
    BY <2>3 DEF Refuse, Finish
  <2>4. ~BreakDeadlock(c) /\ ~Fail(c)
    BY <2>3 DEF BreakDeadlock, Fail
  <2>5. ~Begin(c) /\ ~Load(c) /\ ~Apply(c)
    BY DEF Begin, Load, Apply, PhasesConsistent
  <2>6. ~Commit(c)
    <3> SUFFICES ASSUME Commit(c) PROVE FALSE
      OBVIOUS
    <3>1. Status(req[c].op) = "409"
      BY DEF Commit, Finish
    <3> QED BY <3>1 DEF Status
  <2>7. todo[c] = <<>>
    BY DEF PhasesConsistent
  <2>8. ~UpdateMotorcycle(c) /\ ~UpdateEngine(c) /\ ~UpdateDimension(c) /\ ~UpdateExtras(c)
    BY <2>7 DEF UpdateMotorcycle, UpdateEngine, UpdateDimension, UpdateExtras, InFlush
  <2>9. ~RemoveMotorcycle(c) /\ ~RemoveEngine(c) /\ ~RemoveDimension(c) /\ ~RemoveExtras(c)
    BY <2>7 DEF RemoveMotorcycle, RemoveEngine, RemoveDimension, RemoveExtras, InFlush
  <2>10. CASE Probe(c)
    BY <2>10, Zenon DEF Probe
  <2>11. CASE InsertNew(c)
    <3>1. SlugTaken(slug[c]) /\ ~MayRetry(c) /\ pc[c] = "insert"
      BY <2>11, Zenon DEF InsertNew
    <3>2. attempt[c] = 2 /\ attempt[c] <= rivals[c]
      BY <3>1 DEF MayRetry, Lost
    <3>3. rivals[c] \in Nat
      OBVIOUS
    <3> QED BY <3>2, <3>3, SMT
  <2> QED BY <2>1, <2>2, <2>4, <2>5, <2>6, <2>8, <2>9, <2>10, <2>11 DEF Serve
<1>3. Requested /\ inv /\ [Next]_vars => inv'
  BY StepLost
<1> HIDE DEF inv
<1> QED BY <1>1, <1>2, <1>3, RequestedHolds, PTL DEF Spec, ConflictNeedsTwoRivals

------------------------------------------------------------------------------
(***************************************************************************)
(* Transactions of CatalogueWrites only wait for one another in a circle   *)
(* when one of them removes what another one edits, for every number of    *)
(* clients, bikes and requests.                                            *)
(*                                                                         *)
(* A transaction only waits for one that has already written the part it   *)
(* is about to write, and each writes the parts in one order; but a PUT    *)
(* that renames writes the row twice, and its second UPDATE waits for      *)
(* whoever holds the new slug.  Renames cannot wait for one another in a   *)
(* circle: the last of them to probe found its slug in nobody's hands.     *)
(***************************************************************************)

\* A PUT that has written the row with its old slug, and has still to write it with the new.
Renaming(c) == /\ req[c].op = "update" /\ pc[c] = "flush"
               /\ Written(c, "motorcycle") /\ Pending(c, "motorcycle")

\* Among any renames under way there is one whose new slug none of the bikes has.
RenamesOrdered ==
    \A T \in SUBSET {c \in Clients : Renaming(c)} :
        T # {} => \E c \in T : \A d \in T : slug[c] # motorcycles[bike[d]].slug

------------------------------------------------------------------------------

LEMMA RenamingKnows ==
    ASSUME Requested, NEW c \in Clients, Renaming(c)
    PROVE  /\ todo[c] = <<"motorcycle">> /\ Head(todo[c]) = "motorcycle"
           /\ motorcycles[bike[c]] = snap[c].motorcycle /\ motorcycles[bike[c]] # Absent
           /\ writes[c].motorcycle.slug = snap[c].motorcycle.slug
<1>1. Editing(c) /\ Loaded(c)
  BY DEF Renaming, Editing, Loaded
<1>2. EditedMotorcycle(c)
  BY <1>1 DEF Requested, LocalInv, Local, EditProgress
<1>3. Reliable(c) /\ Current(c)
  BY <1>1 DEF Requested, Shared, Held, Renaming
<1>4. todo[c] = <<"motorcycle">>
  BY <1>2 DEF EditedMotorcycle, Renaming
<1>5. Head(todo[c]) = "motorcycle"
  BY <1>4
<1> QED BY <1>2, <1>3, <1>4, <1>5 DEF EditedMotorcycle, Renaming, Reliable, Current

\* A second UPDATE of the row becomes pending in the probe that finds its slug free.
LEMMA RenamingBegins ==
    ASSUME Requested, NEW c \in Clients, Begin(c) \/ Serve(c) \/ Fail(c), ~Renaming(c), Renaming(c)'
    PROVE  /\ motorcycles' = motorcycles
           /\ \A i \in Existing : motorcycles[i].slug # slug'[c]
<1> USE DEF Requested, Shape, TypeOK
<1>1. /\ req'[c].op = "update" /\ pc'[c] = "flush"
      /\ writes'[c].motorcycle # Untouched /\ Occurs("motorcycle", todo'[c])
  BY DEF Renaming, Written, Pending
<1>2. Moved(c)'
  <2>1. LocalInv'
    BY StepLocal DEF Next
  <2>2. Editing(c)' /\ EditedMotorcycle(c)'
    BY <1>1, <2>1 DEF LocalInv, Local, EditProgress, Editing
  <2> QED BY <2>2 DEF EditedMotorcycle, Renaming
<1>3. ASSUME NEW status, Finish(c, status) PROVE FALSE
  BY <1>1, <1>3 DEF Finish
<1>4. ASSUME NEW part \in Parts, NEW value, InFlush(c, part), Wrote(c, part, value), req[c].op = "update"
      PROVE  FALSE
  <2>1. /\ req' = req /\ pc[c] \in {"autoflush", "flush"} /\ todo[c] # <<>> /\ Head(todo[c]) = part
        /\ todo'[c] = Tail(todo[c]) /\ pc'[c] = "flush"
        /\ pc'[c] = IF pc[c] = "autoflush" /\ Len(todo[c]) = 1 THEN "probe" ELSE pc[c]
    BY <1>1, <1>4 DEF Wrote, InFlush, envelope
  <2>2. pc[c] = "flush"
    BY <2>1
  <2>3. Pending(c, "motorcycle")
    BY <1>1, <2>1, OccursHead DEF Pending
  <2>4. part = "motorcycle"
    <3> SUFFICES ASSUME part # "motorcycle" PROVE FALSE
      OBVIOUS
    <3>1. writes'[c].motorcycle = writes[c].motorcycle
      BY <1>4, SMT DEF Wrote, WritesType, Parts
    <3> QED BY <1>1, <1>4, <2>2, <2>3, <3>1 DEF Renaming, Written
  <2>5. Ascending(req[c], todo[c])
    BY <1>4, <2>2 DEF LocalInv, Local, Editing, EditProgress, InOrder
  <2>6. Occurs("motorcycle", Tail(todo[c])) /\ todo[c] \in Seq(Parts)
    BY <1>1, <2>1
  <2>7. Rank(req[c], "motorcycle") < Rank(req[c], "motorcycle")
    BY <2>1, <2>4, <2>5, <2>6, AscendingTail
  <2>8. Rank(req[c], "motorcycle") = 3
    BY <1>4 DEF Rank
  <2> QED BY <2>7, <2>8
<1>5. ~Begin(c) /\ ~Load(c) /\ ~Apply(c) /\ ~InsertNew(c)
  <2>1. ~Begin(c)
    BY <1>1 DEF Begin
  <2>2. ~Load(c)
    <3> SUFFICES ASSUME Load(c) PROVE FALSE
      OBVIOUS
    <3>1. /\ req' = req
          /\ pc' = [pc EXCEPT ![c] = IF req[c].op = "delete" THEN "flush" ELSE "apply"]
      BY <1>3, Zenon DEF Load, Refuse, envelope
    <3> QED BY <1>1, <3>1
  <2>3. ~Apply(c)
    <3> SUFFICES ASSUME Apply(c) PROVE FALSE
      OBVIOUS
    <3>1. pc[c] = "apply" /\ writes' = writes
      BY DEF Apply
    <3>2. writes[c] = NoWrites
      BY <3>1 DEF PhasesConsistent
    <3>3. writes[c].motorcycle = Untouched
      BY <3>2 DEF NoWrites
    <3> QED BY <1>1, <3>1, <3>3
  <2>4. ~InsertNew(c)
    <3> SUFFICES ASSUME InsertNew(c) PROVE FALSE
      OBVIOUS
    <3>1. req[c].op = "create"
      BY DEF InsertNew, PhasesConsistent
    <3>2. req' = req
      BY Zenon DEF InsertNew, Refuse, Finish, envelope
    <3> QED BY <1>1, <3>1, <3>2
  <2> QED BY <2>1, <2>2, <2>3, <2>4
<1>6. ~UpdateMotorcycle(c) /\ ~UpdateEngine(c) /\ ~UpdateDimension(c) /\ ~UpdateExtras(c)
  BY <1>3, <1>4 DEF UpdateMotorcycle, UpdateEngine, UpdateDimension, UpdateExtras, Refuse, Parts
<1>7. ~RemoveMotorcycle(c) /\ ~RemoveEngine(c) /\ ~RemoveDimension(c) /\ ~RemoveExtras(c)
  <2>1. ASSUME NEW part, NEW value, Wrote(c, part, value), req[c].op = "delete" PROVE FALSE
    BY <1>1, <2>1 DEF Wrote, envelope
  <2> QED BY <1>3, <2>1 DEF RemoveMotorcycle, RemoveEngine, RemoveDimension, RemoveExtras, Refuse
<1>8. ~Commit(c) /\ ~BreakDeadlock(c) /\ ~Fail(c)
  BY <1>3 DEF Commit, BreakDeadlock, Fail, Refuse
<1>9. Probe(c)
  BY <1>5, <1>6, <1>7, <1>8 DEF Serve
<1>10. /\ UNCHANGED <<tables, envelope, snap>>
       /\ LET candidate == Candidate(Base(c), suffix[c])
          IN  /\ slug'[c] = candidate
              /\ candidate = snap[c].motorcycle.slug \/ ~SlugTaken(candidate)
  <2>1. pc[c] = "probe"
    BY <1>9 DEF Probe
  <2> QED BY <1>1, <1>3, <1>9, <2>1, Zenon DEF Probe, Refuse, envelope
<1>11. slug'[c] # snap[c].motorcycle.slug
  BY <1>2, <1>10 DEF Moved
<1> QED BY <1>10, <1>11 DEF SlugTaken, tables

\* While it lasts, the bikes it compares with keep their slugs.
LEMMA RenamingStays ==
    ASSUME Requested, [Next]_vars, NEW d \in Clients, Renaming(d), Renaming(d)'
    PROVE  slug'[d] = slug[d] /\ bike'[d] = bike[d] /\ motorcycles'[bike[d]] = motorcycles[bike[d]]
<1> USE DEF Requested, Shape, TypeOK
<1>1. CASE UNCHANGED vars
  BY <1>1 DEF vars, tables, locals
<1>2. ASSUME NEW c \in Clients, Begin(c) \/ Serve(c) \/ Fail(c)
      PROVE  slug'[d] = slug[d] /\ bike'[d] = bike[d] /\ motorcycles'[bike[d]] = motorcycles[bike[d]]
  <2>1. c # d
    <3> SUFFICES ASSUME c = d PROVE FALSE
      OBVIOUS
    <3>1. /\ req[c].op = "update" /\ pc[c] = "flush" /\ todo[c] = <<"motorcycle">>
          /\ Head(todo[c]) = "motorcycle"
      BY RenamingKnows DEF Renaming
    <3>2. pc'[c] = "flush" /\ Occurs("motorcycle", todo'[c])
      BY DEF Renaming, Pending
    <3>3. ASSUME NEW status, Finish(c, status) PROVE FALSE
      BY <3>2, <3>3 DEF Finish
    <3>4. ASSUME NEW part, NEW value, Wrote(c, part, value) PROVE FALSE
      <4>1. todo'[c] = Tail(todo[c])
        BY <3>4 DEF Wrote
      <4>2. Tail(todo[c]) = <<>>
        BY <3>1
      <4> QED BY <3>2, <4>1, <4>2, OccursNowhere
    <3>5. ~Begin(c) /\ ~Load(c) /\ ~Apply(c) /\ ~Probe(c) /\ ~InsertNew(c)
      BY <3>1 DEF Begin, Load, Apply, Probe, InsertNew
    <3>6. ~Commit(c) /\ ~BreakDeadlock(c) /\ ~Fail(c)
      BY <3>3 DEF Commit, BreakDeadlock, Fail, Refuse
    <3>7. ~UpdateMotorcycle(c) /\ ~UpdateEngine(c) /\ ~UpdateDimension(c) /\ ~UpdateExtras(c)
      BY <3>3, <3>4 DEF UpdateMotorcycle, UpdateEngine, UpdateDimension, UpdateExtras, Refuse
    <3>8. ~RemoveMotorcycle(c) /\ ~RemoveEngine(c) /\ ~RemoveDimension(c) /\ ~RemoveExtras(c)
      BY <3>1 DEF RemoveMotorcycle, RemoveEngine, RemoveDimension, RemoveExtras
    <3> QED BY <1>2, <3>5, <3>6, <3>7, <3>8 DEF Serve
  <2>2. slug'[d] = slug[d] /\ bike'[d] = bike[d]
    BY <1>2, <2>1, OthersKeepTheirs
  <2>3. motorcycles'[bike[d]] = motorcycles[bike[d]]
    <3> SUFFICES ASSUME motorcycles'[bike[d]] # motorcycles[bike[d]] PROVE FALSE
      OBVIOUS
    <3>1. PICK e \in Clients : Commit(e) /\ Written(e, "motorcycle") /\ bike[d] = bike[e]
      BY RowChange
    <3>2. e # d
      <4>1. Occurs("motorcycle", todo[d]) /\ todo[e] = <<>>
        BY <3>1 DEF Commit, Renaming, Pending
      <4> QED BY <4>1, OccursNowhere
    <3> QED BY <3>1, <3>2 DEF Exclusive, PendingSlugsExclusive, Written, Renaming
  <2> QED BY <2>2, <2>3
<1> QED BY <1>1, <1>2 DEF Next, Quiet

LEMMA StepRenamesOrdered == Requested /\ RenamesOrdered /\ [Next]_vars => RenamesOrdered'
<1> SUFFICES ASSUME Requested, RenamesOrdered, [Next]_vars,
                    NEW T \in SUBSET {c \in Clients : Renaming(c)'}, T # {}
             PROVE  \E c \in T : \A d \in T : slug'[c] # motorcycles'[bike'[d]].slug
  BY DEF RenamesOrdered
<1>1. CASE \A c \in T : Renaming(c)
  <2>1. PICK c \in T : \A d \in T : slug[c] # motorcycles[bike[d]].slug
    BY <1>1 DEF RenamesOrdered
  <2> QED BY <1>1, <2>1, RenamingStays
<1>2. ASSUME NEW c \in T, ~Renaming(c)
      PROVE  \E b \in T : \A d \in T : slug'[b] # motorcycles'[bike'[d]].slug
  <2>1. Renaming(c)' /\ c \in Clients
    OBVIOUS
  <2>2. Begin(c) \/ Serve(c) \/ Fail(c)
    <3>1. CASE UNCHANGED vars
      BY <1>2, <2>1, <3>1 DEF vars, envelope, Renaming, Written, Pending
    <3>2. ASSUME NEW d \in Clients \ {c}, Begin(d) \/ Serve(d) \/ Fail(d) PROVE FALSE
      BY <1>2, <2>1, <3>2, OthersKeepTheirs DEF Renaming, Written, Pending, Requested
    <3> QED BY <2>1, <3>1, <3>2 DEF Next, Quiet
  <2>3. /\ motorcycles' = motorcycles
        /\ \A i \in Existing : motorcycles[i].slug # slug'[c]
    BY <1>2, <2>1, <2>2, RenamingBegins
  <2>4. ASSUME NEW d \in T PROVE motorcycles'[bike'[d]] # Absent /\ bike'[d] \in BikeIds
    <3>1. Requested'
      BY StepShape, StepExclusive, StepLocal, StepShared DEF Requested
    <3>2. Renaming(d)' /\ d \in Clients
      OBVIOUS
    <3>3. (motorcycles[bike[d]] # Absent)'
      <4>1. (Loaded(d) /\ Written(d, "motorcycle"))'
        BY <3>2 DEF Loaded, Renaming
      <4>2. Current(d)'
        BY <3>1, <3>2, <4>1 DEF Requested, Shared, Held
      <4> QED BY <4>2 DEF Current
    <3> QED BY <3>1, <3>2, <3>3 DEF Requested, Shape, TypeOK
  <2>5. \A d \in T : slug'[c] # motorcycles'[bike'[d]].slug
    BY <2>3, <2>4 DEF Existing
  <2> QED BY <2>5
<1> QED BY <1>1, <1>2

------------------------------------------------------------------------------
(* Who waits for whom *)

Removes(c) ==
    \/ req[c].op = "delete"
    \/ req[c].op = "update" /\ DropsDimension(req[c], snap[c])

\* A transaction that waits is sending a statement, for a part its target has written.
LEMMA Waiting ==
    ASSUME Requested, NEW c \in Clients, NEW d \in Clients, d \in WaitsFor(c), WaitsFor(d) # {}
    PROVE  /\ c # d /\ req[d].op \in {"update", "delete"}
           /\ pc[d] \in {"autoflush", "flush"} /\ todo[d] # <<>>
           /\ req[c].op # "create" =>
                  /\ pc[c] \in {"autoflush", "flush"} /\ todo[c] # <<>>
                  /\ Head(todo[c]) \in Parts
                  /\ Written(d, Head(todo[c]))
                  /\ bike[d] # bike[c] =>
                         /\ req[c].op = "update" /\ Head(todo[c]) = "motorcycle"
                         /\ d \in KeyHolders(c, slug[c])
<1> USE DEF Requested, Shape, TypeOK, Written
<1>1. d # c
  BY DEF WaitsFor, RowHolders, DimensionHolders, KeyHolders
<1>2. \E part \in Parts : writes[d][part] # Untouched
  BY DEF WaitsFor, RowHolders, DimensionHolders, KeyHolders, Parts
<1>3. writes[d] # NoWrites
  BY <1>2 DEF NoWrites, Parts
<1>4. \/ pc[d] = "insert"
      \/ pc[d] \in {"autoflush", "flush"} /\ todo[d] # <<>>
  BY DEF WaitsFor, InFlush
<1>5. pc[d] \in {"autoflush", "flush"} /\ todo[d] # <<>>
  BY <1>3, <1>4 DEF PhasesConsistent
<1>6. req[d].op \in {"update", "delete"}
  <2>1. req[d].op \in {"create", "update", "delete"}
    BY ContentAssumption, SMT DEF Request
  <2> QED BY <1>5, <2>1 DEF PhasesConsistent
<1>7. ASSUME req[c].op # "create"
      PROVE  /\ pc[c] \in {"autoflush", "flush"} /\ todo[c] # <<>>
             /\ Head(todo[c]) \in Parts
             /\ Written(d, Head(todo[c]))
             /\ bike[d] # bike[c] =>
                    /\ req[c].op = "update" /\ Head(todo[c]) = "motorcycle"
                    /\ d \in KeyHolders(c, slug[c])
  <2>1. pc[c] # "insert"
    BY <1>7 DEF PhasesConsistent
  <2>2. CASE InFlush(c, "motorcycle")
    <3>1. d \in RowHolders(c, "motorcycle") \cup
              IF req[c].op = "update" THEN KeyHolders(c, slug[c]) ELSE {}
      <4>1. ~InFlush(c, "engine") /\ ~InFlush(c, "dimension") /\ ~InFlush(c, "extras")
        BY <2>2 DEF InFlush
      <4> QED BY <2>1, <2>2, <4>1, Zenon DEF WaitsFor
    <3> QED BY <2>2, <3>1 DEF InFlush, RowHolders, KeyHolders, Parts
  <2>3. CASE ~InFlush(c, "motorcycle")
    <3>1. PICK part \in {"engine", "dimension", "extras"} :
              InFlush(c, part) /\ d \in RowHolders(c, part)
      <4>1. \/ InFlush(c, "engine") /\ d \in RowHolders(c, "engine")
            \/ InFlush(c, "dimension") /\ d \in DimensionHolders(c)
            \/ InFlush(c, "extras") /\ d \in RowHolders(c, "extras")
        BY <2>1, <2>3, Zenon DEF WaitsFor
      <4> QED BY <4>1 DEF DimensionHolders
    <3> QED BY <3>1 DEF InFlush, RowHolders, Parts
  <2> QED BY <2>2, <2>3
<1> QED BY <1>1, <1>5, <1>6, <1>7

\* The part a transaction is sending, and its place in the order.
Part(c) == Head(todo[c])
Place(c) == Rank(req[c], Part(c))

LEMMA PartPending ==
    ASSUME Requested, NEW c \in Clients, todo[c] # <<>>
    PROVE  Part(c) \in Parts /\ Pending(c, Part(c))
<1>1. todo[c] \in Seq(Parts)
  BY DEF Requested, Shape, TypeOK
<1>2. Head(todo[c]) \in Parts
  BY <1>1, SMT
<1> QED BY <1>1, <1>2, OccursHead DEF Part, Pending

\* DELETEs send in one order what they remove.
LEMMA RemovalsInOrder ==
    ASSUME Requested, NEW c \in Clients, NEW d \in Clients, d \in WaitsFor(c), WaitsFor(d) # {},
           req[c].op = "delete", req[d].op = "delete"
    PROVE  Place(c) \in 1..4 /\ Place(c) < Place(d)
<1>1. /\ pc[d] \in {"autoflush", "flush"} /\ todo[d] # <<>> /\ todo[c] # <<>>
      /\ Written(d, Part(c))
  BY Waiting DEF Part
<1>2. Part(c) \in Parts /\ Part(d) \in Parts /\ Pending(d, Part(d))
  BY <1>1, PartPending
<1>3. RemovalProgress(d)
  BY <1>1 DEF Requested, LocalInv, Local
<1>4. Rank(req[d], Part(c)) < Rank(req[d], Part(d))
  BY <1>1, <1>2, <1>3 DEF RemovalProgress, InOrder
<1>5. Rank(req[d], Part(c)) = Rank(req[c], Part(c))
  BY DEF Rank
<1>6. Rank(req[c], Part(c)) \in 1..4
  BY DEF Rank
<1> QED BY <1>4, <1>5, <1>6 DEF Place

\* A PUT in a flush: it writes the row before the collections.
LEMMA RowBeforeExtras ==
    ASSUME Requested, NEW c \in Clients, req[c].op = "update", pc[c] \in {"autoflush", "flush"},
           todo[c] # <<>>, Part(c) = "extras" \/ Written(c, "extras")
    PROVE  Written(c, "motorcycle")
<1>1. EditProgress(c) /\ ~Unflushed(c)
  BY DEF Requested, LocalInv, Local, Editing, Unflushed
<1>2. Part(c) \in Parts /\ Pending(c, Part(c)) /\ todo[c] \in Seq(Parts)
  BY PartPending DEF Requested, Shape, TypeOK
<1>3. ExtrasDirty(req[c], snap[c])
  BY <1>1, <1>2 DEF EditProgress, EditedExtras
<1>4. Dirty(c)
  BY <1>3 DEF ExtrasDirty, Dirty, RootDirty
<1>5. Pending(c, "motorcycle") \/ Written(c, "motorcycle")
  BY <1>1, <1>4 DEF EditProgress, EditedMotorcycle
<1>6. Rank(req[c], "extras") = 4 /\ Rank(req[c], "motorcycle") = 3
  BY DEF Rank
<1>7. ASSUME Pending(c, "motorcycle"), Part(c) = "extras" PROVE FALSE
  <2>1. Occurs("motorcycle", Tail(todo[c]))
    BY <1>2, <1>7, OccursHead DEF Pending, Part
  <2>2. Rank(req[c], "extras") < Rank(req[c], "motorcycle")
    BY <1>1, <1>2, <1>7, <2>1, AscendingTail DEF EditProgress, InOrder, Part
  <2> QED BY <1>6, <2>2
<1>8. ASSUME Pending(c, "motorcycle"), Written(c, "extras") PROVE Written(c, "motorcycle")
  <2>1. Rank(req[c], "extras") < Rank(req[c], "motorcycle") \/ Written(c, "motorcycle")
    BY <1>1, <1>8 DEF EditProgress, InOrder, Parts
  <2> QED BY <1>6, <2>1
<1> QED BY <1>5, <1>7, <1>8

\* PUTs that drop no dimension block send in one order what they edit, but for the second
\* UPDATE of a renaming.
LEMMA EditsInOrder ==
    ASSUME Requested, NEW c \in Clients, NEW d \in Clients, d \in WaitsFor(c), WaitsFor(d) # {},
           req[c].op = "update", req[d].op = "update",
           Removes(c) => Part(c) = "motorcycle",
           Removes(d) => Part(d) = "motorcycle",
           Removes(d) => bike[c] # bike[d]
    PROVE  /\ Place(c) \in 1..3
           /\ Part(c) = "motorcycle" => Place(c) = 3
           /\ Renaming(d) \/ Place(c) < Place(d)
<1>1. /\ pc[d] \in {"autoflush", "flush"} /\ todo[d] # <<>>
      /\ pc[c] \in {"autoflush", "flush"} /\ todo[c] # <<>>
      /\ Written(d, Part(c))
      /\ bike[d] # bike[c] => Part(c) = "motorcycle"
  BY Waiting DEF Part
<1>2. Part(c) \in Parts /\ Pending(c, Part(c)) /\ Part(d) \in Parts /\ Pending(d, Part(d))
  BY <1>1, PartPending
<1>3. EditProgress(c) /\ EditProgress(d)
  BY <1>1 DEF Requested, LocalInv, Local, Editing
<1>4. Part(c) # "extras"
  <2> SUFFICES ASSUME Part(c) = "extras" PROVE FALSE
    OBVIOUS
  <2>1. Written(c, "motorcycle") /\ Written(d, "motorcycle") /\ bike[c] = bike[d]
    BY <1>1, RowBeforeExtras
  <2>2. c # d
    BY Waiting
  <2> QED BY <2>1, <2>2 DEF Requested, Exclusive, PendingSlugsExclusive, Written
<1>5. Part(c) = "dimension" => req[c].dimension # Absent
  BY <1>2, <1>3 DEF EditProgress, EditedDimension, DimensionChanges, DimensionDirty, Removes
<1>6. Part(c) = "dimension" => req[d].dimension # Absent
  <2> SUFFICES ASSUME Part(c) = "dimension" PROVE req[d].dimension # Absent
    OBVIOUS
  <2>1. bike[c] = bike[d] /\ Written(d, "dimension")
    BY <1>1
  <2> QED BY <1>3, <2>1 DEF EditProgress, EditedDimension, DimensionChanges, DimensionDirty, Removes
<1>7. Place(c) \in 1..3 /\ (Part(c) = "motorcycle" => Place(c) = 3)
  BY <1>2, <1>4, <1>5 DEF Place, Rank, Parts
<1>8. Rank(req[d], Part(c)) = Place(c)
  BY <1>2, <1>4, <1>5, <1>6 DEF Place, Rank, Parts
<1>9. \/ Rank(req[d], Part(c)) < Place(d)
      \/ Part(d) = "motorcycle" /\ Written(d, "motorcycle")
  BY <1>1, <1>2, <1>3 DEF EditProgress, InOrder, Place
<1>10. Part(d) = "motorcycle" /\ Written(d, "motorcycle") => Renaming(d)
  BY <1>2, <1>3 DEF EditProgress, EditedMotorcycle, Renaming
<1> QED BY <1>7, <1>8, <1>9, <1>10

\* Of two renamings, one waits for the other because that one's bike has its new slug.
LEMMA RenamingWaits ==
    ASSUME Requested, NEW c \in Clients, NEW d \in Clients, d \in WaitsFor(c), WaitsFor(d) # {},
           Renaming(c), Renaming(d)
    PROVE  slug[c] = motorcycles[bike[d]].slug
<1>1. c # d /\ Part(c) = "motorcycle"
  BY Waiting, RenamingKnows DEF Part
<1>2. bike[c] # bike[d]
  BY <1>1 DEF Requested, Exclusive, PendingSlugsExclusive, Renaming, Written
<1>3. d \in KeyHolders(c, slug[c])
  BY <1>2, Waiting DEF Renaming
<1>4. motorcycles[bike[d]].slug = writes[d].motorcycle.slug
  BY RenamingKnows
<1> QED BY <1>3, <1>4 DEF KeyHolders

------------------------------------------------------------------------------

LEMMA CirclesRemove ==
    ASSUME Requested, RenamesOrdered, NEW S \in SUBSET Clients, Deadlock(S)
    PROVE  \E c, d \in S : Removes(c) /\ req[d].op = "update" /\ bike[c] = bike[d] /\ c # d
<1> SUFFICES ASSUME \A c, d \in S : c # d /\ bike[c] = bike[d] /\ req[d].op = "update" => ~Removes(c)
             PROVE  FALSE
  OBVIOUS
<1>1. S # {} /\ \A c \in S : WaitsFor(c) # {}
  BY DEF Deadlock
<1>2. \A c \in S : \E d \in S : d \in WaitsFor(c)
  BY DEF Deadlock
<1>3. \A c \in S : \E d \in S : c \in WaitsFor(d)
  BY DEF Deadlock
<1>4. \A c \in S : /\ req[c].op \in {"update", "delete"}
                   /\ pc[c] \in {"autoflush", "flush"} /\ todo[c] # <<>>
  BY <1>1, <1>3, Waiting
\* No circle of removals.
<1>5. ASSUME NEW c \in S, req[c].op = "delete"
      PROVE  \E d \in S : /\ req[d].op = "delete"
                          /\ Place(c) \in 1..4 /\ Place(d) \in Nat /\ Place(c) < Place(d)
  <2>1. PICK d \in S : d \in WaitsFor(c)
    BY <1>2
  <2>2. c # d /\ bike[c] = bike[d]
    BY <1>1, <1>5, <2>1, Waiting
  <2>3. req[d].op = "delete"
    BY <1>4, <1>5, <2>2 DEF Removes
  <2>4. Place(d) \in Nat
    BY <2>3, SMT DEF Place, Rank
  <2> QED BY <1>1, <1>5, <2>1, <2>3, <2>4, RemovalsInOrder
<1>6. \A c \in S : req[c].op = "update"
  <2> SUFFICES ASSUME NEW c \in S, req[c].op = "delete" PROVE FALSE
    BY <1>4
  <2>1. PICK c2 \in S : req[c2].op = "delete" /\ Place(c) \in 1..4 /\ Place(c2) \in Nat /\ Place(c) < Place(c2)
    BY <1>5
  <2>2. PICK c3 \in S : req[c3].op = "delete" /\ Place(c3) \in Nat /\ Place(c2) < Place(c3)
    BY <1>5, <2>1
  <2>3. PICK c4 \in S : req[c4].op = "delete" /\ Place(c4) \in Nat /\ Place(c3) < Place(c4)
    BY <1>5, <2>2
  <2>4. Place(c4) \in 1..4 /\ \E d \in S : req[d].op = "delete" /\ Place(d) \in Nat /\ Place(c4) < Place(d)
    BY <1>5, <2>3
  <2>5. PICK c5 \in S : req[c5].op = "delete" /\ Place(c5) \in Nat /\ Place(c4) < Place(c5)
    BY <2>4
  <2>6. Place(c5) \in 1..4
    BY <1>5, <2>5
  <2> QED BY <2>1, <2>2, <2>3, <2>4, <2>5, <2>6, SMT
\* A PUT that drops its block waits for renames, and is waited for by renames.
<1>7. ASSUME NEW c \in S, NEW d \in S, d \in WaitsFor(c), bike[c] = bike[d]
      PROVE  ~Removes(c) /\ ~Removes(d)
  <2>1. c # d
    BY <1>1, <1>7, Waiting
  <2> QED BY <1>6, <1>7, <2>1
<1>8. \A c \in S : Removes(c) => Part(c) = "motorcycle"
  BY <1>1, <1>2, <1>6, <1>7, Waiting DEF Part
<1>9. ASSUME NEW c \in S, NEW d \in S, d \in WaitsFor(c)
      PROVE  /\ Place(c) \in 1..3
             /\ Part(c) = "motorcycle" => Place(c) = 3
             /\ Renaming(d) \/ Place(c) < Place(d)
  BY <1>1, <1>6, <1>7, <1>8, <1>9, EditsInOrder
<1>10. \A c \in S : Place(c) \in 1..3
  BY <1>2, <1>9
\* So there is a renaming, and each one waits for another.
<1>11. \E c \in S : Renaming(c)
  <2> SUFFICES ASSUME \A c \in S : ~Renaming(c) PROVE FALSE
    OBVIOUS
  <2>1. \A c \in S : \E d \in S : Place(c) < Place(d)
    BY <1>2, <1>9
  <2>2. PICK c1 \in S : TRUE
    BY <1>1
  <2>3. PICK c2 \in S : Place(c1) < Place(c2)
    BY <2>1
  <2>4. PICK c3 \in S : Place(c2) < Place(c3)
    BY <2>1
  <2>5. PICK c4 \in S : Place(c3) < Place(c4)
    BY <2>1
  <2> QED BY <1>10, <2>3, <2>4, <2>5, SMT
<1>12. \A c \in S : Renaming(c) => \E d \in S : Renaming(d) /\ slug[c] = motorcycles[bike[d]].slug
  <2> SUFFICES ASSUME NEW c \in S, Renaming(c)
               PROVE  \E d \in S : Renaming(d) /\ slug[c] = motorcycles[bike[d]].slug
    OBVIOUS
  <2>1. PICK d \in S : d \in WaitsFor(c)
    BY <1>2
  <2>2. Place(c) = 3
    BY <1>9, <2>1, RenamingKnows DEF Part
  <2>3. Place(d) \in 1..3
    BY <1>10
  <2>4. Renaming(d)
    BY <1>9, <2>1, <2>2, <2>3, SMT
  <2> QED BY <1>1, <2>1, <2>4, RenamingWaits
<1> DEFINE T == {c \in S : Renaming(c)}
<1>13. T \in SUBSET {c \in Clients : Renaming(c)} /\ T # {}
  BY <1>11
<1>14. PICK c \in T : \A d \in T : slug[c] # motorcycles[bike[d]].slug
  <2> HIDE DEF T
  <2> QED BY <1>13 DEF RenamesOrdered
<1> QED BY <1>12, <1>14

\* Requests that all wait for one another, each waited for by one of them, are never only
\* creates, renames and edits: one of them is a DELETE of a bike that another one edits, or
\* a PUT that drops the dimension block of one (DeadlockNeedsRemoval of CatalogueWrites).
\* So order_updates, which sorts the statements of a PUT, prevents every other deadlock,
\* whatever the number of requests and bikes.
THEOREM DeadlocksNeedRemovals == Spec => []DeadlockNeedsRemoval
<1>1. Init => RenamesOrdered
  BY DEF Init, RenamesOrdered, Renaming
<1>2. Requested /\ RenamesOrdered /\ [Next]_vars => RenamesOrdered'
  BY StepRenamesOrdered
<1>3. Requested /\ RenamesOrdered => DeadlockNeedsRemoval
  <2> SUFFICES ASSUME Requested, RenamesOrdered, NEW S \in SUBSET Clients, Deadlock(S)
               PROVE  \E c, d \in S :
                          /\ req[c].op = "update" => DropsDimension(req[c], snap[c])
                          /\ req[c].op # "create"
                          /\ req[d].op = "update"
                          /\ bike[c] = bike[d] /\ c # d
    BY DEF DeadlockNeedsRemoval
  <2> QED BY CirclesRemove DEF Removes
<1> QED BY <1>1, <1>2, <1>3, RequestedHolds, PTL DEF Spec

================================================================================
