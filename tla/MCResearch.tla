------------------------------ MODULE MCResearch ------------------------------
(***************************************************************************)
(* Small instances of Research for TLC: two bikes of one brand and one of  *)
(* another, of which one has been renamed since the worklist; batches that *)
(* are sound, that overlap, and that carry one flaw each.                  *)
(***************************************************************************)
EXTENDS Research

CONSTANTS cb500, cb650, z900, odd, long

SlugBrand == [s \in {cb500, cb650, z900, odd, long} |-> IF s = z900 THEN "kawasaki" ELSE "honda"]

Entry(slug, values, source) == [slug |-> slug, values |-> values, source |-> source]
Pair(front, rear) == [front |-> front, rear |-> rear]
Sized(slug) == Entry(slug, Pair("size", "size"), "reprint")

\* Brakes, tyres and suspension: sound ones first.
Pairs ==
    {<<Sized(cb500)>>, <<Sized(cb650), Sized(z900)>>,
     <<Entry(cb650, Pair("figure", "wide"), "owner")>>,
     <<Entry(cb500, Pair("long", "blank"), "reprint")>>,
     <<Sized(cb650), Entry(cb650, Pair("figure", "prose"), "reprint")>>,
     <<Entry(long, Pair("size", NULL), "reprint")>>,
     <<Entry(cb650, Pair(NULL, NULL), "owner"), Entry(odd, Pair("size", NULL), NULL)>>}

\* Single columns.
One(c, slug, v, source) == Entry(slug, [x \in {c} |-> v], source)
Singles(c) ==
    {<<One(c, cb500, "figure", "owner")>>,
     <<One(c, cb650, "figure", "reprint"), One(c, z900, "figure", "owner")>>,
     <<One(c, cb650, "long", "owner")>>,
     <<One(c, z900, NULL, "owner"), One(c, cb650, "blank", "classified")>>,
     <<One(c, z900, "huge", "owner"), One(c, odd, "zero", NULL)>>}

Fields(slug, fields) == Entry(slug, [c \in KeyFields |-> IF c \in fields THEN "figure" ELSE NULL], "owner")
Engines ==
    {<<Fields(cb500, KeyFields)>>,
     <<Fields(cb650, {"displacement_cc", "cylinders", "max_power_hp"})>>,
     <<Fields(cb650, KeyFields \ {"displacement_cc"}), Fields(z900, {"displacement_cc"})>>,
     <<Fields(cb500, KeyFields \ {"displacement_cc"})>>,
     <<Entry(z900, [c \in KeyFields |-> IF c = "max_power_hp" THEN "zero" ELSE "huge"], "owner")>>}

Passes ==
    [t \in Tools |->
        CASE t \in {"brakes", "tyres", "suspension"} -> Pairs
          [] t = "engine" -> Engines
          [] OTHER -> Singles(t)]
==============================================================================
