---------------------------- MODULE MCSeedPipeline ----------------------------
(***************************************************************************)
(* Small instances of SeedPipeline for TLC: one script of each kind in the *)
(* order of their descriptions, over a bike of the dev seed, one of the    *)
(* FIPE seed and one that only 1000ps has.                                 *)
(***************************************************************************)
EXTENDS SeedPipeline, TLC

CONSTANTS demo, street, euro, ninja, bonneville, quad, a, b

Fig(spec, kerb, dry, bore, cc) ==
    [spec |-> spec, kerb |-> kerb, dry |-> dry, bore |-> bore, cc |-> cc]
None == Fig(NULL, NULL, NULL, NULL, NULL)
Rows(d, s, e) == [n \in Names |-> CASE n = demo -> d [] n = street -> s [] OTHER -> e]

Dev(spec) == Rows(Fig(spec, 2, NULL, NULL, 2), Missing, Missing)
Fipe == Rows(Missing, Fig(NULL, NULL, NULL, NULL, 1), Missing)
\* A dry weight alone; the second edition speaks of the demo bike too.
Brand == Rows(Missing, Fig(a, NULL, 2, 1, NULL), Missing)
Brand2 == Rows(Fig(b, NULL, 1, NULL, NULL), Fig(b, NULL, 2, 1, NULL), Missing)
\* A bore that the demo bike's displacement contradicts, and one the brand publishes too.
Gapfill == Rows(Fig(b, NULL, 1, 1, NULL), Fig(b, NULL, NULL, 1, NULL), Fig(b, 1, NULL, 1, 1))
Gapfill2 == Rows(Fig(b, NULL, 1, 2, NULL), Fig(b, NULL, 1, 1, 1), Missing)
\* A kerb weight below the brand's dry weight.
Europe == Rows(Fig(b, 1, 1, 1, 1), Fig(b, 1, 1, 2, 2), Fig(NULL, 2, 1, 1, 1))
Europe2 == Rows(Missing, Fig(a, 2, 1, 1, 1), Fig(a, 2, 2, 1, 1))
Patch == Rows(Missing, Fig(a, NULL, NULL, NULL, NULL), Fig(a, NULL, NULL, NULL, NULL))
Blank == Rows(Missing, Missing, Missing)

Script(kind, editions) == [kind |-> kind, editions |-> editions]
Order(dev, brand, gapfill, countries, europe, patch) ==
    <<Script("dev", dev), Script("fipe", <<Fipe>>), Script("brand", brand),
      Script("gapfill", gapfill), Script("countries", countries),
      Script("1000ps", europe), Script("patch", patch)>>

\* Edited figures of the imports, with the two scripts that must not be edited as they are.
ImportEdits ==
    Order(<<Dev(a)>>, <<Brand, Brand2>>, <<Gapfill, Gapfill2>>, <<Blank>>, <<Europe, Europe2>>,
          <<Patch>>)
\* The brand's edition alone decides whether two weights stop a boot.
WeightEdits ==
    Order(<<Dev(a)>>, <<Brand, Brand2>>, <<Gapfill>>, <<Blank>>, <<Europe, Europe2>>, <<Patch>>)

\* A light bike, an engine without a displacement, a bike cleared of everything.
Put(figures, brazil) == [figures |-> figures, brazil |-> brazil]
AdminBodies ==
    {Put(Fig(b, 1, NULL, NULL, NULL), TRUE), Put(Fig(a, NULL, 2, 2, NULL), FALSE),
     Put(Fig(NULL, NULL, 1, 2, 1), TRUE), Put(None, FALSE)}

\* The scripts that look at engines.  Displacements and what a bore sweeps lie 3, 10 or
\* 36 % apart, which are three different things to them.
Engines(n, t, q) == [m \in Names |-> CASE m = ninja -> n [] m = bonneville -> t [] OTHER -> q]
Engine(spec, bore, cc) == Fig(spec, NULL, NULL, bore, cc)
EngineEdits ==
    <<Script("fipe", <<Engines(None, None, Missing)>>),
      Script("displacement", <<Engines(Missing, Engine(NULL, NULL, 100), Missing)>>),
      \* A bore rounded to whole millimetres, 3 % off, and a dry weight 1000ps contradicts.
      Script("brand", <<Engines(Fig(a, NULL, 2, 103, 100), Missing, Missing)>>),
      Script("research", <<Engines(Engine(b, 100, 100), Missing, Missing),
                           Engines(Engine(b, 101, 101), Missing, Missing)>>),
      Script("triumph", <<Engines(Missing, Engine(a, NULL, 110), Missing),
                          Engines(Missing, Engine(b, NULL, 100), Missing)>>),
      Script("gapfill", <<Engines(Missing, Engine(b, 110, 110), Missing)>>),
      Script("1000ps", <<Engines(Missing, Engine(b, 110, 110), Engine(b, 100, 100)),
                         Engines(Fig(b, 1, NULL, NULL, 110), Missing, Engine(b, 100, 100))>>),
      Script("engine", <<Engines(Engine(b, NULL, 110), Missing, Missing),
                         Engines(Missing, Missing, Engine(b, NULL, NULL))>>)>>
\* An engine without displacement, one that contradicts itself, and no engine.
EngineBodies == {Put(Engine(NULL, 150, NULL), TRUE), Put(Engine(a, 150, 110), TRUE), Put(None, FALSE)}
=============================================================================
