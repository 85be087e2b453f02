----------------------------- MODULE CatalogStats -----------------------------
(***************************************************************************)
(* GET /admin/stats: one query per figure, in the order of the response.   *)
(* Breakdowns other than by brand, the gaps of all columns but three, and  *)
(* the time of the last update are read the same way and left out.         *)
(***************************************************************************)
EXTENDS CatalogueReads

CONSTANT ListPrice  \* the long-tail key of a researched list price

\* The long-tail specs of a bike are a map of finitely many keys.
ASSUME ExtrasAssumption ==
    \A bike \in Contents :
        /\ IsFiniteSet(DOMAIN bike.extras)
        /\ bike.extras = [key \in DOMAIN bike.extras |-> bike.extras[key]]

------------------------------------------------------------------------------
(* The queries *)

\* SUM(CASE ...): nothing to add up is NULL.
CountIn(missing, of) == IF of = {} THEN NULL ELSE Cardinality(missing)

AsItIs(count) == count  \* mutant: NULL gets out
orZero(count) == IF count = NULL THEN 0 ELSE count

fieldGaps ==
    LET bikes == There(catalogue)
    IN  [price |-> CountIn({id \in bikes : catalogue[id].motorcycle.price = NULL}, bikes),
         engine |-> CountIn({id \in bikes : catalogue[id].engine = Absent}, bikes),
         dimension |-> CountIn({id \in bikes : catalogue[id].dimension = Absent}, bikes)]

\* A block lies in its own table, one row for each bike that has it.
BlockRows(part) == {id \in There(catalogue) : catalogue[id][part] # Absent}
powerGaps ==
    CountIn({id \in BlockRows("engine") : catalogue[id].engine.power = NULL}, BlockRows("engine"))

countByBrand ==
    LET bikes == There(catalogue)
    IN  [brand \in {catalogue[id].motorcycle.brand : id \in bikes} |->
            Cardinality({id \in bikes : catalogue[id].motorcycle.brand = brand})]

\* Half up, to the unit of the column.
roundAvg(sum, count) == (2 * sum + count) \div (2 * count)
priceStats ==
    LET priced == {id \in There(catalogue) : catalogue[id].motorcycle.price # NULL}
        prices == {catalogue[id].motorcycle.price : id \in priced}
    IN  IF priced = {} THEN [min |-> NULL, avg |-> NULL, max |-> NULL, count |-> 0]
        ELSE [min |-> Min(prices), max |-> Max(prices), count |-> Cardinality(priced),
              avg |-> roundAvg(MapThenSumSet(LAMBDA id : catalogue[id].motorcycle.price, priced),
                               Cardinality(priced))]

Listed(id) == ListPrice \in DOMAIN catalogue[id].extras

Figures == <<"gaps", "total", "brands", "prices", "engines", "powerGaps", "dimensions",
             "entries", "bare", "listed", "unpriced">>
Figure(name) ==
    LET bikes == There(catalogue) IN
    CASE name = "gaps" -> [column \in DOMAIN fieldGaps |-> orZero(fieldGaps[column])]
      [] name = "total" -> Cardinality(bikes)
      [] name = "brands" -> countByBrand
      [] name = "prices" -> priceStats
      [] name = "engines" -> Cardinality(BlockRows("engine"))
      [] name = "powerGaps" -> orZero(powerGaps)
      [] name = "dimensions" -> Cardinality(BlockRows("dimension"))
      [] name = "entries" ->
            MapThenSumSet(LAMBDA id : Cardinality(DOMAIN catalogue[id].extras), bikes)
      [] name = "bare" -> Cardinality({id \in bikes : catalogue[id].extras = <<>>})
      [] name = "listed" -> Cardinality({id \in bikes : Listed(id)})
      [] name = "unpriced" ->
            Cardinality({id \in bikes : catalogue[id].motorcycle.price = NULL /\ ~Listed(id)})

------------------------------------------------------------------------------
(* The request *)

GetStats == Begin("figures", NoDraft, NoAnswer)

ReadFigure ==
    /\ pc = "figures"
    /\ LET n == Cardinality(DOMAIN draft) + 1
           figures == [name \in DOMAIN draft \cup {Figures[n]} |->
                          IF name = Figures[n] THEN Figure(name) ELSE draft[name]]
       IN  IF n < Len(Figures) THEN Goes("figures", figures)
           ELSE Answer([status |-> 200, kind |-> "figures", figures |-> figures])

Counting == GetStats \/ ReadFigure

------------------------------------------------------------------------------
(* Properties *)

\* Totals, breakdowns and gaps of one answer, each of its own snapshot, are at odds by no
\* more than the writes committed while they were read, and not at all if there were none;
\* a list price never passes for a price, and an empty catalogue counts zero of everything.
FiguresDriftOnlyByWrites ==
    answer.status = 200 /\ answer.kind = "figures" =>
        LET f == answer.figures
            drift == Len(past) - 1
            near(x, y) == x <= y + drift /\ y <= x + drift
        IN  /\ NULL \notin {f.gaps.price, f.gaps.engine, f.gaps.dimension, f.powerGaps}
            /\ near(f.total, MapThenSumSet(LAMBDA b : f.brands[b], DOMAIN f.brands))
            /\ near(f.total, f.gaps.engine + f.engines)
            /\ near(f.total, f.gaps.dimension + f.dimensions)
            /\ near(f.total, f.gaps.price + f.prices.count)
            /\ f.powerGaps <= f.engines + drift
            /\ f.unpriced <= f.gaps.price + drift
            /\ f.gaps.price <= f.unpriced + f.listed + drift
            /\ f.bare + f.listed <= f.total + drift
            /\ f.total <= f.bare + f.entries + drift
            /\ f.prices.count = 0 <=> f.prices.avg = NULL
            /\ f.prices.count > 0 => f.prices.min <= f.prices.avg /\ f.prices.avg <= f.prices.max
==============================================================================
