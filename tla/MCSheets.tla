------------------------------- MODULE MCSheets -------------------------------
(***************************************************************************)
(* Sheets for the importers: one that is in order, and variants of it that *)
(* differ in a cell or two the way the scraped sheets do.                  *)
(***************************************************************************)
EXTENDS Sheets, TLC

N(n) == Whole(n)
W(w) == Word(w)

SheetMeant ==
    [cc |-> 64900, tank |-> 1500, kerb |-> 20600, dry |-> 19000, seat |-> 79000, speed |-> 21000,
     hp |-> 6800, nm |-> 6400, use |-> 500]
SheetEngine(phrase) == [phrase |-> phrase, count |-> 2, explicit |-> NULL, valves |-> 8, each |-> FALSE]
ProseSheet ==
    [slug |-> "z-650", meant |-> SheetMeant,
     cc |-> <<N(649), W("cc")>>, bore |-> <<N(83), W("mm")>>, stroke |-> <<N(60), W("mm")>>,
     power |-> <<N(68), W("hp"), W("@"), N(8000), W("rpm")>>,
     torque |-> <<N(64), W("Nm"), W("@"), N(6700), W("rpm")>>,
     speed |-> <<N(210), W("km/h")>>, kerb |-> <<N(206), W("kg")>>, dry |-> <<N(190), W("kg")>>,
     tank |-> <<N(15), W("l")>>, seat |-> <<N(790), W("mm"), W("/"), Decimal(31, 1, 1), W("in")>>,
     laden |-> NULL, unladen |-> NULL, frame |-> "steel", tyre |-> "code",
     engine |-> SheetEngine("cilindro"), ratio |-> [shape |-> ":", value |-> 1080],
     drive |-> <<"chain">>, use |-> [average |-> <<N(20), W("km/lit")>>, fuel |-> NULL],
     emission |-> <<"EURO5">>, label |-> NULL, model |-> NULL, tail |-> <<NULL, "27.5">>,
     pair |-> <<>>, photos |-> <<>>]
Bare ==
    [ProseSheet EXCEPT !.cc = NULL, !.bore = NULL, !.stroke = NULL, !.power = NULL, !.torque = NULL,
        !.speed = NULL, !.kerb = NULL, !.dry = NULL, !.tank = NULL, !.seat = NULL, !.frame = "blank",
        !.tyre = NULL, !.engine.phrase = NULL, !.engine.valves = NULL, !.ratio = NULL,
        !.drive = <<NULL>>, !.use = [average |-> NULL, fuel |-> NULL], !.emission = <<NULL>>,
        !.tail = <<NULL>>]

\* Measurements: thousands, ranges, units, and digits that have come apart; cells are read
\* each by itself, so that a sheet has several.
Misprints ==
    { [ProseSheet EXCEPT !.cc = <<N(1), N(700), W("cc")>>, !.meant.cc = 170000,
                         !.seat = <<N(790), W("-"), N(820), W("mm")>>,
                         !.torque = <<Decimal(6, 7, 1), W("kgf.m"), W("/"), N(64), W("Nm")>>,
                         !.kerb = <<N(337), Fraction(0, 1), W("kg")>>, !.meant.kerb = 33700],
      [ProseSheet EXCEPT !.cc = <<Decimal(1, 700, 3), W("cc")>>, !.meant.cc = 170000,
                         !.power = <<N(50), W("kW"), W("@"), N(8), N(0), W("rpm")>>, !.meant.hp = 6705,
                         !.tank = <<N(18), Fraction(5, 1), W("l")>>, !.meant.tank = 1850,
                         !.torque = <<Decimal(47, 2, 1), W("lb-ft")>>],
      [ProseSheet EXCEPT !.cc = <<N(45), N(7)>>, !.meant.cc = 45700,
                         !.power = <<N(1), Decimal(5, 5, 1), W("hp")>>, !.meant.hp = 10550,
                         !.tank = <<N(1), Decimal(8, 5, 1), W("l")>>, !.meant.tank = 1850,
                         !.torque = <<Decimal(6, 5, 1), W("kgf.m")>>],
      [ProseSheet EXCEPT !.cc = <<N(6), N(49), W("cc"), W("/"), Decimal(39, 6, 1), W("cu in")>>,
                         !.seat = <<N(7), N(90), W("mm"), W("/"), Decimal(31, 1, 1), W("in")>>,
                         !.speed = <<N(130), W("mph")>>, !.dry = <<N(210), W("kg")>>, !.meant.dry = 21000] }

\* Fields with rules of their own.
Fields ==
    { [ProseSheet EXCEPT !.use = [average |-> <<N(1), Decimal(2, 5, 1), W("km/lit")>>, fuel |-> NULL],
                         !.meant.use = 800, !.pair = <<"27.5", "4.7">>, !.tail = <<NULL>>],
      [ProseSheet EXCEPT !.use = [average |-> <<N(47), W("mpg")>>, fuel |-> <<N(5), W("l/100km")>>],
                         !.pair = <<"27.5", "4.7">>, !.tail = <<"24">>, !.label = "TOURING"],
      [ProseSheet EXCEPT !.slug = "zx-11", !.ratio = NULL, !.use.average = <<N(1), N(9), W("km/lit")>>],
      [ProseSheet EXCEPT !.slug = "zx-11", !.use.average = <<N(20), W("lm/lit")>>],
      [ProseSheet EXCEPT !.ratio = [shape |-> "76 x 58", value |-> NULL], !.drive = <<"chassis", "belt">>,
                         !.frame = "figure", !.tyre = "wide", !.model = "SPORT", !.emission = <<"in prose">>] }

\* Harley's line with both seats.
TwoSeats ==
    [ProseSheet EXCEPT !.laden = 69300, !.unladen = 77900, !.meant.seat = 77900,
                       !.seat = <<N(693), W("mm"), W("/"), N(779), W("mm")>>]

\* Engines whose prose and measurements tell of different ones.
Told ==
    { [ProseSheet EXCEPT !.engine.count = 4],
      [ProseSheet EXCEPT !.engine.count = 4, !.engine.phrase = "twin"],
      [ProseSheet EXCEPT !.engine.count = 4, !.engine.phrase = NULL],
      [ProseSheet EXCEPT !.engine.explicit = 4, !.engine.each = TRUE, !.engine.valves = 4],
      [ProseSheet EXCEPT !.stroke = <<N(66), W("mm")>>],
      Bare }

\* The same photo under two bikes, a picture that is none, and a bike with nothing else.
Galleries(sheet, bare) ==
    { << [sheet EXCEPT !.photos = <<"notes", "front">>],
         [bare EXCEPT !.slug = "z-900", !.photos = <<"front", "side">>] >> }

ProseSnapshots == {<<s>> : s \in Misprints \cup Fields \cup Told} \cup Galleries(ProseSheet, Bare)

TypedSheet ==
    [ProseSheet EXCEPT !.cc = 64900, !.bore = 8300, !.stroke = 6000, !.kerb = 20600, !.dry = 19000,
        !.speed = 21000, !.seat = 79000, !.tank = 1500, !.ratio = 1080, !.engine.each = TRUE,
        !.engine.valves = 4, !.use = [unit |-> "l/100km", value |-> 500], !.label = "NAKED"] @@
    [description |-> "text"]
TypedBare ==
    [TypedSheet EXCEPT !.cc = NULL, !.bore = NULL, !.stroke = NULL, !.kerb = NULL, !.dry = NULL,
        !.speed = NULL, !.seat = NULL, !.tank = NULL, !.ratio = NULL, !.engine.phrase = NULL,
        !.engine.valves = NULL, !.use.value = NULL, !.label = NULL, !.power = NULL,
        !.torque = NULL, !.frame = NULL, !.tyre = NULL, !.description = "page title",
        !.drive = <<NULL>>, !.emission = <<NULL>>, !.tail = <<NULL>>]
TypedSnapshots(phrase) ==
    LET base == [TypedSheet EXCEPT !.engine.phrase = phrase]
    IN { <<base>>, <<TypedBare>>, <<TypedBare, base>>, <<base, [base EXCEPT !.cc = 70000]>>,
         << [base EXCEPT !.stroke = 6600] >>, << [base EXCEPT !.stroke = 6600, !.engine.count = NULL] >>,
         << [base EXCEPT !.dry = 21000] >>, << [base EXCEPT !.use.unit = "kWh"] >>,
         << [base EXCEPT !.label = "quad"] >>, << [base EXCEPT !.label = "oldtimer", !.model = "TOURING"] >>,
         << [base EXCEPT !.label = NULL, !.seat = 790000] >>, << [base EXCEPT !.frame = "figure"] >> }
       \cup Galleries(base, TypedBare)
       \cup Galleries(base, [TypedBare EXCEPT !.label = "quad"])

Researched1 ==
    [slug |-> "z-750", cc |-> 74800, bore |-> 6840, stroke |-> 5090, cylinders |-> 4, valves |-> 4,
     hp |-> 10600, hpRpm |-> 1050000, nm |-> 7800, nmRpm |-> 830000, speed |-> 22000, use |-> 550,
     ratio |-> "11.3:1", photos |-> <<>>]
ResearchSnapshots ==
    {<<r>> : r \in {
        Researched1,
        [Researched1 EXCEPT !.bore = 6340],
        [Researched1 EXCEPT !.bore = 6340, !.slug = "z-800"],
        [Researched1 EXCEPT !.stroke = 5190],
        [Researched1 EXCEPT !.nmRpm = 1100000],
        [Researched1 EXCEPT !.hpRpm = 1700000],
        [Researched1 EXCEPT !.cylinders = 8, !.use = 100, !.ratio = "wide"] }}

MCSnapshots ==
    [i \in Importers |->
        CASE i = "1000ps" -> TypedSnapshots("cilindro")
          [] i = "gapfill" -> TypedSnapshots("twin")
          [] i = "research" -> ResearchSnapshots
          [] i = "harley" -> ProseSnapshots \cup {<<TwoSeats>>}
          [] OTHER -> ProseSnapshots]
MCExtOf == [p \in Paths |-> CASE p = "front" -> "jpg" [] p = "side" -> "png" [] OTHER -> "gif"]
MCResearched ==
    { [slug |-> "zx-11", column |-> "ratio", new |-> 1100], [slug |-> "zx-11", column |-> "use", new |-> 518] }
MCErrata == { [slug |-> "z-750", holds |-> [bore |-> 6340], gives |-> [bore |-> 6840]] }
==============================================================================
