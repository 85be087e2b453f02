----------------------------- MODULE SheetReading -----------------------------
(***************************************************************************)
(* How the specification importers (tools/import-*-specs.mjs) read a sheet *)
(* of a scraper's snapshot into a row of their seed script.                *)
(*                                                                         *)
(* A text is a sequence of figures and words; a figure is a number, or a   *)
(* fraction (".0") the extraction has torn from its number.  Two figures   *)
(* side by side are a number with a space inside.  Words are units and     *)
(* dashes.  Numbers are in hundredths, counts are not.                     *)
(*                                                                         *)
(* Length, width, height, wheelbase and ground clearance are read the way  *)
(* the seat height is; suspensions, brakes, cooling and the like the way   *)
(* the frame is.                                                           *)
(***************************************************************************)
EXTENDS Integers, Sequences, FiniteSets, SequencesExt, FiniteSetsExt

CONSTANT NULL  \* a cell or a column without a value

Prose == {"harley", "kawasaki", "bmw", "yamaha", "enfield", "triumph"}
Typed == {"1000ps", "gapfill"}  \* sources whose measurements are JSON numbers

Whole(n) == [kind |-> "number", int |-> n, frac |-> 0, digits |-> 0]
Decimal(n, f, d) == [kind |-> "number", int |-> n, frac |-> f, digits |-> d]
Fraction(f, d) == [kind |-> "fraction", int |-> 0, frac |-> f, digits |-> d]
Word(w) == [kind |-> "word", word |-> w]

IsFigure(t) == t.kind # "word"
Places(text) == DOMAIN text \ {Len(text)}  \* what has a successor

------------------------------------------------------------------------------
(* Numbers *)

\* Exactly three digits behind a separator are a thousands group, anything else decimals.
toNumber(t) ==
    IF t.digits = 3 THEN (t.int * 1000 + t.frac) * 100
    ELSE t.int * 100 + (t.frac * 100) \div 10 ^ t.digits

Joined(a, b) ==
    IF b.kind = "fraction" THEN [a EXCEPT !.frac = b.frac, !.digits = b.digits]
    ELSE [b EXCEPT !.int = 1000 * a.int + b.int]
\* A text with figures joined to the next at these places, from the left: what has been
\* joined to one figure is not joined to another.
JoinedAt(text, places) ==
    LET joins[i \in 0..Len(text)] == i \in places /\ ~joins[i - 1]
        Token(i) == IF joins[i] THEN Joined(text[i], text[i + 1]) ELSE text[i]
        left == SetToSortSeq({i \in DOMAIN text : ~joins[i - 1]}, <)
    IN  IF places = {} THEN text ELSE [k \in DOMAIN left |-> Token(left[k])]
Torn(text, next) ==
    {i \in Places(text) : text[i].kind = "number" /\ text[i].digits = 0 /\ text[i + 1] \in next}

\* A digit is joined to a following group of exactly three.
repairDigitGroups(text) ==
    JoinedAt(text, Torn(text, {t \in Range(text) : t.kind = "number" /\ t.int \in 100 .. 999}))
\* Kawasaki's also joins a number to a decimal point behind a space.
repairDecimals(text) ==
    JoinedAt(text, Torn(text, {t \in Range(text) : t.kind = "fraction"}))
Repaired(brand, text) ==
    CASE brand = "kawasaki" -> repairDecimals(repairDigitGroups(text))
      [] brand \in Typed -> text
      [] OTHER -> repairDigitGroups(text)

Ranges(text) ==
    {i \in DOMAIN text : /\ i + 3 \in DOMAIN text
                         /\ IsFigure(text[i]) /\ text[i + 1] = Word("-")
                         /\ IsFigure(text[i + 2]) /\ ~IsFigure(text[i + 3])
                         /\ text[i + 3] \notin {Word("-"), Word("\"")}}
WithoutHighEnds(text) ==
    LET left == SetToSortSeq(DOMAIN text \ UNION {{i + 1, i + 2} : i \in Ranges(text)}, <)
    IN  [k \in DOMAIN left |-> text[left[k]]]
\* A range of measurements is its low end.
collapseRanges(brand, text) ==
    IF brand = "yamaha" \/ Ranges(text) = {} THEN text ELSE WithoutHighEnds(text)

\* NUMBER_START: a number does not begin behind a digit, or behind a digit and a space; the
\* decimals of one that does are read all the same, for they begin behind a separator.
Seen(text, i) ==
    IF text[i].kind = "fraction" \/ (i > 1 /\ IsFigure(text[i - 1]))
    THEN IF text[i].digits = 0 THEN NULL ELSE 100 * text[i].frac
    ELSE toNumber(text[i])
SeenIn(text) == {i \in DOMAIN text : IsFigure(text[i]) /\ Seen(text, i) # NULL}
FirstSeen(text, places) == IF places = {} THEN NULL ELSE Seen(text, Min(places))

InUnit(text, units) ==
    FirstSeen(text, {i \in SeenIn(text) \cap Places(text) :
                        text[i + 1] \in {Word(u) : u \in units}})
unit(brand, text, units) ==
    IF text = NULL THEN NULL ELSE InUnit(Repaired(brand, text), units)

Garbled(text) == \E i \in Places(text) : text[i].kind = "number" /\ text[i + 1].kind = "number"
Times(v, factor) == (v * factor + 500) \div 1000

Prefer(v, w) == IF v # NULL THEN v ELSE w
Scaled(v, factor) == IF v = NULL THEN NULL ELSE Times(v, factor)
BareFigure(brand, text, options) ==
    IF "bare" \notin options \/ (brand \in {"kawasaki", "bmw"} /\ Garbled(text)) THEN NULL
    ELSE FirstSeen(text, SeenIn(text))
InchFigure(text, options) ==
    IF "inches" \in options THEN Scaled(InUnit(text, {"in", "\""}), 25400) ELSE NULL

ReadAnyhow(brand, text, units, options) ==  \* mutant: the first fragment of a garbled text
    IF text = NULL THEN NULL
    ELSE LET t == collapseRanges(brand, Repaired(brand, text))
         IN Prefer(InUnit(t, units), FirstSeen(t, SeenIn(t)))
Measured(brand, text, units, options) ==
    Prefer(InUnit(text, units), Prefer(InchFigure(text, options), BareFigure(brand, text, options)))
\* The figure in the unit, else one in inches, else one in no unit; a garbled text has none
\* of the last kind where the importer has learned so (Kawasaki, BMW).
measure(brand, text, units, options) ==
    IF text = NULL THEN NULL
    ELSE Measured(brand, collapseRanges(brand, Repaired(brand, text)), units, options)

\* The cubic inches of BMW's and Kawasaki's sheets, where the metric figure is unreadable.
displacementOf(brand, text) ==
    Prefer(measure(brand, text, {"cc"}, {"bare"}),
           Scaled(unit(brand, text, IF brand = "kawasaki" THEN {"cu in", "cu-in"} ELSE {"cu in"}), 16387))

bounded(v, least, most) == IF v # NULL /\ v \in 100 * least .. 100 * most THEN v ELSE NULL
round(v, step) == IF v = NULL THEN NULL ELSE ((v + step \div 2) \div step) * step

------------------------------------------------------------------------------
(* The fields with rules of their own *)

rpmOf(brand, text) == bounded(round(unit(brand, text, {"rpm"}), 100), 500, 20000)

InPower(brand, v) ==
    IF v # NULL /\ v \in 50 .. (IF brand \in Typed THEN 40000 ELSE 35000) THEN v ELSE NULL
\* Horsepower over kilowatts.
powerOf(brand, text) ==
    InPower(brand, round(Prefer(unit(brand, text, {"hp"}), Scaled(unit(brand, text, {"kW"}), 1341)), 10))

\* Newton-metres wherever they are printed, then kilogram-metres, then pound-feet.
torqueOf(brand, text) ==
    bounded(round(Prefer(unit(brand, text, {"Nm"}),
                  Prefer(Scaled(unit(brand, text, {"kgf.m"}), 9807),
                         IF brand \in Typed \cup {"triumph"} THEN NULL
                         ELSE Scaled(unit(brand, text, {"lb-ft"}), 1356))), 10),
            1, IF brand \in Typed THEN 400 ELSE 300)

topSpeedOf(brand, text) ==
    bounded(round(Prefer(unit(brand, text, {"km/h"}), Scaled(unit(brand, text, {"mph"}), 1609)), 100),
            20, 400)

\* Kawasaki's unit "lm/lit" is "km/lit" with a letter wrong.
repairConsumptionUnit(text) ==
    [i \in DOMAIN text |-> IF text[i] = Word("lm/lit") THEN Word("km/lit") ELSE text[i]]

\* Hundredths of litres in a hundred kilometres, of a distance driven on a litre.
OverDistance(v) == IF v = NULL \/ v = 0 THEN NULL ELSE (1000000 + v \div 2) \div v
Litres(brand, text) ==
    Prefer(unit(brand, text, {"l/100km"}), OverDistance(unit(brand, text, {"km/lit"})))
InLitres(v) == IF v # NULL /\ v \in 50 .. 3000 THEN v ELSE NULL
FirstOf(values) == IF \E i \in DOMAIN values : values[i] # NULL
                   THEN values[Min({i \in DOMAIN values : values[i] # NULL})] ELSE NULL
\* The first key whose text gives litres or kilometres per litre; miles per gallon never.
FirstConsumption(brand, texts) == InLitres(FirstOf([i \in DOMAIN texts |-> Litres(brand, texts[i])]))

HarleyConsumption(brand, use) == FirstConsumption(brand, <<use.fuel, use.average>>)
BmwConsumption(use) == FirstConsumption("bmw", <<use.average, use.fuel>>)
\* A garbled text is passed over: its decimals alone would be within the bounds.
KawasakiConsumption(use) ==
    FirstConsumption("kawasaki",
        [i \in 1 .. 2 |-> LET text == <<use.average, use.fuel>>[i]
                          IN IF text = NULL THEN NULL
                             ELSE IF Garbled(text) THEN NULL ELSE repairConsumptionUnit(text)])

\* "11.0:1" and "11.0.1" are ratios, "76 x 58 mm" in the cell of one is not.
RatioIn(cell, separators) ==
    IF cell # NULL /\ cell.shape \in separators /\ cell.value \in 400 .. 2000
    THEN round(cell.value, 10) ELSE NULL
compressionOf(cell, separators) ==
    IF RatioIn(cell, separators) # NULL \/ cell = NULL THEN RatioIn(cell, separators) ELSE cell.shape
KawasakiCompression(cell) == RatioIn(cell, {":", ";"})
PsCompression(v) == IF v # NULL /\ v \in 400 .. 2000 THEN round(v, 10) ELSE NULL

\* The first key that has a text decides, a drive or not.
DriveOf(raw) == IF raw \in {"chain", "shaft", "belt"} THEN raw ELSE NULL
finalDriveOf(texts) == DriveOf(FirstOf(texts))

\* Harley prints the seat with and without a rider; the one without is stored.
InSeat(v) == bounded(round(v, 100), 400, 1100)
seatHeightOf(seat) ==
    IF seat.laden # NULL \/ seat.unladen # NULL THEN InSeat(seat.unladen)
    ELSE InSeat(measure("harley", seat.text, {"mm"}, {"bare", "inches"}))
ladenSeatHeight(seat) == round(seat.laden, 100)

clean(v) == CASE v = "blank" -> NULL [] v = "wide" -> "cut" [] OTHER -> v
\* A bare measurement is no description of a frame.
proseField(v) == IF clean(v) = "figure" THEN NULL ELSE clean(v)
\* A size is a short code without a word in it.
tyreField(v) == IF clean(v) \in {"figure", "code"} THEN clean(v) ELSE NULL
descriptionField(v) == IF clean(v) = "page title" THEN NULL ELSE proseField(v)

------------------------------------------------------------------------------
(* The engine: what its prose says and what its measurements say *)

\* What one cylinder sweeps, in tenths of a cubic centimetre.
PerCylinder(bore, stroke) ==
    LET b == bore \div 10
        s == stroke \div 10
    IN ((((((b * b) \div 10) * s) \div 10000) * 7854) \div 10000)
Contradicts(cc, bore, stroke, cylinders, pct) ==
    /\ NULL \notin {cc, bore, stroke, cylinders}
    /\ LET swept == PerCylinder(bore, stroke) * cylinders
           gap == IF swept > cc \div 10 THEN swept - cc \div 10 ELSE cc \div 10 - swept
       IN gap * 100 > pct * (cc \div 10)

\* The count the measurements give, when a whole number of cylinders is within 6 %.
cylindersFromSweptVolume(cc, bore, stroke) ==
    IF NULL \in {cc, bore, stroke} THEN NULL
    ELSE LET one == PerCylinder(bore, stroke)
             n == (cc \div 10 + one \div 2) \div one
             gap == IF n * one > cc \div 10 THEN n * one - cc \div 10 ELSE cc \div 10 - n * one
         IN IF n \in 1 .. 8 /\ gap * 100 <= 6 * n * one THEN n ELSE NULL

\* The phrases each importer reads a count from.
Phrases(brand) ==
    CASE brand = "bmw" -> {"cylinder", "cilindro", "stem", "vee", "twin", "boxer"}
      [] brand \in {"harley", "kawasaki", "enfield"} -> {"cylinder", "cilindro", "stem", "vee", "twin"}
      [] brand = "yamaha" -> {"cylinder", "stem", "vee", "cilindro"}
      [] brand = "triumph" -> {"cilindro", "single"}
      [] brand = "gapfill" -> {"vee", "cylinder", "in-line", "twin"}
      [] OTHER -> {"cilindro"}
cylindersOf(brand, engine) ==
    IF engine.phrase # NULL /\ engine.phrase \in Phrases(brand) THEN engine.count ELSE NULL
\* A count in a cell of its own is taken without a phrase.
Stated(brand, engine) == IF engine.explicit # NULL THEN engine.explicit ELSE cylindersOf(brand, engine)

NotRelabelled(engine, count) == engine  \* mutant: the prose is left alone
\* The phrase the count was read from, and only it, is rewritten.
relabelLayout(engine, count) ==
    IF count \in {1, 2, 3, 4, 6} /\ engine.explicit = NULL
    THEN [engine EXCEPT !.phrase = "cylinder", !.count = count] ELSE engine

valvesPerCylinderOf(engine, cylinders) ==
    CASE engine.valves = NULL -> NULL
      [] engine.valves # NULL /\ engine.each -> engine.valves
      [] OTHER -> IF cylinders # NULL /\ engine.valves % cylinders = 0
                  THEN engine.valves \div cylinders ELSE NULL

Within(n, least, most) == IF n # NULL /\ n \in least .. most THEN n ELSE NULL

Engine(text, count) ==
    [text |-> text, cylinders |-> count, valves |-> Within(valvesPerCylinderOf(text, count), 1, 8)]
Overruled(engine, stated, swept) ==
    IF NULL \notin {stated, swept} /\ swept # stated THEN relabelLayout(engine, swept) ELSE engine
Checked(engine, stated, swept) ==
    Engine(Overruled(engine, stated, swept), Within(Prefer(swept, stated), 1, 8))
\* The measurements overrule the prose, and the prose is made to say so.
EngineOf(brand, engine, cc, bore, stroke) ==
    Checked(engine, Stated(brand, engine), cylindersFromSweptVolume(cc, bore, stroke))
YamahaEngine(engine) == Engine(engine, Within(Stated("yamaha", engine), 1, 8))
\* A count of valves each cylinder has is taken for one of them all.
TriumphEngine(engine) ==
    [Engine([engine EXCEPT !.each = FALSE], Within(cylindersOf("triumph", engine), 1, 8))
        EXCEPT !.text = engine]
==============================================================================
