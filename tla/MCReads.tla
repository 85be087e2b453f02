------------------------------- MODULE MCReads -------------------------------
(***************************************************************************)
(* A small instance of Reads for TLC: two brands; bikes with and without a *)
(* price, an engine, a dimension block and long-tail specs; a name with a  *)
(* character that LIKE knows; pages that end before, at and after the last *)
(* bike, of more bikes than a batch takes.                                 *)
(***************************************************************************)
EXTENDS Reads

CONSTANTS steel, full, modes

Registry ==
    [price |-> [block |-> "motorcycle", ranking |-> "LOWER_IS_BETTER"],
     frame |-> [block |-> "motorcycle", ranking |-> "NONE"],
     power |-> [block |-> "engine", ranking |-> "HIGHER_IS_BETTER"],
     seat |-> [block |-> "dimension", ranking |-> "LOWER_IS_BETTER"]]

Holding(brand, model, price, frame, engine, dimension, extras) ==
    [motorcycle |-> [brand |-> brand, model |-> model, price |-> price, frame |-> frame],
     engine |-> engine, dimension |-> dimension, extras |-> extras]
Engine(power) == [power |-> power]
Dimension(seat) == [row |-> 0, seat |-> seat]
LongTail(keys) == [key \in keys |-> full]

Cheap == Holding(1, <<"m", "_">>, 1, steel, Engine(1), Dimension(2), <<>>)
Dear == Holding(2, <<"m", "t">>, 2, NULL, Engine(2), Absent, LongTail({modes, ListPrice}))
Unpriced == Holding(1, <<"m", "%">>, NULL, steel, Engine(NULL), Dimension(1), LongTail({ListPrice}))
\* As an import may leave a bike.
Engineless == Holding(2, <<"\\", "t">>, 1, NULL, Absent, Absent, LongTail({modes}))
Bodies == {Cheap, Dear, Unpriced, Engineless}

Catalogue(one, two, three, four) ==
    [id \in Ids |-> CASE id = 1 -> one [] id = 2 -> two [] id = 3 -> three [] OTHER -> four]
Catalogues == {Catalogue(Dear, Cheap, Unpriced, Absent), Catalogue(Unpriced, Engineless, Cheap, Absent),
               Catalogue(Absent, Absent, Absent, Absent)}

\* Too few, too many, the same twice; in the order of their ids and against it.
Lists == {<<1>>, <<1, 1>>, <<2, 1>>, <<3, 1, 2>>, <<1, 2, 1>>, <<1, 2, 3, 1>>, <<1, 2, 3, 1, 2>>}

All == [brand |-> NULL, maxPrice |-> NULL, minPower |-> NULL, q |-> <<>>]
Query(filter, sort, descending, page, size) ==
    [filter |-> filter, sort |-> sort, descending |-> descending, page |-> page, size |-> size]
Pages ==
    {Query(All, "price", TRUE, 0, 3), Query(All, "price", FALSE, 0, 2), Query(All, "brand", FALSE, 1, 2),
     Query(All, "id", FALSE, 2, 2), Query(All, "power", FALSE, 0, 2),
     Query([All EXCEPT !.brand = 1], "price", TRUE, 0, 2),
     Query([All EXCEPT !.maxPrice = 1], "id", TRUE, 0, 2),
     Query([All EXCEPT !.minPower = 1], "id", FALSE, 0, 3)}
    \cup {Query([All EXCEPT !.q = q], "id", FALSE, 0, 1) :
             q \in {<<"%">>, <<"_">>, <<"\\">>, <<"t">>, <<" ">>, <<"m", "t">>}}
=============================================================================
