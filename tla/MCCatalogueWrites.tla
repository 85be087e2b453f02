-------------------------- MODULE MCCatalogueWrites --------------------------
(***************************************************************************)
(* Small instances of CatalogueWrites for TLC.                             *)
(***************************************************************************)
EXTENDS CatalogueWrites, TLC

CONSTANTS mt, plain, dashed, e1, e2, m1, m2, x1

Bike(name, year, spelling) == [name |-> name, year |-> year, spelling |-> spelling]

MT23 == Bike(<<mt>>, 2023, plain)
MT23dashed == Bike(<<mt>>, 2023, dashed)
MT24 == Bike(<<mt>>, 2024, plain)
\* The request threads are interchangeable.
Threads == Permutations(Clients)

Body(op, id, ident, engine, dimension, extras) ==
    [op |-> op, bike |-> id, ident |-> ident, engine |-> engine, dimension |-> dimension,
     extras |-> extras]
Seed(ident, engine, dimension, extras) ==
    [motorcycle |-> [slug |-> BaseSlug(ident), ident |-> ident, version |-> 0],
     engine |-> engine, dimension |-> dimension, extras |-> extras]

\* Two bikes swapping names, one respelled, creates of one of them, and its removal.
NamingSeeds == <<Seed(MT23, e1, Absent, NoExtras), Seed(MT24, e1, Absent, NoExtras)>>
NamingRequests ==
    {Body("update", b, i, e1, Absent, NoExtras) : b \in {1, 2}, i \in {MT23, MT24}}
        \cup {Body("create", 1, i, e1, Absent, NoExtras) : i \in {MT23, MT23dashed}}
        \cup {Body("delete", 1, MT24, e1, Absent, NoExtras)}

\* Edits of every part of one bike, and its removal; the same of a bike the imports left
\* without blocks; and a create of the first.
EditSeeds ==
    <<Seed(MT23, e1, [row |-> 0, figures |-> m1], NoExtras), Seed(MT24, Absent, Absent, NoExtras)>>
Edit(ident, engine, dimension, extras) == Body("update", 1, ident, engine, dimension, extras)
EditRequests ==
    {Edit(MT23, e, m1, x) : e \in {e1, e2}, x \in {NoExtras, x1}}
        \cup {Edit(MT23dashed, e1, m1, NoExtras), Edit(MT23dashed, e2, m2, x1),
              Edit(MT23, e1, m2, NoExtras), Edit(MT23, e1, Absent, NoExtras)}
        \cup {Body("update", 2, MT24, e1, m, NoExtras) : m \in {m1, Absent}}
        \cup {Body("delete", 1, MT23, e1, m1, NoExtras), Body("delete", 2, MT24, e1, m1, NoExtras),
              Body("create", 1, MT23, e1, m1, NoExtras)}

\* PUTs of one bike.
PutSeeds == <<Seed(MT23, e1, [row |-> 0, figures |-> m1], NoExtras)>>
PutRequests == {r \in EditRequests : r.op = "update" /\ r.bike = 1}
==============================================================================
