---------------------------- MODULE CatalogueReads ----------------------------
(***************************************************************************)
(* What every read of the catalogue stands on: the committed table,        *)
(* administrators who go on writing it, and a request that reads it in     *)
(* several statements.  A read-only transaction under READ COMMITTED gives *)
(* each statement a snapshot of its own.                                   *)
(*                                                                         *)
(* Figures are numbers in the unit of their column, and texts are model    *)
(* values: the column fixes the scale, so a figure is what it prints as.   *)
(* Brands are numbers in the order of their names, and a name that is      *)
(* searched is a sequence of characters.                                   *)
(***************************************************************************)
EXTENDS Naturals, SequencesExt, FiniteSetsExt

CONSTANTS
    Ids,       \* the bikes there may ever be: 1..n
    Contents,  \* what bikes hold, from an administrator's body or an import
    Seeds,     \* the catalogues at first, by id
    NULL,      \* no figure, no text
    Absent,    \* no bike, no block
    MaxWrites, MaxRequests

ASSUME ContentAssumption ==
    \A bike \in Contents :
        /\ bike = [part \in {"motorcycle", "engine", "dimension", "extras"} |-> bike[part]]
        /\ bike.motorcycle # Absent /\ bike # Absent
        /\ bike.dimension # Absent =>
              /\ bike.dimension = [column \in DOMAIN bike.dimension |-> bike.dimension[column]]
              /\ "row" \in DOMAIN bike.dimension /\ bike.dimension.row = 0
              /\ \A n \in 1..MaxWrites :
                    Absent \notin {[bike EXCEPT !.dimension.row = n], [bike.dimension EXCEPT !.row = n]}
ASSUME SeedAssumption == Seeds \subseteq [Ids -> Contents \cup {Absent}]
ASSUME BoundAssumption ==
    IsFiniteSet(Ids) /\ Ids = 1..Cardinality(Ids) /\ MaxWrites \in Nat /\ MaxRequests \in Nat

VARIABLES
    catalogue,  \* what is committed
    sequence,   \* the last id handed out
    pc,         \* the statement the request sends next, or "idle"
    draft,      \* what it has read so far
    answer,     \* of the last request: its status, and what it says
    past,       \* the catalogues since the request began, the present one last (history)
    writes, requests

vars == <<catalogue, sequence, pc, draft, answer, past, writes, requests>>

------------------------------------------------------------------------------
(* A request *)

NoAnswer == [status |-> 0]
Refused == [status |-> 400]
NoDraft == <<>>

\* A request that passes its checks goes on to its first statement.
Begin(statement, reading, result) ==
    /\ pc = "idle" /\ requests < MaxRequests
    /\ pc' = statement /\ draft' = reading /\ answer' = result
    /\ past' = <<catalogue>>
    /\ requests' = requests + 1
    /\ UNCHANGED <<catalogue, sequence, writes>>

Goes(statement, reading) ==
    /\ pc' = statement /\ draft' = reading
    /\ UNCHANGED <<catalogue, sequence, answer, past, writes, requests>>

Answer(result) ==
    /\ pc' = "idle" /\ draft' = NoDraft /\ answer' = result
    /\ UNCHANGED <<catalogue, sequence, past, writes, requests>>

There(table) == {id \in Ids : table[id] # Absent}

\* The collection of a bike that is gone is empty.
Extras(table, id) == IF table[id] = Absent THEN <<>> ELSE table[id].extras

------------------------------------------------------------------------------
(* Administrators: each commit is one step (CatalogueWrites) *)

Committed(id, bike) ==
    /\ writes < MaxWrites
    /\ catalogue' = [catalogue EXCEPT ![id] = bike]
    /\ past' = IF pc = "idle" THEN past ELSE Append(past, catalogue')
    /\ writes' = writes + 1
    /\ UNCHANGED <<pc, draft, answer, requests>>

\* The dimension block is a row of its own: a PUT edits the one there is, deletes it, or
\* inserts another.
Rowed(bike, old) ==
    IF bike.dimension = Absent THEN bike
    ELSE [bike EXCEPT !.dimension.row =
             IF old # Absent /\ old.dimension # Absent THEN old.dimension.row ELSE writes + 1]

\* No body goes without an engine.
Put(id) ==
    /\ catalogue[id] # Absent
    /\ \E bike \in Contents : bike.engine # Absent /\ Committed(id, Rowed(bike, catalogue[id]))
    /\ UNCHANGED sequence

Post ==
    /\ sequence + 1 \in Ids
    /\ sequence' = sequence + 1
    /\ \E bike \in Contents : bike.engine # Absent /\ Committed(sequence + 1, Rowed(bike, Absent))

Delete(id) ==
    /\ catalogue[id] # Absent
    /\ Committed(id, Absent)
    /\ UNCHANGED sequence
==============================================================================
