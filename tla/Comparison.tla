------------------------------ MODULE Comparison ------------------------------
(***************************************************************************)
(* GET /motorcycles/compare: the table of one request.                     *)
(***************************************************************************)
EXTENDS CatalogueReads

CONSTANTS
    Specs,     \* the registry: label -> [block, ranking]
    Asked,     \* the id lists a client may send
    MinItems, MaxItems, MaxCompareIds

Blocks == {"motorcycle", "engine", "dimension"}
Rankings == {"HIGHER_IS_BETTER", "LOWER_IS_BETTER", "NONE"}

ASSUME RegistryAssumption ==
    \A label \in DOMAIN Specs :
        LET spec == Specs[label] IN
        /\ spec.block \in Blocks /\ spec.ranking \in Rankings
        /\ \A bike \in Contents :
              bike[spec.block] # Absent =>
                  /\ label \in DOMAIN bike[spec.block]
                  /\ spec.ranking # "NONE" => bike[spec.block][label] \in Nat \cup {NULL}
ASSUME AskedAssumption == Asked \subseteq Seq(Ids)
ASSUME ItemAssumption == 2 <= MinItems /\ MinItems <= MaxItems /\ MaxItems <= MaxCompareIds

------------------------------------------------------------------------------
(* One row of the table *)

\* The accessors of a block that is not there answer null.
Value(bike, label) ==
    LET block == bike[Specs[label].block] IN IF block = Absent THEN NULL ELSE block[label]

Published(cells) == {i \in DOMAIN cells : cells[i] # NULL}

Highest(figures, ranking) == Max(figures)  \* mutant: the ranking is not looked at
Best(figures, ranking) == IF ranking = "HIGHER_IS_BETTER" THEN Max(figures) ELSE Min(figures)

Winners(cells, ranking) ==
    IF ranking = "NONE" \/ Published(cells) = {} THEN {}
    ELSE LET top == Best({cells[i] : i \in Published(cells)}, ranking)
             best == {i \in DOMAIN cells : cells[i] = top}
         IN  IF best = Published(cells) THEN {} ELSE best

\* A cell that is not published makes no difference.
Differing(cells) == Cardinality({cells[i] : i \in Published(cells)}) > 1

Row(cells, ranking) ==
    [values |-> cells, winners |-> Winners(cells, ranking), differing |-> Differing(cells)]

------------------------------------------------------------------------------
(* The table *)

Sorted(wanted, found) == SetToSortSeq(ToSet(wanted), <)  \* mutant: as the database has it
\* Columns follow the request.
Ordered(wanted, found) == wanted

Typed(bikes) ==
    [label \in DOMAIN Specs |->
        Row([i \in DOMAIN bikes |-> Value(bikes[i], label)], Specs[label].ranking)]

\* The union of the keys; a bike without one has no cell there.
Other(extras) ==
    [key \in UNION {DOMAIN extras[i] : i \in DOMAIN extras} |->
        Row([i \in DOMAIN extras |-> IF key \in DOMAIN extras[i] THEN extras[i][key] ELSE NULL],
            "NONE")]

NotFound(missing) == [status |-> 404, missing |-> missing]
Table(ids, bikes, extras) ==
    [status |-> 200, kind |-> "table", ids |-> ids, typed |-> Typed(bikes), other |-> Other(extras)]

------------------------------------------------------------------------------
(* The request *)

AllMentions(ids) == ids  \* mutant: repetitions are left in
FirstMentions(ids) ==
    LET places == {i \in DOMAIN ids : \A j \in 1..i - 1 : ids[j] # ids[i]}
        Rank(i) == Cardinality({j \in places : j <= i})
    IN  [n \in 1..Cardinality(places) |-> ids[CHOOSE i \in places : Rank(i) = n]]

TooMany(ids) == Len(ids) > MaxCompareIds
SizeAllowed(ids) == MinItems <= Len(ids) /\ Len(ids) <= MaxItems

\* The controller's bound, the de-duplication and validateSize.
Compare ==
    \E ids \in Asked :
        IF TooMany(ids) \/ ~SizeAllowed(FirstMentions(ids))
        THEN Begin("idle", NoDraft, Refused)
        ELSE Begin("rows", [ids |-> FirstMentions(ids)], NoAnswer)

\* One query with both blocks joined: the bikes of one instant.
ReadRows ==
    /\ pc = "rows"
    /\ LET missing == {id \in ToSet(draft.ids) : catalogue[id] = Absent}
           order == Ordered(draft.ids, catalogue)
       IN  IF missing # {}
           THEN Answer(NotFound(missing))
           ELSE Goes("extras", [ids |-> draft.ids,
                                rows |-> [i \in DOMAIN order |-> catalogue[order[i]]]])

\* The collections, lazily, of all the bikes at once (default_batch_fetch_size): what is
\* committed by now.
ReadExtras ==
    /\ pc = "extras"
    /\ Answer(Table(draft.ids, draft.rows,
                    [i \in DOMAIN draft.ids |-> Extras(catalogue, draft.ids[i])]))

Comparing == Compare \/ ReadRows \/ ReadExtras

------------------------------------------------------------------------------
(* Properties *)

Answered == answer.status = 200 /\ answer.kind = "table"

Better(x, y, ranking) == IF ranking = "HIGHER_IS_BETTER" THEN x > y ELSE x < y

\* README: the winners are "every index tied for best", none where all published figures
\* tie: a winner is beaten by no bike of the table, and beats one.  The other mark of a row,
\* computed from the printed values, never contradicts it: a ranked row differs exactly if
\* somebody wins it.
WinnersAreBest ==
    Answered => \A label \in DOMAIN Specs :
        LET ranking == Specs[label].ranking
            cells == answer.typed[label].values
            beaten(i, by) == cells[i] # NULL /\ cells[by] # NULL /\ Better(cells[by], cells[i], ranking)
        IN  ranking # "NONE" =>
                /\ answer.typed[label].winners =
                       {i \in DOMAIN cells : /\ \A j \in DOMAIN cells : ~beaten(i, j)
                                             /\ \E j \in DOMAIN cells : beaten(j, i)}
                /\ answer.typed[label].differing <=> answer.typed[label].winners # {}

\* Whatever is committed meanwhile, the typed rows show all bikes as they were at one
\* instant of the request, each in the column it is headed by; the long-tail rows too, at
\* one instant, the same or a later one.
ColumnsAreOfOneInstant ==
    Answered =>
        \E k, l \in DOMAIN past :
            /\ k <= l
            /\ \A i \in DOMAIN answer.ids :
                  /\ past[k][answer.ids[i]] # Absent
                  /\ \A label \in DOMAIN Specs :
                        answer.typed[label].values[i] = Value(past[k][answer.ids[i]], label)
                  /\ LET extras == Extras(past[l], answer.ids[i])
                     IN  \A key \in DOMAIN answer.other :
                            answer.other[key].values[i] =
                                IF key \in DOMAIN extras THEN extras[key] ELSE NULL
==============================================================================
