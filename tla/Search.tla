-------------------------------- MODULE Search --------------------------------
(***************************************************************************)
(* GET /motorcycles and GET /motorcycles/{id}, /slug/{slug}: a page is a   *)
(* query of rows, a count, and then the lazy blocks of its bikes, batch by *)
(* batch; a single bike comes with its blocks, and then its extras.        *)
(***************************************************************************)
EXTENDS CatalogueReads

CONSTANTS
    Queries,   \* filter, sort and page a client may send
    Sortable,  \* the columns a client may sort by
    BatchSize  \* default_batch_fetch_size

ASSUME QueryAssumption ==
    /\ BatchSize \in Nat \ {0}
    /\ \A query \in Queries : query.page \in Nat /\ query.size \in Nat \ {0}
\* What is sorted by and bounded is a figure, or not there.
ASSUME ColumnAssumption ==
    /\ NULL \notin Nat
    /\ \A bike \in Contents :
          /\ \A column \in (Sortable \ {"id"}) \cup {"price"} :
                bike.motorcycle[column] \in Nat \cup {NULL}
          /\ bike.engine # Absent => bike.engine.power \in Nat \cup {NULL}
\* Names and what is searched in them are sequences of characters.
ASSUME TextAssumption ==
    /\ \A bike \in Contents : bike.motorcycle.model \in Seq(STRING)
    /\ \A query \in Queries : query.filter.q \in Seq(STRING)

------------------------------------------------------------------------------
(* The filter *)

Escape == "\\"

Escaped(text, char) ==
    FlattenSeq([i \in DOMAIN text |-> IF text[i] = char THEN <<Escape, char>> ELSE <<text[i]>>])
EscapedLast(text) ==  \* mutant: the escapes are escaped in turn
    Escaped(Escaped(Escaped(text, "%"), "_"), Escape)
escapeLike(text) == Escaped(Escaped(Escaped(text, Escape), "%"), "_")

\* LIKE of SQL, with an ESCAPE character: the places of the text from which on it fits the
\* pattern from i on.
Like(text, pattern) ==
    LET fits[i \in 1..Len(pattern) + 1] ==
          IF i > Len(pattern) THEN {Len(text) + 1}
          ELSE CASE pattern[i] = Escape ->
                      {j \in 1..Len(text) : /\ i < Len(pattern) /\ text[j] = pattern[i + 1]
                                            /\ j + 1 \in fits[i + 2]}
                 [] pattern[i] = "%" -> {j \in 1..Len(text) + 1 : \E k \in fits[i + 1] : j <= k}
                 [] OTHER -> {j \in 1..Len(text) : /\ pattern[i] \in {text[j], "_"}
                                                   /\ j + 1 \in fits[i + 1]}
    IN  1 \in fits[1]

hasText(text) == \E i \in DOMAIN text : text[i] # " "

\* What a bike has no figure for fits no bound.
Within(figure, low, high) ==
    /\ low # NULL => figure # NULL /\ figure >= low
    /\ high # NULL => figure # NULL /\ figure <= high

\* Category and model year are compared as the brand is, the displacement as the power; of
\* the three texts that are searched, brand, model and slug, the model stands for all.  The
\* engine is joined only where it is asked for, and then a bike without one is out.
Matches(bike, filter) ==
    /\ filter.brand \in {NULL, bike.motorcycle.brand}
    /\ Within(bike.motorcycle.price, NULL, filter.maxPrice)
    /\ hasText(filter.q) =>
          Like(bike.motorcycle.model, <<"%">> \o escapeLike(filter.q) \o <<"%">>)
    /\ filter.minPower # NULL =>
          bike.engine # Absent /\ Within(bike.engine.power, filter.minPower, NULL)

Found(filter) == {id \in There(catalogue) : Matches(catalogue[id], filter)}

------------------------------------------------------------------------------
(* A page *)

Key(table, id, column) == IF column = "id" THEN id ELSE table[id].motorcycle[column]

\* default_null_ordering: last, in both directions.
Before(x, y, descending) ==
    x # NULL /\ (y = NULL \/ IF descending THEN x > y ELSE x < y)

\* What ties comes in any order.
Orders(query) ==
    {order \in SetToSeqs(Found(query.filter)) :
        \A i, j \in DOMAIN order : i < j =>
            ~Before(Key(catalogue, order[j], query.sort), Key(catalogue, order[i], query.sort),
                    query.descending)}

First(query) == query.page * query.size
Slice(order, query) ==
    SubSeq(order, First(query) + 1, Min({Len(order), First(query) + query.size}))

\* Spring Data counts only if the page does not tell by itself where the last one ends.
Counted(ids, query) ==
    ~(Len(ids) < query.size /\ (query.page = 0 \/ ids # <<>>))

Nothing == [part \in {"engine", "dimension", "extras"} |-> <<>>]

Search ==
    \E query \in Queries :
        IF query.sort \in Sortable THEN Begin("page", [query |-> query], NoAnswer)
        ELSE Begin("idle", NoDraft, Refused)

\* The rows alone, with the keys of the blocks.
ReadPage ==
    /\ pc = "page"
    /\ \E order \in Orders(draft.query) :
        LET ids == Slice(order, draft.query)
        IN  Goes(IF Counted(ids, draft.query) THEN "count" ELSE "blocks",
                 [query |-> draft.query, ids |-> ids, rows |-> [i \in DOMAIN ids |-> catalogue[ids[i]]],
                  total |-> First(draft.query) + Len(ids), loaded |-> Nothing])

ReadCount ==
    /\ pc = "count"
    /\ Goes("blocks", [draft EXCEPT !.total = Cardinality(Found(draft.query.filter))])

------------------------------------------------------------------------------
(* The blocks of its bikes *)

HasAny(row, part) == TRUE  \* mutant: a bike without the block is not told apart
Has(row, part) == part = "extras" \/ row[part] # Absent

Unread(part) ==
    {i \in DOMAIN draft.rows : Has(draft.rows[i], part)} \ DOMAIN draft.loaded[part]

\* MotorcycleResponse.from goes through the page bike by bike, and each block it touches is
\* loaded with as many others of its kind as a batch takes.
Touched == Min(UNION {Unread(part) : part \in DOMAIN Nothing})
TouchedPart ==
    CHOOSE part \in DOMAIN Nothing :
        /\ Touched \in Unread(part)
        /\ part = "dimension" => Touched \notin Unread("engine")
        /\ part = "extras" => Touched \notin Unread("engine") \cup Unread("dimension")
Batches(part) ==
    {batch \in kSubset(Min({BatchSize, Cardinality(Unread(part))}), Unread(part)) : Touched \in batch}

\* The row the key refers to, if there still is one.
RowThere(i, part) ==
    LET bike == catalogue[draft.ids[i]] IN
    \/ part = "extras"
    \/ /\ bike # Absent /\ bike[part] # Absent
       /\ part = "dimension" => bike.dimension.row = draft.rows[i].dimension.row
Block(i, part) ==
    IF part = "extras" THEN Extras(catalogue, draft.ids[i]) ELSE catalogue[draft.ids[i]][part]

Broken(ids) == [status |-> 500, ids |-> ids]

\* A block whose row is gone is an EntityNotFoundException, which nothing translates.
LoadBlocks ==
    /\ pc = "blocks"
    /\ \E part \in DOMAIN Nothing : Unread(part) # {}
    /\ \E batch \in Batches(TouchedPart) :
        LET part == TouchedPart
            there == {i \in batch : RowThere(i, part)}
            read == [i \in there \cup DOMAIN draft.loaded[part] |->
                        IF i \in there THEN Block(i, part) ELSE draft.loaded[part][i]]
        IN  IF Touched \in there THEN Goes("blocks", [draft EXCEPT !.loaded[part] = read])
            ELSE Answer(Broken(draft.ids))

Item(i) ==
    [motorcycle |-> draft.rows[i].motorcycle,
     engine |-> IF Has(draft.rows[i], "engine") THEN draft.loaded.engine[i] ELSE Absent,
     dimension |-> IF Has(draft.rows[i], "dimension") THEN draft.loaded.dimension[i] ELSE Absent,
     extras |-> draft.loaded.extras[i]]

AnswerPage ==
    /\ pc = "blocks"
    /\ \A part \in DOMAIN Nothing : Unread(part) = {}
    /\ Answer([status |-> 200, kind |-> "page", query |-> draft.query, ids |-> draft.ids,
               items |-> [i \in DOMAIN draft.ids |-> Item(i)], total |-> draft.total])

------------------------------------------------------------------------------
(* A single bike *)

Get == \E id \in Ids : Begin("bike", [ids |-> <<id>>], NoAnswer)

ReadBike ==
    /\ pc = "bike"
    /\ LET bike == catalogue[draft.ids[1]]
       IN  IF bike = Absent THEN Answer([status |-> 404, missing |-> ToSet(draft.ids)])
           ELSE Goes("rest", [ids |-> draft.ids, rows |-> <<bike>>])

ReadRest ==
    /\ pc = "rest"
    /\ LET bike == [draft.rows[1] EXCEPT !.extras = Extras(catalogue, draft.ids[1])]
       IN  Answer([status |-> 200, kind |-> "bike", ids |-> draft.ids, items |-> <<bike>>])

Searching == Search \/ ReadPage \/ ReadCount \/ LoadBlocks \/ AnswerPage \/ Get \/ ReadBike \/ ReadRest

------------------------------------------------------------------------------
(* Properties *)

Shows(kind) == answer.status = 200 /\ answer.kind = kind

\* "so free text is matched literally"; NULLs are in no range.
Literally(text, q) ==
    \E i \in 0..Len(text) : i + Len(q) <= Len(text) /\ SubSeq(text, i + 1, i + Len(q)) = q
Wanted(bike, filter) ==
    /\ filter.brand # NULL => bike.motorcycle.brand = filter.brand
    /\ filter.maxPrice # NULL =>
          bike.motorcycle.price \in Nat /\ bike.motorcycle.price <= filter.maxPrice
    /\ hasText(filter.q) => Literally(bike.motorcycle.model, filter.q)
    /\ filter.minPower # NULL =>
          bike.engine # Absent /\ bike.engine.power \in Nat /\ bike.engine.power >= filter.minPower

\* README: "A missing figure sorts last, never first".
Ahead(x, y, descending) ==
    \/ x # NULL /\ y = NULL
    \/ x # NULL /\ y # NULL /\ IF descending THEN x > y ELSE x < y

\* The bike in place n of the whole order has fewer than n others that must stand before it,
\* and room behind it for those that must stand after.
IsSlice(ids, query, table) ==
    LET wanted == {id \in There(table) : Wanted(table[id], query.filter)}
        ahead(id, other) == Ahead(Key(table, id, query.sort), Key(table, other, query.sort), query.descending)
        first == query.page * query.size
    IN  /\ IsInjective(ids) /\ ToSet(ids) \subseteq wanted
        /\ Len(ids) = Max({0, Min({query.size, Cardinality(wanted) - first})})
        /\ \A i \in DOMAIN ids :
              /\ Cardinality({o \in wanted : ahead(o, ids[i])}) < first + i
              /\ Cardinality({o \in wanted : ahead(ids[i], o)}) <= Cardinality(wanted) - first - i
              /\ \A j \in 1..i - 1 : ~ahead(ids[i], ids[j])

\* What the item shows of a bike is its row at instant k, and blocks it had then or later:
\* never another bike's, never an older one, and none only where there was none.
OfInstant(item, id, k) ==
    LET row == past[k][id] IN
    /\ row # Absent /\ item.motorcycle = row.motorcycle
    /\ \A part \in {"engine", "dimension"} :
          IF row[part] = Absent THEN item[part] = Absent
          ELSE \E l \in k..Len(past) :
                  past[l][id] # Absent /\ past[l][id][part] # Absent /\ item[part] = past[l][id][part]
    /\ \E l \in k..Len(past) : item.extras = Extras(past[l], id)

\* A page is the slice asked for of the bikes of one instant, in the order asked for; its
\* total is of that instant or a later one, and so is every block, each its own bike's.  A
\* single bike is of one instant, but for its extras.
ReadsAreOfTheirInstants ==
    /\ Shows("page") => \E k, l \in DOMAIN past :
          /\ k <= l /\ IsSlice(answer.ids, answer.query, past[k])
          /\ \A i \in DOMAIN answer.ids : OfInstant(answer.items[i], answer.ids[i], k)
          /\ answer.total = Cardinality({id \in There(past[l]) : Wanted(past[l][id], answer.query.filter)})
    /\ Shows("bike") => \E k \in DOMAIN past :
          LET bike == past[k][answer.ids[1]]
          IN  /\ OfInstant(answer.items[1], answer.ids[1], k)
              /\ \A part \in {"engine", "dimension"} : answer.items[1][part] = bike[part]

\* A page fails only if one of its bikes, or the dimension block of one, is removed while
\* it is read; a single bike and a comparison, which join the blocks, never do.
FailsOnlyRacingRemovals ==
    answer.status = 500 => \E id \in ToSet(answer.ids), k \in 2..Len(past) :
        /\ past[k - 1][id] # Absent
        /\ \/ past[k][id] = Absent
           \/ past[k - 1][id].dimension # Absent /\ past[k][id].dimension = Absent
==============================================================================
