------------------------------ MODULE Catalogue ------------------------------
(***************************************************************************)
(* What the writing endpoints promise: the catalogue is a table of whole   *)
(* bikes, and a request in flight does to it all that it asks, in one      *)
(* step and as it leaves, or nothing.                                      *)
(*                                                                         *)
(* The abstract specification of CatalogueWrites: no statements, locks or  *)
(* transactions, and no request that half happened.                        *)
(***************************************************************************)
EXTENDS SlugRules

CONSTANTS Clients, BikeIds, Requests, Seeds, NoBike, NoRequest

VARIABLES
    bikes,  \* [slug, ident, version, engine, dimension, extras] by id, or NoBike
    asked   \* the request a client waits for, or NoRequest

Free(s) == \A i \in BikeIds : bikes[i] # NoBike => bikes[i].slug # s

Init ==
    /\ bikes = Seeds
    /\ asked = [c \in Clients |-> NoRequest]

Ask(c) ==
    /\ asked[c] = NoRequest
    /\ \E r \in Requests : asked' = [asked EXCEPT ![c] = r]
    /\ UNCHANGED bikes

Asks(c, op) == asked[c] # NoRequest /\ asked[c].op = op

Answer(c) == asked' = [asked EXCEPT ![c] = NoRequest]

\* A refusal, a failure, or a PUT that finds nothing to change.
Decline(c) == asked[c] # NoRequest /\ Answer(c) /\ UNCHANGED bikes

Create(c) ==
    LET r == asked[c]
    IN  /\ Asks(c, "create")
        /\ Answer(c)
        /\ \E i \in BikeIds, s \in DerivedFrom(BaseSlug(r.ident)) :
            /\ bikes[i] = NoBike
            /\ Free(s)
            /\ bikes' = [bikes EXCEPT ![i] = [slug |-> s, ident |-> r.ident, version |-> 0,
                                              engine |-> r.engine, dimension |-> r.dimension,
                                              extras |-> r.extras]]

\* A PUT replaces the row and the collections together and moves the version on.
\* A block is replaced too, unless the PUT found it as it wanted it: then it is
\* whatever a PUT of the block alone has left there since.
Replace(c) ==
    LET r == asked[c]
        b == bikes[r.bike]
    IN  /\ Asks(c, "update")
        /\ Answer(c)
        /\ b # NoBike
        /\ \E s \in {b.slug} \cup DerivedFrom(BaseSlug(r.ident)),
              e \in {b.engine, r.engine}, m \in {b.dimension, r.dimension}, bumps \in {1, 2} :
            /\ (m = NoBike) = (r.dimension = NoBike)
            /\ IF SlugMatchesIdentity(b.slug, BaseSlug(r.ident)) THEN s = b.slug ELSE Free(s)
            /\ bikes' = [bikes EXCEPT ![r.bike] =
                             [slug |-> s, ident |-> r.ident, version |-> b.version + bumps,
                              engine |-> e, dimension |-> m, extras |-> r.extras]]

\* A PUT that changes nothing but figures in blocks leaves the version where it is, and
\* a block that it finds neither comes nor goes.
ReplaceBlocks(c) ==
    LET r == asked[c]
        b == bikes[r.bike]
    IN  /\ Asks(c, "update")
        /\ Answer(c)
        /\ b # NoBike
        /\ \E e \in {b.engine, r.engine}, m \in {b.dimension, r.dimension} :
            /\ (m = NoBike) = (b.dimension = NoBike)
            /\ bikes' = [bikes EXCEPT ![r.bike].engine = e, ![r.bike].dimension = m]

Remove(c) ==
    /\ Asks(c, "delete")
    /\ Answer(c)
    /\ bikes[asked[c].bike] # NoBike
    /\ bikes' = [bikes EXCEPT ![asked[c].bike] = NoBike]

Next == \E c \in Clients :
    Ask(c) \/ Decline(c) \/ Create(c) \/ Replace(c) \/ ReplaceBlocks(c) \/ Remove(c)

Spec == Init /\ [][Next]_<<bikes, asked>>
==============================================================================
