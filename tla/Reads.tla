-------------------------------- MODULE Reads --------------------------------
(***************************************************************************)
(* The reading side of the API: a comparison, a page, a single bike or the *)
(* dashboard, while administrators write.  Requests share nothing but the  *)
(* table, so that one at a time stands for any number of them.             *)
(***************************************************************************)
EXTENDS Comparison, Search, CatalogStats

Init ==
    /\ catalogue \in Seeds
    /\ sequence = Max({0} \cup There(catalogue))
    /\ pc = "idle" /\ draft = NoDraft
    /\ answer = NoAnswer /\ past = <<catalogue>>
    /\ writes = 0 /\ requests = 0

Writing == Post \/ \E id \in Ids : Put(id) \/ Delete(id)

Quiet == pc = "idle" /\ requests = MaxRequests /\ UNCHANGED vars

Next == Comparing \/ Searching \/ Counting \/ Writing \/ Quiet

Spec == Init /\ [][Next]_vars

------------------------------------------------------------------------------

Unrowed(bike) ==
    IF bike = Absent \/ bike.dimension = Absent THEN bike ELSE [bike EXCEPT !.dimension.row = 0]

\* What a request has read fits the statement it is at.
TypeOK ==
    /\ \A id \in Ids : Unrowed(catalogue[id]) \in Contents \cup {Absent}
    /\ There(catalogue) \subseteq 1..sequence
    /\ pc \in {"idle", "rows", "extras", "page", "count", "blocks", "bike", "rest", "figures"}
    /\ pc # "idle" => catalogue = Last(past)
    /\ pc \in {"rows", "extras"} => IsInjective(draft.ids) /\ SizeAllowed(draft.ids)
    /\ pc \in {"extras", "count", "blocks", "rest"} => DOMAIN draft.rows = DOMAIN draft.ids
    /\ pc \in {"count", "blocks"} => /\ Len(draft.ids) <= draft.query.size
                                     /\ \A part \in DOMAIN draft.loaded :
                                           DOMAIN draft.loaded[part] \subseteq DOMAIN draft.ids
    /\ pc = "figures" => DOMAIN draft \subseteq ToSet(Figures)
    /\ answer.status \in {0, 200, 400, 404, 500}
    /\ writes \in 0..MaxWrites /\ requests \in 0..MaxRequests
==============================================================================
