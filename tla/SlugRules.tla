------------------------------ MODULE SlugRules ------------------------------
(***************************************************************************)
(* The public identifier of a motorcycle, as MotorcycleService derives it  *)
(* from the identity fields (brand, model, model year).                    *)
(*                                                                         *)
(* A slug is the sequence of tokens that slugify leaves between its        *)
(* dashes: words and numbers.  What slugify throws away (case, accents,    *)
(* punctuation) is the `spelling' of an identity: two spellings of one     *)
(* name have one base slug.                                                *)
(***************************************************************************)
EXTENDS Naturals, Sequences

CONSTANTS
    Words,      \* tokens that are not all digits (model values under TLC)
    Spellings,  \* the ways of typing one name that slugify does not tell apart
    MaxSuffix   \* the disambiguator at which uniqueSlug gives up (100 in the code)

ASSUME SuffixAssumption == MaxSuffix \in Nat /\ MaxSuffix > 2

Token == Words \cup Nat
Slug == Seq(Token)
Identity == [name : Seq(Token), year : Nat, spelling : Spellings]

\* brand, model and year joined, then slugified: the year is always last.
BaseSlug(identity) == Append(identity.name, identity.year)

\* The n-th slug uniqueSlug tries: the base itself, then base-2, base-3, ...
Candidate(base, n) == IF n = 1 THEN base ELSE Append(base, n)

Stuck(n) == n  \* mutant: the suffix is not incremented
NextSuffix(n) == n + 1

\* The attempt after which uniqueSlug throws instead of probing again.
Exhausted(n) == NextSuffix(n) = MaxSuffix

\* The test that keeps a slug across an edit: the base, exactly or with any
\* one numeric token appended (the DISAMBIGUATOR pattern is -\d+ to the end).
SlugMatchesIdentity(current, base) ==
    \/ current = base
    \/ /\ Len(current) = Len(base) + 1
       /\ SubSeq(current, 1, Len(base)) = base
       /\ current[Len(current)] \in Nat

\* What that test stands for: the slugs uniqueSlug can hand out for a base.
DerivedFrom(base) == {Candidate(base, n) : n \in 1..MaxSuffix - 1}

==============================================================================
