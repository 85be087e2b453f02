----------------------------- MODULE SeedPipeline -----------------------------
(***************************************************************************)
(* The seed scripts of the dev profile, and Flyway running them at every   *)
(* boot: in the order of their descriptions, each one whose file has       *)
(* changed since the run that was recorded.  Between boots developers edit *)
(* the scripts; while the application is up admins write the catalogue.    *)
(* A script is its kind, which says what statements it consists of (module *)
(* SeedScripts), and the rows it stages.                                   *)
(***************************************************************************)
EXTENDS SeedScripts, SequencesExt, FiniteSetsExt

CONSTANTS
    Names,      \* bikes, by slug; here also by brand, model and year
    Triumphs,   \* those whose brand is Triumph
    Quads,      \* those 1000ps lists and that are no motorcycles
    Scripts,    \* the seed scripts, in the order of their descriptions
    Bodies,     \* what an admin may PUT or POST: figures, and countries
    MaxWrites,  \* bound: admin writes in one behaviour
    MaxCrashes  \* bound: crashes in one behaviour

ASSUME NameAssumption == Triumphs \subseteq Names /\ Quads \subseteq Names
ASSUME BoundAssumption == MaxWrites \in Nat /\ MaxCrashes \in Nat
\* What a script stages is consistent in itself: the generators see to the weights, those of
\* the gap-fill and of 1000ps to the engine as well.
ASSUME ScriptAssumption ==
    /\ Scripts \in Seq([kind : Kinds,
                       editions : Seq([Names -> Figures \cup {Missing}]) \ {<<>>}])
    /\ \A i \in DOMAIN Scripts : \A k \in DOMAIN Scripts[i].editions, n \in Names :
          LET f == Scripts[i].editions[k][n]
          IN  f # Missing =>
                /\ ~Above(f.dry, f.kerb)
                /\ Scripts[i].kind \in {"gapfill", "1000ps"} => ~Contradict(f.bore, f.cc, 5)
ASSUME BodyAssumption ==
    \A b \in Bodies : b.figures \in Figures /\ b.brazil \in BOOLEAN
                      /\ ~Above(b.figures.dry, b.figures.kerb)

VARIABLES
    bikes,     \* the catalogue, by name
    edition,   \* the edition of each script that is deployed
    recorded,  \* the edition flyway_schema_history knows of, 0 for none
    phase,     \* "down", "migrating", "applied" (a script committed), "up"
    byAdmin,   \* bikes an admin has written or removed since the last dev seed (history)
    stopped,   \* why the last boot was given up, or "no"
    writes,    \* admin writes so far
    crashes    \* crashes so far

vars == <<bikes, edition, recorded, phase, byAdmin, stopped, writes, crashes>>

------------------------------------------------------------------------------
(* What a script makes of the catalogue *)

Staged(i) == Scripts[i].editions[edition[i]]

Meets(i, n, table) ==
    /\ Scripts[i].kind \notin {"dev", "fipe", "countries"}
    /\ table[n] # Missing /\ Staged(i)[n] # Missing

\* The dev seed truncates first.
Inserts(i, n, table) ==
    /\ Scripts[i].kind = "dev" \/ table[n] = Missing
    /\ Staged(i)[n] # Missing
    /\ Creates(Scripts[i].kind, n \notin Quads)

Effect(i, table) ==
    LET kind == Scripts[i].kind
        s == Staged(i)
        one(n) ==
            CASE Inserts(i, n, table) -> Created(kind, s[n])
              [] Meets(i, n, table) ->
                    [table[n] EXCEPT !.figures = Merged(kind, @, s[n]),
                                     !.version = Bumped(kind, table[n], s[n])]
              [] kind = "countries" /\ table[n] # Missing -> [table[n] EXCEPT !.brazil = TRUE]
              [] kind = "dev" /\ ~Inserts(i, n, table) -> Missing
              [] OTHER -> table[n]
    IN  [n \in Names |-> one(n)]

Rejects(i, table) ==
    LET kind == Scripts[i].kind
        s == Staged(i)
        met == {n \in Names : Meets(i, n, table)}
        brand == {n \in Triumphs : Effect(i, table)[n] # Missing}
    IN  CASE \E n \in met : RejectsWeights(kind, table[n].figures, s[n]) -> "weights"
          [] \/ \E n \in met : RejectsGeometry(kind, table[n].figures, s[n])
             \/ \E n \in brand : RejectsBrand(kind, Effect(i, table)[n].figures) -> "geometry"
          [] \E n \in met : RejectsDisplacement(kind, table[n].figures, s[n]) -> "displacement"
          [] OTHER -> "no"

------------------------------------------------------------------------------
(* Flyway *)

Pending == {i \in DOMAIN Scripts : recorded[i] # edition[i]}

LastPending == Max(Pending)  \* mutant: in the opposite order

\* Flyway looks at the history again after every script, and takes the first pending one.
Current == Min(Pending)

Boot ==
    /\ phase = "down"
    /\ phase' = "migrating"
    /\ stopped' = "no"
    /\ UNCHANGED <<bikes, edition, recorded, byAdmin, writes, crashes>>

\* One transaction.  The dev seed truncates first, and what admins wrote goes with it.
Apply ==
    /\ phase = "migrating" /\ Pending # {}
    /\ Rejects(Current, bikes) = "no"
    /\ bikes' = Effect(Current, bikes)
    /\ byAdmin' = IF Scripts[Current].kind = "dev" THEN {} ELSE byAdmin
    /\ phase' = "applied"
    /\ UNCHANGED <<edition, recorded, stopped, writes, crashes>>

\* A violated CHECK or a RAISE EXCEPTION: the script is rolled back, the boot given up.
Abort ==
    /\ phase = "migrating" /\ Pending # {}
    /\ Rejects(Current, bikes) # "no"
    /\ stopped' = Rejects(Current, bikes)
    /\ phase' = "down"
    /\ UNCHANGED <<bikes, edition, recorded, byAdmin, writes, crashes>>

Forgotten(i) == recorded[i]  \* mutant: the checksum is not stored
Checksum(i) == edition[i]

\* The history row, after the script's own COMMIT.
Record ==
    /\ phase = "applied"
    /\ recorded' = [recorded EXCEPT ![Current] = Checksum(Current)]
    /\ phase' = "migrating"
    /\ UNCHANGED <<bikes, edition, byAdmin, stopped, writes, crashes>>

Serve ==
    /\ phase = "migrating" /\ Pending = {}
    /\ phase' = "up"
    /\ UNCHANGED <<bikes, edition, recorded, byAdmin, stopped, writes, crashes>>

------------------------------------------------------------------------------
(* Everyone else *)

\* PUT and POST: every column and the countries, from the body.
Write(n) ==
    /\ phase = "up" /\ writes < MaxWrites
    /\ \E b \in Bodies :
        bikes' = [bikes EXCEPT ![n] =
            [figures |-> b.figures, brazil |-> b.brazil,
             version |-> IF bikes[n] = Missing THEN 0 ELSE bikes[n].version + 1,
             origin |-> IF bikes[n] = Missing THEN "admin" ELSE bikes[n].origin]]
    /\ byAdmin' = byAdmin \cup {n}
    /\ writes' = writes + 1
    /\ UNCHANGED <<edition, recorded, phase, stopped, crashes>>

Delete(n) ==
    /\ phase = "up" /\ writes < MaxWrites
    /\ bikes[n] # Missing
    /\ bikes' = [bikes EXCEPT ![n] = Missing]
    /\ byAdmin' = byAdmin \cup {n}
    /\ writes' = writes + 1
    /\ UNCHANGED <<edition, recorded, phase, stopped, crashes>>

Shutdown ==
    /\ phase = "up"
    /\ phase' = "down"
    /\ UNCHANGED <<bikes, edition, recorded, byAdmin, stopped, writes, crashes>>

\* A new edition of a script, deployed with the next boot.
Edit(i) ==
    /\ phase = "down"
    /\ edition[i] < Len(Scripts[i].editions)
    /\ edition' = [edition EXCEPT ![i] = @ + 1]
    /\ UNCHANGED <<bikes, recorded, phase, byAdmin, stopped, writes, crashes>>

Crash ==
    /\ phase \in {"migrating", "applied"} /\ crashes < MaxCrashes
    /\ phase' = "down"
    /\ crashes' = crashes + 1
    /\ UNCHANGED <<bikes, edition, recorded, byAdmin, stopped, writes>>

------------------------------------------------------------------------------

Init ==
    /\ bikes = [n \in Names |-> Missing]
    /\ edition = [i \in DOMAIN Scripts |-> 1]
    /\ recorded = [i \in DOMAIN Scripts |-> 0]
    /\ phase = "down"
    /\ byAdmin = {} /\ stopped = "no"
    /\ writes = 0 /\ crashes = 0

Migrate == Boot \/ Apply \/ Abort \/ Record \/ Serve

Next ==
    \/ Migrate
    \/ \E n \in Names : Write(n) \/ Delete(n)
    \/ \E i \in DOMAIN Scripts : Edit(i)
    \/ Shutdown \/ Crash

Spec == Init /\ [][Next]_vars
FairSpec == Spec /\ WF_vars(Migrate)

------------------------------------------------------------------------------
(* Properties *)

\* The catalogue, the history and the boot hold values of their types.
TypeOK ==
    /\ bikes \in [Names -> Bike \cup {Missing}]
    /\ \A i \in DOMAIN Scripts :
          /\ edition[i] \in DOMAIN Scripts[i].editions
          /\ recorded[i] \in 0..edition[i]
    /\ phase \in {"down", "migrating", "applied", "up"}
    /\ byAdmin \subseteq Names
    /\ stopped \in {"no", "weights", "geometry", "displacement"}
    /\ writes \in 0..MaxWrites /\ crashes \in 0..MaxCrashes

\* What a script other than the dev seed takes from a bike is a dry weight above the kerb
\* weight, or a bore that does not sweep the displacement, for nothing or for one that
\* does: neither a row, nor a value an admin or an earlier script has left there.
TakesOnlyContradictions ==
    [][phase = "migrating" /\ phase' = "applied" /\ Scripts[Current].kind # "dev" =>
          \A n \in Names : bikes[n] # Missing =>
              LET old == bikes[n].figures
                  new == bikes'[n].figures
              IN  /\ bikes'[n] # Missing
                  /\ \A c \in DOMAIN old : old[c] \notin {NULL, new[c]} =>
                        \/ c = "dry" /\ new.dry = NULL /\ Above(old.dry, new.kerb)
                        \/ c = "bore" /\ Contradict(old.bore, new.cc, 2)
                           /\ ~Contradict(new.bore, new.cc, 2)]_vars

\* What the check before COMMIT accepts it accepts again: the boot after a crash between a
\* script's COMMIT and its history row is not given up over what the script itself wrote.
RerunIsAccepted == phase = "applied" => Rejects(Current, bikes) = "no"

\* Kawasaki's researched set: the scraped seed "is the better-sourced of the two, so it goes
\* first and its values win".  Of every script: what the first of them to say it says of a
\* bike is what a fresh catalogue says.
FirstSourceWins ==
    phase = "up" /\ writes = 0 /\ (\A i \in DOMAIN Scripts : edition[i] = 1) =>
        \A n \in Names, c \in {"spec", "cc"} : bikes[n] # Missing =>
            LET says == {i \in DOMAIN Scripts :
                           /\ Staged(i)[n] # Missing /\ Staged(i)[n][c] # NULL
                           /\ Scripts[i].kind = "displacement" => c = "cc"
                           /\ Scripts[i].kind = "patch" => c = "spec"}
            IN  bikes[n].figures[c] = IF says = {} THEN NULL ELSE Staged(Min(says))[n][c]

\* Running a script again at once, as the boot after a crash between its COMMIT and its
\* history row does, changes nothing, so that a crash leaves no trace in the catalogue; at
\* most a dry weight that 1000ps has just dropped for another comes in after all.
RerunAddsOnlyWeights ==
    phase = "applied" =>
        \A n \in Names : LET again == Effect(Current, bikes)[n] IN
            \/ again = bikes[n]
            \/ /\ Scripts[Current].kind = "1000ps"
               /\ bikes[n].figures.dry = NULL
               /\ again.figures = [bikes[n].figures EXCEPT !.dry = Staged(Current)[n].dry]
               /\ again.version = bikes[n].version

\* Whatever crashes, the application comes up, unless a script is rejected.
BootCompletes == phase = "migrating" ~> phase = "up" \/ stopped # "no"

\* R__motorcycles_harley_...: a dry weight above the kerb weight on the row "is dropped:
\* the CHECK would otherwise abort the entire import".
NeverStoppedByWeights == stopped # "weights"

\* R__zzz_...countries "sees every row every other seed has inserted", and stamps it, while
\* the order of the scripts "is what leaves the 4 575 European models with no country
\* attributed" (README): whatever is edited and rerun, every bike an import brought that
\* admins have left alone is offered in Brazil, unless 1000ps brought it.
BrazilIsNotEurope ==
    phase = "up" => \A n \in Names \ byAdmin :
        bikes[n] # Missing => (bikes[n].brazil <=> bikes[n].origin # "1000ps")
==============================================================================
