--------------------------- MODULE SchemaMigration ---------------------------
(***************************************************************************)
(* MigrationRegistry of crates/statelab-engine/src/migration.rs: single-   *)
(* step migrations registered in any order, and the bounded walk that      *)
(* brings a document to a target version.                                  *)
(*                                                                         *)
(* Of a document the walk reads trajectory_schema_version only, so that a  *)
(* document is its version.  A migration is the version it is registered   *)
(* from and what it makes of a document: another version, the same one, a  *)
(* document without a version, or an error.                                *)
(***************************************************************************)
EXTENDS Naturals, Sequences, FiniteSets

CONSTANTS Versions,
          NoVersion,      \* trajectory_schema_version is missing
          Fails,          \* migrate returns an error
          MaxMigrations   \* bound on the migrations registered

ASSUME MaxMigrationsAssumption == MaxMigrations \in Nat
ASSUME MarksAssumption == NoVersion # Fails /\ {NoVersion, Fails} \cap Versions = {}

VARIABLES registry,  \* MigrationRegistry.migrations
          origin,    \* the version of the document given to migrate
          target,
          version,   \* the version of the document so far
          left,      \* iterations of the loop that are left
          outcome    \* "registering", "walking", or how migrate returned

vars == <<registry, origin, target, version, left, outcome>>

Migrations == [from : Versions, to : Versions \cup {NoVersion, Fails}]

Init ==
    /\ registry = <<>>
    /\ origin = NoVersion /\ version = NoVersion
    /\ target \in Versions
    /\ left = 0
    /\ outcome = "registering"

Register(m) ==
    /\ outcome = "registering" /\ Len(registry) < MaxMigrations
    /\ registry' = Append(registry, m)
    /\ UNCHANGED <<origin, target, version, left, outcome>>

(* Mutations of MaxSteps: no margin; one step too many. *)
NoMargin == Len(registry)

(* One step per migration, and one to see that the target is reached. *)
MaxSteps == Len(registry) + 1

Migrate(document) ==
    /\ outcome = "registering"
    /\ origin' = document /\ version' = document
    /\ left' = MaxSteps
    /\ outcome' = "walking"
    /\ UNCHANGED <<registry, target>>

Return(how) ==
    /\ outcome' = how
    /\ UNCHANGED <<registry, origin, target, version, left>>

Iterating == outcome = "walking" /\ left > 0

MissingVersion == Iterating /\ version = NoVersion /\ Return("no version")

Reached == Iterating /\ version = target /\ Return("migrated")

(* The migrations find may return: the first from the current version. *)
From == {i \in DOMAIN registry : registry[i].from = version}

(* Mutation of Found: the last registered wins. *)
FoundLast(i) == i \in From /\ \A j \in From : j <= i

Found(i) == i \in From /\ \A j \in From : i <= j

NoMigration ==
    /\ Iterating /\ version \notin {NoVersion, target}
    /\ From = {}
    /\ Return("no migration")

Apply(i) ==
    /\ Iterating /\ version \notin {NoVersion, target}
    /\ Found(i)
    /\ LET to == registry[i].to
       IN \/ to = Fails /\ Return("failed")
          \/ to = NoVersion /\ Return("no version")
          \/ to = version /\ Return("did not advance")
          \/ /\ to \in Versions \ {version}
             /\ version' = to
             /\ left' = left - 1
             /\ UNCHANGED <<registry, origin, target, outcome>>

Exhausted == outcome = "walking" /\ left = 0 /\ Return("gave up")

Returned == outcome \notin {"registering", "walking"} /\ UNCHANGED vars

Next ==
    \/ \E m \in Migrations : Register(m)
    \/ \E document \in Versions \cup {NoVersion} : Migrate(document)
    \/ MissingVersion
    \/ Reached
    \/ NoMigration
    \/ \E i \in DOMAIN registry : Apply(i)
    \/ Exhausted
    \/ Returned

Spec == Init /\ [][Next]_vars

-----------------------------------------------------------------------------

(***************************************************************************)
(* The reference: of the migrations registered from a version the first    *)
(* one leads on, and a set of versions the walk cannot leave but at the    *)
(* target is closed.                                                       *)
(***************************************************************************)
LeadsTo(v, w) ==
    \E i \in DOMAIN registry :
        /\ registry[i] = [from |-> v, to |-> w]
        /\ \A j \in 1 .. i - 1 : registry[j].from # v

Closed(S) ==
    \A v \in S \ {target} : \A w \in Versions \ S : ~LeadsTo(v, w)

Reachable ==
    /\ origin \in Versions
    /\ \A S \in SUBSET Versions : origin \in S /\ Closed(S) => target \in S

(* The bound on the steps never costs a document its target: migrate       *)
(* succeeds exactly when the first migrations registered lead from the     *)
(* document to the target, the longest chain included (migration.rs:97).   *)
FindsTheTarget ==
    outcome \notin {"registering", "walking"} => (outcome = "migrated" <=> Reachable)

(* migrate gives up only on a loop, never on a chain that ends: it has got *)
(* into versions that lead to one another and neither to the target nor to *)
(* an error (migration.rs:95, "loop guard").                               *)
GivesUpOnlyOnALoop ==
    outcome = "gave up" =>
        \E S \in SUBSET (Versions \ {target}) :
            /\ version \in S
            /\ Closed(S)
            /\ \A v \in S : \E w \in S \ {v} : LeadsTo(v, w)
=============================================================================
