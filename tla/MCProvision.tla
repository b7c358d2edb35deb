----------------------------- MODULE MCProvision -----------------------------
(***************************************************************************)
(* A bounded instance of Provision for TLC: two volumes, one name for      *)
(* snapshots, a seed that captures share their repository with.            *)
(***************************************************************************)
EXTENDS Provision, TLC

CONSTANTS n1, n2, s1, db, r1, r2, t1, t2, t3, rev1

\* The two volumes are interchangeable, with their tags and repositories.
Swap == n1 :> n2 @@ n2 :> n1 @@ t1 :> t2 @@ t2 :> t1 @@ r1 :> r2 @@ r2 :> r1
Symmetry == {Swap, [x \in DOMAIN Swap |-> x]}

OwnTags == n1 :> t1 @@ n2 :> t2 @@ s1 :> t3
OwnRepos == n1 :> r1 @@ n2 :> r2
Seed == [repo |-> db, tag |-> rev1, pin |-> ByTag]
OneSeed == {Seed}

\* Seeded twice over, spelled oddly; empty, and captured where the seed is;
\* and one that is refused.
Seeded == [seed |-> <<Sep, Seed, Sep, Sep, Seed>>, accessMode |-> "readwriteonce",
           lifecycle |-> "ephemeralthenpersistent", owner |-> "1000:1000",
           captureOnDelete |-> "1"]
Empty == [captureRepo |-> db, captureOnDelete |-> "true"]
Refused == [accessMode |-> "block"]

AllClasses == {Seeded, Empty, Refused}
SameClass == {Seeded}

\* Snapshots go to the repository of the seed and of the captures, or, as in
\* deploy/example, to one of the volume's own.
SharedRepo == {[captureRepo |-> db]}
OwnRepo == {[deletionPolicy |-> "Delete"]}

=============================================================================
