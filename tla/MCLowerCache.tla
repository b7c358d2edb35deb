---------------------------- MODULE MCLowerCache ----------------------------
(***************************************************************************)
(* Bounded instance of LowerCache for TLC: two pulls at once, and a tag    *)
(* that moves between manifests of no layer and of two.                    *)
(***************************************************************************)
EXTENDS LowerCache, TLC

CONSTANTS base, top

\* A manifest without layers is refused.
SeedRevisions == {<<>>, <<base, top>>}

=============================================================================
