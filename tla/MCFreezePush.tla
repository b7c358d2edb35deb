---------------------------- MODULE MCFreezePush ----------------------------
(***************************************************************************)
(* Bounded instance of FreezePush for TLC: a snapshot and its retry under  *)
(* the same name, against each of the registries whose blobs can be relied *)
(* on.                                                                     *)
(***************************************************************************)
EXTENDS FreezePush, TLC

CONSTANTS f1, f2, snap

TwoFreezes == {f1, f2}
OneName == (f1 :> snap) @@ (f2 :> snap)

\* One that checks manifests, and may collect garbage, and one that does
\* neither.
SoundRegistries ==
  {[verifies |-> TRUE, checks |-> TRUE, collects |-> TRUE],
   [verifies |-> TRUE, checks |-> FALSE, collects |-> FALSE]}

=============================================================================
