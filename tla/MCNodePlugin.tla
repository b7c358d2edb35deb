---------------------------- MODULE MCNodePlugin ----------------------------
(***************************************************************************)
(* Bounded instances of NodePlugin for TLC: two target paths (an old and a *)
(* new pod of the volume), and the sets of faults the runs differ in.      *)
(***************************************************************************)
EXTENDS NodePlugin, TLC

\* Targets are interchangeable: nothing orders or names them.
Perms == Permutations(Targets)

\* Everything but what loses or truncates publish.json (a failed write, a failed
\* read, a write that goes on after its handler, a reboot), and a push that the
\* registry handles after the volume is in use again.
HandoffFaults == FaultKinds \ {"persist", "read", "linger", "reboot", "stray"}

\* Everything but a target path used again before its earlier pod is done with.
ServedFaults == FaultKinds \ {"reuse"}

\* Passing failures of single steps; rspacefs-mount itself does not fail, and
\* what is to be removed at the end is removed.
TransientFaults == (FallibleSteps \ {"mount"}) \cup {"persist", "read"}

=============================================================================
