------------------------------ MODULE DataVolume ------------------------------
(***************************************************************************)
(* What the driver promises of a data volume with captureOnDelete: one     *)
(* consumer at a time uses it, a capture takes in one step everything that *)
(* was written and is taken while nobody writes, and the volume is let go  *)
(* only when its newest revision in the registry is what it holds.         *)
(* Handlers, mounts, files, retries and failures are not visible here.     *)
(***************************************************************************)
EXTENDS Naturals

CONSTANTS
  Consumers,   \* whoever may use the volume: pods, by their target paths
  MaxWrites    \* bound on the writes

VARIABLES
  use,         \* how far each consumer has come with the volume
  written,     \* version of the volume's contents
  captured     \* version in the newest revision of the registry

vars == <<use, written, captured>>

Init ==
  /\ use = [c \in Consumers |-> "idle"]
  /\ written = 0
  /\ captured = 0

Become(c, from, to) == use[c] \in from /\ use' = [use EXCEPT ![c] = to]

\* The volume is handed to a consumer when no other has it.
Attach(c) ==
  /\ \A d \in Consumers : use[d] = "idle"
  /\ Become(c, {"idle"}, "publishing")
  /\ UNCHANGED <<written, captured>>

Start(c) ==
  /\ Become(c, {"publishing"}, "running")
  /\ UNCHANGED <<written, captured>>

Write(c) ==
  /\ use[c] = "running"
  /\ written < MaxWrites
  /\ written' = written + 1
  /\ UNCHANGED <<use, captured>>

\* The consumer is done with the volume, or was never started.
Stop(c) ==
  /\ Become(c, {"publishing", "running"}, "unpublishing")
  /\ UNCHANGED <<written, captured>>

Capture ==
  /\ \A c \in Consumers : use[c] # "running"
  /\ captured' = written
  /\ UNCHANGED <<use, written>>

Release(c) ==
  /\ captured = written
  /\ Become(c, {"unpublishing"}, "idle")
  /\ UNCHANGED <<written, captured>>

Next ==
  \/ \E c \in Consumers : Attach(c) \/ Start(c) \/ Write(c) \/ Stop(c) \/ Release(c)
  \/ Capture

Spec == Init /\ [][Next]_vars

=============================================================================
