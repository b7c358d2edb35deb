---------------------------- MODULE SnapshotStore ----------------------------
(***************************************************************************)
(* What freezing a volume promises: a call takes, at one moment of its     *)
(* run, a copy of everything that was written, stores it in one step where *)
(* it can be pulled from then on, and only then answers with it.  Calls do *)
(* not meet, and nothing that was stored is lost or replaced.  The daemon, *)
(* the staging file, the uploads and their order, and what becomes of a    *)
(* call that fails are not visible here.                                   *)
(***************************************************************************)
EXTENDS Naturals

CONSTANTS
  Calls,       \* calls that freeze the volume
  NameOf,      \* the name each stores its copy under
  MaxWrites,   \* bound on the writes
  Absent       \* no answer yet

VARIABLES
  written,     \* version of the volume's contents
  call,        \* how far each call has come
  copy,        \* version each call has taken
  stored,      \* <<name, version>> pairs that can be pulled
  answered     \* version each call has answered with

vars == <<written, call, copy, stored, answered>>

Init ==
  /\ written = 0
  /\ call = [c \in Calls |-> "idle"]
  /\ copy = [c \in Calls |-> 0]
  /\ stored = {}
  /\ answered = [c \in Calls |-> Absent]

Become(c, from, to) == call[c] = from /\ call' = [call EXCEPT ![c] = to]

Begin(c) ==
  /\ Become(c, "idle", "begun")
  /\ UNCHANGED <<written, copy, stored, answered>>

Take(c) ==
  /\ Become(c, "begun", "taken")
  /\ copy' = [copy EXCEPT ![c] = written]
  /\ UNCHANGED <<written, stored, answered>>

Store(c) ==
  /\ Become(c, "taken", "stored")
  /\ stored' = stored \cup {<<NameOf[c], copy[c]>>}
  /\ UNCHANGED <<written, copy, answered>>

Answer(c) ==
  /\ Become(c, "stored", "done")
  /\ answered' = [answered EXCEPT ![c] = copy[c]]
  /\ UNCHANGED <<written, copy, stored>>

\* Calls end without an answer, several at once when what they wait for is gone.
Fail(some) ==
  /\ \A c \in some : call[c] \notin {"idle", "done", "failed"}
  /\ call' = [c \in Calls |-> IF c \in some THEN "failed" ELSE call[c]]
  /\ UNCHANGED <<written, copy, stored, answered>>

Write ==
  /\ written < MaxWrites
  /\ written' = written + 1
  /\ UNCHANGED <<call, copy, stored, answered>>

Next ==
  \/ \E c \in Calls : Begin(c) \/ Take(c) \/ Store(c) \/ Answer(c)
  \/ \E some \in SUBSET Calls : Fail(some)
  \/ Write

Spec == Init /\ [][Next]_vars

=============================================================================
