-------------------------------- MODULE Names --------------------------------
(***************************************************************************)
(* References and tags: Reference::parse (registry.rs), the repository a   *)
(* volume is captured to (params.rs), sanitize_tag (node.rs) and the       *)
(* references the two freezes push to and answer with (node.rs,            *)
(* controller.rs, registry.rs).  Other modules take what these compute for *)
(* granted: a capture lands in the repository of the seed, a snapshot id   *)
(* is a seed, names have tags of their own.                                *)
(*                                                                         *)
(* A string is a sequence of characters.  The behaviours of the module     *)
(* spell every pair of strings out.                                        *)
(***************************************************************************)
EXTENDS Naturals, Sequences

CONSTANTS
  Chars,     \* characters
  TagChars,  \* those a tag may have: [A-Za-z0-9_.-]
  TagLen,    \* length a name is cut off at (128)
  Latest,    \* "latest"
  Rev,       \* "rev"
  Pvcs,      \* "pvcs"
  Digest,    \* the digest of a pushed manifest, sha256:...
  RefChars, NameChars, MaxRef, MaxName   \* bounds on the strings spelt out

ASSUME NamesAssumption ==
  /\ {"/", ":", "@", "-"} \subseteq Chars
  /\ TagChars \subseteq Chars \ {"/", ":", "@"}
  /\ "-" \in TagChars
  /\ TagLen \in Nat \ {0}
  /\ Latest \in Seq(TagChars) \ {<<>>}
  /\ Rev \in Seq(TagChars) \ {<<>>}
  /\ Len(Rev) <= TagLen
  /\ Pvcs \in Seq(TagChars)
  /\ Digest \in Seq(Chars) \ {<<>>}
  /\ RefChars \subseteq Chars /\ NameChars \subseteq Chars
  /\ MaxRef \in Nat /\ MaxName \in Nat

VARIABLES
  ref,  \* a seed or a captureRepo of a storage class
  name  \* the name of a PVC or of a snapshot

vars == <<ref, name>>

-----------------------------------------------------------------------------
(* Positions in a string *)

Upto(s, k) == SubSeq(s, 1, k)
From(s, k) == SubSeq(s, k, Len(s))
Join(a, c, b) == a \o <<c>> \o b

Has(s, c) == \E k \in 1..Len(s) : s[k] = c

\* str::find: c is at k for the first time.
FirstAt(s, c, k) == k \in 1..Len(s) /\ s[k] = c /\ \A j \in 1..Len(s) : j < k => s[j] # c

\* The ':' that rfind finds behind the last '/', if there is one, is at k.
TagAt(s, k) == k \in 1..Len(s) /\ s[k] = ":" /\ \A j \in 1..Len(s) : k < j => s[j] \notin {":", "/"}

HasTag(s) == \E k \in 1..Len(s) : TagAt(s, k)

First(s, c) == CHOOSE k \in 1..Len(s) : FirstAt(s, c, k)
Tag(s) == CHOOSE k \in 1..Len(s) : TagAt(s, k)

-----------------------------------------------------------------------------
(* Reference::parse *)

\* Deviation: rsplit_once('@'), the digest is looked for from the end.
SplitRefLastAt(s) ==
  LET at == CHOOSE k \in 1..Len(s) : s[k] = "@" /\ ~Has(From(s, k + 1), "@") IN
  IF Has(s, "@") THEN <<Upto(s, at - 1), From(s, at + 1)>>
  ELSE IF HasTag(s) THEN <<Upto(s, Tag(s) - 1), From(s, Tag(s) + 1)>>
  ELSE <<s, Latest>>

\* Name and reference: split at the first '@', or at the tag's ':'.
SplitRef(s) ==
  IF Has(s, "@") THEN <<Upto(s, First(s, "@") - 1), From(s, First(s, "@") + 1)>>
  ELSE IF HasTag(s) THEN <<Upto(s, Tag(s) - 1), From(s, Tag(s) + 1)>>
  ELSE <<s, Latest>>

\* RegistryError::BadReference.
Bad == [registry |-> <<>>, repository |-> <<>>, reference |-> <<>>]

\* The name in turn is split at its first '/'; no part may be empty.
ParseParts(id, reference) ==
  LET slash == First(id, "/") IN
  IF Has(id, "/") /\ slash # 1 /\ slash # Len(id) /\ reference # <<>>
    THEN [registry   |-> Upto(id, slash - 1),
          repository |-> From(id, slash + 1),
          reference  |-> reference]
    ELSE Bad

Parse(s) == ParseParts(SplitRef(s)[1], SplitRef(s)[2])

-----------------------------------------------------------------------------
(* Where captures and snapshots go *)

\* What is in front of the '@', split('@').next().
Base(s) == IF Has(s, "@") THEN Upto(s, First(s, "@") - 1) ELSE s

\* Deviation: only a digest is stripped.
ResolvedCaptureRepoTagged(seed) == Base(seed)

\* resolved_capture_repo, when the class has no captureRepo: the seed without its
\* tag or digest.
ResolvedCaptureRepo(seed) ==
  LET base == Base(seed) IN
  IF Has(base, "/") /\ HasTag(base) THEN Upto(base, Tag(base) - 1) ELSE base

\* Deviation: the name is cut off before its last character.
SanitizeTagShort(s) ==
  LET out == [k \in 1..Len(s) |-> IF s[k] \in TagChars THEN s[k] ELSE "-"] IN
  IF s = <<>> THEN Rev ELSE IF Len(s) < TagLen THEN out ELSE Upto(out, TagLen - 1)

\* sanitize_tag.
SanitizeTag(s) ==
  LET out == [k \in 1..Len(s) |-> IF s[k] \in TagChars THEN s[k] ELSE "-"] IN
  IF s = <<>> THEN Rev ELSE IF Len(s) <= TagLen THEN out ELSE Upto(out, TagLen)

\* target_ref of a capture and of a snapshot: format!("{repo}:{tag}").
TargetRef(repo, n) == Join(repo, ":", SanitizeTag(n))

\* snapshot_target without a captureRepo: under --capture-registry, by volume.
SnapshotRepo(registry, id) == Join(Join(registry, "/", Pvcs), "/", id)

\* Deviation: the answer names the tag that was pushed to.
PushedRefByTag(r) == Join(Join(r.registry, "/", r.repository), ":", r.reference)

\* What push_revision returns: registry/repository@digest of the manifest.
PushedRef(r) == Join(Join(r.registry, "/", r.repository), "@", Digest)

-----------------------------------------------------------------------------
Init == ref = <<>> /\ name = <<>>

SpellRef == Len(ref) < MaxRef /\ (\E c \in RefChars : ref' = Append(ref, c)) /\ UNCHANGED name
SpellName == Len(name) < MaxName /\ (\E c \in NameChars : name' = Append(name, c)) /\ UNCHANGED ref

Next == SpellRef \/ SpellName

Spec == Init /\ [][Next]_vars

-----------------------------------------------------------------------------
(* Properties *)

\* A reference that is accepted is one of registry/repository@digest,
\* registry/repository:tag and registry/repository, and it is cut there and
\* nowhere else: a port is not taken for a tag, a tag has no ':' or '/'
\* (registry.rs:64-101).
ParseFollowsGrammar ==
  LET r == Parse(ref)
      id == Join(r.registry, "/", r.repository) IN
  r # Bad =>
    /\ ~Has(r.registry, "/") /\ ~Has(id, "@")
    /\ \/ ref = Join(id, "@", r.reference)
       \/ /\ ref = Join(id, ":", r.reference)
          /\ ~Has(r.reference, "@") /\ ~Has(r.reference, ":") /\ ~Has(r.reference, "/")
       \/ ref = id /\ r.reference = Latest /\ ~HasTag(ref)

\* The form of the doc comment: a tag or a digest, not both.
TagOrDigest(s) == Has(s, "@") => ~HasTag(Base(s))

\* A volume whose seed could be pulled can be captured: the target of the
\* capture at unpublish (node.rs:275-284, params.rs:175-193) parses, to the
\* registry and the repository of the seed and the tag of the volume's name,
\* whatever port, tag or digest the seed has and whatever the name is.
CaptureKeepsRepo ==
  Parse(ref) # Bad /\ TagOrDigest(ref) =>
    Parse(TargetRef(ResolvedCaptureRepo(ref), name)) =
      [registry   |-> Parse(ref).registry,
       repository |-> Parse(ref).repository,
       reference  |-> SanitizeTag(name)]

\* A snapshot id is "directly usable as a seed" (freeze.rs:21-24): for every
\* captureRepo or --capture-registry a push gets through with, it parses to
\* where the push went and the digest.
SnapshotIsSeed ==
  \A repo \in {ref, SnapshotRepo(ref, name)} :
    LET r == Parse(TargetRef(repo, name)) IN
    r # Bad => Parse(PushedRef(r)) = [r EXCEPT !.reference = Digest]

\* sanitize_tag makes a tag of every name, and leaves a name alone that is one:
\* names a cluster can give have tags of their own (node.rs:300-318).
TagIsName ==
  LET tag == SanitizeTag(name) IN
  /\ Len(tag) \in 1..TagLen /\ \A k \in 1..Len(tag) : tag[k] \in TagChars
  /\ (Len(name) \in 1..TagLen /\ \A k \in 1..Len(name) : name[k] \in TagChars) => tag = name

=============================================================================
