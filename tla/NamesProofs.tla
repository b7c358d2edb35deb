----------------------------- MODULE NamesProofs -----------------------------
(***************************************************************************)
(* Proofs about Names, for strings of every length.                        *)
(***************************************************************************)
EXTENDS Names, NatRecursion, SequenceTheorems, TLAPS

\* The time limits of a leaf that names no prover.
USE SMTT(30), ZenonT(30)

Strings == Seq(Chars)

\* str::find finds the first occurrence, and there is only one.
LEMMA FirstIsFirst ==
  ASSUME NEW s \in Strings, NEW c, Has(s, c)
  PROVE  FirstAt(s, c, First(s, c))
<1> DEFINE T == {k \in 1..Len(s) : s[k] = c}
<1>1. T \in SUBSET Nat /\ T # {}
  BY DEF Has, Strings
<1>2. PICK m \in T : \A t \in T : m <= t
  BY <1>1, Least, Zenon
<1>3. FirstAt(s, c, m)
  BY <1>2 DEF FirstAt, Strings
<1> QED BY <1>3 DEF First

\* A string has one first occurrence of a character.
LEMMA FirstUnique ==
  ASSUME NEW s \in Strings, NEW c, NEW k, FirstAt(s, c, k)
  PROVE  First(s, c) = k
<1>1. FirstAt(s, c, First(s, c))
  BY DEF First, FirstAt
<1> QED BY <1>1 DEF FirstAt, Strings

\* A string has one ':' that starts its tag.
LEMMA TagUnique ==
  ASSUME NEW s \in Strings, NEW k, TagAt(s, k)
  PROVE  HasTag(s) /\ Tag(s) = k
<1>1. TagAt(s, Tag(s)) /\ HasTag(s)
  BY DEF Tag, TagAt, HasTag
<1> QED BY <1>1 DEF TagAt, Strings

\* Tag finds it.
LEMMA TagIsTag ==
  ASSUME NEW s \in Strings, HasTag(s)
  PROVE  TagAt(s, Tag(s))
BY DEF Tag, HasTag

-----------------------------------------------------------------------------
(* Concatenation *)

\* A string in two parts around one character.
LEMMA Around ==
  ASSUME NEW a \in Strings, NEW c \in Chars, NEW b \in Strings,
         NEW s, s = Join(a, c, b)
  PROVE  /\ s \in Strings
         /\ Len(s) = Len(a) + 1 + Len(b)
         /\ \A k \in 1..Len(a) : s[k] = a[k]
         /\ s[Len(a) + 1] = c
         /\ \A k \in 1..Len(b) : s[Len(a) + 1 + k] = b[k]
         /\ \A k \in Len(a)+2 .. Len(s) : s[k] = b[k - Len(a) - 1]
<1> DEFINE m == a \o <<c>>
<1>1. <<c>> \in Seq(Chars) /\ Len(<<c>>) = 1 /\ <<c>>[1] = c
  OBVIOUS
<1>2. /\ m \in Seq(Chars) /\ Len(m) = Len(a) + 1
      /\ \A i \in 1 .. Len(a) + 1 : m[i] = IF i <= Len(a) THEN a[i] ELSE <<c>>[i - Len(a)]
  BY <1>1, ConcatProperties DEF Strings
<1> HIDE DEF m
<1>3. /\ m \o b \in Seq(Chars) /\ Len(m \o b) = Len(m) + Len(b)
      /\ \A i \in 1 .. Len(m) + Len(b) : (m \o b)[i] = IF i <= Len(m) THEN m[i] ELSE b[i - Len(m)]
  <2>1. b \in Seq(Chars)
    BY DEF Strings
  <2>2. m \in Seq(Chars)
    BY <1>2
  <2> QED BY ONLY <2>1, <2>2, ConcatProperties
<1>4. Len(a) \in Nat /\ Len(b) \in Nat
  BY DEF Strings
<1>5. m[Len(a) + 1] = c /\ \A i \in 1..Len(a) : m[i] = a[i]
  BY <1>1, <1>2, <1>4
<1>6. /\ m \o b \in Strings
      /\ Len(m \o b) = Len(a) + 1 + Len(b)
      /\ \A k \in 1..Len(a) : (m \o b)[k] = a[k]
      /\ (m \o b)[Len(a) + 1] = c
      /\ \A k \in 1..Len(b) : (m \o b)[Len(a) + 1 + k] = b[k]
      /\ \A k \in Len(a)+2 .. Len(m \o b) : (m \o b)[k] = b[k - Len(a) - 1]
  BY <1>2, <1>3, <1>4, <1>5 DEF Strings
<1> QED BY <1>6 DEF m, Join

\* The parts of such a string are found again.
LEMMA Parts ==
  ASSUME NEW a \in Strings, NEW c \in Chars, NEW b \in Strings,
         NEW s, s = Join(a, c, b)
  PROVE  /\ Upto(s, Len(a) + 1 - 1) = a
         /\ From(s, Len(a) + 1 + 1) = b
<1>1. /\ s \in Strings
      /\ Len(s) = Len(a) + 1 + Len(b)
      /\ \A k \in 1..Len(a) : s[k] = a[k]
      /\ \A k \in 1..Len(b) : s[Len(a) + 1 + k] = b[k]
  BY Around
<1>2. Len(a) \in Nat /\ Len(b) \in Nat
  BY DEF Strings
<1>3. /\ SubSeq(s, 1, Len(a)) \in Seq(Chars)
      /\ Len(SubSeq(s, 1, Len(a))) = Len(a)
      /\ \A i \in 1..Len(a) : SubSeq(s, 1, Len(a))[i] = s[i]
  <2>1. \A i \in 1..Len(a) : s[i] \in Chars
    BY <1>1, <1>2 DEF Strings
  <2> QED BY <2>1, <1>2, SubSeqProperties
<1>4. SubSeq(s, 1, Len(a)) = a
  BY <1>1, <1>2, <1>3, SeqEqual DEF Strings
<1>5. /\ SubSeq(s, Len(a) + 2, Len(s)) \in Seq(Chars)
      /\ Len(SubSeq(s, Len(a) + 2, Len(s))) = Len(b)
      /\ \A i \in 1..Len(b) : SubSeq(s, Len(a) + 2, Len(s))[i] = s[Len(a) + 1 + i]
  <2>1. \A i \in Len(a) + 2 .. Len(s) : s[i] \in Chars
    BY <1>1, <1>2 DEF Strings
  <2> QED BY <2>1, <1>1, <1>2, SubSeqProperties
<1>6. SubSeq(s, Len(a) + 2, Len(s)) = b
  BY <1>1, <1>2, <1>5, SeqEqual, Zenon DEF Strings
<1>7. Len(a) + 1 - 1 = Len(a) /\ Len(a) + 1 + 1 = Len(a) + 2
  BY <1>2
<1> QED BY <1>4, <1>6, <1>7 DEF Upto, From

\* Cutting a string at one character and putting it together again.
LEMMA Cut ==
  ASSUME NEW s \in Strings, NEW k \in 1..Len(s)
  PROVE  /\ Upto(s, k - 1) \in Strings /\ Len(Upto(s, k - 1)) = k - 1
         /\ \A i \in 1..(k - 1) : Upto(s, k - 1)[i] = s[i]
         /\ From(s, k + 1) \in Strings /\ Len(From(s, k + 1)) = Len(s) - k
         /\ \A i \in 1..(Len(s) - k) : From(s, k + 1)[i] = s[k + i]
         /\ s = Join(Upto(s, k - 1), s[k], From(s, k + 1))
<1> DEFINE a == Upto(s, k - 1)
           b == From(s, k + 1)
<1>1. Len(s) \in Nat /\ k \in Nat /\ 1 <= k /\ k <= Len(s) /\ \A i \in 1..Len(s) : s[i] \in Chars
  BY DEF Strings
<1>2. /\ a \in Seq(Chars) /\ Len(a) = k - 1
      /\ \A i \in 1..(k - 1) : a[i] = s[i]
  <2>1. \A i \in 1..(k - 1) : s[i] \in Chars
    BY <1>1
  <2> QED BY <2>1, <1>1, SubSeqProperties DEF Upto
<1>3. /\ b \in Seq(Chars) /\ Len(b) = Len(s) - k
      /\ \A i \in 1..(Len(s) - k) : b[i] = s[k + i]
  <2>1. \A i \in k + 1 .. Len(s) : s[i] \in Chars
    BY <1>1
  <2> QED BY <2>1, <1>1, SubSeqProperties DEF From
<1> HIDE DEF a, b
<1>4. s[k] \in Chars
  BY <1>1
<1> DEFINE t == Join(a, s[k], b)
<1>5. /\ t \in Strings
      /\ Len(t) = Len(a) + 1 + Len(b)
      /\ \A i \in 1..Len(a) : t[i] = a[i]
      /\ t[Len(a) + 1] = s[k]
      /\ \A i \in Len(a)+2 .. Len(t) : t[i] = b[i - Len(a) - 1]
  <2>1. a \in Strings /\ b \in Strings
    BY <1>2, <1>3 DEF Strings
  <2>2. t = Join(a, s[k], b)
    OBVIOUS
  <2> HIDE DEF t
  <2> QED BY <2>1, <2>2, <1>4, Around
<1> HIDE DEF t
<1>6. Len(t) = Len(s) /\ \A i \in 1..Len(s) : t[i] = s[i]
  BY <1>1, <1>2, <1>3, <1>5
<1>7. s = t
  BY <1>5, <1>6, SeqEqual DEF Strings
<1> QED BY <1>2, <1>3, <1>7 DEF a, b, t, Strings

\* A character of a joined string is in one of its parts.
LEMMA HasJoin ==
  ASSUME NEW a \in Strings, NEW c \in Chars, NEW b \in Strings, NEW x
  PROVE  Has(Join(a, c, b), x) <=> Has(a, x) \/ c = x \/ Has(b, x)
<1> DEFINE s == Join(a, c, b)
<1>1. s = Join(a, c, b)
  OBVIOUS
<1> HIDE DEF s
<1>2. /\ s \in Strings
      /\ Len(s) = Len(a) + 1 + Len(b)
      /\ \A k \in 1..Len(a) : s[k] = a[k]
      /\ s[Len(a) + 1] = c
      /\ \A k \in 1..Len(b) : s[Len(a) + 1 + k] = b[k]
      /\ \A k \in Len(a)+2 .. Len(s) : s[k] = b[k - Len(a) - 1]
  BY <1>1, Around
<1>3. Len(a) \in Nat /\ Len(b) \in Nat
  BY DEF Strings
<1>4. ASSUME Has(s, x) PROVE Has(a, x) \/ c = x \/ Has(b, x)
  <2>1. PICK k \in 1..Len(s) : s[k] = x
    BY <1>4 DEF Has
  <2>2. CASE k <= Len(a)
    BY <2>1, <2>2, <1>2, <1>3 DEF Has
  <2>3. CASE k = Len(a) + 1
    BY <2>1, <2>3, <1>2
  <2>4. CASE k > Len(a) + 1
    <3>1. b[k - Len(a) - 1] = x /\ k - Len(a) - 1 \in 1..Len(b)
      BY <2>1, <2>4, <1>2, <1>3
    <3> QED BY <3>1 DEF Has
  <2>5. k <= Len(a) \/ k = Len(a) + 1 \/ k > Len(a) + 1
    BY <1>2, <1>3
  <2> QED BY <2>2, <2>3, <2>4, <2>5
<1>5. ASSUME Has(a, x) PROVE Has(s, x)
  BY <1>5, <1>2, <1>3 DEF Has
<1>6. ASSUME c = x PROVE Has(s, x)
  <2>1. Len(a) + 1 \in 1..Len(s)
    BY <1>2, <1>3
  <2> QED BY <2>1, <1>6, <1>2 DEF Has
<1>7. ASSUME Has(b, x) PROVE Has(s, x)
  <2>1. PICK k \in 1..Len(b) : b[k] = x
    BY <1>7 DEF Has
  <2>2. Len(a) + 1 + k \in 1..Len(s) /\ s[Len(a) + 1 + k] = x
    BY <2>1, <1>2, <1>3
  <2> QED BY <2>2 DEF Has
<1> QED BY <1>1, <1>4, <1>5, <1>6, <1>7

-----------------------------------------------------------------------------
(* Reference::parse *)

\* The characters that structure a reference are characters.
LEMMA Punctuation == {"/", ":", "@"} \subseteq Chars
BY NamesAssumption

\* split_once cuts a string where its left part ends, if that has no such character.
LEMMA FirstOfJoin ==
  ASSUME NEW a \in Strings, NEW c \in Chars, NEW b \in Strings, ~Has(a, c),
         NEW s, s = Join(a, c, b)
  PROVE  First(s, c) = Len(a) + 1 /\ Has(s, c)
<1>1. /\ s \in Strings
      /\ Len(s) = Len(a) + 1 + Len(b)
      /\ \A k \in 1..Len(a) : s[k] = a[k]
      /\ s[Len(a) + 1] = c
  BY Around
<1>2. Len(a) \in Nat /\ Len(b) \in Nat
  BY DEF Strings
<1>3. FirstAt(s, c, Len(a) + 1)
  BY <1>1, <1>2 DEF FirstAt, Has
<1> QED BY <1>1, <1>3, FirstUnique, HasJoin

\* A name is parsed into the parts it was joined of.
LEMMA PartsOfJoin ==
  ASSUME NEW h \in Strings, h # <<>>, ~Has(h, "/"), NEW r \in Strings, r # <<>>,
         NEW t, t # <<>>
  PROVE  ParseParts(Join(h, "/", r), t) = [registry |-> h, repository |-> r, reference |-> t]
<1> DEFINE s == Join(h, "/", r)
<1>1. s = Join(h, "/", r) /\ "/" \in Chars
  BY Punctuation
<1> HIDE DEF s
<1>2. First(s, "/") = Len(h) + 1 /\ Has(s, "/")
  BY <1>1, FirstOfJoin
<1>3. Upto(s, Len(h) + 1 - 1) = h /\ From(s, Len(h) + 1 + 1) = r
  BY <1>1, Parts
<1>4. Len(s) = Len(h) + 1 + Len(r)
  BY <1>1, Around
<1>5. Len(h) \in Nat \ {0} /\ Len(r) \in Nat \ {0}
  BY DEF Strings
<1>6. Len(h) + 1 # 1 /\ Len(h) + 1 # Len(s)
  BY <1>4, <1>5
<1> QED BY <1>1, <1>2, <1>3, <1>6 DEF ParseParts

\* Conversely, what is accepted was such a string.
LEMMA JoinOfParts ==
  ASSUME NEW id \in Strings, NEW t, ParseParts(id, t) # Bad
  PROVE  LET p == ParseParts(id, t) IN
         /\ p.registry \in Strings /\ p.registry # <<>> /\ ~Has(p.registry, "/")
         /\ p.repository \in Strings /\ p.repository # <<>>
         /\ id = Join(p.registry, "/", p.repository)
         /\ p.reference = t /\ t # <<>>
         /\ p = [registry |-> p.registry, repository |-> p.repository, reference |-> t]
<1> DEFINE k == First(id, "/")
<1>1. Has(id, "/") /\ k # 1 /\ k # Len(id) /\ t # <<>>
  BY DEF ParseParts
<1>2. ParseParts(id, t) = [registry |-> Upto(id, k - 1), repository |-> From(id, k + 1), reference |-> t]
  BY <1>1 DEF ParseParts
<1>3. FirstAt(id, "/", k)
  BY <1>1, FirstIsFirst
<1> HIDE DEF k
<1>4. /\ k \in 1..Len(id) /\ id[k] = "/" /\ Len(id) \in Nat
      /\ \A j \in 1..Len(id) : j < k => id[j] # "/"
  BY <1>3 DEF FirstAt, Strings
<1>5. /\ Upto(id, k - 1) \in Strings /\ Len(Upto(id, k - 1)) = k - 1
      /\ \A i \in 1..(k - 1) : Upto(id, k - 1)[i] = id[i]
      /\ From(id, k + 1) \in Strings /\ Len(From(id, k + 1)) = Len(id) - k
      /\ id = Join(Upto(id, k - 1), id[k], From(id, k + 1))
  BY <1>4, Cut, Zenon
<1>6. Upto(id, k - 1) # <<>> /\ From(id, k + 1) # <<>>
  BY <1>1, <1>4, <1>5
<1>7. ~Has(Upto(id, k - 1), "/")
  BY <1>4, <1>5 DEF Has
<1> QED BY <1>1, <1>2, <1>4, <1>5, <1>6, <1>7

\* The name and the reference a string is split into: the name has no '@', and
\* the two make up the string in one of three ways.
LEMMA SplitCases ==
  ASSUME NEW s \in Strings
  PROVE  LET id == SplitRef(s)[1]
             t == SplitRef(s)[2] IN
         /\ id \in Strings /\ ~Has(id, "@")
         /\ \/ Has(s, "@") /\ t \in Strings /\ s = Join(id, "@", t) /\ id = Base(s)
            \/ /\ ~Has(s, "@") /\ HasTag(s) /\ t \in Strings /\ s = Join(id, ":", t)
               /\ id = Upto(s, Tag(s) - 1)
               /\ ~Has(t, "@") /\ ~Has(t, ":") /\ ~Has(t, "/")
            \/ ~Has(s, "@") /\ ~HasTag(s) /\ id = s /\ t = Latest
<1>1. CASE Has(s, "@")
  <2> DEFINE k == First(s, "@")
  <2>1. SplitRef(s) = <<Upto(s, k - 1), From(s, k + 1)>> /\ Base(s) = Upto(s, k - 1)
    BY <1>1 DEF SplitRef, Base
  <2>2. FirstAt(s, "@", k)
    BY <1>1, FirstIsFirst
  <2> HIDE DEF k
  <2>3. /\ k \in 1..Len(s) /\ s[k] = "@" /\ Len(s) \in Nat
        /\ \A j \in 1..Len(s) : j < k => s[j] # "@"
    BY <2>2 DEF FirstAt, Strings
  <2>4. /\ Upto(s, k - 1) \in Strings /\ Len(Upto(s, k - 1)) = k - 1
        /\ \A i \in 1..(k - 1) : Upto(s, k - 1)[i] = s[i]
        /\ From(s, k + 1) \in Strings
        /\ s = Join(Upto(s, k - 1), s[k], From(s, k + 1))
    BY <2>3, Cut, Zenon
  <2>5. ~Has(Upto(s, k - 1), "@")
    BY <2>3, <2>4 DEF Has
  <2> QED BY <1>1, <2>1, <2>3, <2>4, <2>5
<1>2. CASE ~Has(s, "@") /\ HasTag(s)
  <2> DEFINE k == Tag(s)
  <2>1. SplitRef(s) = <<Upto(s, k - 1), From(s, k + 1)>>
    BY <1>2 DEF SplitRef
  <2>2. TagAt(s, k)
    BY <1>2, TagIsTag
  <2>3. k = Tag(s)
    OBVIOUS
  <2> HIDE DEF k
  <2>4. /\ k \in 1..Len(s) /\ s[k] = ":" /\ Len(s) \in Nat
        /\ \A j \in 1..Len(s) : k < j => s[j] \notin {":", "/"}
        /\ \A j \in 1..Len(s) : s[j] # "@"
    BY <1>2, <2>2 DEF TagAt, Strings, Has
  <2>5. /\ Upto(s, k - 1) \in Strings /\ Len(Upto(s, k - 1)) = k - 1
        /\ \A i \in 1..(k - 1) : Upto(s, k - 1)[i] = s[i]
        /\ From(s, k + 1) \in Strings /\ Len(From(s, k + 1)) = Len(s) - k
        /\ \A i \in 1..(Len(s) - k) : From(s, k + 1)[i] = s[k + i]
        /\ s = Join(Upto(s, k - 1), s[k], From(s, k + 1))
    BY <2>4, Cut, ZenonT(30)
  <2>6. ~Has(Upto(s, k - 1), "@")
    BY <2>4, <2>5 DEF Has
  <2>7. \A i \in 1..Len(From(s, k + 1)) : From(s, k + 1)[i] \notin {"@", ":", "/"}
    <3> TAKE i \in 1..Len(From(s, k + 1))
    <3>1. k + i \in 1..Len(s) /\ k < k + i /\ From(s, k + 1)[i] = s[k + i]
      BY <2>4, <2>5
    <3> QED BY <3>1, <2>4
  <2>8. /\ ~Has(From(s, k + 1), "@") /\ ~Has(From(s, k + 1), ":") /\ ~Has(From(s, k + 1), "/")
    BY <2>7 DEF Has
  <2> QED BY <1>2, <2>1, <2>3, <2>4, <2>5, <2>6, <2>8
<1>3. CASE ~Has(s, "@") /\ ~HasTag(s)
  BY <1>3 DEF SplitRef
<1> QED BY <1>1, <1>2, <1>3

\* A reference with a tag is parsed into what it was put together of.
LEMMA ParseTagged ==
  ASSUME NEW h \in Strings, h # <<>>, ~Has(h, "/"), ~Has(h, "@"),
         NEW r \in Strings, r # <<>>, ~Has(r, "@"),
         NEW t \in Strings, t # <<>>, ~Has(t, "@"), ~Has(t, ":"), ~Has(t, "/")
  PROVE  Parse(Join(Join(h, "/", r), ":", t)) = [registry |-> h, repository |-> r, reference |-> t]
<1> DEFINE id == Join(h, "/", r)
           s == Join(id, ":", t)
<1>1. id = Join(h, "/", r) /\ "/" \in Chars /\ ":" \in Chars
  BY Punctuation
<1>2. s = Join(id, ":", t)
  OBVIOUS
<1> HIDE DEF id, s
<1>3. id \in Strings
  BY <1>1, Around
<1>4. ~Has(id, "@")
  BY <1>1, HasJoin
<1>5. ~Has(s, "@")
  BY <1>1, <1>2, <1>3, <1>4, HasJoin
<1>6. /\ s \in Strings
      /\ Len(s) = Len(id) + 1 + Len(t)
      /\ s[Len(id) + 1] = ":"
      /\ \A k \in Len(id)+2 .. Len(s) : s[k] = t[k - Len(id) - 1]
  <2>1. ":" \in Chars /\ t \in Strings
    BY <1>1
  <2> QED BY ONLY <2>1, <1>2, <1>3, Around
<1>7. Len(id) \in Nat /\ Len(t) \in Nat
  BY <1>3 DEF Strings
<1>8. TagAt(s, Len(id) + 1)
  <2>1. ASSUME NEW j \in 1..Len(s), Len(id) + 1 < j PROVE s[j] \notin {":", "/"}
    <3>1. j - Len(id) - 1 \in 1..Len(t) /\ s[j] = t[j - Len(id) - 1]
      BY <2>1, <1>6, <1>7
    <3> QED BY <3>1 DEF Has
  <2>2. Len(id) + 1 \in 1..Len(s)
    BY <1>6, <1>7
  <2> QED BY <2>1, <2>2, <1>6 DEF TagAt
<1>9. HasTag(s) /\ Tag(s) = Len(id) + 1
  BY <1>6, <1>8, TagUnique
<1>10. Upto(s, Len(id) + 1 - 1) = id /\ From(s, Len(id) + 1 + 1) = t
  BY <1>1, <1>2, <1>3, Parts
<1>11. SplitRef(s) = <<id, t>>
  BY <1>5, <1>9, <1>10 DEF SplitRef
<1>12. ParseParts(id, t) = [registry |-> h, repository |-> r, reference |-> t]
  BY <1>1, PartsOfJoin
<1> QED BY <1>1, <1>2, <1>11, <1>12 DEF Parse

\* So is one with a digest.
LEMMA ParseDigest ==
  ASSUME NEW h \in Strings, h # <<>>, ~Has(h, "/"), ~Has(h, "@"),
         NEW r \in Strings, r # <<>>, ~Has(r, "@"),
         NEW d \in Strings, d # <<>>
  PROVE  Parse(Join(Join(h, "/", r), "@", d)) = [registry |-> h, repository |-> r, reference |-> d]
<1> DEFINE id == Join(h, "/", r)
           s == Join(id, "@", d)
<1>1. id = Join(h, "/", r) /\ "/" \in Chars /\ "@" \in Chars
  BY Punctuation
<1>2. s = Join(id, "@", d)
  OBVIOUS
<1> HIDE DEF id, s
<1>3. id \in Strings
  BY <1>1, Around
<1>4. ~Has(id, "@")
  BY <1>1, HasJoin
<1>5. First(s, "@") = Len(id) + 1 /\ Has(s, "@")
  BY <1>1, <1>2, <1>3, <1>4, FirstOfJoin
<1>6. Upto(s, Len(id) + 1 - 1) = id /\ From(s, Len(id) + 1 + 1) = d
  BY <1>1, <1>2, <1>3, Parts
<1>7. SplitRef(s) = <<id, d>>
  BY <1>5, <1>6 DEF SplitRef
<1>8. ParseParts(id, d) = [registry |-> h, repository |-> r, reference |-> d]
  BY <1>1, PartsOfJoin
<1> QED BY <1>1, <1>2, <1>7, <1>8 DEF Parse

-----------------------------------------------------------------------------
(* Tags *)

\* sanitize_tag makes a tag of every string.
LEMMA SanitizedIsTag ==
  ASSUME NEW n \in Strings
  PROVE  /\ SanitizeTag(n) \in Strings
         /\ Len(SanitizeTag(n)) \in 1..TagLen
         /\ \A k \in 1..Len(SanitizeTag(n)) : SanitizeTag(n)[k] \in TagChars
         /\ (Len(n) \in 1..TagLen /\ \A k \in 1..Len(n) : n[k] \in TagChars) => SanitizeTag(n) = n
<1> DEFINE out == [k \in 1..Len(n) |-> IF n[k] \in TagChars THEN n[k] ELSE "-"]
<1>1. TagChars \subseteq Chars /\ "-" \in TagChars /\ TagLen \in Nat \ {0}
  BY NamesAssumption
<1>2. Len(n) \in Nat /\ n \in Seq(Chars)
  BY DEF Strings
<1>3. out \in Seq(TagChars) /\ Len(out) = Len(n)
  BY <1>1, <1>2
<1>4. (\A k \in 1..Len(n) : n[k] \in TagChars) => out = n
  BY <1>2
<1>5. SanitizeTag(n) = IF n = <<>> THEN Rev ELSE IF Len(n) <= TagLen THEN out ELSE Upto(out, TagLen)
  BY DEF SanitizeTag
<1> HIDE DEF out
<1>6. Rev \in Seq(TagChars) /\ Len(Rev) \in 1..TagLen
  BY NamesAssumption
<1>7. ASSUME TagLen < Len(n)
      PROVE  Upto(out, TagLen) \in Seq(TagChars) /\ Len(Upto(out, TagLen)) = TagLen
  <2>1. \A i \in 1..TagLen : out[i] \in TagChars
    BY <1>1, <1>2, <1>3, <1>7
  <2> QED BY <2>1, <1>1, SubSeqProperties DEF Upto
<1>8. SanitizeTag(n) \in Seq(TagChars) /\ Len(SanitizeTag(n)) \in 1..TagLen
  <2>1. CASE n = <<>>
    BY <2>1, <1>5, <1>6
  <2>2. CASE n # <<>> /\ Len(n) <= TagLen
    BY <2>2, <1>1, <1>2, <1>3, <1>5
  <2>3. CASE n # <<>> /\ TagLen < Len(n)
    BY <2>3, <1>1, <1>2, <1>5, <1>7
  <2> QED BY <2>1, <2>2, <2>3, <1>1, <1>2
<1>9. SanitizeTag(n) \in Seq(Chars)
  BY <1>1, <1>8
<1>10. (Len(n) \in 1..TagLen /\ \A k \in 1..Len(n) : n[k] \in TagChars) => SanitizeTag(n) = n
  BY <1>1, <1>2, <1>4, <1>5
<1> QED BY <1>8, <1>9, <1>10 DEF Strings

\* A tag is not empty and has no punctuation of a reference.
LEMMA SanitizedIsPlain ==
  ASSUME NEW n \in Strings
  PROVE  /\ SanitizeTag(n) # <<>>
         /\ ~Has(SanitizeTag(n), "@") /\ ~Has(SanitizeTag(n), ":") /\ ~Has(SanitizeTag(n), "/")
<1>1. \A k \in 1..Len(SanitizeTag(n)) : SanitizeTag(n)[k] \notin {"/", ":", "@"}
  BY SanitizedIsTag, NamesAssumption
<1>2. SanitizeTag(n) # <<>>
  BY SanitizedIsTag
<1> QED BY <1>1, <1>2 DEF Has

-----------------------------------------------------------------------------
(* The properties, for all strings *)

TypeOK == ref \in Strings /\ name \in Strings

\* What is spelt out are strings.
LEMMA TypeCorrect == Spec => []TypeOK
<1>1. Init => TypeOK
  BY DEF Init, TypeOK, Strings
<1>2. TypeOK /\ [Next]_vars => TypeOK'
  <2> SUFFICES ASSUME TypeOK, [Next]_vars PROVE TypeOK'
    OBVIOUS
  <2> USE DEF TypeOK, Strings
  <2>1. CASE SpellRef
    <3>1. PICK c \in RefChars : ref' = Append(ref, c)
      BY <2>1 DEF SpellRef
    <3>2. c \in Chars
      BY NamesAssumption
    <3> QED BY <2>1, <3>1, <3>2, AppendProperties DEF SpellRef
  <2>2. CASE SpellName
    <3>1. PICK c \in NameChars : name' = Append(name, c)
      BY <2>2 DEF SpellName
    <3>2. c \in Chars
      BY NamesAssumption
    <3> QED BY <2>2, <3>1, <3>2, AppendProperties DEF SpellName
  <2>3. CASE UNCHANGED vars
    BY <2>3 DEF vars
  <2> QED BY <2>1, <2>2, <2>3 DEF Next
<1> QED BY <1>1, <1>2, PTL DEF Spec

\* What is parsed is one of the three forms, cut where the form says
\* (Reference::parse).
THEOREM ParsedByGrammar == Spec => []ParseFollowsGrammar
<1>1. TypeOK => ParseFollowsGrammar
  <2> SUFFICES ASSUME TypeOK, Parse(ref) # Bad PROVE ParseFollowsGrammar
    BY DEF ParseFollowsGrammar
  <2> DEFINE id == SplitRef(ref)[1]
             t == SplitRef(ref)[2]
             r == Parse(ref)
  <2>1. /\ id \in Strings /\ ~Has(id, "@")
        /\ \/ Has(ref, "@") /\ t \in Strings /\ ref = Join(id, "@", t) /\ id = Base(ref)
           \/ /\ ~Has(ref, "@") /\ HasTag(ref) /\ t \in Strings /\ ref = Join(id, ":", t)
              /\ id = Upto(ref, Tag(ref) - 1)
              /\ ~Has(t, "@") /\ ~Has(t, ":") /\ ~Has(t, "/")
           \/ ~Has(ref, "@") /\ ~HasTag(ref) /\ id = ref /\ t = Latest
    BY SplitCases DEF TypeOK
  <2>2. r = ParseParts(id, t)
    BY DEF Parse
  <2> HIDE DEF id, t
  <2>3. /\ ~Has(r.registry, "/")
        /\ id = Join(r.registry, "/", r.repository)
        /\ r.reference = t
    BY <2>1, <2>2, JoinOfParts
  <2> QED BY <2>1, <2>3 DEF ParseFollowsGrammar
<1> QED BY <1>1, TypeCorrect, PTL

\* What the parts of an accepted reference are.
LEMMA Accepted ==
  ASSUME NEW s \in Strings, Parse(s) # Bad
  PROVE  LET r == Parse(s) IN
         /\ r.registry \in Strings /\ r.registry # <<>> /\ ~Has(r.registry, "/") /\ ~Has(r.registry, "@")
         /\ r.repository \in Strings /\ r.repository # <<>> /\ ~Has(r.repository, "@")
         /\ SplitRef(s)[1] = Join(r.registry, "/", r.repository)
         /\ r = [registry |-> r.registry, repository |-> r.repository, reference |-> r.reference]
<1> DEFINE id == SplitRef(s)[1]
           t == SplitRef(s)[2]
           r == Parse(s)
<1>1. id \in Strings /\ ~Has(id, "@")
  BY SplitCases
<1>2. r = ParseParts(id, t)
  BY DEF Parse
<1> HIDE DEF id, t
<1>3. /\ r.registry \in Strings /\ r.registry # <<>> /\ ~Has(r.registry, "/")
      /\ r.repository \in Strings /\ r.repository # <<>>
      /\ id = Join(r.registry, "/", r.repository)
      /\ r.reference = t
      /\ r = [registry |-> r.registry, repository |-> r.repository, reference |-> t]
  BY <1>1, <1>2, JoinOfParts
<1>4. ~Has(r.registry, "@") /\ ~Has(r.repository, "@")
  BY <1>1, <1>3, Punctuation, HasJoin
<1> QED BY <1>3, <1>4 DEF id

\* Without tag and digest a seed is what Reference::parse takes for its name.
LEMMA CaptureRepoIsName ==
  ASSUME NEW s \in Strings, Parse(s) # Bad, TagOrDigest(s)
  PROVE  ResolvedCaptureRepo(s) = SplitRef(s)[1]
<1> DEFINE id == SplitRef(s)[1]
           t == SplitRef(s)[2]
<1>1. /\ id \in Strings /\ ~Has(id, "@")
      /\ \/ Has(s, "@") /\ t \in Strings /\ s = Join(id, "@", t) /\ id = Base(s)
         \/ /\ ~Has(s, "@") /\ HasTag(s) /\ t \in Strings /\ s = Join(id, ":", t)
            /\ id = Upto(s, Tag(s) - 1)
            /\ ~Has(t, "@") /\ ~Has(t, ":") /\ ~Has(t, "/")
         \/ ~Has(s, "@") /\ ~HasTag(s) /\ id = s /\ t = Latest
  BY SplitCases
<1>2. Has(id, "/")
  BY DEF Parse, ParseParts
<1> HIDE DEF id, t
<1>3. CASE Has(s, "@")
  BY <1>1, <1>3 DEF ResolvedCaptureRepo, TagOrDigest, id
<1>4. CASE ~Has(s, "@") /\ HasTag(s)
  <2>1. Has(s, "/")
    BY <1>1, <1>2, <1>4, Punctuation, HasJoin
  <2> QED BY <1>1, <1>4, <2>1 DEF ResolvedCaptureRepo, Base, id
<1>5. CASE ~Has(s, "@") /\ ~HasTag(s)
  BY <1>1, <1>5 DEF ResolvedCaptureRepo, Base, id
<1> QED BY <1>3, <1>4, <1>5

\* A volume whose seed parses is captured to the seed's repository under the tag
\* of its name (freeze_on_unpublish with resolved_capture_repo and sanitize_tag).
THEOREM CapturesGoHome == Spec => []CaptureKeepsRepo
<1>1. TypeOK => CaptureKeepsRepo
  <2> SUFFICES ASSUME TypeOK, Parse(ref) # Bad, TagOrDigest(ref) PROVE CaptureKeepsRepo
    BY DEF CaptureKeepsRepo
  <2> DEFINE r == Parse(ref)
             tag == SanitizeTag(name)
  <2>1. /\ r.registry \in Strings /\ r.registry # <<>> /\ ~Has(r.registry, "/") /\ ~Has(r.registry, "@")
        /\ r.repository \in Strings /\ r.repository # <<>> /\ ~Has(r.repository, "@")
        /\ SplitRef(ref)[1] = Join(r.registry, "/", r.repository)
    BY Accepted DEF TypeOK
  <2>2. ResolvedCaptureRepo(ref) = SplitRef(ref)[1]
    BY CaptureRepoIsName DEF TypeOK
  <2>3. tag \in Strings /\ tag # <<>> /\ ~Has(tag, "@") /\ ~Has(tag, ":") /\ ~Has(tag, "/")
    BY SanitizedIsTag, SanitizedIsPlain DEF TypeOK
  <2>4. TargetRef(ResolvedCaptureRepo(ref), name) = Join(Join(r.registry, "/", r.repository), ":", tag)
    BY <2>1, <2>2 DEF TargetRef
  <2> HIDE DEF r, tag
  <2>5. Parse(Join(Join(r.registry, "/", r.repository), ":", tag)) =
          [registry |-> r.registry, repository |-> r.repository, reference |-> tag]
    BY <2>1, <2>3, ParseTagged
  <2> QED BY <2>4, <2>5 DEF CaptureKeepsRepo, r, tag
<1> QED BY <1>1, TypeCorrect, PTL

\* A snapshot id parses to where the snapshot was pushed, whatever repository was
\* configured (push_revision, snapshot_target).
THEOREM SnapshotsAreSeeds == Spec => []SnapshotIsSeed
<1>1. TypeOK => SnapshotIsSeed
  <2> SUFFICES ASSUME TypeOK, NEW repo \in {ref, SnapshotRepo(ref, name)},
                      Parse(TargetRef(repo, name)) # Bad
               PROVE  LET r == Parse(TargetRef(repo, name)) IN
                      Parse(PushedRef(r)) = [r EXCEPT !.reference = Digest]
    BY DEF SnapshotIsSeed
  <2> DEFINE s == TargetRef(repo, name)
             r == Parse(s)
  <2>1. repo \in Strings
    <3>1. Pvcs \in Strings
      BY NamesAssumption DEF Strings
    <3>2. "/" \in Chars /\ ref \in Strings /\ name \in Strings
      BY Punctuation DEF TypeOK
    <3>3. Join(ref, "/", Pvcs) \in Strings
      BY ONLY <3>1, <3>2, Around
    <3>4. Join(Join(ref, "/", Pvcs), "/", name) \in Strings
      BY ONLY <3>2, <3>3, Around
    <3> QED BY <3>2, <3>4 DEF SnapshotRepo
  <2>2. s \in Strings
    <3>1. ":" \in Chars /\ SanitizeTag(name) \in Strings
      BY Punctuation, SanitizedIsTag DEF TypeOK
    <3>2. Join(repo, ":", SanitizeTag(name)) \in Strings
      BY ONLY <2>1, <3>1, Around
    <3> QED BY <3>2 DEF TargetRef
  <2>3. r # Bad
    OBVIOUS
  <2> HIDE DEF s
  <2>4. /\ r.registry \in Strings /\ r.registry # <<>> /\ ~Has(r.registry, "/") /\ ~Has(r.registry, "@")
        /\ r.repository \in Strings /\ r.repository # <<>> /\ ~Has(r.repository, "@")
        /\ r = [registry |-> r.registry, repository |-> r.repository, reference |-> r.reference]
    BY <2>2, <2>3, Accepted
  <2> HIDE DEF r
  <2>5. Digest \in Strings /\ Digest # <<>>
    BY NamesAssumption DEF Strings
  <2>6. Parse(PushedRef(r)) = [registry |-> r.registry, repository |-> r.repository, reference |-> Digest]
    BY <2>4, <2>5, ParseDigest DEF PushedRef
  <2>7. Parse(PushedRef(r)) = [r EXCEPT !.reference = Digest]
    BY <2>4, <2>6
  <2> QED BY <2>7 DEF r, s
<1> QED BY <1>1, TypeCorrect, PTL

\* sanitize_tag makes a tag of every name and leaves tags alone.
THEOREM TagsAreNames == Spec => []TagIsName
<1>1. TypeOK => TagIsName
  BY SanitizedIsTag DEF TypeOK, TagIsName
<1> QED BY <1>1, TypeCorrect, PTL

=============================================================================
