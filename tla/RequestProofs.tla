--------------------------- MODULE RequestProofs ----------------------------
(***************************************************************************)
(* Theorems about what serves a request, and their proofs: for headers of  *)
(* any length, any lists of encodings and formats, any catalog and path,   *)
(* the prepared route answers as the resolver does, with the best variant  *)
(* (Negotiation); for any number of requests and variants, and any number  *)
(* of artifacts that come and go, bodies are sent under their own headers  *)
(* (Delivery); for any number of producers, workers, keys, queue slots and *)
(* panics, the queue loses no request for a variant (PipelineQueue).       *)
(***************************************************************************)
EXTENDS Delivery, Negotiation, PipelineQueue, Sums, SequenceTheorems, TLAPS, WellFoundedInduction

-----------------------------------------------------------------------------
(* Negotiation: what is kept of the headers *)

(***************************************************************************)
(* What AcceptHeader says of a header, with the header and its constants   *)
(* as parameters: there are two of them.                                   *)
(***************************************************************************)
EntriesOf(tokens, top) ==
    {e \in [token : tokens, q : 0..top, bare : BOOLEAN] : e.bare => e.q = top}
NamingIn(h, wild, nameOf, n) ==
    {i \in DOMAIN h : h[i].token \notin wild /\ nameOf[h[i].token] = n}
SayingIn(h, w) == {i \in DOMAIN h : h[i].token = w}
BestIn(h, wild, nameOf, n, quality) ==
    \/ quality = -1 /\ NamingIn(h, wild, nameOf, n) = {}
    \/ \E i \in NamingIn(h, wild, nameOf, n) :
          /\ quality = h[i].q
          /\ \A j \in NamingIn(h, wild, nameOf, n) : h[j].q <= h[i].q
LastIn(h, w, quality) ==
    \/ quality = -1 /\ SayingIn(h, w) = {}
    \/ \E i \in SayingIn(h, w) : quality = h[i].q /\ \A j \in SayingIn(h, w) : j <= i

(***************************************************************************)
(* What an entry that is read adds to the positions of a header.           *)
(***************************************************************************)
LEMMA Appended ==
    ASSUME NEW tokens, NEW top \in Nat, NEW h \in Seq(EntriesOf(tokens, top)),
           NEW e \in EntriesOf(tokens, top)
    PROVE  LET new == Len(h) + 1  g == Append(h, e) IN
           /\ g \in Seq(EntriesOf(tokens, top))
           /\ DOMAIN g = DOMAIN h \cup {new} /\ new \notin DOMAIN h
           /\ \A i \in DOMAIN h : g[i] = h[i] /\ i < new /\ h[i].q \in Int
           /\ g[new] = e /\ e.q \in Int
           /\ DOMAIN h \subseteq Nat /\ new \in Nat
<1> DEFINE E == EntriesOf(tokens, top)
<1>1. \A d \in E : d.q \in Int
  BY DEF EntriesOf
<1>2. Append(h, e) \in Seq(E) /\ \A i \in DOMAIN h : h[i] \in E
  OBVIOUS
<1>3. /\ Len(h) \in Nat /\ DOMAIN h = 1..Len(h) /\ DOMAIN Append(h, e) = 1..(Len(h) + 1)
      /\ \A i \in 1..Len(h) : Append(h, e)[i] = h[i]
      /\ Append(h, e)[Len(h) + 1] = e
  BY <1>2
<1> HIDE DEF E
<1> QED BY <1>1, <1>2, <1>3 DEF E

\* Of a name the best quality is kept.
LEMMA BestKept ==
    ASSUME NEW tokens, NEW wild, NEW nameOf, NEW n, NEW top \in Nat,
           NEW h \in Seq(EntriesOf(tokens, top)), NEW e \in EntriesOf(tokens, top),
           NEW quality \in 0..top \cup {-1}, BestIn(h, wild, nameOf, n, quality), NEW next,
           next = IF /\ e.token \notin wild /\ nameOf[e.token] = n
                     /\ quality = -1 \/ e.q > quality
                  THEN e.q ELSE quality
    PROVE  BestIn(Append(h, e), wild, nameOf, n, next)
<1> DEFINE new == Len(h) + 1
           g == Append(h, e)
           old == NamingIn(h, wild, nameOf, n)
<1>1. /\ DOMAIN g = DOMAIN h \cup {new} /\ new \notin DOMAIN h
      /\ \A i \in DOMAIN h : g[i] = h[i] /\ h[i].q \in Int
      /\ g[new] = e /\ e.q \in Int
  BY Appended
<1>2. old \subseteq DOMAIN h
  BY DEF NamingIn
<1> HIDE DEF new, g
<1>3. CASE e.token \notin wild /\ nameOf[e.token] = n
  <2>1. NamingIn(g, wild, nameOf, n) = old \cup {new}
    BY <1>1, <1>3 DEF NamingIn
  <2>2. CASE old = {}
    <3>1. quality = -1
      BY <2>2 DEF BestIn
    <3>2. next = e.q
      BY <1>3, <3>1
    <3> QED BY <1>1, <2>1, <2>2, <3>2 DEF BestIn, g
  <2>3. CASE old # {}
    <3>1. PICK i \in old : quality = h[i].q /\ \A j \in old : h[j].q <= h[i].q
      BY <2>3 DEF BestIn
    <3>2. i \in DOMAIN h /\ g[i].q = quality /\ \A j \in old : g[j].q <= quality /\ g[j].q \in Int
      BY <1>1, <1>2, <3>1
    <3>3. quality # -1
      <4>1. h[i] \in EntriesOf(tokens, top)
        BY <3>2
      <4> QED BY <3>1, <4>1 DEF EntriesOf
    <3>4. CASE e.q > quality
      <4>1. next = e.q
        BY <1>3, <3>4
      <4>2. \A j \in old \cup {new} : g[j].q <= g[new].q
        BY <1>1, <3>2, <3>4
      <4> QED BY <1>1, <2>1, <4>1, <4>2 DEF BestIn, g
    <3>5. CASE ~(e.q > quality)
      <4>1. next = quality
        BY <3>3, <3>5
      <4>2. \A j \in old \cup {new} : g[j].q <= g[i].q
        BY <1>1, <3>2, <3>5
      <4> QED BY <2>1, <3>1, <3>2, <4>1, <4>2 DEF BestIn, g
    <3> QED BY <3>4, <3>5
  <2> QED BY <2>2, <2>3
<1>4. CASE ~(e.token \notin wild /\ nameOf[e.token] = n)
  <2>1. NamingIn(g, wild, nameOf, n) = old /\ next = quality
    BY <1>1, <1>4 DEF NamingIn
  <2>2. \A i \in old : g[i] = h[i]
    BY <1>1, <1>2
  <2> QED BY <2>1, <2>2 DEF BestIn, g
<1> QED BY <1>3, <1>4

\* Of a wildcard it is the last one.
LEMMA LastKept ==
    ASSUME NEW tokens, NEW w, NEW top \in Nat,
           NEW h \in Seq(EntriesOf(tokens, top)), NEW e \in EntriesOf(tokens, top),
           NEW quality, LastIn(h, w, quality), NEW next,
           next = IF e.token = w THEN e.q ELSE quality
    PROVE  LastIn(Append(h, e), w, next)
<1> DEFINE new == Len(h) + 1
           g == Append(h, e)
           old == SayingIn(h, w)
<1>1. /\ DOMAIN g = DOMAIN h \cup {new} /\ new \notin DOMAIN h
      /\ \A i \in DOMAIN h : g[i] = h[i] /\ i < new
      /\ g[new] = e /\ DOMAIN h \subseteq Nat /\ new \in Nat
  BY Appended
<1>2. old \subseteq DOMAIN h
  BY DEF SayingIn
<1> HIDE DEF new, g
<1>3. CASE e.token = w
  <2>1. SayingIn(g, w) = old \cup {new}
    BY <1>1, <1>3 DEF SayingIn
  <2>2. \A j \in old \cup {new} : j <= new
    BY <1>1, <1>2
  <2> QED BY <1>1, <1>3, <2>1, <2>2 DEF LastIn, g
<1>4. CASE e.token # w
  <2>1. SayingIn(g, w) = old
    BY <1>1, <1>4 DEF SayingIn
  <2>2. \A i \in old : g[i] = h[i]
    BY <1>1, <1>2
  <2> QED BY <1>4, <2>1, <2>2 DEF LastIn, g
<1> QED BY <1>3, <1>4

(***************************************************************************)
(* The qualities kept of both headers are those they state, at every       *)
(* moment of reading them.                                                 *)
(***************************************************************************)
HeadersInv ==
    /\ AcceptEncoding!HeaderTypeOK /\ AcceptEncoding!QualitiesAreStated
    /\ Accept!HeaderTypeOK /\ Accept!QualitiesAreStated

LEMMA HeadersInit == NegotiationInit => HeadersInv
<1> SUFFICES ASSUME NegotiationInit PROVE HeadersInv
  OBVIOUS
<1>1. AcceptEncoding!HeaderTypeOK /\ AcceptEncoding!QualitiesAreStated
  BY DEF NegotiationInit, AcceptEncoding!HeaderInit, AcceptEncoding!HeaderTypeOK,
         AcceptEncoding!Unset, AcceptEncoding!QualitiesAreStated, AcceptEncoding!BestOfName,
         AcceptEncoding!LastOfWildcard, AcceptEncoding!Naming, AcceptEncoding!Saying
<1>2. Accept!HeaderTypeOK /\ Accept!QualitiesAreStated
  BY DEF NegotiationInit, Accept!HeaderInit, Accept!HeaderTypeOK,
         Accept!Unset, Accept!QualitiesAreStated, Accept!BestOfName,
         Accept!LastOfWildcard, Accept!Naming, Accept!Saying
<1> QED BY <1>1, <1>2 DEF HeadersInv

LEMMA EncodingEntryStep ==
    ASSUME HeadersInv, NEW e \in AcceptEncoding!Entries, AcceptEncoding!ReadEntry(e)
    PROVE  (AcceptEncoding!HeaderTypeOK /\ AcceptEncoding!QualitiesAreStated)'
<1> DEFINE nameOf == [t \in EncodingTokens \ {"*"} |-> t]
<1> USE DEF AcceptEncoding!Unset
<1>1. /\ Top \in Nat /\ AcceptEncoding!Entries = EntriesOf(EncodingTokens, Top)
      /\ AcceptEncoding!Qualities = 0..Top
  BY HeadersAssumption DEF AcceptEncoding!HeaderConstants, AcceptEncoding!Entries, EntriesOf,
     AcceptEncoding!Qualities
<1>2. /\ encHeader \in Seq(EntriesOf(EncodingTokens, Top))
      /\ e \in EntriesOf(EncodingTokens, Top) /\ encHeader' = Append(encHeader, e)
      /\ encExplicit \in [Range(Encodings) -> 0..Top \cup {-1}]
      /\ encWildcard \in [{"*"} -> 0..Top \cup {-1}]
  BY <1>1 DEF HeadersInv, AcceptEncoding!HeaderTypeOK, AcceptEncoding!ReadEntry
<1>3. /\ encHeader' \in Seq(EntriesOf(EncodingTokens, Top))
      /\ e.q \in 0..Top
  BY <1>2 DEF EntriesOf
<1>4. \/ /\ e.token = "*" /\ encExplicit' = encExplicit
         /\ encWildcard' = [encWildcard EXCEPT !["*"] = e.q]
      \/ /\ e.token # "*" /\ encWildcard' = encWildcard
         /\ encExplicit' =
              IF /\ nameOf[e.token] \in Range(Encodings)
                 /\ encExplicit[nameOf[e.token]] = -1 \/ e.q > encExplicit[nameOf[e.token]]
              THEN [encExplicit EXCEPT ![nameOf[e.token]] = e.q]
              ELSE encExplicit
  BY DEF AcceptEncoding!ReadEntry, AcceptEncoding!ApplyWildcard, AcceptEncoding!ApplyName,
         AcceptEncoding!ShouldReplaceQuality
<1>5. AcceptEncoding!HeaderTypeOK'
  BY <1>1, <1>2, <1>3, <1>4 DEF AcceptEncoding!HeaderTypeOK
<1>6. ASSUME NEW n \in Range(Encodings)
      PROVE  BestIn(encHeader', {"*"}, nameOf, n, encExplicit'[n])
  <2>1. BestIn(encHeader, {"*"}, nameOf, n, encExplicit[n])
    BY <1>6 DEF HeadersInv, AcceptEncoding!QualitiesAreStated, AcceptEncoding!BestOfName,
       AcceptEncoding!Naming, BestIn, NamingIn
  <2>2. encExplicit'[n] = IF /\ e.token \notin {"*"} /\ nameOf[e.token] = n
                             /\ encExplicit[n] = -1 \/ e.q > encExplicit[n]
                          THEN e.q ELSE encExplicit[n]
    BY <1>2, <1>4, <1>6
  <2>3. encExplicit[n] \in 0..Top \cup {-1}
    BY <1>2, <1>6
  <2> HIDE DEF nameOf
  <2> QED BY <1>1, <1>2, <2>1, <2>2, <2>3, BestKept
<1>7. LastIn(encHeader', "*", encWildcard'["*"])
  <2>1. LastIn(encHeader, "*", encWildcard["*"])
    BY DEF HeadersInv, AcceptEncoding!QualitiesAreStated, AcceptEncoding!LastOfWildcard,
       AcceptEncoding!Saying, LastIn, SayingIn
  <2>2. encWildcard'["*"] = IF e.token = "*" THEN e.q ELSE encWildcard["*"]
    BY <1>2, <1>4
  <2> QED BY <1>1, <1>2, <2>1, <2>2, LastKept
<1>8. AcceptEncoding!QualitiesAreStated'
  BY <1>6, <1>7 DEF AcceptEncoding!QualitiesAreStated, AcceptEncoding!BestOfName,
     AcceptEncoding!LastOfWildcard, AcceptEncoding!Naming, AcceptEncoding!Saying,
     BestIn, NamingIn, LastIn, SayingIn
<1> QED BY <1>5, <1>8

LEMMA ImageEntryStep ==
    ASSUME HeadersInv, NEW e \in Accept!Entries, Accept!ReadEntry(e)
    PROVE  (Accept!HeaderTypeOK /\ Accept!QualitiesAreStated)'
<1> DEFINE tokens == DOMAIN FormatOf \cup ImageWildcards
<1> USE DEF Accept!Unset
<1>1. /\ Top \in Nat /\ Accept!Entries = EntriesOf(tokens, Top)
      /\ Accept!Qualities = 0..Top
  BY HeadersAssumption DEF Accept!HeaderConstants, Accept!Entries, EntriesOf, Accept!Qualities
<1>2. /\ imgHeader \in Seq(EntriesOf(tokens, Top))
      /\ e \in EntriesOf(tokens, Top) /\ imgHeader' = Append(imgHeader, e)
      /\ imgExplicit \in [Range(Formats) -> 0..Top \cup {-1}]
      /\ imgWildcard \in [ImageWildcards -> 0..Top \cup {-1}]
  BY <1>1 DEF HeadersInv, Accept!HeaderTypeOK, Accept!ReadEntry
<1>3. /\ imgHeader' \in Seq(EntriesOf(tokens, Top))
      /\ e.q \in 0..Top
  BY <1>2 DEF EntriesOf
<1>4. \/ /\ e.token \in ImageWildcards /\ imgExplicit' = imgExplicit
         /\ imgWildcard' = [imgWildcard EXCEPT ![e.token] = e.q]
      \/ /\ e.token \notin ImageWildcards /\ imgWildcard' = imgWildcard
         /\ imgExplicit' =
              IF /\ FormatOf[e.token] \in Range(Formats)
                 /\ imgExplicit[FormatOf[e.token]] = -1 \/ e.q > imgExplicit[FormatOf[e.token]]
              THEN [imgExplicit EXCEPT ![FormatOf[e.token]] = e.q]
              ELSE imgExplicit
  BY DEF Accept!ReadEntry, Accept!ApplyWildcard, Accept!ApplyName, Accept!ShouldReplaceQuality
<1>5. Accept!HeaderTypeOK'
  BY <1>1, <1>2, <1>3, <1>4 DEF Accept!HeaderTypeOK
<1>6. ASSUME NEW f \in Range(Formats)
      PROVE  BestIn(imgHeader', ImageWildcards, FormatOf, f, imgExplicit'[f])
  <2>1. BestIn(imgHeader, ImageWildcards, FormatOf, f, imgExplicit[f])
    BY <1>6 DEF HeadersInv, Accept!QualitiesAreStated, Accept!BestOfName,
       Accept!Naming, BestIn, NamingIn
  <2>2. imgExplicit'[f] = IF /\ e.token \notin ImageWildcards /\ FormatOf[e.token] = f
                             /\ imgExplicit[f] = -1 \/ e.q > imgExplicit[f]
                          THEN e.q ELSE imgExplicit[f]
    BY <1>2, <1>4, <1>6
  <2>3. imgExplicit[f] \in 0..Top \cup {-1}
    BY <1>2, <1>6
  <2> HIDE DEF tokens
  <2> QED BY <1>1, <1>2, <2>1, <2>2, <2>3, BestKept
<1>7. ASSUME NEW w \in ImageWildcards PROVE LastIn(imgHeader', w, imgWildcard'[w])
  <2>1. LastIn(imgHeader, w, imgWildcard[w])
    BY <1>7 DEF HeadersInv, Accept!QualitiesAreStated, Accept!LastOfWildcard,
       Accept!Saying, LastIn, SayingIn
  <2>2. imgWildcard'[w] = IF e.token = w THEN e.q ELSE imgWildcard[w]
    BY <1>2, <1>4, <1>7
  <2> HIDE DEF tokens
  <2> QED BY <1>1, <1>2, <2>1, <2>2, LastKept
<1>8. Accept!QualitiesAreStated'
  BY <1>6, <1>7 DEF Accept!QualitiesAreStated, Accept!BestOfName,
     Accept!LastOfWildcard, Accept!Naming, Accept!Saying, BestIn, NamingIn, LastIn, SayingIn
<1> QED BY <1>5, <1>8

LEMMA EncodingUnread ==
    ASSUME HeadersInv, UNCHANGED <<encHeader, encExplicit, encWildcard>>
    PROVE  (AcceptEncoding!HeaderTypeOK /\ AcceptEncoding!QualitiesAreStated)'
<1>1. AcceptEncoding!HeaderTypeOK'
  BY DEF HeadersInv, AcceptEncoding!HeaderTypeOK
<1>2. AcceptEncoding!BestOfName'
  BY DEF HeadersInv, AcceptEncoding!QualitiesAreStated, AcceptEncoding!BestOfName,
     AcceptEncoding!Naming
<1>3. AcceptEncoding!LastOfWildcard'
  BY DEF HeadersInv, AcceptEncoding!QualitiesAreStated, AcceptEncoding!LastOfWildcard,
     AcceptEncoding!Saying
<1> QED BY <1>1, <1>2, <1>3 DEF AcceptEncoding!QualitiesAreStated

LEMMA ImageUnread ==
    ASSUME HeadersInv, UNCHANGED <<imgHeader, imgExplicit, imgWildcard>>
    PROVE  (Accept!HeaderTypeOK /\ Accept!QualitiesAreStated)'
  BY DEF HeadersInv, Accept!HeaderTypeOK, Accept!QualitiesAreStated,
     Accept!BestOfName, Accept!LastOfWildcard, Accept!Naming, Accept!Saying

LEMMA HeadersStep == HeadersInv /\ [NegotiationNext]_negotiationVars => HeadersInv'
<1> SUFFICES ASSUME HeadersInv, [NegotiationNext]_negotiationVars PROVE HeadersInv'
  OBVIOUS
<1>1. CASE UNCHANGED headers
  BY <1>1, EncodingUnread, ImageUnread DEF headers, HeadersInv
<1>2. CASE ReadAcceptEncoding
  BY <1>2, EncodingEntryStep, ImageUnread DEF ReadAcceptEncoding, HeadersInv
<1>3. CASE ReadAccept
  BY <1>3, EncodingUnread, ImageEntryStep DEF ReadAccept, HeadersInv
<1> QED BY <1>1, <1>2, <1>3 DEF NegotiationNext, Route, Found, BuildRequest, Answer, negotiationVars

(***************************************************************************)
(* What is kept of both headers, at every moment of reading them, is what  *)
(* they state: of a name the best quality, of a wildcard the last one.     *)
(***************************************************************************)
THEOREM QualitiesStated ==
    NegotiationSpec => [](AcceptEncoding!QualitiesAreStated /\ Accept!QualitiesAreStated)
<1>1. HeadersInv => AcceptEncoding!QualitiesAreStated /\ Accept!QualitiesAreStated
  BY DEF HeadersInv
<1> QED BY <1>1, HeadersInit, HeadersStep, PTL DEF NegotiationSpec

-----------------------------------------------------------------------------
(* Negotiation: choosing the first *)

Precedes(a, b, c, x, y) ==
    \/ a[x] < a[y]
    \/ a[x] = a[y] /\ b[x] < b[y]
    \/ a[x] = a[y] /\ b[x] = b[y] /\ c[x] < c[y]

(***************************************************************************)
(* Of a nonempty set one element comes first by three numbers, the last of *)
(* which tells all of them apart.                                          *)
(***************************************************************************)
LEMMA FirstOfThree ==
    ASSUME NEW S, S # {}, NEW a \in [S -> Nat], NEW b \in [S -> Nat], NEW c \in [S -> Nat],
           \A x, y \in S : c[x] = c[y] => x = y
    PROVE  \E x \in S : \A y \in S \ {x} : Precedes(a, b, c, x, y)
<1>1. PICK x1 \in S : \A y \in S : a[x1] <= a[y]
  <2> DEFINE N == {a[y] : y \in S}
  <2>1. N \in SUBSET Nat /\ N # {}
    OBVIOUS
  <2>2. \E n \in N : \A m \in N : n <= m
    <3> HIDE DEF N
    <3> QED BY <2>1, LeastNatural
  <2> QED BY <2>2
<1> DEFINE T == {y \in S : a[y] = a[x1]}
<1>2. PICK x2 \in T : \A y \in T : b[x2] <= b[y]
  <2> DEFINE N == {b[y] : y \in T}
  <2>1. N \in SUBSET Nat /\ N # {}
    BY <1>1
  <2>2. \E n \in N : \A m \in N : n <= m
    <3> HIDE DEF N
    <3> QED BY <2>1, LeastNatural
  <2> QED BY <2>2
<1> DEFINE U == {y \in T : b[y] = b[x2]}
<1>3. PICK x3 \in U : \A y \in U : c[x3] <= c[y]
  <2> DEFINE N == {c[y] : y \in U}
  <2>1. N \in SUBSET Nat /\ N # {}
    BY <1>2
  <2>2. \E n \in N : \A m \in N : n <= m
    <3> HIDE DEF N
    <3> QED BY <2>1, LeastNatural
  <2> QED BY <2>2
<1>4. ASSUME NEW y \in S \ {x3}
      PROVE  Precedes(a, b, c, x3, y)
  <2>1. /\ a[x3] = a[x1] /\ b[x3] = b[x2] /\ x3 \in S
        /\ a[x3] \in Nat /\ a[y] \in Nat /\ b[x3] \in Nat /\ b[y] \in Nat
        /\ c[x3] \in Nat /\ c[y] \in Nat
    OBVIOUS
  <2>2. a[x3] <= a[y]
    BY <1>1, <2>1
  <2>3. a[y] = a[x3] => b[x3] <= b[y]
    BY <1>2, <2>1
  <2>4. a[y] = a[x3] /\ b[y] = b[x3] => c[x3] <= c[y]
    BY <1>3, <2>1
  <2>5. c[x3] # c[y]
    BY <2>1
  <2> HIDE DEF T, U
  <2> QED BY <2>1, <2>2, <2>3, <2>4, <2>5 DEF Precedes
<1> QED BY <1>4

LEMMA PriorityIsPlace ==
    ASSUME NEW names \in Seq(STRING), NEW n \in Range(names)
    PROVE  Priority(names, n) \in Nat \ {0} /\ names[Priority(names, n)] = n
<1>1. \E i \in DOMAIN names : names[i] = n
  BY DEF Range
<1>2. Priority(names, n) \in DOMAIN names /\ names[Priority(names, n)] = n
  BY <1>1 DEF Priority
<1> QED BY <1>2

\* The types of what the choice is made from.
LEMMA KeptQualities ==
    ASSUME HeadersInv
    PROVE  /\ Top \in Nat
           /\ encExplicit \in [Range(Encodings) -> 0..Top \cup {-1}]
           /\ encWildcard["*"] \in 0..Top \cup {-1}
           /\ imgExplicit \in [Range(Formats) -> 0..Top \cup {-1}]
           /\ imgWildcard["image/*"] \in 0..Top \cup {-1}
           /\ imgWildcard["*/*"] \in 0..Top \cup {-1}
  BY HeadersAssumption DEF HeadersInv, AcceptEncoding!HeaderConstants, AcceptEncoding!HeaderTypeOK,
     AcceptEncoding!Qualities, AcceptEncoding!Unset, Accept!HeaderTypeOK, Accept!Qualities,
     Accept!Unset, ImageWildcards

LEMMA EncodingQualityType ==
    ASSUME HeadersInv, NEW n \in Range(Encodings)
    PROVE  encodingQuality(n) \in 0..Top \cup {-1}
  BY KeptQualities DEF encodingQuality

LEMMA ImageQualityType ==
    ASSUME HeadersInv, NEW f \in Range(Formats)
    PROVE  imageQualityForFormat(f) \in 0..Top \cup {-1}
  BY KeptQualities DEF imageQualityForFormat, imagePreferenceMatch

\* So sorting finds a first candidate.
LEMMA FirstEncoding ==
    ASSUME HeadersInv, NEW S \in SUBSET Range(Encodings), S # {}
    PROVE  LET x == First(S, compareEncodingCandidates)
           IN  x \in S /\ \A y \in S \ {x} : compareEncodingCandidates(x, y)
<1> DEFINE a == [x \in S |-> 0]
           b == [x \in S |-> Top - encodingQuality(x)]
           c == [x \in S |-> Priority(Encodings, x)]
<1>1. \A x \in S : encodingQuality(x) \in Int /\ encodingQuality(x) <= Top /\ Top \in Nat
  BY EncodingQualityType, KeptQualities
<1>2. \A x \in S : Priority(Encodings, x) \in Nat /\ Encodings[Priority(Encodings, x)] = x
  BY PriorityIsPlace, VariantsAssumption
<1>3. a \in [S -> Nat] /\ b \in [S -> Nat] /\ c \in [S -> Nat]
  BY <1>1, <1>2
<1>4. \A x, y \in S : c[x] = c[y] => x = y
  BY <1>2
<1>5. \E x \in S : \A y \in S \ {x} : Precedes(a, b, c, x, y)
  <2> HIDE DEF a, b, c
  <2> QED BY <1>3, <1>4, FirstOfThree
<1>6. \E x \in S : \A y \in S \ {x} : compareEncodingCandidates(x, y)
  BY <1>1, <1>5 DEF compareEncodingCandidates, Precedes
<1> QED BY <1>6 DEF First

LEMMA FirstInServerOrder ==
    ASSUME NEW S \in SUBSET Range(Encodings), S # {}
    PROVE  LET x == First(S, LAMBDA m, n : Priority(Encodings, m) < Priority(Encodings, n))
           IN  x \in S /\ \A y \in S \ {x} : Priority(Encodings, x) < Priority(Encodings, y)
<1> DEFINE a == [x \in S |-> 0]
           c == [x \in S |-> Priority(Encodings, x)]
<1>1. \A x \in S : Priority(Encodings, x) \in Nat /\ Encodings[Priority(Encodings, x)] = x
  BY PriorityIsPlace, VariantsAssumption
<1>2. a \in [S -> Nat] /\ c \in [S -> Nat] /\ \A x, y \in S : c[x] = c[y] => x = y
  BY <1>1
<1>3. \E x \in S : \A y \in S \ {x} : Precedes(a, a, c, x, y)
  <2> HIDE DEF a, c
  <2> QED BY <1>2, FirstOfThree
<1>4. \E x \in S : \A y \in S \ {x} : Priority(Encodings, x) < Priority(Encodings, y)
  BY <1>3 DEF Precedes
<1> QED BY <1>4 DEF First

LEMMA FirstFormat ==
    ASSUME HeadersInv, NEW S \in SUBSET Range(Formats), S # {}
    PROVE  First(S, compareImageCandidates) \in S
<1> DEFINE a == [x \in S |-> 3 - matchRank(x)]
           b == [x \in S |-> Top - imageQualityForFormat(x)]
           c == [x \in S |-> imagePriority(x)]
<1>1. \A x \in S : /\ imageQualityForFormat(x) \in Int /\ imageQualityForFormat(x) <= Top
                   /\ Top \in Nat
  BY ImageQualityType, KeptQualities
<1>2. \A x \in S : Priority(Formats, x) \in Nat \ {0} /\ Formats[Priority(Formats, x)] = x
  BY PriorityIsPlace, VariantsAssumption
<1>3. /\ \A x \in S : imagePriority(x) \in Nat
      /\ \A x, y \in S : imagePriority(x) = imagePriority(y) => x = y
  BY <1>2 DEF imagePriority
<1>4. \A x \in S : matchRank(x) \in 1..3
  BY DEF matchRank
<1>5. a \in [S -> Nat] /\ b \in [S -> Nat] /\ c \in [S -> Nat]
  BY <1>1, <1>3, <1>4
<1>6. \A x, y \in S : c[x] = c[y] => x = y
  BY <1>3
<1>7. \E x \in S : \A y \in S \ {x} : Precedes(a, b, c, x, y)
  <2> HIDE DEF a, b, c
  <2> QED BY <1>5, <1>6, FirstOfThree
<1>8. \E x \in S : \A y \in S \ {x} : compareImageCandidates(x, y)
  BY <1>1, <1>4, <1>7 DEF compareImageCandidates, Precedes
<1> QED BY <1>8 DEF First

-----------------------------------------------------------------------------
(* Negotiation: image variants *)

(***************************************************************************)
(* What sorted returns: every width once, in ascending order.  The number  *)
(* of smaller widths tells the widths apart, and an injection into as many *)
(* numbers as there are widths leaves none of them out.                    *)
(***************************************************************************)
LEMMA SortedWidths ==
    ASSUME NEW W \in SUBSET Nat, IsFiniteSet(W)
    PROVE  LET s == sorted(W) IN
           /\ s \in Seq(W) /\ DOMAIN s = 1..Cardinality(W) /\ Cardinality(W) \in Nat
           /\ \A i, j \in DOMAIN s : i < j => s[i] < s[j]
           /\ \A w \in W : \E i \in DOMAIN s : s[i] = w
<1> DEFINE n == Cardinality(W)
           below(w) == {v \in W : v < w}
           rank == [w \in W |-> Cardinality(below(w))]
           s == sorted(W)
<1>1. n \in Nat /\ \A w \in W : w \in Nat
  BY FS_CardinalityType
<1>2. \A w \in W : IsFiniteSet(below(w)) /\ Cardinality(below(w)) \in Nat
  BY FS_Subset, FS_CardinalityType
<1>3. ASSUME NEW v \in W, NEW w \in W, v < w
      PROVE  Cardinality(below(v)) < Cardinality(below(w))
  <2>1. below(v) \in SUBSET below(w)
    <3>1. \A u \in W : u < v => u < w
      BY <1>1, <1>3
    <3> QED BY <3>1, Zenon
  <2>2. v \in below(w) /\ v \notin below(v)
    BY <1>3
  <2>3. IsFiniteSet(below(w)) /\ Cardinality(below(v)) \in Nat /\ Cardinality(below(w)) \in Nat
    BY <1>2
  <2>4. /\ Cardinality(below(v)) <= Cardinality(below(w))
        /\ Cardinality(below(w)) = Cardinality(below(v)) => below(w) = below(v)
    <3> HIDE DEF below
    <3> QED BY <2>1, <2>3, FS_Subset
  <2> HIDE DEF below
  <2> QED BY <2>2, <2>3, <2>4
<1>4. ASSUME NEW w \in W PROVE Cardinality(below(w)) < n
  <2>1. below(w) \in SUBSET W /\ w \notin below(w)
    OBVIOUS
  <2>2. Cardinality(below(w)) <= n /\ (n = Cardinality(below(w)) => W = below(w))
    <3> HIDE DEF below
    <3> QED BY <2>1, FS_Subset
  <2>3. Cardinality(below(w)) \in Nat
    BY <1>2
  <2> HIDE DEF below, n
  <2> QED BY <1>1, <2>1, <2>2, <2>3
<1>5. rank \in Surjection(W, 0..(n - 1))
  <2>1. IsFiniteSet(0..(n - 1)) /\ Cardinality(0..(n - 1)) = n
    <3>1. PICK m \in Int : m = n - 1
      BY <1>1
    <3>2. IsFiniteSet(0..m) /\ Cardinality(0..m) = IF 0 > m THEN 0 ELSE m - 0 + 1
      <4>1. 0 \in Int
        OBVIOUS
      <4> QED BY <4>1, FS_Interval
    <3> QED BY <1>1, <3>1, <3>2
  <2>2. rank \in [W -> 0..(n - 1)]
    <3>1. \A w \in W : Cardinality(below(w)) \in 0..(n - 1)
      <4> HIDE DEF below, n
      <4> QED BY <1>1, <1>2, <1>4
    <3> HIDE DEF below, n
    <3> QED BY <3>1
  <2>3. \A v, w \in W : rank[v] = rank[w] => v = w
    <3>1. \A v, w \in W : v # w => v < w \/ w < v
      BY <1>1
    <3> HIDE DEF below
    <3> QED BY <1>2, <1>3, <3>1
  <2> HIDE DEF rank, n
  <2>4. rank \in Injection(W, 0..(n - 1))
    BY <2>2, <2>3 DEF Injection, IsInjective
  <2> QED BY <2>1, <2>4, FS_Injection DEF n
<1>6. ASSUME NEW i \in 1..n PROVE s[i] \in W /\ Cardinality(below(s[i])) = i - 1
  <2>1. i - 1 \in 0..(n - 1)
    BY <1>1
  <2>2. \E w \in W : rank[w] = i - 1
    <3> HIDE DEF rank, n
    <3> QED BY <1>5, <2>1 DEF Surjection
  <2>3. \E w \in W : Cardinality(below(w)) = i - 1
    BY <2>2
  <2>4. s[i] = CHOOSE w \in W : Cardinality(below(w)) = i - 1
    BY DEF sorted
  <2> HIDE DEF below, s
  <2> QED BY <2>3, <2>4
<1>7. DOMAIN s = 1..n
  BY DEF sorted
<1>8. s \in Seq(W)
  <2> DEFINE choice(i) == CHOOSE w \in W : Cardinality(below(w)) = i - 1
  <2>1. s = [i \in 1..n |-> choice(i)]
    BY Zenon DEF sorted
  <2>2. s \in [1..n -> W]
    <3> HIDE DEF s, n, choice
    <3> QED BY <1>6, <2>1
  <2> HIDE DEF s, n
  <2> QED BY <1>1, <2>2
<1>9. ASSUME NEW i \in 1..n, NEW j \in 1..n, i < j PROVE s[i] < s[j]
  <2>1. /\ s[i] \in W /\ s[j] \in W
        /\ Cardinality(below(s[i])) = i - 1 /\ Cardinality(below(s[j])) = j - 1
    BY <1>6
  <2>2. ~(s[j] < s[i])
    <3> HIDE DEF below, s, n
    <3>1. s[j] < s[i] => j - 1 < i - 1
      BY <1>3, <2>1
    <3> QED BY <1>1, <1>9, <3>1
  <2>3. s[i] # s[j]
    <3> HIDE DEF below, s, n
    <3> QED BY <1>1, <1>9, <2>1
  <2>4. s[i] \in Nat /\ s[j] \in Nat
    BY <1>1, <2>1
  <2> QED BY <2>2, <2>3, <2>4
<1>10. ASSUME NEW w \in W PROVE \E i \in 1..n : s[i] = w
  <2> DEFINE i == Cardinality(below(w)) + 1
  <2>1. i \in 1..n /\ i - 1 = Cardinality(below(w))
    <3> HIDE DEF below, n
    <3> QED BY <1>1, <1>2, <1>4, <1>10
  <2>2. s[i] \in W /\ Cardinality(below(s[i])) = Cardinality(below(w))
    <3> HIDE DEF below, s, n
    <3> QED BY <1>6, <2>1
  <2>3. ~(s[i] < w) /\ ~(w < s[i])
    <3> HIDE DEF below, s, n, i
    <3>1. PICK x \in W : x = s[i] /\ Cardinality(below(x)) = Cardinality(below(w))
      BY <2>2
    <3>2. Cardinality(below(w)) \in Nat
      BY <1>2, <1>10
    <3>3. x < w => Cardinality(below(x)) < Cardinality(below(w))
      BY <1>3, <1>10
    <3>4. w < x => Cardinality(below(w)) < Cardinality(below(x))
      BY <1>3, <1>10
    <3> QED BY <3>1, <3>2, <3>3, <3>4
  <2>4. s[i] = w
    <3> HIDE DEF s, i
    <3>1. s[i] \in Nat /\ w \in Nat
      BY <1>1, <1>10, <2>2
    <3> QED BY <2>3, <3>1
  <2> QED BY <2>1, <2>4
<1> HIDE DEF s, n
<1> QED BY <1>1, <1>7, <1>8, <1>9, <1>10 DEF s, n

(***************************************************************************)
(* The binary search over the sorted widths finds what the resolver finds  *)
(* by going through all of them.                                           *)
(***************************************************************************)
LEMMA SearchFindsClosest ==
    ASSUME request.width \in Nat, NEW W \in SUBSET Nat, IsFiniteSet(W)
    PROVE  /\ closest(sorted(W)) = updateWidthMatches(W)
           /\ W = {} => updateWidthMatches(W) = Nothing
           /\ W # {} => updateWidthMatches(W) \in W
           /\ \A w \in W : w >= request.width =>
                 request.width <= updateWidthMatches(W) /\ updateWidthMatches(W) <= w
           /\ (\A w \in W : w < request.width) => \A w \in W : w <= updateWidthMatches(W)
<1> DEFINE s == sorted(W)
           above == {w \in W : w >= request.width}
           rest == W \ above
<1>1. /\ s \in Seq(W) /\ DOMAIN s = 1..Cardinality(W) /\ Cardinality(W) \in Nat
      /\ \A i, j \in DOMAIN s : i < j => s[i] < s[j]
      /\ \A w \in W : \E i \in DOMAIN s : s[i] = w
  BY SortedWidths
<1>2. updateWidthMatches(W) =
        IF above # {} THEN CHOOSE w \in above : \A v \in above : w <= v
        ELSE IF rest # {} THEN CHOOSE w \in rest : \A v \in rest : w >= v
        ELSE Nothing
  BY DEF updateWidthMatches
<1> HIDE DEF s
<1>3. \A w \in W : w \in Nat
  OBVIOUS
<1>4. \A i \in DOMAIN s : s[i] \in W /\ s[i] \in Nat
  <2>1. \A i \in DOMAIN s : s[i] \in W
    BY <1>1
  <2> QED BY <1>3, <2>1
<1>5. Len(s) = Cardinality(W)
  BY <1>1
<1>6. CASE W = {}
  <2>1. s = <<>>
    BY <1>1, <1>6
  <2> QED BY <1>2, <1>6, <2>1 DEF closest, s
<1>7. CASE above # {}
  <2>1. PICK lowest \in above : \A v \in above : lowest <= v
    <3>1. above \in SUBSET Nat
      OBVIOUS
    <3> HIDE DEF above
    <3> QED BY <1>7, <3>1, LeastNatural
  <2>2. \A w \in above : (\A v \in above : w <= v) => w = lowest
    BY <2>1
  <2>3. updateWidthMatches(W) = lowest
    <3> HIDE DEF above
    <3> QED BY <1>2, <1>7, <2>1, <2>2
  <2>4. PICK i \in DOMAIN s : s[i] = lowest
    BY <1>1, <2>1
  <2>5. s[i] >= request.width /\ \A j \in 1..(i - 1) : s[j] < request.width
    <3>1. ASSUME NEW j \in 1..(i - 1) PROVE s[j] < request.width
      <4>1. j \in DOMAIN s /\ j < i
        BY <1>1, <2>4
      <4>2. s[j] < lowest /\ s[j] \in W /\ s[j] \in Nat
        BY <1>1, <1>4, <2>4, <4>1
      <4>3. s[j] \notin above
        BY <2>1, <4>2
      <4> QED BY <4>2, <4>3
    <3> QED BY <2>1, <2>4, <3>1
  <2>6. ASSUME NEW k \in DOMAIN s, s[k] >= request.width,
               \A j \in 1..(k - 1) : s[j] < request.width
        PROVE  k = i
    <3>1. k \in Nat /\ i \in Nat /\ k >= 1 /\ i >= 1 /\ s[i] \in Nat /\ s[k] \in Nat
      BY <1>1, <1>4, <2>4
    <3>2. ~(i < k)
      BY <2>5, <2>6, <3>1
    <3>3. ~(k < i)
      BY <2>5, <2>6, <3>1
    <3> QED BY <3>1, <3>2, <3>3
  <2>7. s # <<>>
    BY <2>4
  <2>8. closest(s) = s[i]
    BY <2>5, <2>6, <2>7 DEF closest
  <2>9. lowest \in W /\ request.width <= lowest /\ lowest \in Nat
    BY <2>1
  <2> QED BY <2>1, <2>3, <2>4, <2>8, <2>9 DEF s
<1>8. CASE above = {} /\ W # {}
  <2>1. rest = W /\ \A w \in W : w < request.width
    BY <1>8
  <2>2. Cardinality(W) # 0
    <3>1. PICK i \in DOMAIN s : TRUE
      BY <1>1, <1>8
    <3> QED BY <1>1, <3>1
  <2>3. Len(s) \in DOMAIN s
    BY <1>1, <1>5, <2>2
  <2>4. \A w \in W : w <= s[Len(s)]
    <3> SUFFICES ASSUME NEW w \in W PROVE w <= s[Len(s)]
      OBVIOUS
    <3>1. PICK i \in DOMAIN s : s[i] = w
      BY <1>1
    <3>2. i < Len(s) \/ i = Len(s)
      BY <1>1, <1>5, <3>1
    <3>3. s[i] \in Nat /\ s[Len(s)] \in Nat
      BY <1>4, <2>3, <3>1
    <3>4. i < Len(s) => s[i] < s[Len(s)]
      BY <1>1, <2>3, <3>1
    <3> QED BY <3>1, <3>2, <3>3, <3>4
  <2>5. s[Len(s)] \in W
    BY <1>4, <2>3
  <2>6. \A w \in W : (\A v \in W : w >= v) => w = s[Len(s)]
    <3>1. \A w \in W : w \in Nat /\ s[Len(s)] \in Nat
      BY <1>3, <2>5
    <3> QED BY <2>4, <2>5, <3>1
  <2>7. updateWidthMatches(W) = s[Len(s)]
    <3>1. updateWidthMatches(W) = CHOOSE w \in W : \A v \in W : w >= v
      <4> HIDE DEF above, rest
      <4> QED BY <1>2, <1>8, <2>1
    <3>2. \A v \in W : s[Len(s)] >= v
      BY <2>4, <2>5
    <3> QED BY <2>5, <2>6, <3>1, <3>2
  <2>8. closest(s) = s[Len(s)]
    <3>1. s # <<>>
      BY <2>3
    <3>2. ~ \E i \in DOMAIN s : s[i] >= request.width
      BY <1>4, <2>1
    <3> QED BY <3>1, <3>2 DEF closest, Last
  <2> QED BY <2>1, <2>4, <2>5, <2>7, <2>8 DEF s
<1> QED BY <1>6, <1>7, <1>8

LEMMA UsableWidths ==
    ASSUME NEW f
    PROVE  /\ usableWidths(f) \in SUBSET Nat /\ IsFiniteSet(usableWidths(f))
           /\ usableWidths(f) # {} => f # Nothing
           /\ \A w \in usableWidths(f) :
                 <<"image", f, w>> \in VariantKeys /\ catalog[<<"image", f, w>>] = "current"
<1> DEFINE J == {j \in ImageKeys : j[1] = f /\ usable(<<"image", j[1], j[2]>>)}
           g == [k \in J |-> k[2]]
<1>1. IsFiniteSet(ImageKeys) /\ \A k \in ImageKeys : k[2] \in Nat /\ k[1] # Nothing
  BY VariantsAssumption
<1>2. IsFiniteSet(J)
  <2>1. J \in SUBSET ImageKeys
    OBVIOUS
  <2> HIDE DEF J
  <2> QED BY <1>1, <2>1, FS_Subset
<1>3. usableWidths(f) = {k[2] : k \in J}
  BY DEF usableWidths
<1>4. g \in Surjection(J, usableWidths(f))
  <2> HIDE DEF J
  <2> QED BY <1>3 DEF Surjection
<1>5. IsFiniteSet(usableWidths(f))
  <2> HIDE DEF g
  <2> QED BY <1>2, <1>4, FS_Surjection
<1>6. \A k \in J : k \in ImageKeys /\ k[1] = f /\ usable(<<"image", f, k[2]>>)
  OBVIOUS
<1> HIDE DEF J
<1>7. usableWidths(f) \in SUBSET Nat /\ (usableWidths(f) # {} => f # Nothing)
  BY <1>1, <1>3, <1>6
<1>8. \A w \in usableWidths(f) :
         <<"image", f, w>> \in VariantKeys /\ catalog[<<"image", f, w>>] = "current"
  BY <1>3, <1>6, Zenon DEF usable
<1> QED BY <1>5, <1>7, <1>8

\* Both look for the same width of a format, and both find the one that fits best.
LEMMA PickedWidth ==
    ASSUME request.width \in Nat, NEW f
    PROVE  LET w == pickImageVariantForFormat(f) IN
           /\ pickImageFormat(f) = w
           /\ w # Nothing =>
                /\ w \in usableWidths(f) /\ w \in Nat
                /\ request.width = 0 => w = 0
                /\ request.width > 0 /\ w < request.width => \A v \in usableWidths(f) : v <= w
                /\ request.width > 0 /\ w >= request.width
                     => ~ \E v \in usableWidths(f) : request.width <= v /\ v < w
<1> DEFINE W == usableWidths(f)
           u == updateWidthMatches(W)
<1>1. W \in SUBSET Nat /\ IsFiniteSet(W) /\ Nothing \notin Nat
  BY UsableWidths, VariantsAssumption
<1>2. \A w \in W : w \in Nat
  BY <1>1
<1> HIDE DEF W
<1>3. /\ closest(sorted(W)) = u
      /\ W = {} => u = Nothing
      /\ W # {} => u \in W
      /\ \A w \in W : w >= request.width => request.width <= u /\ u <= w
      /\ (\A w \in W : w < request.width) => \A w \in W : w <= u
  BY <1>1, SearchFindsClosest
<1> HIDE DEF u
<1>4. pickImageVariantForFormat(f) =
        IF request.width = 0 THEN (IF 0 \in W THEN 0 ELSE Nothing) ELSE u
  BY DEF pickImageVariantForFormat, W, u
<1>5. pickImageFormat(f) = IF request.width \in W THEN request.width
                           ELSE IF request.width = 0 THEN Nothing ELSE u
  BY <1>3 DEF pickImageFormat, W
<1>6. request.width \in W => u = request.width
  BY <1>2, <1>3
<1>7. pickImageFormat(f) = pickImageVariantForFormat(f)
  BY <1>4, <1>5, <1>6
<1>8. CASE request.width = 0
  BY <1>4, <1>7, <1>8 DEF W
<1>9. CASE request.width # 0
  <2>1. u # Nothing => u \in W /\ u \in Nat
    BY <1>2, <1>3
  <2>2. u # Nothing /\ u < request.width => \A v \in W : v <= u
    <3> SUFFICES ASSUME u # Nothing, u < request.width PROVE \A v \in W : v <= u
      OBVIOUS
    <3>1. \A v \in W : v < request.width
      BY <1>2, <1>3, <2>1
    <3> QED BY <1>3, <3>1
  <2>3. u # Nothing => ~ \E v \in W : request.width <= v /\ v < u
    BY <1>2, <1>3, <2>1
  <2> QED BY <1>4, <1>7, <1>9, <2>1, <2>2, <2>3 DEF W
<1> QED BY <1>8, <1>9

\* One of the formats that are asked for and found comes first.
LEMMA FirstRequested ==
    ASSUME HeadersInv, NEW S \in SUBSET requestedFormats, S # {}
    PROVE  First(S, compareImageCandidates) \in S
<1>1. CASE S \in SUBSET Range(Formats)
  BY <1>1, FirstFormat
<1>2. CASE \E f : S = {f}
  <2>1. PICK f : S = {f}
    BY <1>2
  <2>2. \E x \in S : \A y \in S \ {x} : compareImageCandidates(x, y)
    BY <2>1, Zenon
  <2> QED BY <2>2 DEF First
<1>3. S \in SUBSET Range(Formats) \/ \E f : S \in SUBSET {f}
  BY DEF requestedFormats, PreferredImageFormats
<1> QED BY <1>1, <1>2, <1>3

LEMMA ImageChoice ==
    ASSUME HeadersInv, request.width \in Nat, pickImageVariant # Nothing
    PROVE  \E f \in requestedFormats :
              /\ pickImageVariant = <<"image", f, pickImageVariantForFormat(f)>>
              /\ pickImageVariantForFormat(f) # Nothing
<1> DEFINE S == {g \in requestedFormats : pickImageVariantForFormat(g) # Nothing}
           f == First(S, compareImageCandidates)
<1>1. pickImageVariant = IF f = Nothing THEN Nothing
                         ELSE <<"image", f, pickImageVariantForFormat(f)>>
  BY DEF pickImageVariant
<1>2. f # Nothing
  BY <1>1
<1>3. S # {}
  BY <1>2 DEF First
<1>4. f \in S
  <2>1. S \in SUBSET requestedFormats
    OBVIOUS
  <2> HIDE DEF S
  <2> QED BY <1>3, <2>1, FirstRequested
<1> HIDE DEF f
<1> QED BY <1>1, <1>2, <1>4

LEMMA ImagesAgree ==
    ASSUME request.width \in Nat
    PROVE  selectImageResponse = IF asksForImage THEN pickImageVariant ELSE Nothing
<1>1. \A f : pickImageFormat(f) = pickImageVariantForFormat(f)
  BY PickedWidth
<1>2. {g \in requestedFormats : pickImageFormat(g) # Nothing} =
        {g \in requestedFormats : pickImageVariantForFormat(g) # Nothing}
  BY <1>1
<1> QED BY <1>1, <1>2, Zenon DEF selectImageResponse, pickImageVariant

-----------------------------------------------------------------------------
(* Negotiation: encodings *)

\* The quality kept of an encoding is the one the header states, none counting as zero.
LEMMA StatedQuality ==
    ASSUME HeadersInv, NEW n \in Range(Encodings)
    PROVE  StatedEncodingQuality(n) = IF encodingQuality(n) = -1 THEN 0 ELSE encodingQuality(n)
<1> DEFINE N == AcceptEncoding!Naming(n)
           A == AcceptEncoding!Saying("*")
<1>1. \/ encExplicit[n] = -1 /\ N = {}
      \/ \E i \in N : encExplicit[n] = encHeader[i].q /\ \A j \in N : encHeader[j].q <= encHeader[i].q
  BY DEF HeadersInv, AcceptEncoding!QualitiesAreStated, AcceptEncoding!BestOfName,
     AcceptEncoding!Unset
<1>2. \/ encWildcard["*"] = -1 /\ A = {}
      \/ \E i \in A : encWildcard["*"] = encHeader[i].q /\ \A j \in A : j <= i
  BY DEF HeadersInv, AcceptEncoding!QualitiesAreStated, AcceptEncoding!LastOfWildcard,
     AcceptEncoding!Unset
<1>3. \A i \in DOMAIN encHeader : i \in Nat /\ encHeader[i].q \in Nat
  BY HeadersAssumption DEF HeadersInv, AcceptEncoding!HeaderTypeOK, AcceptEncoding!Entries,
     AcceptEncoding!Qualities, AcceptEncoding!HeaderConstants
<1>4. N \subseteq DOMAIN encHeader /\ A \subseteq DOMAIN encHeader
  BY DEF AcceptEncoding!Naming, AcceptEncoding!Saying
<1>5. encodingQuality(n) = IF encExplicit[n] # -1 THEN encExplicit[n] ELSE encWildcard["*"]
  BY DEF encodingQuality, AcceptEncoding!Unset
<1>6. StatedEncodingQuality(n) =
        IF N # {} THEN CHOOSE q \in Stated(N, encHeader) : \A r \in Stated(N, encHeader) : r <= q
        ELSE IF A # {} THEN encHeader[LastPosition(A)].q ELSE 0
  BY DEF StatedEncodingQuality
<1> HIDE DEF N, A
<1>7. CASE N # {}
  <2>1. PICK i \in N : encExplicit[n] = encHeader[i].q
                       /\ \A j \in N : encHeader[j].q <= encHeader[i].q
    BY <1>1, <1>7
  <2> DEFINE T == Stated(N, encHeader)
             q0 == encHeader[i].q
  <2>2. q0 \in T /\ (\A r \in T : r <= q0) /\ (\A r \in T : r \in Nat)
    BY <1>3, <1>4, <2>1 DEF Stated
  <2> HIDE DEF T, q0
  <2>3. \A q \in T : (\A r \in T : r <= q) => q = q0
    BY <2>2
  <2>4. (CHOOSE q \in T : \A r \in T : r <= q) = q0
    BY <2>2, <2>3
  <2>5. q0 \in Nat
    BY <2>2
  <2> QED BY <1>5, <1>6, <1>7, <2>1, <2>4, <2>5 DEF T, q0
<1>8. CASE N = {} /\ A # {}
  <2>1. PICK i \in A : encWildcard["*"] = encHeader[i].q /\ \A j \in A : j <= i
    BY <1>2, <1>8
  <2>2. \A j \in A : j \in Nat
    BY <1>3, <1>4
  <2>3. \A k \in A : (\A j \in A : j <= k) => k = i
    BY <2>1, <2>2
  <2>4. LastPosition(A) = i
    BY <2>1, <2>3 DEF LastPosition
  <2>5. encExplicit[n] = -1 /\ encHeader[i].q \in Nat
    BY <1>1, <1>3, <1>4, <1>8, <2>1
  <2> QED BY <1>5, <1>6, <1>8, <2>1, <2>4, <2>5
<1>9. CASE N = {} /\ A = {}
  BY <1>1, <1>2, <1>5, <1>6, <1>9
<1> QED BY <1>7, <1>8, <1>9

LEMMA AcceptedAreCandidates ==
    ASSUME HeadersInv
    PROVE  /\ AcceptedEncodings = {m \in encodingCandidates : usable(<<"encoding", m>>)}
           /\ \A n \in AcceptedEncodings : /\ n \in Range(Encodings) /\ n # Nothing
                                           /\ StatedEncodingQuality(n) = encodingQuality(n)
<1>1. \A n \in Range(Encodings) : <<"encoding", n>> \in VariantKeys
  BY DEF VariantKeys
<1>2. \A n \in Range(Encodings) : usable(<<"encoding", n>>) <=> catalog[<<"encoding", n>>] = "current"
  BY <1>1, Zenon DEF usable
<1>3. \A n \in Range(Encodings) : encodingQuality(n) \in Int /\ encodingQuality(n) >= -1
  BY EncodingQualityType, KeptQualities
<1>4. \A n \in Range(Encodings) :
         StatedEncodingQuality(n) = IF encodingQuality(n) = -1 THEN 0 ELSE encodingQuality(n)
  BY StatedQuality
<1>5. \A n \in Range(Encodings) : StatedEncodingQuality(n) > 0 <=> encodingQuality(n) > 0
  BY <1>3, <1>4
<1>6. AcceptedEncodings = {m \in encodingCandidates : usable(<<"encoding", m>>)}
  BY <1>2, <1>5, Zenon DEF AcceptedEncodings, encodingCandidates
<1>7. ASSUME NEW n \in AcceptedEncodings
      PROVE  n \in Range(Encodings) /\ n # Nothing /\ StatedEncodingQuality(n) = encodingQuality(n)
  <2>1. n \in Range(Encodings) /\ StatedEncodingQuality(n) > 0
    BY <1>7 DEF AcceptedEncodings
  <2> QED BY <1>3, <1>4, <2>1, VariantsAssumption
<1> QED BY <1>6, <1>7

LEMMA EncodingChoice ==
    ASSUME HeadersInv
    PROVE  /\ pickVariant = Nothing <=> AcceptedEncodings = {}
           /\ AcceptedEncodings # {} =>
                \E n \in AcceptedEncodings :
                    /\ pickVariant = <<"encoding", n>>
                    /\ \A m \in AcceptedEncodings \ {n} : compareEncodingCandidates(n, m)
<1> DEFINE S == {m \in encodingCandidates : usable(<<"encoding", m>>)}
           n == First(S, compareEncodingCandidates)
<1>1. S = AcceptedEncodings /\ \A m \in S : m \in Range(Encodings) /\ m # Nothing
  BY AcceptedAreCandidates
<1>2. pickVariant = IF n = Nothing THEN Nothing ELSE <<"encoding", n>>
  BY DEF pickVariant
<1>3. CASE S = {}
  <2>1. n = Nothing
    BY <1>3 DEF First
  <2> QED BY <1>1, <1>2, <1>3, <2>1
<1>4. CASE S # {}
  <2>1. n \in S /\ \A y \in S \ {n} : compareEncodingCandidates(n, y)
    <3>1. S \in SUBSET Range(Encodings)
      BY <1>1
    <3> HIDE DEF S
    <3> QED BY <1>4, <3>1, FirstEncoding
  <2>2. n # Nothing /\ <<"encoding", n>> # Nothing
    <3>1. <<"encoding", n>> \in VariantKeys
      BY <1>1, <2>1 DEF VariantKeys
    <3> QED BY <1>1, <2>1, <3>1, VariantsAssumption
  <2> HIDE DEF n, S
  <2> QED BY <1>1, <1>2, <1>4, <2>1, <2>2
<1> QED BY <1>3, <1>4

(***************************************************************************)
(* In a header without parameters and wildcards all names are accepted     *)
(* equally, and no other is.                                               *)
(***************************************************************************)
LEMMA SimpleHeader ==
    ASSUME HeadersInv, simpleAcceptEncoding, NEW n \in Range(Encodings)
    PROVE  /\ (\E i \in DOMAIN encHeader : encHeader[i].token = n) => encodingQuality(n) = Top
           /\ ~(\E i \in DOMAIN encHeader : encHeader[i].token = n) => encodingQuality(n) = -1
<1> DEFINE N == AcceptEncoding!Naming(n)
           A == AcceptEncoding!Saying("*")
           nameOf == [t \in EncodingTokens \ {"*"} |-> t]
<1>1. \/ encExplicit[n] = -1 /\ N = {}
      \/ \E i \in N : encExplicit[n] = encHeader[i].q /\ \A j \in N : encHeader[j].q <= encHeader[i].q
  BY DEF HeadersInv, AcceptEncoding!QualitiesAreStated, AcceptEncoding!BestOfName,
     AcceptEncoding!Unset
<1>2. \/ encWildcard["*"] = -1 /\ A = {}
      \/ \E i \in A : encWildcard["*"] = encHeader[i].q /\ \A j \in A : j <= i
  BY DEF HeadersInv, AcceptEncoding!QualitiesAreStated, AcceptEncoding!LastOfWildcard,
     AcceptEncoding!Unset
<1>3. \A i \in DOMAIN encHeader : /\ encHeader[i].q = Top /\ encHeader[i].token # "*"
                                  /\ encHeader[i].token \in EncodingTokens
  <2>1. encHeader \in Seq(AcceptEncoding!Entries)
    BY DEF HeadersInv, AcceptEncoding!HeaderTypeOK
  <2>2. \A e \in AcceptEncoding!Entries : (e.bare => e.q = Top) /\ e.token \in EncodingTokens
    BY DEF AcceptEncoding!Entries
  <2>3. \A i \in DOMAIN encHeader : encHeader[i] \in AcceptEncoding!Entries
    BY <2>1
  <2> QED BY <2>2, <2>3 DEF simpleAcceptEncoding
<1>4. A = {}
  BY <1>3 DEF AcceptEncoding!Saying
<1>5. N = {i \in DOMAIN encHeader : encHeader[i].token = n}
  <2>1. N = {i \in DOMAIN encHeader : encHeader[i].token \notin {"*"} /\ nameOf[encHeader[i].token] = n}
    BY DEF AcceptEncoding!Naming
  <2>2. \A i \in DOMAIN encHeader : nameOf[encHeader[i].token] = encHeader[i].token
    BY <1>3
  <2> HIDE DEF N, nameOf
  <2> QED BY <1>3, <2>1, <2>2
<1>6. encodingQuality(n) = IF encExplicit[n] # -1 THEN encExplicit[n] ELSE encWildcard["*"]
  BY DEF encodingQuality, AcceptEncoding!Unset
<1>7. Top \in Nat
  BY KeptQualities
<1> HIDE DEF N, A
<1>8. CASE N = {}
  BY <1>1, <1>2, <1>4, <1>5, <1>6, <1>8
<1>9. CASE N # {}
  <2>1. PICK i \in N : encExplicit[n] = encHeader[i].q
    BY <1>1, <1>9
  <2>2. encExplicit[n] = Top
    BY <1>3, <1>5, <2>1
  <2> QED BY <1>5, <1>6, <1>7, <1>9, <2>2
<1> QED BY <1>8, <1>9

LEMMA EncodingsAgree ==
    ASSUME HeadersInv
    PROVE  selectEncodingResponse = IF request.range THEN Nothing ELSE pickVariant
<1> DEFINE before(m, n) == Priority(Encodings, m) < Priority(Encodings, n)
           S == {n \in Range(Encodings) :
                    usable(<<"encoding", n>>) /\ \E i \in DOMAIN encHeader : encHeader[i].token = n}
           simple == selectSimpleEncodingResponse
<1>1. simple = IF simpleAcceptEncoding THEN First(S, before) ELSE Nothing
  BY DEF selectSimpleEncodingResponse
<1>2. selectEncodingResponse = IF request.range THEN Nothing
                               ELSE IF simple # Nothing THEN <<"encoding", simple>>
                               ELSE pickVariant
  BY DEF selectEncodingResponse
<1>3. ASSUME simple # Nothing PROVE pickVariant = <<"encoding", simple>>
  <2>1. simpleAcceptEncoding /\ simple = First(S, before) /\ S # {}
    BY <1>1, <1>3 DEF First
  <2>2. S \in SUBSET Range(Encodings)
    OBVIOUS
  <2>3. simple \in S /\ \A y \in S \ {simple} : Priority(Encodings, simple) < Priority(Encodings, y)
    <3> HIDE DEF S, simple
    <3> QED BY <2>1, <2>2, FirstInServerOrder
  <2>4. Top \in Nat \ {0}
    BY HeadersAssumption DEF AcceptEncoding!HeaderConstants
  <2>5. S = AcceptedEncodings /\ \A n \in S : encodingQuality(n) = Top
    <3>1. \A n \in Range(Encodings) :
             /\ (\E i \in DOMAIN encHeader : encHeader[i].token = n) => encodingQuality(n) = Top
             /\ ~(\E i \in DOMAIN encHeader : encHeader[i].token = n) => encodingQuality(n) = -1
      BY <2>1, SimpleHeader
    <3>2. AcceptedEncodings = {m \in encodingCandidates : usable(<<"encoding", m>>)}
      BY AcceptedAreCandidates
    <3>3. \A n \in Range(Encodings) :
             encodingQuality(n) > 0 <=> \E i \in DOMAIN encHeader : encHeader[i].token = n
      BY <2>4, <3>1
    <3>4. S = AcceptedEncodings
      BY <3>2, <3>3, Zenon DEF encodingCandidates
    <3> QED BY <3>1, <3>4
  <2> HIDE DEF S, simple
  <2>6. PICK n \in S : /\ pickVariant = <<"encoding", n>>
                       /\ \A m \in S \ {n} : compareEncodingCandidates(n, m)
    BY <2>1, <2>5, EncodingChoice
  <2>7. ASSUME n # simple PROVE FALSE
    <3>1. Priority(Encodings, simple) < Priority(Encodings, n)
      BY <2>3, <2>6, <2>7
    <3>2. Priority(Encodings, n) < Priority(Encodings, simple)
      BY <2>3, <2>4, <2>5, <2>6, <2>7 DEF compareEncodingCandidates
    <3>3. Priority(Encodings, n) \in Nat /\ Priority(Encodings, simple) \in Nat
      BY <2>2, <2>3, <2>6, PriorityIsPlace, VariantsAssumption
    <3> QED BY <3>1, <3>2, <3>3
  <2> QED BY <2>6, <2>7
<1> HIDE DEF simple
<1> QED BY <1>2, <1>3

-----------------------------------------------------------------------------
(* Negotiation: paths *)

Segments == STRING \cup {Blank}

PlainPath(v) == v \in Seq(Segments) /\ \A i \in DOMAIN v : v[i] \notin {Blank, ".", ".."}

\* Adding a segment to a plain path leaves it plain.
LEMMA SegmentKeepsPlain ==
    ASSUME NEW v, PlainPath(v), NEW s \in Segments
    PROVE  PlainPath(addSegment(v, s))
<1>1. CASE s \in {Blank, "."}
  BY <1>1 DEF addSegment
<1>2. CASE s \notin {Blank, ".", ".."}
  <2>1. addSegment(v, s) = Append(v, s)
    BY <1>2 DEF addSegment
  <2>2. /\ Append(v, s) \in Seq(Segments) /\ DOMAIN Append(v, s) = 1..(Len(v) + 1)
        /\ Append(v, s)[Len(v) + 1] = s /\ \A i \in 1..Len(v) : Append(v, s)[i] = v[i]
        /\ DOMAIN v = 1..Len(v) /\ Len(v) \in Nat
    BY DEF PlainPath
  <2>3. \A i \in 1..(Len(v) + 1) : i \in 1..Len(v) \/ i = Len(v) + 1
    BY <2>2
  <2> QED BY <1>2, <2>1, <2>2, <2>3 DEF PlainPath
<1>3. CASE s = ".." /\ v = <<>>
  BY <1>3 DEF addSegment
<1>4. CASE s = ".." /\ v # <<>>
  <2>1. addSegment(v, s) = SubSeq(v, 1, Len(v) - 1)
    <3>1. s \notin {Blank, "."}
      BY <1>4, Zenon DEF Blank
    <3> QED BY <1>4, <3>1, Zenon DEF addSegment, Front
  <2>2. Len(v) \in Nat /\ DOMAIN v = 1..Len(v) /\ Len(v) # 0
    BY <1>4 DEF PlainPath
  <2>3. \A i \in 1..(Len(v) - 1) : i \in DOMAIN v /\ v[i] \in Segments
    BY <2>2 DEF PlainPath
  <2>4. /\ SubSeq(v, 1, Len(v) - 1) \in Seq(Segments)
        /\ Len(SubSeq(v, 1, Len(v) - 1)) = Len(v) - 1
        /\ \A i \in 1..(Len(v) - 1) : SubSeq(v, 1, Len(v) - 1)[i] = v[i]
    <3>1. PICK m \in Nat : m = Len(v) - 1
      <4>1. Len(v) - 1 \in Nat
        BY <2>2
      <4> QED BY <4>1, Zenon
    <3>2. /\ SubSeq(v, 1, m) \in Seq(Segments) /\ Len(SubSeq(v, 1, m)) = IF 1 <= m THEN m - 1 + 1 ELSE 0
          /\ \A i \in 1..(m - 1 + 1) : SubSeq(v, 1, m)[i] = v[1 + i - 1]
      <4>1. 1 \in Int /\ m \in Int /\ \A i \in 1..m : v[i] \in Segments
        BY <2>3, <3>1
      <4> QED BY <4>1, SubSeqProperties
    <3>3. m - 1 + 1 = m /\ \A i \in 1..m : 1 + i - 1 = i
      OBVIOUS
    <3> QED BY <3>1, <3>2, <3>3
  <2> QED BY <2>1, <2>3, <2>4 DEF PlainPath
<1> QED BY <1>1, <1>2, <1>3, <1>4

(***************************************************************************)
(* The recursive function in pathClean exists: if there were a first       *)
(* segment at which it did not, the one up to the segment before could be  *)
(* continued.                                                              *)
(***************************************************************************)
Cleans(g, raw, n) ==
    g = [i \in 0..n |-> IF i = 0 THEN <<>> ELSE addSegment(g[i - 1], raw[i])]

LEMMA CleansExists ==
    ASSUME NEW raw, NEW n \in Nat
    PROVE  \E g : Cleans(g, raw, n)
<1> DEFINE bad == {m \in Nat : ~ \E g : Cleans(g, raw, m)}
<1> SUFFICES ASSUME bad # {} PROVE FALSE
  OBVIOUS
<1>1. PICK m \in bad : \A k \in bad : m <= k
  <2>1. bad \in SUBSET Nat
    OBVIOUS
  <2> HIDE DEF bad
  <2> QED BY <2>1, LeastNatural
<1>2. m \in Nat /\ ~ \E g : Cleans(g, raw, m)
  OBVIOUS
<1>3. CASE m = 0
  <2> DEFINE g == [i \in 0..0 |-> <<>>]
  <2>1. g = [i \in 0..0 |-> IF i = 0 THEN <<>> ELSE addSegment(g[i - 1], raw[i])]
    <3>1. \A i \in 0..0 : i = 0
      OBVIOUS
    <3> HIDE DEF g
    <3>2. \A i \in 0..0 : <<>> = IF i = 0 THEN <<>> ELSE addSegment(g[i - 1], raw[i])
      BY <3>1
    <3> QED BY <3>2 DEF g
  <2> HIDE DEF g
  <2> QED BY <1>2, <1>3, <2>1 DEF Cleans
<1>4. CASE m # 0
  <2>1. m - 1 \in Nat /\ m - 1 \notin bad
    BY <1>1, <1>2, <1>4
  <2>2. PICK g : Cleans(g, raw, m - 1)
    BY <2>1
  <2> DEFINE h == [i \in 0..m |-> IF i = m THEN addSegment(g[m - 1], raw[m]) ELSE g[i]]
  <2>3. ASSUME NEW i \in 0..m
        PROVE  h[i] = IF i = 0 THEN <<>> ELSE addSegment(h[i - 1], raw[i])
    <3>1. CASE i = m
      <4>1. h[i] = addSegment(g[m - 1], raw[m])
        BY <3>1
      <4>2. h[i - 1] = g[m - 1]
        BY <1>2, <1>4, <3>1
      <4> HIDE DEF h
      <4> QED BY <1>4, <3>1, <4>1, <4>2
    <3>2. CASE i # m
      <4>1. i \in 0..(m - 1) /\ h[i] = g[i]
        BY <1>2, <3>2
      <4>2. g[i] = IF i = 0 THEN <<>> ELSE addSegment(g[i - 1], raw[i])
        BY <2>2, <4>1 DEF Cleans
      <4>3. i # 0 => h[i - 1] = g[i - 1]
        BY <1>2, <3>2
      <4> HIDE DEF h
      <4> QED BY <4>1, <4>2, <4>3
    <3> QED BY <3>1, <3>2
  <2>4. Cleans(h, raw, m)
    <3>1. h = [i \in 0..m |-> h[i]]
      OBVIOUS
    <3> HIDE DEF h
    <3> QED BY <2>3, <3>1 DEF Cleans
  <2> HIDE DEF h
  <2> QED BY <1>2, <2>4
<1> QED BY <1>3, <1>4

LEMMA PathCleanIsPlain ==
    ASSUME NEW raw \in Seq(Segments)
    PROVE  /\ PlainPath(pathClean(raw))
           /\ raw = <<Blank>> => pathClean(raw) = <<>>
<1>1. pathClean(raw) = (CHOOSE g : Cleans(g, raw, Len(raw)))[Len(raw)]
  BY DEF pathClean, Cleans
<1>2. PICK g : g = (CHOOSE f : Cleans(f, raw, Len(raw))) /\ Cleans(g, raw, Len(raw))
  <2>1. Len(raw) \in Nat
    OBVIOUS
  <2> QED BY <2>1, CleansExists
<1>3. /\ Len(raw) \in Nat /\ g[0] = <<>>
      /\ \A i \in 1..Len(raw) : raw[i] \in Segments /\ g[i] = addSegment(g[i - 1], raw[i])
  <2>1. Len(raw) \in Nat /\ \A i \in 1..Len(raw) : raw[i] \in Segments
    OBVIOUS
  <2>2. g[0] = <<>>
    BY <1>2, <2>1 DEF Cleans
  <2>3. ASSUME NEW i \in 1..Len(raw) PROVE g[i] = addSegment(g[i - 1], raw[i])
    <3>1. i \in 0..Len(raw) /\ i # 0
      BY <2>1
    <3>2. g[i] = IF i = 0 THEN <<>> ELSE addSegment(g[i - 1], raw[i])
      BY <1>2, <2>1, <3>1 DEF Cleans
    <3> QED BY <3>1, <3>2
  <2> QED BY <2>1, <2>2, <2>3
<1>4. \A i \in 0..Len(raw) : PlainPath(g[i])
  <2> DEFINE bad == {i \in 0..Len(raw) : ~PlainPath(g[i])}
  <2> SUFFICES ASSUME bad # {} PROVE FALSE
    OBVIOUS
  <2>1. PICK m \in bad : \A k \in bad : m <= k
    <3>1. bad \in SUBSET Nat
      BY <1>3
    <3> HIDE DEF bad
    <3> QED BY <3>1, LeastNatural
  <2>2. m \in 0..Len(raw) /\ ~PlainPath(g[m])
    OBVIOUS
  <2>3. m # 0
    <3>1. PlainPath(<<>>)
      BY DEF PlainPath
    <3> QED BY <1>3, <2>2, <3>1
  <2>4. m - 1 \in 0..Len(raw) /\ m \in 1..Len(raw) /\ ~(m <= m - 1)
    BY <1>3, <2>2, <2>3
  <2>5. PlainPath(g[m - 1])
    BY <2>1, <2>4
  <2>6. PlainPath(g[m])
    BY <1>3, <2>4, <2>5, SegmentKeepsPlain
  <2> QED BY <2>2, <2>6
<1>5. ASSUME raw = <<Blank>> PROVE g[Len(raw)] = <<>>
  <2>1. Len(raw) = 1 /\ raw[1] = Blank
    BY <1>5
  <2>2. g[1] = addSegment(g[0], Blank)
    BY <1>3, <2>1
  <2> QED BY <1>3, <2>1, <2>2 DEF addSegment
<1> QED BY <1>1, <1>2, <1>3, <1>4, <1>5

LEMMA DecodedType ==
    ASSUME NEW path \in Seq(Segments)
    PROVE  /\ decode(path) \in Seq(Segments) /\ Len(decode(path)) = Len(path)
           /\ (\A i \in DOMAIN path : path[i] \notin DOMAIN Unescaped) => decode(path) = path
<1>1. Len(path) \in Nat /\ DOMAIN path = 1..Len(path) /\ \A i \in 1..Len(path) : path[i] \in Segments
  OBVIOUS
<1>2. \A i \in 1..Len(path) :
         (IF path[i] \in DOMAIN Unescaped THEN Unescaped[path[i]] ELSE path[i]) \in Segments
  BY <1>1, PathAssumption DEF Segments
<1>3. decode(path) \in [1..Len(path) -> Segments]
  BY <1>1, <1>2 DEF decode
<1>4. decode(path) \in Seq(Segments) /\ Len(decode(path)) = Len(path)
  BY <1>1, <1>3
<1>5. ASSUME \A i \in DOMAIN path : path[i] \notin DOMAIN Unescaped PROVE decode(path) = path
  <2>1. \A i \in 1..Len(path) : decode(path)[i] = path[i]
    BY <1>1, <1>5 DEF decode
  <2> QED BY <1>4, <2>1, SeqEqual
<1> QED BY <1>4, <1>5

(***************************************************************************)
(* A cleaned path has plain segments only, and the empty path, and one     *)
(* without an extension, always stands for a directory as well.            *)
(***************************************************************************)
LEMMA CleanedIsPlain ==
    ASSUME NEW path \in Seq(Segments), path # <<>>
    PROVE  LET c == Clean(path) IN
           /\ PlainPath(c.value)
           /\ c.value = <<>> \/ ~hasExtension(c.value) => c.allows
<1> DEFINE raw == decode(path)
           v == IF raw[1] = Blank /\ Len(raw) > 1 THEN Tail(raw) ELSE raw
<1>1. raw \in Seq(Segments) /\ raw # <<>>
  BY DecodedType
<1>2. v \in Seq(Segments) /\ v # <<>>
  <2> HIDE DEF raw
  <2>1. CASE raw[1] = Blank /\ Len(raw) > 1
    <3>1. Tail(raw) \in Seq(Segments) /\ Len(Tail(raw)) = Len(raw) - 1 /\ Len(raw) \in Nat
      BY <1>1
    <3>2. Tail(raw) # <<>>
      <4>1. Len(Tail(raw)) # 0 /\ Len(<<>>) = 0
        BY <2>1, <3>1
      <4> QED BY <4>1, Zenon
    <3> QED BY <2>1, <3>1, <3>2
  <2>2. CASE ~(raw[1] = Blank /\ Len(raw) > 1)
    BY <1>1, <2>2
  <2> QED BY <2>1, <2>2
<1>3. Clean(path) = IF plain(ToSet(v)) THEN [value |-> v, allows |-> ~hasExtension(v)]
                    ELSE slowClean(raw)
  BY DEF Clean, canonical
<1>4. plain(ToSet(v)) => PlainPath(v)
  <2> HIDE DEF v
  <2> QED BY <1>2 DEF plain, ToSet, PlainPath
<1>5. /\ PlainPath(slowClean(raw).value)
      /\ slowClean(raw).value = <<>> \/ ~hasExtension(slowClean(raw).value) => slowClean(raw).allows
  <2> HIDE DEF raw
  <2> QED BY <1>1, PathCleanIsPlain DEF slowClean
<1> HIDE DEF raw, v
<1>6. CASE plain(ToSet(v))
  <2>1. Clean(path) = [value |-> v, allows |-> ~hasExtension(v)]
    BY <1>3, <1>6, Zenon
  <2>2. Clean(path).value = v
    BY <2>1
  <2>3. Clean(path).allows = ~hasExtension(v)
    <3>1. PICK b : b = (~hasExtension(v))
      BY Zenon
    <3>2. Clean(path) = [value |-> v, allows |-> b]
      BY <2>1, <3>1, Zenon
    <3>3. Clean(path).allows = b
      BY <3>2
    <3> QED BY <3>1, <3>3, Zenon
  <2> QED BY <1>2, <1>4, <1>6, <2>2, <2>3, Zenon
<1>7. CASE ~plain(ToSet(v))
  <2>1. Clean(path) = slowClean(raw)
    BY <1>3, <1>7
  <2> QED BY <1>5, <2>1, Zenon
<1> QED BY <1>6, <1>7

\* Cleaning it again changes nothing, unless there is something left to unescape.
LEMMA CleanedTwice ==
    ASSUME NEW v, PlainPath(v), v # <<>>, \A i \in DOMAIN v : v[i] \notin DOMAIN Unescaped
    PROVE  Clean(v) = [value |-> v, allows |-> ~hasExtension(v)]
<1>1. v \in Seq(Segments)
  BY DEF PlainPath
<1>2. decode(v) = v
  BY <1>1, DecodedType
<1>3. v[1] # Blank
  BY <1>1 DEF PlainPath
<1>4. plain(ToSet(v))
  BY DEF PlainPath, plain, ToSet
<1> QED BY <1>2, <1>3, <1>4 DEF Clean, canonical

LEMMA CleanedEmpty == Clean(<<Blank>>) = [value |-> <<>>, allows |-> TRUE]
<1> DEFINE v == <<Blank>>
<1>1. v \in Seq(Segments) /\ DOMAIN v = {1} /\ v[1] = Blank /\ Len(v) = 1
  <2>1. Blank \in Segments
    BY Zenon DEF Segments
  <2> QED BY <2>1
<1>2. decode(v) = v
  <2>1. \A i \in DOMAIN v : v[i] \notin DOMAIN Unescaped
    BY <1>1, PathAssumption
  <2> HIDE DEF v
  <2> QED BY <1>1, <2>1, DecodedType
<1>3. ~plain(ToSet(v))
  <2>1. Blank \in ToSet(v)
    BY <1>1 DEF ToSet
  <2> QED BY <2>1 DEF plain
<1>4. pathClean(v) = <<>>
  BY <1>1, PathCleanIsPlain
<1> HIDE DEF v
<1>5. Clean(v) = slowClean(v)
  <2>1. canonical(v) = [ok |-> plain(ToSet(v)), value |-> v]
    BY <1>1 DEF canonical
  <2>2. canonical(v).ok = FALSE
    BY <1>3, <2>1
  <2> QED BY <1>2, <2>2, Zenon DEF Clean
<1>6. slowClean(v) = [value |-> <<>>, allows |-> TRUE]
  BY <1>4 DEF slowClean
<1> QED BY <1>5, <1>6 DEF v

LEMMA Reversed ==
    ASSUME NEW S, NEW s \in Seq(S)
    PROVE  /\ Reverse(s) \in Seq(S) /\ Len(Reverse(s)) = Len(s) /\ Len(s) \in Nat
           /\ \A i \in 1..Len(s) : Reverse(s)[i] = s[Len(s) - i + 1]
<1>1. Len(s) \in Nat /\ \A i \in 1..Len(s) : s[i] \in S
  OBVIOUS
<1>2. \A i \in 1..Len(s) : Len(s) - i + 1 \in 1..Len(s)
  BY <1>1
<1>3. Reverse(s) \in [1..Len(s) -> S]
  BY <1>1, <1>2 DEF Reverse
<1>4. \A i \in 1..Len(s) : Reverse(s)[i] = s[Len(s) - i + 1]
  BY DEF Reverse
<1> QED BY <1>1, <1>3, <1>4

LEMMA FirstPart ==
    ASSUME NEW S, NEW s \in Seq(S), NEW n \in Nat, n <= Len(s)
    PROVE  /\ SubSeq(s, 1, n) \in Seq(S) /\ Len(SubSeq(s, 1, n)) = n
           /\ \A i \in 1..n : SubSeq(s, 1, n)[i] = s[i]
<1>1. 1 \in Int /\ n \in Int /\ \A i \in 1..n : s[i] \in S
  OBVIOUS
<1>2. /\ SubSeq(s, 1, n) \in Seq(S) /\ Len(SubSeq(s, 1, n)) = IF 1 <= n THEN n - 1 + 1 ELSE 0
      /\ \A i \in 1..(n - 1 + 1) : SubSeq(s, 1, n)[i] = s[1 + i - 1]
  BY <1>1, SubSeqProperties
<1>3. n - 1 + 1 = n /\ \A i \in 1..n : 1 + i - 1 = i
  OBVIOUS
<1> QED BY <1>2, <1>3

LEMMA SuffixByPlace ==
    ASSUME NEW S, NEW e \in Seq(S), NEW a \in Seq(S)
    PROVE  /\ IsSuffix(e, a) <=>
                /\ Len(e) <= Len(a)
                /\ \A i \in 1..Len(e) : e[i] = a[Len(a) - Len(e) + i]
           /\ Len(e) \in Nat /\ Len(a) \in Nat
<1> DEFINE n == Len(e)
           m == Len(a)
           x == Reverse(e)
           y == Reverse(a)
<1>1. /\ x \in Seq(S) /\ Len(x) = n /\ n \in Nat /\ \A i \in 1..n : x[i] = e[n - i + 1]
      /\ y \in Seq(S) /\ Len(y) = m /\ m \in Nat /\ \A i \in 1..m : y[i] = a[m - i + 1]
  BY Reversed
<1>2. IsSuffix(e, a) <=> n <= m /\ SubSeq(x, 1, n) = SubSeq(y, 1, n)
  <2>1. IsSuffix(e, a) <=> Len(x) <= Len(y) /\ SubSeq(x, 1, Len(x)) = SubSeq(y, 1, Len(x))
    BY DEF IsSuffix, IsPrefix
  <2> HIDE DEF x, y, n, m
  <2> QED BY <1>1, <2>1
<1> HIDE DEF x, y, n, m
<1>3. ASSUME n <= m
      PROVE  SubSeq(x, 1, n) = SubSeq(y, 1, n) <=> \A i \in 1..n : e[i] = a[m - n + i]
  <2>1. /\ SubSeq(x, 1, n) \in Seq(S) /\ Len(SubSeq(x, 1, n)) = n
        /\ \A i \in 1..n : SubSeq(x, 1, n)[i] = x[i]
    <3>1. n <= Len(x)
      BY <1>1
    <3> QED BY <1>1, <3>1, FirstPart
  <2>2. /\ SubSeq(y, 1, n) \in Seq(S) /\ Len(SubSeq(y, 1, n)) = n
        /\ \A i \in 1..n : SubSeq(y, 1, n)[i] = y[i]
    <3>1. n <= Len(y)
      BY <1>1, <1>3
    <3> QED BY <1>1, <3>1, FirstPart
  <2>3. SubSeq(x, 1, n) = SubSeq(y, 1, n) <=> \A i \in 1..n : x[i] = y[i]
    <3>1. ASSUME \A i \in 1..n : x[i] = y[i] PROVE SubSeq(x, 1, n) = SubSeq(y, 1, n)
      BY <2>1, <2>2, <3>1, SeqEqual
    <3>2. ASSUME SubSeq(x, 1, n) = SubSeq(y, 1, n) PROVE \A i \in 1..n : x[i] = y[i]
      BY <2>1, <2>2, <3>2
    <3> QED BY <3>1, <3>2
  <2>4. \A i \in 1..n : x[i] = e[n - i + 1] /\ y[i] = a[m - i + 1]
    BY <1>1, <1>3
  <2>5. ASSUME \A i \in 1..n : x[i] = y[i], NEW i \in 1..n PROVE e[i] = a[m - n + i]
    <3>1. n - i + 1 \in 1..n /\ n - (n - i + 1) + 1 = i /\ m - (n - i + 1) + 1 = m - n + i
      BY <1>1
    <3>2. x[n - i + 1] = e[n - (n - i + 1) + 1] /\ y[n - i + 1] = a[m - (n - i + 1) + 1]
      BY <2>4, <3>1
    <3> QED BY <2>5, <3>1, <3>2
  <2>6. ASSUME \A i \in 1..n : e[i] = a[m - n + i], NEW i \in 1..n PROVE x[i] = y[i]
    <3>1. n - i + 1 \in 1..n /\ m - n + (n - i + 1) = m - i + 1
      BY <1>1
    <3>2. e[n - i + 1] = a[m - n + (n - i + 1)]
      BY <2>6, <3>1
    <3> QED BY <2>4, <3>1, <3>2
  <2> QED BY <2>3, <2>5, <2>6
<1> QED BY <1>1, <1>2, <1>3 DEF n, m

(***************************************************************************)
(* The alias of an asset is what comes before the entry.                   *)
(***************************************************************************)
LEMMA AliasIsDirectory ==
    ASSUME NEW a \in Seq(Segments), NEW p \in Seq(Segments), p # <<>>
    PROVE  preparedEntryAlias(a) = p <=> a = p \o Entry
<1> DEFINE k == Len(a) - Len(Entry)
<1>1. Entry \in Seq(Segments)
  <2>1. Entry \in Seq(STRING)
    BY PathAssumption
  <2>2. STRING \subseteq Segments
    BY Zenon DEF Segments
  <2> QED BY <2>1, <2>2, SeqMonotonic
<1>2. /\ IsSuffix(Entry, a) <=>
           Len(Entry) <= Len(a) /\ \A i \in 1..Len(Entry) : Entry[i] = a[k + i]
      /\ Len(Entry) \in Nat /\ Len(a) \in Nat
  BY <1>1, SuffixByPlace
<1>3. ASSUME preparedEntryAlias(a) = p PROVE a = p \o Entry
  <2>1. IsSuffix(Entry, a) /\ p = SubSeq(a, 1, k)
    BY <1>3 DEF preparedEntryAlias
  <2>2. k \in Nat /\ k <= Len(a) /\ k + Len(Entry) = Len(a)
    BY <1>2, <2>1
  <2> HIDE DEF k
  <2>3. Len(p) = k /\ \A i \in 1..k : p[i] = a[i]
    BY <2>1, <2>2, FirstPart
  <2>4. /\ p \o Entry \in Seq(Segments) /\ Len(p \o Entry) = k + Len(Entry)
        /\ \A i \in 1..(k + Len(Entry)) :
              (p \o Entry)[i] = IF i <= k THEN p[i] ELSE Entry[i - k]
    BY <1>1, <2>3, ConcatProperties
  <2>5. \A i \in 1..Len(a) : a[i] = (p \o Entry)[i]
    <3> SUFFICES ASSUME NEW i \in 1..Len(a) PROVE a[i] = (p \o Entry)[i]
      OBVIOUS
    <3>1. CASE i <= k
      <4>1. i \in 1..k /\ i \in 1..(k + Len(Entry))
        BY <2>2, <3>1
      <4> QED BY <2>3, <2>4, <3>1, <4>1
    <3>2. CASE ~(i <= k)
      <4>1. i - k \in 1..Len(Entry) /\ k + (i - k) = i /\ i \in 1..(k + Len(Entry))
        BY <1>2, <2>2, <3>2
      <4>2. Entry[i - k] = a[k + (i - k)]
        BY <1>2, <2>1, <4>1
      <4> QED BY <2>4, <3>2, <4>1, <4>2
    <3> QED BY <3>1, <3>2
  <2>6. Len(a) = Len(p \o Entry)
    BY <2>2, <2>4
  <2> QED BY <2>4, <2>5, <2>6, SeqEqual
<1>4. ASSUME a = p \o Entry PROVE preparedEntryAlias(a) = p
  <2>1. /\ Len(a) = Len(p) + Len(Entry) /\ Len(p) \in Nat
        /\ \A i \in 1..(Len(p) + Len(Entry)) :
              a[i] = IF i <= Len(p) THEN p[i] ELSE Entry[i - Len(p)]
    BY <1>1, <1>4, ConcatProperties
  <2>2. k = Len(p) /\ Len(Entry) <= Len(a) /\ k <= Len(a)
    BY <1>2, <2>1
  <2> HIDE DEF k
  <2>3. \A i \in 1..Len(Entry) : Entry[i] = a[k + i]
    <3> SUFFICES ASSUME NEW i \in 1..Len(Entry) PROVE Entry[i] = a[k + i]
      OBVIOUS
    <3>1. Len(p) + i \in 1..(Len(p) + Len(Entry)) /\ ~(Len(p) + i <= Len(p))
          /\ (Len(p) + i) - Len(p) = i
      BY <1>2, <2>1
    <3> QED BY <2>1, <2>2, <3>1
  <2>4. /\ SubSeq(a, 1, k) \in Seq(Segments) /\ Len(SubSeq(a, 1, k)) = k
        /\ \A i \in 1..k : SubSeq(a, 1, k)[i] = a[i]
    BY <2>1, <2>2, FirstPart
  <2>5. \A i \in 1..k : SubSeq(a, 1, k)[i] = p[i]
    <3> SUFFICES ASSUME NEW i \in 1..k PROVE SubSeq(a, 1, k)[i] = p[i]
      OBVIOUS
    <3>1. i \in 1..(Len(p) + Len(Entry)) /\ i <= Len(p)
      BY <1>2, <2>1, <2>2
    <3> QED BY <2>1, <2>4, <3>1
  <2>6. SubSeq(a, 1, k) = p
    BY <2>2, <2>4, <2>5, SeqEqual
  <2> QED BY <1>2, <2>2, <2>3, <2>6 DEF preparedEntryAlias, k
<1> QED BY <1>3, <1>4

LEMMA SegmentsOfConfiguration ==
    /\ Mount \in Seq(Segments) /\ Entry \in Seq(Segments) /\ FallbackTarget \in Seq(Segments)
    /\ RequestPaths \subseteq Seq(Segments) /\ AssetPaths \subseteq Seq(Segments)
<1>1. STRING \subseteq Segments
  BY Zenon DEF Segments
<1>2. Seq(STRING) \subseteq Seq(Segments)
  BY <1>1, SeqMonotonic
<1> QED BY <1>2, PathAssumption, PathsAssumption

\* What the table of routes has for a path.
LEMMA RouteOf ==
    ASSUME NEW assets \in SUBSET AssetPaths, NEW p \in Seq(Segments)
    PROVE  LET table == routes(assets) IN
           /\ <<>> \notin DOMAIN table
           /\ p # <<>> => (p \in DOMAIN table <=> p \in assets \/ p \o Entry \in assets)
           /\ p \in DOMAIN table => table[p] = IF p \in assets THEN p ELSE p \o Entry
<1> DEFINE aliases == {preparedEntryAlias(a) : a \in assets} \ {<<>>}
           table == routes(assets)
<1>1. table = [q \in assets \cup aliases |-> IF q \in assets THEN q ELSE q \o Entry]
  BY Zenon DEF routes
<1>2. \A a \in assets : a \in Seq(Segments) /\ a # <<>>
  BY SegmentsOfConfiguration, PathsAssumption
<1>3. p # <<>> => (p \in aliases <=> p \o Entry \in assets)
  <2> SUFFICES ASSUME p # <<>> PROVE p \in aliases <=> p \o Entry \in assets
    OBVIOUS
  <2>1. \A a \in assets : preparedEntryAlias(a) = p <=> a = p \o Entry
    BY <1>2, AliasIsDirectory
  <2> QED BY <2>1
<1>4. <<>> \notin assets /\ <<>> \notin aliases
  BY <1>2
<1>5. DOMAIN table = assets \cup aliases
  <2> HIDE DEF table, aliases
  <2> QED BY <1>1
<1>6. p \in DOMAIN table => table[p] = IF p \in assets THEN p ELSE p \o Entry
  <2> HIDE DEF table, aliases
  <2> QED BY <1>1, <1>5
<1> HIDE DEF table, aliases
<1> QED BY <1>3, <1>4, <1>5, <1>6 DEF table

LEMMA TrimmedPath ==
    ASSUME NEW path \in RequestPaths
    PROVE  TrimMount(Mount \o path) \in Seq(Segments) /\ TrimMount(Mount \o path) # <<>>
<1>1. Mount \in Seq(Segments) /\ path \in Seq(Segments)
  BY SegmentsOfConfiguration
<1>2. CASE Mount \o path = Mount
  <2>1. TrimMount(Mount \o path) = <<Blank>>
    BY <1>2 DEF TrimMount
  <2>2. Blank \in Segments
    BY Zenon DEF Segments
  <2>3. <<Blank>> \in Seq(Segments) /\ <<Blank>> # <<>>
    BY <2>2
  <2> QED BY <2>1, <2>3
<1>3. CASE Mount \o path # Mount
  <2>1. path # <<>>
    BY <1>1, <1>3, ConcatEqualIffEmpty
  <2>2. Len(Mount \o path) = Len(Mount) + Len(path) /\ Len(Mount) \in Nat /\ Len(path) \in Nat
    BY <1>1, ConcatProperties
  <2>3. Len(path) # 0
    BY <1>1, <2>1
  <2> DEFINE m == Len(Mount) + 1
             n == Len(Mount) + Len(path)
  <2>4. m \in Len(Mount) + 1 .. Len(Mount) + Len(path) /\ n \in Len(Mount) + 1 .. Len(Mount) + Len(path)
        /\ m - Len(Mount) = 1 /\ n - Len(Mount) = Len(path)
    BY <2>2, <2>3
  <2> HIDE DEF m, n
  <2>5. SubSeq(Mount \o path, m, n) = SubSeq(path, m - Len(Mount), n - Len(Mount))
    BY <1>1, <2>4, SubSeqOfConcat2
  <2>6. SubSeq(path, 1, Len(path)) = path
    BY <1>1, SubSeqFull
  <2>7. TrimMount(Mount \o path) = SubSeq(Mount \o path, Len(Mount) + 1, Len(Mount \o path))
    BY <1>3 DEF TrimMount
  <2>8. TrimMount(Mount \o path) = path
    BY <2>2, <2>4, <2>5, <2>6, <2>7 DEF m, n
  <2> QED BY <1>1, <2>1, <2>8
<1> QED BY <1>2, <1>3

(***************************************************************************)
(* Where the two ways find an asset, for one path and one set of assets.   *)
(***************************************************************************)
LEMMA RoutesAgree ==
    ASSUME NEW assets \in SUBSET AssetPaths, NEW v, PlainPath(v), NEW allows \in BOOLEAN,
           v = <<>> \/ ~hasExtension(v) => allows
    PROVE  LET c == [value |-> v, allows |-> allows]
               r == findAsset(assets, v)
               q == findRoute(assets, c)
           IN  \/ q = r
               \/ EscapedTwice(v)
               \/ r = NotFound /\ v # <<>> /\ hasExtension(v) /\ (q.asset = v \o Entry \/ allows)
               \/ v = <<>> /\ q = hit(Entry \o Entry)
               \/ allows /\ q = [asset |-> FallbackTarget \o Entry, fallback |-> TRUE]
<1> DEFINE c == [value |-> v, allows |-> allows]
           table == routes(assets)
           p == IF v = <<>> THEN Entry ELSE v
           F == FallbackTarget
           back == [asset |-> F, fallback |-> TRUE]
           r == findAsset(assets, v)
           q == findRoute(assets, c)
           primary == IF p \in DOMAIN table THEN hit(table[p]) ELSE NotFound
<1>1. /\ Entry \in Seq(Segments) /\ F \in Seq(Segments) /\ v \in Seq(Segments)
      /\ Entry # <<>> /\ <<>> \notin assets
  BY SegmentsOfConfiguration, PathAssumption, PathsAssumption DEF PlainPath
<1>2. \A s \in Seq(Segments) : s \o Entry # <<>>
  BY <1>1, ConcatEqualIffEmpty
<1>3. \A s : s # <<>> => hit(s) # NotFound
  BY DEF hit, NotFound
<1>4. q = IF primary # NotFound THEN primary
          ELSE IF allows /\ F \in DOMAIN table
               THEN [asset |-> table[F], fallback |-> TRUE] ELSE NotFound
  BY DEF findRoute, findPrimaryRoute
<1>5. p \in Seq(Segments) /\ p # <<>>
  BY <1>1
<1> HIDE DEF p
<1>6. /\ p \in DOMAIN table <=> p \in assets \/ p \o Entry \in assets
      /\ p \in DOMAIN table => table[p] = IF p \in assets THEN p ELSE p \o Entry
  BY <1>5, RouteOf
<1>7. /\ F \in DOMAIN table <=> F # <<>> /\ (F \in assets \/ F \o Entry \in assets)
      /\ F \in DOMAIN table => table[F] = IF F \in assets THEN F ELSE F \o Entry
  BY <1>1, RouteOf
<1>8. primary = IF p \in assets THEN hit(p)
                ELSE IF p \o Entry \in assets THEN hit(p \o Entry) ELSE NotFound
  <2> HIDE DEF table
  <2> QED BY <1>6
<1>9. p \in assets => primary = hit(p) /\ hit(p) # NotFound
  BY <1>3, <1>5, <1>8
<1>10. p \notin assets /\ p \o Entry \in assets
         => primary = hit(p \o Entry) /\ hit(p \o Entry) # NotFound
  BY <1>2, <1>3, <1>5, <1>8
<1>11. F \in assets => F \in DOMAIN table /\ table[F] = F
  BY <1>1, <1>7
<1>12. F \in DOMAIN table /\ F \notin assets => table[F] = F \o Entry
  BY <1>7
<1> HIDE DEF table, primary, q, r, c
<1>13. CASE v = <<>>
  <2>1. p = Entry /\ allows
    BY <1>13 DEF p
  <2>2. r = IF Entry \in assets THEN hit(Entry)
            ELSE IF F \in assets THEN back ELSE NotFound
    <3>1. Clean(<<Blank>>) = [value |-> <<>>, allows |-> TRUE]
      BY CleanedEmpty
    <3>2. hit(Entry) # NotFound
      BY <1>1, <1>3
    <3> QED BY <1>13, <3>1, <3>2 DEF r, findAsset, findPrimaryAsset
  <2>3. CASE Entry \in assets
    BY <1>4, <1>9, <2>1, <2>2, <2>3 DEF q, r, c
  <2>4. CASE Entry \notin assets /\ Entry \o Entry \in assets
    BY <1>4, <1>10, <1>13, <2>1, <2>4 DEF q, r, c
  <2>5. CASE Entry \notin assets /\ Entry \o Entry \notin assets
    <3>1. primary = NotFound
      BY <1>8, <2>1, <2>5
    <3>2. CASE F \in assets
      BY <1>4, <1>11, <2>1, <2>2, <2>5, <3>1, <3>2 DEF q, r, c
    <3>3. CASE F \notin assets /\ F \in DOMAIN table
      BY <1>4, <1>12, <2>1, <3>1, <3>3 DEF q, r, c
    <3>4. CASE F \notin assets /\ F \notin DOMAIN table
      BY <1>4, <2>2, <2>5, <3>1, <3>4 DEF q, r, c
    <3> QED BY <3>2, <3>3, <3>4
  <2> QED BY <2>3, <2>4, <2>5
<1>14. CASE v # <<>> /\ ~EscapedTwice(v)
  <2>1. p = v
    BY <1>14 DEF p
  <2> DEFINE d == ~hasExtension(v)
  <2>2. Clean(v) = [value |-> v, allows |-> d]
    BY <1>14, CleanedTwice DEF EscapedTwice
  <2>3. r = LET first == IF v \in assets THEN hit(v)
                         ELSE IF d /\ v \o Entry \in assets THEN hit(v \o Entry)
                         ELSE NotFound
            IN  IF first # NotFound THEN first
                ELSE IF d /\ F \in assets THEN back ELSE NotFound
    <3>1. PICK b : b = d
      BY Zenon
    <3>2. Clean(v) = [value |-> v, allows |-> b]
      BY <2>2, <3>1, Zenon
    <3>3. r = LET e == [value |-> v, allows |-> b]
                  first == findPrimaryAsset(assets, e)
              IN  IF first # NotFound THEN first
                  ELSE IF e.allows /\ F \in assets THEN back ELSE NotFound
      BY <1>14, <3>2, Zenon DEF r, findAsset
    <3>4. findPrimaryAsset(assets, [value |-> v, allows |-> b]) =
            IF v \in assets THEN hit(v)
            ELSE IF b /\ v \o Entry \in assets THEN hit(v \o Entry) ELSE NotFound
      BY <1>14 DEF findPrimaryAsset
    <3>5. [value |-> v, allows |-> b].allows = b
      OBVIOUS
    <3> QED BY <3>1, <3>3, <3>4, <3>5, Zenon
  <2> HIDE DEF d
  <2>4. d => allows
    BY DEF d
  <2>5. CASE v \in assets
    <3>1. r = hit(v)
      BY <1>9, <2>1, <2>3, <2>5
    <3> QED BY <1>4, <1>9, <2>1, <2>5, <3>1 DEF q, r, c
  <2>6. CASE v \notin assets /\ d /\ v \o Entry \in assets
    <3>1. r = hit(v \o Entry)
      BY <1>10, <2>1, <2>3, <2>6
    <3> QED BY <1>4, <1>10, <2>1, <2>6, <3>1 DEF q, r, c
  <2>7. CASE v \notin assets /\ d /\ v \o Entry \notin assets
    <3>1. primary = NotFound
      BY <1>8, <2>1, <2>7
    <3>2. r = IF F \in assets THEN back ELSE NotFound
      BY <2>3, <2>7
    <3>3. CASE F \in assets
      BY <1>4, <1>11, <2>4, <2>7, <3>1, <3>2, <3>3 DEF q, r, c
    <3>4. CASE F \notin assets /\ F \in DOMAIN table
      BY <1>4, <1>12, <2>4, <2>7, <3>1, <3>4 DEF q, r, c
    <3>5. CASE F \notin assets /\ F \notin DOMAIN table
      BY <1>4, <3>1, <3>2, <3>5 DEF q, r, c
    <3> QED BY <3>3, <3>4, <3>5
  <2>8. CASE v \notin assets /\ ~d
    <3>1. r = NotFound /\ hasExtension(v)
      BY <2>3, <2>8 DEF d
    <3>2. CASE v \o Entry \in assets
      <4>1. q = hit(v \o Entry)
        BY <1>4, <1>10, <2>1, <2>8, <3>2
      <4>2. q.asset = v \o Entry
        BY <4>1 DEF hit
      <4> QED BY <1>14, <3>1, <4>2 DEF q, r, c
    <3>3. CASE v \o Entry \notin assets
      <4>1. primary = NotFound
        BY <1>8, <2>1, <2>8, <3>3
      <4>2. CASE allows
        BY <1>14, <3>1, <4>2 DEF q, r, c
      <4>3. CASE ~allows
        BY <1>4, <3>1, <4>1, <4>3 DEF q, r, c
      <4> QED BY <4>2, <4>3
    <3> QED BY <3>2, <3>3
  <2> QED BY <2>5, <2>6, <2>7, <2>8
<1>15. CASE EscapedTwice(v)
  BY <1>15
<1> QED BY <1>13, <1>14, <1>15

-----------------------------------------------------------------------------
(* Negotiation: answers *)

LEMMA AnswersAgree ==
    ASSUME HeadersInv, request.width \in Nat
    PROVE  selectResponse = resolvePreferredVariant
<1>1. selectImageResponse = IF asksForImage THEN pickImageVariant ELSE Nothing
  BY ImagesAgree
<1>2. selectEncodingResponse = IF request.range THEN Nothing ELSE pickVariant
  BY EncodingsAgree
<1> QED BY <1>1, <1>2, Zenon DEF selectResponse, resolvePreferredVariant

\* An image that is served is one that fits.
LEMMA ImageFits ==
    ASSUME HeadersInv, request.width \in Nat, pickImageVariant # Nothing
    PROVE  /\ FittingImage(pickImageVariant)
           /\ pickImageVariant[1] = "image" /\ pickImageVariant # Original
<1>1. PICK f \in requestedFormats :
         /\ pickImageVariant = <<"image", f, pickImageVariantForFormat(f)>>
         /\ pickImageVariantForFormat(f) # Nothing
  BY ImageChoice
<1>2. PICK w : w = pickImageVariantForFormat(f)
  OBVIOUS
<1>3. /\ w \in usableWidths(f) /\ w \in Nat
      /\ request.width = 0 => w = 0
      /\ request.width > 0 /\ w < request.width => \A v \in usableWidths(f) : v <= w
      /\ request.width > 0 /\ w >= request.width
           => ~ \E v \in usableWidths(f) : request.width <= v /\ v < w
  BY <1>1, <1>2, PickedWidth
<1>4. catalog[<<"image", f, w>>] = "current"
  BY <1>3, UsableWidths
<1>5. usableWidths(f) = {k[2] : k \in {j \in ImageKeys :
                           j[1] = f /\ catalog[<<"image", j[1], j[2]>>] = "current"}}
  <2>1. \A j \in ImageKeys : <<"image", j[1], j[2]>> \in VariantKeys
    BY DEF VariantKeys
  <2> QED BY <2>1, Zenon DEF usableWidths, usable
<1>6. request.format # Nothing => f = request.format
  BY DEF requestedFormats, PreferredImageFormats
<1>7. ASSUME request.format = Nothing, Stated(Accept!Naming(f), imgHeader) # {},
             PreferredImageFormats # {}
      PROVE  \E q \in Stated(Accept!Naming(f), imgHeader) : q > 0
  <2>1. f \in Range(Formats) /\ imageQualityForFormat(f) > 0
    BY <1>7 DEF requestedFormats, PreferredImageFormats
  <2>2. Accept!Naming(f) # {}
    BY <1>7 DEF Stated
  <2>3. PICK i \in Accept!Naming(f) : imgExplicit[f] = imgHeader[i].q
    BY <2>1, <2>2 DEF HeadersInv, Accept!QualitiesAreStated, Accept!BestOfName
  <2>4. imgHeader[i].q \in Nat
    <3>1. i \in DOMAIN imgHeader
      BY <2>3 DEF Accept!Naming
    <3> QED BY <3>1, HeadersAssumption DEF HeadersInv, Accept!HeaderTypeOK, Accept!Entries,
            Accept!Qualities, Accept!HeaderConstants
  <2>5. imageQualityForFormat(f) = imgExplicit[f]
    BY <2>3, <2>4 DEF imageQualityForFormat, imagePreferenceMatch, Accept!Unset
  <2> QED BY <2>1, <2>3, <2>5 DEF Stated
<1>8. pickImageVariant = <<"image", f, w>>
  BY <1>1, <1>2
<1>9. FittingImage(<<"image", f, w>>)
  <2>1. <<"image", f, w>>[2] = f /\ <<"image", f, w>>[3] = w
    OBVIOUS
  <2> QED BY <1>3, <1>4, <1>5, <1>6, <1>7, <2>1 DEF FittingImage
<1> QED BY <1>8, <1>9 DEF Original

LEMMA AnswerIsBest ==
    ASSUME HeadersInv, request.width \in Nat
    PROVE  BestAcceptedEncoding(resolvePreferredVariant) /\ FittingImage(resolvePreferredVariant)
<1> DEFINE served == resolvePreferredVariant
<1>1. CASE asksForImage /\ pickImageVariant # Nothing
  <2>1. served = pickImageVariant
    BY <1>1 DEF resolvePreferredVariant
  <2>2. FittingImage(served) /\ served[1] = "image" /\ served # Original
    BY <1>1, <2>1, ImageFits
  <2> HIDE DEF served
  <2>3. BestAcceptedEncoding(served)
    BY <2>2 DEF BestAcceptedEncoding
  <2> QED BY <2>2, <2>3 DEF served
<1>2. CASE ~(asksForImage /\ pickImageVariant # Nothing) /\ ~request.range /\ pickVariant # Nothing
  <2>1. served = pickVariant
    BY <1>2 DEF resolvePreferredVariant
  <2>2. PICK n \in AcceptedEncodings :
           /\ pickVariant = <<"encoding", n>>
           /\ \A m \in AcceptedEncodings \ {n} : compareEncodingCandidates(n, m)
    BY <1>2, EncodingChoice
  <2>3. \A m \in AcceptedEncodings : StatedEncodingQuality(m) <= StatedEncodingQuality(n)
    <3>1. \A m \in AcceptedEncodings : /\ m \in Range(Encodings)
                                       /\ StatedEncodingQuality(m) = encodingQuality(m)
      BY AcceptedAreCandidates
    <3>2. \A m \in AcceptedEncodings : encodingQuality(m) \in Int
      BY <3>1, EncodingQualityType, KeptQualities
    <3>3. \A m \in AcceptedEncodings : encodingQuality(m) <= encodingQuality(n)
      BY <2>2, <3>2 DEF compareEncodingCandidates
    <3> QED BY <3>1, <3>3
  <2>4. served = <<"encoding", n>> /\ served[1] = "encoding" /\ served[2] = n /\ served # Original
    <3>1. served = <<"encoding", n>>
      BY <2>1, <2>2
    <3> HIDE DEF served
    <3> QED BY <3>1 DEF Original
  <2> HIDE DEF served
  <2>5. BestAcceptedEncoding(served)
    BY <2>2, <2>3, <2>4 DEF BestAcceptedEncoding
  <2>6. FittingImage(served)
    BY <2>4 DEF FittingImage
  <2> QED BY <2>5, <2>6 DEF served
<1>3. CASE ~(asksForImage /\ pickImageVariant # Nothing) /\ (request.range \/ pickVariant = Nothing)
  <2>1. served = Original
    BY <1>3 DEF resolvePreferredVariant
  <2>2. AcceptedEncodings = {} \/ request.range
    BY <1>3, EncodingChoice
  <2>3. served[1] = "identity"
    <3> HIDE DEF served
    <3> QED BY <2>1 DEF Original
  <2> HIDE DEF served
  <2> QED BY <2>2, <2>3 DEF BestAcceptedEncoding, FittingImage, served
<1> QED BY <1>1, <1>2, <1>3

-----------------------------------------------------------------------------
(* Negotiation: the invariant *)

(***************************************************************************)
(* What is served stays the best, since neither the headers nor the        *)
(* catalog nor the request are read again once there is an answer.         *)
(***************************************************************************)
NegotiationInv ==
    /\ HeadersInv
    /\ request.width \in Nat
    /\ answer = Waiting \/ request.read
    /\ PreparedAgrees
    /\ BestAcceptedVariant

LEMMA NegotiationStarts == NegotiationInit => NegotiationInv
<1> SUFFICES ASSUME NegotiationInit PROVE NegotiationInv
  OBVIOUS
<1>1. HeadersInv
  BY HeadersInit
<1> QED BY <1>1 DEF NegotiationInit, NegotiationInv, NoRequest, Waiting, PreparedAgrees,
        BestAcceptedVariant, Unrouted

LEMMA RouteUnchanged ==
    ASSUME PreparedAgrees, UNCHANGED route, answer'.prepared = answer'.resolved
    PROVE  PreparedAgrees'
  BY DEF PreparedAgrees, DottedDirectory, TargetIsDirectory, EscapedTwice

\* What is served is judged by the headers, the catalog and the request alone.
LEMMA JudgedAlike ==
    ASSUME UNCHANGED <<headers, catalog, request>>
    PROVE  \A served : /\ BestAcceptedEncoding(served)' <=> BestAcceptedEncoding(served)
                       /\ FittingImage(served)' <=> FittingImage(served)
<1>1. \A n : StatedEncodingQuality(n)' = StatedEncodingQuality(n)
  BY DEF headers, StatedEncodingQuality, AcceptEncoding!Naming, AcceptEncoding!Saying
<1>2. AcceptedEncodings' = AcceptedEncodings
  BY <1>1 DEF AcceptedEncodings
<1>3. \A served : BestAcceptedEncoding(served)' <=> BestAcceptedEncoding(served)
  BY <1>1, <1>2 DEF BestAcceptedEncoding
<1>4. PreferredImageFormats' = PreferredImageFormats
  BY DEF headers, PreferredImageFormats, imageQualityForFormat, imagePreferenceMatch
<1>5. \A f : Accept!Naming(f)' = Accept!Naming(f) /\ imgHeader' = imgHeader
  BY DEF headers, Accept!Naming
<1>6. \A served : FittingImage(served)' <=> FittingImage(served)
  BY <1>4, <1>5 DEF FittingImage
<1> QED BY <1>3, <1>6

LEMMA AnswerUnchanged ==
    ASSUME BestAcceptedVariant, UNCHANGED <<headers, catalog, request, answer>>
    PROVE  BestAcceptedVariant'
  BY JudgedAlike DEF BestAcceptedVariant

LEMMA CleanedRecord ==
    ASSUME NEW path
    PROVE  LET c == Clean(path) IN
           c.allows \in BOOLEAN /\ c = [value |-> c.value, allows |-> c.allows]
<1>1. CASE canonical(decode(path)).ok
  BY <1>1, Zenon DEF Clean
<1>2. CASE ~canonical(decode(path)).ok
  BY <1>2, Zenon DEF Clean, slowClean
<1> QED BY <1>1, <1>2

LEMMA RouteStep == Route => PreparedAgrees' \/ answer'.prepared # answer'.resolved
<1> SUFFICES ASSUME Route, answer'.prepared = answer'.resolved PROVE PreparedAgrees'
  OBVIOUS
<1>1. PICK path \in RequestPaths, assets \in SUBSET AssetPaths :
         LET c == Clean(TrimMount(Mount \o path)) IN
         route' = [stage |-> "found", path |-> path, cleaned |-> c,
                   resolved |-> findAsset(assets, c.value),
                   prepared |-> findRoute(assets, c)]
  BY DEF Route
<1>2. PICK c : c = Clean(TrimMount(Mount \o path))
  OBVIOUS
<1>3. PlainPath(c.value) /\ (c.value = <<>> \/ ~hasExtension(c.value) => c.allows)
  BY <1>2, TrimmedPath, CleanedIsPlain
<1>4. c.allows \in BOOLEAN /\ c = [value |-> c.value, allows |-> c.allows]
  BY <1>2, CleanedRecord
<1>5. PICK r, q : r = findAsset(assets, c.value) /\ q = findRoute(assets, c)
  OBVIOUS
<1>6. \/ q = r
      \/ EscapedTwice(c.value)
      \/ /\ r = NotFound /\ c.value # <<>> /\ hasExtension(c.value)
         /\ q.asset = c.value \o Entry \/ c.allows
      \/ c.value = <<>> /\ q = hit(Entry \o Entry)
      \/ c.allows /\ q = [asset |-> FallbackTarget \o Entry, fallback |-> TRUE]
  <2>1. PICK v, allows : v = c.value /\ allows = c.allows
    OBVIOUS
  <2>2. c = [value |-> v, allows |-> allows]
    BY <1>4, <2>1
  <2>3. PlainPath(v) /\ allows \in BOOLEAN /\ (v = <<>> \/ ~hasExtension(v) => allows)
    BY <1>3, <1>4, <2>1
  <2>4. r = findAsset(assets, v) /\ q = findRoute(assets, [value |-> v, allows |-> allows])
    BY <1>5, <2>1, <2>2
  <2> QED BY <2>1, <2>3, <2>4, RoutesAgree
<1>7. /\ route'.stage = "found" /\ route'.cleaned = c
      /\ route'.resolved = r /\ route'.prepared = q
  <2>1. route' = [stage |-> "found", path |-> path, cleaned |-> c, resolved |-> r, prepared |-> q]
    BY <1>1, <1>2, <1>5
  <2> QED BY <2>1
<1>8. EscapedTwice(c.value) => EscapedTwice(route.cleaned.value)'
  BY <1>7 DEF EscapedTwice
<1>9. /\ c.value # <<>> /\ hasExtension(c.value)
      /\ q.asset = c.value \o Entry \/ c.allows
      => DottedDirectory(route.cleaned)'
  BY <1>7, Zenon DEF DottedDirectory
<1>10. \/ c.value = <<>> /\ q = hit(Entry \o Entry)
       \/ c.allows /\ q = [asset |-> FallbackTarget \o Entry, fallback |-> TRUE]
       => TargetIsDirectory(route.cleaned)'
  BY <1>7, Zenon DEF TargetIsDirectory
<1> QED BY <1>6, <1>7, <1>8, <1>9, <1>10, Zenon DEF PreparedAgrees

LEMMA NegotiationStep == NegotiationInv /\ [NegotiationNext]_negotiationVars => NegotiationInv'
<1> SUFFICES ASSUME NegotiationInv, [NegotiationNext]_negotiationVars PROVE NegotiationInv'
  OBVIOUS
<1> USE DEF NegotiationInv
<1>1. HeadersInv'
  BY HeadersStep
<1>2. answer.prepared = answer.resolved
  BY DEF PreparedAgrees
<1>3. CASE Route
  <2>1. UNCHANGED <<headers, catalog, request, answer>>
    BY <1>3 DEF Route
  <2>2. PreparedAgrees'
    BY <1>2, <1>3, <2>1, RouteStep
  <2>3. BestAcceptedVariant'
    BY <2>1, AnswerUnchanged
  <2> QED BY <1>1, <2>1, <2>2, <2>3
<1>4. CASE Found
  <2>1. UNCHANGED <<headers, catalog, request, answer>> /\ route'.stage # "found"
    BY <1>4 DEF Found, Routed
  <2>2. PreparedAgrees'
    BY <1>2, <2>1 DEF PreparedAgrees
  <2>3. BestAcceptedVariant'
    BY <2>1, AnswerUnchanged
  <2> QED BY <1>1, <2>1, <2>2, <2>3
<1>5. CASE BuildRequest
  <2>1. answer' = Waiting /\ UNCHANGED route /\ request'.width \in Widths
    BY <1>5 DEF BuildRequest
  <2>2. request'.width \in Nat
    BY <2>1, VariantsAssumption
  <2>3. PreparedAgrees'
    BY <2>1, RouteUnchanged DEF Waiting
  <2>4. BestAcceptedVariant'
    BY <2>1 DEF BestAcceptedVariant, Waiting
  <2> QED BY <1>1, <2>1, <2>2, <2>3, <2>4 DEF Waiting
<1>6. CASE ReadAcceptEncoding \/ ReadAccept
  <2>1. answer' = Waiting /\ UNCHANGED <<route, request>>
    BY <1>6 DEF ReadAcceptEncoding, ReadAccept
  <2>2. PreparedAgrees'
    BY <2>1, RouteUnchanged DEF Waiting
  <2>3. BestAcceptedVariant'
    BY <2>1 DEF BestAcceptedVariant, Waiting
  <2> QED BY <1>1, <2>1, <2>2, <2>3 DEF Waiting
<1>7. CASE Answer
  <2>1. /\ answer' = [resolved |-> resolvePreferredVariant, prepared |-> selectResponse]
        /\ UNCHANGED <<route, headers, catalog, request>> /\ request.read
    BY <1>7 DEF Answer
  <2>2. answer'.prepared = resolvePreferredVariant /\ answer'.resolved = resolvePreferredVariant
    BY <2>1, AnswersAgree
  <2>3. PreparedAgrees'
    BY <2>1, <2>2, RouteUnchanged
  <2>4. /\ BestAcceptedEncoding(resolvePreferredVariant)
        /\ FittingImage(resolvePreferredVariant)
    BY AnswerIsBest
  <2>5. BestAcceptedVariant'
    BY <2>1, <2>2, <2>4, JudgedAlike DEF BestAcceptedVariant
  <2> QED BY <1>1, <2>1, <2>3, <2>5
<1>8. CASE UNCHANGED negotiationVars
  <2>1. UNCHANGED <<route, headers, catalog, request, answer>>
    BY <1>8 DEF negotiationVars
  <2>2. PreparedAgrees'
    BY <1>2, <2>1, RouteUnchanged
  <2>3. BestAcceptedVariant'
    BY <2>1, AnswerUnchanged
  <2> QED BY <1>1, <2>1, <2>2, <2>3
<1> QED BY <1>3, <1>4, <1>5, <1>6, <1>7, <1>8 DEF NegotiationNext

(***************************************************************************)
(* For every catalog, every configuration and every request: the prepared  *)
(* route (prepared_select.go) finds the asset that the resolver finds, but *)
(* for the kinds of paths that PreparedAgrees sets apart, and chooses the  *)
(* same variant of it, by its shortcut for simple headers and its binary   *)
(* search over widths.                                                     *)
(***************************************************************************)
THEOREM PreparedAnswersAgree == NegotiationSpec => []PreparedAgrees
<1>1. NegotiationInv => PreparedAgrees
  BY DEF NegotiationInv
<1> QED BY <1>1, NegotiationStarts, NegotiationStep, PTL DEF NegotiationSpec

(***************************************************************************)
(* What resolvePreferredVariant and selectResponse serve is current and    *)
(* the best that the headers, as written, accept: for every list of        *)
(* encodings and formats, every set of variants and all headers.           *)
(***************************************************************************)
THEOREM BestVariantIsServed == NegotiationSpec => []BestAcceptedVariant
<1>1. NegotiationInv => BestAcceptedVariant
  BY DEF NegotiationInv
<1> QED BY <1>1, NegotiationStarts, NegotiationStep, PTL DEF NegotiationSpec

-----------------------------------------------------------------------------
(* Delivery *)

(***************************************************************************)
(* The numbers of the representations: those of the two assets themselves  *)
(* differ from each other and from those of all variants.                  *)
(***************************************************************************)
LEMMA Numbers ==
    /\ Identity \in Nat /\ OtherIdentity \in Nat /\ Identity # OtherIdentity
    /\ Identity \in Representations /\ OtherIdentity \in Representations
    /\ Identity \notin Variants /\ OtherIdentity \notin Variants
    /\ Variants \subseteq Nat /\ None \notin Representations
    /\ Variants \cup {Identity, OtherIdentity} = Representations
    /\ Cacheable \subseteq Representations
  BY DeliveryAssumption DEF Variants, Identity, OtherIdentity, Representations, None

(***************************************************************************)
(* least: there is a smallest of some numbers.                             *)
(***************************************************************************)
LEMMA LeastIsOne ==
    ASSUME NEW candidates \in SUBSET Nat, candidates # {}
    PROVE  least(candidates) \in candidates
<1>1. \E v \in candidates : \A u \in candidates : <<u, v>> \notin OpToRel(<, Nat)
  <2>1. candidates \subseteq Nat
    OBVIOUS
  <2> QED BY <2>1, NatLessThanWellFounded, WFMin, Zenon
<1>2. \A u, v \in Nat : <<u, v>> \notin OpToRel(<, Nat) => v <= u
  BY DEF OpToRel
<1>3. \E v \in candidates : \A u \in candidates : v <= u
  BY <1>1, <1>2
<1> QED BY <1>3 DEF least

(***************************************************************************)
(* A handler always finds something to send: the client's first choice of  *)
(* what there is, or the asset; and so it is with the other asset.         *)
(***************************************************************************)
Fits(v, available, r) ==
    /\ v \in Representations
    /\ v \in Variants => v \in req[r].accepts /\ v \in available

LEMMA BestIsAccepted ==
    ASSUME TypeOK, NEW r \in Requests, NEW available \in SUBSET Variants
    PROVE  Fits(best(available, r), available, r) /\ Fits(bestOfOther(available, r), available, r)
<1> DEFINE own == {v \in available \cap req[r].accepts : v < Identity}
           others == {v \in available \cap req[r].accepts : v > Identity}
<1>1. own \cup {Identity} \in SUBSET Nat /\ others \cup {OtherIdentity} \in SUBSET Nat
  BY Numbers
<1>2. best(available, r) \in own \cup {Identity}
  <2> HIDE DEF own
  <2>1. least(own \cup {Identity}) \in own \cup {Identity}
    BY <1>1, LeastIsOne
  <2> QED BY <2>1 DEF best, own
<1>3. bestOfOther(available, r) \in others \cup {OtherIdentity}
  <2> HIDE DEF others
  <2>1. least(others \cup {OtherIdentity}) \in others \cup {OtherIdentity}
    BY <1>1, LeastIsOne
  <2> QED BY <2>1 DEF bestOfOther, others
<1> HIDE DEF Representations
<1> QED BY <1>2, <1>3, Numbers DEF Fits

(***************************************************************************)
(* resolvesAgain: so is what the retry finds, if it finds anything.        *)
(***************************************************************************)
LEMMA AgainIsAccepted ==
    ASSUME TypeOK, NEW r \in Requests, NEW v, v = resolvesAgain(r)
    PROVE  /\ v # None => Fits(v, snapshot.variants, r)
           /\ v = None => req[r].recleaned = "none"
<1>1. req[r].recleaned \in {"same", "other", "none"}
  BY DEF TypeOK, RequestStates, Cleaned
<1>2. snapshot.variants \in SUBSET Variants
  BY DEF TypeOK
<1>3. /\ Fits(best(snapshot.variants, r), snapshot.variants, r)
      /\ Fits(bestOfOther(snapshot.variants, r), snapshot.variants, r)
  BY <1>2, BestIsAccepted
<1>4. /\ best(snapshot.variants, r) # None
      /\ bestOfOther(snapshot.variants, r) # None
  BY <1>3, Numbers DEF Fits
<1>5. CASE req[r].recleaned = "same"
  BY <1>3, <1>4, <1>5, Zenon DEF resolvesAgain
<1>6. CASE req[r].recleaned = "other"
  <2>1. v = bestOfOther(snapshot.variants, r)
    BY <1>6 DEF resolvesAgain
  <2> QED BY <1>3, <1>4, <2>1, Zenon
<1>7. CASE req[r].recleaned = "none"
  <2>1. v = None
    BY <1>7 DEF resolvesAgain
  <2> QED BY <1>7, <2>1
<1> QED BY <1>1, <1>5, <1>6, <1>7

(***************************************************************************)
(* A step of request r takes it to q and leaves the others alone.          *)
(***************************************************************************)
Step(r, q) == q \in RequestStates /\ req' = [req EXCEPT ![r] = q]

LEMMA OneRequest ==
    ASSUME TypeOK, NEW r \in Requests, NEW q, Step(r, q)
    PROVE  /\ req' \in [Requests -> RequestStates]
           /\ req'[r] = q
           /\ \A s \in Requests \ {r} : req'[s] = req[s]
  BY DEF TypeOK, Step

LEMMA RequestIsTyped ==
    ASSUME TypeOK, NEW r \in Requests
    PROVE  req[r] \in RequestStates
  BY DEF TypeOK

(***************************************************************************)
(* What each action makes of its request.                                  *)
(***************************************************************************)
SameOutcome(p, q) ==
    /\ q.accepts = p.accepts /\ q.status = p.status /\ q.misses = p.misses
    /\ q.encoding = p.encoding /\ q.recleaned = p.recleaned

LEMMA PreparedResolveStep ==
    ASSUME TypeOK, NEW r \in Requests, PreparedResolve(r)
    PROVE  \E q : /\ Step(r, q) /\ SameOutcome(req[r], q)
                  /\ req[r].pc = "choose" /\ q.pc = "send"
                  /\ q.choice \in Representations
                  /\ q.choice \in Variants => q.choice \in q.accepts \cap snapshot.variants
<1> DEFINE v == best(snapshot.variants, r)
           b == preparedBody(v, r)
           q == [req[r] EXCEPT !.pc = "send", !.choice = v, !.body = b]
<1>1. /\ v \in Representations
      /\ v \in Variants => v \in req[r].accepts \cap snapshot.variants
  BY BestIsAccepted DEF TypeOK, Fits
<1>2. b \in {"memory", "file"}
  BY DEF preparedBody
<1>3. req[r].pc = "choose" /\ req' = [req EXCEPT ![r] = q]
  BY DEF PreparedResolve, Goto, At
<1> HIDE DEF v, b
<1>4. q \in RequestStates /\ SameOutcome(req[r], q) /\ q.pc = "send" /\ q.choice = v
      /\ q.accepts = req[r].accepts
  BY <1>1, <1>2, RequestIsTyped DEF RequestStates, SameOutcome
<1> QED BY <1>1, <1>3, <1>4 DEF Step

LEMMA ResolveStep ==
    ASSUME TypeOK, NEW r \in Requests, Resolve(r)
    PROVE  \E q : /\ Step(r, q) /\ SameOutcome(req[r], q)
                  /\ ~prepared /\ req[r].pc = "choose" /\ q.pc = "send"
                  /\ q.choice \in Representations
                  /\ q.choice \in Variants => q.choice \in q.accepts
<1> DEFINE v == best(listed, r)
           q == [req[r] EXCEPT !.pc = "send", !.choice = v]
<1>1. v \in Representations /\ (v \in Variants => v \in req[r].accepts)
  BY BestIsAccepted DEF TypeOK, Fits
<1>2. ~prepared /\ req[r].pc = "choose" /\ req' = [req EXCEPT ![r] = q]
  BY DEF Resolve, Goto, At
<1> HIDE DEF v
<1>3. q \in RequestStates /\ SameOutcome(req[r], q) /\ q.pc = "send" /\ q.choice = v
      /\ q.accepts = req[r].accepts
  BY <1>1, RequestIsTyped DEF RequestStates, SameOutcome
<1> QED BY <1>1, <1>2, <1>3 DEF Step

LEMMA RetryPreparedStep ==
    ASSUME TypeOK, NEW r \in Requests, RetryPrepared(r)
    PROVE  \E q : /\ Step(r, q) /\ req[r].pc = "again" /\ q.accepts = req[r].accepts
                  /\ q.misses = req[r].misses /\ q.recleaned = req[r].recleaned
                  /\ \/ /\ q.pc = "done" /\ q.status = "error" /\ q.choice = req[r].choice
                        /\ \/ req[r].recleaned = "none"
                           \/ req[r].choice \in Variants => req[r].choice \in snapshot.variants
                     \/ /\ q.pc = "send" /\ q.status = req[r].status /\ q.encoding = None
                        /\ q.choice \in Representations
                        /\ q.choice \in Variants => q.choice \in q.accepts \cap snapshot.variants
<1> DEFINE v == resolvesAgain(r)
           b == preparedBody(v, r)
           failed == [req[r] EXCEPT !.pc = "done", !.status = "error", !.reported = None]
           next == [req[r] EXCEPT !.pc = "send", !.choice = v, !.encoding = None, !.body = b]
<1>1. /\ v # None => /\ v \in Representations
                     /\ v \in Variants => v \in req[r].accepts \cap snapshot.variants
      /\ v = None => req[r].recleaned = "none"
  <2> HIDE DEF v
  <2>1. v = resolvesAgain(r)
    BY DEF v
  <2> QED BY <2>1, AgainIsAccepted DEF Fits
<1>2. b \in {"memory", "file"}
  BY DEF preparedBody
<1>3. /\ req[r].pc = "again"
      /\ \/ req' = [req EXCEPT ![r] = failed] /\ v \in {None, req[r].choice}
         \/ req' = [req EXCEPT ![r] = next] /\ v # None
  BY DEF RetryPrepared, Goto, At, ended
<1> HIDE DEF v, b
<1>4. /\ failed \in RequestStates /\ failed.accepts = req[r].accepts
      /\ failed.pc = "done" /\ failed.status = "error" /\ failed.choice = req[r].choice
      /\ failed.misses = req[r].misses /\ failed.recleaned = req[r].recleaned
  BY RequestIsTyped DEF RequestStates
<1>5. v # None =>
      /\ next \in RequestStates /\ next.accepts = req[r].accepts /\ next.choice = v
      /\ next.pc = "send" /\ next.status = req[r].status /\ next.encoding = None
      /\ next.misses = req[r].misses /\ next.recleaned = req[r].recleaned
  BY <1>1, <1>2, RequestIsTyped DEF RequestStates
<1> HIDE DEF failed, next
<1> QED BY <1>1, <1>3, <1>4, <1>5 DEF Step

LEMMA SendPreparedStep ==
    ASSUME TypeOK, NEW r \in Requests, SendPrepared(r)
    PROVE  \E q : /\ Step(r, q) /\ prepared /\ req[r].pc = "send"
                  /\ q.accepts = req[r].accepts /\ q.choice = req[r].choice
                  /\ q.recleaned = req[r].recleaned
                  /\ q.encoding = IF q.choice \in Variants THEN contentEncoding(q.choice)
                                  ELSE req[r].encoding
                  /\ \/ q.pc = "done" /\ q.status = "empty" /\ q.misses = req[r].misses
                     \/ /\ q.pc = "done" /\ q.status = "ok" /\ q.misses = req[r].misses
                        /\ q.reported \in {None, contentEncoding(q.choice)}
                     \/ /\ q.pc = "delete" /\ q.status = req[r].status
                        /\ q.misses = req[r].misses + 1
                        /\ q.choice \notin {Identity, OtherIdentity}
<1> DEFINE v == req[r].choice
           e == IF v \in Variants THEN contentEncoding(v) ELSE req[r].encoding
           p == [req[r] EXCEPT !.encoding = e]
           rep == IF p.misses = 0 THEN reportedVariant(p.choice) ELSE None
           empty == [p EXCEPT !.pc = "done", !.status = "empty", !.reported = None]
           ok == [p EXCEPT !.pc = "done", !.status = "ok", !.reported = rep]
           m == [p EXCEPT !.misses = @ + 1]
           next == [m EXCEPT !.pc = "delete"]
<1>1. /\ prepared /\ req[r].pc = "send"
      /\ \/ req' = [req EXCEPT ![r] = empty]
         \/ req' = [req EXCEPT ![r] = ok]
         \/ req' = [req EXCEPT ![r] = next] /\ v \notin {Identity, OtherIdentity}
  BY DEF SendPrepared, Goto, At, ended, missed, withPreparedHeaders, OnDisk
<1>2. v \in Representations \cup {None} /\ req[r].encoding \in Variants \cup {None}
  BY RequestIsTyped DEF RequestStates
<1>3. e \in Variants \cup {None} /\ contentEncoding(v) \in Variants \cup {None}
  BY <1>2 DEF contentEncoding
<1> HIDE DEF e
<1>4. /\ p \in RequestStates /\ p.accepts = req[r].accepts /\ p.choice = v
      /\ p.encoding = e /\ p.status = req[r].status /\ p.misses = req[r].misses
      /\ p.recleaned = req[r].recleaned
  BY <1>3, RequestIsTyped DEF RequestStates
<1> HIDE DEF p
<1>5. rep \in {None, contentEncoding(v)} /\ rep \in Variants \cup {None}
  BY <1>3, <1>4 DEF reportedVariant, contentEncoding
<1> HIDE DEF rep, v
<1>6. /\ empty \in RequestStates /\ empty.accepts = p.accepts /\ empty.choice = p.choice
      /\ empty.encoding = p.encoding /\ empty.pc = "done" /\ empty.status = "empty"
      /\ empty.misses = p.misses /\ empty.recleaned = p.recleaned
  BY <1>4 DEF RequestStates
<1>7. /\ ok \in RequestStates /\ ok.accepts = p.accepts /\ ok.choice = p.choice
      /\ ok.encoding = p.encoding /\ ok.pc = "done" /\ ok.status = "ok" /\ ok.reported = rep
      /\ ok.misses = p.misses /\ ok.recleaned = p.recleaned
  BY <1>4, <1>5 DEF RequestStates
<1>m. /\ m \in RequestStates /\ m.accepts = p.accepts /\ m.choice = p.choice
      /\ m.encoding = p.encoding /\ m.status = p.status /\ m.misses = p.misses + 1
      /\ m.recleaned = p.recleaned
  BY <1>4 DEF RequestStates
<1> HIDE DEF m
<1>8. /\ next \in RequestStates /\ next.accepts = p.accepts /\ next.choice = p.choice
      /\ next.encoding = p.encoding /\ next.pc = "delete" /\ next.status = p.status
      /\ next.misses = p.misses + 1 /\ next.recleaned = p.recleaned
  BY <1>m DEF RequestStates
<1> HIDE DEF empty, ok, next
<1>9. e = IF v \in Variants THEN contentEncoding(v) ELSE req[r].encoding
  BY DEF e
<1>10. v = req[r].choice
  BY DEF v
<1> QED BY <1>1, <1>4, <1>5, <1>6, <1>7, <1>8, <1>9, <1>10 DEF Step

LEMMA SendResolvedStep ==
    ASSUME TypeOK, NEW r \in Requests, SendResolved(r)
    PROVE  \E q : /\ Step(r, q) /\ ~prepared /\ req[r].pc = "send"
                  /\ q.accepts = req[r].accepts /\ q.choice = req[r].choice
                  /\ q.encoding = contentEncoding(q.choice)
                  /\ \/ q.pc = "done" /\ q.status = "empty"
                     \/ /\ q.pc = "done" /\ q.status = "ok"
                        /\ q.reported \in {None, contentEncoding(q.choice)}
                     \/ /\ q.pc = "done" /\ q.status = "error"
                        /\ req[r].misses = maxVariantFallbackAttempts /\ q.misses = req[r].misses + 1
                     \/ /\ q.pc = "forget" /\ q.status = req[r].status
                        /\ req[r].misses # maxVariantFallbackAttempts /\ q.misses = req[r].misses + 1
<1> DEFINE v == req[r].choice
           e == contentEncoding(v)
           p == [req[r] EXCEPT !.encoding = e]
           empty == [p EXCEPT !.pc = "done", !.status = "empty", !.reported = None]
           ok == [p EXCEPT !.pc = "done", !.status = "ok", !.reported = reportedVariant(p.choice)]
           m == [p EXCEPT !.misses = @ + 1]
           failed == [m EXCEPT !.pc = "done", !.status = "error", !.reported = None]
           next == [m EXCEPT !.pc = "forget"]
<1>1. /\ ~prepared /\ req[r].pc = "send"
      /\ \/ req' = [req EXCEPT ![r] = empty]
         \/ req' = [req EXCEPT ![r] = ok]
         \/ p.misses = maxVariantFallbackAttempts /\ req' = [req EXCEPT ![r] = failed]
         \/ p.misses # maxVariantFallbackAttempts /\ req' = [req EXCEPT ![r] = next]
  BY DEF SendResolved, Goto, At, ended, missed, lastAttempt, withResolvedHeaders
<1>2. v \in Representations \cup {None}
  BY RequestIsTyped DEF RequestStates
<1>3. e \in Variants \cup {None} /\ reportedVariant(v) = e
  BY <1>2 DEF contentEncoding, reportedVariant
<1> HIDE DEF e
<1>4. /\ p \in RequestStates /\ p.accepts = req[r].accepts /\ p.choice = v
      /\ p.encoding = e /\ p.status = req[r].status /\ p.misses = req[r].misses
  BY <1>3, RequestIsTyped DEF RequestStates
<1> HIDE DEF p, v
<1>5. /\ empty \in RequestStates /\ empty.accepts = p.accepts /\ empty.choice = p.choice
      /\ empty.encoding = p.encoding /\ empty.pc = "done" /\ empty.status = "empty"
  BY <1>4 DEF RequestStates
<1>6. /\ ok \in RequestStates /\ ok.accepts = p.accepts /\ ok.choice = p.choice
      /\ ok.encoding = p.encoding /\ ok.pc = "done" /\ ok.status = "ok" /\ ok.reported = e
  BY <1>3, <1>4 DEF RequestStates
<1>7. /\ m \in RequestStates /\ m.accepts = p.accepts /\ m.choice = p.choice
      /\ m.encoding = p.encoding /\ m.status = p.status /\ m.misses = p.misses + 1
  BY <1>4 DEF RequestStates
<1> HIDE DEF m
<1>8. /\ failed \in RequestStates /\ failed.accepts = p.accepts /\ failed.choice = p.choice
      /\ failed.encoding = p.encoding /\ failed.pc = "done" /\ failed.status = "error"
      /\ failed.misses = p.misses + 1
  BY <1>7 DEF RequestStates
<1>9. /\ next \in RequestStates /\ next.accepts = p.accepts /\ next.choice = p.choice
      /\ next.encoding = p.encoding /\ next.pc = "forget" /\ next.status = p.status
      /\ next.misses = p.misses + 1
  BY <1>7 DEF RequestStates
<1> HIDE DEF empty, ok, failed, next
<1>10. v = req[r].choice /\ e = contentEncoding(v)
  BY DEF v, e
<1> QED BY <1>1, <1>4, <1>5, <1>6, <1>8, <1>9, <1>10 DEF Step

LEMMA DeleteVariantArtifactStep ==
    ASSUME TypeOK, NEW r \in Requests, DeleteVariantArtifact(r)
    PROVE  \E q : /\ Step(r, q) /\ req[r].pc = "delete"
                  /\ q.accepts = req[r].accepts /\ q.choice = req[r].choice
                  /\ q.misses = req[r].misses /\ q.recleaned = req[r].recleaned
                  /\ \/ q.pc = "rebuild" /\ q.status = req[r].status
                     \/ q.pc = "done" /\ q.status = "error" /\ req[r].choice \notin listed
<1> DEFINE next == [req[r] EXCEPT !.pc = "rebuild"]
           failed == [req[r] EXCEPT !.pc = "done", !.status = "error", !.reported = None]
<1>1. /\ req[r].pc = "delete"
      /\ \/ req' = [req EXCEPT ![r] = next]
         \/ req' = [req EXCEPT ![r] = failed] /\ req[r].choice \notin listed
  BY DEF DeleteVariantArtifact, Goto, At, ended
<1>2. /\ next \in RequestStates /\ next.accepts = req[r].accepts /\ next.choice = req[r].choice
      /\ next.pc = "rebuild" /\ next.status = req[r].status
      /\ next.misses = req[r].misses /\ next.recleaned = req[r].recleaned
  BY RequestIsTyped DEF RequestStates
<1>3. /\ failed \in RequestStates /\ failed.accepts = req[r].accepts
      /\ failed.choice = req[r].choice /\ failed.pc = "done" /\ failed.status = "error"
      /\ failed.misses = req[r].misses /\ failed.recleaned = req[r].recleaned
  BY RequestIsTyped DEF RequestStates
<1> HIDE DEF next, failed
<1> QED BY <1>1, <1>2, <1>3 DEF Step

LEMMA RebuildAfterDeleteStep ==
    ASSUME TypeOK, NEW r \in Requests, RebuildAfterDelete(r) \/ FailRebuildAfterDelete(r)
    PROVE  \E q : /\ Step(r, q) /\ SameOutcome(req[r], q) /\ q.choice = req[r].choice
                  /\ req[r].pc = "rebuild" /\ q.pc = "again"
<1> DEFINE q == [req[r] EXCEPT !.pc = "again"]
<1>1. req[r].pc = "rebuild" /\ req' = [req EXCEPT ![r] = q]
  BY DEF RebuildAfterDelete, FailRebuildAfterDelete, Goto, At
<1>2. q \in RequestStates /\ SameOutcome(req[r], q) /\ q.choice = req[r].choice /\ q.pc = "again"
  BY RequestIsTyped DEF RequestStates, SameOutcome
<1> QED BY <1>1, <1>2 DEF Step

LEMMA ForgetMissingStep ==
    ASSUME TypeOK, NEW r \in Requests, ForgetMissing(r)
    PROVE  \E q : /\ Step(r, q) /\ SameOutcome(req[r], q)
                  /\ req[r].pc = "forget" /\ q.pc = "choose"
<1> DEFINE q == [req[r] EXCEPT !.pc = "choose"]
<1>1. req[r].pc = "forget" /\ req' = [req EXCEPT ![r] = q]
  BY DEF ForgetMissing, Goto, At
<1>2. q \in RequestStates /\ SameOutcome(req[r], q) /\ q.pc = "choose"
  BY RequestIsTyped DEF RequestStates, SameOutcome
<1> QED BY <1>1, <1>2 DEF Step

(***************************************************************************)
(* What the actions of a request make of the store.                        *)
(***************************************************************************)
LEMMA StoreIsTyped ==
    ASSUME TypeOK, NEW r \in Requests, Handle(r)
    PROVE  /\ prepared' \in BOOLEAN
           /\ files' \subseteq Variants /\ listed' \subseteq Variants
           /\ snapshot' \in [variants : SUBSET Variants, bodies : SUBSET Representations]
           /\ stale' \in BOOLEAN /\ cache' \subseteq Representations
           /\ removing' \subseteq Variants /\ writing' \subseteq Variants
           /\ changes' \in 0..MaxChanges
<1>1. Cacheable \subseteq Representations
  BY Numbers
<1>2. CASE UNCHANGED store
  BY <1>2 DEF store, TypeOK
<1>3. CASE DeleteVariantArtifact(r)
  BY <1>3 DEF DeleteVariantArtifact, TypeOK
<1>4. CASE RebuildAfterDelete(r)
  BY <1>1, <1>4 DEF RebuildAfterDelete, Compile, TypeOK
<1>5. CASE FailRebuildAfterDelete(r)
  <2>1. changes' \in 0..MaxChanges
    BY <1>5, DeliveryAssumption DEF FailRebuildAfterDelete, TypeOK
  <2> QED BY <1>5, <2>1 DEF FailRebuildAfterDelete, TypeOK
<1>6. CASE SendResolved(r)
  <2>1. \/ cache' = cache
        \/ cache' = cache \cup {req[r].choice} /\ ShouldServeRequest(r)
    <3> DEFINE v == withResolvedHeaders(req[r]).choice
    <3>1. v = req[r].choice
      BY RequestIsTyped DEF withResolvedHeaders, RequestStates
    <3>2. \/ cache' = cache
          \/ cache' = IF ShouldServeRequest(r) THEN cache \cup {v} ELSE cache
      BY <1>6, Zenon DEF SendResolved
    <3> HIDE DEF v
    <3> QED BY <3>1, <3>2
  <2>2. cache' \subseteq Representations
    BY <1>1, <2>1 DEF ShouldServeRequest, TypeOK
  <2> QED BY <1>6, <2>2 DEF SendResolved, TypeOK
<1>7. CASE ForgetMissing(r)
  BY <1>7 DEF ForgetMissing, TypeOK
<1> QED BY <1>2, <1>3, <1>4, <1>5, <1>6, <1>7
        DEF Handle, PreparedResolve, SendPrepared, RetryPrepared, Resolve

(***************************************************************************)
(* The state keeps its types.                                              *)
(***************************************************************************)
THEOREM DeliveryIsTyped == Spec => []TypeOK
<1>1. Init => TypeOK
  <2> SUFFICES ASSUME Init PROVE TypeOK
    OBVIOUS
  <2>1. Cacheable \subseteq Representations
    BY Numbers
  <2>2. ASSUME NEW a \in SUBSET Variants, NEW b \in {"whole", "range"}, NEW c \in Cleaned
        PROVE  newRequest(a, b, c) \in RequestStates
    BY DEF newRequest, RequestStates
  <2>3. req \in [Requests -> RequestStates]
    <3>1. newRequests \subseteq RequestStates
      BY <2>2 DEF newRequests
    <3>2. req \in [Requests -> newRequests]
      BY DEF Init
    <3> QED BY <3>1, <3>2
  <2>4. snapshot \in [variants : SUBSET Variants, bodies : SUBSET Representations]
    BY <2>1 DEF Init, Compile
  <2>5. changes \in 0..MaxChanges
    BY DeliveryAssumption DEF Init
  <2> QED BY <2>3, <2>4, <2>5 DEF Init, TypeOK
<1>2. TypeOK /\ [Next]_vars => TypeOK'
  <2> SUFFICES ASSUME TypeOK, [Next]_vars PROVE TypeOK'
    OBVIOUS
  <2>1. CASE UNCHANGED vars
    BY <2>1 DEF TypeOK, vars, store
  <2>2. ASSUME NEW r \in Requests, Handle(r) PROVE TypeOK'
    <3>1. \E q : Step(r, q)
      BY <2>2, PreparedResolveStep, SendPreparedStep, DeleteVariantArtifactStep,
         RebuildAfterDeleteStep, RetryPreparedStep, ResolveStep, SendResolvedStep,
         ForgetMissingStep DEF Handle
    <3>2. req' \in [Requests -> RequestStates]
      BY <3>1, OneRequest
    <3> QED BY <2>2, <3>2, StoreIsTyped DEF TypeOK
  <2>3. ASSUME NEW v \in Variants,
               RemoveFile(v) \/ RemoveVariant(v) \/ WriteArtifact(v) \/ UpsertVariant(v)
        PROVE TypeOK'
    <3>1. changes' \in 0..MaxChanges
      BY <2>3, DeliveryAssumption
         DEF RemoveFile, RemoveVariant, WriteArtifact, UpsertVariant, TypeOK
    <3> QED BY <2>3, <3>1 DEF RemoveFile, RemoveVariant, WriteArtifact, UpsertVariant, TypeOK
  <2>4. CASE Rebuild
    <3>1. Cacheable \subseteq Representations
      BY Numbers
    <3> QED BY <2>4, <3>1 DEF Rebuild, TypeOK, Compile
  <2>5. ASSUME NEW v \in Representations, Preload(v) \/ Evict(v) PROVE TypeOK'
    BY <2>5 DEF Preload, Evict, TypeOK
  <2>6. CASE FailRebuild
    BY <2>6 DEF FailRebuild, TypeOK
  <2> QED BY <2>1, <2>2, <2>3, <2>4, <2>5, <2>6 DEF Next
<1> QED BY <1>1, <1>2, PTL DEF Spec

(***************************************************************************)
(* A server keeps the route it was started with.                           *)
(***************************************************************************)
LEMMA RouteIsFixed == [Next]_vars => prepared' = prepared
  BY DEF Next, Handle, vars, store, PreparedResolve, SendPrepared, DeleteVariantArtifact,
         RebuildAfterDelete, FailRebuildAfterDelete, RetryPrepared, Resolve, SendResolved,
         ForgetMissing, RemoveFile, RemoveVariant, WriteArtifact, UpsertVariant, Preload, Evict,
         Rebuild, FailRebuild

(***************************************************************************)
(* What is known of a request at each point: it has chosen something the   *)
(* client accepts; before a prepared response is sent no header of another *)
(* is set; and what has been sent fits.                                    *)
(***************************************************************************)
Chosen(q) ==
    q.pc # "choose" => /\ q.choice \in Representations
                       /\ q.choice \in Variants => q.choice \in q.accepts
Unsent(q) == q.pc # "done" => q.status = "none"
Apart(q) == prepared => /\ q.pc # "forget"
                        /\ q.pc \in {"choose", "send"} => q.encoding = None
Fitting(q) ==
    q.status = "ok" => /\ q.encoding = contentEncoding(q.choice)
                       /\ q.reported \in {None, q.encoding}
                       /\ q.choice \in Variants => q.choice \in q.accepts
HeaderInv == \A r \in Requests : Chosen(req[r]) /\ Unsent(req[r]) /\ Apart(req[r]) /\ Fitting(req[r])

\* HeaderInv, with the types, is inductive.
LEMMA HeaderInvHolds == Spec => []HeaderInv
<1> DEFINE Good(q) == Chosen(q) /\ Unsent(q) /\ Apart(q) /\ Fitting(q)
<1>1. Init => HeaderInv
  BY DEF Init, HeaderInv, newRequests, newRequest, Chosen, Unsent, Apart, Fitting
<1>2. TypeOK /\ HeaderInv /\ [Next]_vars => HeaderInv'
  <2> SUFFICES ASSUME TypeOK, HeaderInv, [Next]_vars PROVE HeaderInv'
    OBVIOUS
  <2>0. prepared' = prepared
    BY RouteIsFixed
  <2>1. CASE UNCHANGED req
    BY <2>0, <2>1 DEF HeaderInv, Chosen, Unsent, Apart, Fitting
  <2>2. ASSUME NEW r \in Requests, NEW q, Step(r, q), Good(q) PROVE HeaderInv'
    BY <2>0, <2>2, OneRequest DEF HeaderInv, Chosen, Unsent, Apart, Fitting
  <2>3. ASSUME NEW r \in Requests PROVE Good(req[r])
    BY DEF HeaderInv
  <2> USE DEF Chosen, Unsent, Apart, Fitting
  <2>4. ASSUME NEW r \in Requests, PreparedResolve(r) PROVE HeaderInv'
    BY <2>2, <2>3, <2>4, PreparedResolveStep DEF SameOutcome
  <2>5. ASSUME NEW r \in Requests, SendPrepared(r) PROVE HeaderInv'
    BY <2>2, <2>3, <2>5, SendPreparedStep DEF contentEncoding
  <2>6. ASSUME NEW r \in Requests, DeleteVariantArtifact(r) PROVE HeaderInv'
    BY <2>2, <2>3, <2>6, DeleteVariantArtifactStep
  <2>7. ASSUME NEW r \in Requests, RebuildAfterDelete(r) \/ FailRebuildAfterDelete(r)
        PROVE HeaderInv'
    BY <2>2, <2>3, <2>7, RebuildAfterDeleteStep DEF SameOutcome
  <2>8. ASSUME NEW r \in Requests, RetryPrepared(r) PROVE HeaderInv'
    BY <2>2, <2>3, <2>8, RetryPreparedStep
  <2>9. ASSUME NEW r \in Requests, Resolve(r) PROVE HeaderInv'
    BY <2>2, <2>3, <2>9, ResolveStep DEF SameOutcome
  <2>10. ASSUME NEW r \in Requests, SendResolved(r) PROVE HeaderInv'
    BY <2>2, <2>3, <2>10, SendResolvedStep
  <2>11. ASSUME NEW r \in Requests, ForgetMissing(r) PROVE HeaderInv'
    BY <2>2, <2>3, <2>11, ForgetMissingStep DEF SameOutcome
  <2> QED BY <2>1, <2>4, <2>5, <2>6, <2>7, <2>8, <2>9, <2>10, <2>11
          DEF Next, Handle, vars, RemoveFile, RemoveVariant, WriteArtifact, UpsertVariant,
              Preload, Evict, Rebuild, FailRebuild
<1> QED BY <1>1, <1>2, DeliveryIsTyped, PTL DEF Spec

(***************************************************************************)
(* Every body is sent under the headers of its own response, through both  *)
(* ways of delivery and whatever was missed before.                        *)
(***************************************************************************)
THEOREM HeadersOfBody == Spec => []HeadersMatchBody
<1>1. HeaderInv => HeadersMatchBody
  BY DEF HeaderInv, HeadersMatchBody, Fitting
<1> QED BY <1>1, HeaderInvHolds, PTL

(***************************************************************************)
(* Without a prepared snapshot a request that may go on has an attempt     *)
(* left, and one that has failed has none.                                 *)
(***************************************************************************)
Attempts(q) ==
    /\ q.pc \in {"choose", "send", "forget", "done"}
    /\ q.pc # "done" => q.misses <= maxVariantFallbackAttempts
    /\ q.pc # "done" => q.status = "none"
    /\ q.status = "error" => q.misses > maxVariantFallbackAttempts
AttemptInv == ~prepared => \A r \in Requests : Attempts(req[r])

(***************************************************************************)
(* A server without a prepared snapshot fails a request only after         *)
(* maxVariantFallbackAttempts retries have missed as well.                 *)
(***************************************************************************)
THEOREM ErrorAfterAllAttempts == Spec => []ErrorOnlyAfterAllAttempts
<1>1. Init => AttemptInv
  BY DeliveryAssumption DEF Init, AttemptInv, Attempts, newRequests, newRequest
<1>2. TypeOK /\ AttemptInv /\ [Next]_vars => AttemptInv'
  <2> SUFFICES ASSUME TypeOK, AttemptInv, [Next]_vars, ~prepared PROVE AttemptInv'
    BY RouteIsFixed DEF AttemptInv
  <2>1. CASE UNCHANGED req
    BY <2>1, RouteIsFixed DEF AttemptInv, Attempts
  <2>2. ASSUME NEW r \in Requests, NEW q, Step(r, q), Attempts(q) PROVE AttemptInv'
    BY <2>2, OneRequest DEF AttemptInv, Attempts
  <2>3. ASSUME NEW r \in Requests PROVE Attempts(req[r]) /\ req[r].misses \in Nat
    BY RequestIsTyped DEF AttemptInv, RequestStates
  <2> USE DEF Attempts
  <2>4. ASSUME NEW r \in Requests, Resolve(r) PROVE AttemptInv'
    BY <2>2, <2>3, <2>4, ResolveStep DEF SameOutcome
  <2>5. ASSUME NEW r \in Requests, SendResolved(r) PROVE AttemptInv'
    BY <2>2, <2>3, <2>5, SendResolvedStep, DeliveryAssumption
  <2>6. ASSUME NEW r \in Requests, ForgetMissing(r) PROVE AttemptInv'
    BY <2>2, <2>3, <2>6, ForgetMissingStep DEF SameOutcome
  <2>7. ASSUME NEW r \in Requests PROVE ~PreparedResolve(r) /\ ~SendPrepared(r)
    BY DEF PreparedResolve, SendPrepared
  <2>8. ASSUME NEW r \in Requests
        PROVE /\ ~DeleteVariantArtifact(r) /\ ~RebuildAfterDelete(r)
              /\ ~FailRebuildAfterDelete(r) /\ ~RetryPrepared(r)
    BY <2>3 DEF DeleteVariantArtifact, RebuildAfterDelete, FailRebuildAfterDelete, RetryPrepared, At
  <2> QED BY <2>1, <2>4, <2>5, <2>6, <2>7, <2>8
          DEF Next, Handle, vars, RemoveFile, RemoveVariant, WriteArtifact, UpsertVariant,
              Preload, Evict, Rebuild, FailRebuild
<1>3. AttemptInv => ErrorOnlyAfterAllAttempts
  BY DEF AttemptInv, Attempts, ErrorOnlyAfterAllAttempts
<1> QED BY <1>1, <1>2, <1>3, DeliveryIsTyped, PTL DEF Spec

(***************************************************************************)
(* While nothing has changed on the prepared route, the store is touched   *)
(* only by requests that have missed something.  If r is the only one, the *)
(* catalog lists what the snapshot offers, but for the variant that r has  *)
(* just deleted, and the snapshot that r chooses from again lacks it; so r *)
(* finds something else, unless its path leads nowhere any more.           *)
(***************************************************************************)
Still == removing = {} /\ writing = {} /\ stale = FALSE
Missed(q) == q.misses = 0 => q.pc \in {"choose", "send", "done"}
Lone(r) == \A s \in Requests \ {r} : req[s].misses = 0
Offered(r) ==
    /\ req[r].recleaned # "none" => req[r].status # "error"
    /\ req[r].pc # "forget"
    /\ req[r].pc # "rebuild" => snapshot.variants \subseteq listed
    /\ req[r].pc = "send" /\ req[r].choice \in Variants => req[r].choice \in snapshot.variants
    /\ req[r].pc = "delete" => req[r].choice \in listed
    /\ req[r].pc = "rebuild" => req[r].choice \notin listed
    /\ req[r].pc = "again" => req[r].choice \notin snapshot.variants
    /\ req[r].pc \in {"delete", "rebuild", "again"} => req[r].choice \in Variants
LoneInv ==
    prepared /\ changes = 0 =>
        /\ Still
        /\ \A r \in Requests : Missed(req[r])
        /\ \A r \in Requests : Lone(r) => Offered(r)

(***************************************************************************)
(* OthersStep: another request that goes on without a miss does not        *)
(* concern r.                                                              *)
(***************************************************************************)
LEMMA OthersStep ==
    ASSUME TypeOK, NEW r \in Requests, NEW s \in Requests \ {r}, NEW q, Step(s, q),
           Lone(r)', q.misses = req[s].misses \/ q.misses = req[s].misses + 1,
           Lone(r) => Offered(r), UNCHANGED <<snapshot, listed>>
    PROVE  Offered(r)'
<1>1. req'[s] = q /\ \A t \in Requests \ {s} : req'[t] = req[t]
  BY OneRequest
<1>2. req[s].misses = 0
  <2>1. q.misses = 0 /\ req[s].misses \in Nat
    BY <1>1, RequestIsTyped DEF Lone, RequestStates
  <2> QED BY <2>1
<1>3. Lone(r)
  BY <1>1, <1>2 DEF Lone
<1> QED BY <1>1, <1>3 DEF Offered

(***************************************************************************)
(* MineStep: what r does itself.                                           *)
(***************************************************************************)
LEMMA MineStep ==
    ASSUME TypeOK, HeaderInv, NEW r \in Requests, Offered(r), prepared,
           Handle(r), ~FailRebuildAfterDelete(r)
    PROVE  Offered(r)'
<1>0. req[r].pc # "done" => req[r].status = "none"
  BY DEF HeaderInv, Unsent
<1>1. CASE PreparedResolve(r)
  <2>1. UNCHANGED <<snapshot, listed>>
    BY <1>1 DEF PreparedResolve, store
  <2> QED BY <1>0, <1>1, <2>1, PreparedResolveStep, OneRequest DEF Offered, SameOutcome
<1>2. CASE SendPrepared(r)
  <2>1. UNCHANGED <<snapshot, listed>>
    BY <1>2 DEF SendPrepared, store
  <2>2. PICK q : /\ Step(r, q) /\ req[r].pc = "send" /\ q.choice = req[r].choice
                 /\ q.recleaned = req[r].recleaned
                 /\ \/ q.pc = "done" /\ q.status \in {"empty", "ok"}
                    \/ /\ q.pc = "delete" /\ q.status = req[r].status
                       /\ q.choice \notin {Identity, OtherIdentity}
    BY <1>2, SendPreparedStep
  <2>4. req[r].choice \in Representations
    BY <2>2 DEF HeaderInv, Chosen
  <2>3. req'[r] = q
    BY <2>2, OneRequest
  <2>5. q.pc = "delete" => q.choice \in Variants
    BY <2>2, <2>4, Numbers DEF Variants
  <2>6. snapshot.variants \subseteq listed
    BY <2>2 DEF Offered
  <2> QED BY <1>0, <2>1, <2>2, <2>3, <2>5, <2>6 DEF Offered
<1>3. CASE DeleteVariantArtifact(r)
  <2>1. snapshot' = snapshot /\ listed' = listed \ {req[r].choice}
    BY <1>3 DEF DeleteVariantArtifact
  <2>2. PICK q : /\ Step(r, q) /\ req[r].pc = "delete" /\ q.choice = req[r].choice
                 /\ q.recleaned = req[r].recleaned
                 /\ \/ q.pc = "rebuild" /\ q.status = req[r].status
                    \/ req[r].choice \notin listed
    BY <1>3, DeleteVariantArtifactStep
  <2>3. req'[r] = q
    BY <2>2, OneRequest
  <2> QED BY <1>0, <2>1, <2>2, <2>3 DEF Offered
<1>4. CASE RebuildAfterDelete(r)
  <2>1. listed' = listed /\ snapshot'.variants = listed
    BY <1>4 DEF RebuildAfterDelete, Compile
  <2>2. PICK q : /\ Step(r, q) /\ req[r].pc = "rebuild" /\ q.choice = req[r].choice
                 /\ q.recleaned = req[r].recleaned /\ q.pc = "again" /\ q.status = req[r].status
    BY <1>4, RebuildAfterDeleteStep DEF SameOutcome
  <2>3. req'[r] = q
    BY <2>2, OneRequest
  <2> QED BY <1>0, <2>1, <2>2, <2>3 DEF Offered
<1>5. CASE RetryPrepared(r)
  <2>1. UNCHANGED <<snapshot, listed>>
    BY <1>5 DEF RetryPrepared, store
  <2>2. PICK q : /\ Step(r, q) /\ req[r].pc = "again"
                 /\ q.recleaned = req[r].recleaned
                 /\ \/ /\ q.pc = "done"
                       /\ \/ req[r].recleaned = "none"
                          \/ req[r].choice \in Variants => req[r].choice \in snapshot.variants
                    \/ /\ q.pc = "send" /\ q.status = req[r].status
                       /\ q.choice \in Variants => q.choice \in snapshot.variants
    BY <1>5, RetryPreparedStep
  <2>3. req'[r] = q
    BY <2>2, OneRequest
  <2> QED BY <1>0, <2>1, <2>2, <2>3 DEF Offered
<1>6. ~Resolve(r) /\ ~SendResolved(r) /\ ~ForgetMissing(r)
  BY DEF Resolve, SendResolved, ForgetMissing, At, Offered
<1> QED BY <1>1, <1>2, <1>3, <1>4, <1>5, <1>6 DEF Handle

(***************************************************************************)
(* LoneMissIsServed: a request on the prepared route that finds artifacts  *)
(* gone, any number of them, is answered with something else, as long as   *)
(* nothing changes, no other request misses anything and its path, cleaned *)
(* once more, still leads to an asset: to the same or to another one.      *)
(***************************************************************************)
THEOREM LoneMissIsServed == Spec => []LoneMissFallsBack
<1>1. Init => HeaderInv /\ LoneInv
  <2>1. Init => HeaderInv
    BY DEF Init, HeaderInv, newRequests, newRequest, Chosen, Unsent, Apart, Fitting
  <2>2. Init => LoneInv
    <3> SUFFICES ASSUME Init PROVE LoneInv
      OBVIOUS
    <3>1. ASSUME NEW r \in Requests
          PROVE  req[r].pc = "choose" /\ req[r].status = "none" /\ req[r].misses = 0
      BY DEF Init, newRequests, newRequest
    <3>2. snapshot.variants \subseteq listed
      BY DEF Init, Compile
    <3> QED BY <3>1, <3>2 DEF Init, LoneInv, Still, Missed, Offered
  <2> QED BY <2>1, <2>2
<1>2. TypeOK /\ HeaderInv /\ LoneInv /\ [Next]_vars => LoneInv'
  <2> SUFFICES ASSUME TypeOK, HeaderInv, LoneInv, [Next]_vars, prepared', changes' = 0
               PROVE  LoneInv'
    BY DEF LoneInv
  <2>0. prepared /\ changes \in Nat
    <3>1. prepared' = prepared
      BY RouteIsFixed
    <3>2. changes \in Nat
      BY DeliveryAssumption DEF TypeOK
    <3> QED BY <3>1, <3>2
  <2>1. CASE UNCHANGED vars
    <3>1. UNCHANGED <<removing, writing, stale, req, snapshot, listed, prepared, changes>>
      BY <2>1 DEF vars, store
    <3> QED BY <3>1 DEF LoneInv, Still, Missed, Lone, Offered
  <2>2. ASSUME NEW r \in Requests, Handle(r) PROVE LoneInv'
    <3>1. changes = 0 /\ ~FailRebuildAfterDelete(r) /\ UNCHANGED <<removing, writing, stale>>
      BY <2>0, <2>2 DEF Handle, store, PreparedResolve, SendPrepared, DeleteVariantArtifact,
         RebuildAfterDelete, FailRebuildAfterDelete, RetryPrepared, Resolve, SendResolved, ForgetMissing
    <3>2. /\ Still /\ \A s \in Requests : Missed(req[s])
          /\ \A s \in Requests : Lone(s) => Offered(s)
      BY <2>0, <3>1 DEF LoneInv
    <3>3. ~Resolve(r) /\ ~SendResolved(r)
      BY <2>0 DEF Resolve, SendResolved
    <3>4. ~ForgetMissing(r)
      BY <2>0 DEF ForgetMissing, At, HeaderInv, Apart
    <3>5. \E q : /\ Step(r, q) /\ (q.misses = req[r].misses \/ q.misses = req[r].misses + 1)
                 /\ q.pc \in {"send", "done"} \/ q.misses = req[r].misses + 1 \/ req[r].pc \notin {"choose", "send", "done"}
                 /\ q.misses = 0 => req[r].misses = 0
      <4>1. req[r].misses \in Nat
        BY RequestIsTyped DEF RequestStates
      <4>2. CASE PreparedResolve(r)
        BY <4>1, <4>2, PreparedResolveStep DEF SameOutcome
      <4>3. CASE SendPrepared(r)
        <5>1. PICK q : /\ Step(r, q)
                       /\ \/ q.pc = "done" /\ q.misses = req[r].misses
                          \/ q.misses = req[r].misses + 1
          BY <4>3, SendPreparedStep
        <5> QED BY <4>1, <5>1
      <4>4. CASE DeleteVariantArtifact(r)
        BY <4>1, <4>4, DeleteVariantArtifactStep
      <4>5. CASE RebuildAfterDelete(r)
        BY <4>1, <4>5, RebuildAfterDeleteStep DEF SameOutcome
      <4>6. CASE RetryPrepared(r)
        BY <4>1, <4>6, RetryPreparedStep
      <4> QED BY <2>2, <3>1, <3>3, <3>4, <4>2, <4>3, <4>4, <4>5, <4>6 DEF Handle
    <3>6. PICK q : /\ Step(r, q) /\ (q.misses = req[r].misses \/ q.misses = req[r].misses + 1)
                   /\ q.pc \in {"send", "done"} \/ q.misses = req[r].misses + 1 \/ req[r].pc \notin {"choose", "send", "done"}
                   /\ q.misses = 0 => req[r].misses = 0
      BY <3>5
    <3>7. req'[r] = q /\ \A s \in Requests \ {r} : req'[s] = req[s]
      BY <3>6, OneRequest
    <3>8. \A s \in Requests : Missed(req[s])'
      <4>1. Missed(req[r])'
        <5>1. req[r].misses \in Nat
          BY RequestIsTyped DEF RequestStates
        <5> QED BY <3>2, <3>6, <3>7, <5>1 DEF Missed
      <4> QED BY <3>2, <3>7, <4>1 DEF Missed
    <3>9. ASSUME NEW s \in Requests, Lone(s)' PROVE Offered(s)'
      <4>1. CASE s = r
        <5>1. Lone(r)
          BY <3>7, <3>9, <4>1 DEF Lone
        <5> QED BY <2>0, <2>2, <3>1, <3>2, <4>1, <5>1, MineStep
      <4>2. CASE s # r
        <5>1. req'[r].misses = 0 /\ req[r].misses = 0
          BY <3>6, <3>7, <3>9, <4>2 DEF Lone
        <5>2. req[r].pc \in {"choose", "send", "done"}
          BY <3>2, <5>1 DEF Missed
        <5>3. UNCHANGED <<snapshot, listed>>
          BY <2>2, <3>1, <3>3, <3>4, <5>2
             DEF Handle, PreparedResolve, SendPrepared, DeleteVariantArtifact, RebuildAfterDelete,
                 RetryPrepared, At, store
        <5> QED BY <3>2, <3>6, <3>9, <4>2, <5>3, OthersStep
      <4> QED BY <4>1, <4>2
    <3> QED BY <3>1, <3>2, <3>8, <3>9 DEF LoneInv, Still
  <2>3. ASSUME NEW v \in Variants,
               RemoveFile(v) \/ RemoveVariant(v) \/ WriteArtifact(v) \/ UpsertVariant(v)
        PROVE FALSE
    <3>1. CASE RemoveFile(v) \/ WriteArtifact(v)
      BY <2>0, <3>1 DEF RemoveFile, WriteArtifact
    <3>2. CASE RemoveVariant(v) \/ UpsertVariant(v)
      BY <2>0, <3>2 DEF RemoveVariant, UpsertVariant, LoneInv, Still
    <3> QED BY <2>3, <3>1, <3>2
  <2>4. ASSUME NEW v \in Representations, Preload(v) \/ Evict(v) PROVE FALSE
    BY <2>0, <2>4 DEF Preload, Evict
  <2>5. CASE Rebuild \/ FailRebuild
    BY <2>0, <2>5 DEF Rebuild, FailRebuild, LoneInv, Still
  <2> QED BY <2>1, <2>2, <2>3, <2>4, <2>5 DEF Next
<1>3. LoneInv => LoneMissFallsBack
  BY DEF LoneInv, LoneMissFallsBack, Lone, Offered
<1> QED BY <1>1, <1>2, <1>3, DeliveryIsTyped, HeaderInvHolds, PTL DEF Spec

-----------------------------------------------------------------------------
(* PipelineQueue *)

(***************************************************************************)
(* A claimed or executed request has a real key.                           *)
(***************************************************************************)
KeysInUse ==
    /\ \A p \in Producers : producer[p].pc # "idle" => producer[p].key \in Keys
    /\ \A w \in Workers : runs(w) => worker[w].key \in Keys

(***************************************************************************)
(* closeTaskQueue announces itself before it does anything else.           *)
(***************************************************************************)
ClosingIsAnnounced == closing # "no" => workerClosing

QueueTypes == QueueTypeOK /\ KeysInUse

(***************************************************************************)
(* TypesInit: the service starts with an empty queue and nothing claimed.  *)
(***************************************************************************)
LEMMA TypesInit == QueueInit => QueueTypes
<1> SUFFICES ASSUME QueueInit PROVE QueueTypes
  OBVIOUS
<1>1. tasks \in Seq(Keys) /\ Len(tasks) <= QueueSize
  BY QueueSizeAssumption DEF QueueInit
<1>2. /\ producer \in [Producers -> [pc : {"idle", "add", "rlock", "locked", "send", "drop"},
                                    key : Keys \cup {NoKey}]]
      /\ worker \in [Workers -> [pc : {"off", "select", "process", "exited", "dead"},
                                key : Keys \cup {NoKey}]]
  BY DEF QueueInit, idle, to
<1>3. panics \in 0..MaxPanics
  BY MaxPanicsAssumption DEF QueueInit
<1>4. QueueTypeOK
  BY <1>1, <1>2, <1>3 DEF QueueInit, QueueTypeOK
<1>5. KeysInUse
  BY DEF QueueInit, KeysInUse, idle, to, runs
<1> QED
  BY <1>4, <1>5 DEF QueueTypes

(***************************************************************************)
(* TypesStep: no step exceeds the queue's capacity (Enqueue's select with  *)
(* default), and every claimed request has a key.                          *)
(***************************************************************************)
LEMMA TypesStep == QueueTypes /\ [QueueNext]_queueVars => QueueTypes'
<1> SUFFICES ASSUME QueueTypes, [QueueNext]_queueVars PROVE QueueTypes'
  OBVIOUS
<1> USE QueueSizeAssumption, MaxPanicsAssumption DEF QueueTypes, QueueTypeOK, KeysInUse, runs, idle, to, lifecycle
<1>1. ASSUME NEW p \in Producers, NEW k \in Keys, Enqueue(p, k) PROVE QueueTypes'
  BY <1>1 DEF Enqueue
<1>2. ASSUME NEW p \in Producers, AddIfAbsent(p) PROVE QueueTypes'
  BY <1>2 DEF AddIfAbsent
<1>3. ASSUME NEW p \in Producers, RLock(p) PROVE QueueTypes'
  BY <1>3 DEF RLock
<1>4. ASSUME NEW p \in Producers, RecheckClosing(p) PROVE QueueTypes'
  BY <1>4 DEF RecheckClosing
<1>5. ASSUME NEW p \in Producers, Send(p) PROVE QueueTypes'
  BY <1>5 DEF Send
<1>6. ASSUME NEW p \in Producers, Drop(p) PROVE QueueTypes'
  BY <1>6 DEF Drop
<1>7. ASSUME NEW w \in Workers, Receive(w) PROVE QueueTypes'
  BY <1>7 DEF Receive
<1>8. ASSUME NEW w \in Workers, Exit(w) \/ Finish(w) \/ Panic(w) \/ InvokeWorker(w) PROVE QueueTypes'
  BY <1>8 DEF Exit, Finish, Panic, InvokeWorker, putAway
<1>9. CASE Start \/ InvokeFails \/ Stop \/ CleanupStopTimesOut \/ ContextEnds
            \/ CloseSteps \/ StopTimesOut
  BY <1>9 DEF Start, InvokeFails, Stop, CleanupStopTimesOut, ContextEnds,
              CloseSteps, StoreClosing, CancelWorkers, LockEnqueue,
              CloseTasks, CloseReturns, StopTimesOut
<1>10. CASE Terminated \/ UNCHANGED queueVars
  BY <1>10 DEF Terminated, queueVars
<1> QED
  BY <1>1, <1>2, <1>3, <1>4, <1>5, <1>6, <1>7, <1>8, <1>9, <1>10
     DEF QueueNext, EnqueueSteps, WorkerSteps

(***************************************************************************)
(* QueueIsTyped: QueueTypeOK, the bound on the channel's content included, holds *)
(* for every queue size.                                                   *)
(***************************************************************************)
THEOREM QueueIsTyped == QueueSpec => []QueueTypeOK
<1>1. QueueTypes => QueueTypeOK
  BY DEF QueueTypes
<1> QED
  BY <1>1, TypesInit, TypesStep, PTL DEF QueueSpec

-----------------------------------------------------------------------------
(***************************************************************************)
(* NeverSendsOnClosed: no interleaving of request handlers with the stop   *)
(* hook, or with a start that fails half-way, sends on the closed channel. *)
(***************************************************************************)
THEOREM NeverSendsOnClosed == QueueSpec => []NoSendOnClosed
<1> DEFINE Inv == QueueTypes /\ ClosingIsAnnounced /\ NoSendOnClosed
<1>1. QueueInit => Inv
  BY TypesInit DEF QueueInit, ClosingIsAnnounced, NoSendOnClosed, closed, idle
<1>2. Inv /\ [QueueNext]_queueVars => Inv'
  <2> SUFFICES ASSUME Inv, [QueueNext]_queueVars PROVE ClosingIsAnnounced' /\ NoSendOnClosed'
    BY TypesStep
  <2> USE DEF ClosingIsAnnounced, NoSendOnClosed, closed, lifecycle, QueueTypes, QueueTypeOK, idle, to
  <2> DEFINE Goal == ClosingIsAnnounced' /\ NoSendOnClosed'
  <2>1. ASSUME NEW p \in Producers, NEW k \in Keys, Enqueue(p, k) PROVE Goal
    BY <2>1 DEF Enqueue
  <2>2. ASSUME NEW p \in Producers, AddIfAbsent(p) PROVE Goal
    BY <2>2 DEF AddIfAbsent
  <2>3. ASSUME NEW p \in Producers, RLock(p) PROVE Goal
    BY <2>3 DEF RLock
  <2>4. ASSUME NEW p \in Producers, RecheckClosing(p) PROVE Goal
    BY <2>4 DEF RecheckClosing
  <2>5. ASSUME NEW p \in Producers, Send(p) \/ Drop(p) PROVE Goal
    BY <2>5 DEF Send, Drop
  <2>6. ASSUME NEW w \in Workers, WorkerSteps(w) \/ Panic(w) \/ InvokeWorker(w) PROVE Goal
    BY <2>6 DEF WorkerSteps, Receive, Exit, Finish, Panic, InvokeWorker
  <2>7. CASE CloseTasks
    BY <2>7 DEF CloseTasks, holdsRLock
  <2>8. CASE Start \/ InvokeFails \/ Stop \/ CleanupStopTimesOut \/ ContextEnds
             \/ StoreClosing \/ CancelWorkers \/ LockEnqueue
             \/ CloseReturns \/ StopTimesOut
    BY <2>8 DEF Start, InvokeFails, Stop, CleanupStopTimesOut, ContextEnds,
                StoreClosing, CancelWorkers, LockEnqueue, CloseReturns, StopTimesOut
  <2>9. CASE Terminated \/ UNCHANGED queueVars
    BY <2>9 DEF Terminated, queueVars
  <2> QED
    BY <2>1, <2>2, <2>3, <2>4, <2>5, <2>6, <2>7, <2>8, <2>9 DEF QueueNext, EnqueueSteps, CloseSteps
<1>3. Inv => NoSendOnClosed
  OBVIOUS
<1> QED
  BY <1>1, <1>2, <1>3, PTL DEF QueueSpec

-----------------------------------------------------------------------------
(***************************************************************************)
(* The two invariants are proved together: the dedup set is what makes a   *)
(* key unique, and uniqueness is what makes removing it from the set right.*)
(***************************************************************************)
InFlightInv == QueueTypes /\ InFlightOnce /\ PendingIsInFlight

(***************************************************************************)
(* The part of QueueTypeOK about the places a key can be in.                    *)
(***************************************************************************)
InFlightTypes ==
    /\ producer \in [Producers -> [pc : {"idle", "add", "rlock", "locked", "send", "drop"},
                                   key : Keys \cup {NoKey}]]
    /\ tasks \in Seq(Keys) /\ pending \subseteq Keys
    /\ worker \in [Workers -> [pc : {"off", "select", "process", "exited", "dead"},
                               key : Keys \cup {NoKey}]]

(***************************************************************************)
(* InFlightInit: nothing is in flight at first.                            *)
(***************************************************************************)
LEMMA InFlightInit == QueueInit => InFlightInv
<1> SUFFICES ASSUME QueueInit PROVE InFlightInv
  OBVIOUS
<1>1. tasks = <<>> /\ DOMAIN tasks = {}
  BY DEF QueueInit
<1>2. /\ \A p \in Producers : ~owns(p)
      /\ \A w \in Workers : ~runs(w)
  BY DEF QueueInit, owns, runs, idle, to
<1>3. InFlightOnce
  BY <1>1, <1>2 DEF InFlightOnce, ClaimsDiffer, SlotsDiffer, RunsDiffer, ClaimNotQueued,
                    ClaimNotRunning, QueuedNotRunning
<1>4. PendingIsInFlight
  BY <1>1, <1>2 DEF PendingIsInFlight, Claimed, Queued, Running, QueueInit
<1> QED
  BY <1>3, <1>4, TypesInit DEF InFlightInv

(***************************************************************************)
(* InFlightStep: claiming, queueing, receiving, finishing, dropping and    *)
(* panicking each keep the dedup set exact and every key in one place.     *)
(***************************************************************************)
LEMMA InFlightStep == InFlightInv /\ [QueueNext]_queueVars => InFlightInv'
<1> SUFFICES ASSUME InFlightInv, [QueueNext]_queueVars PROVE InFlightOnce' /\ PendingIsInFlight'
  BY TypesStep DEF InFlightInv
<1> DEFINE Goal == InFlightOnce' /\ PendingIsInFlight'
<1>t. KeysInUse /\ InFlightTypes
  BY DEF InFlightInv, QueueTypes, QueueTypeOK, InFlightTypes
<1>i. InFlightOnce /\ PendingIsInFlight
  BY DEF InFlightInv
<1> USE <1>t DEF InFlightTypes, KeysInUse, InFlightOnce, PendingIsInFlight,
            ClaimsDiffer, SlotsDiffer, RunsDiffer, ClaimNotQueued, ClaimNotRunning,
            QueuedNotRunning, Claimed, Queued, Running, owns, runs, idle, to, lifecycle
<1>1. ASSUME NEW p \in Producers, NEW k \in Keys, Enqueue(p, k) PROVE Goal
  <2>1. /\ \A q \in Producers \ {p} : producer'[q] = producer[q]
        /\ ~owns(p) /\ ~owns(p)'
        /\ UNCHANGED <<tasks, worker, pending>>
    BY <1>1 DEF Enqueue
  <2> QED
    BY <1>i, <2>1
<1>2. ASSUME NEW p \in Producers, AddIfAbsent(p) PROVE Goal
  BY <1>i, <1>2 DEF AddIfAbsent
<1>3. ASSUME NEW p \in Producers, RLock(p) \/ RecheckClosing(p) PROVE Goal
  <2>1. /\ \A q \in Producers : owns(q)' <=> owns(q)
        /\ \A q \in Producers : producer'[q].key = producer[q].key
        /\ UNCHANGED <<tasks, worker, pending>>
    <3>1. CASE RLock(p)
      BY <3>1 DEF RLock
    <3>2. CASE RecheckClosing(p)
      BY <3>2 DEF RecheckClosing
    <3> QED
      BY <1>3, <3>1, <3>2
  <2> QED
    BY <1>i, <2>1
<1>4. ASSUME NEW p \in Producers, Send(p) PROVE Goal
  <2> DEFINE k == producer[p].key
             n == Len(tasks) + 1
  <2>1. /\ owns(p) /\ k \in Keys
        /\ UNCHANGED <<worker, pending>>
    BY <1>4 DEF Send
  <2>2. /\ \A q \in Producers : owns(q)' <=> (owns(q) /\ q # p)
        /\ \A q \in Producers \ {p} : producer'[q] = producer[q]
    BY <1>4 DEF Send
  <2>3. /\ tasks \in Seq(Keys) /\ DOMAIN tasks = 1..Len(tasks) /\ Len(tasks) \in Nat
        /\ tasks' \in Seq(Keys) /\ DOMAIN tasks' = 1..n
        /\ \A i \in DOMAIN tasks : tasks'[i] = tasks[i]
        /\ tasks'[n] = k
    BY <1>4, <2>1 DEF Send
  <2>4. \A i \in DOMAIN tasks' : i \in DOMAIN tasks \/ i = n
    BY <2>3
  <2>5. n \in DOMAIN tasks' /\ n \notin DOMAIN tasks /\ DOMAIN tasks \subseteq DOMAIN tasks'
    BY <2>3
  <2> HIDE DEF n
  <2>6. InFlightOnce'
    <3>1. ClaimsDiffer' /\ RunsDiffer'
      BY <1>i, <2>1, <2>2
    <3>2. SlotsDiffer'
      BY <1>i, <2>1, <2>3, <2>4
    <3>3. ClaimNotQueued'
      BY <1>i, <2>1, <2>2, <2>3, <2>4
    <3>4. ClaimNotRunning'
      BY <1>i, <2>1, <2>2
    <3>5. QueuedNotRunning'
      BY <1>i, <2>1, <2>3, <2>4
    <3> QED
      BY <3>1, <3>2, <3>3, <3>4, <3>5
  <2>7. PendingIsInFlight'
    <3> SUFFICES ASSUME NEW j \in Keys
                 PROVE  j \in pending <=> (Claimed(j)' \/ Queued(j)' \/ Running(j)')
      BY <2>1
    <3>1. Running(j)' <=> Running(j)
      BY <2>1
    <3>2. Queued(j)' <=> (Queued(j) \/ j = k)
      BY <2>3, <2>4, <2>5
    <3>3. Claimed(j) <=> (Claimed(j)' \/ j = k)
      BY <2>1, <2>2
    <3> HIDE DEF Claimed, Queued, Running
    <3> QED
      BY <1>i, <3>1, <3>2, <3>3
  <2> QED
    BY <2>6, <2>7
<1>5. ASSUME NEW p \in Producers, Drop(p) PROVE Goal
  BY <1>i, <1>5 DEF Drop
<1>6. ASSUME NEW w \in Workers, Receive(w) PROVE Goal
  <2>1. UNCHANGED <<producer, pending>>
    BY <1>6 DEF Receive
  <2>2. /\ \A x \in Workers : runs(x)' <=> (runs(x) \/ x = w)
        /\ \A x \in Workers \ {w} : worker'[x] = worker[x]
        /\ ~runs(w) /\ worker'[w].key = tasks[1]
    BY <1>6 DEF Receive
  <2>3. /\ tasks \in Seq(Keys) /\ DOMAIN tasks = 1..Len(tasks) /\ Len(tasks) \in Nat \ {0}
        /\ tasks' \in Seq(Keys) /\ DOMAIN tasks' = 1..(Len(tasks) - 1)
        /\ \A i \in DOMAIN tasks' : tasks'[i] = tasks[i + 1]
    BY <1>6 DEF Receive
  <2>4. /\ 1 \in DOMAIN tasks
        /\ \A i \in DOMAIN tasks' : i + 1 \in DOMAIN tasks /\ i + 1 # 1
        /\ \A i \in DOMAIN tasks : i = 1 \/ (i - 1 \in DOMAIN tasks' /\ (i - 1) + 1 = i)
    BY <2>3
  <2>5. InFlightOnce'
    <3>1. SlotsDiffer'
      BY <1>i, <2>3, <2>4
    <3>2. RunsDiffer' /\ ClaimNotRunning'
      BY <1>i, <2>1, <2>2, <2>4
    <3>3. ClaimNotQueued' /\ ClaimsDiffer'
      BY <1>i, <2>1, <2>3, <2>4
    <3>4. QueuedNotRunning'
      <4> SUFFICES ASSUME NEW i \in DOMAIN tasks', NEW x \in Workers, runs(x)'
                   PROVE  tasks'[i] # worker'[x].key
        OBVIOUS
      <4>1. i + 1 \in DOMAIN tasks /\ i + 1 # 1 /\ tasks'[i] = tasks[i + 1]
        BY <2>3, <2>4
      <4>2. CASE x = w
        BY <1>i, <4>1, <4>2, <2>2, <2>4
      <4>3. CASE x # w
        BY <1>i, <4>1, <4>3, <2>2
      <4> QED
        BY <4>2, <4>3
    <3> QED
      BY <3>1, <3>2, <3>3, <3>4
  <2>6. PendingIsInFlight'
    <3> SUFFICES ASSUME NEW j \in Keys
                 PROVE  j \in pending <=> (Claimed(j)' \/ Queued(j)' \/ Running(j)')
      BY <2>1
    <3>1. Claimed(j)' <=> Claimed(j)
      BY <2>1
    <3>2. Queued(j) <=> (Queued(j)' \/ j = tasks[1])
      <4>1. ASSUME NEW i \in DOMAIN tasks, tasks[i] = j, i # 1 PROVE Queued(j)'
        <5>1. i - 1 \in DOMAIN tasks' /\ tasks'[i - 1] = tasks[(i - 1) + 1] /\ (i - 1) + 1 = i
          BY <4>1, <2>3, <2>4
        <5> QED
          BY <4>1, <5>1
      <4>2. ASSUME NEW i \in DOMAIN tasks', tasks'[i] = j PROVE Queued(j)
        BY <4>2, <2>3, <2>4
      <4>3. j = tasks[1] => Queued(j)
        BY <2>4
      <4> QED
        BY <4>1, <4>2, <4>3
    <3>3. Running(j)' <=> (Running(j) \/ j = tasks[1])
      BY <2>2
    <3> HIDE DEF Claimed, Queued, Running
    <3> QED
      BY <1>i, <3>1, <3>2, <3>3
  <2> QED
    BY <2>5, <2>6
<1>7. ASSUME NEW w \in Workers, Exit(w) \/ InvokeWorker(w) PROVE Goal
  <2>1. /\ \A x \in Workers : runs(x)' <=> runs(x)
        /\ \A x \in Workers : runs(x) => worker'[x].key = worker[x].key
        /\ UNCHANGED <<tasks, producer, pending>>
    BY <1>7 DEF Exit, InvokeWorker, putAway
  <2> QED
    BY <1>i, <2>1
<1>8. ASSUME NEW w \in Workers, Finish(w) PROVE Goal
  BY <1>i, <1>8 DEF Finish, putAway
<1>9. ASSUME NEW w \in Workers, Panic(w) PROVE Goal
  BY <1>i, <1>9 DEF Panic, putAway
<1>10. CASE Start \/ InvokeFails \/ Stop \/ CleanupStopTimesOut \/ ContextEnds
            \/ CloseSteps \/ StopTimesOut
  BY <1>i, <1>10 DEF Start, InvokeFails, Stop, CleanupStopTimesOut, ContextEnds,
              CloseSteps, StoreClosing, CancelWorkers, LockEnqueue,
               CloseTasks, CloseReturns, StopTimesOut
<1>11. CASE Terminated \/ UNCHANGED queueVars
  BY <1>i, <1>11 DEF Terminated, queueVars
<1> QED
  BY <1>1, <1>2, <1>3, <1>4, <1>5, <1>6, <1>7, <1>8, <1>9, <1>10, <1>11
     DEF QueueNext, EnqueueSteps, WorkerSteps

(***************************************************************************)
(* NeverTwiceInFlight: the same request is never queued or processed twice *)
(* at the same time, for any number of handlers and workers.               *)
(***************************************************************************)
THEOREM NeverTwiceInFlight == QueueSpec => []InFlightOnce
<1>1. InFlightInv => InFlightOnce
  BY DEF InFlightInv
<1> QED
  BY <1>1, InFlightInit, InFlightStep, PTL DEF QueueSpec

(***************************************************************************)
(* PendingIsExact: the dedup set never keeps a key nobody works on, which  *)
(* would lock that variant out for good, also when stages panic and the    *)
(* queue overflows or closes.                                              *)
(***************************************************************************)
THEOREM PendingIsExact == QueueSpec => []PendingIsInFlight
<1>1. InFlightInv => PendingIsInFlight
  BY DEF InFlightInv
<1> QED
  BY <1>1, InFlightInit, InFlightStep, PTL DEF QueueSpec
=============================================================================
