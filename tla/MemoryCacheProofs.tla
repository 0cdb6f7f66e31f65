-------------------------- MODULE MemoryCacheProofs --------------------------
(***************************************************************************)
(* Proofs about MemoryCache for any number of requests, preloads, edits    *)
(* and removals, any sizes and any limits of the policy.                   *)
(***************************************************************************)
EXTENDS MemoryCache, SequenceTheorems, TLAPS

(***************************************************************************)
(* Types.  An artifact has one content.                                    *)
(***************************************************************************)
Known == {Gone} \cup (IF place = "artifact" THEN {1} ELSE Contents)
Keys == {NoKey} \cup (Nat \X ({NoKey} \cup Formats))
TTLs == {TTL(c, size(n)) : c \in Classes, n \in Nat}
EntryType == [body : Nat \ {0}, key : Keys, ttl : TTLs]
RequestPoints ==
    {"idle", "hot", "get", "load", "lead", "wait", "store", "attach", "file", "missing", "done", "failed"}
RequestType ==
    [pc : RequestPoints, etag : Nat, format : {NoKey} \cup Formats, body : Nat, key : Keys, disturbed : BOOLEAN]

FileTypes ==
    /\ place \in {"source", "artifact"} /\ class \in Classes /\ prepared \in BOOLEAN
    /\ disk \in Known /\ listed \in Known
CacheTypes ==
    /\ enabled \in BOOLEAN /\ entry \in EntryType \cup {NoEntry}
    /\ setBuf \in Seq(EntryType \cup {deletion})
    /\ overlap \in BOOLEAN /\ takenBack \in BOOLEAN /\ dirty \in BOOLEAN
ActorTypes ==
    /\ pre \in [pc : {"idle", "copied", "read", "store"}, etag : Nat, body : Nat]
    /\ upd \in [pc : {"idle", "invalidate", "upsert"}, hash : Known]
    /\ comp \in [pc : {"idle", "body", "publish"}, etag : Known, body : Known]
    /\ snap \in [etag : Known, body : Known]
    /\ upd.pc = "upsert" => place = "source" /\ upd.hash # Gone
    /\ upd.pc = "invalidate" =>
         \/ place = "source" /\ (upd.hash = Gone <=> listed = Gone)
         \/ place = "artifact" /\ upd.hash = Gone
    /\ pre.pc = "store" => pre.body # Gone

\* One request leads a load.
Request(c) == c \in RequestType /\ (c.pc \in {"store", "attach"} => c.body # Gone)
RequestTypes ==
    /\ req \in [Requests -> RequestType]
    /\ \A r \in Requests : Request(req[r]) /\ (req[r].pc \in {"lead", "store"} => flight = r)

Types == FileTypes /\ CacheTypes /\ ActorTypes /\ RequestTypes

(***************************************************************************)
(* Circulating: the bodies that are in the cache or may still get there.   *)
(***************************************************************************)
Cached == Buffered \cup (IF Found THEN {entry.body} ELSE {})
Circulating == Held \cup Cached

\* A body is a content of the file.
BodiesKnown == Circulating \subseteq Known \ {Gone}

(***************************************************************************)
(* OnlyCurrent: unless an overlap or an edit that was taken back is on     *)
(* record, no body but the one on disk circulates when the catalog has the *)
(* content of the disk or is about to be told it.                          *)
(***************************************************************************)
OnlyCurrent ==
    ~overlap /\ ~takenBack =>
      /\ upd.pc = "idle" /\ listed # Gone /\ disk = listed => Circulating \subseteq {listed}
      /\ upd.pc = "upsert" /\ disk = upd.hash => Circulating \subseteq {upd.hash}
      /\ place = "source" /\ listed = Gone /\ upd.pc # "invalidate" => Circulating = {}

\* Nothing has happened to the file of a request that is not disturbed.
Undisturbed ==
    \A r \in Requests :
      /\ req[r].etag \in Known
      /\ underWay(r) => ~prepared
      /\ underWay(r) /\ ~req[r].disturbed =>
           req[r].etag # Gone /\ (place = "source" => Quiet /\ req[r].etag = listed)
      /\ At(r, "done") /\ ~req[r].disturbed => req[r].body = req[r].etag

(***************************************************************************)
(* PreparedInv: a compilation that is up to date has the ETag that is      *)
(* listed, and a body it has read that is another one belongs to an edit   *)
(* which the rescan has yet to see, or that was taken back.                *)
(***************************************************************************)
UpToDate(etag, body) ==
    /\ etag = listed
    /\ body # Gone => etag # Gone
    /\ body \notin {Gone, etag} /\ upd.pc = "idle" /\ ~takenBack => disk # listed
PreparedInv ==
    prepared /\ ~dirty =>
      /\ comp.pc = "idle" => UpToDate(snap.etag, snap.body)
      /\ comp.pc = "body" => comp.etag = listed
      /\ comp.pc = "publish" => UpToDate(comp.etag, comp.body)

-----------------------------------------------------------------------------
(***************************************************************************)
(* What the operations of ristretto do to the bodies that are cached: only *)
(* Set adds one.                                                           *)
(***************************************************************************)
LEMMA SetStores ==
    ASSUME CacheTypes, NEW e \in EntryType, Set(e)
    PROVE  /\ entry' \in EntryType \cup {NoEntry}
           /\ setBuf' \in Seq(EntryType \cup {deletion})
           /\ Cached' \subseteq Cached \cup {e.body}
<1> DEFINE S == EntryType \cup {deletion}
<1>0. setBuf \in Seq(S) /\ e \in S
    BY DEF CacheTypes
<1>1. CASE UNCHANGED <<entry, setBuf>>
    BY <1>1, <1>0 DEF CacheTypes, Cached, Buffered, Found
<1>2. CASE entry' = e /\ UNCHANGED setBuf
    BY <1>2, <1>0 DEF CacheTypes, Cached, Buffered, Found
<1>3. CASE setBuf' = Append(setBuf, e) /\ UNCHANGED entry
    <2> HIDE DEF S
    <2>1. setBuf' \in Seq(S) /\ \A i \in DOMAIN setBuf' : setBuf'[i] = e \/ (i \in DOMAIN setBuf /\ setBuf'[i] = setBuf[i])
        BY <1>3, <1>0, AppendProperties
    <2>2. Buffered' \subseteq Buffered \cup {e.body}
        BY <2>1 DEF Buffered
    <2> QED
        BY <2>1, <2>2, <1>3 DEF S, CacheTypes, Cached, Found
<1> QED
    BY <1>1, <1>2, <1>3 DEF Set

LEMMA DeleteClears ==
    ASSUME CacheTypes, Delete
    PROVE  /\ entry' = NoEntry
           /\ setBuf' \in Seq(EntryType \cup {deletion})
           /\ Buffered' = Buffered
           /\ Cached' = Buffered
<1> DEFINE S == EntryType \cup {deletion}
<1>0. setBuf \in Seq(S) /\ deletion \in S
    BY DEF CacheTypes
<1>1. CASE ~Found
    BY <1>1, <1>0 DEF Delete, CacheTypes, Cached, Buffered, Found
<1>2. CASE Found
    <2> HIDE DEF S
    <2>1. entry' = NoEntry /\ setBuf' = Append(setBuf, deletion)
        BY <1>2 DEF Delete, Del
    <2>2. /\ setBuf' \in Seq(S)
          /\ \A i \in DOMAIN setBuf' : setBuf'[i] = deletion \/ (i \in DOMAIN setBuf /\ setBuf'[i] = setBuf[i])
          /\ \A i \in DOMAIN setBuf : i \in DOMAIN setBuf' /\ setBuf'[i] = setBuf[i]
        BY <2>1, <1>0, AppendProperties
    <2>3. deletion.body = Gone
        BY DEF deletion
    <2>4. Buffered' = Buffered
        BY <2>2, <2>3 DEF Buffered
    <2> QED
        BY <2>1, <2>2, <2>4 DEF S, Cached, Found
<1> QED
    BY <1>1, <1>2

LEMMA ApplyMoves ==
    ASSUME CacheTypes, ApplyBuffered
    PROVE  CacheTypes' /\ Cached' \subseteq Cached
<1> DEFINE S == EntryType \cup {deletion}
<1>0. setBuf \in Seq(S) /\ setBuf # <<>> /\ setBuf' = Tail(setBuf)
    BY DEF CacheTypes, ApplyBuffered
<1> HIDE DEF S
<1>1. /\ setBuf' \in Seq(S) /\ setBuf[1] \in S /\ 1 \in DOMAIN setBuf
      /\ \A i \in DOMAIN setBuf' : i + 1 \in DOMAIN setBuf /\ setBuf'[i] = setBuf[i + 1]
      /\ Head(setBuf) = setBuf[1]
    BY <1>0, HeadTailProperties, EmptySeq, LenProperties
<1>2. Buffered' \subseteq Buffered
    BY <1>1 DEF Buffered
<1>3. entry' \in {NoEntry, entry} \/ (entry' = setBuf[1] /\ setBuf[1] # deletion)
    BY <1>1 DEF ApplyBuffered
<1>4. entry' \in {NoEntry, entry} \/ (entry' \in EntryType /\ entry'.body \in Buffered)
    <2>1. ASSUME entry' = setBuf[1], setBuf[1] # deletion
          PROVE  entry' \in EntryType /\ entry'.body \in Buffered
        <3>1. entry' \in EntryType /\ entry'.body # Gone
            BY <1>1, <2>1 DEF S, EntryType, Gone
        <3> QED
            BY <1>1, <2>1, <3>1 DEF Buffered
    <2> QED
        BY <1>3, <2>1
<1>5. CacheTypes'
    BY <1>1, <1>4 DEF S, CacheTypes, ApplyBuffered, history
<1> QED
    BY <1>2, <1>4, <1>5 DEF Cached, Found

-----------------------------------------------------------------------------
(* How a step changes the requests: one of them, or all who wait for a load. *)

LEMMA GotoTypes ==
    ASSUME Types, NEW r \in Requests, NEW c, Request(c), Goto(r, c),
           c.pc \in {"lead", "store"} => flight' = r,
           flight' = flight \/ flight = Nobody
    PROVE  /\ RequestTypes'
           /\ req'[r] = c
           /\ \A q \in Requests : q # r => req'[q] = req[q]
<1>1. req' = [req EXCEPT ![r] = c] /\ req \in [Requests -> RequestType] /\ c \in RequestType
    BY DEF Goto, Types, RequestTypes, Request
<1>2. /\ req' \in [Requests -> RequestType] /\ req'[r] = c
      /\ \A q \in Requests : q # r => req'[q] = req[q]
    BY <1>1
<1>3. ASSUME NEW q \in Requests
      PROVE  Request(req[q])' /\ (req'[q].pc \in {"lead", "store"} => flight' = q)
    <2>1. CASE q = r
        BY <2>1, <1>2 DEF Request
    <2>2. CASE q # r
        BY <2>2, <1>2, MemoryCacheAssumption DEF Types, RequestTypes, Request, Nobody
    <2> QED
        BY <2>1, <2>2
<1> QED
    BY <1>2, <1>3 DEF RequestTypes

LEMMA DeliveredTypes ==
    ASSUME Types, NEW body \in Nat, NEW k \in Keys,
           NEW pc \in {"attach", "file", "missing"}, pc = "attach" => body # Gone,
           NEW r \in Requests, req[r].pc \in {"lead", "store"},
           req' = delivered(body, k, pc), flight' = Nobody
    PROVE  /\ RequestTypes'
           /\ \A q \in Requests :
                \/ req'[q] = req[q] /\ q # r
                \/ /\ req'[q].pc = pc /\ req'[q].body = body
                   /\ req'[q].etag = req[q].etag /\ req'[q].disturbed = req[q].disturbed
                   /\ underWay(q)
<1>1. flight = r /\ req \in [Requests -> RequestType]
    BY DEF Types, RequestTypes
<1>2. ASSUME NEW q \in Requests, At(q, "wait") \/ q = flight
      PROVE  /\ req'[q] \in RequestType
             /\ req'[q].pc = pc /\ req'[q].body = body
             /\ req'[q].etag = req[q].etag /\ req'[q].disturbed = req[q].disturbed
             /\ underWay(q)
    <2>1. req'[q] = [req[q] EXCEPT !.pc = pc, !.body = body, !.key = k]
        BY <1>2 DEF delivered
    <2>2. req[q] \in RequestType
        BY <1>1
    <2>3. underWay(q)
        BY <1>1, <1>2 DEF underWay, At
    <2> QED
        BY <2>1, <2>2, <2>3 DEF RequestType, RequestPoints
<1>3. ASSUME NEW q \in Requests, ~(At(q, "wait") \/ q = flight)
      PROVE  req'[q] = req[q] /\ q # r /\ req[q].pc \notin {"lead", "store"}
    BY <1>1, <1>3 DEF delivered, Types, RequestTypes
<1>4. \A q \in Requests : req'[q] \in RequestType
    BY <1>1, <1>2, <1>3
<1>5. req' \in [Requests -> RequestType]
    BY <1>4 DEF delivered
<1>6. \A q \in Requests : Request(req[q])' /\ req'[q].pc \notin {"lead", "store"}
    BY <1>2, <1>3, <1>4 DEF Request, Types, RequestTypes
<1> QED
    BY <1>2, <1>3, <1>5, <1>6 DEF RequestTypes

-----------------------------------------------------------------------------
(***************************************************************************)
(* Most steps only carry bodies about: nothing new gets into circulation,  *)
(* or the newest content does, which has just been read.                   *)
(***************************************************************************)
NothingNew == Circulating' \subseteq Circulating /\ overlap' \in {overlap, overlap \/ listed = Gone}
ReadsDisk ==
    /\ Circulating' \subseteq Circulating \cup {disk} /\ disk # Gone
    /\ overlap' = (overlap \/ listed = Gone)
Carries ==
    /\ UNCHANGED <<place, class, prepared, disk, upd, takenBack>>
    /\ \/ listed' = listed
       \/ listed' = Gone /\ place = "artifact" /\ \E r \in Requests : underWay(r)
    /\ NothingNew \/ ReadsDisk

\* What such a step does for one request.
Starts(r) ==
    /\ ~prepared /\ listed # Gone /\ listed' = listed /\ overlap' = overlap
    /\ req'[r].etag = listed /\ req'[r].disturbed = ~Quiet /\ req'[r].pc \in {"hot", "file"}
Continues(r) ==
    /\ underWay(r) /\ req'[r].etag = req[r].etag /\ req'[r].disturbed = req[r].disturbed
    /\ req'[r].pc # "idle"
    /\ req'[r].pc = "done" => req'[r].body \in Circulating \/ (req'[r].body = disk /\ disk # Gone)
Proceeds(r) == req'[r] = req[r] \/ Starts(r) \/ Continues(r)

LEMMA KnownIs ==
    /\ Known \subseteq Nat /\ Gone \in Known /\ 1 \in Known
    /\ place' = place => Known' = Known
<1>1. 1 \in Contents /\ Contents \subseteq Nat
    <2>1. SizeOf \in Seq(Nat) /\ SizeOf # <<>>
        BY MemoryCacheAssumption
    <2>2. Len(SizeOf) \in Nat /\ DOMAIN SizeOf = 1 .. Len(SizeOf) /\ Len(SizeOf) # 0
        BY <2>1, LenProperties, EmptySeq
    <2> QED
        BY <2>2 DEF Contents
<1> QED
    BY <1>1 DEF Known, Gone

LEMMA CarriesTypes ==
    ASSUME Types, Carries
    PROVE  /\ FileTypes'
           /\ overlap' \in BOOLEAN /\ takenBack' \in BOOLEAN
           /\ UNCHANGED <<pre, comp, snap>> => ActorTypes'
<1>1. overlap' \in BOOLEAN /\ takenBack' \in BOOLEAN
    BY DEF Carries, NothingNew, ReadsDisk, Types, CacheTypes
<1>2. Known' = Known /\ Gone \in Known
    BY KnownIs DEF Carries
<1>3. FileTypes'
    BY <1>2 DEF Carries, Types, FileTypes
<1>4. UNCHANGED <<pre, comp, snap>> => ActorTypes'
    BY <1>2 DEF Carries, Types, ActorTypes, FileTypes
<1> QED
    BY <1>1, <1>3, <1>4

\* An artifact has but one content, so whatever circulates is current.
LEMMA ArtifactsAreCurrent ==
    ASSUME Types', BodiesKnown', place' = "artifact"
    PROVE  OnlyCurrent'
<1>1. Circulating' \subseteq {1} /\ listed' \in {Gone, 1}
    BY DEF BodiesKnown, Known, Types, FileTypes
<1>2. upd'.pc # "upsert"
    BY DEF Types, ActorTypes
<1> QED
    BY <1>1, <1>2 DEF OnlyCurrent

(***************************************************************************)
(* CarriesKeeps: such a step brings no unknown body and, unless it puts an *)
(* overlap on record, no other than the one on disk.                       *)
(***************************************************************************)
LEMMA CarriesKeeps ==
    ASSUME Types, Types', BodiesKnown, OnlyCurrent, Carries
    PROVE  BodiesKnown' /\ OnlyCurrent'
<1>1. Known' = Known /\ UNCHANGED <<place, disk, upd, takenBack>>
    BY KnownIs DEF Carries
<1>2. disk \in Known /\ place \in {"source", "artifact"} /\ overlap \in BOOLEAN
    BY DEF Types, FileTypes, CacheTypes
<1>3. BodiesKnown'
    <2>1. CASE NothingNew
        BY <1>1, <2>1 DEF BodiesKnown, NothingNew
    <2>2. CASE ReadsDisk
        BY <1>1, <1>2, <2>2 DEF BodiesKnown, ReadsDisk
    <2> QED
        BY <2>1, <2>2 DEF Carries
<1>4. CASE place = "source"
    <2>1. listed' = listed
        BY <1>4 DEF Carries
    <2>2. CASE NothingNew
        <3>1. Circulating' \subseteq Circulating /\ (~overlap' => ~overlap)
            BY <1>2, <2>2 DEF NothingNew
        <3> QED
            BY <1>1, <1>3, <2>1, <3>1 DEF OnlyCurrent
    <2>3. CASE ReadsDisk
        <3>1. Circulating' \subseteq Circulating \cup {disk} /\ (~overlap' => ~overlap /\ listed # Gone)
            BY <1>2, <2>3 DEF ReadsDisk
        <3> QED
            BY <1>1, <1>3, <2>1, <3>1 DEF OnlyCurrent
    <2> QED
        BY <2>2, <2>3 DEF Carries
<1>5. CASE place = "artifact"
    <2>1. place' = "artifact"
        BY <1>1, <1>5
    <2> QED
        BY <1>3, <2>1, ArtifactsAreCurrent
<1> QED
    BY <1>2, <1>3, <1>4, <1>5

(***************************************************************************)
(* SameContent: for a request that nothing has disturbed, whatever body    *)
(* circulates, and the file, is the content that its ETag names.           *)
(***************************************************************************)
LEMMA SameContent ==
    ASSUME Types, BodiesKnown, OnlyCurrent, Undisturbed,
           NEW r \in Requests, underWay(r), ~req[r].disturbed,
           NEW b, b \in Circulating \/ (b = disk /\ disk # Gone)
    PROVE  b = req[r].etag
<1>1. /\ req[r].etag \in Known /\ req[r].etag # Gone
      /\ place = "source" => Quiet /\ req[r].etag = listed
    BY DEF Undisturbed
<1>2. place \in {"source", "artifact"} /\ b \in Known \ {Gone}
    BY DEF Types, FileTypes, BodiesKnown
<1>3. CASE place = "artifact"
    BY <1>1, <1>2, <1>3 DEF Known
<1>4. CASE place = "source"
    BY <1>1, <1>4 DEF Quiet, OnlyCurrent
<1> QED
    BY <1>2, <1>3, <1>4

LEMMA UndisturbedStep ==
    ASSUME Types, BodiesKnown, OnlyCurrent, Undisturbed, Carries,
           \A q \in Requests : Proceeds(q)
    PROVE  Undisturbed'
<1>0. SUFFICES ASSUME NEW r \in Requests
      PROVE  /\ req'[r].etag \in Known'
             /\ underWay(r)' => ~prepared'
             /\ underWay(r)' /\ ~req'[r].disturbed =>
                  req'[r].etag # Gone /\ (place' = "source" => Quiet' /\ req'[r].etag = listed')
             /\ At(r, "done")' /\ ~req'[r].disturbed => req'[r].body = req'[r].etag
    BY DEF Undisturbed
<1>1. /\ UNCHANGED <<place, prepared, disk, upd, takenBack>> /\ Known' = Known
      /\ place = "source" => listed' = listed
    BY DEF Carries, Known
<1>2. overlap \in BOOLEAN /\ listed \in Known
    BY DEF Types, CacheTypes, FileTypes
<1>3. listed # Gone => overlap' = overlap
    BY <1>2 DEF Carries, NothingNew, ReadsDisk
<1>4. place = "source" /\ Quiet /\ listed # Gone => Quiet'
    BY <1>1, <1>3 DEF Quiet
<1>5. CASE req'[r] = req[r]
    <2>1. (underWay(r)' <=> underWay(r)) /\ (At(r, "done")' <=> At(r, "done"))
        BY <1>5 DEF underWay, At
    <2>2. underWay(r) /\ ~req[r].disturbed /\ place = "source" => Quiet /\ listed = req[r].etag /\ req[r].etag # Gone
        BY DEF Undisturbed
    <2> QED
        BY <1>1, <1>4, <1>5, <2>1, <2>2 DEF Undisturbed
<1>6. CASE Starts(r)
    <2>1. ~At(r, "done")'
        BY <1>6 DEF Starts, At
    <2>2. ~req'[r].disturbed => Quiet
        BY <1>6 DEF Starts
    <2>3. Quiet => Quiet'
        BY <1>1, <1>6 DEF Starts, Quiet
    <2> QED
        BY <1>1, <1>2, <1>6, <2>1, <2>2, <2>3 DEF Starts
<1>7. CASE Continues(r)
    <2>1. /\ underWay(r) /\ req'[r].etag = req[r].etag /\ req'[r].disturbed = req[r].disturbed
          /\ req'[r].pc = "done" => req'[r].body \in Circulating \/ (req'[r].body = disk /\ disk # Gone)
        BY <1>7 DEF Continues
    <2>2. req[r].etag \in Known /\ ~prepared
        BY <2>1 DEF Undisturbed
    <2>3. ~req[r].disturbed => /\ req[r].etag # Gone
                               /\ place = "source" => Quiet /\ listed = req[r].etag
        BY <2>1 DEF Undisturbed
    <2>4. At(r, "done")' /\ ~req[r].disturbed => req'[r].body = req[r].etag
        BY <2>1, SameContent DEF At
    <2> QED
        BY <1>1, <1>4, <2>1, <2>2, <2>3, <2>4
<1> QED
    BY <1>5, <1>6, <1>7 DEF Proceeds

-----------------------------------------------------------------------------
(***************************************************************************)
(* The steps of a request, each with what it holds afterwards.             *)
(***************************************************************************)
LEMMA CirculatingIs ==
    \A b : b \in Circulating <=>
      \/ \E r \in Requests : req[r].pc \in {"store", "attach"} /\ req[r].body = b
      \/ pre.pc = "store" /\ pre.body = b
      \/ b \in Cached
BY DEF Circulating, Held

LEMMA CirculatingNext ==
    \A b : b \in Circulating' <=>
      \/ \E r \in Requests : req'[r].pc \in {"store", "attach"} /\ req'[r].body = b
      \/ pre'.pc = "store" /\ pre'.body = b
      \/ b \in Cached'
BY DEF Circulating, Held

\* A request goes on alone, and the cache may have got a body that it holds.
LEMMA GotoCarries ==
    ASSUME Types, NEW r \in Requests, NEW c, Request(c), Goto(r, c),
           UNCHANGED <<files, upd, pre, comp, snap, history>>, CacheTypes',
           c.pc \in {"lead", "store"} => flight' = r,
           flight' = flight \/ flight = Nobody,
           Cached' \subseteq Circulating,
           c.pc \in {"store", "attach"} => c.body \in Circulating
    PROVE  /\ Types' /\ Carries
           /\ req'[r] = c
           /\ \A q \in Requests : q # r => Proceeds(q)
<1>1. RequestTypes' /\ req'[r] = c /\ \A q \in Requests : q # r => req'[q] = req[q]
    BY GotoTypes
<1>2. ASSUME NEW b, b \in Circulating'
      PROVE  b \in Circulating
    BY <1>1, <1>2, CirculatingIs, CirculatingNext
<1>3. Circulating' \subseteq Circulating
    BY <1>2
<1>4. Carries
    BY <1>3 DEF Carries, NothingNew, files, history
<1>5. FileTypes' /\ ActorTypes'
    BY <1>4, CarriesTypes
<1> QED
    BY <1>1, <1>4, <1>5 DEF Types, Proceeds

LEMMA CachedStays ==
    ASSUME Types, UNCHANGED cache, UNCHANGED <<history, dirty>>
    PROVE  CacheTypes' /\ Cached' = Cached /\ Cached' \subseteq Circulating
BY DEF Types, CacheTypes, cache, history, Cached, Buffered, Found, Circulating

LEMMA FieldsOf ==
    ASSUME Types, NEW r \in Requests
    PROVE  /\ req[r] \in RequestType /\ req[r].pc \in RequestPoints
           /\ req[r].etag \in Nat /\ req[r].body \in Nat /\ req[r].key \in Keys
           /\ key(r) \in Keys
           /\ req[r].pc \in {"store", "attach"} => req[r].body # Gone /\ req[r].body \in Circulating
<1>1. req[r] \in RequestType /\ (req[r].pc \in {"store", "attach"} => req[r].body # Gone)
    BY DEF Types, RequestTypes, Request
<1>2. /\ req[r].pc \in RequestPoints /\ req[r].etag \in Nat /\ req[r].body \in Nat
      /\ req[r].key \in Keys /\ req[r].format \in {NoKey} \cup Formats
    BY <1>1 DEF RequestType
<1>3. key(r) \in Keys
    BY <1>2 DEF key, Keys
<1> QED
    BY <1>1, <1>2, <1>3, CirculatingIs

LEMMA EndedIs ==
    ASSUME Types, NEW r \in Requests, NEW pc \in {"done", "failed"}, NEW body \in Nat
    PROVE  /\ Request(ended(r, pc, body))
           /\ ended(r, pc, body).pc = pc /\ ended(r, pc, body).body = body
           /\ ended(r, pc, body).etag = req[r].etag
           /\ ended(r, pc, body).disturbed = req[r].disturbed
<1>1. req[r] \in RequestType
    BY FieldsOf
<1>2. idleRequest \in RequestType
    BY DEF idleRequest, RequestType, RequestPoints, Keys, Gone
<1>3. pc \in RequestPoints /\ req[r].etag \in Nat /\ req[r].disturbed \in BOOLEAN
    BY <1>1 DEF RequestType, RequestPoints
<1>4. ended(r, pc, body) \in RequestType
    BY <1>2, <1>3 DEF ended, RequestType
<1>5. /\ ended(r, pc, body).pc = pc /\ ended(r, pc, body).body = body
      /\ ended(r, pc, body).etag = req[r].etag
      /\ ended(r, pc, body).disturbed = req[r].disturbed
    BY <1>2 DEF ended, RequestType
<1> QED
    BY <1>4, <1>5 DEF Request

LEMMA ResolveStep ==
    ASSUME Types, NEW r \in Requests, Resolve(r)
    PROVE  Types' /\ Carries /\ \A q \in Requests : Proceeds(q)
<1>1. PICK f \in Formats :
        Goto(r, [req[r] EXCEPT !.etag = listed, !.format = f, !.disturbed = ~Quiet,
                               !.pc = IF enabled /\ ShouldServe(size(listed)) THEN "hot" ELSE "file"])
    BY DEF Resolve
<1> DEFINE pc == IF enabled /\ ShouldServe(size(listed)) THEN "hot" ELSE "file"
           c == [req[r] EXCEPT !.etag = listed, !.format = f, !.disturbed = ~Quiet, !.pc = pc]
<1>2. pc \in {"hot", "file"} /\ Quiet \in BOOLEAN /\ listed \in Nat /\ Goto(r, c)
    BY <1>1, KnownIs DEF Types, FileTypes, Quiet
<1> HIDE DEF pc
<1>3. /\ c \in RequestType /\ c.pc = pc /\ c.etag = listed /\ c.disturbed = ~Quiet
    BY <1>2, FieldsOf DEF RequestType, RequestPoints
<1> HIDE DEF c
<1>4. Request(c) /\ c.pc \notin {"store", "attach", "lead"}
    BY <1>2, <1>3 DEF Request
<1>5. /\ UNCHANGED <<files, cache, flight, pre, upd, snap, comp, dirty, history>>
      /\ ~prepared /\ listed # Gone
    BY DEF Resolve
<1>6. CacheTypes' /\ Cached' \subseteq Circulating
    BY <1>5, CachedStays
<1>7. Types' /\ Carries /\ req'[r] = c /\ \A q \in Requests : q # r => Proceeds(q)
    BY <1>2, <1>4, <1>5, <1>6, GotoCarries
<1>8. Proceeds(r)
    BY <1>2, <1>3, <1>5, <1>7 DEF Proceeds, Starts, files, history
<1> QED
    BY <1>7, <1>8

\* A request that goes on, reading nothing from disk.
LEMMA ContinuesAlone ==
    ASSUME Types, NEW r \in Requests, NEW c, Request(c), Goto(r, c), underWay(r),
           UNCHANGED <<files, upd, pre, comp, snap, history>>, CacheTypes',
           c.etag = req[r].etag, c.disturbed = req[r].disturbed, c.pc # "idle",
           c.pc # "store", c.pc = "lead" => flight' = r,
           flight' = flight \/ flight = Nobody,
           Cached' \subseteq Circulating,
           c.pc = "attach" => c.body \in Circulating,
           c.pc = "done" => c.body \in Circulating \/ (c.body = disk /\ disk # Gone)
    PROVE  Types' /\ Carries /\ \A q \in Requests : Proceeds(q)
<1>1. Types' /\ Carries /\ req'[r] = c /\ \A q \in Requests : q # r => Proceeds(q)
    BY GotoCarries
<1>2. Proceeds(r)
    BY <1>1 DEF Proceeds, Continues
<1> QED
    BY <1>1, <1>2

LEMMA FoundIs ==
    ASSUME Types, Found
    PROVE  entry \in EntryType /\ entry.body \in Nat /\ entry.body # Gone /\ entry.key \in Keys
           /\ entry.body \in Circulating
<1>1. entry \in EntryType
    BY DEF Types, CacheTypes, Found
<1> QED
    BY <1>1 DEF EntryType, Gone, Circulating, Cached

LEMMA SendHotStep ==
    ASSUME Types, NEW r \in Requests, SendHot(r)
    PROVE  Types' /\ Carries /\ \A q \in Requests : Proceeds(q)
<1>1. /\ underWay(r) /\ UNCHANGED <<files, cache, flight, pre, upd, snap, comp, dirty, history>>
    BY DEF SendHot, At, underWay
<1>2. CacheTypes' /\ Cached' \subseteq Circulating
    BY <1>1, CachedStays
<1>3. CASE Found /\ entry.key = key(r)
    <2> DEFINE c == ended(r, "done", entry.body)
    <2>1. Goto(r, c)
        BY <1>3 DEF SendHot, answered
    <2>2. /\ Request(c) /\ c.pc = "done" /\ c.body = entry.body /\ c.body \in Circulating
          /\ c.etag = req[r].etag /\ c.disturbed = req[r].disturbed
        BY <1>3, FoundIs, EndedIs
    <2> HIDE DEF c
    <2> QED
        BY <1>1, <1>2, <2>1, <2>2, ContinuesAlone
<1>4. CASE ~(Found /\ entry.key = key(r))
    <2> DEFINE c == [req[r] EXCEPT !.pc = "get"]
    <2>1. Goto(r, c)
        BY <1>4 DEF SendHot
    <2>2. c \in RequestType /\ c.pc = "get" /\ c.etag = req[r].etag /\ c.disturbed = req[r].disturbed
        BY FieldsOf DEF RequestType, RequestPoints
    <2> HIDE DEF c
    <2>3. Request(c)
        BY <2>2 DEF Request
    <2> QED
        BY <1>1, <1>2, <2>1, <2>2, <2>3, ContinuesAlone
<1> QED
    BY <1>3, <1>4

LEMMA GetEntryStep ==
    ASSUME Types, NEW r \in Requests, GetEntry(r)
    PROVE  Types' /\ Carries /\ \A q \in Requests : Proceeds(q)
<1>1. /\ underWay(r) /\ UNCHANGED <<files, cache, flight, pre, upd, snap, comp, dirty, history>>
    BY DEF GetEntry, At, underWay
<1>2. CacheTypes' /\ Cached' \subseteq Circulating
    BY <1>1, CachedStays
<1>3. CASE enabled /\ Found
    <2> DEFINE c == [req[r] EXCEPT !.pc = "attach", !.body = entry.body, !.key = entry.key]
    <2>1. Goto(r, c)
        BY <1>3 DEF GetEntry
    <2>2. /\ c \in RequestType /\ c.pc = "attach" /\ c.body = entry.body
          /\ c.etag = req[r].etag /\ c.disturbed = req[r].disturbed
        BY <1>3, FieldsOf, FoundIs DEF RequestType, RequestPoints
    <2> HIDE DEF c
    <2>3. Request(c) /\ c.body \in Circulating
        BY <1>3, <2>2, FoundIs DEF Request
    <2> QED
        BY <1>1, <1>2, <2>1, <2>2, <2>3, ContinuesAlone
<1>4. CASE ~(enabled /\ Found)
    <2>0. PICK pc \in {"file", "load"} : Goto(r, [req[r] EXCEPT !.pc = pc])
        BY <1>4 DEF GetEntry
    <2> DEFINE c == [req[r] EXCEPT !.pc = pc]
    <2>2. c \in RequestType /\ c.pc = pc /\ c.etag = req[r].etag /\ c.disturbed = req[r].disturbed
        BY FieldsOf DEF RequestType, RequestPoints
    <2>1. Goto(r, c)
        BY <2>0
    <2> HIDE DEF c
    <2>3. Request(c)
        BY <2>2 DEF Request
    <2> QED
        BY <1>1, <1>2, <2>1, <2>2, <2>3, ContinuesAlone
<1> QED
    BY <1>3, <1>4

LEMMA LoadEntryStep ==
    ASSUME Types, NEW r \in Requests, LoadEntry(r)
    PROVE  Types' /\ Carries /\ \A q \in Requests : Proceeds(q)
<1>1. /\ underWay(r) /\ UNCHANGED <<files, cache, pre, upd, snap, comp, dirty, history>>
    BY DEF LoadEntry, At, underWay
<1>2. CacheTypes' /\ Cached' \subseteq Circulating
    BY <1>1, CachedStays
<1>3. PICK pc \in {"lead", "wait"} :
        Goto(r, [req[r] EXCEPT !.pc = pc]) /\ (pc = "lead" => flight' = r)
    BY DEF LoadEntry
<1>4. flight' = flight \/ flight = Nobody
    BY DEF LoadEntry
<1> DEFINE c == [req[r] EXCEPT !.pc = pc]
<1>5. c \in RequestType /\ c.pc = pc /\ c.etag = req[r].etag /\ c.disturbed = req[r].disturbed
    BY FieldsOf DEF RequestType, RequestPoints
<1>6. Goto(r, c)
    BY <1>3
<1> HIDE DEF c
<1>7. Request(c)
    BY <1>5 DEF Request
<1> QED
    BY <1>1, <1>2, <1>3, <1>4, <1>5, <1>6, <1>7, ContinuesAlone

\* A load ends for all who wait for it.
LEMMA DeliveredCarries ==
    ASSUME Types, NEW body \in Nat, NEW k \in Keys,
           NEW pc \in {"attach", "file", "missing"},
           pc = "attach" => body # Gone /\ body \in Circulating,
           NEW r \in Requests, req[r].pc \in {"lead", "store"},
           req' = delivered(body, k, pc), flight' = Nobody,
           UNCHANGED <<files, upd, pre, comp, snap, takenBack>>, CacheTypes',
           overlap' \in {overlap, overlap \/ listed = Gone},
           Cached' \subseteq Circulating
    PROVE  Types' /\ Carries /\ \A q \in Requests : Proceeds(q)
<1>1. /\ RequestTypes'
      /\ \A q \in Requests :
           \/ req'[q] = req[q] /\ q # r
           \/ /\ req'[q].pc = pc /\ req'[q].body = body
              /\ req'[q].etag = req[q].etag /\ req'[q].disturbed = req[q].disturbed
              /\ underWay(q)
    BY DeliveredTypes
<1>2. \A q \in Requests : Proceeds(q)
    BY <1>1 DEF Proceeds, Continues
<1>3. ASSUME NEW b, b \in Circulating'
      PROVE  b \in Circulating
    BY <1>1, <1>3, CirculatingIs, CirculatingNext
<1>4. Carries
    BY <1>3 DEF Carries, NothingNew, files
<1>5. FileTypes' /\ ActorTypes'
    BY <1>4, CarriesTypes
<1> QED
    BY <1>1, <1>2, <1>4, <1>5 DEF Types

LEMMA LoadFindsStep ==
    ASSUME Types, NEW r \in Requests, LoadFinds(r)
    PROVE  Types' /\ Carries /\ \A q \in Requests : Proceeds(q)
<1>1. /\ req[r].pc = "lead" /\ Found /\ flight' = Nobody
      /\ req' = delivered(entry.body, entry.key, "attach")
      /\ UNCHANGED <<files, cache, pre, upd, snap, comp, dirty, overlap, takenBack>>
    BY DEF LoadFinds, At, history
<1>2. CacheTypes' /\ Cached' \subseteq Circulating
    BY <1>1, CachedStays DEF history
<1>3. /\ entry.body \in Nat /\ entry.body # Gone /\ entry.key \in Keys
      /\ entry.body \in Circulating
    BY <1>1, FoundIs
<1> QED
    BY <1>1, <1>2, <1>3, DeliveredCarries

LEMMA ReadFileStep ==
    ASSUME Types, NEW r \in Requests, ReadFile(r)
    PROVE  Types' /\ Carries /\ \A q \in Requests : Proceeds(q)
<1>1. /\ req[r].pc = "lead" /\ overlap' = (overlap \/ listed = Gone)
      /\ UNCHANGED <<files, cache, pre, upd, snap, comp, dirty, takenBack>>
    BY DEF ReadFile, At
<1>2. CacheTypes' /\ Cached' = Cached /\ Cached \subseteq Circulating
    BY <1>1 DEF Types, CacheTypes, cache, Cached, Buffered, Found, Circulating
<1>3. CASE disk # Gone /\ enabled
    <2> DEFINE c == [req[r] EXCEPT !.pc = "store", !.body = disk]
    <2>1. Goto(r, c) /\ flight' = flight /\ flight = r
        BY <1>1, <1>3 DEF ReadFile, Types, RequestTypes
    <2>2. disk \in Nat
        BY KnownIs DEF Types, FileTypes
    <2>3. /\ c \in RequestType /\ c.pc = "store" /\ c.body = disk
          /\ c.etag = req[r].etag /\ c.disturbed = req[r].disturbed
        BY <2>2, FieldsOf DEF RequestType, RequestPoints
    <2> HIDE DEF c
    <2>4. Request(c)
        BY <1>3, <2>3 DEF Request
    <2>5. RequestTypes' /\ req'[r] = c /\ \A q \in Requests : q # r => req'[q] = req[q]
        BY <2>1, <2>4, GotoTypes
    <2>6. ASSUME NEW b, b \in Circulating'
          PROVE  b \in Circulating \/ b = disk
        BY <1>1, <1>2, <2>3, <2>5, <2>6, CirculatingIs, CirculatingNext
    <2>7. Carries
        BY <1>1, <1>3, <2>6 DEF Carries, ReadsDisk, files
    <2>8. FileTypes' /\ ActorTypes'
        BY <1>1, <2>7, CarriesTypes
    <2>9. Continues(r)
        BY <1>1, <2>3, <2>5 DEF Continues, underWay
    <2> QED
        BY <1>2, <2>5, <2>7, <2>8, <2>9 DEF Types, Proceeds
<1>4. CASE ~(disk # Gone /\ enabled)
    <2>1. PICK pc \in {"file", "missing"} : flight' = Nobody /\ req' = delivered(Gone, NoKey, pc)
        BY <1>4 DEF ReadFile
    <2>2. Gone \in Nat /\ NoKey \in Keys
        BY DEF Gone, Keys
    <2> QED
        BY <1>1, <1>2, <2>1, <2>2, DeliveredCarries
<1> QED
    BY <1>3, <1>4

\* What a request or a preload stores is an entry with the body it holds.
LEMMA StoresHeld ==
    ASSUME Types, NEW body \in Nat, body # Gone, body \in Circulating, NEW k \in Keys,
           NEW etag \in Nat, Set(newEntry(body, k, etag)),
           UNCHANGED <<enabled, history, dirty>>
    PROVE  CacheTypes' /\ Cached' \subseteq Circulating
<1> DEFINE e == newEntry(body, k, etag)
<1>1. TTL(class, size(etag)) \in TTLs
    BY DEF TTLs, Types, FileTypes
<1>2. e \in EntryType /\ e.body = body
    BY <1>1 DEF newEntry, EntryType, Gone
<1> HIDE DEF e
<1>3. Set(e) /\ CacheTypes
    BY DEF e, Types
<1>4. /\ entry' \in EntryType \cup {NoEntry} /\ setBuf' \in Seq(EntryType \cup {deletion})
      /\ Cached' \subseteq Cached \cup {e.body}
    BY <1>2, <1>3, SetStores
<1>5. CacheTypes'
    BY <1>3, <1>4 DEF CacheTypes, history
<1>6. Cached \subseteq Circulating
    BY DEF Circulating
<1> QED
    BY <1>2, <1>4, <1>5, <1>6

LEMMA StoreEntryStep ==
    ASSUME Types, NEW r \in Requests, StoreEntry(r)
    PROVE  Types' /\ Carries /\ \A q \in Requests : Proceeds(q)
<1>1. /\ req[r].pc = "store" /\ flight' = Nobody /\ req' = delivered(req[r].body, key(r), "attach")
      /\ Set(newEntry(req[r].body, key(r), req[r].etag))
      /\ UNCHANGED <<files, enabled, pre, upd, snap, comp, dirty, overlap, takenBack>>
    BY DEF StoreEntry, At, history
<1>2. /\ req[r].body \in Nat /\ req[r].body # Gone /\ req[r].body \in Circulating
      /\ key(r) \in Keys /\ req[r].etag \in Nat
    BY <1>1, FieldsOf
<1>3. CacheTypes' /\ Cached' \subseteq Circulating
    BY <1>1, <1>2, StoresHeld DEF history
<1> QED
    BY <1>1, <1>2, <1>3, DeliveredCarries

LEMMA EnsureAttachmentStep ==
    ASSUME Types, NEW r \in Requests, EnsureAttachment(r)
    PROVE  Types' /\ Carries /\ \A q \in Requests : Proceeds(q)
<1> DEFINE c == ended(r, "done", req[r].body)
<1>1. /\ req[r].pc = "attach" /\ Goto(r, c)
      /\ UNCHANGED <<files, enabled, flight, pre, upd, snap, comp, dirty, history>>
    BY DEF EnsureAttachment, At, answered
<1>2. /\ req[r].body \in Nat /\ req[r].body # Gone /\ req[r].body \in Circulating
      /\ key(r) \in Keys /\ req[r].etag \in Nat
    BY <1>1, FieldsOf
<1>3. CacheTypes' /\ Cached' \subseteq Circulating
    <2>1. CASE req[r].key = key(r)
        BY <1>1, <2>1, CachedStays DEF EnsureAttachment, cache
    <2>2. CASE req[r].key # key(r)
        BY <1>1, <1>2, <2>2, StoresHeld DEF EnsureAttachment
    <2> QED
        BY <2>1, <2>2
<1>4. /\ Request(c) /\ c.pc = "done" /\ c.body = req[r].body
      /\ c.etag = req[r].etag /\ c.disturbed = req[r].disturbed
    BY <1>2, EndedIs
<1>5. underWay(r)
    BY <1>1 DEF underWay
<1> HIDE DEF c
<1> QED
    BY <1>1, <1>2, <1>3, <1>4, <1>5, ContinuesAlone

LEMMA SendFileStep ==
    ASSUME Types, NEW r \in Requests, SendFile(r)
    PROVE  Types' /\ Carries /\ \A q \in Requests : Proceeds(q)
<1>1. /\ underWay(r) /\ UNCHANGED <<files, cache, flight, pre, upd, snap, comp, dirty, history>>
    BY DEF SendFile, At, underWay
<1>2. CacheTypes' /\ Cached' \subseteq Circulating
    BY <1>1, CachedStays
<1>3. disk \in Nat /\ Gone \in Nat
    BY KnownIs DEF Types, FileTypes
<1>4. PICK pc \in {"done", "failed"}, body \in {disk, Gone} :
        Goto(r, ended(r, pc, body)) /\ (pc = "done" => disk # Gone /\ body = disk)
    BY DEF SendFile, answered
<1> DEFINE c == ended(r, pc, body)
<1>5. /\ Request(c) /\ c.pc = pc /\ c.body = body
      /\ c.etag = req[r].etag /\ c.disturbed = req[r].disturbed
    BY <1>3, EndedIs
<1>6. Goto(r, c)
    BY <1>4
<1> HIDE DEF c
<1> QED
    BY <1>1, <1>2, <1>4, <1>5, <1>6, ContinuesAlone

LEMMA DeleteMissingStep ==
    ASSUME Types, NEW r \in Requests, DeleteMissing(r)
    PROVE  Types' /\ Carries /\ \A q \in Requests : Proceeds(q)
<1> DEFINE c == ended(r, "failed", Gone)
<1>1. /\ req[r].pc = "missing" /\ Goto(r, c) /\ Delete
      /\ listed' = IF place = "artifact" THEN Gone ELSE listed
      /\ UNCHANGED <<place, class, prepared, disk, enabled, flight, pre, upd, snap, comp,
                     dirty, history>>
    BY DEF DeleteMissing, At
<1>2. /\ Request(c) /\ c.pc = "failed"
      /\ c.etag = req[r].etag /\ c.disturbed = req[r].disturbed
    BY EndedIs DEF Gone
<1> HIDE DEF c
<1>3. RequestTypes' /\ req'[r] = c /\ \A q \in Requests : q # r => req'[q] = req[q]
    BY <1>1, <1>2, GotoTypes
<1>4. CacheTypes /\ entry' = NoEntry /\ setBuf' \in Seq(EntryType \cup {deletion}) /\ Cached' = Buffered
    BY <1>1, DeleteClears DEF Types
<1>5. CacheTypes' /\ Cached' \subseteq Cached
    BY <1>1, <1>4 DEF CacheTypes, Cached, history
<1>6. ASSUME NEW b, b \in Circulating'
      PROVE  b \in Circulating
    BY <1>1, <1>2, <1>3, <1>5, <1>6, CirculatingIs, CirculatingNext
<1>7. underWay(r)
    BY <1>1 DEF underWay
<1>8. Carries
    BY <1>1, <1>6, <1>7 DEF Carries, NothingNew, history
<1>9. FileTypes' /\ ActorTypes'
    BY <1>1, <1>8, CarriesTypes
<1>10. Continues(r)
    BY <1>2, <1>3, <1>7 DEF Continues
<1> QED
    BY <1>3, <1>5, <1>8, <1>9, <1>10 DEF Types, Proceeds

LEMMA HandleStep ==
    ASSUME Types, NEW r \in Requests, Handle(r)
    PROVE  Types' /\ Carries /\ \A q \in Requests : Proceeds(q)
BY ResolveStep, SendHotStep, GetEntryStep, LoadEntryStep, LoadFindsStep, ReadFileStep,
   StoreEntryStep, EnsureAttachmentStep, SendFileStep, DeleteMissingStep DEF Handle

-----------------------------------------------------------------------------
(* The other steps that carry bodies: the cache's own, preloads, compilations. *)

LEMMA OthersCarry ==
    ASSUME Types, UNCHANGED <<files, upd, flight, req, takenBack>>, CacheTypes',
           pre' \in [pc : {"idle", "copied", "read", "store"}, etag : Nat, body : Nat],
           pre'.pc = "store" => pre'.body # Gone,
           comp' \in [pc : {"idle", "body", "publish"}, etag : Known, body : Known],
           snap' \in [etag : Known, body : Known],
           NothingNew \/ ReadsDisk
    PROVE  Types' /\ Carries /\ \A q \in Requests : Proceeds(q)
<1>1. Carries
    BY DEF Carries, files
<1>2. FileTypes'
    BY <1>1, CarriesTypes
<1>3. ActorTypes'
    BY <1>1, <1>2, KnownIs DEF Types, ActorTypes, FileTypes, files
<1>4. RequestTypes'
    BY DEF Types, RequestTypes, Request
<1> QED
    BY <1>1, <1>2, <1>3, <1>4 DEF Types, Proceeds

LEMMA Idle ==
    /\ idlePreload \in [pc : {"idle", "copied", "read", "store"}, etag : Nat, body : Nat]
    /\ idlePreload.pc = "idle"
    /\ idleCompilation \in [pc : {"idle", "body", "publish"}, etag : Known, body : Known]
    /\ idleCompilation.pc = "idle"
BY KnownIs DEF idlePreload, idleCompilation, Gone

LEMMA CacheStep ==
    ASSUME Types, ApplyBuffered \/ Expire \/ Stop
    PROVE  /\ Types' /\ Carries /\ \A q \in Requests : Proceeds(q)
           /\ UNCHANGED <<comp, snap, dirty>>
<1>1. UNCHANGED <<files, flight, req, pre, upd, snap, comp, dirty, overlap, takenBack>>
    BY DEF ApplyBuffered, Expire, Stop, history
<1>2. CacheTypes' /\ Cached' \subseteq Cached
    <2>1. CASE ApplyBuffered
        BY <2>1, ApplyMoves DEF Types
    <2>2. CASE Expire
        BY <2>2 DEF Expire, Types, CacheTypes, Cached, Buffered, Found, history
    <2>3. CASE Stop
        <3>1. setBuf' = <<>> /\ entry' = NoEntry /\ enabled' = FALSE
            BY <2>3 DEF Stop
        <3>2. setBuf' \in Seq(EntryType \cup {deletion}) /\ DOMAIN setBuf' = {}
            BY <3>1, EmptySeq
        <3>3. Cached' = {}
            BY <3>1, <3>2 DEF Cached, Buffered, Found
        <3> QED
            BY <1>1, <3>1, <3>2, <3>3 DEF Types, CacheTypes
    <2> QED
        BY <2>1, <2>2, <2>3
<1>3. ASSUME NEW b, b \in Circulating'
      PROVE  b \in Circulating
    BY <1>1, <1>2, <1>3, CirculatingIs, CirculatingNext
<1>4. NothingNew
    BY <1>1, <1>3 DEF NothingNew
<1>5. /\ pre' \in [pc : {"idle", "copied", "read", "store"}, etag : Nat, body : Nat]
      /\ pre'.pc = "store" => pre'.body # Gone
      /\ comp' \in [pc : {"idle", "body", "publish"}, etag : Known, body : Known]
      /\ snap' \in [etag : Known, body : Known]
    BY <1>1 DEF Types, ActorTypes
<1> QED
    BY <1>1, <1>2, <1>4, <1>5, OthersCarry

LEMMA PreloadStep ==
    ASSUME Types, CopyHotset \/ PreloadGenerated \/ Preload
    PROVE  /\ Types' /\ Carries /\ \A q \in Requests : Proceeds(q)
           /\ UNCHANGED <<comp, snap, dirty>>
<1> DEFINE P == [pc : {"idle", "copied", "read", "store"}, etag : Nat, body : Nat]
<1>1. UNCHANGED <<files, enabled, flight, req, upd, snap, comp, dirty, takenBack>>
    BY DEF CopyHotset, PreloadGenerated, Preload, WarmSelected, PreloadReads, PreloadStores, cache, history
<1>2. /\ pre \in P /\ (pre.pc = "store" => pre.body # Gone)
      /\ comp' \in [pc : {"idle", "body", "publish"}, etag : Known, body : Known]
      /\ snap' \in [etag : Known, body : Known]
    BY <1>1 DEF Types, ActorTypes
<1>3. listed \in Nat /\ disk \in Nat
    BY KnownIs DEF Types, FileTypes
<1>4. CASE CopyHotset \/ PreloadGenerated \/ WarmSelected
    <2>1. UNCHANGED <<cache, overlap>>
        BY <1>4 DEF CopyHotset, PreloadGenerated, WarmSelected, history
    <2>2. pre' \in P /\ pre'.pc # "store"
        <3>1. CASE CopyHotset
            BY <3>1, <1>3, Idle DEF CopyHotset
        <3>2. CASE PreloadGenerated
            BY <3>2, <1>3, Idle DEF PreloadGenerated
        <3>3. CASE WarmSelected
            BY <3>3, <1>2, Idle DEF WarmSelected
        <3> QED
            BY <1>4, <3>1, <3>2, <3>3
    <2>3. CacheTypes' /\ Cached' = Cached
        BY <1>1, <2>1, CachedStays DEF history
    <2>4. ASSUME NEW b, b \in Circulating'
          PROVE  b \in Circulating
        BY <1>1, <2>2, <2>3, <2>4, CirculatingIs, CirculatingNext
    <2>5. NothingNew
        BY <2>1, <2>4 DEF NothingNew
    <2> QED
        BY <1>1, <1>2, <2>2, <2>3, <2>5, OthersCarry
<1>5. CASE PreloadReads
    <2>1. UNCHANGED cache /\ overlap' = (overlap \/ listed = Gone)
        BY <1>5 DEF PreloadReads
    <2>2. CacheTypes' /\ Cached' = Cached
        BY <1>1, <2>1 DEF Types, CacheTypes, cache, Cached, Buffered, Found
    <2>3. CASE disk # Gone /\ enabled
        <3>1. pre' = [pre EXCEPT !.pc = "store", !.body = disk]
            BY <1>5, <2>3 DEF PreloadReads
        <3>2. pre' \in P /\ pre'.body = disk
            BY <1>2, <1>3, <3>1
        <3>3. ASSUME NEW b, b \in Circulating'
              PROVE  b \in Circulating \/ b = disk
            BY <1>1, <2>2, <3>2, <3>3, CirculatingIs, CirculatingNext
        <3>4. ReadsDisk
            BY <2>1, <2>3, <3>3 DEF ReadsDisk
        <3> QED
            BY <1>1, <1>2, <2>2, <2>3, <3>2, <3>4, OthersCarry
    <2>4. CASE ~(disk # Gone /\ enabled)
        <3>1. pre' = idlePreload
            BY <1>5, <2>4 DEF PreloadReads
        <3>2. pre' \in P /\ pre'.pc # "store"
            BY <3>1, Idle
        <3>3. ASSUME NEW b, b \in Circulating'
              PROVE  b \in Circulating
            BY <1>1, <2>2, <3>2, <3>3, CirculatingIs, CirculatingNext
        <3>4. NothingNew
            BY <2>1, <3>3 DEF NothingNew
        <3> QED
            BY <1>1, <1>2, <2>2, <3>2, <3>4, OthersCarry
    <2> QED
        BY <2>3, <2>4
<1>6. CASE PreloadStores
    <2>1. /\ pre.pc = "store" /\ pre' = idlePreload /\ overlap' = overlap
          /\ Set(newEntry(pre.body, NoKey, pre.etag))
        BY <1>6 DEF PreloadStores, history
    <2>2. pre.body \in Nat /\ pre.body # Gone /\ pre.etag \in Nat /\ pre.body \in Circulating
        BY <1>2, <2>1, CirculatingIs
    <2>3. NoKey \in Keys
        BY DEF Keys
    <2>4. CacheTypes' /\ Cached' \subseteq Circulating
        BY <1>1, <2>1, <2>2, <2>3, StoresHeld DEF history
    <2>5. pre' \in P /\ pre'.pc # "store"
        BY <2>1, Idle
    <2>6. ASSUME NEW b, b \in Circulating'
          PROVE  b \in Circulating
        BY <1>1, <2>4, <2>5, <2>6, CirculatingIs, CirculatingNext
    <2>7. NothingNew
        BY <2>1, <2>6 DEF NothingNew
    <2> QED
        BY <1>1, <1>2, <2>4, <2>5, <2>7, OthersCarry
<1> QED
    BY <1>4, <1>5, <1>6 DEF Preload

LEMMA CompileStep ==
    ASSUME Types, CompileSnapshot
    PROVE  Types' /\ Carries /\ \A q \in Requests : Proceeds(q)
<1> DEFINE C == [pc : {"idle", "body", "publish"}, etag : Known, body : Known]
<1>1. UNCHANGED <<files, cache, flight, req, pre, upd, overlap, takenBack>> /\ dirty' \in BOOLEAN
    BY DEF CompileSnapshot, Compile, CompileBody, PublishSnapshot, Types, CacheTypes, history
<1>2. CacheTypes' /\ Cached' = Cached
    BY <1>1 DEF Types, CacheTypes, cache, Cached, Buffered, Found
<1>3. ASSUME NEW b, b \in Circulating'
      PROVE  b \in Circulating
    BY <1>1, <1>2, <1>3, CirculatingIs, CirculatingNext
<1>4. NothingNew
    BY <1>1, <1>3 DEF NothingNew
<1>5. listed \in Known /\ disk \in Known /\ Gone \in Known /\ comp \in C /\ snap \in [etag : Known, body : Known]
    BY KnownIs DEF Types, FileTypes, ActorTypes
<1>6. comp' \in C /\ snap' \in [etag : Known, body : Known]
    <2>1. CASE Compile
        BY <2>1, <1>5 DEF Compile
    <2>2. CASE CompileBody
        BY <2>2, <1>5 DEF CompileBody
    <2>3. CASE PublishSnapshot
        BY <2>3, <1>5, Idle DEF PublishSnapshot
    <2> QED
        BY <2>1, <2>2, <2>3 DEF CompileSnapshot
<1>7. /\ pre' \in [pc : {"idle", "copied", "read", "store"}, etag : Nat, body : Nat]
      /\ pre'.pc = "store" => pre'.body # Gone
    BY <1>1 DEF Types, ActorTypes
<1> QED
    BY <1>1, <1>2, <1>4, <1>6, <1>7, OthersCarry

-----------------------------------------------------------------------------
(***************************************************************************)
(* The steps that change the file or the catalog.                          *)
(***************************************************************************)
Bodies == Types /\ BodiesKnown /\ OnlyCurrent /\ Undisturbed

LEMMA FilesAre ==
    ASSUME Types
    PROVE  /\ disk \in Known /\ listed \in Known /\ place \in {"source", "artifact"}
           /\ upd.hash \in Known /\ upd.pc \in {"idle", "invalidate", "upsert"}
           /\ overlap \in BOOLEAN /\ takenBack \in BOOLEAN /\ prepared \in BOOLEAN /\ dirty \in BOOLEAN
BY DEF Types, FileTypes, ActorTypes, CacheTypes

(***************************************************************************)
(* EditStep: what the catalog has, or is about to be told, is not what is  *)
(* on disk now, or the edit was taken back.                                *)
(***************************************************************************)
LEMMA EditStep ==
    ASSUME Bodies, Edit
    PROVE  Bodies'
<1>0. Types /\ BodiesKnown /\ OnlyCurrent /\ Undisturbed
    BY DEF Bodies
<1>1. /\ place = "source"
      /\ UNCHANGED <<place, class, prepared, listed, cache, flight, pre, upd, snap, comp, dirty, overlap>>
    BY DEF Edit
<1>2. /\ Known' = Known
      /\ disk' \in Known /\ takenBack' \in BOOLEAN
      /\ ~takenBack' => ~takenBack /\ disk' # known
    <2>1. PICK content \in ({Gone} \cup Contents) \ {disk} :
            disk' = content /\ takenBack' = (takenBack \/ content = known)
        BY DEF Edit
    <2>2. content \in Known
        BY <1>1, <2>1 DEF Known
    <2>3. Known' = Known /\ takenBack \in BOOLEAN
        BY <1>0, <1>1, KnownIs, FilesAre
    <2> QED
        BY <2>1, <2>2, <2>3
<1>3. req \in [Requests -> RequestType] /\ \A q \in Requests : Request(req[q])
    BY <1>0 DEF Types, RequestTypes
<1>4. ASSUME NEW q \in Requests
      PROVE  /\ req'[q] \in RequestType /\ req'[q].pc = req[q].pc /\ req'[q].body = req[q].body
             /\ req'[q].etag = req[q].etag /\ req'[q].disturbed = (req[q].disturbed \/ underWay(q))
    <2>1. req'[q] = [req[q] EXCEPT !.disturbed = @ \/ underWay(q)]
        BY DEF Edit
    <2>2. req[q] \in RequestType /\ underWay(q) \in BOOLEAN
        BY <1>3 DEF underWay
    <2> QED
        BY <2>1, <2>2 DEF RequestType
<1>5. req' \in [Requests -> RequestType]
    BY <1>4 DEF Edit
<1>6. RequestTypes'
    BY <1>0, <1>1, <1>3, <1>4, <1>5 DEF Types, RequestTypes, Request
<1>7. CacheTypes' /\ Cached' = Cached
    BY <1>0, <1>1, <1>2 DEF Types, CacheTypes, cache, Cached, Buffered, Found
<1>8. FileTypes' /\ ActorTypes'
    BY <1>0, <1>1, <1>2 DEF Types, FileTypes, ActorTypes
<1>9. Circulating' = Circulating
    <2>1. \A b : b \in Circulating' <=> b \in Circulating
        BY <1>1, <1>4, <1>7, CirculatingIs, CirculatingNext
    <2> QED
        BY <2>1
<1>10. BodiesKnown'
    BY <1>0, <1>2, <1>9 DEF BodiesKnown
<1>11. OnlyCurrent'
    BY <1>0, <1>1, <1>2, <1>9 DEF OnlyCurrent, known
<1>12. Undisturbed'
    <2>1. ASSUME NEW q \in Requests
          PROVE  /\ (underWay(q)' <=> underWay(q)) /\ (At(q, "done")' <=> At(q, "done"))
                 /\ ~(underWay(q)' /\ ~req'[q].disturbed)
                 /\ ~req'[q].disturbed => ~req[q].disturbed
        BY <1>4 DEF underWay, At
    <2> QED
        BY <1>0, <1>1, <1>2, <1>4, <2>1 DEF Undisturbed
<1> QED
    BY <1>6, <1>7, <1>8, <1>10, <1>11, <1>12 DEF Bodies, Types

\* A step of the rescan or of the pipeline leaves requests and bodies alone.
LEMMA CatalogStep ==
    ASSUME Types,
           UNCHANGED <<place, class, prepared, cache, flight, req, pre, snap, comp, history>>,
           disk' \in Known, listed' \in Known, dirty' \in BOOLEAN,
           upd' \in [pc : {"idle", "invalidate", "upsert"}, hash : Known],
           upd'.pc = "upsert" => place = "source" /\ upd'.hash # Gone,
           upd'.pc = "invalidate" =>
             \/ place = "source" /\ (upd'.hash = Gone <=> listed' = Gone)
             \/ place = "artifact" /\ upd'.hash = Gone
    PROVE  Types' /\ Circulating' = Circulating
<1>1. Known' = Known
    BY KnownIs
<1>2. FileTypes'
    BY <1>1 DEF Types, FileTypes
<1>3. CacheTypes' /\ Cached' = Cached
    BY DEF Types, CacheTypes, cache, history, Cached, Buffered, Found
<1>4. ActorTypes'
    BY <1>1 DEF Types, ActorTypes
<1>5. RequestTypes'
    BY DEF Types, RequestTypes, Request
<1>6. \A b : b \in Circulating' <=> b \in Circulating
    BY <1>3, CirculatingIs, CirculatingNext
<1> QED
    BY <1>2, <1>3, <1>4, <1>5, <1>6 DEF Types

\* When the rescan is at work, every request for a source file is disturbed.
LEMMA AllDisturbed ==
    ASSUME Undisturbed, UNCHANGED <<req, prepared, place>>,
           place = "source" => ~Quiet
    PROVE  Undisturbed'
<1>1. ASSUME NEW q \in Requests
      PROVE  /\ (underWay(q)' <=> underWay(q)) /\ (At(q, "done")' <=> At(q, "done"))
             /\ req'[q] = req[q]
             /\ underWay(q) /\ ~req[q].disturbed => place # "source"
    BY DEF underWay, At, Undisturbed
<1>2. Known' = Known
    BY KnownIs
<1> QED
    BY <1>1, <1>2 DEF Undisturbed

LEMMA HashSourceStep ==
    ASSUME Bodies, HashSource
    PROVE  Bodies'
<1>0. Types /\ BodiesKnown /\ OnlyCurrent /\ Undisturbed
    BY DEF Bodies
<1>1. /\ place = "source" /\ upd.pc = "idle" /\ disk # listed
      /\ upd' = [pc |-> IF listed = Gone THEN "upsert" ELSE "invalidate", hash |-> disk]
      /\ listed' = IF disk = Gone THEN Gone ELSE listed
      /\ dirty' = (dirty \/ (prepared /\ disk = Gone))
      /\ UNCHANGED <<place, class, prepared, disk, cache, flight, req, pre, snap, comp, history>>
    BY DEF HashSource
<1>2. /\ listed' \in Known /\ disk' \in Known /\ dirty' \in BOOLEAN
      /\ upd' \in [pc : {"idle", "invalidate", "upsert"}, hash : Known]
      /\ upd'.hash = disk
      /\ upd'.pc = IF listed = Gone THEN "upsert" ELSE "invalidate"
    BY <1>0, <1>1, FilesAre, KnownIs
<1>3. /\ upd'.pc = "upsert" => upd'.hash # Gone
      /\ upd'.pc = "invalidate" => (upd'.hash = Gone <=> listed' = Gone)
    BY <1>1, <1>2
<1>4. Types' /\ Circulating' = Circulating /\ Known' = Known
    BY <1>0, <1>1, <1>2, <1>3, CatalogStep, KnownIs
<1>5. BodiesKnown'
    BY <1>0, <1>4 DEF BodiesKnown
<1>6. OnlyCurrent'
    BY <1>0, <1>1, <1>2, <1>4 DEF OnlyCurrent, history
<1>7. Undisturbed'
    BY <1>0, <1>1, AllDisturbed DEF Quiet
<1> QED
    BY <1>4, <1>5, <1>6, <1>7 DEF Bodies

LEMMA ArtifactStep ==
    ASSUME Bodies, RemoveArtifact \/ GenerateArtifact
    PROVE  Bodies'
<1>0. Types /\ BodiesKnown /\ OnlyCurrent /\ Undisturbed
    BY DEF Bodies
<1>1. /\ place = "artifact" /\ dirty' = prepared
      /\ UNCHANGED <<place, class, prepared, cache, flight, req, pre, snap, comp, history>>
    BY DEF RemoveArtifact, GenerateArtifact
<1>2. /\ upd.pc # "upsert" /\ (upd.pc = "invalidate" => upd.hash = Gone)
      /\ upd \in [pc : {"idle", "invalidate", "upsert"}, hash : Known]
    BY <1>0, <1>1 DEF Types, ActorTypes
<1>3. /\ listed' \in Known /\ disk' \in Known /\ dirty' \in BOOLEAN
      /\ upd' \in [pc : {"idle", "invalidate", "upsert"}, hash : Known]
      /\ upd'.pc # "upsert" /\ (upd'.pc = "invalidate" => upd'.hash = Gone)
    <2>1. CASE RemoveArtifact
        BY <1>0, <1>1, <1>2, <2>1, FilesAre, KnownIs DEF RemoveArtifact
    <2>2. CASE GenerateArtifact
        BY <1>0, <1>1, <1>2, <2>2, FilesAre, KnownIs DEF GenerateArtifact
    <2> QED
        BY <2>1, <2>2
<1>4. Types' /\ Circulating' = Circulating /\ Known' = Known
    BY <1>0, <1>1, <1>3, CatalogStep, KnownIs
<1>5. BodiesKnown'
    BY <1>0, <1>4 DEF BodiesKnown
<1>6. OnlyCurrent'
    <2>1. place' = "artifact"
        BY <1>1
    <2> QED
        BY <1>4, <1>5, <2>1, ArtifactsAreCurrent
<1>7. Undisturbed'
    BY <1>0, <1>1, AllDisturbed
<1> QED
    BY <1>4, <1>5, <1>6, <1>7 DEF Bodies

LEMMA UpsertAssetStep ==
    ASSUME Bodies, UpsertAsset
    PROVE  Bodies'
<1>0. Types /\ BodiesKnown /\ OnlyCurrent /\ Undisturbed
    BY DEF Bodies
<1>1. /\ upd.pc = "upsert" /\ listed' = upd.hash /\ upd' = idleUpdate /\ dirty' = prepared
      /\ UNCHANGED <<place, class, prepared, disk, cache, flight, req, pre, snap, comp, history>>
    BY DEF UpsertAsset
<1>2. place = "source" /\ upd.hash # Gone
    BY <1>0, <1>1 DEF Types, ActorTypes
<1>3. /\ listed' \in Known /\ disk' \in Known /\ dirty' \in BOOLEAN
      /\ upd' \in [pc : {"idle", "invalidate", "upsert"}, hash : Known] /\ upd'.pc = "idle"
    BY <1>0, <1>1, FilesAre, KnownIs DEF idleUpdate
<1>4. Types' /\ Circulating' = Circulating /\ Known' = Known
    BY <1>0, <1>1, <1>3, CatalogStep, KnownIs
<1>5. BodiesKnown'
    BY <1>0, <1>4 DEF BodiesKnown
<1>6. OnlyCurrent'
    BY <1>0, <1>1, <1>2, <1>3, <1>4 DEF OnlyCurrent, history
<1>7. Undisturbed'
    BY <1>0, <1>1, AllDisturbed DEF Quiet
<1> QED
    BY <1>4, <1>5, <1>6, <1>7 DEF Bodies

(***************************************************************************)
(* InvalidateStep: after Delete only what is held or buffered is left; if  *)
(* any of it is neither the content found nor the one on disk by now, that *)
(* is put on record.                                                       *)
(***************************************************************************)
LEMMA InvalidateStep ==
    ASSUME Bodies, Invalidate
    PROVE  Bodies'
<1>0. Types /\ BodiesKnown /\ OnlyCurrent /\ Undisturbed
    BY DEF Bodies
<1>1. /\ upd.pc = "invalidate" /\ Delete /\ overlap' = overlapsDelete(upd.hash) /\ takenBack' = FALSE
      /\ upd' = IF upd.hash = Gone THEN idleUpdate ELSE [upd EXCEPT !.pc = "upsert"]
      /\ UNCHANGED <<files, enabled, flight, req, pre, snap, comp, dirty>>
    BY DEF Invalidate
<1>2. CacheTypes /\ entry' = NoEntry /\ setBuf' \in Seq(EntryType \cup {deletion}) /\ Cached' = Buffered
    BY <1>0, <1>1, DeleteClears DEF Types
<1>3. overlap' \in BOOLEAN
    BY <1>1 DEF overlapsDelete
<1>4. CacheTypes'
    BY <1>1, <1>2, <1>3 DEF CacheTypes
<1>5. Held' = Held
    BY <1>1 DEF Held
<1>6. Circulating' = Held \cup Buffered /\ Circulating' \subseteq Circulating
    BY <1>2, <1>5 DEF Circulating, Cached
<1>7. /\ upd \in [pc : {"idle", "invalidate", "upsert"}, hash : Known]
      /\ upd.hash # Gone => place = "source" /\ listed # Gone
    BY <1>0, <1>1 DEF Types, ActorTypes
<1>8. /\ upd' \in [pc : {"idle", "invalidate", "upsert"}, hash : Known]
      /\ upd'.pc # "invalidate"
      /\ upd'.pc = "upsert" => upd.hash # Gone /\ upd'.hash = upd.hash
      /\ upd'.pc = "idle" => upd.hash = Gone
    <2>1. CASE upd.hash = Gone
        BY <1>1, <2>1, KnownIs DEF idleUpdate
    <2>2. CASE upd.hash # Gone
        BY <1>1, <1>7, <2>2
    <2> QED
        BY <2>1, <2>2
<1>9. Types' /\ Known' = Known
    <2>1. FileTypes' /\ Known' = Known
        BY <1>0, <1>1, KnownIs DEF Types, FileTypes, files
    <2>2. ActorTypes'
        BY <1>0, <1>1, <1>7, <1>8, <2>1 DEF Types, ActorTypes, files
    <2>3. RequestTypes'
        BY <1>0, <1>1 DEF Types, RequestTypes, Request
    <2> QED
        BY <1>4, <2>1, <2>2, <2>3 DEF Types
<1>10. BodiesKnown'
    BY <1>0, <1>6, <1>9 DEF BodiesKnown
<1>11. OnlyCurrent'
    <2>1. SUFFICES ASSUME ~overlap' PROVE OnlyCurrent'
        BY DEF OnlyCurrent
    <2>2. \A b \in Circulating' : upd.hash # Gone /\ b \in {upd.hash, disk}
        BY <1>1, <1>6, <2>1 DEF overlapsDelete, outdates
    <2>3. disk' = disk /\ listed' = listed /\ place' = place
        BY <1>1 DEF files
    <2>4. upd.hash = Gone => Circulating' = {}
        BY <2>2
    <2>5. upd'.pc = "idle" => Circulating' = {}
        BY <1>8, <2>4
    <2>6. upd'.pc = "upsert" /\ disk = upd'.hash => Circulating' \subseteq {upd'.hash}
        BY <1>8, <2>2
    <2>7. place = "source" /\ listed = Gone => Circulating' = {}
        BY <1>7, <2>4
    <2> QED
        BY <2>3, <2>5, <2>6, <2>7 DEF OnlyCurrent
<1>12. Undisturbed'
    BY <1>0, <1>1, AllDisturbed DEF Quiet, files
<1> QED
    BY <1>9, <1>10, <1>11, <1>12 DEF Bodies

-----------------------------------------------------------------------------
LEMMA InitBodies ==
    ASSUME Init
    PROVE  Bodies
<1>1. /\ disk = 1 /\ listed = 1 /\ enabled = TRUE /\ entry = NoEntry
      /\ setBuf = <<>> /\ flight = Nobody /\ req = [r \in Requests |-> idleRequest]
      /\ pre = idlePreload /\ upd = idleUpdate /\ snap = [etag |-> Gone, body |-> Gone]
      /\ dirty = prepared /\ comp = idleCompilation /\ overlap = FALSE /\ takenBack = FALSE
      /\ prepared \in BOOLEAN
    BY DEF Init
<1>2. place \in {"source", "artifact"} /\ class \in Classes
    <2>1. PICK f \in Files : place = f[1] /\ class = f[2]
        BY DEF Init
    <2>2. f \in {"source"} \X (Classes \ {"variant"}) \cup {<<"artifact", "variant">>}
        BY <2>1, MemoryCacheAssumption
    <2>3. "variant" \in Classes
        BY DEF Classes
    <2> QED
        BY <2>1, <2>2, <2>3
<1>3. FileTypes
    BY <1>1, <1>2, KnownIs DEF FileTypes
<1>4. CacheTypes
    BY <1>1, EmptySeq DEF CacheTypes
<1>5. ActorTypes
    BY <1>1, Idle, KnownIs DEF ActorTypes, idleUpdate
<1>6. idleRequest \in RequestType /\ idleRequest.pc = "idle" /\ idleRequest.etag = Gone
    BY DEF idleRequest, RequestType, RequestPoints, Keys, Gone
<1>7. \A r \in Requests : req[r] = idleRequest
    BY <1>1
<1>8. RequestTypes
    BY <1>1, <1>6, <1>7 DEF RequestTypes, Request
<1>9. Circulating = {}
    <2>1. DOMAIN setBuf = {}
        BY <1>1, EmptySeq
    <2>2. Cached = {}
        BY <1>1, <2>1 DEF Cached, Buffered, Found
    <2>3. \A b : b \notin Circulating
        BY <1>1, <1>6, <1>7, <2>2, Idle, CirculatingIs
    <2> QED
        BY <2>3
<1>10. BodiesKnown /\ OnlyCurrent
    BY <1>9 DEF BodiesKnown, OnlyCurrent
<1>11. Undisturbed
    BY <1>1, <1>6, <1>7, KnownIs DEF Undisturbed, underWay, At
<1> QED
    BY <1>3, <1>4, <1>5, <1>8, <1>10, <1>11 DEF Bodies, Types

LEMMA NextBodies ==
    ASSUME Bodies, [Next]_vars
    PROVE  Bodies'
<1>0. Types /\ BodiesKnown /\ OnlyCurrent /\ Undisturbed
    BY DEF Bodies
<1>1. ASSUME Types', Carries, \A q \in Requests : Proceeds(q)
      PROVE  Bodies'
    BY <1>0, <1>1, CarriesKeeps, UndisturbedStep DEF Bodies
<1>2. ASSUME NEW r \in Requests, Handle(r)
      PROVE  Bodies'
    BY <1>0, <1>1, <1>2, HandleStep
<1>3. CASE ApplyBuffered \/ Expire \/ Stop
    BY <1>0, <1>1, <1>3, CacheStep
<1>4. CASE CopyHotset \/ PreloadGenerated \/ Preload
    BY <1>0, <1>1, <1>4, PreloadStep
<1>5. CASE CompileSnapshot
    BY <1>0, <1>1, <1>5, CompileStep
<1>6. CASE Edit \/ Update \/ RemoveArtifact \/ GenerateArtifact
    BY <1>6, EditStep, HashSourceStep, InvalidateStep, UpsertAssetStep, ArtifactStep DEF Update
<1>7. CASE UNCHANGED vars
    <2>1. UNCHANGED <<place, class, prepared, disk, listed, enabled, entry, setBuf,
                      flight, req, pre, upd, snap, comp, dirty, overlap, takenBack>>
        BY <1>7 DEF vars, files, cache, history
    <2>2. Types'
        BY <1>0, <2>1, KnownIs DEF Types, FileTypes, CacheTypes, ActorTypes, RequestTypes, Request
    <2>3. Cached' = Cached
        BY <2>1 DEF Cached, Buffered, Found
    <2>4. \A b : b \in Circulating' <=> b \in Circulating
        BY <2>1, <2>3, CirculatingIs, CirculatingNext
    <2>5. Carries
        BY <2>1, <2>4 DEF Carries, NothingNew
    <2>6. \A q \in Requests : Proceeds(q)
        BY <2>1 DEF Proceeds
    <2> QED
        BY <1>1, <2>2, <2>5, <2>6
<1> QED
    BY <1>2, <1>3, <1>4, <1>5, <1>6, <1>7 DEF Next

(***************************************************************************)
(* StaysFreshWithoutOverlap: once a rescan has caught up, Cache.Get finds  *)
(* the content on disk, and an undisturbed request sends the content its   *)
(* ETag names, unless a load or re-attachment overlapped a Delete or an    *)
(* edit was taken back before a rescan could see it.  Any number of        *)
(* requests, preloads and edits may race, and contents may come back.      *)
(***************************************************************************)
THEOREM StaysFreshWithoutOverlap == Spec => []StaleOnlyByOverlap
<1>1. Init => Bodies
    BY InitBodies
<1>2. Bodies /\ [Next]_vars => Bodies'
    BY NextBodies
<1>3. Bodies => StaleOnlyByOverlap
    <2>1. SUFFICES ASSUME Bodies PROVE StaleOnlyByOverlap
        OBVIOUS
    <2>0. Types /\ BodiesKnown /\ OnlyCurrent /\ Undisturbed
        BY <2>1 DEF Bodies
    <2>2. ASSUME Quiet, listed # Gone, Found
          PROVE  entry.body = disk
        <3>1. entry.body \in Circulating
            BY <2>0, <2>2, FoundIs
        <3> QED
            BY <2>0, <2>2, <3>1 DEF Quiet, OnlyCurrent
    <2> QED
        BY <2>0, <2>2 DEF StaleOnlyByOverlap, Undisturbed
<1> QED
    BY <1>1, <1>2, <1>3, PTL DEF Spec

-----------------------------------------------------------------------------
(***************************************************************************)
(* PreparedKept: each step that changes the catalog asks for a rebuild, if *)
(* a snapshot is served; an edit leaves the catalog behind the disk, or is *)
(* put on record.                                                          *)
(***************************************************************************)
LEMMA PreparedKept ==
    ASSUME Bodies, PreparedInv, [Next]_vars
    PROVE  PreparedInv'
<1>0. Types /\ Undisturbed
    BY DEF Bodies
<1>1. SUFFICES ASSUME prepared', ~dirty' PROVE PreparedInv'
    BY DEF PreparedInv
<1>2. ASSUME UNCHANGED <<prepared, listed, disk, upd, takenBack, dirty, comp, snap>>
      PROVE  PreparedInv'
    BY <1>2 DEF PreparedInv, UpToDate
<1>3. ASSUME Carries
      PROVE  UNCHANGED <<prepared, listed, disk, upd, takenBack>>
    BY <1>0, <1>1, <1>3 DEF Carries, Undisturbed
<1>4. ASSUME NEW r \in Requests, Handle(r)
      PROVE  PreparedInv'
    <2>1. Carries
        BY <1>0, <1>4, HandleStep
    <2>2. UNCHANGED <<dirty, comp, snap>>
        BY <1>4 DEF Handle, Resolve, SendHot, GetEntry, LoadEntry, LoadFinds, ReadFile, StoreEntry,
                    EnsureAttachment, SendFile, DeleteMissing
    <2> QED
        BY <1>2, <1>3, <2>1, <2>2
<1>5. CASE ApplyBuffered \/ Expire \/ Stop
    BY <1>0, <1>2, <1>3, <1>5, CacheStep
<1>6. CASE CopyHotset \/ PreloadGenerated \/ Preload
    BY <1>0, <1>2, <1>3, <1>6, PreloadStep
<1>7. CASE Compile
    <2>1. comp' = [pc |-> "body", etag |-> listed, body |-> Gone] /\ listed' = listed
        BY <1>7 DEF Compile, files
    <2> QED
        BY <2>1 DEF PreparedInv
<1>8. CASE CompileBody
    <2>1. /\ comp.pc = "body" /\ UNCHANGED <<prepared, listed, disk, dirty, snap>>
          /\ comp \in [pc : {"idle", "body", "publish"}, etag : Known, body : Known]
        BY <1>0, <1>8 DEF CompileBody, files, Types, ActorTypes
    <2>2. PICK body \in {disk, Gone} :
            /\ comp' = [comp EXCEPT !.pc = "publish", !.body = body]
            /\ body = disk => body = Gone \/ comp.etag # Gone
        BY <1>8 DEF CompileBody
    <2>3. comp'.pc = "publish" /\ comp'.body = body /\ comp'.etag = comp.etag
        BY <2>1, <2>2
    <2>4. comp.etag = listed
        BY <1>1, <2>1 DEF PreparedInv
    <2> QED
        BY <2>1, <2>2, <2>3, <2>4 DEF PreparedInv, UpToDate
<1>9. CASE PublishSnapshot
    <2>1. /\ comp.pc = "publish" /\ UNCHANGED <<prepared, listed, disk, upd, takenBack, dirty>>
          /\ snap' = [etag |-> comp.etag, body |-> comp.body] /\ comp' = idleCompilation
        BY <1>9 DEF PublishSnapshot, files, history
    <2>2. snap'.etag = comp.etag /\ snap'.body = comp.body /\ comp'.pc = "idle"
        BY <2>1, Idle
    <2>3. UpToDate(comp.etag, comp.body)
        BY <1>1, <2>1 DEF PreparedInv
    <2> QED
        BY <2>1, <2>2, <2>3 DEF PreparedInv, UpToDate
<1>10. CASE Edit
    <2>1. UNCHANGED <<prepared, listed, upd, dirty, comp, snap>>
        BY <1>10 DEF Edit
    <2>2. ~takenBack' => ~takenBack /\ disk' # known
        BY <1>0, <1>10, FilesAre DEF Edit
    <2> QED
        BY <1>1, <2>1, <2>2 DEF PreparedInv, UpToDate, known
<1>11. CASE HashSource
    <2>1. /\ UNCHANGED <<prepared, disk, comp, snap>> /\ dirty' = (dirty \/ (prepared /\ disk = Gone))
          /\ listed' = IF disk = Gone THEN Gone ELSE listed
          /\ upd'.pc # "idle"
        BY <1>11 DEF HashSource
    <2>2. listed' = listed /\ dirty' = dirty
        BY <1>0, <1>1, <2>1, FilesAre
    <2> QED
        BY <2>1, <2>2 DEF PreparedInv, UpToDate
<1>12. CASE UpsertAsset \/ RemoveArtifact \/ GenerateArtifact
    <2>1. dirty' = prepared /\ prepared' = prepared
        BY <1>12 DEF UpsertAsset, RemoveArtifact, GenerateArtifact
    <2> QED
        BY <1>1, <2>1
<1>13. CASE Invalidate
    <2>1. /\ UNCHANGED <<prepared, listed, disk, dirty, comp, snap>> /\ upd.pc = "invalidate"
          /\ upd' = IF upd.hash = Gone THEN idleUpdate ELSE [upd EXCEPT !.pc = "upsert"]
        BY <1>13 DEF Invalidate, files
    <2>2. upd'.pc = "idle" => upd.hash = Gone
        BY <1>0, <2>1 DEF Types, ActorTypes
    <2>3. /\ place \in {"source", "artifact"} /\ listed \in Known /\ snap.body \in Known /\ comp.body \in Known
          /\ upd.hash = Gone /\ place = "source" => listed = Gone
        BY <1>0, <2>1 DEF Types, FileTypes, ActorTypes
    <2>4. \A body \in Known :
            UpToDate(listed, body) /\ upd.hash = Gone => body \in {Gone, listed}
        BY <2>3 DEF UpToDate, Known
    <2> QED
        BY <1>1, <2>1, <2>2, <2>3, <2>4 DEF PreparedInv, UpToDate
<1>14. CASE UNCHANGED vars
    BY <1>2, <1>14 DEF vars, files, history
<1> QED
    BY <1>4, <1>5, <1>6, <1>7, <1>8, <1>9, <1>10, <1>11, <1>12, <1>13, <1>14
    DEF Next, Update, CompileSnapshot

(***************************************************************************)
(* PreparedStaysCurrent: however compilations, edits and rescans overlap,  *)
(* once no rescan and no rebuild is due the prepared response has the ETag *)
(* of the disk and, if any, its body, unless an edit was taken back before *)
(* a rescan could see it.                                                  *)
(***************************************************************************)
THEOREM PreparedStaysCurrent == Spec => []PreparedBodyMatchesETag
<1>1. Init => Bodies /\ PreparedInv
    <2>1. Init => PreparedInv
        BY DEF Init, PreparedInv
    <2> QED
        BY <2>1, InitBodies
<1>2. Bodies /\ PreparedInv /\ [Next]_vars => Bodies' /\ PreparedInv'
    BY NextBodies, PreparedKept
<1>3. Bodies /\ PreparedInv => PreparedBodyMatchesETag
    BY DEF PreparedInv, PreparedBodyMatchesETag, UpToDate
<1> QED
    BY <1>1, <1>2, <1>3, PTL DEF Spec
=============================================================================
