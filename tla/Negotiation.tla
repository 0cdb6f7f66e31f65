---------------------------- MODULE Negotiation ----------------------------
(***************************************************************************)
(* Which asset a request names and which representation of it it gets      *)
(* (internal/resolver, internal/server/prepared_select.go).  The server    *)
(* has two ways to choose, and they share little code: the resolver asks   *)
(* the catalog for each candidate, and the prepared route looks in tables  *)
(* it compiled from a catalog snapshot, with a shortcut for headers        *)
(* without parameters and a binary search over widths.  Both are given     *)
(* the same catalog here.                                                  *)
(*                                                                         *)
(* The path comes first (RequestPath).  What follows is the same for every *)
(* asset that is found, so the path is forgotten before the variants, the  *)
(* query and the headers are chosen.                                       *)
(*                                                                         *)
(* A variant is known by its key: <<"encoding", name>> or                  *)
(* <<"image", format, width>>; the catalog holds at most one for each.     *)
(***************************************************************************)
EXTENDS RequestPath

CONSTANTS
    Encodings,          \* supported encodings, in the server's order
    EncodingTokens,     \* what an Accept-Encoding entry may name
    Formats,            \* supported image formats, in the server's order
    FormatOf,           \* the format an Accept token names
    MaxEntries,         \* bound: entries of both headers together
    Top,                \* the quality 1.0
    SourceFormat,       \* the format of the asset itself, Nothing for no image
    ImageKeys,          \* formats and widths image variants may have
    Widths,             \* widths requests ask for; 0 for none
    RequestFormats,     \* formats requests ask for; Nothing for none
    RequestPaths,       \* paths requests ask for, below the mount
    AssetPaths,         \* paths the catalog may list
    Nothing

VARIABLES
    route,              \* the path, the paths listed, and the asset each way finds
    encHeader, encExplicit, encWildcard,    \* Accept-Encoding
    imgHeader, imgExplicit, imgWildcard,    \* Accept
    catalog,            \* for each key: no variant, one of the current source, an old one
    request,            \* width, format and whether it has a Range header
    answer              \* what the resolver and the prepared route chose

headers == <<encHeader, encExplicit, encWildcard, imgHeader, imgExplicit, imgWildcard>>
negotiationVars == <<route, headers, catalog, request, answer>>

ImageWildcards == {"image/*", "*/*"}

AcceptEncoding == INSTANCE AcceptHeader WITH
    Tokens <- EncodingTokens, Names <- Range(Encodings),
    NameOf <- [t \in EncodingTokens \ {"*"} |-> t], Wildcards <- {"*"},
    header <- encHeader, explicit <- encExplicit, wildcard <- encWildcard
Accept == INSTANCE AcceptHeader WITH
    Tokens <- DOMAIN FormatOf \cup ImageWildcards, Names <- Range(Formats),
    NameOf <- FormatOf, Wildcards <- ImageWildcards,
    header <- imgHeader, explicit <- imgExplicit, wildcard <- imgWildcard

ASSUME HeadersAssumption == AcceptEncoding!HeaderConstants /\ Accept!HeaderConstants
ASSUME PathsAssumption ==
    RequestPaths \cup AssetPaths \subseteq Seq(STRING) /\ <<>> \notin AssetPaths

VariantKeys ==
    {<<"encoding", n>> : n \in Range(Encodings)} \cup {<<"image", k[1], k[2]>> : k \in ImageKeys}
Original == <<"identity">>

\* Lists of names, finitely many widths, and Nothing apart
ASSUME VariantsAssumption ==
    /\ Encodings \in Seq(STRING) /\ Formats \in Seq(STRING)
    /\ IsFiniteSet(ImageKeys) /\ \A k \in ImageKeys : k[2] \in Nat /\ k[1] # Nothing
    /\ Widths \subseteq Nat
    /\ Nothing \notin Range(Encodings) \cup Range(Formats)
    /\ Nothing \notin VariantKeys /\ Nothing \notin Nat

Unanswered == <<"unanswered">>
Waiting == [resolved |-> Unanswered, prepared |-> Unanswered]
NoRequest == [width |-> 0, format |-> Nothing, range |-> FALSE, read |-> FALSE]
Unrouted == [stage |-> "unrouted"]
Routed == [stage |-> "routed"]

(***************************************************************************)
(* isUsableVariant and isPreparedVariantUsable: made from the source the   *)
(* asset has now.                                                          *)
(***************************************************************************)
usable(key) == key \in VariantKeys /\ catalog[key] = "current"

\* The first of S in the order of before, Nothing when there is none.
First(S, before(_, _)) ==
    IF S = {} THEN Nothing ELSE CHOOSE x \in S : \A y \in S \ {x} : before(x, y)

Priority(names, n) == CHOOSE i \in DOMAIN names : names[i] = n

-----------------------------------------------------------------------------
(* The client's preferences, in order *)

encodingQuality(n) ==
    IF encExplicit[n] # AcceptEncoding!Unset THEN encExplicit[n] ELSE encWildcard["*"]

\* Mutation: the server's order counts before the client's.
compareEncodingByPriority(m, n) == Priority(Encodings, m) < Priority(Encodings, n)

compareEncodingCandidates(m, n) ==
    \/ encodingQuality(m) > encodingQuality(n)
    \/ encodingQuality(m) = encodingQuality(n) /\ Priority(Encodings, m) < Priority(Encodings, n)

encodingCandidates == {n \in Range(Encodings) : encodingQuality(n) > 0}

imagePreferenceMatch(f) ==
    IF imgExplicit[f] # Accept!Unset THEN "explicit"
    ELSE IF imgWildcard["image/*"] # Accept!Unset THEN "image/*" ELSE "*/*"

imageQualityForFormat(f) ==
    IF imagePreferenceMatch(f) = "explicit" THEN imgExplicit[f]
    ELSE imgWildcard[imagePreferenceMatch(f)]

matchRank(f) == CASE imagePreferenceMatch(f) = "explicit" -> 3
                  [] imagePreferenceMatch(f) = "image/*"  -> 2
                  [] OTHER                                -> 1

imagePriority(f) == IF f = SourceFormat THEN 0 ELSE Priority(Formats, f)

compareImageCandidates(f, g) ==
    \/ matchRank(f) > matchRank(g)
    \/ /\ matchRank(f) = matchRank(g)
       /\ \/ imageQualityForFormat(f) > imageQualityForFormat(g)
          \/ /\ imageQualityForFormat(f) = imageQualityForFormat(g)
             /\ imagePriority(f) < imagePriority(g)

(***************************************************************************)
(* PreferredImageFormats: the requested format alone, or what Accept asks  *)
(* for.  An asset that is no image has no ImageKeys, whatever is asked.    *)
(***************************************************************************)
PreferredImageFormats ==
    IF request.format # Nothing THEN {request.format}
    ELSE {f \in Range(Formats) : imageQualityForFormat(f) > 0}

\* Both choosers look for the source format when a width is all they are given.
requestedFormats ==
    IF PreferredImageFormats = {} THEN {SourceFormat} ELSE PreferredImageFormats

asksForImage == request.width > 0 \/ PreferredImageFormats # {}

usableWidths(f) == {k[2] : k \in {j \in ImageKeys : j[1] = f /\ usable(<<"image", j[1], j[2]>>)}}

-----------------------------------------------------------------------------
(* internal/resolver *)

\* The smallest variant that is wide enough, else the largest of the others.
updateWidthMatches(widths) ==
    LET above == {w \in widths : w >= request.width}
        below == widths \ above
    IN  IF above # {} THEN CHOOSE w \in above : \A v \in above : w <= v
        ELSE IF below # {} THEN CHOOSE w \in below : \A v \in below : w >= v
        ELSE Nothing

pickImageVariantForFormat(f) ==
    IF request.width = 0 THEN (IF 0 \in usableWidths(f) THEN 0 ELSE Nothing)
    ELSE updateWidthMatches(usableWidths(f))

pickImageVariant ==
    LET f == First({g \in requestedFormats : pickImageVariantForFormat(g) # Nothing},
                   compareImageCandidates)
    IN  IF f = Nothing THEN Nothing ELSE <<"image", f, pickImageVariantForFormat(f)>>

pickVariant ==
    LET n == First({m \in encodingCandidates : usable(<<"encoding", m>>)}, compareEncodingCandidates)
    IN  IF n = Nothing THEN Nothing ELSE <<"encoding", n>>

(***************************************************************************)
(* resolvePreferredVariant: an image variant, else an encoded one unless   *)
(* the request is for a range, else the asset.                             *)
(***************************************************************************)
resolvePreferredVariant ==
    IF asksForImage /\ pickImageVariant # Nothing THEN pickImageVariant
    ELSE IF ~request.range /\ pickVariant # Nothing THEN pickVariant
    ELSE Original

-----------------------------------------------------------------------------
(* internal/server/prepared_select.go, prepared_model.go *)

\* The widths in ascending order: before the i-th come i - 1 others.
sorted(widths) ==
    [i \in 1..Cardinality(widths) |->
        CHOOSE w \in widths : Cardinality({v \in widths : v < w}) = i - 1]

(***************************************************************************)
(* preparedImagePicker.closest: sort.SearchInts over the sorted widths.    *)
(***************************************************************************)
closest(widths) ==
    IF widths = <<>> THEN Nothing
    ELSE IF \E i \in DOMAIN widths : widths[i] >= request.width
         THEN widths[CHOOSE i \in DOMAIN widths :
                        /\ widths[i] >= request.width
                        /\ \A j \in 1..(i - 1) : widths[j] < request.width]
         ELSE Last(widths)

pickImageFormat(f) ==
    IF request.width \in usableWidths(f) THEN request.width
    ELSE IF request.width = 0 THEN Nothing
    ELSE closest(sorted(usableWidths(f)))

selectImageResponse ==
    LET f == First({g \in requestedFormats : pickImageFormat(g) # Nothing}, compareImageCandidates)
    IN  IF f = Nothing \/ ~asksForImage THEN Nothing ELSE <<"image", f, pickImageFormat(f)>>

\* No ';' and no '*' in the header.
simpleAcceptEncoding == \A i \in DOMAIN encHeader : encHeader[i].bare /\ encHeader[i].token # "*"

(***************************************************************************)
(* selectSimpleEncodingResponse: the first of the server's encodings that  *)
(* is named in the header and prepared.                                    *)
(***************************************************************************)
selectSimpleEncodingResponse ==
    LET named == {n \in Range(Encodings) :
                    usable(<<"encoding", n>>) /\ \E i \in DOMAIN encHeader : encHeader[i].token = n}
    IN  IF simpleAcceptEncoding
          THEN First(named, LAMBDA m, n : Priority(Encodings, m) < Priority(Encodings, n))
          ELSE Nothing

selectEncodingResponse ==
    LET simple == selectSimpleEncodingResponse IN
    IF request.range THEN Nothing
    ELSE IF simple # Nothing THEN <<"encoding", simple>>
    ELSE pickVariant

selectResponse ==
    IF selectImageResponse # Nothing THEN selectImageResponse
    ELSE IF selectEncodingResponse # Nothing THEN selectEncodingResponse
    ELSE Original

-----------------------------------------------------------------------------
NegotiationInit ==
    /\ route = Unrouted
    /\ AcceptEncoding!HeaderInit
    /\ Accept!HeaderInit
    /\ catalog = [k \in VariantKeys |-> "absent"]
    /\ request = NoRequest
    /\ answer = Waiting

\* handle: the path is cleaned once, and each way looks for it.
Route ==
    /\ route = Unrouted
    /\ \E path \in RequestPaths, assets \in SUBSET AssetPaths :
          LET c == Clean(TrimMount(Mount \o path)) IN
          route' = [stage |-> "found", path |-> path, cleaned |-> c,
                    resolved |-> findAsset(assets, c.value),
                    prepared |-> findRoute(assets, c)]
    /\ UNCHANGED <<headers, catalog, request, answer>>

\* A path that both ways find goes on to the choice of a variant.
Found ==
    /\ route.stage = "found" /\ NotFound \notin {route.resolved, route.prepared}
    /\ route' = Routed
    /\ UNCHANGED <<headers, catalog, request, answer>>

\* buildResolverRequest, and the variants that the catalog lists for the asset
BuildRequest ==
    /\ route = Routed /\ ~request.read
    /\ catalog' \in [VariantKeys -> {"absent", "current", "old"}]
    /\ request' \in [width : Widths, format : RequestFormats, range : BOOLEAN, read : {TRUE}]
    /\ UNCHANGED <<route, headers, answer>>

ReadAcceptEncoding ==
    /\ request.read /\ answer = Waiting /\ imgHeader = <<>>
    /\ \E e \in AcceptEncoding!Entries : AcceptEncoding!ReadEntry(e)
    /\ UNCHANGED <<route, imgHeader, imgExplicit, imgWildcard, catalog, request, answer>>

\* Whether an entry has parameters makes no difference here.
ReadAccept ==
    /\ request.read /\ answer = Waiting /\ Len(encHeader) + Len(imgHeader) < MaxEntries
    /\ \E e \in Accept!Entries : e.bare = (e.q = Top) /\ Accept!ReadEntry(e)
    /\ UNCHANGED <<route, encHeader, encExplicit, encWildcard, catalog, request, answer>>

Answer ==
    /\ request.read /\ answer = Waiting
    /\ answer' = [resolved |-> resolvePreferredVariant, prepared |-> selectResponse]
    /\ UNCHANGED <<route, headers, catalog, request>>

NegotiationNext == Route \/ Found \/ BuildRequest \/ ReadAcceptEncoding \/ ReadAccept \/ Answer

NegotiationSpec == NegotiationInit /\ [][NegotiationNext]_negotiationVars

-----------------------------------------------------------------------------
(***************************************************************************)
(* The prepared route answers every request as the resolver would, given   *)
(* the same catalog and the same encodings: it finds the same asset, and   *)
(* chooses the same variant of it.  Two kinds of paths are set apart, as   *)
(* the resolver is given a cleaned path and cleans it again.  A path that  *)
(* is escaped twice is unescaped twice by the resolver, and once by the    *)
(* prepared route.  And a directory with a dot in its name is taken for a  *)
(* file by the resolver, which finds nothing, where the prepared route     *)
(* serves the directory's entry, or the fallback for a path that ends in a *)
(* slash.  A third case is a directory with the name of the entry or of    *)
(* the fallback target: the table of routes has an alias for it, which the *)
(* prepared route takes for the file that is missing, and the resolver     *)
(* looks for the file alone.  A missing file gets no page from either.     *)
(***************************************************************************)
EscapedTwice(value) == \E i \in DOMAIN value : value[i] \in DOMAIN Unescaped
DottedDirectory(c) ==
    /\ c.value # <<>> /\ hasExtension(c.value)
    /\ route.prepared.asset = c.value \o Entry \/ c.allows
TargetIsDirectory(c) ==
    \/ c.value = <<>> /\ route.prepared = hit(Entry \o Entry)
    \/ c.allows /\ route.prepared = [asset |-> FallbackTarget \o Entry, fallback |-> TRUE]
PreparedAgrees ==
    /\ answer.prepared = answer.resolved
    /\ route.stage = "found" =>
         \/ route.prepared = route.resolved
         \/ EscapedTwice(route.cleaned.value)
         \/ route.resolved = NotFound /\ DottedDirectory(route.cleaned)
         \/ TargetIsDirectory(route.cleaned)

(***************************************************************************)
(* What the header as written says of a name: its best entry, else the     *)
(* last entry of the first wildcard that occurs, else nothing.             *)
(***************************************************************************)
Stated(positions, header) == {header[i].q : i \in positions}
LastPosition(positions) == CHOOSE i \in positions : \A j \in positions : j <= i
StatedEncodingQuality(n) ==
    LET naming == AcceptEncoding!Naming(n)
        any == AcceptEncoding!Saying("*")
    IN  IF naming # {} THEN CHOOSE q \in Stated(naming, encHeader) :
                              \A r \in Stated(naming, encHeader) : r <= q
        ELSE IF any # {} THEN encHeader[LastPosition(any)].q
        ELSE 0

(***************************************************************************)
(* An encoded answer is one the client accepts, made from the current      *)
(* source, and no other such encoding is stated to be better.  A client    *)
(* that accepts an encoding the server has, and asks for no range, is not  *)
(* sent the plain asset.                                                   *)
(***************************************************************************)
AcceptedEncodings ==
    {n \in Range(Encodings) : catalog[<<"encoding", n>>] = "current" /\ StatedEncodingQuality(n) > 0}
BestAcceptedEncoding(served) ==
    /\ served[1] = "encoding" =>
         /\ served[2] \in AcceptedEncodings
         /\ \A n \in AcceptedEncodings :
               StatedEncodingQuality(n) <= StatedEncodingQuality(served[2])
    /\ served = Original => AcceptedEncodings = {} \/ request.range

(***************************************************************************)
(* An image answer is current, in the requested format if there is one,    *)
(* else in one the client does not refuse by name (unless it refuses all   *)
(* formats: a width alone is served in the source format).  For a given    *)
(* width it is narrower only if its format has no wide enough variant, and *)
(* no variant of the format comes closer on the same side.                 *)
(***************************************************************************)
FittingImage(served) ==
    served[1] = "image" =>
        LET f == served[2]
            w == served[3]
            others == {k[2] : k \in {j \in ImageKeys :
                         j[1] = f /\ catalog[<<"image", j[1], j[2]>>] = "current"}}
            named == Stated(Accept!Naming(f), imgHeader)
        IN  /\ catalog[served] = "current"
            /\ request.format # Nothing => f = request.format
            /\ request.format = Nothing /\ named # {} /\ PreferredImageFormats # {}
                 => \E q \in named : q > 0
            /\ request.width = 0 => w = 0
            /\ request.width > 0 /\ w < request.width => \A v \in others : v <= w
            /\ request.width > 0 /\ w >= request.width
                 => ~ \E v \in others : request.width <= v /\ v < w

(***************************************************************************)
(* What is served, by either way, is the best variant that the client      *)
(* accepts: an encoding as BestAcceptedEncoding has it, an image as        *)
(* FittingImage has it.                                                    *)
(***************************************************************************)
BestAcceptedVariant ==
    answer # Waiting =>
        \A served \in {answer.resolved, answer.prepared} :
            BestAcceptedEncoding(served) /\ FittingImage(served)
=============================================================================
