---------------------------- MODULE RequestPath ----------------------------
(***************************************************************************)
(* From the path of a request to an asset: requestpath.Clean with its fast *)
(* way, the candidates of the resolver, and the table of routes that the   *)
(* prepared snapshot is compiled to.                                       *)
(*                                                                         *)
(* A path is the sequence of what stands between its slashes: "/docs/" is  *)
(* <<"", "docs", "">>, "docs" is <<"docs">> and "" is <<"">>.  A cleaned   *)
(* value, and the path of an asset, has no empty segments, and <<>> is the *)
(* empty one.  Spaces and backslashes are left out, and so are escapes of  *)
(* a slash.                                                                *)
(***************************************************************************)
EXTENDS Integers, Sequences, SequencesExt

CONSTANTS
    Unescaped,          \* of each segment with an escape
    Dotted,             \* segments with a dot
    Hidden,             \* those with a dot at the start only
    Mount, Entry,       \* the mount path, and assets.entry
    FallbackTarget      \* assets.fallback.target, <<>> when there is no fallback

Blank == ""             \* what stands between two slashes in a row

ASSUME PathAssumption ==
    /\ Hidden \subseteq Dotted
    /\ Unescaped \in [DOMAIN Unescaped -> STRING] /\ Blank \notin DOMAIN Unescaped
    /\ {Mount, Entry, FallbackTarget} \subseteq Seq(STRING) /\ Entry # <<>>

plain(segments) == \A s \in segments : s \notin {Blank, ".", ".."}

\* TrimMount of a path below the mount, which the patterns of MountPatterns let in
TrimMount(requestPath) ==
    IF requestPath = Mount THEN <<Blank>> ELSE SubSeq(requestPath, Len(Mount) + 1, Len(requestPath))

decode(raw) == [i \in DOMAIN raw |-> IF raw[i] \in DOMAIN Unescaped THEN Unescaped[raw[i]] ELSE raw[i]]

\* The last dot comes after the last slash and is not the first character of all.
hasExtension(value) ==
    Last(value) \in Dotted /\ ~(Len(value) = 1 /\ Last(value) \in Hidden)

\* canonicalValue: one leading slash is allowed, and then only plain segments
canonical(raw) ==
    LET value == IF raw[1] = Blank /\ Len(raw) > 1 THEN Tail(raw) ELSE raw
    IN  [ok |-> plain(ToSet(value)), value |-> value]

\* path.Clean of a rooted path: what is left of it, segment by segment
addSegment(done, s) ==
    IF s \in {Blank, "."} THEN done
    ELSE IF s # ".." THEN Append(done, s)
    ELSE IF done = <<>> THEN <<>> ELSE Front(done)

pathClean(raw) ==
    LET cleaned[i \in 0..Len(raw)] ==
            IF i = 0 THEN <<>> ELSE addSegment(cleaned[i - 1], raw[i])
    IN  cleaned[Len(raw)]

slowClean(raw) ==
    LET value == pathClean(raw)
    IN  [value |-> value, allows |-> value = <<>> \/ Last(raw) = Blank \/ ~hasExtension(value)]

Clean(path) ==
    LET raw == decode(path)
        fast == canonical(raw)
    IN  IF fast.ok THEN [value |-> fast.value, allows |-> ~hasExtension(fast.value)]
        ELSE slowClean(raw)

-----------------------------------------------------------------------------
NotFound == [asset |-> <<>>, fallback |-> FALSE]
hit(asset) == [asset |-> asset, fallback |-> FALSE]

(* The resolver: findAsset, which is given a cleaned value and cleans it again. *)

findPrimaryAsset(assets, c) ==
    IF c.value = <<>> THEN (IF Entry \in assets THEN hit(Entry) ELSE NotFound)
    ELSE IF c.value \in assets THEN hit(c.value)
    ELSE IF c.allows /\ c.value \o Entry \in assets THEN hit(c.value \o Entry)
    ELSE NotFound

findAsset(assets, value) ==
    LET c == Clean(IF value = <<>> THEN <<Blank>> ELSE value)
        primary == findPrimaryAsset(assets, c)
    IN  IF primary # NotFound THEN primary
        ELSE IF c.allows /\ FallbackTarget \in assets
             THEN [asset |-> FallbackTarget, fallback |-> TRUE] ELSE NotFound

-----------------------------------------------------------------------------
(* The prepared snapshot: Compile, and findRoute with the cleaned path. *)

preparedEntryAlias(asset) ==
    IF IsSuffix(Entry, asset) THEN SubSeq(asset, 1, Len(asset) - Len(Entry)) ELSE <<>>

\* An asset's own path comes before an alias.
routes(assets) ==
    LET aliases == {preparedEntryAlias(a) : a \in assets} \ {<<>>}
    IN  [p \in assets \cup aliases |-> IF p \in assets THEN p ELSE p \o Entry]

findPrimaryRoute(table, c) ==
    LET p == IF c.value = <<>> THEN Entry ELSE c.value
    IN  IF p \in DOMAIN table THEN hit(table[p]) ELSE NotFound

\* Mutation: a missing file falls back as well.
findRouteAnyway(assets, c) ==
    LET primary == findPrimaryRoute(routes(assets), c)
    IN  IF primary = NotFound /\ FallbackTarget \in assets
        THEN [asset |-> FallbackTarget, fallback |-> TRUE] ELSE primary

findRoute(assets, c) ==
    LET table == routes(assets)
        primary == findPrimaryRoute(table, c)
    IN  IF primary # NotFound THEN primary
        ELSE IF c.allows /\ FallbackTarget \in DOMAIN table
             THEN [asset |-> table[FallbackTarget], fallback |-> TRUE] ELSE NotFound
=============================================================================
