---------------------------- MODULE AcceptHeader ----------------------------
(***************************************************************************)
(* One Accept or Accept-Encoding header, read entry by entry as            *)
(* ForEachAcceptEntry does: what the client says of each name the server   *)
(* knows, and of the wildcards.  Accept-Encoding has one wildcard, Accept  *)
(* has two, and two of its tokens may name the same format.                *)
(*                                                                         *)
(* A quality is an integer between 0 and Top, which stands for 1.0; what   *)
(* the header says is clamped to that range.  Unset is no quality.         *)
(***************************************************************************)
EXTENDS Integers, Sequences

CONSTANTS
    Tokens,         \* what an entry may name, wildcards and unknown names included
    Names,          \* encodings or formats whose qualities are kept
    NameOf,         \* the name of a token; what is not in Names is ignored
    Wildcards,      \* tokens that stand for any name
    Top,            \* the quality 1.0
    MaxEntries      \* bound: entries of a header

VARIABLES
    header,         \* the entries read so far
    explicit,       \* the quality kept for each name
    wildcard        \* the quality kept for each wildcard

headerVars == <<header, explicit, wildcard>>

Unset == -1
Qualities == 0..Top

\* What the module takes for granted of its constants.
HeaderConstants ==
    /\ NameOf \in [Tokens \ Wildcards -> STRING]
    /\ Wildcards \subseteq Tokens
    /\ Top \in Nat \ {0} /\ MaxEntries \in Nat

(***************************************************************************)
(* An entry.  bare: it has no parameters, and then its quality is 1.0.     *)
(***************************************************************************)
Entries == {e \in [token : Tokens, q : Qualities, bare : BOOLEAN] : e.bare => e.q = Top}

HeaderInit ==
    /\ header = <<>>
    /\ explicit = [n \in Names |-> Unset]
    /\ wildcard = [w \in Wildcards |-> Unset]

ShouldReplaceQuality(current, hasCurrent, next) == ~hasCurrent \/ next > current

(***************************************************************************)
(* applyEncodingPreference and applyImagePreference: of a name the best    *)
(* quality counts, of a wildcard the last one.                             *)
(***************************************************************************)
ApplyWildcard(e) ==
    /\ e.token \in Wildcards
    /\ wildcard' = [wildcard EXCEPT ![e.token] = e.q]
    /\ UNCHANGED explicit

ApplyName(e) ==
    LET name == NameOf[e.token] IN
    /\ e.token \notin Wildcards
    /\ explicit' =
         IF name \in Names /\ ShouldReplaceQuality(explicit[name], explicit[name] # Unset, e.q)
         THEN [explicit EXCEPT ![name] = e.q]
         ELSE explicit
    /\ UNCHANGED wildcard

ReadEntry(e) ==
    /\ Len(header) < MaxEntries
    /\ header' = Append(header, e)
    /\ ApplyWildcard(e) \/ ApplyName(e)

HeaderNext == \E e \in Entries : ReadEntry(e)

HeaderSpec == HeaderInit /\ [][HeaderNext]_headerVars

-----------------------------------------------------------------------------
HeaderTypeOK ==
    /\ header \in Seq(Entries)
    /\ explicit \in [Names -> Qualities \cup {Unset}]
    /\ wildcard \in [Wildcards -> Qualities \cup {Unset}]

(***************************************************************************)
(* What the header itself says, by position.                               *)
(***************************************************************************)
Naming(n) == {i \in DOMAIN header : header[i].token \notin Wildcards /\ NameOf[header[i].token] = n}
Saying(w) == {i \in DOMAIN header : header[i].token = w}

(***************************************************************************)
(* The qualities kept are those the header states: the best one for a name *)
(* that occurs, under any of its tokens, and the last one for a wildcard.  *)
(***************************************************************************)
BestOfName ==
    \A n \in Names :
        \/ explicit[n] = Unset /\ Naming(n) = {}
        \/ \E i \in Naming(n) :
              /\ explicit[n] = header[i].q
              /\ \A j \in Naming(n) : header[j].q <= header[i].q
LastOfWildcard ==
    \A w \in Wildcards :
        \/ wildcard[w] = Unset /\ Saying(w) = {}
        \/ \E i \in Saying(w) :
              /\ wildcard[w] = header[i].q
              /\ \A j \in Saying(w) : j <= i
QualitiesAreStated == BestOfName /\ LastOfWildcard
=============================================================================
