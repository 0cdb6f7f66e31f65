---------------------------- MODULE MemoryPolicy ----------------------------
(***************************************************************************)
(* internal/cachepolicy/memory.go: which bodies the memory cache may hold, *)
(* which ones are loaded ahead of requests, and for how many seconds.      *)
(***************************************************************************)
EXTENDS Integers, FiniteSetsExt

CONSTANTS
    maxFileSize,
    baseTTL     \* of MemoryCache.ParsedTTL, in seconds

ASSUME PolicyAssumption == maxFileSize \in Nat \ {0} /\ baseTTL \in Nat \ {0}

Minute == 60

clampTTL(value, minTTL, maxTTL) ==
    IF value <= 0 \/ value < minTTL THEN minTTL
    ELSE IF maxTTL > 0 /\ value > maxTTL THEN maxTTL ELSE value

priorityTTL == clampTTL(baseTTL * 2, baseTTL, 30 * Minute)
variantTTL == clampTTL((baseTTL * 3) \div 2, baseTTL, 20 * Minute)
genericTTL == clampTTL(baseTTL \div 2, Minute, baseTTL)

smallFileSize ==
    LET candidate == Max({1, maxFileSize \div 4})
    IN  IF candidate < 1024 THEN 1024 ELSE Min({candidate, maxFileSize})
largeFileSize == Min({Max({1, maxFileSize - maxFileSize \div 4}), maxFileSize})

\* newMemoryTextTTLScheme: of overlapping bands the one put last counts.
textTTL(size) ==
    LET scaled(perMille) == (baseTTL * perMille) \div 1000 IN
    CASE size \in largeFileSize..maxFileSize -> scaled(500)
      [] size \in 1..Min({smallFileSize, maxFileSize}) /\ size < largeFileSize -> scaled(1250)
      [] OTHER -> baseTTL

\* A body has a class: of a priority path, a variant, or text or binary.
Classes == {"priority", "variant", "text", "binary"}

ShouldServe(size) == size >= 0 /\ size <= maxFileSize

ShouldWarm(class, size, useCase) ==
    /\ ShouldServe(size)
    /\ \/ class = "priority"
       \/ class = "variant" /\ (useCase = "event" \/ size <= largeFileSize)
       \/ class = "text" /\ useCase # "event" /\ (size <= smallFileSize \/ size <= 0)

\* Mutation: text has no expiry of its own.
TTLOfBands(class, size) ==
    CASE ~ShouldServe(size)  -> 0
      [] class = "priority" -> priorityTTL
      [] class = "variant"  -> variantTTL
      [] class = "binary"   -> genericTTL
      [] OTHER              -> 0

TTL(class, size) ==
    CASE ~ShouldServe(size)  -> 0
      [] class = "priority" -> priorityTTL
      [] class = "variant"  -> variantTTL
      [] class = "text"     -> textTTL(size)
      [] OTHER              -> genericTTL
=============================================================================
