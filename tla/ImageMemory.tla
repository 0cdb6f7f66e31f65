----------------------------- MODULE ImageMemory -----------------------------
(***************************************************************************)
(* Limits on source images and the estimate of the memory a batch takes,   *)
(* of image_engine_support.go and the configuration of the image stage.    *)
(* A limit of 0 is no limit.  Arithmetic that does not fit an int64 is     *)
(* recognised before it wraps; MaxInt stands for its largest value.        *)
(***************************************************************************)
EXTENDS Integers, FiniteSetsExt

CONSTANTS
    MaxInt,             \* maxImageInt64
    MaxSourceBytes, MaxWidth, MaxHeight, MaxSourcePixels, MaxMemoryBytes

ASSUME ImageLimits ==
    /\ MaxInt \in Nat \ {0}
    /\ {MaxSourceBytes, MaxWidth, MaxHeight, MaxSourcePixels, MaxMemoryBytes} \subseteq Nat
    /\ MaxMemoryBytes < MaxInt     \* MaxInt itself limits nothing

exceeds(n, limit) == limit > 0 /\ n > limit

\* checkedImageMul: the product of naturals is one that an int64 holds
fits(left, right) == right = 0 \/ left <= MaxInt \div right

imageSourceBytesFit(size) == size > 0 /\ ~exceeds(size, MaxSourceBytes)

imagePixelLimitsHold(w, h) ==
    /\ fits(w, h) /\ ~exceeds(w * h, MaxSourcePixels)
    /\ fits(w * h, 4) /\ ~exceeds(4 * w * h, MaxMemoryBytes)

validateImageSourceLimits(w, h) ==
    /\ w > 0 /\ h > 0
    /\ ~exceeds(w, MaxWidth) /\ ~exceeds(h, MaxHeight)
    /\ imagePixelLimitsHold(w, h)

imageRawMemoryBytes(w, h) == IF fits(w, h) /\ fits(w * h, 4) THEN 4 * w * h ELSE MaxInt

saturatingImageAdd(left, right) == IF left > MaxInt - right THEN MaxInt ELSE left + right

scaledImageHeight(h, width, w) == IF fits(h, width) THEN Max({1, (h * width) \div w}) ELSE h

normalizedImageOutputWidth(w, target) == IF target <= 0 \/ target >= w THEN w ELSE target

uniqueImageOutputWidths(w, targets) == {normalizedImageOutputWidth(w, t) : t \in targets}

\* Mutant: only the source is counted.
estimateOfSource(w, h, targets) == imageRawMemoryBytes(w, h)

\* the source and one picture for each smaller width
estimateImageBatchMemoryBytes(w, h, targets) ==
    FoldSet(LAMBDA width, total :
                saturatingImageAdd(total, imageRawMemoryBytes(width, scaledImageHeight(h, width, w))),
            imageRawMemoryBytes(w, h),
            uniqueImageOutputWidths(w, targets) \ {w})

-----------------------------------------------------------------------------
(* What a batch really takes, in unbounded numbers. *)

PictureBytes(w, h, targets) ==
    4 * w * h +
        MapThenSumSet(LAMBDA t : 4 * t * Max({1, (h * t) \div w}), {t \in targets : 0 < t /\ t < w})

=============================================================================
