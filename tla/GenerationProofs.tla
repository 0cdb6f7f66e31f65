-------------------------- MODULE GenerationProofs --------------------------
(***************************************************************************)
(* Theorems about Generation and their proofs, for any assets, pictures,   *)
(* limits and workers, and any number of edits and requests.               *)
(***************************************************************************)
EXTENDS Generation, Sums

-----------------------------------------------------------------------------
(* Estimates of memory *)

(***************************************************************************)
(* What the engine estimates for the picture at width t, and what it is in *)
(* numbers without a width.                                                *)
(***************************************************************************)
Raw(w, h, S) == [t \in S |-> imageRawMemoryBytes(t, scaledImageHeight(h, t, w))]
Exact(w, h, S) == [t \in S |-> 4 * t * Max({1, (h * t) \div w})]
Narrower(w, widths) == {t \in widths : 0 < t /\ t < w}

\* A number as the engine keeps it: at most MaxInt.
capped(n) == IF n > MaxInt THEN MaxInt ELSE n

(***************************************************************************)
(* g adds up the estimates as the fold in estimateImageBatchMemoryBytes    *)
(* does.                                                                   *)
(***************************************************************************)
Saturates(g, w, h, S) ==
    g = [s \in SUBSET S |->
          IF s = {} THEN imageRawMemoryBytes(w, h)
          ELSE saturatingImageAdd(g[s \ {pick(s)}],
                   imageRawMemoryBytes(pick(s), scaledImageHeight(h, pick(s), w)))]

LEMMA MaxOfTwo ==
    ASSUME NEW n \in Nat
    PROVE  Max({1, n}) \in Nat /\ Max({1, n}) >= 1
<1>1. \E x \in {1, n} : \A y \in {1, n} : x >= y
  <2>1. CASE n >= 1
    BY <2>1
  <2>2. CASE n < 1
    BY <2>2
  <2> QED BY <2>1, <2>2
<1>2. Max({1, n}) \in {1, n} /\ \A y \in {1, n} : Max({1, n}) >= y
  BY <1>1 DEF Max
<1> QED BY <1>2

LEMMA RawBounds ==
    ASSUME NEW w \in Nat, NEW h \in Nat
    PROVE  imageRawMemoryBytes(w, h) \in Nat /\ imageRawMemoryBytes(w, h) <= MaxInt
<1> USE ImageLimits
<1>1. CASE fits(w, h) /\ fits(w * h, 4)
  <2>1. w * h \in Nat /\ w * h <= MaxInt \div 4
    BY <1>1 DEF fits
  <2>2. 4 * (w * h) <= MaxInt /\ 4 * w * h = 4 * (w * h)
    BY <2>1
  <2> QED BY <1>1, <2>1, <2>2 DEF imageRawMemoryBytes
<1>2. CASE ~(fits(w, h) /\ fits(w * h, 4))
  BY <1>2 DEF imageRawMemoryBytes
<1> QED BY <1>1, <1>2

LEMMA ScaledHeight ==
    ASSUME NEW w \in Nat \ {0}, NEW h \in Nat, NEW t \in Nat
    PROVE  /\ scaledImageHeight(h, t, w) \in Nat
           /\ (h * t) \div w \in Nat
<1>1. (h * t) \div w \in Nat
  OBVIOUS
<1> QED BY <1>1, MaxOfTwo DEF scaledImageHeight

LEMMA WeightsAreNaturals ==
    ASSUME NEW w \in Nat \ {0}, NEW h \in Nat, NEW S \in SUBSET Nat
    PROVE  /\ \A t \in S : Raw(w, h, S)[t] \in Nat /\ Raw(w, h, S)[t] <= MaxInt
           /\ \A t \in S : Exact(w, h, S)[t] \in Nat
<1>1. ASSUME NEW t \in S PROVE Raw(w, h, S)[t] \in Nat /\ Raw(w, h, S)[t] <= MaxInt
  BY RawBounds, ScaledHeight DEF Raw
<1>2. ASSUME NEW t \in S PROVE Exact(w, h, S)[t] \in Nat
  <2>1. Max({1, (h * t) \div w}) \in Nat
    BY ScaledHeight, MaxOfTwo
  <2> QED BY <2>1 DEF Exact
<1> QED BY <1>1, <1>2

\* Adding with saturation is adding and then capping.
LEMMA CappedAdds ==
    ASSUME NEW a \in Nat, NEW b \in Nat
    PROVE  saturatingImageAdd(capped(a), b) = capped(a + b)
<1>1. MaxInt \in Nat
  BY ImageLimits
<1>2. CASE a > MaxInt
  <2>1. capped(a) = MaxInt /\ capped(a + b) = MaxInt
    BY <1>1, <1>2 DEF capped
  <2>2. saturatingImageAdd(MaxInt, b) = MaxInt
    BY <1>1 DEF saturatingImageAdd
  <2> QED BY <2>1, <2>2
<1>3. CASE a <= MaxInt
  BY <1>1, <1>3 DEF saturatingImageAdd, capped
<1> QED BY <1>1, <1>2, <1>3

LEMMA SaturatedStep ==
    ASSUME NEW w \in Nat \ {0}, NEW h \in Nat, NEW S \in SUBSET Nat, IsFiniteSet(S),
           NEW s \in SUBSET S, s # {}
    PROVE  capped(imageRawMemoryBytes(w, h) + SumOf(Raw(w, h, S), s)) =
             saturatingImageAdd(
                 capped(imageRawMemoryBytes(w, h) + SumOf(Raw(w, h, S), s \ {pick(s)})),
                 imageRawMemoryBytes(pick(s), scaledImageHeight(h, pick(s), w)))
<1> DEFINE f == Raw(w, h, S)
           x == pick(s)
           base == imageRawMemoryBytes(w, h)
<1>1. x \in s /\ x \in S
  BY DEF pick
<1>2. f[x] = imageRawMemoryBytes(x, scaledImageHeight(h, x, w)) /\ f[x] \in Nat
  BY <1>1, WeightsAreNaturals DEF Raw
<1>3. SumOf(f, s) = f[x] + SumOf(f, s \ {x}) /\ SumOf(f, s \ {x}) \in Nat
  <2>1. IsFiniteSet(s) /\ \A t \in s : f[t] \in Nat
    BY FS_Subset, WeightsAreNaturals
  <2> HIDE DEF f, x
  <2> QED BY <1>1, <2>1, SumRemove
<1>4. base \in Nat
  BY RawBounds
<1> HIDE DEF f, x, base
<1>5. saturatingImageAdd(capped(base + SumOf(f, s \ {x})), f[x]) = capped(base + SumOf(f,
          s \ {x}) + f[x])
  <2>1. base + SumOf(f, s \ {x}) \in Nat
    BY <1>3, <1>4
  <2> QED BY <1>2, <2>1, CappedAdds
<1>6. base + SumOf(f, s \ {x}) + f[x] = base + SumOf(f, s)
  BY <1>2, <1>3, <1>4
<1>7. capped(base + SumOf(f, s)) = saturatingImageAdd(capped(base + SumOf(f, s \ {x})), f[x])
  BY <1>5, <1>6
<1> QED BY <1>2, <1>7 DEF f, x, base

\* The saturating sum is the capped sum, in whatever order it is taken.
LEMMA SaturatedSum ==
    ASSUME NEW w \in Nat \ {0}, NEW h \in Nat, NEW S \in SUBSET Nat, IsFiniteSet(S),
           NEW g, Saturates(g, w, h, S)
    PROVE  g[S] = capped(imageRawMemoryBytes(w, h) + SumOf(Raw(w, h, S), S))
<1> DEFINE total(s) == capped(imageRawMemoryBytes(w, h) + SumOf(Raw(w, h, S), s))
           bad == {s \in SUBSET S : g[s] # total(s)}
<1> SUFFICES ASSUME bad # {} PROVE FALSE
  OBVIOUS
<1>1. bad \subseteq FiniteSubsetsOf(S)
  BY FS_Subset DEF FiniteSubsetsOf
<1>2. PICK s \in bad : \A t \in bad : <<t, s>> \notin StrictSubsetOrdering(S)
  <2> HIDE DEF bad
  <2>1. IsWellFoundedOn(StrictSubsetOrdering(S), FiniteSubsetsOf(S))
    BY FS_StrictSubsetOrderingWellFounded
  <2> QED BY <1>1, <2>1, WFMin
<1>3. \A t \in SUBSET s : t # s => t \notin bad
  BY <1>2 DEF StrictSubsetOrdering
<1>4. s # {}
  <2>1. g[{}] = imageRawMemoryBytes(w, h)
    BY DEF Saturates
  <2>2. total({}) = imageRawMemoryBytes(w, h)
    BY SumEmpty, RawBounds, ImageLimits DEF capped
  <2> QED BY <2>1, <2>2
<1>5. pick(s) \in s
  BY <1>4 DEF pick
<1>6. g[s] = saturatingImageAdd(g[s \ {pick(s)}],
                 imageRawMemoryBytes(pick(s), scaledImageHeight(h, pick(s), w)))
  BY <1>4 DEF Saturates
<1>7. g[s \ {pick(s)}] = total(s \ {pick(s)})
  BY <1>3, <1>5
<1>8. total(s) = saturatingImageAdd(total(s \ {pick(s)}),
                 imageRawMemoryBytes(pick(s), scaledImageHeight(h, pick(s), w)))
  BY <1>4, SaturatedStep
<1> QED BY <1>6, <1>7, <1>8

LEMMA SaturationExists ==
    ASSUME NEW w \in Nat \ {0}, NEW h \in Nat, NEW S \in SUBSET Nat, IsFiniteSet(S)
    PROVE  \E g : Saturates(g, w, h, S)
<1> DEFINE total(s) == capped(imageRawMemoryBytes(w, h) + SumOf(Raw(w, h, S), s))
           g == [s \in SUBSET S |-> total(s)]
<1>1. ASSUME NEW s \in SUBSET S
      PROVE  total(s) = IF s = {} THEN imageRawMemoryBytes(w, h)
                        ELSE saturatingImageAdd(g[s \ {pick(s)}],
                               imageRawMemoryBytes(pick(s), scaledImageHeight(h, pick(s), w)))
  <2>1. CASE s = {}
    BY <2>1, SumEmpty, RawBounds, ImageLimits DEF capped
  <2>2. CASE s # {}
    <3>1. g[s \ {pick(s)}] = total(s \ {pick(s)})
      OBVIOUS
    <3>2. total(s) = saturatingImageAdd(total(s \ {pick(s)}),
                 imageRawMemoryBytes(pick(s), scaledImageHeight(h, pick(s), w)))
      BY <2>2, SaturatedStep
    <3> QED BY <2>2, <3>1, <3>2
  <2> QED BY <2>1, <2>2
<1>2. g = [s \in SUBSET S |-> total(s)]
  OBVIOUS
<1>3. Saturates(g, w, h, S)
  <2> HIDE DEF g, total
  <2> QED BY <1>1, <1>2 DEF Saturates
<1> QED BY <1>3

LEMMA NarrowerIsFinite ==
    ASSUME NEW w \in Nat, NEW widths \in SUBSET Int, IsFiniteSet(widths)
    PROVE  Narrower(w, widths) \in SUBSET Nat /\ IsFiniteSet(Narrower(w, widths))
<1>1. \A t \in Int : 0 < t => t \in Nat
  OBVIOUS
<1>2. \A t \in Narrower(w, widths) : t \in widths /\ 0 < t
  BY Zenon DEF Narrower
<1>3. Narrower(w, widths) \in SUBSET Nat
  BY <1>1, <1>2, Zenon
<1>4. Narrower(w, widths) \in SUBSET widths
  BY <1>2, Zenon
<1> QED BY <1>3, <1>4, FS_Subset

\* What estimateImageBatchMemoryBytes returns is the capped sum.
LEMMA EstimateIsCapped ==
    ASSUME NEW w \in Nat \ {0}, NEW h \in Nat, NEW widths \in SUBSET Int, IsFiniteSet(widths)
    PROVE  LET S == Narrower(w, widths) IN
           /\ S \in SUBSET Nat /\ IsFiniteSet(S)
           /\ estimateImageBatchMemoryBytes(w, h, widths) =
                capped(imageRawMemoryBytes(w, h) + SumOf(Raw(w, h, S), S))
<1> DEFINE S == Narrower(w, widths)
<1>1. S \in SUBSET Nat /\ IsFiniteSet(S)
  BY NarrowerIsFinite
<1>2. uniqueImageOutputWidths(w, widths) \ {w} = S
  <2>1. \A t \in widths :
           /\ 0 < t /\ t < w => normalizedImageOutputWidth(w, t) = t /\ t # w
           /\ ~(0 < t /\ t < w) => normalizedImageOutputWidth(w, t) = w
    BY DEF normalizedImageOutputWidth
  <2> QED BY <2>1, Zenon DEF uniqueImageOutputWidths, Narrower
<1> HIDE DEF S
<1>4. estimateImageBatchMemoryBytes(w, h, widths) = (CHOOSE g : Saturates(g, w, h, S))[S]
  BY <1>2 DEF estimateImageBatchMemoryBytes, FoldSet, MapThenFoldSet, Saturates, pick
<1>5. Saturates(CHOOSE g : Saturates(g, w, h, S), w, h, S)
  BY <1>1, SaturationExists
<1>6. estimateImageBatchMemoryBytes(w, h, widths) =
                capped(imageRawMemoryBytes(w, h) + SumOf(Raw(w, h, S), S))
  BY <1>1, <1>4, <1>5, SaturatedSum
<1> QED BY <1>1, <1>6 DEF S

LEMMA EstimateType ==
    ASSUME NEW w \in Nat \ {0}, NEW h \in Nat, NEW widths \in SUBSET Int, IsFiniteSet(widths)
    PROVE  estimateImageBatchMemoryBytes(w, h, widths) \in Nat
<1> DEFINE S == Narrower(w, widths)
<1>1. /\ S \in SUBSET Nat /\ IsFiniteSet(S)
      /\ estimateImageBatchMemoryBytes(w, h, widths) =
           capped(imageRawMemoryBytes(w, h) + SumOf(Raw(w, h, S), S))
  BY EstimateIsCapped
<1> HIDE DEF S
<1>2. SumOf(Raw(w, h, S), S) \in Nat
  BY <1>1, WeightsAreNaturals, SumIsCardinality
<1>3. imageRawMemoryBytes(w, h) \in Nat
  BY RawBounds
<1> QED BY <1>1, <1>2, <1>3, ImageLimits DEF capped

(***************************************************************************)
(* The height for a narrower width does not overflow where the picture     *)
(* passed the limits.                                                      *)
(***************************************************************************)
LEMMA ProductFits ==
    ASSUME NEW w \in Nat \ {0}, NEW h \in Nat, fits(w, h), NEW t \in Nat, t < w
    PROVE  fits(h, t)
<1>1. CASE t = 0 \/ h = 0
  BY <1>1, ImageLimits DEF fits
<1>2. CASE t # 0 /\ h # 0
  <2>1. MaxInt \in Nat /\ w <= MaxInt \div h
    BY <1>2, ImageLimits DEF fits
  <2>2. w * h <= MaxInt
    BY <1>2, <2>1
  <2>3. t * h <= w * h
    BY <1>2
  <2>4. t * h <= MaxInt
    BY <1>2, <2>1, <2>2, <2>3
  <2>5. h <= MaxInt \div t
    BY <1>2, <2>1, <2>4
  <2> QED BY <2>5 DEF fits
<1> QED BY <1>1, <1>2

LEMMA RawIsExact ==
    ASSUME NEW w \in Nat \ {0}, NEW h \in Nat, fits(w, h), NEW S \in SUBSET Nat,
           NEW t \in S, t < w, Raw(w, h, S)[t] # MaxInt
    PROVE  Raw(w, h, S)[t] = Exact(w, h, S)[t]
<1>1. scaledImageHeight(h, t, w) = Max({1, (h * t) \div w})
  BY ProductFits DEF scaledImageHeight
<1>2. Raw(w, h, S)[t] = imageRawMemoryBytes(t, Max({1, (h * t) \div w}))
  BY <1>1 DEF Raw
<1>3. Exact(w, h, S)[t] = 4 * t * Max({1, (h * t) \div w})
  BY DEF Exact
<1> QED BY <1>2, <1>3 DEF imageRawMemoryBytes

LEMMA SumBound ==
    ASSUME NEW S, IsFiniteSet(S), NEW f, \A x \in S : f[x] \in Nat, NEW x \in S
    PROVE  f[x] <= SumOf(f, S)
<1>1. SumOf(f, S) = f[x] + SumOf(f, S \ {x}) /\ SumOf(f, S \ {x}) \in Nat
  BY SumRemove
<1>2. f[x] \in Nat
  OBVIOUS
<1> QED BY <1>1, <1>2

\* PictureBytes is a sum too ...
LEMMA PictureBytesIsSum ==
    ASSUME NEW w \in Nat \ {0}, NEW h \in Nat, NEW widths \in SUBSET Int, IsFiniteSet(widths)
    PROVE  LET S == Narrower(w, widths) IN
           PictureBytes(w, h, widths) = 4 * w * h + SumOf(Exact(w, h, S), S)
<1> DEFINE S == Narrower(w, widths)
           f == Exact(w, h, S)
           rec(g) == g = [s \in SUBSET S |-> IF s = {} THEN 0
                            ELSE 4 * pick(s) * Max({1, (h * pick(s)) \div w}) + g[s \ {pick(s)}]]
<1>1. S \in SUBSET Nat /\ IsFiniteSet(S)
  BY NarrowerIsFinite
<1>2. \A s \in SUBSET S : s # {} => f[pick(s)] = 4 * pick(s) * Max({1, (h * pick(s)) \div w})
  BY DEF pick, Exact
<1>3. {t \in widths : 0 < t /\ t < w} = S
  BY DEF Narrower
<1>4. PictureBytes(w, h, widths) = 4 * w * h + (CHOOSE g : rec(g))[S]
  <2> HIDE DEF S
  <2> QED BY <1>3 DEF PictureBytes, MapThenSumSet, MapThenFoldSet, pick
<1>5. \A g : rec(g) <=> Adds(g, f, S)
  <2> HIDE DEF S, f
  <2> QED BY <1>2 DEF Adds
<1>6. \A x \in S : f[x] \in Nat
  BY <1>1, WeightsAreNaturals
<1> HIDE DEF S, f, rec
<1>7. \E g : rec(g)
  BY <1>1, <1>5, <1>6, UnitsAdds
<1>8. rec(CHOOSE g : rec(g))
  BY <1>7
<1>9. (CHOOSE g : rec(g))[S] = SumOf(f, S)
  BY <1>1, <1>5, <1>6, <1>8, AddsSum
<1> QED BY <1>4, <1>9 DEF S, f

(***************************************************************************)
(* ... and the two agree: for a picture that validateImageSourceLimits     *)
(* admits, an estimate below MaxInt is exact.                              *)
(***************************************************************************)
LEMMA EstimateIsExact ==
    ASSUME NEW w \in Nat \ {0}, NEW h \in Nat, NEW widths \in SUBSET Int, IsFiniteSet(widths),
           fits(w, h), fits(w * h, 4),
           estimateImageBatchMemoryBytes(w, h, widths) < MaxInt
    PROVE  PictureBytes(w, h, widths) = estimateImageBatchMemoryBytes(w, h, widths)
<1> DEFINE S == Narrower(w, widths)
           f == Raw(w, h, S)
           e == Exact(w, h, S)
<1>1. /\ S \in SUBSET Nat /\ IsFiniteSet(S)
      /\ estimateImageBatchMemoryBytes(w, h, widths) = capped(imageRawMemoryBytes(w,
             h) + SumOf(f, S))
  BY EstimateIsCapped
<1>2. imageRawMemoryBytes(w, h) = 4 * w * h /\ imageRawMemoryBytes(w, h) \in Nat
  BY RawBounds DEF imageRawMemoryBytes
<1>3. (\A t \in S : f[t] \in Nat) /\ (\A t \in S : e[t] \in Nat)
  BY <1>1, WeightsAreNaturals
<1>4. SumOf(f, S) \in Nat
  <2> HIDE DEF f, S
  <2> QED BY <1>1, <1>3, SumIsCardinality
<1>5. /\ estimateImageBatchMemoryBytes(w, h, widths) = 4 * w * h + SumOf(f, S)
      /\ SumOf(f, S) < MaxInt
  <2> HIDE DEF f, S
  <2> QED BY <1>1, <1>2, <1>4, ImageLimits DEF capped
<1>6. ASSUME NEW t \in S PROVE f[t] = e[t]
  <2>1. f[t] <= SumOf(f, S)
    <3> HIDE DEF f, S
    <3> QED BY <1>1, <1>3, SumBound
  <2>2. f[t] # MaxInt
    <3> HIDE DEF f, S
    <3> QED BY <1>3, <1>4, <1>5, <2>1, ImageLimits
  <2>3. t < w
    BY DEF Narrower
  <2> QED BY <1>1, <2>2, <2>3, RawIsExact
<1>7. SumOf(f, S) = SumOf(e, S)
  <2> HIDE DEF f, S, e
  <2> QED BY <1>1, <1>3, <1>6, SumAgree
<1>8. PictureBytes(w, h, widths) = 4 * w * h + SumOf(e, S)
  BY PictureBytesIsSum
<1> QED BY <1>5, <1>7, <1>8

-----------------------------------------------------------------------------
(* Sequences that the plans are made of *)

\* What the recursive function in keep is.
Keeps(g, s, S, n) ==
    g = [i \in 0 .. n |->
          IF i = 0 THEN <<>> ELSE IF s[i] \in S THEN Append(g[i - 1], s[i]) ELSE g[i - 1]]

LEMMA KeepsExists ==
    ASSUME NEW s, NEW S, NEW k \in Nat
    PROVE  \E g : Keeps(g, s, S, k)
<1> DEFINE bad == {n \in Nat : ~\E g : Keeps(g, s, S, n)}
<1> SUFFICES ASSUME bad # {} PROVE FALSE
  OBVIOUS
<1>1. PICK n \in bad : \A m \in bad : n <= m
  <2>1. bad \in SUBSET Nat
    OBVIOUS
  <2> HIDE DEF bad
  <2> QED BY <2>1, LeastNatural
<1>2. n # 0
  <2> DEFINE g == [i \in 0 .. 0 |-> <<>>]
  <2>1. Keeps(g, s, S, 0)
    BY DEF Keeps
  <2> QED BY <2>1
<1>3. n - 1 \in Nat /\ n - 1 \notin bad
  BY <1>1, <1>2
<1>4. PICK h : Keeps(h, s, S, n - 1)
  BY <1>3
<1> DEFINE g == [i \in 0 .. n |-> IF i = n THEN IF s[n] \in S THEN Append(h[n - 1],
        s[n]) ELSE h[n - 1]
                                  ELSE h[i]]
<1>5. \A i \in 0 .. n : g[i] = IF i = 0 THEN <<>> ELSE IF s[i] \in S THEN Append(g[i - 1],
          s[i]) ELSE g[i - 1]
  <2> SUFFICES ASSUME NEW i \in 0 .. n
               PROVE  g[i] = IF i = 0 THEN <<>> ELSE IF s[i] \in S THEN Append(g[i - 1],
                   s[i]) ELSE g[i - 1]
    OBVIOUS
  <2>1. CASE i = n
    <3>1. g[n - 1] = h[n - 1]
      BY <1>2, <1>3
    <3> QED BY <1>2, <2>1, <3>1
  <2>2. CASE i # n
    <3>1. i \in 0 .. (n - 1)
      BY <2>2
    <3>2. h[i] = IF i = 0 THEN <<>> ELSE IF s[i] \in S THEN Append(h[i - 1], s[i]) ELSE h[i - 1]
      BY <1>4, <3>1 DEF Keeps
    <3>3. i # 0 => i - 1 \in 0 .. n /\ i - 1 # n
      BY <3>1
    <3> QED BY <2>2, <3>2, <3>3
  <2> QED BY <2>1, <2>2
<1>6. Keeps(g, s, S, n)
  <2>1. g = [i \in 0 .. n |-> g[i]]
    OBVIOUS
  <2> HIDE DEF g
  <2> QED BY <1>5, <2>1 DEF Keeps
<1> QED BY <1>1, <1>6

LEMMA KeepsType ==
    ASSUME NEW T, NEW s \in Seq(T), NEW S, NEW g, Keeps(g, s, S, Len(s))
    PROVE  g[Len(s)] \in Seq(T \cap S)
<1> DEFINE bad == {n \in 0 .. Len(s) : g[n] \notin Seq(T \cap S)}
<1> SUFFICES ASSUME bad # {} PROVE FALSE
  OBVIOUS
<1>1. PICK n \in bad : \A m \in bad : n <= m
  <2>1. bad \in SUBSET Nat
    OBVIOUS
  <2> HIDE DEF bad
  <2> QED BY <2>1, LeastNatural
<1>2. n # 0
  BY <1>1 DEF Keeps
<1>3. n - 1 \in 0 .. Len(s) /\ g[n - 1] \in Seq(T \cap S)
  BY <1>1, <1>2
<1>4. g[n] = IF s[n] \in S THEN Append(g[n - 1], s[n]) ELSE g[n - 1]
  BY <1>1, <1>2 DEF Keeps
<1>5. s[n] \in T
  BY <1>1, <1>2
<1>6. g[n] \in Seq(T \cap S)
  <2>1. CASE s[n] \in S
    <3>1. PICK U : U = T \cap S
      OBVIOUS
    <3>2. Append(g[n - 1], s[n]) \in Seq(U)
      BY <1>3, <1>5, <2>1, <3>1
    <3> QED BY <1>4, <2>1, <3>1, <3>2
  <2>2. CASE s[n] \notin S
    BY <1>3, <1>4, <2>2
  <2> QED BY <2>1, <2>2
<1> QED BY <1>1, <1>6

\* keep returns elements of the sequence that are in the set.
LEMMA KeepType ==
    ASSUME NEW T, NEW s \in Seq(T), NEW S
    PROVE  keep(s, S) \in Seq(T \cap S)
<1>1. keep(s, S) = (CHOOSE g : Keeps(g, s, S, Len(s)))[Len(s)]
  BY DEF keep, Keeps
<1>2. Keeps(CHOOSE g : Keeps(g, s, S, Len(s)), s, S, Len(s))
  BY KeepsExists
<1> QED BY <1>1, <1>2, KeepsType

\* What the recursive function in FlattenSeq is.
Flattens(g, s, n) ==
    g = [i \in 1 .. n |-> IF i = 1 THEN s[i] ELSE g[i - 1] \o s[i]]

LEMMA FlattensExists ==
    ASSUME NEW s, NEW k \in Nat
    PROVE  \E g : Flattens(g, s, k)
<1> DEFINE bad == {n \in Nat : ~\E g : Flattens(g, s, n)}
<1> SUFFICES ASSUME bad # {} PROVE FALSE
  OBVIOUS
<1>1. PICK n \in bad : \A m \in bad : n <= m
  <2>1. bad \in SUBSET Nat
    OBVIOUS
  <2> HIDE DEF bad
  <2> QED BY <2>1, LeastNatural
<1>2. n # 0
  <2> DEFINE g == [i \in 1 .. 0 |-> <<>>]
  <2>1. Flattens(g, s, 0)
    BY DEF Flattens
  <2> QED BY <2>1
<1>3. n - 1 \in Nat /\ n - 1 \notin bad
  BY <1>1, <1>2
<1>4. PICK h : Flattens(h, s, n - 1)
  BY <1>3
<1> DEFINE g == [i \in 1 .. n |-> IF i # n THEN h[i] ELSE IF n = 1 THEN s[n] ELSE h[n - 1] \o s[n]]
<1>5. \A i \in 1 .. n : g[i] = IF i = 1 THEN s[i] ELSE g[i - 1] \o s[i]
  <2> SUFFICES ASSUME NEW i \in 1 .. n PROVE g[i] = IF i = 1 THEN s[i] ELSE g[i - 1] \o s[i]
    OBVIOUS
  <2>1. CASE i = n
    <3>1. n # 1 => g[n - 1] = h[n - 1]
      BY <1>2, <1>3
    <3> QED BY <1>2, <2>1, <3>1
  <2>2. CASE i # n
    <3>1. i \in 1 .. (n - 1)
      BY <2>2
    <3>2. h[i] = IF i = 1 THEN s[i] ELSE h[i - 1] \o s[i]
      BY <1>4, <3>1 DEF Flattens
    <3>3. i # 1 => i - 1 \in 1 .. n /\ i - 1 # n
      BY <3>1
    <3> QED BY <2>2, <3>2, <3>3
  <2> QED BY <2>1, <2>2
<1>6. Flattens(g, s, n)
  <2>1. g = [i \in 1 .. n |-> g[i]]
    OBVIOUS
  <2> HIDE DEF g
  <2> QED BY <1>5, <2>1 DEF Flattens
<1> QED BY <1>1, <1>6

LEMMA FlattensType ==
    ASSUME NEW T, NEW s \in Seq(Seq(T)), Len(s) # 0, NEW g, Flattens(g, s, Len(s))
    PROVE  g[Len(s)] \in Seq(T)
<1> DEFINE bad == {n \in 1 .. Len(s) : g[n] \notin Seq(T)}
<1> SUFFICES ASSUME bad # {} PROVE FALSE
  OBVIOUS
<1>1. PICK n \in bad : \A m \in bad : n <= m
  <2>1. bad \in SUBSET Nat
    OBVIOUS
  <2> HIDE DEF bad
  <2> QED BY <2>1, LeastNatural
<1>2. s[n] \in Seq(T)
  BY <1>1
<1>3. g[n] = IF n = 1 THEN s[n] ELSE g[n - 1] \o s[n]
  BY <1>1 DEF Flattens
<1>4. n # 1 => g[n - 1] \in Seq(T)
  BY <1>1
<1>5. g[n] \in Seq(T)
  BY <1>2, <1>3, <1>4
<1> QED BY <1>1, <1>5

\* Flattening sequences of T gives a sequence of T.
LEMMA FlattenType ==
    ASSUME NEW T, NEW s \in Seq(Seq(T))
    PROVE  FlattenSeq(s) \in Seq(T)
<1>1. CASE Len(s) = 0
  <2>1. s = <<>>
    BY <1>1
  <2> QED BY <2>1 DEF FlattenSeq
<1>2. CASE Len(s) # 0
  <2>1. FlattenSeq(s) = (CHOOSE g : Flattens(g, s, Len(s)))[Len(s)]
    BY <1>2 DEF FlattenSeq, Flattens
  <2>2. Len(s) \in Nat
    OBVIOUS
  <2>3. Flattens(CHOOSE g : Flattens(g, s, Len(s)), s, Len(s))
    BY <2>2, FlattensExists
  <2> QED BY <1>2, <2>1, <2>3, FlattensType
<1> QED BY <1>1, <1>2

Variant == [format : STRING, width : Nat]

LEMMA SeqMonotone ==
    ASSUME NEW S, NEW T, S \subseteq T, NEW s \in Seq(S)
    PROVE  s \in Seq(T)
  OBVIOUS

LEMMA KeptOf ==
    ASSUME NEW T, NEW s \in Seq(T), NEW S
    PROVE  keep(s, S) \in Seq(T)
<1>1. keep(s, S) \in Seq(T \cap S)
  BY KeepType
<1>2. T \cap S \subseteq T
  OBVIOUS
<1> QED BY <1>1, <1>2, SeqMonotone

LEMMA FormatsType ==
    ASSUME NEW p \in Assets, NEW wanted \in Seq(STRING)
    PROVE  planFormats(p, wanted) \in Seq(STRING)
<1> DEFINE source == IF SourceFormat[p] \in ToSet(ConfigFormats) THEN <<>> ELSE <<SourceFormat[p]>>
<1>1. source \in Seq(STRING) /\ ConfigFormats \in Seq(STRING)
  <2>1. SourceFormat[p] \in STRING /\ ConfigFormats \in Seq(STRING)
    BY GenerationAssumption
  <2>2. <<SourceFormat[p]>> \in Seq(STRING) /\ <<>> \in Seq(STRING)
    BY <2>1
  <2> QED BY <2>1, <2>2
<1>2. ConfigFormats \o source \in Seq(STRING)
  <2> HIDE DEF source
  <2> QED BY <1>1
<1>3. supportedOf(wanted) \in Seq(STRING)
  BY KeptOf DEF supportedOf
<1>4. supportedOf(ConfigFormats \o source) \in Seq(STRING)
  <2> HIDE DEF source
  <2> QED BY <1>2, KeptOf DEF supportedOf
<1> QED BY <1>3, <1>4 DEF planFormats

LEMMA WidthsType ==
    ASSUME NEW p \in Assets, NEW widths \in Seq(Int), NEW wanted, NEW formats
    PROVE  planWidths(p, widths, wanted, formats) \in Seq(Int)
<1> DEFINE source == IF ToSet(formats) \subseteq {SourceFormat[p]} THEN <<>> ELSE <<0>>
<1>1. source \in Seq(Int) /\ <<0>> \in Seq(Int) /\ ConfigWidths \in Seq(Int)
  BY GenerationAssumption
<1>2. source \o ConfigWidths \in Seq(Int)
  <2> HIDE DEF source
  <2> QED BY <1>1
<1> QED BY <1>1, <1>2 DEF planWidths

LEMMA VariantsType ==
    ASSUME NEW p, NEW hash, NEW formats \in Seq(STRING), NEW widths \in Seq(Int)
    PROVE  planImageVariants(p, hash, formats, widths) \in Seq(Variant)
<1> DEFINE ofFormat(i) == [j \in DOMAIN widths |-> [format |-> formats[i], width |-> widths[j]]]
           wanted(i) == {v \in ToSet(ofFormat(i)) : shouldCreateImageTask(p, hash, v.format,
               v.width)}
           planned == [i \in DOMAIN formats |-> keep(ofFormat(i), wanted(i))]
           Candidate == [format : STRING, width : Int]
<1>1. ASSUME NEW i \in DOMAIN formats PROVE keep(ofFormat(i), wanted(i)) \in Seq(Variant)
  <2>1. formats[i] \in STRING
    OBVIOUS
  <2>2. ofFormat(i) \in Seq(Candidate)
    <3>1. \A j \in DOMAIN widths : [format |-> formats[i], width |-> widths[j]] \in Candidate
      BY <2>1
    <3>2. DOMAIN widths = 1 .. Len(widths) /\ Len(widths) \in Nat
      OBVIOUS
    <3> HIDE DEF Candidate
    <3> QED BY <3>1, <3>2
  <2>3. keep(ofFormat(i), wanted(i)) \in Seq(Candidate \cap wanted(i))
    <3> HIDE DEF Candidate, ofFormat, wanted
    <3> QED BY <2>2, KeepType
  <2>4. Candidate \cap wanted(i) \subseteq Variant
    BY DEF Variant, shouldCreateImageTask
  <2> HIDE DEF Candidate, ofFormat, wanted
  <2> QED BY <2>3, <2>4, SeqMonotone
<1>2. planned \in Seq(Seq(Variant))
  <2>1. DOMAIN formats = 1 .. Len(formats) /\ Len(formats) \in Nat
    OBVIOUS
  <2> HIDE DEF ofFormat, wanted
  <2> QED BY <1>1, <2>1
<1>3. planImageVariants(p, hash, formats, widths) = FlattenSeq(planned)
  BY DEF planImageVariants
<1> HIDE DEF planned
<1> QED BY <1>2, <1>3, FlattenType

\* The tasks that a stage plans.
LEMMA PlanImageType ==
    ASSUME NEW j, j.formats \in Seq(STRING), j.widths \in Seq(Int)
    PROVE  planImage(j) \in Seq(Seq(Variant))
<1> DEFINE planned == planImageVariants(j.path, j.hash, j.formats, j.widths)
           variants == limitImageVariantTasks(planned)
<1>1. planned \in Seq(Variant)
  BY VariantsType
<1>2. variants \in Seq(Variant)
  <2> HIDE DEF planned
  <2>1. MaxOutputVariants \in Nat
    BY GenerationAssumption
  <2> QED BY <1>1, <2>1 DEF limitImageVariantTasks
<1>3. planImage(j) = <<>> \/ planImage(j) = <<variants>>
  BY DEF planImage
<1> HIDE DEF variants
<1>4. <<>> \in Seq(Seq(Variant)) /\ <<variants>> \in Seq(Seq(Variant))
  BY <1>2
<1> QED BY <1>3, <1>4

LEMMA PlanCompressionType ==
    ASSUME NEW j, j.encodings \in Seq(STRING)
    PROVE  planCompression(j) \in Seq(STRING)
<1>1. keep(j.encodings, ToSet(Encodings)) \in Seq(STRING) /\ Encodings \in Seq(STRING)
  BY KeptOf, GenerationAssumption
<1> DEFINE planned == IF keep(j.encodings, ToSet(Encodings)) = <<>> THEN Encodings
                      ELSE keep(j.encodings, ToSet(Encodings))
           open == {e \in ToSet(Encodings) : ~usable(encodingKey(j.path, e), j.hash)}
<1>2. planned \in Seq(STRING)
  BY <1>1
<1>3. planCompression(j) = <<>> \/ planCompression(j) = keep(planned, open)
  BY DEF planCompression
<1> HIDE DEF planned, open
<1>4. keep(planned, open) \in Seq(STRING) /\ <<>> \in Seq(STRING)
  BY <1>2, KeptOf
<1> QED BY <1>3, <1>4

-----------------------------------------------------------------------------
(* A worker *)

\* A key of a variant, a result of the engine, and the state of a worker.
Key == [path : Assets, encoding : STRING \cup {""}, format : STRING \cup {""}, width : Int]
Result == [key : Key, same : BOOLEAN]
imageSteps == {"slot", "load", "memory", "generate", "store"}
Points == {"idle", "plan", "task", "joined", "upsert"} \cup executing
Tasks == Seq(Seq(Variant)) \cup Seq(STRING)

Job == [pc : Points, path : Assets \cup {""}, encodings : Seq(STRING), formats : Seq(STRING),
        widths : Seq(Int), hash : Nat, stage : {1, 2}, tasks : Tasks, head : Nat, body : Nat,
        bytes : Nat, results : Seq(Result), out : Seq(Key)]

\* A worker at work has the hash of its asset.
Planned(j) == j.pc # "idle" => j.path \in Assets /\ j.hash \in Nat \ {0}

\* The tasks are those of the stage, and there is one while it runs.
Staged(j) ==
    /\ j.stage = 1 => j.tasks \in Seq(Seq(Variant))
    /\ j.stage = 2 => j.tasks \in Seq(STRING)
    /\ j.pc \in executing \cup {"joined"} => j.tasks # <<>>
    /\ j.pc \in imageSteps => j.stage = 1
    /\ j.pc = "write" => j.stage = 2

\* It has read some content, and the header of some.
WasRead(j) ==
    /\ j.pc \in {"write", "memory", "generate", "store"} => j.body \in 1 .. MaxContent
    /\ j.pc \in {"memory", "generate"} => j.head \in 1 .. MaxContent

\* The results to store belong to the asset.
Exported(j) == j.pc = "store" => \A i \in DOMAIN j.results : j.results[i].key.path = j.path

(***************************************************************************)
(* The picture is within the limits, and the bytes asked for are its       *)
(* estimate, below the memory limit.                                       *)
(***************************************************************************)
admits(j, pic) ==
    /\ validateImageSourceLimits(pic.w, pic.h)
    /\ j.bytes = estimate(j, pic) /\ ~exceeds(j.bytes, MaxMemoryBytes)
Admitted(j) == j.pc \in {"memory", "generate"} => admits(j, Picture[j.path][j.head])

\* What holds of every worker.
JobOK(j) == j \in Job /\ Planned(j) /\ Staged(j) /\ WasRead(j) /\ Exported(j) /\ Admitted(j)

\* What each step does to the record of a worker.
planning(p, h, encodings, formats, widths) ==
    [Idle EXCEPT !.pc = "plan", !.hash = h, !.path = p, !.encodings = encodings,
                 !.formats = formats, !.widths = widths]
withTasks(j, tasks) == [j EXCEPT !.pc = "task", !.tasks = tasks]
succeeded(j, variants) ==
    [j EXCEPT !.pc = "upsert", !.out = variants, !.results = <<>>,
              !.head = 0, !.body = 0, !.bytes = 0]
asking(j, bytes) == [j EXCEPT !.pc = "slot", !.bytes = bytes]
loaded(j, content, bytes) ==
    [j EXCEPT !.pc = "memory", !.head = content, !.body = content, !.bytes = bytes]
generated(j, results) ==
    [j EXCEPT !.pc = "store", !.head = 0, !.bytes = 0, !.results = results]
storing(j, rest, out) == [j EXCEPT !.results = rest, !.out = out]

\* Each edit of the record keeps JobOK.
LEMMA IdleIsFine == JobOK(Idle)
<1>1. Idle \in Job
  <2>1. <<>> \in Seq(STRING) /\ <<>> \in Seq(Int) /\ <<>> \in Tasks 
         /\ <<>> \in Seq(Result) /\ <<>> \in Seq(Key)
    BY DEF Tasks
  <2> QED BY <2>1, Zenon DEF Idle, Job, Points
<1>2. <<>> \in Seq(STRING) /\ <<>> \in Seq(Seq(Variant))
  OBVIOUS
<1>3. /\ Idle.pc = "idle" /\ Idle.tasks = <<>> /\ Idle.stage = 1
  BY DEF Idle
<1> QED BY <1>1, <1>2, <1>3 DEF JobOK, Planned, Staged, WasRead, Exported, Admitted, executing,
        imageSteps

LEMMA StartsPlanning ==
    ASSUME NEW p \in Assets, NEW h \in Nat \ {0},
           NEW encodings \in Seq(STRING), NEW formats \in Seq(STRING), NEW widths \in Seq(Int),
           NEW e, e = planning(p, h, encodings, formats, widths)
    PROVE  JobOK(e) /\ e.pc = "plan"
<1>1. Idle \in Job /\ Idle.tasks = <<>> /\ Idle.stage = 1 /\ "plan" \in Points
  BY IdleIsFine DEF JobOK, Idle, Points
<1>2. /\ e \in Job /\ e.pc = "plan" /\ e.path = p /\ e.hash = h
      /\ e.stage = Idle.stage /\ e.tasks = Idle.tasks
  BY <1>1 DEF Job, planning
<1>3. e.tasks \in Seq(Seq(Variant))
  <2>1. <<>> \in Seq(Seq(Variant))
    OBVIOUS
  <2> QED BY <1>1, <1>2, <2>1, Zenon
<1>4. Staged(e)
  BY <1>1, <1>2, <1>3 DEF Staged, executing, imageSteps
<1> QED BY <1>2, <1>4 DEF JobOK, Planned, WasRead, Exported, Admitted

LEMMA TakesTasks ==
    ASSUME NEW j, JobOK(j), j.pc # "idle", NEW tasks,
           j.stage = 1 => tasks \in Seq(Seq(Variant)), j.stage = 2 => tasks \in Seq(STRING),
           NEW e, e = withTasks(j, tasks)
    PROVE  JobOK(e) /\ e.pc = "task"
<1>1. tasks \in Tasks /\ "task" \in Points /\ j \in Job
  BY DEF Tasks, Points, JobOK, Job
<1>2. /\ e \in Job /\ e.pc = "task" /\ e.tasks = tasks /\ e.stage = j.stage
      /\ e.path = j.path /\ e.hash = j.hash
  BY <1>1 DEF Job, withTasks
<1> QED BY <1>2 DEF JobOK, Planned, Staged, WasRead, Exported, Admitted, executing, imageSteps

LEMMA TakesTask ==
    ASSUME NEW j, JobOK(j), j.pc = "task", j.tasks # <<>>, NEW pc \in {"joined", "run"},
           NEW e, e = [j EXCEPT !.pc = pc]
    PROVE  JobOK(e) /\ e.pc = pc
<1>1. pc \in Points /\ j \in Job
  BY DEF Points, JobOK, executing
<1>2. /\ e \in Job /\ e.pc = pc /\ e.tasks = j.tasks /\ e.stage = j.stage
      /\ e.path = j.path /\ e.hash = j.hash
  BY <1>1 DEF Job
<1> QED BY <1>2 DEF JobOK, Planned, Staged, WasRead, Exported, Admitted, executing, imageSteps

LEMMA TakesStage ==
    ASSUME NEW j, JobOK(j), j.pc = "task", j.tasks = <<>>, j.stage # 2,
           NEW e, e = [j EXCEPT !.pc = "plan", !.stage = j.stage + 1]
    PROVE  JobOK(e) /\ e.pc = "plan"
<1>1. "plan" \in Points /\ j \in Job /\ j.stage = 1
  BY DEF Points, JobOK, Job
<1>2. e = [j EXCEPT !.pc = "plan", !.stage = 2]
  <2>1. j.stage + 1 = 2
    BY <1>1
  <2> QED BY <2>1
<1>3. /\ e \in Job /\ e.pc = "plan" /\ e.tasks = j.tasks /\ e.stage = 2
      /\ e.path = j.path /\ e.hash = j.hash
  BY <1>1, <1>2 DEF Job
<1>4. e.tasks \in Seq(STRING)
  <2>1. <<>> \in Seq(STRING)
    OBVIOUS
  <2> QED BY <1>3, <2>1, Zenon
<1>5. Staged(e)
  BY <1>3, <1>4 DEF Staged, executing, imageSteps
<1> QED BY <1>3, <1>5 DEF JobOK, Planned, WasRead, Exported, Admitted

LEMMA Succeeds ==
    ASSUME NEW j, JobOK(j), j.pc # "idle", NEW variants \in Seq(Key),
           NEW e, e = succeeded(j, variants)
    PROVE  JobOK(e) /\ e.pc = "upsert"
<1>1. "upsert" \in Points /\ j \in Job /\ <<>> \in Seq(Result)
  BY DEF Points, JobOK
<1>2. /\ e \in Job /\ e.pc = "upsert" /\ e.tasks = j.tasks /\ e.stage = j.stage
      /\ e.path = j.path /\ e.hash = j.hash
  BY <1>1 DEF Job, succeeded
<1> QED BY <1>2 DEF JobOK, Planned, Staged, WasRead, Exported, Admitted, executing, imageSteps

LEMMA ListsNext ==
    ASSUME NEW j, JobOK(j), j.pc = "upsert", j.out # <<>>,
           NEW e, e = [j EXCEPT !.out = Tail(j.out)]
    PROVE  JobOK(e) /\ e.pc = "upsert"
<1>1. j \in Job /\ Tail(j.out) \in Seq(Key)
  <2>1. j.out \in Seq(Key)
    BY DEF JobOK, Job
  <2> QED BY <2>1 DEF JobOK
<1>2. /\ e \in Job /\ e.pc = "upsert" /\ e.tasks = j.tasks /\ e.stage = j.stage
      /\ e.path = j.path /\ e.hash = j.hash
  BY <1>1 DEF Job
<1> QED BY <1>2 DEF JobOK, Planned, Staged, WasRead, Exported, Admitted, executing, imageSteps

LEMMA StartsWriting ==
    ASSUME NEW s \in [Assets -> 0 .. MaxContent], NEW j, JobOK(j), j.pc = "run", j.stage = 2,
           s[j.path] # 0, NEW e, e = [j EXCEPT !.pc = "write", !.body = s[j.path]]
    PROVE  JobOK(e) /\ e.pc = "write"
<1>1. "write" \in Points /\ j \in Job /\ j.path \in Assets
  BY DEF Points, JobOK, Planned, executing
<1>2. s[j.path] \in 1 .. MaxContent /\ s[j.path] \in Nat
  BY <1>1, GenerationAssumption
<1>3. /\ e \in Job /\ e.pc = "write" /\ e.tasks = j.tasks /\ e.stage = j.stage
      /\ e.path = j.path /\ e.hash = j.hash /\ e.body = s[j.path]
  BY <1>1, <1>2 DEF Job
<1> QED BY <1>2, <1>3 DEF JobOK, Planned, Staged, WasRead, Exported, Admitted, executing, imageSteps

LEMMA AsksForSlot ==
    ASSUME NEW j, JobOK(j), j.pc = "run", j.stage = 1, NEW bytes \in Nat,
           NEW e, e = asking(j, bytes)
    PROVE  JobOK(e) /\ e.pc = "slot"
<1>1. "slot" \in Points /\ j \in Job
  BY DEF Points, JobOK, executing
<1>2. /\ e \in Job /\ e.pc = "slot" /\ e.tasks = j.tasks /\ e.stage = j.stage
      /\ e.path = j.path /\ e.hash = j.hash
  BY <1>1 DEF Job, asking
<1> QED BY <1>2 DEF JobOK, Planned, Staged, WasRead, Exported, Admitted, executing, imageSteps

LEMMA TakesSlot ==
    ASSUME NEW j, JobOK(j), j.pc = "slot", NEW e, e = [j EXCEPT !.pc = "load"]
    PROVE  JobOK(e) /\ e.pc = "load"
<1>1. "load" \in Points /\ j \in Job
  BY DEF Points, JobOK, executing
<1>2. /\ e \in Job /\ e.pc = "load" /\ e.tasks = j.tasks /\ e.stage = j.stage
      /\ e.path = j.path /\ e.hash = j.hash
  BY <1>1 DEF Job
<1> QED BY <1>2 DEF JobOK, Planned, Staged, WasRead, Exported, Admitted, executing, imageSteps

LEMMA ImageTask ==
    ASSUME NEW j, JobOK(j), j.pc \in imageSteps
    PROVE  /\ Head(j.tasks) \in Seq(Variant)
           /\ targets(j) \in SUBSET Nat /\ IsFiniteSet(targets(j))
<1>1. j.tasks \in Seq(Seq(Variant)) /\ j.tasks # <<>>
  BY DEF JobOK, Staged, imageSteps, executing
<1>2. Head(j.tasks) \in Seq(Variant)
  BY <1>1
<1> DEFINE variants == Head(j.tasks)
<1>3. targets(j) = {variants[i].width : i \in 1 .. Len(variants)}
  BY <1>2 DEF targets, ToSet
<1>4. \A i \in 1 .. Len(variants) : variants[i] \in Variant
  BY <1>2
<1>5. IsFiniteSet(1 .. Len(variants))
  <2>1. Len(variants) \in Int /\ 1 \in Int
    BY <1>2
  <2> QED BY <2>1, FS_Interval
<1> HIDE DEF variants
<1>6. targets(j) \in SUBSET Nat
  BY <1>3, <1>4 DEF Variant
<1>7. IsFiniteSet({variants[i].width : i \in 1 .. Len(variants)})
  <2> DEFINE I == 1 .. Len(variants)
             f == [i \in I |-> variants[i].width]
             T == {variants[i].width : i \in I}
  <2>1. f \in Surjection(I, T)
    BY DEF Surjection
  <2>2. IsFiniteSet(I)
    BY <1>5
  <2> HIDE DEF I, T, f
  <2>3. IsFiniteSet(T)
    BY <2>1, <2>2, FS_Surjection
  <2> QED BY <2>3 DEF T, I
<1> QED BY <1>2, <1>3, <1>6, <1>7 DEF variants

LEMMA PictureType ==
    ASSUME NEW p \in Assets, NEW v \in 1 .. MaxContent
    PROVE  /\ Picture[p][v].w \in Nat /\ Picture[p][v].h \in Nat /\ Picture[p][v].bytes \in Nat
  BY GenerationAssumption

LEMMA IsLoaded ==
    ASSUME NEW s \in [Assets -> 0 .. MaxContent], NEW j, JobOK(j), j.pc = "load", s[j.path] # 0,
           NEW pic, pic = Picture[j.path][s[j.path]],
           validateImageSourceLimits(pic.w, pic.h), ~exceeds(estimate(j, pic), MaxMemoryBytes),
           NEW e, e = loaded(j, s[j.path], estimate(j, pic))
    PROVE  JobOK(e) /\ e.pc = "memory"
<1>1. "memory" \in Points /\ j \in Job /\ j.path \in Assets
  BY DEF Points, JobOK, Planned, executing
<1>2. s[j.path] \in 1 .. MaxContent /\ s[j.path] \in Nat
  BY <1>1, GenerationAssumption
<1>3. pic.w \in Nat \ {0} /\ pic.h \in Nat
  BY <1>1, <1>2, PictureType DEF validateImageSourceLimits
<1>4. estimate(j, pic) \in Nat
  <2>1. targets(j) \in SUBSET Int /\ IsFiniteSet(targets(j))
    BY ImageTask DEF imageSteps
  <2> QED BY <1>3, <2>1, EstimateType DEF estimate
<1>5. /\ e \in Job /\ e.pc = "memory" /\ e.tasks = j.tasks /\ e.stage = j.stage
      /\ e.path = j.path /\ e.hash = j.hash /\ e.head = s[j.path] /\ e.body = s[j.path]
      /\ e.bytes = estimate(j, pic)
  BY <1>1, <1>2, <1>4 DEF Job, loaded
<1>6. Admitted(e)
  <2>1. estimate(e, pic) = estimate(j, pic)
    BY <1>5 DEF estimate, targets
  <2> QED BY <1>5, <2>1 DEF Admitted, admits
<1>7. Planned(e) /\ Staged(e) /\ Exported(e)
  BY <1>5 DEF JobOK, Planned, Staged, Exported, executing, imageSteps
<1>8. WasRead(e)
  BY <1>2, <1>5 DEF JobOK, Planned, WasRead
<1> QED BY <1>5, <1>6, <1>7, <1>8 DEF JobOK

LEMMA TakesMemory ==
    ASSUME NEW j, JobOK(j), j.pc = "memory", NEW e, e = [j EXCEPT !.pc = "generate"]
    PROVE  JobOK(e) /\ e.pc = "generate" /\ e.bytes = j.bytes
<1>1. "generate" \in Points /\ j \in Job
  BY DEF Points, JobOK, executing
<1>2. /\ e \in Job /\ e.pc = "generate" /\ e.tasks = j.tasks /\ e.stage = j.stage
      /\ e.path = j.path /\ e.hash = j.hash /\ e.body = j.body /\ e.head = j.head
      /\ e.bytes = j.bytes
  BY <1>1 DEF Job
<1>3. Admitted(e)
  <2>1. \A pic : estimate(e, pic) = estimate(j, pic)
    BY <1>2 DEF estimate, targets
  <2> QED BY <1>2, <2>1 DEF JobOK, Admitted, admits
<1> QED BY <1>2, <1>3 DEF JobOK, Planned, Staged, WasRead, Exported, executing, imageSteps

LEMMA ImageKeyType ==
    ASSUME NEW p \in Assets, NEW f \in STRING, NEW n \in Int
    PROVE  imageKey(p, f, n) \in Key /\ imageKey(p, f, n).path = p
<1>1. "" \in STRING \cup {""} /\ f \in STRING \cup {""}
  OBVIOUS
<1>2. [path |-> p, encoding |-> "", format |-> f, width |-> n] \in Key
  BY <1>1, Zenon DEF Key
<1> QED BY <1>2 DEF imageKey

LEMMA EncodingKeyType ==
    ASSUME NEW p \in Assets, NEW n \in STRING
    PROVE  encodingKey(p, n) \in Key /\ encodingKey(p, n).path = p
<1>1. "" \in STRING \cup {""} /\ n \in STRING \cup {""}
  OBVIOUS
<1>2. 0 \in Int
  OBVIOUS
<1>3. [path |-> p, encoding |-> n, format |-> "", width |-> 0] \in Key
  BY <1>1, <1>2, Zenon DEF Key
<1> QED BY <1>3 DEF encodingKey

LEMMA ExportsResults ==
    ASSUME NEW j, JobOK(j), j.pc = "generate"
    PROVE  /\ exportLibvipsVariants(j) \in Seq(Result)
           /\ \A i \in DOMAIN exportLibvipsVariants(j) : exportLibvipsVariants(j)[i].key.path =
                  j.path
<1> DEFINE variants == Head(j.tasks)
           width(v) == normalizedImageOutputWidth(Picture[j.path][j.head].w, v.width)
           export(v) == [key |-> imageKey(j.path, v.format, width(v)),
                         same |-> width(v) = Picture[j.path][j.head].w
                                 /\ v.format = SourceFormat[j.path]]
<1>1. variants \in Seq(Variant)
  BY ImageTask DEF imageSteps
<1>2. j.path \in Assets /\ Picture[j.path][j.head].w \in Nat
  BY PictureType DEF JobOK, Planned, WasRead
<1>3. ASSUME NEW i \in DOMAIN variants
      PROVE  export(variants[i]) \in Result /\ export(variants[i]).key.path = j.path
  <2>1. variants[i].width \in Nat /\ variants[i].format \in STRING
    <3>1. variants[i] \in Variant
      BY <1>1
    <3> QED BY <3>1 DEF Variant
  <2>2. width(variants[i]) \in Int
    BY <1>2, <2>1 DEF normalizedImageOutputWidth
  <2>3. imageKey(j.path, variants[i].format, width(variants[i])) \in Key
    <3> HIDE DEF width, variants
    <3> QED BY <1>2, <2>1, <2>2, ImageKeyType
  <2>4. (width(variants[i]) = Picture[j.path][j.head].w
         /\ variants[i].format = SourceFormat[j.path]) \in BOOLEAN
    OBVIOUS
  <2> HIDE DEF width
  <2> QED BY <2>3, <2>4 DEF Result, imageKey
<1>4. exportLibvipsVariants(j) = [i \in DOMAIN variants |-> export(variants[i])]
  BY DEF exportLibvipsVariants
<1>5. DOMAIN variants = 1 .. Len(variants) /\ Len(variants) \in Nat
  BY <1>1
<1> HIDE DEF export, variants
<1> QED BY <1>3, <1>4, <1>5

LEMMA IsGenerated ==
    ASSUME NEW j, JobOK(j), j.pc = "generate",
           NEW results \in Seq(Result), \A i \in DOMAIN results : results[i].key.path = j.path,
           NEW e, e = generated(j, results)
    PROVE  JobOK(e) /\ e.pc = "store"
<1>1. "store" \in Points /\ j \in Job /\ 0 \in Nat
  BY DEF Points, JobOK, executing
<1>2. /\ e \in Job /\ e.pc = "store" /\ e.tasks = j.tasks /\ e.stage = j.stage
      /\ e.path = j.path /\ e.hash = j.hash /\ e.body = j.body /\ e.results = results
  BY <1>1 DEF Job, generated
<1>3. Planned(e) /\ Staged(e) /\ Admitted(e) /\ WasRead(e) /\ Exported(e)
  BY <1>2 DEF JobOK, Planned, Staged, Admitted, WasRead, Exported, executing, imageSteps
<1> QED BY <1>2, <1>3 DEF JobOK

LEMMA ReadsPixels ==
    ASSUME NEW j, JobOK(j), j.pc = "generate", NEW content \in 1 .. MaxContent,
           NEW e, e = [j EXCEPT !.body = content]
    PROVE  JobOK(e) /\ e.pc = "generate" /\ e.bytes = j.bytes
<1>1. j \in Job /\ content \in Nat
  BY GenerationAssumption DEF JobOK
<1>2. /\ e \in Job /\ e.pc = "generate" /\ e.tasks = j.tasks /\ e.stage = j.stage
      /\ e.path = j.path /\ e.hash = j.hash /\ e.body = content /\ e.head = j.head
      /\ e.bytes = j.bytes
  BY <1>1 DEF Job
<1>3. Admitted(e)
  <2>1. \A pic : estimate(e, pic) = estimate(j, pic)
    BY <1>2 DEF estimate, targets
  <2> QED BY <1>2, <2>1 DEF JobOK, Admitted, admits
<1> QED BY <1>2, <1>3 DEF JobOK, Planned, Staged, WasRead, Exported, executing, imageSteps

LEMMA HeadOfResults ==
    ASSUME NEW j, JobOK(j), j.pc = "store", j.results # <<>>
    PROVE  /\ Head(j.results).key \in Key /\ Head(j.results).key.path = j.path
           /\ Tail(j.results) \in Seq(Result)
           /\ \A i \in DOMAIN Tail(j.results) : Tail(j.results)[i].key.path = j.path
<1>1. j.results \in Seq(Result) /\ \A i \in DOMAIN j.results : j.results[i].key.path = j.path
  BY DEF JobOK, Job, Exported
<1>2. Head(j.results) = j.results[1] /\ 1 \in DOMAIN j.results /\ j.results[1] \in Result
  BY <1>1
<1>3. Tail(j.results) \in Seq(Result)
  BY <1>1
<1>4. \A i \in DOMAIN Tail(j.results) : i + 1 \in DOMAIN j.results /\ Tail(j.results)[i] =
          j.results[i + 1]
  BY <1>1
<1>5. Head(j.results).key \in Key
  BY <1>2 DEF Result
<1> QED BY <1>1, <1>2, <1>3, <1>4, <1>5

LEMMA SkipsResult ==
    ASSUME NEW j, JobOK(j), j.pc = "store", j.results # <<>>,
           NEW out \in Seq(Key), NEW e, e = storing(j, Tail(j.results), out)
    PROVE  JobOK(e) /\ e.pc = "store"
<1>1. /\ j \in Job /\ Tail(j.results) \in Seq(Result)
      /\ \A i \in DOMAIN Tail(j.results) : Tail(j.results)[i].key.path = j.path
  BY HeadOfResults DEF JobOK
<1>2. PICK rest : rest = Tail(j.results)
  OBVIOUS
<1>3. e = [j EXCEPT !.results = rest, !.out = out]
  BY <1>2 DEF storing
<1>4. /\ e \in Job /\ e.pc = "store" /\ e.tasks = j.tasks /\ e.stage = j.stage
      /\ e.path = j.path /\ e.hash = j.hash /\ e.body = j.body /\ e.results = rest
  BY <1>1, <1>2, <1>3 DEF Job
<1>5. Exported(e)
  BY <1>1, <1>2, <1>4 DEF Exported
<1> QED BY <1>4, <1>5 DEF JobOK, Planned, Staged, WasRead, Admitted, executing, imageSteps

-----------------------------------------------------------------------------
(* The inductive invariant *)

\* What the disk, the catalog and the history hold.
SourceInv ==
    /\ src \in [Assets -> 0 .. MaxContent] /\ assets \in [Assets -> 0 .. MaxContent]
    /\ takenBack \in [Assets -> SUBSET (0 .. MaxContent)]

JobsInv == job \in [Workers -> Job] /\ \A w \in Workers : JobOK(job[w])

\* The memory granted is what the workers that generate have asked for.
busy == {w \in Workers : At(w, "generate")}
bytesOf == [w \in Workers |-> job[w].bytes]
MemoryInv == memory \in Nat /\ memory = SumOf(bytesOf, busy) /\ ~exceeds(memory, MaxMemoryBytes)

\* The part of the inductive invariant that the memory needs.
GenerationInv == SourceInv /\ JobsInv /\ MemoryInv

-----------------------------------------------------------------------------
(* How a step moves the workers *)

LEMMA BytesAreNaturals ==
    ASSUME JobsInv
    PROVE  /\ IsFiniteSet(busy) /\ busy \in SUBSET Workers
           /\ \A w \in Workers : bytesOf[w] \in Nat
<1>1. busy \in SUBSET Workers
  BY DEF busy
<1>2. IsFiniteSet(busy)
  BY <1>1, FS_Subset, GenerationAssumption
<1>3. \A w \in Workers : bytesOf[w] \in Nat
  BY DEF JobsInv, Job, bytesOf
<1> QED BY <1>1, <1>2, <1>3

\* A step that starts and ends no generation keeps the memory.
LEMMA JobsMove ==
    ASSUME GenerationInv, UNCHANGED memory, job' = [x \in Workers |-> job'[x]],
           \A x \in Workers : /\ JobOK(job'[x])
                              /\ (job[x].pc = "generate") <=> (job'[x].pc = "generate")
                              /\ job[x].pc = "generate" => job'[x].bytes = job[x].bytes
    PROVE  JobsInv' /\ MemoryInv'
<1>1. JobsInv'
  <2>1. \A x \in Workers : job'[x] \in Job
    BY DEF JobOK
  <2> QED BY <2>1 DEF JobsInv
<1>2. busy' = busy
  BY DEF busy, At
<1>3. \A x \in busy : bytesOf'[x] = bytesOf[x]
  BY DEF busy, bytesOf, At
<1>4. IsFiniteSet(busy) /\ \A w \in busy : bytesOf[w] \in Nat
  BY BytesAreNaturals DEF GenerationInv
<1>5. SumOf(bytesOf', busy) = SumOf(bytesOf, busy)
  BY <1>3, <1>4, SumAgree
<1>6. SumOf(bytesOf, busy)' = SumOf(bytesOf', busy')
  OBVIOUS
<1>7. MemoryInv'
  BY <1>2, <1>5, <1>6 DEF MemoryInv, GenerationInv
<1> QED BY <1>1, <1>7

\* A step of one worker ...
LEMMA OneMoves ==
    ASSUME GenerationInv, NEW w \in Workers, NEW e, Go(w, e), UNCHANGED memory,
           JobOK(e), job[w].pc # "generate", e.pc # "generate"
    PROVE  JobsInv' /\ MemoryInv'
<1>1. job \in [Workers -> Job] /\ \A x \in Workers : JobOK(job[x])
  BY DEF GenerationInv, JobsInv
<1>2. job' = [job EXCEPT ![w] = e]
  BY DEF Go
<1>3. job' = [x \in Workers |-> job'[x]] /\ job'[w] = e /\ \A x \in Workers \ {w} : job'[x] = job[x]
  BY <1>1, <1>2
<1> QED BY <1>1, <1>3, JobsMove

(***************************************************************************)
(* ... and one that several workers share, since singleflight gives its    *)
(* outcome to all who wait.                                                *)
(***************************************************************************)
LEMMA SharedMove ==
    ASSUME GenerationInv, NEW w \in Workers, job[w].pc \notin {"idle", "generate"},
           UNCHANGED memory,
           Fail(w) \/ \E variants \in Seq(Key) : Succeed(w, variants)
    PROVE  JobsInv' /\ MemoryInv'
<1>1. job \in [Workers -> Job] /\ \A x \in Workers : JobOK(job[x])
  BY DEF GenerationInv, JobsInv
<1>2. \A x \in sharing(w) : x \in Workers /\ job[x].pc # "idle" /\ job[x].pc # "generate"
  BY DEF sharing, At
<1>3. CASE Fail(w)
  <2>1. job' = [x \in Workers |-> job'[x]]
    BY <1>3 DEF Fail
  <2>2. \A x \in Workers : job'[x] = IF x \in sharing(w) THEN Idle ELSE job[x]
    BY <1>3 DEF Fail
  <2>3. Idle.pc = "idle" /\ JobOK(Idle)
    BY IdleIsFine DEF Idle
  <2> QED BY <1>1, <1>2, <2>1, <2>2, <2>3, JobsMove
<1>4. ASSUME NEW variants \in Seq(Key), Succeed(w, variants) PROVE JobsInv' /\ MemoryInv'
  <2>1. job' = [x \in Workers |-> job'[x]]
    BY <1>4 DEF Succeed
  <2>2. \A x \in Workers : x \notin sharing(w) => job'[x] = job[x]
    BY <1>4 DEF Succeed
  <2>3. ASSUME NEW x \in sharing(w) PROVE JobOK(job'[x]) /\ job'[x].pc = "upsert"
    <3>1. job'[x] = succeeded(job[x], variants)
      BY <1>2, <1>4 DEF Succeed, succeeded
    <3>2. JobOK(job[x]) /\ job[x].pc # "idle"
      BY <1>1, <1>2
    <3> QED BY <3>1, <3>2, Succeeds
  <2> QED BY <1>1, <1>2, <2>1, <2>2, <2>3, JobsMove
<1> QED BY <1>3, <1>4

LEMMA ShareStep ==
    ASSUME GenerationInv, NEW w \in Workers, job[w].pc \notin {"idle", "generate"},
           UNCHANGED <<src, assets, takenBack, memory>>, Fail(w) \/ Skip(w)
    PROVE  GenerationInv'
<1>1. <<>> \in Seq(Key)
  OBVIOUS
<1>2. JobsInv' /\ MemoryInv'
  BY <1>1, SharedMove DEF Skip
<1> QED BY <1>2 DEF GenerationInv, SourceInv

LEMMA OneStep ==
    ASSUME GenerationInv, NEW w \in Workers, NEW e, Go(w, e),
           UNCHANGED <<src, assets, takenBack, memory>>,
           JobOK(e), job[w].pc # "generate", e.pc # "generate"
    PROVE  GenerationInv'
<1>1. JobsInv' /\ MemoryInv'
  BY OneMoves
<1> QED BY <1>1 DEF GenerationInv, SourceInv

LEMMA JobFacts ==
    ASSUME GenerationInv, NEW w \in Workers
    PROVE  /\ JobOK(job[w]) /\ job[w] \in Job /\ job[w].stage \in {1, 2}
           /\ src \in [Assets -> 0 .. MaxContent]
           /\ Stages[job[w].stage] = "image" => job[w].stage = 1
           /\ Stages[job[w].stage] = "compression" => job[w].stage = 2
<1>1. JobOK(job[w]) /\ job[w] \in Job /\ job[w].stage \in {1, 2}
  BY DEF GenerationInv, JobsInv, JobOK, Job
<1> QED BY <1>1 DEF GenerationInv, SourceInv, Stages

-----------------------------------------------------------------------------
(* The steps *)

LEMMA ProcessStep ==
    ASSUME GenerationInv, NEW w \in Workers, NEW r, process(w, r), r.path \in Assets,
           r.encodings \in Seq(STRING), r.formats \in Seq(STRING), r.widths \in Seq(Int)
    PROVE  GenerationInv'
<1> DEFINE formats == planFormats(r.path, r.formats)
           widths == planWidths(r.path, r.widths, r.formats, formats)
<1>1. UNCHANGED <<src, assets, takenBack, memory>> /\ job[w].pc = "idle"
  BY DEF process, outside, budgets, At
<1>2. CASE UNCHANGED job
  BY <1>1, <1>2 DEF GenerationInv, SourceInv, JobsInv, MemoryInv, busy, bytesOf, At
<1>3. CASE ~(assets[r.path] = 0 \/ ended(w))
  <2> DEFINE e == planning(r.path, assets[r.path], r.encodings, formats, widths)
  <2>1. Go(w, e)
    BY <1>3 DEF process, planning
  <2>2. formats \in Seq(STRING)
    BY FormatsType
  <2>3. widths \in Seq(Int)
    <3> HIDE DEF formats
    <3> QED BY WidthsType
  <2>4. assets[r.path] \in Nat \ {0}
    BY <1>3, GenerationAssumption DEF GenerationInv, SourceInv
  <2>5. JobOK(e) /\ e.pc = "plan"
    <3> HIDE DEF formats, widths
    <3>1. PICK p, h, encodings : p = r.path /\ h = assets[r.path] /\ encodings = r.encodings
      OBVIOUS
    <3>2. JobOK(planning(p, h, encodings, formats, widths)) /\
          planning(p, h, encodings, formats, widths).pc = "plan"
      <4>1. p \in Assets /\ h \in Nat \ {0} /\ encodings \in Seq(STRING)
        BY <2>4, <3>1
      <4> QED BY <2>2, <2>3, <4>1, StartsPlanning
    <3> QED BY <3>1, <3>2
  <2> HIDE DEF e
  <2> QED BY <1>1, <2>1, <2>5, OneStep
<1> QED BY <1>2, <1>3 DEF process

LEMMA PlanStep ==
    ASSUME GenerationInv, NEW w \in Workers, Plan(w)
    PROVE  GenerationInv'
<1> DEFINE j == job[w]
           tasks == IF Stages[j.stage] = "image" THEN planImage(j) ELSE planCompression(j)
           e == withTasks(j, tasks)
<1>1. /\ UNCHANGED <<src, assets, takenBack, memory>> /\ j.pc = "plan" /\ Go(w, e)
  BY DEF Plan, outside, budgets, At, withTasks
<1>2. JobOK(j) /\ j \in Job /\ j.stage \in {1, 2}
  BY JobFacts
<1>3. j.formats \in Seq(STRING) /\ j.widths \in Seq(Int) /\ j.encodings \in Seq(STRING)
  <2> HIDE DEF j
  <2> QED BY <1>2 DEF Job
<1>4. planImage(j) \in Seq(Seq(Variant)) /\ planCompression(j) \in Seq(STRING)
  BY <1>3, PlanImageType, PlanCompressionType
<1>5. (j.stage = 1 => tasks \in Seq(Seq(Variant))) /\ (j.stage = 2 => tasks \in Seq(STRING))
  <2>1. Stages[1] = "image" /\ Stages[2] = "compression"
    BY DEF Stages
  <2> HIDE DEF j
  <2> QED BY <1>4, <2>1
<1> HIDE DEF tasks, j
<1>6. JobOK(e) /\ e.pc = "task"
  BY <1>1, <1>2, <1>5, TakesTasks
<1>7. job[w].pc # "generate"
  BY <1>1 DEF j
<1> HIDE DEF e
<1> QED BY <1>1, <1>6, <1>7, OneStep

LEMMA ExecuteStep ==
    ASSUME GenerationInv, NEW w \in Workers, Execute(w)
    PROVE  GenerationInv'
<1>1. /\ UNCHANGED <<src, assets, takenBack, memory>> /\ job[w].pc = "task" /\ job[w].tasks # <<>>
      /\ \E pc \in {"joined", "run"} : Go(w, [job[w] EXCEPT !.pc = pc])
  BY DEF Execute, outside, budgets, At
<1>2. PICK pc \in {"joined", "run"} : Go(w, [job[w] EXCEPT !.pc = pc])
  BY <1>1
<1> DEFINE e == [job[w] EXCEPT !.pc = pc]
<1>3. Go(w, e)
  BY <1>2
<1>4. JobOK(e) /\ e.pc = pc
  BY <1>1, JobFacts, TakesTask
<1> HIDE DEF e
<1> QED BY <1>1, <1>3, <1>4, OneStep

LEMMA NextStageStep ==
    ASSUME GenerationInv, NEW w \in Workers, NextStage(w)
    PROVE  GenerationInv'
<1>1. /\ UNCHANGED <<src, assets, takenBack, memory>> /\ job[w].pc = "task" /\ job[w].tasks = <<>>
      /\ (job[w].stage = 2 /\ Go(w, Idle)) \/
         (job[w].stage # 2 /\ Go(w, [job[w] EXCEPT !.pc = "plan", !.stage = job[w].stage + 1]))
  <2>1. Len(Stages) = 2
    BY DEF Stages
  <2> QED BY <2>1 DEF NextStage, outside, budgets, At
<1>2. CASE job[w].stage = 2
  <2>1. JobOK(Idle) /\ Idle.pc = "idle"
    BY IdleIsFine DEF Idle
  <2> QED BY <1>1, <1>2, <2>1, OneStep
<1>3. CASE job[w].stage # 2
  <2> DEFINE e == [job[w] EXCEPT !.pc = "plan", !.stage = job[w].stage + 1]
  <2>1. Go(w, e)
    BY <1>1, <1>3
  <2>2. JobOK(e) /\ e.pc = "plan"
    BY <1>1, <1>3, JobFacts, TakesStage
  <2> HIDE DEF e
  <2> QED BY <1>1, <2>1, <2>2, OneStep
<1> QED BY <1>2, <1>3

LEMMA UpsertStep ==
    ASSUME GenerationInv, NEW w \in Workers, Upsert(w)
    PROVE  GenerationInv'
<1>1. UNCHANGED <<src, assets, takenBack, memory>> /\ job[w].pc = "upsert"
  BY DEF Upsert, outside, budgets, At
<1>2. JobOK(job[w]) /\ job[w] \in Job /\ job[w].stage \in {1, 2}
  BY JobFacts
<1>3. CASE job[w].out = <<>>
  <2> DEFINE e == withTasks(job[w], Tail(job[w].tasks))
  <2>1. Go(w, e)
    BY <1>3 DEF Upsert, withTasks
  <2>2. /\ job[w].stage = 1 => Tail(job[w].tasks) \in Seq(Seq(Variant))
        /\ job[w].stage = 2 => Tail(job[w].tasks) \in Seq(STRING)
    <3>1. ASSUME NEW S, job[w].tasks \in Seq(S) PROVE Tail(job[w].tasks) \in Seq(S)
      <4>1. CASE job[w].tasks = <<>>
        <5>1. Tail(<<>>) = <<>> /\ <<>> \in Seq(S)
          OBVIOUS
        <5> QED BY <4>1, <5>1, Zenon
      <4>2. CASE job[w].tasks # <<>>
        BY <3>1, <4>2
      <4> QED BY <4>1, <4>2
    <3>2. /\ job[w].stage = 1 => job[w].tasks \in Seq(Seq(Variant))
          /\ job[w].stage = 2 => job[w].tasks \in Seq(STRING)
      BY <1>2 DEF JobOK, Staged
    <3> QED BY <3>1, <3>2, Zenon
  <2>3. JobOK(e) /\ e.pc = "task"
    BY <1>1, <1>2, <2>2, TakesTasks
  <2> HIDE DEF e
  <2> QED BY <1>1, <2>1, <2>3, OneStep
<1>4. CASE job[w].out # <<>> /\ Go(w, Idle)
  <2>1. JobOK(Idle) /\ Idle.pc = "idle"
    BY IdleIsFine DEF Idle
  <2> QED BY <1>1, <1>4, <2>1, OneStep
<1>5. CASE job[w].out # <<>> /\ Go(w, [job[w] EXCEPT !.out = Tail(job[w].out)])
  <2> DEFINE e == [job[w] EXCEPT !.out = Tail(job[w].out)]
  <2>1. Go(w, e)
    BY <1>5
  <2>2. JobOK(e) /\ e.pc = "upsert"
    BY <1>1, <1>2, <1>5, ListsNext
  <2> HIDE DEF e
  <2> QED BY <1>1, <2>1, <2>2, OneStep
<1> QED BY <1>3, <1>4, <1>5 DEF Upsert

LEMMA CompressStep ==
    ASSUME GenerationInv, NEW w \in Workers, Compress(w)
    PROVE  GenerationInv'
<1>1. UNCHANGED <<src, assets, takenBack, memory>> /\ job[w].pc = "run" /\ job[w].stage = 2
  BY JobFacts DEF Compress, outside, budgets, At
<1>2. CASE Fail(w) \/ Skip(w)
  BY <1>1, <1>2, ShareStep
<1>3. CASE Readable(w) /\ Go(w, [job[w] EXCEPT !.pc = "write", !.body = src[job[w].path]])
  <2> DEFINE e == [job[w] EXCEPT !.pc = "write", !.body = src[job[w].path]]
  <2>1. Go(w, e) /\ src[job[w].path] # 0
    BY <1>3 DEF Readable
  <2>2. JobOK(e) /\ e.pc = "write"
    BY <1>1, <2>1, JobFacts, StartsWriting
  <2> HIDE DEF e
  <2> QED BY <1>1, <2>1, <2>2, OneStep
<1> QED BY <1>2, <1>3 DEF Compress, Broken, Interrupted

LEMMA WriteEncodingStep ==
    ASSUME GenerationInv, NEW w \in Workers, WriteEncoding(w)
    PROVE  GenerationInv'
<1> DEFINE key == encodingKey(job[w].path, Head(job[w].tasks))
<1>1. UNCHANGED <<src, assets, takenBack, memory>> /\ job[w].pc = "write"
  BY DEF WriteEncoding, outside, budgets, At
<1>2. CASE Fail(w)
  BY <1>1, <1>2, ShareStep
<1>3. CASE Succeed(w, <<key>>)
  <2>1. job[w].path \in Assets /\ Head(job[w].tasks) \in STRING
    BY <1>1, JobFacts DEF JobOK, Planned, Staged, executing
  <2>2. key \in Key /\ key.path = job[w].path
    BY <2>1, EncodingKeyType
  <2> HIDE DEF key
  <2>3. <<key>> \in Seq(Key)
    BY <2>2
  <2>4. JobsInv' /\ MemoryInv'
    BY <1>1, <1>3, <2>3, SharedMove
  <2> QED BY <1>1, <2>4 DEF GenerationInv, SourceInv
<1> QED BY <1>2, <1>3 DEF WriteEncoding, Broken

LEMMA AskForSlotStep ==
    ASSUME GenerationInv, NEW w \in Workers, AskForSlot(w)
    PROVE  GenerationInv'
<1>1. UNCHANGED <<src, assets, takenBack, memory>> /\ job[w].pc = "run" /\ job[w].stage = 1
  BY JobFacts DEF AskForSlot, outside, At
<1>2. CASE Fail(w)
  BY <1>1, <1>2, ShareStep
<1>3. CASE Readable(w) /\ Go(w, [job[w] EXCEPT !.pc = "slot",
                                   !.bytes = Picture[job[w].path][src[job[w].path]].bytes])
  <2> DEFINE bytes == Picture[job[w].path][src[job[w].path]].bytes
             e == asking(job[w], bytes)
  <2>1. Go(w, e) /\ src[job[w].path] # 0
    BY <1>3 DEF Readable, asking
  <2>2. job[w].path \in Assets /\ src[job[w].path] \in 1 .. MaxContent
    BY <1>1, <2>1, JobFacts, GenerationAssumption DEF JobOK, Planned
  <2>3. bytes \in Nat
    BY <2>2, PictureType
  <2> HIDE DEF bytes
  <2>4. JobOK(e) /\ e.pc = "slot"
    BY <1>1, <2>3, JobFacts, AsksForSlot
  <2> HIDE DEF e
  <2> QED BY <1>1, <2>1, <2>4, OneStep
<1> QED BY <1>2, <1>3 DEF AskForSlot, Broken, Interrupted

LEMMA AcquireSlotStep ==
    ASSUME GenerationInv, NEW w \in Workers, AcquireSlot(w)
    PROVE  GenerationInv'
<1> DEFINE e == [job[w] EXCEPT !.pc = "load"]
<1>1. UNCHANGED <<src, assets, takenBack, memory>> /\ job[w].pc = "slot" /\ Go(w, e)
  BY DEF AcquireSlot, outside, At
<1>2. JobOK(e) /\ e.pc = "load"
  BY <1>1, JobFacts, TakesSlot
<1> HIDE DEF e
<1> QED BY <1>1, <1>2, OneStep

LEMMA StopWaitingStep ==
    ASSUME GenerationInv, NEW w \in Workers, StopWaiting(w)
    PROVE  GenerationInv'
<1>1. UNCHANGED <<src, assets, takenBack, memory>> /\ job[w].pc \in {"slot", "memory"} /\ Fail(w)
  BY DEF StopWaiting, outside
<1> QED BY <1>1, ShareStep

LEMMA LoadSourceStep ==
    ASSUME GenerationInv, NEW w \in Workers, LoadSource(w)
    PROVE  GenerationInv'
<1> DEFINE pic == Picture[job[w].path][src[job[w].path]]
           e == loaded(job[w], src[job[w].path], estimate(job[w], pic))
<1>1. UNCHANGED <<src, assets, takenBack, memory>> /\ job[w].pc = "load"
  BY DEF LoadSource, outside, At
<1>2. \/ Fail(w) \/ Skip(w)
      \/ /\ src[job[w].path] # 0 /\ Go(w, e)
         /\ validateImageSourceLimits(pic.w, pic.h) /\ ~exceeds(estimate(job[w], pic),
                MaxMemoryBytes)
  BY DEF LoadSource, Broken, loaded
<1>3. CASE Fail(w) \/ Skip(w)
  BY <1>1, <1>3, ShareStep
<1>4. CASE /\ src[job[w].path] # 0 /\ Go(w, e)
           /\ validateImageSourceLimits(pic.w, pic.h) /\ ~exceeds(estimate(job[w], pic),
                  MaxMemoryBytes)
  <2>1. JobOK(e) /\ e.pc = "memory"
    BY <1>1, <1>4, JobFacts, IsLoaded
  <2> HIDE DEF e, pic
  <2> QED BY <1>1, <1>4, <2>1, OneStep
<1> QED BY <1>2, <1>3, <1>4

\* Memory is granted when the sum stays within the limit.
LEMMA AcquireMemoryStep ==
    ASSUME GenerationInv, NEW w \in Workers, AcquireMemory(w)
    PROVE  GenerationInv'
<1> DEFINE e == [job[w] EXCEPT !.pc = "generate"]
<1>1. /\ UNCHANGED <<src, assets, takenBack>> /\ job[w].pc = "memory" /\ Go(w, e)
      /\ memory' = memory + job[w].bytes /\ ~exceeds(memory + job[w].bytes, MaxMemoryBytes)
  BY DEF AcquireMemory, outside, At
<1>2. JobOK(e) /\ e.pc = "generate" /\ e.bytes = job[w].bytes
  BY <1>1, JobFacts, TakesMemory
<1> HIDE DEF e
<1>3. job \in [Workers -> Job] /\ (\A x \in Workers : JobOK(job[x]))
  BY DEF GenerationInv, JobsInv
<1>4. /\ job' = [x \in Workers |-> job'[x]] /\ job'[w] = e
      /\ \A x \in Workers \ {w} : job'[x] = job[x]
  BY <1>1, <1>3 DEF Go
<1>5. JobsInv'
  <2>1. \A x \in Workers : JobOK(job'[x])
    BY <1>2, <1>3, <1>4
  <2>2. \A x \in Workers : job'[x] \in Job
    BY <2>1 DEF JobOK
  <2> QED BY <1>1, <1>4, <2>1, <2>2 DEF JobsInv
<1>6. w \notin busy /\ w \in busy' /\ busy' \ {w} = busy
  BY <1>1, <1>2, <1>4 DEF busy, At
<1>7. /\ bytesOf'[w] = job[w].bytes /\ job[w].bytes \in Nat
      /\ \A x \in busy : bytesOf'[x] = bytesOf[x]
  BY <1>2, <1>3, <1>4, <1>6 DEF busy, bytesOf, Job
<1>8. /\ IsFiniteSet(busy) /\ (\A x \in busy : bytesOf[x] \in Nat)
      /\ IsFiniteSet(busy') /\ (\A x \in busy' : bytesOf'[x] \in Nat)
  <2>1. IsFiniteSet(busy) /\ (\A x \in busy : bytesOf[x] \in Nat)
    BY BytesAreNaturals DEF GenerationInv
  <2>2. busy' = busy \cup {w}
    BY <1>6
  <2>3. IsFiniteSet(busy')
    BY <2>1, <2>2, FS_AddElement
  <2> QED BY <1>7, <2>1, <2>2, <2>3
<1>9. PICK B, f, h : B = busy' /\ f = bytesOf' /\ h = bytesOf
  OBVIOUS
<1>10. SumOf(f, B) = job[w].bytes + SumOf(h, busy)
  <2>1. SumOf(f, B) = f[w] + SumOf(f, B \ {w})
    BY <1>6, <1>8, <1>9, SumRemove
  <2>2. SumOf(f, busy) = SumOf(h, busy)
    BY <1>7, <1>8, <1>9, SumAgree
  <2> QED BY <1>6, <1>7, <1>9, <2>1, <2>2
<1>11. SumOf(bytesOf, busy)' = SumOf(f, B)
  BY <1>9
<1>12. memory = SumOf(h, busy) /\ memory \in Nat
  BY <1>9 DEF GenerationInv, MemoryInv
<1>13. MemoryInv'
  BY <1>1, <1>7, <1>10, <1>11, <1>12 DEF MemoryInv
<1> QED BY <1>1, <1>5, <1>13 DEF GenerationInv, SourceInv

\* A worker that stops generating gives back exactly what it took.
LEMMA MemoryReturned ==
    ASSUME GenerationInv, NEW w \in Workers, job[w].pc = "generate",
           memory' = memory - job[w].bytes,
           UNCHANGED src, job' = [x \in Workers |-> job'[x]],
           \A x \in Workers : JobOK(job'[x]),
           job'[w].pc # "generate",
           \A x \in Workers \ {w} : /\ (job[x].pc = "generate") <=> (job'[x].pc = "generate")
                                    /\ job[x].pc = "generate" => job'[x].bytes = job[x].bytes
    PROVE  JobsInv' /\ MemoryInv'
<1>1. JobsInv'
  <2>1. \A x \in Workers : job'[x] \in Job
    BY DEF JobOK
  <2> QED BY <2>1 DEF JobsInv
<1>2. w \in busy /\ busy' = busy \ {w}
  BY DEF busy, At
<1>3. /\ bytesOf[w] = job[w].bytes
      /\ \A x \in busy \ {w} : bytesOf'[x] = bytesOf[x]
  BY DEF busy, bytesOf, At
<1>4. IsFiniteSet(busy) /\ (\A x \in busy : bytesOf[x] \in Nat) /\ job[w].bytes \in Nat
  BY <1>2, <1>3, BytesAreNaturals DEF GenerationInv
<1>5. PICK f, h, B : f = bytesOf' /\ h = bytesOf /\ B = busy \ {w}
  OBVIOUS
<1>6. SumOf(h, busy) = job[w].bytes + SumOf(h, B) /\ SumOf(h, B) \in Nat
  BY <1>2, <1>3, <1>4, <1>5, SumRemove
<1>7. SumOf(f, B) = SumOf(h, B)
  <2>1. IsFiniteSet(B)
    BY <1>4, <1>5, FS_Subset
  <2> QED BY <1>3, <1>4, <1>5, <2>1, SumAgree
<1>8. SumOf(bytesOf, busy)' = SumOf(f, B)
  BY <1>2, <1>5
<1>9. memory = SumOf(h, busy) /\ ~exceeds(memory, MaxMemoryBytes)
  BY <1>5 DEF GenerationInv, MemoryInv
<1>10. memory' = SumOf(h, B) /\ memory' \in Nat /\ memory' <= memory
  BY <1>4, <1>6, <1>9
<1>11. ~exceeds(memory', MaxMemoryBytes)
  BY <1>4, <1>6, <1>9, <1>10, ImageLimits DEF exceeds
<1>12. MemoryInv'
  BY <1>7, <1>8, <1>10, <1>11 DEF MemoryInv
<1> QED BY <1>1, <1>12

LEMMA GenerateStep ==
    ASSUME GenerationInv, NEW w \in Workers, Generate(w)
    PROVE  GenerationInv'
<1>1. /\ UNCHANGED <<src, assets, takenBack>> /\ job[w].pc = "generate"
      /\ memory' = memory - job[w].bytes
  BY DEF Generate, outside, At
<1>2. job \in [Workers -> Job] /\ \A x \in Workers : JobOK(job[x])
  BY DEF GenerationInv, JobsInv
<1>3. CASE Fail(w)
  <2>1. job' = [x \in Workers |-> job'[x]]
    BY <1>3 DEF Fail
  <2>2. \A x \in Workers : job'[x] = IF x \in sharing(w) THEN Idle ELSE job[x]
    BY <1>3 DEF Fail
  <2>3. Idle.pc = "idle" /\ JobOK(Idle)
    BY IdleIsFine DEF Idle
  <2>4. w \in sharing(w) /\ \A x \in sharing(w) : x # w => job[x].pc # "generate"
    BY DEF sharing, At
  <2>5. JobsInv' /\ MemoryInv'
    BY <1>1, <1>2, <2>1, <2>2, <2>3, <2>4, MemoryReturned
  <2> QED BY <1>1, <2>5 DEF GenerationInv, SourceInv
<1>4. CASE Go(w, [job[w] EXCEPT !.pc = "store", !.head = 0, !.bytes = 0,
                                  !.results = exportLibvipsVariants(job[w])])
  <2> DEFINE results == exportLibvipsVariants(job[w])
             e == generated(job[w], results)
  <2>1. Go(w, e)
    BY <1>4 DEF generated
  <2>2. results \in Seq(Result) /\ \A i \in DOMAIN results : results[i].key.path = job[w].path
    BY <1>1, <1>2, ExportsResults
  <2> HIDE DEF results
  <2>3. JobOK(e) /\ e.pc = "store"
    BY <1>1, <1>2, <2>2, IsGenerated
  <2> HIDE DEF e
  <2>4. /\ job' = [x \in Workers |-> job'[x]] /\ job'[w] = e
        /\ \A x \in Workers \ {w} : job'[x] = job[x]
    BY <1>2, <2>1 DEF Go
  <2>5. JobsInv' /\ MemoryInv'
    BY <1>1, <1>2, <2>3, <2>4, MemoryReturned
  <2> QED BY <1>1, <2>5 DEF GenerationInv, SourceInv
<1> QED BY <1>3, <1>4 DEF Generate, Broken

LEMMA ReadPixelsStep ==
    ASSUME GenerationInv, NEW w \in Workers, ReadPixels(w)
    PROVE  GenerationInv'
<1> DEFINE e == [job[w] EXCEPT !.body = src[job[w].path]]
<1>1. UNCHANGED <<src, assets, takenBack, memory>> /\ job[w].pc = "generate" /\ Go(w, e)
  BY DEF ReadPixels, outside, budgets, At
<1>2. job \in [Workers -> Job] /\ \A x \in Workers : JobOK(job[x])
  BY DEF GenerationInv, JobsInv
<1>3. src[job[w].path] \in 1 .. MaxContent
  <2>1. job[w].path \in Assets /\ src[job[w].path] # 0
    BY <1>1, <1>2 DEF ReadPixels, JobOK, Planned
  <2> QED BY <2>1, GenerationAssumption DEF GenerationInv, SourceInv
<1>4. JobOK(e) /\ e.pc = "generate" /\ e.bytes = job[w].bytes
  BY <1>1, <1>2, <1>3, ReadsPixels
<1> HIDE DEF e
<1>5. /\ job' = [x \in Workers |-> job'[x]] /\ job'[w] = e
      /\ \A x \in Workers \ {w} : job'[x] = job[x]
  BY <1>1, <1>2 DEF Go
<1>6. JobsInv' /\ MemoryInv'
  BY <1>1, <1>2, <1>4, <1>5, JobsMove
<1> QED BY <1>1, <1>6 DEF GenerationInv, SourceInv

LEMMA StoreImageStep ==
    ASSUME GenerationInv, NEW w \in Workers, StoreImage(w)
    PROVE  GenerationInv'
<1> DEFINE j == job[w]
<1>1. UNCHANGED <<src, assets, takenBack, memory>> /\ j.pc = "store"
  BY DEF StoreImage, outside, At
<1>2. JobOK(j) /\ j \in Job
  BY JobFacts
<1>3. j.out \in Seq(Key) /\ j.results \in Seq(Result)
  <2> HIDE DEF j
  <2> QED BY <1>2 DEF Job
<1>4. CASE Succeed(w, j.out)
  <2>1. JobsInv' /\ MemoryInv'
    BY <1>1, <1>3, <1>4, SharedMove
  <2> QED BY <1>1, <1>4, <2>1 DEF GenerationInv, SourceInv
<1>5. CASE Fail(w)
  BY <1>1, <1>5, ShareStep
<1>6. CASE j.results # <<>> /\ Go(w, [j EXCEPT !.results = Tail(j.results)])
  <2> DEFINE e == storing(j, Tail(j.results), j.out)
  <2>1. Go(w, e)
    <3>1. [j EXCEPT !.results = Tail(j.results)] = e
      <4> HIDE DEF j
      <4> QED BY <1>2 DEF storing, Job
    <3> QED BY <1>6, <3>1
  <2>2. JobOK(e) /\ e.pc = "store"
    <3> HIDE DEF j
    <3> QED BY <1>1, <1>2, <1>3, <1>6, SkipsResult
  <2> HIDE DEF e
  <2> QED BY <1>1, <1>6, <2>1, <2>2, OneStep
<1>7. CASE /\ j.results # <<>>
           /\ Go(w, [j EXCEPT !.results = Tail(j.results), !.out = Append(j.out,
                  Head(j.results).key)])
  <2> DEFINE out == Append(j.out, Head(j.results).key)
             e == storing(j, Tail(j.results), out)
  <2>1. Go(w, e)
    BY <1>7 DEF storing
  <2>2. Head(j.results).key \in Key /\ Head(j.results).key.path = j.path
    BY <1>1, <1>2, <1>7, HeadOfResults
  <2>3. out \in Seq(Key)
    BY <1>3, <2>2
  <2> HIDE DEF out
  <2>4. JobOK(e) /\ e.pc = "store"
    <3> HIDE DEF j
    <3> QED BY <1>1, <1>2, <1>7, <2>3, SkipsResult
  <2> HIDE DEF e
  <2> QED BY <1>1, <2>1, <2>4, OneStep
<1> QED BY <1>4, <1>5, <1>6, <1>7 DEF StoreImage, Broken

\* No worker sees the file change.
LEMMA EditSourceStep ==
    ASSUME GenerationInv, NEW p \in Assets, EditSource(p)
    PROVE  GenerationInv'
<1>1. PICK v \in 0 .. MaxContent :
         /\ src' = [src EXCEPT ![p] = v]
         /\ takenBack' = [takenBack EXCEPT ![p] = takenBack[p] \cup ({v} \cap pending(p))]
  BY DEF EditSource
<1>2. UNCHANGED <<assets, job, memory>>
  BY DEF EditSource, budgets
<1>3. takenBack[p] \cup ({v} \cap pending(p)) \in SUBSET (0 .. MaxContent)
  BY DEF GenerationInv, SourceInv
<1>4. SourceInv'
  BY <1>1, <1>2, <1>3 DEF GenerationInv, SourceInv
<1> QED BY <1>2, <1>4 DEF GenerationInv, JobsInv, MemoryInv, busy, bytesOf, At

LEMMA RestStep ==
    ASSUME GenerationInv,
           \/ \E p \in Assets : Rescan(p)
           \/ \E f \in DOMAIN files : CleanUp(f)
           \/ \E c \in {"warm", "queue"} : Cancel(c)
    PROVE  GenerationInv'
<1>1. UNCHANGED <<src, takenBack, job, memory>>
  BY DEF Rescan, CleanUp, Cancel, outside, budgets
<1>2. assets' \in [Assets -> 0 .. MaxContent]
  BY DEF Rescan, CleanUp, Cancel, outside, GenerationInv, SourceInv
<1> QED BY <1>1, <1>2 DEF GenerationInv, SourceInv, JobsInv, MemoryInv, busy, bytesOf, At

LEMMA WorkStep ==
    ASSUME GenerationInv, NEW w \in Workers, Work(w)
    PROVE  GenerationInv'
  BY PlanStep, ExecuteStep, NextStageStep, UpsertStep, CompressStep, WriteEncodingStep,
      AskForSlotStep,
     AcquireSlotStep, StopWaitingStep, LoadSourceStep, AcquireMemoryStep, GenerateStep,
         StoreImageStep
     DEF Work

\* Every step keeps the invariant.
LEMMA GenerationStep == GenerationInv /\ [Next]_vars => GenerationInv'
<1> SUFFICES ASSUME GenerationInv, [Next]_vars PROVE GenerationInv'
  OBVIOUS
<1>1. CASE UNCHANGED vars
  BY <1>1 DEF vars, outside, budgets, GenerationInv, SourceInv, JobsInv, MemoryInv,
      busy, bytesOf, At
<1>2. ASSUME NEW w \in Workers, NEW r \in Requests, Begin(w, r) PROVE GenerationInv'
  <2>1. r.path \in Assets /\ r.encodings \in Seq(STRING)
        /\ r.formats \in Seq(STRING) /\ r.widths \in Seq(Int)
    BY GenerationAssumption
  <2> QED BY <1>2, <2>1, ProcessStep DEF Begin
<1>3. ASSUME NEW w \in Workers, NEW p \in Assets, Warm(w, p) PROVE GenerationInv'
  <2> DEFINE r == [path |-> p, encodings |-> <<>>, formats |-> <<>>, widths |-> <<>>]
  <2>1. process(w, r)
    BY <1>3 DEF Warm
  <2>2. r.path \in Assets /\ r.encodings \in Seq(STRING)
        /\ r.formats \in Seq(STRING) /\ r.widths \in Seq(Int)
    <3>1. r.path = p /\ r.encodings = <<>> /\ r.formats = <<>> /\ r.widths = <<>>
      OBVIOUS
    <3>2. <<>> \in Seq(STRING) /\ <<>> \in Seq(Int)
      OBVIOUS
    <3> HIDE DEF r
    <3> QED BY <3>1, <3>2, Zenon
  <2> HIDE DEF r
  <2> QED BY <2>1, <2>2, ProcessStep
<1> QED BY <1>1, <1>2, <1>3, WorkStep, ReadPixelsStep, EditSourceStep, RestStep DEF Next

LEMMA GenerationInit == Init => GenerationInv
<1> SUFFICES ASSUME Init PROVE GenerationInv
  OBVIOUS
<1>1. SourceInv
  BY GenerationAssumption DEF Init, SourceInv
<1>3. JobsInv
  BY IdleIsFine DEF Init, JobsInv, JobOK
<1>4. MemoryInv
  <2>1. busy = {}
    BY DEF Init, busy, At, Idle
  <2>2. SumOf(bytesOf, busy) = 0
    BY <2>1, SumEmpty
  <2> QED BY <2>2, ImageLimits DEF Init, MemoryInv, exceeds
<1> QED BY <1>1, <1>3, <1>4 DEF GenerationInv

-----------------------------------------------------------------------------
(* Freshness *)

(***************************************************************************)
(* What is known of a content that was made, or read, under the hash h of  *)
(* the file p: when it is another one then the file is no longer at h, or  *)
(* came back to it while the catalog or a worker was still at it.  This is *)
(* the freshness argument in one line: it survives every edit, because the *)
(* worker, or the catalog that lists what it made, is among pending(p).    *)
(***************************************************************************)
excused(p, h, content) == content = h \/ h \in takenBack[p] \/ src[p] # h

reading == {"write", "memory", "generate", "store"}

\* ... of what a worker has read, ...
ReadInv ==
    \A w \in Workers : job[w].pc \in reading => excused(job[w].path, job[w].hash, job[w].body)

\* ... of the artifacts a worker is about to list, ...
artifactOK(k, h) == <<k, h>> \in DOMAIN files => excused(k.path, h, files[<<k, h>>])
MadeInv ==
    \A w \in Workers : job[w].pc # "idle" =>
        \A k \in ToSet(job[w].out) : k.path = job[w].path /\ artifactOK(k, job[w].hash)

\* ... and of those the catalog lists under the hash that it has.
ListedInv ==
    \A k \in DOMAIN listed :
        k.path \in Assets /\ (artifactOK(k, listed[k]) \/ assets[k.path] # listed[k])

FreshInv == ReadInv /\ MadeInv /\ ListedInv

\* A worker's record after a step of the worker, or of the one it has joined
freshJob(x, jobs, artifacts) ==
    LET j == jobs[x] IN
    j.pc # "idle" =>
        /\ j.pc \in reading => excused(j.path, j.hash, j.body)
        /\ \A k \in ToSet(j.out) :
              k.path = j.path /\ (<<k, j.hash>> \in DOMAIN artifacts =>
                                    excused(k.path, j.hash, artifacts[<<k, j.hash>>]))

\* Nothing else of a step matters than what workers read and which artifacts they wrote.
LEMMA FreshMove ==
    ASSUME FreshInv, UNCHANGED <<src, assets, takenBack, listed>>,
           \A x \in Workers : freshJob(x, job', files'),
           \A f \in DOMAIN files' : \/ f \in DOMAIN files /\ files'[f] = files[f]
                                    \/ excused(f[1].path, f[2], files'[f])
    PROVE  FreshInv'
<1>1. ReadInv' /\ MadeInv'
  BY DEF freshJob, ReadInv, MadeInv, artifactOK, excused, reading
<1>2. ASSUME NEW k \in DOMAIN listed, artifactOK(k, listed[k]) PROVE artifactOK(k, listed[k])'
  <2> DEFINE f == <<k, listed[k]>>
  <2> SUFFICES ASSUME f \in DOMAIN files' PROVE excused(k.path, listed[k], files'[f])
    BY DEF artifactOK, excused
  <2>1. f[1] = k /\ f[2] = listed[k]
    OBVIOUS
  <2>2. CASE f \in DOMAIN files /\ files'[f] = files[f]
    BY <1>2, <2>2 DEF artifactOK
  <2> QED BY <2>1, <2>2
<1>3. ListedInv'
  BY <1>2 DEF FreshInv, ListedInv
<1> QED BY <1>1, <1>3 DEF FreshInv

\* A worker that did not move is as fresh as it was, ...
LEMMA StillFresh ==
    ASSUME FreshInv, NEW x \in Workers, job'[x] = job[x], UNCHANGED files
    PROVE  freshJob(x, job', files')
  BY DEF FreshInv, ReadInv, MadeInv, freshJob, artifactOK

\* ... and when an artifact was written that is as fresh as it was.
LEMMA StaysFresh ==
    ASSUME FreshInv, NEW x \in Workers, job'[x] = job[x],
           \A f \in DOMAIN files' : \/ f \in DOMAIN files /\ files'[f] = files[f]
                                    \/ excused(f[1].path, f[2], files'[f])
    PROVE  freshJob(x, job', files')
<1> SUFFICES ASSUME job[x].pc # "idle", NEW k \in ToSet(job[x].out),
                    <<k, job[x].hash>> \in DOMAIN files'
             PROVE  excused(k.path, job[x].hash, files'[<<k, job[x].hash>>])
  BY DEF FreshInv, ReadInv, MadeInv, freshJob
<1> DEFINE f == <<k, job[x].hash>>
<1>1. f[1] = k /\ f[2] = job[x].hash
  OBVIOUS
<1>2. CASE f \in DOMAIN files /\ files'[f] = files[f]
  BY <1>2 DEF FreshInv, MadeInv, artifactOK
<1> QED BY <1>1, <1>2

(***************************************************************************)
(* A step of one worker that writes nothing: it goes on with the same file *)
(* and hash and lists no more than before, and what it has read it read    *)
(* before or reads now.                                                    *)
(***************************************************************************)
LEMMA OneFresh ==
    ASSUME GenerationInv, FreshInv, NEW w \in Workers, NEW e, Go(w, e),
           UNCHANGED <<src, assets, takenBack, listed, files>>,
           \/ e.pc = "idle"
           \/ e.pc \notin reading /\ e.out = <<>>
           \/ /\ job[w].pc # "idle" /\ e.path = job[w].path /\ e.hash = job[w].hash
              /\ ToSet(e.out) \subseteq ToSet(job[w].out)
              /\ e.pc \in reading =>
                    \/ job[w].pc \in reading /\ e.body = job[w].body
                    \/ e.body = src[e.path]
    PROVE  FreshInv'
<1>1. job'[w] = e /\ \A x \in Workers \ {w} : job'[x] = job[x]
  BY DEF Go, GenerationInv, JobsInv
<1>2. freshJob(w, job', files')
  <2>1. CASE e.pc = "idle"
    BY <1>1, <2>1 DEF freshJob
  <2>2. CASE e.pc \notin reading /\ e.out = <<>>
    <3>1. ToSet(e.out) = {}
      BY <2>2 DEF ToSet
    <3> QED BY <1>1, <2>2, <3>1 DEF freshJob
  <2>3. CASE /\ job[w].pc # "idle" /\ e.path = job[w].path /\ e.hash = job[w].hash
             /\ ToSet(e.out) \subseteq ToSet(job[w].out)
             /\ e.pc \in reading => \/ job[w].pc \in reading /\ e.body = job[w].body
                                    \/ e.body = src[e.path]
    <3>1. e.pc \in reading => excused(e.path, e.hash, e.body)
      BY <2>3 DEF FreshInv, ReadInv, excused
    <3>2. ASSUME NEW k \in ToSet(e.out)
          PROVE  k.path = e.path /\ (<<k, e.hash>> \in DOMAIN files' =>
                                       excused(k.path, e.hash, files'[<<k, e.hash>>]))
      <4>1. k \in ToSet(job[w].out)
        BY <2>3, <3>2
      <4> QED BY <2>3, <4>1 DEF FreshInv, MadeInv, artifactOK
    <3> QED BY <1>1, <3>1, <3>2 DEF freshJob
  <2> QED BY <2>1, <2>2, <2>3
<1>3. \A x \in Workers \ {w} : freshJob(x, job', files')
  BY <1>1, StillFresh
<1> QED BY <1>2, <1>3, FreshMove

\* A failure ends whoever shared the task.
LEMMA FailFresh ==
    ASSUME FreshInv, NEW w \in Workers, Fail(w),
           UNCHANGED <<src, assets, takenBack, listed, files>>
    PROVE  FreshInv'
<1>1. ASSUME NEW x \in Workers PROVE freshJob(x, job', files')
  <2>1. CASE x \in sharing(w)
    BY <2>1 DEF Fail, Idle, freshJob
  <2>2. CASE x \notin sharing(w)
    <3>1. job'[x] = job[x]
      BY <2>2 DEF Fail
    <3> QED BY <3>1, StillFresh
  <2> QED BY <2>1, <2>2
<1> QED BY <1>1, FreshMove

\* Who joined a task joined it for the same file and the same hash.
LEMMA SameFile ==
    ASSUME NEW w \in Workers, NEW x \in sharing(w)
    PROVE  x \in Workers /\ job[x].path = job[w].path /\ job[x].hash = job[w].hash
  BY DEF sharing, sameTask, taskKey

(***************************************************************************)
(* A success gives all of them the variants, whose artifacts were checked  *)
(* here or have just been written.                                         *)
(***************************************************************************)
LEMMA SucceedFresh ==
    ASSUME GenerationInv, FreshInv, NEW w \in Workers, NEW variants, Succeed(w, variants),
           UNCHANGED <<src, assets, takenBack, listed>>,
           \A f \in DOMAIN files' : \/ f \in DOMAIN files /\ files'[f] = files[f]
                                    \/ excused(f[1].path, f[2], files'[f]),
           \A k \in ToSet(variants) :
               k.path = job[w].path /\ (<<k, job[w].hash>> \in DOMAIN files' =>
                                          excused(k.path, job[w].hash, files'[<<k, job[w].hash>>]))
    PROVE  FreshInv'
<1>1. ASSUME NEW x \in Workers PROVE freshJob(x, job', files')
  <2>1. CASE x \in sharing(w)
    <3>1. job[x] \in Job
      BY JobFacts
    <3>2. job'[x] = succeeded(job[x], variants)
      BY <2>1 DEF Succeed, succeeded
    <3>3. /\ job'[x].pc = "upsert" /\ job'[x].out = variants
          /\ job'[x].path = job[x].path /\ job'[x].hash = job[x].hash
      BY <3>1, <3>2 DEF succeeded, Job
    <3>4. "upsert" \notin reading
      BY DEF reading
    <3> QED BY <2>1, <3>3, <3>4, SameFile DEF freshJob
  <2>2. CASE x \notin sharing(w)
    <3>1. job'[x] = job[x]
      BY <2>2 DEF Succeed
    <3> QED BY <3>1, StaysFresh
  <2> QED BY <2>1, <2>2
<1> QED BY <1>1, FreshMove

LEMMA SkipFresh ==
    ASSUME GenerationInv, FreshInv, NEW w \in Workers, Skip(w),
           UNCHANGED <<src, assets, takenBack, listed, files>>
    PROVE  FreshInv'
<1>1. ToSet(<<>>) = {}
  BY DEF ToSet
<1> QED BY <1>1, SucceedFresh DEF Skip

\* An artifact that a worker writes has the content that it has read.
LEMMA WrittenIsExcused ==
    ASSUME FreshInv, NEW w \in Workers, job[w].pc \in reading,
           NEW key, key.path = job[w].path,
           files' = with(files, <<key, job[w].hash>>, job[w].body)
    PROVE  /\ \A f \in DOMAIN files' : \/ f \in DOMAIN files /\ files'[f] = files[f]
                                       \/ excused(f[1].path, f[2], files'[f])
           /\ excused(key.path, job[w].hash, files'[<<key, job[w].hash>>])
<1> DEFINE g == <<key, job[w].hash>>
<1>1. excused(key.path, job[w].hash, job[w].body)
  BY DEF FreshInv, ReadInv
<1>2. g[1] = key /\ g[2] = job[w].hash
  OBVIOUS
<1>3. /\ files'[g] = job[w].body
      /\ \A f \in DOMAIN files' : f = g \/ (f \in DOMAIN files /\ files'[f] = files[f])
  BY DEF with
<1> HIDE DEF g
<1>4. excused(g[1].path, g[2], files'[g])
  BY <1>1, <1>2, <1>3
<1> QED BY <1>3, <1>4 DEF g

-----------------------------------------------------------------------------
(* The steps and freshness *)

LEMMA UpsertFresh ==
    ASSUME GenerationInv, FreshInv, NEW w \in Workers, Upsert(w)
    PROVE  FreshInv'
<1> DEFINE out == job[w].out
<1>1. UNCHANGED <<src, assets, takenBack, files>> /\ job[w].pc = "upsert"
  BY DEF Upsert, outside, At
<1>2. job[w] \in Job /\ job[w].path \in Assets /\ out \in Seq(Key)
  BY <1>1, JobFacts DEF JobOK, Planned, Job
<1>3. CASE out = <<>>
  <2> DEFINE e == withTasks(job[w], Tail(job[w].tasks))
  <2>1. Go(w, e) /\ UNCHANGED listed
    BY <1>3 DEF Upsert, withTasks
  <2>2. e.pc = "task" /\ e.out = <<>> /\ "task" \notin reading
    BY <1>2, <1>3 DEF withTasks, Job, reading
  <2> HIDE DEF e
  <2> QED BY <1>1, <2>1, <2>2, OneFresh
<1>4. CASE out # <<>> /\ assets[job[w].path] = 0
  <2>1. Go(w, Idle) /\ UNCHANGED listed /\ Idle.pc = "idle"
    BY <1>4 DEF Upsert, Idle
  <2> QED BY <1>1, <2>1, OneFresh
<1>5. CASE out # <<>> /\ assets[job[w].path] # 0
  <2> DEFINE e == [job[w] EXCEPT !.out = Tail(out)]
  <2>1. Go(w, e) /\ listed' = with(listed, Head(out), job[w].hash)
    BY <1>5 DEF Upsert
  <2>2. /\ e.pc = "upsert" /\ e.path = job[w].path /\ e.hash = job[w].hash /\ e.out = Tail(out)
    BY <1>1, <1>2 DEF Job
  <2>3. Head(out) \in ToSet(out) /\ ToSet(Tail(out)) \subseteq ToSet(out)
    <3>1. Head(out) = out[1] /\ 1 \in DOMAIN out
      BY <1>2, <1>5
    <3>2. \A i \in DOMAIN Tail(out) : i + 1 \in DOMAIN out /\ Tail(out)[i] = out[i + 1]
      BY <1>2, <1>5
    <3> QED BY <3>1, <3>2 DEF ToSet
  <2>4. Head(out).path = job[w].path /\ artifactOK(Head(out), job[w].hash)
    BY <1>1, <2>3 DEF FreshInv, MadeInv
  <2>5. ListedInv'
    <3>1. \A k \in DOMAIN listed' : \/ k = Head(out) /\ listed'[k] = job[w].hash
                                    \/ k \in DOMAIN listed /\ listed'[k] = listed[k]
      BY <2>1 DEF with
    <3>2. \A k, h : artifactOK(k, h)' <=> artifactOK(k, h)
      BY <1>1 DEF artifactOK, excused
    <3> HIDE DEF out
    <3> QED BY <1>1, <1>2, <2>4, <3>1, <3>2 DEF FreshInv, ListedInv
  <2>6. /\ job'[w] = e /\ \A x \in Workers \ {w} : job'[x] = job[x]
    BY <2>1 DEF Go, GenerationInv, JobsInv
  <2> HIDE DEF e
  <2>7. ReadInv'
    <3>1. "upsert" \notin reading
      BY DEF reading
    <3> QED BY <1>1, <2>2, <2>6, <3>1 DEF FreshInv, ReadInv, excused, reading
  <2>8. MadeInv'
    <3>1. \A k, h : artifactOK(k, h)' <=> artifactOK(k, h)
      BY <1>1 DEF artifactOK, excused
    <3>2. ASSUME NEW x \in Workers, job'[x].pc # "idle", NEW k \in ToSet(job'[x].out)
          PROVE  k.path = job'[x].path /\ artifactOK(k, job'[x].hash)
      <4>1. CASE x = w
        <5>1. k \in ToSet(out)
          BY <2>2, <2>3, <2>6, <3>2, <4>1
        <5> QED BY <1>1, <2>2, <2>6, <4>1, <5>1 DEF FreshInv, MadeInv
      <4>2. CASE x # w
        BY <2>6, <3>2, <4>2 DEF FreshInv, MadeInv
      <4> QED BY <4>1, <4>2
    <3> QED BY <3>1, <3>2 DEF MadeInv
  <2> QED BY <2>5, <2>7, <2>8 DEF FreshInv
<1> QED BY <1>3, <1>4, <1>5

LEMMA CompressFresh ==
    ASSUME GenerationInv, FreshInv, NEW w \in Workers, Compress(w)
    PROVE  FreshInv'
<1> DEFINE e == [job[w] EXCEPT !.pc = "write", !.body = src[job[w].path]]
<1>1. UNCHANGED <<src, assets, takenBack, listed, files>> /\ job[w].pc = "run"
  BY DEF Compress, outside, At
<1>2. CASE Fail(w)
  BY <1>1, <1>2, FailFresh
<1>3. CASE Skip(w)
  BY <1>1, <1>3, SkipFresh
<1>4. CASE Go(w, e)
  <2>1. /\ e.pc = "write" /\ e.path = job[w].path /\ e.hash = job[w].hash
        /\ e.out = job[w].out /\ e.body = src[job[w].path]
    BY JobFacts DEF Job
  <2> HIDE DEF e
  <2> QED BY <1>1, <1>4, <2>1, OneFresh
<1> QED BY <1>2, <1>3, <1>4 DEF Compress, Broken, Interrupted

LEMMA WriteEncodingFresh ==
    ASSUME GenerationInv, FreshInv, NEW w \in Workers, WriteEncoding(w)
    PROVE  FreshInv'
<1> DEFINE key == encodingKey(job[w].path, Head(job[w].tasks))
<1>1. UNCHANGED <<src, assets, takenBack, listed>> /\ job[w].pc = "write" /\ job[w].pc \in reading
  BY DEF WriteEncoding, outside, At, reading
<1>2. CASE Fail(w) /\ UNCHANGED files
  BY <1>1, <1>2, FailFresh
<1>3. CASE Succeed(w, <<key>>) /\ files' = with(files, <<key, job[w].hash>>, job[w].body)
  <2>1. key.path = job[w].path
    BY DEF encodingKey
  <2> HIDE DEF key
  <2>2. ToSet(<<key>>) = {key}
    BY DEF ToSet
  <2> QED BY <1>1, <1>3, <2>1, <2>2, WrittenIsExcused, SucceedFresh
<1> QED BY <1>2, <1>3 DEF WriteEncoding, Broken

LEMMA LoadSourceFresh ==
    ASSUME GenerationInv, FreshInv, NEW w \in Workers, LoadSource(w)
    PROVE  FreshInv'
<1> DEFINE pic == Picture[job[w].path][src[job[w].path]]
           e == loaded(job[w], src[job[w].path], estimate(job[w], pic))
<1>1. UNCHANGED <<src, assets, takenBack, listed, files>> /\ job[w].pc = "load"
  BY DEF LoadSource, outside, At
<1>2. CASE Fail(w)
  BY <1>1, <1>2, FailFresh
<1>3. CASE Skip(w)
  BY <1>1, <1>3, SkipFresh
<1>4. CASE Go(w, e)
  <2>1. PICK n : n = estimate(job[w], pic)
    OBVIOUS
  <2>2. e = loaded(job[w], src[job[w].path], n)
    BY <2>1
  <2>3. /\ e.path = job[w].path /\ e.hash = job[w].hash
        /\ e.out = job[w].out /\ e.body = src[job[w].path]
    BY <2>2, JobFacts DEF Job, loaded
  <2> HIDE DEF e
  <2> QED BY <1>1, <1>4, <2>3, OneFresh
<1> QED BY <1>2, <1>3, <1>4 DEF LoadSource, Broken, loaded

LEMMA GenerateFresh ==
    ASSUME GenerationInv, FreshInv, NEW w \in Workers, Generate(w)
    PROVE  FreshInv'
<1> DEFINE e == generated(job[w], exportLibvipsVariants(job[w]))
<1>1. /\ UNCHANGED <<src, assets, takenBack, listed, files>>
      /\ job[w].pc = "generate" /\ "generate" \in reading
  BY DEF Generate, outside, At, reading
<1>2. CASE Fail(w)
  BY <1>1, <1>2, FailFresh
<1>3. CASE Go(w, e)
  <2>1. PICK results : results = exportLibvipsVariants(job[w])
    OBVIOUS
  <2>2. e = generated(job[w], results)
    BY <2>1
  <2>3. /\ e.path = job[w].path /\ e.hash = job[w].hash
        /\ e.out = job[w].out /\ e.body = job[w].body
    BY <2>2, JobFacts DEF Job, generated
  <2> HIDE DEF e
  <2> QED BY <1>1, <1>3, <2>3, OneFresh
<1> QED BY <1>2, <1>3 DEF Generate, Broken, generated

LEMMA StoreImageFresh ==
    ASSUME GenerationInv, FreshInv, NEW w \in Workers, StoreImage(w)
    PROVE  FreshInv'
<1> DEFINE j == job[w]
           key == Head(j.results).key
<1>1. /\ UNCHANGED <<src, assets, takenBack, listed>>
      /\ j.pc = "store" /\ j.pc \in reading
  BY DEF StoreImage, outside, At, reading
<1>2. /\ j \in Job /\ JobOK(j) /\ j.out \in Seq(Key) /\ j.results \in Seq(Result)
  <2>1. JobOK(j) /\ j \in Job
    BY JobFacts
  <2> HIDE DEF j
  <2> QED BY <2>1 DEF Job
<1>3. CASE Succeed(w, j.out) /\ UNCHANGED files
  <2>1. \A k \in ToSet(j.out) :
           k.path = j.path /\ (<<k, j.hash>> \in DOMAIN files =>
                                 excused(k.path, j.hash, files[<<k, j.hash>>]))
    BY <1>1 DEF FreshInv, MadeInv, artifactOK
  <2> QED BY <1>1, <1>3, <2>1, SucceedFresh
<1>4. CASE Fail(w) /\ UNCHANGED files
  BY <1>1, <1>4, FailFresh
<1>5. CASE Go(w, [j EXCEPT !.results = Tail(j.results)]) /\ UNCHANGED files
  <2> DEFINE e == [j EXCEPT !.results = Tail(j.results)]
  <2>1. /\ e.pc = j.pc /\ e.path = j.path /\ e.hash = j.hash
        /\ e.out = j.out /\ e.body = j.body
    <3> HIDE DEF j
    <3> QED BY <1>2 DEF Job
  <2> HIDE DEF e
  <2> QED BY <1>1, <1>5, <2>1, OneFresh DEF e
<1>6. CASE /\ j.results # <<>>
           /\ Go(w, [j EXCEPT !.results = Tail(j.results), !.out = Append(j.out, key)])
           /\ files' = with(files, <<key, j.hash>>, j.body)
  <2> DEFINE e == [j EXCEPT !.results = Tail(j.results), !.out = Append(j.out, key)]
  <2>1. key.path = j.path
    BY <1>1, <1>2, <1>6, HeadOfResults
  <2>2. /\ \A f \in DOMAIN files' : \/ f \in DOMAIN files /\ files'[f] = files[f]
                                    \/ excused(f[1].path, f[2], files'[f])
        /\ excused(key.path, j.hash, files'[<<key, j.hash>>])
    <3> HIDE DEF key
    <3> QED BY <1>1, <1>6, <2>1, WrittenIsExcused
  <2>3. /\ e.pc = j.pc /\ e.path = j.path /\ e.hash = j.hash
        /\ e.out = Append(j.out, key) /\ e.body = j.body
    <3> HIDE DEF j, key
    <3> QED BY <1>2 DEF Job
  <2>4. ToSet(Append(j.out, key)) \subseteq ToSet(j.out) \cup {key}
    <3> HIDE DEF j, key
    <3>1. PICK n \in Nat : n = Len(j.out)
      BY <1>2
    <3>2. /\ DOMAIN Append(j.out, key) = 1 .. n + 1 /\ DOMAIN j.out = 1 .. n
          /\ \A i \in 1 .. n + 1 : Append(j.out, key)[i] = IF i = n + 1 THEN key ELSE j.out[i]
      BY <1>2, <3>1
    <3>3. \A i \in 1 .. n + 1 : i = n + 1 \/ i \in 1 .. n
      OBVIOUS
    <3> QED BY <3>2, <3>3 DEF ToSet
  <2>5. /\ job'[w] = e /\ \A x \in Workers \ {w} : job'[x] = job[x]
    BY <1>6 DEF Go, GenerationInv, JobsInv
  <2>6. freshJob(w, job', files')
    <3>1. excused(j.path, j.hash, j.body)
      BY <1>1 DEF FreshInv, ReadInv
    <3>2. ASSUME NEW k \in ToSet(e.out)
          PROVE  k.path = j.path /\ (<<k, j.hash>> \in DOMAIN files' =>
                                       excused(k.path, j.hash, files'[<<k, j.hash>>]))
      <4>1. CASE k = key
        BY <2>1, <2>2, <4>1
      <4>2. CASE k \in ToSet(j.out)
        <5>1. k.path = j.path /\ artifactOK(k, j.hash)
          BY <1>1, <4>2 DEF FreshInv, MadeInv
        <5> DEFINE g == <<k, j.hash>>
        <5>2. g[1] = k /\ g[2] = j.hash
          OBVIOUS
        <5>3. g \in DOMAIN files' => excused(k.path, j.hash, files'[g])
          BY <2>2, <5>1, <5>2 DEF artifactOK
        <5> QED BY <5>1, <5>3
      <4> QED BY <2>3, <2>4, <3>2, <4>1, <4>2
    <3> HIDE DEF e, key
    <3> QED BY <1>1, <2>3, <2>5, <3>1, <3>2 DEF freshJob
  <2>7. \A x \in Workers \ {w} : freshJob(x, job', files')
    BY <2>2, <2>5, StaysFresh
  <2> QED BY <1>1, <2>2, <2>6, <2>7, FreshMove
<1> QED BY <1>3, <1>4, <1>5, <1>6 DEF StoreImage, Broken

\* Steps of one worker that read no more than what is there and write nothing.
LEMMA PlainFresh ==
    ASSUME GenerationInv, FreshInv, NEW w \in Workers,
           \/ Plan(w) \/ Execute(w) \/ NextStage(w) \/ AskForSlot(w) \/ AcquireSlot(w)
           \/ StopWaiting(w) \/ AcquireMemory(w) \/ ReadPixels(w)
    PROVE  FreshInv'
<1>1. UNCHANGED <<src, assets, takenBack, listed, files>>
  BY DEF Plan, Execute, NextStage, AskForSlot, AcquireSlot, StopWaiting, AcquireMemory, ReadPixels,
         outside
<1>2. job[w] \in Job
  BY JobFacts
<1>3. CASE Plan(w)
  <2> DEFINE e == withTasks(job[w], IF Stages[job[w].stage] = "image" THEN planImage(job[w])
                                    ELSE planCompression(job[w]))
  <2>1. Go(w, e) /\ job[w].pc = "plan"
    BY <1>3 DEF Plan, At, withTasks
  <2>2. PICK tasks : e = withTasks(job[w], tasks)
    OBVIOUS
  <2>3. /\ e.pc = "task" /\ e.path = job[w].path /\ e.hash = job[w].hash /\ e.out = job[w].out
        /\ "task" \notin reading
    BY <1>2, <2>2 DEF withTasks, Job, reading
  <2> HIDE DEF e
  <2> QED BY <1>1, <2>1, <2>3, OneFresh
<1>4. CASE Execute(w)
  <2>1. PICK pc \in {"joined", "run"} : Go(w, [job[w] EXCEPT !.pc = pc]) /\ job[w].pc = "task"
    BY <1>4 DEF Execute, At
  <2> DEFINE e == [job[w] EXCEPT !.pc = pc]
  <2>2. /\ e.pc \notin reading /\ e.path = job[w].path /\ e.hash = job[w].hash
        /\ e.out = job[w].out
    BY <1>2 DEF Job, reading
  <2>3. Go(w, e)
    BY <2>1
  <2> HIDE DEF e
  <2> QED BY <1>1, <2>1, <2>2, <2>3, OneFresh
<1>5. CASE NextStage(w)
  <2>1. CASE Go(w, Idle)
    <3>1. Idle.pc = "idle"
      BY DEF Idle
    <3> QED BY <1>1, <2>1, <3>1, OneFresh
  <2>2. CASE Go(w, [job[w] EXCEPT !.pc = "plan", !.stage = job[w].stage + 1])
    <3> DEFINE e == [job[w] EXCEPT !.pc = "plan", !.stage = job[w].stage + 1]
    <3>1. PICK n : n = job[w].stage + 1
      OBVIOUS
    <3>2. e = [job[w] EXCEPT !.pc = "plan", !.stage = n]
      BY <3>1
    <3>3. /\ e.pc \notin reading /\ e.path = job[w].path /\ e.hash = job[w].hash
          /\ e.out = job[w].out
      BY <1>2, <3>2 DEF Job, reading
    <3>4. job[w].pc = "task" /\ Go(w, e)
      BY <1>5, <2>2 DEF NextStage, At
    <3> HIDE DEF e
    <3> QED BY <1>1, <3>3, <3>4, OneFresh
  <2> QED BY <1>5, <2>1, <2>2 DEF NextStage
<1>6. CASE AskForSlot(w)
  <2>1. CASE Fail(w)
    BY <1>1, <2>1, FailFresh
  <2>2. CASE \E bytes : Go(w, asking(job[w], bytes)) /\ job[w].pc = "run"
    <3>1. PICK bytes : Go(w, asking(job[w], bytes)) /\ job[w].pc = "run"
      BY <2>2
    <3> DEFINE e == asking(job[w], bytes)
    <3>2. /\ e.pc \notin reading /\ e.path = job[w].path /\ e.hash = job[w].hash
          /\ e.out = job[w].out
      BY <1>2 DEF Job, reading, asking
    <3>3. Go(w, e)
      BY <3>1
    <3> HIDE DEF e
    <3> QED BY <1>1, <3>1, <3>2, <3>3, OneFresh
  <2> QED BY <1>6, <2>1, <2>2 DEF AskForSlot, Broken, Interrupted, asking, At
<1>7. CASE AcquireSlot(w)
  <2> DEFINE e == [job[w] EXCEPT !.pc = "load"]
  <2>1. Go(w, e) /\ job[w].pc = "slot"
    BY <1>7 DEF AcquireSlot, At
  <2>2. /\ e.pc \notin reading /\ e.path = job[w].path /\ e.hash = job[w].hash
        /\ e.out = job[w].out
    BY <1>2 DEF Job, reading
  <2> HIDE DEF e
  <2> QED BY <1>1, <2>1, <2>2, OneFresh
<1>8. CASE StopWaiting(w)
  BY <1>1, <1>8, FailFresh DEF StopWaiting
<1>9. CASE AcquireMemory(w)
  <2> DEFINE e == [job[w] EXCEPT !.pc = "generate"]
  <2>1. Go(w, e) /\ job[w].pc = "memory" /\ "memory" \in reading
    BY <1>9 DEF AcquireMemory, At, reading
  <2>2. /\ e.path = job[w].path /\ e.hash = job[w].hash
        /\ e.out = job[w].out /\ e.body = job[w].body
    BY <1>2 DEF Job
  <2> HIDE DEF e
  <2> QED BY <1>1, <2>1, <2>2, OneFresh
<1>10. CASE ReadPixels(w)
  <2> DEFINE e == [job[w] EXCEPT !.body = src[job[w].path]]
  <2>1. Go(w, e) /\ job[w].pc = "generate"
    BY <1>10 DEF ReadPixels, At
  <2>2. /\ e.path = job[w].path /\ e.hash = job[w].hash
        /\ e.out = job[w].out /\ e.body = src[job[w].path]
    BY <1>2 DEF Job
  <2> HIDE DEF e
  <2> QED BY <1>1, <2>1, <2>2, OneFresh
<1> QED BY <1>3, <1>4, <1>5, <1>6, <1>7, <1>8, <1>9, <1>10

LEMMA ProcessFresh ==
    ASSUME GenerationInv, FreshInv, NEW w \in Workers, NEW r, process(w, r)
    PROVE  FreshInv'
<1> DEFINE formats == planFormats(r.path, r.formats)
           widths == planWidths(r.path, r.widths, r.formats, formats)
<1>1. UNCHANGED <<src, assets, takenBack, listed, files>>
  BY DEF process, outside
<1>2. CASE UNCHANGED job
  BY <1>1, <1>2 DEF FreshInv, ReadInv, MadeInv, ListedInv, artifactOK, excused
<1>3. CASE Go(w, planning(r.path, assets[r.path], r.encodings, formats, widths))
  <2> DEFINE e == planning(r.path, assets[r.path], r.encodings, formats, widths)
  <2>1. e.pc = "plan" /\ e.out = <<>> /\ "plan" \notin reading
    BY DEF planning, Idle, reading
  <2>2. Go(w, e)
    BY <1>3
  <2> HIDE DEF e
  <2> QED BY <1>1, <2>1, <2>2, OneFresh
<1> QED BY <1>2, <1>3 DEF process, planning

(***************************************************************************)
(* When a content comes back, everyone who is still at it is recorded: the *)
(* worker at work, and the catalog for what it lists.                      *)
(***************************************************************************)
LEMMA EditSourceFresh ==
    ASSUME GenerationInv, FreshInv, NEW p \in Assets, EditSource(p)
    PROVE  FreshInv'
<1>1. PICK v \in 0 .. MaxContent :
         /\ src' = [src EXCEPT ![p] = v]
         /\ takenBack' = [takenBack EXCEPT ![p] = takenBack[p] \cup ({v} \cap pending(p))]
  BY DEF EditSource
<1>2. UNCHANGED <<assets, listed, files, job>>
  BY DEF EditSource
<1>3. ASSUME NEW q \in Assets, NEW h, NEW c, excused(q, h, c), q = p => h \in pending(p)
      PROVE  excused(q, h, c)'
  <2>1. CASE q = p
    <3>1. src'[p] = v /\ takenBack'[p] = takenBack[p] \cup ({v} \cap pending(p))
      BY <1>1 DEF GenerationInv, SourceInv
    <3> QED BY <1>3, <2>1, <3>1 DEF excused
  <2>2. CASE q # p
    <3>1. src'[q] = src[q] /\ takenBack'[q] = takenBack[q]
      BY <1>1, <2>2 DEF GenerationInv, SourceInv
    <3> QED BY <1>3, <3>1 DEF excused
  <2> QED BY <2>1, <2>2
<1>4. ASSUME NEW w \in Workers, job[w].pc # "idle"
      PROVE  job[w].path \in Assets /\ (job[w].path = p => job[w].hash \in pending(p))
  <2>1. job[w].path \in Assets
    BY <1>4, JobFacts DEF JobOK, Planned
  <2> QED BY <2>1 DEF pending
<1>5. ReadInv'
  <2>1. "idle" \notin reading
    BY DEF reading
  <2>2. ASSUME NEW w \in Workers, job[w].pc \in reading
        PROVE  excused(job[w].path, job[w].hash, job[w].body)'
    <3>1. excused(job[w].path, job[w].hash, job[w].body)
      BY <2>2 DEF FreshInv, ReadInv
    <3>3. PICK q, h, c : q = job[w].path /\ h = job[w].hash /\ c = job[w].body
      OBVIOUS
    <3>4. excused(q, h, c)'
      BY <1>3, <1>4, <2>1, <2>2, <3>1, <3>3
    <3> QED BY <1>2, <3>3, <3>4 DEF excused
  <2> QED BY <1>2, <2>2 DEF ReadInv, reading
<1>6. ASSUME NEW k, NEW h, artifactOK(k, h), k.path \in Assets, k.path = p => h \in pending(p)
      PROVE  artifactOK(k, h)'
  <2> DEFINE f == <<k, h>>
  <2> SUFFICES ASSUME f \in DOMAIN files PROVE excused(k.path, h, files[f])'
    BY <1>2 DEF artifactOK, excused
  <2>1. excused(k.path, h, files[f])
    BY <1>6 DEF artifactOK
  <2>2. PICK q, c : q = k.path /\ c = files[f]
    OBVIOUS
  <2>3. excused(q, h, c)'
    BY <1>3, <1>6, <2>1, <2>2
  <2> QED BY <1>2, <2>2, <2>3 DEF excused
<1>7. MadeInv'
  <2>1. ASSUME NEW w \in Workers, job[w].pc # "idle", NEW k \in ToSet(job[w].out)
        PROVE  k.path = job[w].path /\ artifactOK(k, job[w].hash)'
    <3>1. k.path = job[w].path /\ artifactOK(k, job[w].hash)
      BY <2>1 DEF FreshInv, MadeInv
    <3>2. PICK h : h = job[w].hash
      OBVIOUS
    <3>3. artifactOK(k, h)'
      BY <1>4, <1>6, <2>1, <3>1, <3>2
    <3> QED BY <1>2, <3>1, <3>2, <3>3 DEF artifactOK
  <2> QED BY <1>2, <2>1 DEF MadeInv, artifactOK
<1>8. ListedInv'
  <2>1. ASSUME NEW k \in DOMAIN listed, assets[k.path] = listed[k]
        PROVE  artifactOK(k, listed[k])'
    <3>1. k.path \in Assets /\ artifactOK(k, listed[k])
      BY <2>1 DEF FreshInv, ListedInv
    <3>2. k.path = p => listed[k] \in pending(p)
      BY <2>1 DEF pending
    <3>3. PICK h : h = listed[k]
      OBVIOUS
    <3>4. artifactOK(k, h)'
      BY <1>6, <3>1, <3>2, <3>3
    <3> QED BY <1>2, <3>3, <3>4 DEF artifactOK
  <2> QED BY <1>2, <2>1 DEF FreshInv, ListedInv, artifactOK
<1> QED BY <1>5, <1>7, <1>8 DEF FreshInv

LEMMA RestFresh ==
    ASSUME GenerationInv, FreshInv,
           \/ \E p \in Assets : Rescan(p)
           \/ \E f \in DOMAIN files : CleanUp(f)
           \/ \E c \in {"warm", "queue"} : Cancel(c)
    PROVE  FreshInv'
<1>1. UNCHANGED <<src, takenBack, job>>
  BY DEF Rescan, CleanUp, Cancel, outside
<1>2. \A f \in DOMAIN files' : f \in DOMAIN files /\ files'[f] = files[f]
  BY DEF Rescan, CleanUp, Cancel, without
<1>3. \A k, h : artifactOK(k, h) => artifactOK(k, h)'
  BY <1>1, <1>2 DEF artifactOK, excused
<1>4. ReadInv' /\ MadeInv'
  BY <1>1, <1>3 DEF FreshInv, ReadInv, MadeInv, excused
<1>5. \A k \in DOMAIN listed' : /\ k \in DOMAIN listed /\ listed'[k] = listed[k]
                                /\ k.path \in Assets => assets'[k.path] = assets[k.path]
  <2>1. CASE \E p \in Assets : Rescan(p)
    BY <2>1 DEF Rescan, without, GenerationInv, SourceInv
  <2>2. CASE (\E f \in DOMAIN files : CleanUp(f)) \/ \E c \in {"warm", "queue"} : Cancel(c)
    BY <2>2 DEF CleanUp, Cancel, without, outside
  <2> QED BY <2>1, <2>2
<1>6. ListedInv'
  BY <1>3, <1>5 DEF FreshInv, ListedInv
<1> QED BY <1>4, <1>6 DEF FreshInv

LEMMA FreshStep == GenerationInv /\ FreshInv /\ [Next]_vars => FreshInv'
<1> SUFFICES ASSUME GenerationInv, FreshInv, [Next]_vars PROVE FreshInv'
  OBVIOUS
<1>1. CASE UNCHANGED vars
  BY <1>1 DEF vars, outside, FreshInv, ReadInv, MadeInv, ListedInv, artifactOK, excused
<1>2. ASSUME NEW w \in Workers, Work(w) PROVE FreshInv'
  BY <1>2, UpsertFresh, CompressFresh, WriteEncodingFresh, LoadSourceFresh, GenerateFresh,
     StoreImageFresh, PlainFresh DEF Work
<1>3. ASSUME NEW w \in Workers, ReadPixels(w) PROVE FreshInv'
  BY <1>3, PlainFresh
<1>4. ASSUME NEW w \in Workers, NEW r \in Requests, Begin(w, r) PROVE FreshInv'
  BY <1>4, ProcessFresh DEF Begin
<1>5. ASSUME NEW w \in Workers, NEW p \in Assets, Warm(w, p) PROVE FreshInv'
  BY <1>5, ProcessFresh DEF Warm
<1> QED BY <1>1, <1>2, <1>3, <1>4, <1>5, EditSourceFresh, RestFresh DEF Next

LEMMA FreshInit == Init => FreshInv
<1> SUFFICES ASSUME Init PROVE FreshInv
  OBVIOUS
<1>1. \A w \in Workers : job[w].pc = "idle" /\ "idle" \notin reading
  BY DEF Init, Idle, reading
<1>2. DOMAIN listed = {}
  BY DEF Init
<1> QED BY <1>1, <1>2, Zenon DEF FreshInv, ReadInv, MadeInv, ListedInv

-----------------------------------------------------------------------------
(* The theorems *)

(***************************************************************************)
(* ListedVariantsAreFresh: once the catalog has caught up with a source    *)
(* file, the artifact of every variant that it lists for the hash of that  *)
(* file was made from that content (image and compression stages of        *)
(* internal/pipeline), however edits, rescans, cleanups, cancellations and *)
(* the workers that share a task interleave: unless the content came back  *)
(* while the catalog or a worker was still at it, which nothing notices.   *)
(***************************************************************************)
THEOREM VariantsAreFresh == Spec => []ListedVariantsAreFresh
<1>1. FreshInv => ListedVariantsAreFresh
  BY DEF FreshInv, ListedInv, artifactOK, excused, usable, ListedVariantsAreFresh
<1>2. Init => GenerationInv /\ FreshInv
  BY GenerationInit, FreshInit
<1>3. GenerationInv /\ FreshInv /\ [Next]_vars => (GenerationInv /\ FreshInv)'
  BY GenerationStep, FreshStep
<1> QED BY <1>1, <1>2, <1>3, PTL DEF Spec

(***************************************************************************)
(* The picture that a worker generates from, and the bytes this really     *)
(* takes.                                                                  *)
(***************************************************************************)
pictureOf(j) == Picture[j.path][j.head]
takenBy(j) == PictureBytes(pictureOf(j).w, pictureOf(j).h, targets(j))

\* While it generates a worker takes what it has asked for.
LEMMA TakenIsEstimated ==
    ASSUME NEW j, JobOK(j), j.pc = "generate", MaxMemoryBytes # 0
    PROVE  takenBy(j) = j.bytes
<1> DEFINE pic == pictureOf(j)
<1>1. /\ j.path \in Assets /\ j.head \in 1 .. MaxContent
      /\ validateImageSourceLimits(pic.w, pic.h)
      /\ j.bytes = estimateImageBatchMemoryBytes(pic.w, pic.h, targets(j))
      /\ ~exceeds(j.bytes, MaxMemoryBytes) /\ j.bytes \in Nat
  BY DEF JobOK, Job, Planned, WasRead, Admitted, admits, pictureOf, estimate
<1>2. targets(j) \in SUBSET Int /\ IsFiniteSet(targets(j))
  BY ImageTask DEF imageSteps
<1>3. pic.w \in Nat \ {0} /\ pic.h \in Nat
  BY <1>1, PictureType DEF pictureOf, validateImageSourceLimits
<1>4. fits(pic.w, pic.h) /\ fits(pic.w * pic.h, 4)
  BY <1>1 DEF validateImageSourceLimits, imagePixelLimitsHold
<1>5. j.bytes < MaxInt
  BY <1>1, ImageLimits DEF exceeds
<1> HIDE DEF pic
<1>6. PictureBytes(pic.w, pic.h, targets(j)) = j.bytes
  BY <1>1, <1>2, <1>3, <1>4, <1>5, EstimateIsExact
<1> QED BY <1>6 DEF takenBy, pic

(***************************************************************************)
(* MemoryWithinLimit: the pictures that are generated at the same time     *)
(* take no more memory than MaxMemoryBytes, although the engine computes   *)
(* with saturating 64-bit estimates: an estimate that is granted is exact. *)
(***************************************************************************)
THEOREM MemoryIsLimited == Spec => []MemoryWithinLimit
<1>1. GenerationInv => MemoryWithinLimit
  <2> SUFFICES ASSUME GenerationInv, MaxMemoryBytes # 0
               PROVE  MapThenSumSet(LAMBDA w : takenBy(job[w]), busy) <= MaxMemoryBytes
    BY DEF MemoryWithinLimit, busy, takenBy, pictureOf
  <2> DEFINE f == [w \in busy |-> takenBy(job[w])]
             rec(g) == g = [s \in SUBSET busy |-> IF s = {} THEN 0
                              ELSE takenBy(job[pick(s)]) + g[s \ {pick(s)}]]
  <2>1. \A w \in busy : f[w] = bytesOf[w] /\ bytesOf[w] \in Nat /\ f[w] \in Nat
    <3>1. \A w \in busy : w \in Workers /\ JobOK(job[w]) /\ job[w].pc = "generate"
      BY DEF busy, At, GenerationInv, JobsInv
    <3>2. \A w \in busy : bytesOf[w] \in Nat /\ bytesOf[w] = job[w].bytes
      BY BytesAreNaturals DEF GenerationInv, busy, bytesOf
    <3> QED BY <3>1, <3>2, TakenIsEstimated
  <2>2. IsFiniteSet(busy)
    BY BytesAreNaturals DEF GenerationInv
  <2>3. \A s \in SUBSET busy : s # {} => f[pick(s)] = takenBy(job[pick(s)])
    BY DEF pick
  <2>4. MapThenSumSet(LAMBDA w : takenBy(job[w]), busy) = (CHOOSE g : rec(g))[busy]
    BY DEF MapThenSumSet, MapThenFoldSet, pick
  <2>5. \A g : rec(g) <=> Adds(g, f, busy)
    <3> HIDE DEF f
    <3> QED BY <2>3 DEF Adds
  <2> HIDE DEF f, rec
  <2>6. \E g : rec(g)
    BY <2>1, <2>2, <2>5, UnitsAdds
  <2>7. rec(CHOOSE g : rec(g))
    BY <2>6
  <2>8. (CHOOSE g : rec(g))[busy] = SumOf(f, busy)
    BY <2>1, <2>2, <2>5, <2>7, AddsSum
  <2>9. SumOf(f, busy) = SumOf(bytesOf, busy)
    BY <2>1, <2>2, SumAgree
  <2>10. memory = SumOf(bytesOf, busy) /\ memory <= MaxMemoryBytes
    BY ImageLimits DEF GenerationInv, MemoryInv, exceeds
  <2> QED BY <2>4, <2>8, <2>9, <2>10
<1> QED BY <1>1, GenerationInit, GenerationStep, PTL DEF Spec

=============================================================================
