--------------------------- MODULE CompilerProofs ---------------------------
(***************************************************************************)
(* Theorems about Compiler and their proofs: every batch accounts for all  *)
(* its items, what is published is whole, an extraction is exact, and a    *)
(* Reader sees one bundle, for any assets, variants, limits, worker counts *)
(* and bundles found at the output path.                                   *)
(***************************************************************************)
EXTENDS Compiler, Sums

-----------------------------------------------------------------------------
(* The inductive invariant *)

(***************************************************************************)
(* A batch is a record whose items are each in one place: left, handed,    *)
(* running or returned.                                                    *)
(***************************************************************************)
Outcomes == {"ok", "failed", "canceled"}
IsBatch(b) ==
    /\ b = [mode |-> b.mode, size |-> b.size, items |-> b.items, left |-> b.left,
            handed |-> b.handed, running |-> b.running, outcome |-> b.outcome, first |-> b.first]
    /\ b.mode \in {"none", "failFast", "collect"}
    /\ b.left \subseteq b.items /\ b.running \subseteq b.items /\ DOMAIN b.outcome \subseteq b.items
    /\ b.left \cap b.running = {} /\ b.left \cap DOMAIN b.outcome = {}
    /\ b.running \cap DOMAIN b.outcome = {}
    /\ NoFile \notin b.items
    /\ b.handed # NoFile => b.handed \in b.items \ (b.left \cup b.running \cup DOMAIN b.outcome)
    /\ b.outcome \in [DOMAIN b.outcome -> Outcomes]

(***************************************************************************)
(* Only a collecting batch whose context has ended drops an item; the      *)
(* first error is one of an item; and an item of a batch whose caller has  *)
(* not canceled is canceled for no other reason than an earlier failure.   *)
(***************************************************************************)
Accounts(b, c) ==
    /\ \A i \in b.items : \/ i \in b.left \/ i \in b.running \/ i \in DOMAIN b.outcome
                          \/ i = b.handed \/ (b.mode = "collect" /\ c)
    /\ b.first = "none" => \A i \in DOMAIN b.outcome : b.outcome[i] = "ok"
    /\ b.first # "none" => \E i \in DOMAIN b.outcome : b.outcome[i] = b.first
    /\ b.first # "ok"
    /\ b.mode = "failFast" /\ b.first = "canceled" => c
    /\ b.mode = "collect" /\ ~c => \A i \in DOMAIN b.outcome : b.outcome[i] # "canceled"

BatchInv == IsBatch(batch) /\ Accounts(batch, canceled)

(***************************************************************************)
(* The items that returned without an error, and the variants of such      *)
(* assets.                                                                 *)
(***************************************************************************)
okItems(b) == {i \in DOMAIN b.outcome : b.outcome[i] = "ok"}
variantsOf(S) == {v \in Variants : OwnerOf[v] \in S}

(***************************************************************************)
(* The data of a compilation are bodies of files ...                       *)
(***************************************************************************)
DataInv ==
    /\ src \in [Assets -> Bodies \cup {NoFile}]
    /\ DOMAIN scanned \subseteq Assets /\ scanned \in [DOMAIN scanned -> Bodies]
    /\ listed \subseteq Variants /\ artifacts \in [Variants -> Bodies \cup {NoFile}]
    /\ shas \in [DOMAIN shas -> Bodies]

(***************************************************************************)
(* ... and each pass adds what its batch has returned. The files are those *)
(* that were in the catalog when the bundle was begun.                     *)
(***************************************************************************)
Hashed ==
    /\ DOMAIN scanned \subseteq DOMAIN files
    /\ DOMAIN files \subseteq DOMAIN scanned \cup variantsOf(DOMAIN scanned)
    /\ withinLimits(files)
    /\ DOMAIN shas \subseteq DOMAIN files
    /\ \A f \in DOMAIN shas : SizeOf[shas[f]] = files[f]

(***************************************************************************)
(* What writeIndex writes: every file once, with the size and the hash     *)
(* that were taken before.                                                 *)
(***************************************************************************)
Indexes(index) ==
    /\ isArchive(index)
    /\ declaredPaths(index) = DOMAIN files
    /\ \A i, j \in DOMAIN index : index[i].path = index[j].path => i = j
    /\ \A i \in DOMAIN index : /\ index[i].size = files[index[i].path]
                               /\ index[i].sha = shas[index[i].path]

(***************************************************************************)
(* The temporary bundle so far: the index, then payloads of distinct       *)
(* files, each with the content that was hashed.                           *)
(***************************************************************************)
Writes(b) ==
    /\ isArchive(b) /\ Len(b) >= 1
    /\ b[1] = indexEntry(b[1].files) /\ Indexes(b[1].files)
    /\ \A i \in 2..Len(b) : b[i].path \in DOMAIN files /\ b[i].body = shas[b[i].path]
    /\ \A i, j \in 2..Len(b) : b[i].path = b[j].path => i = j

\* Where the pass is, and what the batch of the pass has added.
PassInv ==
    /\ pc \in {"idle", "scan", "warm", "hash", "write", "ok", "error", "killed"}
    /\ pc \in {"idle", "scan", "warm", "hash"} => temp = NoBundle
    /\ pc \in {"idle", "scan", "warm"} => DOMAIN shas = {}
    /\ pc = "idle" => DOMAIN scanned = {} /\ listed = {}
    /\ pc = "scan" => /\ batch.items \subseteq Assets /\ batch.mode = "failFast"
                      /\ DOMAIN scanned = okItems(batch) /\ listed = {}
    /\ pc = "warm" => /\ batch.items = DOMAIN scanned /\ batch.mode = "collect"
                      /\ listed \subseteq variantsOf(DOMAIN scanned)
    /\ pc = "hash" => /\ batch.items = DOMAIN files /\ batch.mode = "failFast"
                      /\ DOMAIN shas = okItems(batch) /\ Hashed
    /\ pc = "write" => DOMAIN shas = DOMAIN files /\ Hashed /\ Writes(temp)

(***************************************************************************)
(* The extraction has accepted the first payloads of its stream, in order. *)
(***************************************************************************)
seenIn(b, n) == {b[j + 1].path : j \in 1..n}

\* The first n payloads pass verifyPayloadEntry, in order.
Accepts(b, n) ==
    \A i \in 1..n : /\ b[i + 1].path # IndexPath
                    /\ verifyPayloadEntry(b[i + 1], b[1].files, seenIn(b, i - 1))

\* What the budget counts, and what the root holds after n payloads.
entrySizes(b, n) == [j \in 1..n |-> headerSize(b[j + 1])]
Extracted(b, n, root) ==
    /\ root = [p \in seenIn(b, n) |-> root[p]]
    /\ \A i \in 1..n : root[b[i + 1].path] = b[i + 1].body

\* None of their files is a directory of another.
Apart(b, n) == \A p, q \in seenIn(b, n) : <<p, q>> \notin Below

\* The record of an extraction.
IsExtraction(e) ==
    e = [pc |-> e.pc, source |-> e.source, stream |-> e.stream, at |-> e.at,
         budget |-> e.budget, root |-> e.root, faulty |-> e.faulty]
\* n: the payloads accepted so far.
Progress(e, n) ==
    /\ isArchive(e.stream) /\ hasIndex(e.stream)
    /\ n \in Nat /\ e.at = n + 2 /\ e.at <= Len(e.stream) + 1 /\ n <= MaxBundleFiles
    /\ Accepts(e.stream, n) /\ Extracted(e.stream, n, e.root) /\ Apart(e.stream, n)
    /\ e.budget = [files |-> n, bytes |-> SumOf(entrySizes(e.stream, n), 1..n)]
    /\ SumOf(entrySizes(e.stream, n), 1..n) <= MaxExpandedBytes

(***************************************************************************)
(* Between two payloads the extraction has accepted all the earlier ones,  *)
(* and its budget is what they take.                                       *)
(***************************************************************************)
ExtractInv ==
    /\ IsExtraction(x)
    /\ x.pc = "entries" => Progress(x, x.at - 2)
    /\ ExtractionIsExact

(***************************************************************************)
(* The Reader keeps the index of one bundle.                               *)
(***************************************************************************)
ReaderInv ==
    /\ rd = [loaded |-> rd.loaded, index |-> rd.index, from |-> rd.from, read |-> rd.read,
             reads |-> rd.reads]
    /\ rd.loaded => isArchive(rd.from) /\ rd.index = readerIndex(rd.from)
    /\ rd.read # NoFile => /\ rd.loaded /\ rd.read.path \in declaredPaths(rd.index)
                           /\ rd.read.body = fileOf(rd.index, rd.read.path).sha

\* What is found at the output path is an archive.
ArchivesInv == out # NoBundle => isArchive(out)

\* The inductive invariant.
CompilerInv ==
    /\ BatchInv /\ DataInv /\ PassInv /\ PublishedIsWhole
    /\ ArchivesInv /\ ExtractInv /\ ReaderInv

-----------------------------------------------------------------------------
(* Batches *)

(***************************************************************************)
(* NewBatch: a batch begins with all its items left.                       *)
(***************************************************************************)
LEMMA NewBatch ==
    ASSUME NEW mode \in {"none", "failFast", "collect"}, NEW items, NoFile \notin items,
           NEW size, NEW c \in BOOLEAN, NEW b, b = Run!newBatch(mode, items, size)
    PROVE  /\ IsBatch(b) /\ Accounts(b, c) /\ okItems(b) = {}
           /\ b.items = items /\ b.mode = mode
<1>1. b = [mode |-> mode, size |-> size, items |-> items, left |-> items, handed |-> NoFile,
           running |-> {}, outcome |-> [i \in {} |-> "ok"], first |-> "none"]
  BY DEF Run!newBatch
<1>2. DOMAIN b.outcome = {} /\ b.outcome \in [DOMAIN b.outcome -> Outcomes]
  BY <1>1
<1>3. /\ b.mode = mode /\ b.items = items /\ b.left = items /\ b.handed = NoFile
      /\ b.running = {} /\ b.first = "none"
  BY <1>1
<1>4. IsBatch(b)
  <2>1. b = [mode |-> b.mode, size |-> b.size, items |-> b.items, left |-> b.left,
             handed |-> b.handed, running |-> b.running, outcome |-> b.outcome,
             first |-> b.first]
    BY <1>1
  <2> QED BY <1>2, <1>3, <2>1 DEF IsBatch
<1>5. Accounts(b, c)
  BY <1>2, <1>3 DEF Accounts
<1> QED BY <1>2, <1>3, <1>4, <1>5 DEF okItems

(***************************************************************************)
(* ReturnsFields: what the return of an item changes of its batch.         *)
(***************************************************************************)
LEMMA ReturnsFields ==
    ASSUME IsBatch(batch), NEW i, NEW o, NEW b, b = Run!returns(i, o)
    PROVE  /\ b = [mode |-> b.mode, size |-> b.size, items |-> b.items, left |-> b.left,
                   handed |-> b.handed, running |-> b.running, outcome |-> b.outcome,
                   first |-> b.first]
           /\ b.mode = batch.mode /\ b.items = batch.items /\ b.left = batch.left
           /\ b.running = batch.running \ {i}
           /\ b.handed = IF batch.handed = i THEN NoFile ELSE batch.handed
           /\ b.outcome = [j \in DOMAIN batch.outcome \cup {i} |->
                              IF j = i THEN o ELSE batch.outcome[j]]
           /\ b.first = IF batch.first = "none" /\ o # "ok" THEN o ELSE batch.first
  BY DEF IsBatch, Run!returns

(***************************************************************************)
(* ItemReturns: an item that has been started returns with an outcome, and *)
(* the batch still accounts for all its items.  An item is canceled only   *)
(* when its context has ended: that of the caller, or in a batch that ends *)
(* with its first error that of the group.                                 *)
(***************************************************************************)
LEMMA ItemReturns ==
    ASSUME BatchInv, NEW i \in batch.items, i \in batch.running \/ i = batch.handed,
           NEW o \in Outcomes, o = "canceled" => Run!itemContextDone,
           NEW b, b = Run!returns(i, o)
    PROVE  /\ IsBatch(b) /\ Accounts(b, canceled)
           /\ b.items = batch.items /\ b.mode = batch.mode
           /\ okItems(b) = IF o = "ok" THEN okItems(batch) \cup {i} ELSE okItems(batch)
<1> DEFINE was == batch.outcome
           is == b.outcome
<1>1. IsBatch(batch) /\ Accounts(batch, canceled)
  BY DEF BatchInv
<1>2. /\ b = [mode |-> b.mode, size |-> b.size, items |-> b.items, left |-> b.left,
              handed |-> b.handed, running |-> b.running, outcome |-> b.outcome,
              first |-> b.first]
      /\ b.mode = batch.mode /\ b.items = batch.items /\ b.left = batch.left
      /\ b.running = batch.running \ {i}
      /\ b.handed = IF batch.handed = i THEN NoFile ELSE batch.handed
      /\ is = [j \in DOMAIN was \cup {i} |-> IF j = i THEN o ELSE was[j]]
      /\ b.first = IF batch.first = "none" /\ o # "ok" THEN o ELSE batch.first
  BY <1>1, ReturnsFields
<1>3. /\ DOMAIN is = DOMAIN was \cup {i} /\ is[i] = o
      /\ \A j \in DOMAIN was : j # i => is[j] = was[j]
  BY <1>2
<1>4. i \notin DOMAIN was /\ i \notin batch.left /\ i # NoFile
  BY <1>1 DEF IsBatch
<1>5. was \in [DOMAIN was -> Outcomes]
  BY <1>1 DEF IsBatch
<1>6. is \in [DOMAIN is -> Outcomes]
  BY <1>2, <1>3, <1>5
<1> HIDE DEF was, is
<1>7. IsBatch(b)
  BY <1>1, <1>2, <1>3, <1>4, <1>6 DEF IsBatch, was, is
<1>8. Accounts(b, canceled)
  <2>1. \A j \in b.items : \/ j \in b.left \/ j \in b.running \/ j \in DOMAIN is
                           \/ j = b.handed \/ (b.mode = "collect" /\ canceled)
    BY <1>1, <1>2, <1>3 DEF Accounts, was
  <2>2. b.first = "none" => \A j \in DOMAIN is : is[j] = "ok"
    BY <1>1, <1>2, <1>3 DEF Accounts, was, Outcomes
  <2>3. b.first # "none" => \E j \in DOMAIN is : is[j] = b.first
    <3>1. CASE batch.first = "none"
      BY <3>1, <1>2, <1>3
    <3>2. CASE batch.first # "none"
      <4>1. PICK j \in DOMAIN was : was[j] = batch.first
        BY <3>2, <1>1 DEF Accounts, was
      <4> QED BY <3>2, <4>1, <1>2, <1>3, <1>4
    <3> QED BY <3>1, <3>2
  <2>4. b.first # "ok"
    BY <1>1, <1>2 DEF Accounts
  <2>5. (b.mode = "failFast" /\ b.first = "canceled") => canceled
    BY <1>1, <1>2 DEF Accounts, Run!itemContextDone, Run!groupDone
  <2>6. (b.mode = "collect" /\ ~canceled) => \A j \in DOMAIN is : is[j] # "canceled"
    BY <1>1, <1>2, <1>3 DEF Accounts, was, Run!itemContextDone
  <2> QED BY <2>1, <2>2, <2>3, <2>4, <2>5, <2>6 DEF Accounts, is
<1>9. okItems(b) = IF o = "ok" THEN okItems(batch) \cup {i} ELSE okItems(batch)
  BY <1>3, <1>4 DEF okItems, was, is
<1> QED BY <1>2, <1>7, <1>8, <1>9

(***************************************************************************)
(* BatchScheduled: handing an item out, starting it and giving up on it    *)
(* keep the account of the batch.                                          *)
(***************************************************************************)
LEMMA BatchScheduled ==
    ASSUME BatchInv, UNCHANGED canceled,
           (\E i \in batch.items : Run!Hand(i) \/ Run!Start(i)) \/ Run!GiveUpHanding
    PROVE  /\ BatchInv'
           /\ batch'.items = batch.items /\ batch'.mode = batch.mode
           /\ okItems(batch') = okItems(batch)
<1>0. IsBatch(batch) /\ Accounts(batch, canceled)
  BY DEF BatchInv
<1>1. ASSUME NEW i \in batch.items, Run!Hand(i)
      PROVE  /\ BatchInv'
             /\ batch'.items = batch.items /\ batch'.mode = batch.mode
             /\ okItems(batch') = okItems(batch)
  <2>1. /\ batch' = [mode |-> batch'.mode, size |-> batch'.size, items |-> batch'.items,
                     left |-> batch'.left, handed |-> batch'.handed, running |-> batch'.running,
                     outcome |-> batch'.outcome, first |-> batch'.first]
        /\ batch'.mode = batch.mode /\ batch'.items = batch.items
        /\ batch'.left = batch.left \ {i} /\ batch'.handed = i
        /\ batch'.running = batch.running
        /\ batch'.outcome = batch.outcome /\ batch'.first = batch.first
    BY <1>0, <1>1 DEF IsBatch, Run!Hand
  <2>2. i \in batch.left /\ batch.handed = NoFile
    BY <1>1 DEF Run!Hand
  <2>3. IsBatch(batch')
    BY <1>0, <2>1, <2>2 DEF IsBatch
  <2>4. Accounts(batch', canceled')
    BY <1>0, <2>1, <2>2 DEF Accounts, IsBatch
  <2> QED BY <2>1, <2>3, <2>4 DEF BatchInv, okItems
<1>2. ASSUME NEW i \in batch.items, Run!Start(i)
      PROVE  /\ BatchInv'
             /\ batch'.items = batch.items /\ batch'.mode = batch.mode
             /\ okItems(batch') = okItems(batch)
  <2>1. batch.handed = i
    BY <1>2 DEF Run!Start
  <2>2. CASE ~Run!Serial /\ Run!itemContextDone
    <3>1. batch' = Run!returns(i, "canceled")
      BY <1>2, <2>2 DEF Run!Start
    <3>2. "canceled" \in Outcomes
      BY DEF Outcomes
    <3> QED BY <2>1, <2>2, <3>1, <3>2, ItemReturns DEF BatchInv
  <2>3. CASE ~(~Run!Serial /\ Run!itemContextDone)
    <3>1. /\ batch' = [mode |-> batch'.mode, size |-> batch'.size, items |-> batch'.items,
                       left |-> batch'.left, handed |-> batch'.handed,
                       running |-> batch'.running, outcome |-> batch'.outcome,
                       first |-> batch'.first]
          /\ batch'.mode = batch.mode /\ batch'.items = batch.items
          /\ batch'.left = batch.left /\ batch'.handed = NoFile
          /\ batch'.running = batch.running \cup {i}
          /\ batch'.outcome = batch.outcome /\ batch'.first = batch.first
      BY <1>0, <1>2, <2>3 DEF IsBatch, Run!Start
    <3>2. IsBatch(batch')
      BY <1>0, <2>1, <3>1 DEF IsBatch
    <3>3. Accounts(batch', canceled')
      BY <1>0, <2>1, <3>1 DEF Accounts, IsBatch
    <3> QED BY <3>1, <3>2, <3>3 DEF BatchInv, okItems
  <2> QED BY <2>2, <2>3
<1>3. ASSUME Run!GiveUpHanding
      PROVE  /\ BatchInv'
             /\ batch'.items = batch.items /\ batch'.mode = batch.mode
             /\ okItems(batch') = okItems(batch)
  <2>1. /\ batch' = [mode |-> batch'.mode, size |-> batch'.size, items |-> batch'.items,
                     left |-> batch'.left, handed |-> batch'.handed, running |-> batch'.running,
                     outcome |-> batch'.outcome, first |-> batch'.first]
        /\ batch'.mode = batch.mode /\ batch'.items = batch.items
        /\ batch'.left = batch.left /\ batch'.handed = NoFile
        /\ batch'.running = batch.running
        /\ batch'.outcome = batch.outcome /\ batch'.first = batch.first
    BY <1>0, <1>3 DEF IsBatch, Run!GiveUpHanding
  <2>2. batch.mode = "collect" /\ canceled
    BY <1>3 DEF Run!GiveUpHanding
  <2>3. IsBatch(batch')
    BY <1>0, <2>1 DEF IsBatch
  <2>4. Accounts(batch', canceled')
    BY <1>0, <2>1, <2>2 DEF Accounts
  <2> QED BY <2>1, <2>3, <2>4 DEF BatchInv, okItems
<1> QED BY <1>1, <1>2, <1>3

(***************************************************************************)
(* EndedWithoutError: such a batch has run all its items and each is ok.   *)
(***************************************************************************)
LEMMA EndedWithoutError ==
    ASSUME BatchInv, Run!Ended, Run!Errors = {}
    PROVE  okItems(batch) = batch.items
<1>1. IsBatch(batch) /\ Accounts(batch, canceled)
  BY DEF BatchInv
<1>2. batch.mode \in {"failFast", "collect"} /\ batch.handed = NoFile /\ batch.running = {}
  BY <1>1 DEF IsBatch, Run!Ended
<1>3. ~canceled /\ \A i \in DOMAIN batch.outcome : batch.outcome[i] = "ok"
  <2>1. CASE batch.mode = "failFast"
    <3>1. batch.first = "none" /\ ~canceled
      BY <2>1 DEF Run!Errors, Run!contextErr
    <3> QED BY <3>1, <1>1 DEF Accounts
  <2>2. CASE batch.mode = "collect"
    <3>1. Run!Failed = {} /\ ~canceled /\ Run!Canceled = {}
      BY <2>2 DEF Run!Errors, Run!contextErr
    <3>2. \A i \in DOMAIN batch.outcome : batch.outcome[i] \in Outcomes
      BY <1>1 DEF IsBatch
    <3> QED BY <3>1, <3>2 DEF Run!Failed, Run!Canceled, Run!Returned, Outcomes
  <2> QED BY <1>2, <2>1, <2>2
<1>4. batch.left = {}
  <2>1. batch.first = "none" \/ batch.mode = "collect"
    BY <1>1, <1>2, <1>3 DEF Accounts
  <2> QED BY <1>2, <1>3, <2>1 DEF Run!Ended, Run!SchedulingEnds, Run!groupDone
<1>5. DOMAIN batch.outcome = batch.items
  BY <1>1, <1>2, <1>3, <1>4 DEF IsBatch, Accounts
<1> QED BY <1>3, <1>5 DEF okItems

(***************************************************************************)
(* BatchAccounts: the inductive invariant gives the account.               *)
(***************************************************************************)
LEMMA BatchAccounts == BatchInv => BatchesAccountForAll
<1> SUFFICES ASSUME BatchInv, Run!Ended PROVE BatchesAccountForAll
  BY DEF BatchesAccountForAll, Run!BatchAccountsForAll
<1>1. IsBatch(batch) /\ Accounts(batch, canceled)
  BY DEF BatchInv
<1>2. batch.handed = NoFile /\ batch.running = {}
  BY DEF Run!Ended
<1>3. Run!Errors = {} => batch.items = {i \in Run!Returned : batch.outcome[i] = "ok"}
  BY EndedWithoutError DEF okItems, Run!Returned
<1>4. (batch.mode = "collect" /\ ~canceled) =>
         Run!Returned = batch.items /\ Run!Errors = Run!Failed
  <2> SUFFICES ASSUME batch.mode = "collect", ~canceled
               PROVE  Run!Returned = batch.items /\ Run!Errors = Run!Failed
    OBVIOUS
  <2>1. batch.left = {}
    BY DEF Run!Ended, Run!SchedulingEnds
  <2>2. Run!Returned = batch.items
    BY <1>1, <1>2, <2>1 DEF IsBatch, Accounts, Run!Returned
  <2>3. Run!Canceled = {}
    BY <1>1 DEF Accounts, Run!Canceled, Run!Returned
  <2> QED BY <2>2, <2>3 DEF Run!Errors, Run!contextErr
<1>5. (batch.mode = "failFast" /\ ~canceled /\ Run!Errors # {}) =>
         Run!Errors = {"failed"} /\ Run!Failed # {}
  <2> SUFFICES ASSUME batch.mode = "failFast", ~canceled, Run!Errors # {}
               PROVE  Run!Errors = {"failed"} /\ Run!Failed # {}
    OBVIOUS
  <2>1. batch.first # "none" /\ Run!Errors = {batch.first}
    BY DEF Run!Errors, Run!contextErr
  <2>2. PICK i \in DOMAIN batch.outcome : batch.outcome[i] = batch.first
    BY <1>1, <2>1 DEF Accounts
  <2>3. batch.first \in Outcomes
    BY <1>1, <2>2 DEF IsBatch
  <2>4. batch.first = "failed"
    BY <1>1, <2>3 DEF Accounts, Outcomes
  <2> QED BY <2>1, <2>2, <2>4 DEF Run!Failed, Run!Returned
<1> QED BY <1>3, <1>4, <1>5 DEF BatchesAccountForAll, Run!BatchAccountsForAll

-----------------------------------------------------------------------------
(* Archives *)

(***************************************************************************)
(* ArchiveShape: an archive is a sequence, and so are its payloads.        *)
(***************************************************************************)
LEMMA ArchiveShape ==
    ASSUME NEW b, isArchive(b)
    PROVE  Len(b) \in Nat /\ DOMAIN b = 1..Len(b)
  BY DEF isArchive

\* Archives as the provers see them: functions on 1..n.
LEMMA SequenceIsArchive ==
    ASSUME NEW S, NEW b \in Seq(S)
    PROVE  isArchive(b)
<1> DEFINE R == {b[i] : i \in DOMAIN b}
<1>1. PICK n \in Nat : n = Len(b)
  OBVIOUS
<1>2. DOMAIN b = 1..n /\ b = [i \in 1..n |-> b[i]]
  BY <1>1
<1>3. \A i \in 1..n : b[i] \in R
  BY <1>2
<1> HIDE DEF R
<1>4. [i \in 1..n |-> b[i]] \in Seq(R)
  BY <1>3
<1> QED BY <1>2, <1>4 DEF isArchive, R

\* The payloads are the archive without its first entry.
LEMMA PayloadsShape ==
    ASSUME NEW b, isArchive(b), b # <<>>
    PROVE  /\ Len(b) >= 1
           /\ DOMAIN payloads(b) = 1..(Len(b) - 1)
           /\ \A i \in 1..(Len(b) - 1) : payloads(b)[i] = b[i + 1]
<1>1. PICK S : b \in Seq(S)
  BY DEF isArchive
<1>2. Len(b) \in Nat /\ Len(b) >= 1
  BY <1>1
<1> QED BY <1>1, <1>2 DEF payloads

(***************************************************************************)
(* VerifyAccepts: Verify is what the extraction checks entry by entry.     *)
(***************************************************************************)
LEMMA VerifyAccepts ==
    ASSUME NEW b, isArchive(b), hasIndex(b)
    PROVE  Verify(b) <=>
             /\ Accepts(b, Len(b) - 1)
             /\ withinBudget(entrySizes(b, Len(b) - 1))
             /\ declaredPaths(b[1].files) \subseteq seenIn(b, Len(b) - 1)
<1> DEFINE n == Len(b) - 1
           e == payloads(b)
<1>1. /\ n \in Nat /\ DOMAIN e = 1..n
      /\ \A i \in 1..n : e[i] = b[i + 1]
  BY ArchiveShape, PayloadsShape DEF hasIndex
<1>2. \A i \in 1..n : {e[j].path : j \in 1..(i - 1)} = seenIn(b, i - 1)
  BY <1>1 DEF seenIn
<1>3. {e[i].path : i \in DOMAIN e} = seenIn(b, n)
  BY <1>1 DEF seenIn
<1>4. [i \in DOMAIN e |-> headerSize(e[i])] = entrySizes(b, n)
  BY <1>1 DEF entrySizes
<1> HIDE DEF n, e
<1>5. verifyBundleEntries(b) <=>
         /\ \A i \in DOMAIN e : e[i].path # IndexPath
         /\ withinBudget([i \in DOMAIN e |-> headerSize(e[i])])
         /\ \A i \in DOMAIN e : verifyPayloadEntry(e[i], b[1].files, {e[j].path : j \in 1..(i - 1)})
         /\ declaredPaths(b[1].files) \subseteq {e[i].path : i \in DOMAIN e}
  BY DEF verifyBundleEntries, e
<1>6. Accepts(b, n) <=>
         /\ \A i \in DOMAIN e : e[i].path # IndexPath
         /\ \A i \in DOMAIN e : verifyPayloadEntry(e[i], b[1].files, {e[j].path : j \in 1..(i - 1)})
  BY <1>1, <1>2 DEF Accepts
<1> QED BY <1>3, <1>4, <1>5, <1>6 DEF Verify, n

(***************************************************************************)
(* DeclaredOnce: an index that is valid declares a path at one place.      *)
(***************************************************************************)
LEMMA DeclaredOnce ==
    ASSUME NEW index, validateIndex(index), NEW p \in declaredPaths(index)
    PROVE  /\ p \notin {Unsafe, IndexPath}
           /\ fileOf(index, p).size <= MaxFileBytes
           /\ fileOf(index, p).sha \in Bodies
           /\ \A i \in DOMAIN index : index[i].path = p => fileOf(index, p) = index[i]
<1>1. \E i \in DOMAIN index : index[i].path = p
  BY DEF declaredPaths
<1> DEFINE i == CHOOSE k \in DOMAIN index : index[k].path = p
<1>2. i \in DOMAIN index /\ index[i].path = p
  BY <1>1
<1>3. fileOf(index, p) = index[i]
  BY DEF fileOf
<1> HIDE DEF i
<1>4. validateIndexFile(index[i])
  BY <1>2 DEF validateIndex
<1>5. \A j \in DOMAIN index : index[j].path = p => i = j
  BY <1>2 DEF validateIndex
<1> QED BY <1>2, <1>3, <1>4, <1>5 DEF validateIndexFile

(***************************************************************************)
(* FirstEntry: readBundleEntry finds the first entry with a path.          *)
(***************************************************************************)
LEMMA FirstEntry ==
    ASSUME NEW b, isArchive(b), NEW p, entriesAt(b, p) # {}
    PROVE  /\ firstEntryAt(b, p) \in DOMAIN b /\ b[firstEntryAt(b, p)].path = p
           /\ \A j \in DOMAIN b : b[j].path = p => firstEntryAt(b, p) <= j
<1>1. entriesAt(b, p) \in SUBSET Nat
  BY ArchiveShape DEF entriesAt
<1>2. \E i \in entriesAt(b, p) : \A j \in entriesAt(b, p) : i <= j
  BY <1>1, LeastNatural
<1>3. /\ firstEntryAt(b, p) \in entriesAt(b, p)
      /\ \A j \in entriesAt(b, p) : firstEntryAt(b, p) <= j
  BY <1>2 DEF firstEntryAt
<1> QED BY <1>3 DEF entriesAt

(***************************************************************************)
(* ReaderFindsIndex: of a bundle that Verify accepts a Reader loads the    *)
(* index that Verify has checked.                                          *)
(***************************************************************************)
LEMMA ReaderFindsIndex ==
    ASSUME NEW b, isArchive(b), hasIndex(b)
    PROVE  readerIndexOk(b) /\ readerIndex(b) = b[1].files
<1>1. 1 \in DOMAIN b /\ b[1].path = IndexPath /\ Len(b) \in Nat /\ DOMAIN b = 1..Len(b)
  BY ArchiveShape, PayloadsShape DEF hasIndex
<1>2. entriesAt(b, IndexPath) # {}
  BY <1>1 DEF entriesAt
<1>3. firstEntryAt(b, IndexPath) \in DOMAIN b /\ firstEntryAt(b, IndexPath) <= 1
  BY <1>1, <1>2, FirstEntry
<1>4. firstEntryAt(b, IndexPath) = 1
  BY <1>1, <1>3
<1>5. entryFound(b, IndexPath)
  BY <1>1, <1>2, <1>4 DEF entryFound, cleanTarEntryPath, IndexPath, Unsafe
<1> QED BY <1>4, <1>5 DEF readerIndexOk, readerIndex, hasIndex

(***************************************************************************)
(* VerifiedIsReadable: every file of a bundle that Verify accepts is found *)
(* by a Reader and has the declared size and digest.                       *)
(***************************************************************************)
LEMMA VerifiedIsReadable ==
    ASSUME NEW b, isArchive(b), Verify(b), NEW p \in declaredPaths(readerIndex(b))
    PROVE  readFileOk(b, readerIndex(b), p)
<1> DEFINE index == b[1].files
           n == Len(b) - 1
           i == firstEntryAt(b, p)
<1>1. hasIndex(b) /\ validateIndex(index)
  BY DEF Verify, hasIndex
<1>2. readerIndex(b) = index
  BY <1>1, ReaderFindsIndex
<1>3. Accepts(b, n) /\ index = b[1].files /\ declaredPaths(index) \subseteq seenIn(b, n)
  BY <1>1, VerifyAccepts
<1>4. Len(b) \in Nat /\ Len(b) >= 1 /\ DOMAIN b = 1..Len(b) /\ b[1].path = IndexPath
  BY <1>1, ArchiveShape, PayloadsShape DEF hasIndex
<1>5. /\ p \notin {Unsafe, IndexPath} /\ p \in declaredPaths(index)
      /\ fileOf(index, p).size <= MaxFileBytes /\ fileOf(index, p).sha \in Bodies
  BY <1>1, <1>2, DeclaredOnce
<1> HIDE DEF index
<1>6. PICK k \in 1..n : b[k + 1].path = p
  BY <1>3, <1>5 DEF seenIn
<1>7. entriesAt(b, p) # {}
  BY <1>4, <1>6 DEF entriesAt
<1>8. i \in DOMAIN b /\ b[i].path = p
  BY <1>7, FirstEntry
<1>9. i # 1 /\ i - 1 \in 1..n /\ (i - 1) + 1 = i
  BY <1>4, <1>5, <1>8
<1>10. verifyPayloadEntry(b[i], index, seenIn(b, (i - 1) - 1))
  BY <1>3, <1>9 DEF Accepts
<1>11. \A j \in DOMAIN b : cleanTarEntryPath(b[j])
  <2> SUFFICES ASSUME NEW j \in DOMAIN b PROVE cleanTarEntryPath(b[j])
    OBVIOUS
  <2>1. CASE j = 1
    BY <1>4, <2>1 DEF cleanTarEntryPath, IndexPath, Unsafe
  <2>2. CASE j # 1
    <3>1. j - 1 \in 1..n /\ (j - 1) + 1 = j
      BY <1>4, <2>2
    <3>2. verifyPayloadEntry(b[j], index, seenIn(b, (j - 1) - 1))
      BY <1>3, <3>1 DEF Accepts
    <3> QED BY <3>2 DEF verifyPayloadEntry
  <2> QED BY <2>1, <2>2
<1>12. entryFound(b, p)
  BY <1>4, <1>7, <1>8, <1>11 DEF entryFound
<1>13. /\ b[i].body # NoBody
       /\ verifyCopiedPayload(fileOf(index, p), b[i].body)
  BY <1>8, <1>10 DEF verifyPayloadEntry
<1>14. SizeOf[b[i].body] <= MaxFileBytes
  BY <1>5, <1>13 DEF verifyCopiedPayload
<1> HIDE DEF i
<1> QED BY <1>2, <1>5, <1>12, <1>13, <1>14 DEF readFileOk, i

(***************************************************************************)
(* ReaderIsRight: the index a Reader keeps and the body it has read        *)
(* belong together, whatever stands at the output path.                    *)
(***************************************************************************)
LEMMA ReaderIsRight == ReaderInv /\ ArchivesInv => ReaderSeesOneBundle
<1> SUFFICES ASSUME ReaderInv, ArchivesInv PROVE ReaderSeesOneBundle
  OBVIOUS
<1>1. ASSUME rd.read # NoFile, Verify(rd.from)
      PROVE  rd.read.body = Unpacked(rd.from)[rd.read.path]
  <2>1. /\ isArchive(rd.from) /\ rd.index = readerIndex(rd.from)
        /\ rd.read.path \in declaredPaths(rd.index)
        /\ rd.read.body = fileOf(rd.index, rd.read.path).sha
    BY <1>1 DEF ReaderInv
  <2>2. rd.index = rd.from[1].files
    BY <1>1, <2>1, ReaderFindsIndex DEF Verify
  <2> QED BY <2>1, <2>2 DEF Unpacked
<1>2. ASSUME out # NoBundle, Verify(out)
      PROVE  /\ readerIndexOk(out)
             /\ \A p \in declaredPaths(readerIndex(out)) : readFileOk(out, readerIndex(out), p)
  <2>1. isArchive(out)
    BY <1>2 DEF ArchivesInv
  <2> QED BY <1>2, <2>1, ReaderFindsIndex, VerifiedIsReadable DEF Verify
<1> QED BY <1>1, <1>2 DEF ReaderSeesOneBundle, ReaderInv

(***************************************************************************)
(* The steps of the Reader: it takes the index of one bundle, and a body   *)
(* only when its hash is the one this index declares.                      *)
(***************************************************************************)
LEMMA LoadIndexKeeps ==
    ASSUME ReaderInv, ArchivesInv, LoadIndex
    PROVE  ReaderInv'
<1>1. /\ rd' = [loaded |-> TRUE, index |-> readerIndex(out), from |-> out, read |-> rd.read,
                reads |-> rd.reads]
      /\ out # NoBundle /\ ~rd.loaded
  BY DEF LoadIndex, ReaderInv
<1>2. isArchive(out)
  BY <1>1 DEF ArchivesInv
<1>3. rd.read = NoFile
  BY <1>1 DEF ReaderInv
<1> QED BY <1>1, <1>2, <1>3 DEF ReaderInv

LEMMA ReadFileKeeps ==
    ASSUME ReaderInv, NEW path \in declaredPaths(rd.index), ReadFile(path)
    PROVE  ReaderInv'
<1> DEFINE body == readFileBody(out, path)
           ok == readFileOk(out, rd.index, path)
<1>1. /\ rd.loaded
      /\ rd' = [loaded |-> rd.loaded, index |-> rd.index, from |-> rd.from,
                read |-> IF ok THEN payloadEntry(path, body) ELSE NoFile, reads |-> rd.reads + 1]
  BY DEF ReadFile, ReaderInv
<1>2. ok => body = fileOf(rd.index, path).sha
  BY DEF readFileOk, readFileBody, verifyCopiedPayload
<1> HIDE DEF body, ok
<1>3. /\ rd'.loaded /\ rd'.index = rd.index /\ rd'.from = rd.from
      /\ rd'.read = IF ok THEN payloadEntry(path, body) ELSE NoFile
      /\ rd' = [loaded |-> rd'.loaded, index |-> rd'.index, from |-> rd'.from, read |-> rd'.read,
                reads |-> rd'.reads]
  BY <1>1
<1>4. payloadEntry(path, body).path = path /\ payloadEntry(path, body).body = body
  BY DEF payloadEntry
<1> QED BY <1>1, <1>2, <1>3, <1>4 DEF ReaderInv

-----------------------------------------------------------------------------
(* Extraction *)

(***************************************************************************)
(* BudgetIsSum: the limits bound the number of the files and their sum.    *)
(***************************************************************************)
LEMMA BudgetIsSum ==
    ASSUME NEW sizes
    PROVE  withinBudget(sizes) <=> /\ Cardinality(DOMAIN sizes) <= MaxBundleFiles
                                   /\ SumOf(sizes, DOMAIN sizes) <= MaxExpandedBytes
  BY DEF withinBudget, SumOf

\* The budget check of the whole is the one the loop makes entry by entry.
LEMMA EntryBudget ==
    ASSUME NEW b, NEW n \in Nat
    PROVE  withinBudget(entrySizes(b, n)) <=>
             n <= MaxBundleFiles /\ SumOf(entrySizes(b, n), 1..n) <= MaxExpandedBytes
<1>1. DOMAIN entrySizes(b, n) = 1..n
  BY DEF entrySizes
<1>2. Cardinality(1..n) = n
  BY FS_Interval
<1> QED BY <1>1, <1>2, BudgetIsSum

(***************************************************************************)
(* AcceptedEntries: the payloads that were accepted are declared and have  *)
(* the declared bodies, so that their sizes are numbers.                   *)
(***************************************************************************)
LEMMA AcceptedEntries ==
    ASSUME NEW b, validateIndex(b[1].files), NEW n \in Nat, Accepts(b, n), NEW i \in 1..n
    PROVE  /\ b[i + 1].path \in declaredPaths(b[1].files)
           /\ b[i + 1].body = fileOf(b[1].files, b[i + 1].path).sha
           /\ headerSize(b[i + 1]) \in Nat
<1> DEFINE e == b[i + 1]
           index == b[1].files
<1>1. verifyPayloadEntry(e, index, seenIn(b, i - 1))
  BY DEF Accepts
<1> HIDE DEF e, index
<1>2. /\ e.path \in declaredPaths(index) /\ e.body # NoBody
      /\ verifyCopiedPayload(fileOf(index, e.path), e.body)
  BY <1>1 DEF verifyPayloadEntry
<1>3. fileOf(index, e.path).sha \in Bodies
  BY <1>2, DeclaredOnce DEF index
<1>4. e.body = fileOf(index, e.path).sha
  BY <1>2 DEF verifyCopiedPayload
<1>5. headerSize(e) \in Nat
  BY <1>2, <1>3, <1>4, LimitsAssumption DEF headerSize
<1> QED BY <1>2, <1>4, <1>5 DEF e, index

(***************************************************************************)
(* NextSum: the budget's bytes grow by the size of the next entry.         *)
(***************************************************************************)
LEMMA NextSum ==
    ASSUME NEW b, NEW n \in Nat, \A i \in 1..(n + 1) : headerSize(b[i + 1]) \in Nat
    PROVE  /\ SumOf(entrySizes(b, n), 1..n) \in Nat
           /\ SumOf(entrySizes(b, n + 1), 1..(n + 1)) =
                SumOf(entrySizes(b, n), 1..n) + headerSize(b[n + 2])
<1> DEFINE s == entrySizes(b, n)
           t == entrySizes(b, n + 1)
<1>1. /\ \A i \in 1..(n + 1) : t[i] = headerSize(b[i + 1])
      /\ \A i \in 1..n : s[i] = headerSize(b[i + 1])
  BY DEF entrySizes
<1>2. IsFiniteSet(1..n) /\ IsFiniteSet(1..(n + 1))
  BY FS_Interval
<1>3. (1..(n + 1)) \ {n + 1} = 1..n /\ n + 1 \in 1..(n + 1) /\ (n + 1) + 1 = n + 2
  OBVIOUS
<1> HIDE DEF s, t
<1>4. /\ SumOf(t, 1..(n + 1)) = t[n + 1] + SumOf(t, (1..(n + 1)) \ {n + 1})
      /\ SumOf(t, (1..(n + 1)) \ {n + 1}) \in Nat
  <2>1. \A i \in 1..(n + 1) : t[i] \in Nat
    BY <1>1
  <2> QED BY <1>2, <1>3, <2>1, SumRemove
<1>5. SumOf(t, 1..n) = SumOf(s, 1..n)
  <2>1. \A i \in 1..n : s[i] \in Nat /\ t[i] = s[i]
    BY <1>1
  <2> QED BY <1>2, <2>1, SumAgree
<1>6. t[n + 1] = headerSize(b[n + 2])
  BY <1>1, <1>3
<1>7. headerSize(b[n + 2]) \in Nat
  BY <1>3
<1>8. SumOf(t, (1..(n + 1)) \ {n + 1}) = SumOf(s, 1..n)
  BY <1>3, <1>5
<1>9. SumOf(s, 1..n) \in Nat /\ SumOf(t, 1..(n + 1)) = headerSize(b[n + 2]) + SumOf(s, 1..n)
  BY <1>4, <1>6, <1>8
<1>10. SumOf(t, 1..(n + 1)) = SumOf(s, 1..n) + headerSize(b[n + 2])
  BY <1>7, <1>9
<1> QED BY <1>9, <1>10 DEF s, t

(***************************************************************************)
(* PrefixSum: the bytes of the first entries are among those of all.       *)
(***************************************************************************)
LEMMA PrefixSum ==
    ASSUME NEW b, NEW m \in Nat, NEW n \in 0..m, \A i \in 1..m : headerSize(b[i + 1]) \in Nat
    PROVE  SumOf(entrySizes(b, n), 1..n) <= SumOf(entrySizes(b, m), 1..m)
<1> DEFINE s == entrySizes(b, n)
           t == entrySizes(b, m)
<1>1. /\ \A i \in 1..m : t[i] = headerSize(b[i + 1])
      /\ \A i \in 1..n : s[i] = headerSize(b[i + 1])
  BY DEF entrySizes
<1>2. IsFiniteSet(1..n) /\ IsFiniteSet(1..m)
  BY FS_Interval
<1>3. 1..n \in SUBSET (1..m)
  OBVIOUS
<1> HIDE DEF s, t
<1>4. \A i \in 1..m : t[i] \in Nat
  BY <1>1
<1>5. SumOf(t, 1..n) <= SumOf(t, 1..m)
  BY <1>2, <1>3, <1>4, SumSubset
<1>6. SumOf(t, 1..n) = SumOf(s, 1..n)
  <2>1. \A i \in 1..n : s[i] \in Nat /\ t[i] = s[i]
    BY <1>1
  <2> QED BY <1>2, <2>1, SumAgree
<1> QED BY <1>5, <1>6 DEF s, t

(***************************************************************************)
(* VerifiedNeverRefused: a bundle that Verify accepts is within budget at  *)
(* each of its entries, so that no extraction of it is refused.            *)
(***************************************************************************)
LEMMA VerifiedNeverRefused ==
    ASSUME NEW b, isArchive(b), Verify(b), NEW n \in Nat, n + 2 <= Len(b), NEW e, e = b[n + 2]
    PROVE  /\ e.path # IndexPath
           /\ verifyPayloadEntry(e, b[1].files, seenIn(b, n))
           /\ budgetAllows([files |-> n, bytes |-> SumOf(entrySizes(b, n), 1..n)], headerSize(e))
<1> DEFINE m == Len(b) - 1
           used == SumOf(entrySizes(b, n), 1..n)
           size == headerSize(e)
<1>1. hasIndex(b) /\ validateIndex(b[1].files)
  BY DEF Verify, hasIndex
<1>2. m \in Nat /\ n + 1 \in 1..m /\ n + 1 \in 0..m /\ (n + 1) + 1 = n + 2 /\ (n + 1) - 1 = n
  BY ArchiveShape
<1>3. Accepts(b, m) /\ withinBudget(entrySizes(b, m))
  BY <1>1, VerifyAccepts
<1> HIDE DEF m
<1>4. e.path # IndexPath /\ verifyPayloadEntry(e, b[1].files, seenIn(b, n))
  BY <1>2, <1>3 DEF Accepts
<1>5. \A i \in 1..m : headerSize(b[i + 1]) \in Nat
  BY <1>1, <1>2, <1>3, AcceptedEntries
<1>6. m <= MaxBundleFiles /\ SumOf(entrySizes(b, m), 1..m) <= MaxExpandedBytes
  BY <1>2, <1>3, EntryBudget
<1>7. used \in Nat /\ SumOf(entrySizes(b, n + 1), 1..(n + 1)) = used + size
  <2>1. \A i \in 1..(n + 1) : headerSize(b[i + 1]) \in Nat
    BY <1>2, <1>5
  <2> QED BY <2>1, NextSum
<1>8. SumOf(entrySizes(b, n + 1), 1..(n + 1)) <= SumOf(entrySizes(b, m), 1..m)
  BY <1>2, <1>5, PrefixSum
<1>9. size \in Nat
  <2>1. headerSize(b[(n + 1) + 1]) \in Nat
    BY <1>2, <1>5
  <2> QED BY <1>2, <2>1
<1>10. SumOf(entrySizes(b, m), 1..m) \in Nat
  <2>1. /\ IsFiniteSet(1..m)
        /\ \A i \in 1..m : entrySizes(b, m)[i] \in Nat
    BY <1>2, <1>5, FS_Interval DEF entrySizes
  <2> QED BY <2>1, SumIsCardinality
<1> HIDE DEF used, size
<1>11. used + size <= MaxExpandedBytes
  BY <1>6, <1>7, <1>8, <1>9, <1>10, LimitsAssumption
<1>12. budgetAllows([files |-> n, bytes |-> used], size)
  BY <1>2, <1>6, <1>7, <1>9, <1>11, LimitsAssumption DEF budgetAllows
<1> QED BY <1>4, <1>12 DEF used, size

(***************************************************************************)
(* ExtractionIsRefused: a failure leaves no temporary directory, and is    *)
(* due to a fault or to the bundle: what it holds or where it puts it.     *)
(***************************************************************************)
LEMMA ExtractionIsRefused ==
    ASSUME NEW e, IsExtraction(e), e.faulty \/ ~Verify(e.stream) \/ ~isTree(e.stream),
           x' = extractionFails(e)
    PROVE  ExtractInv'
<1>1. /\ x'.pc = "failed" /\ x'.source = e.source /\ x'.stream = e.stream
      /\ x'.faulty = e.faulty /\ (e.source => x'.root = NoFile)
  BY DEF IsExtraction, extractionFails
<1>2. IsExtraction(x')
  BY DEF IsExtraction, extractionFails
<1> QED BY <1>1, <1>2 DEF ExtractInv, ExtractionIsExact

\* The steps of an extraction. It starts with nothing accepted ...
LEMMA ExtractKeeps ==
    ASSUME ExtractInv, ArchivesInv, NEW source \in BOOLEAN, Extract(source)
    PROVE  ExtractInv'
<1> DEFINE begun == [pc |-> "entries", source |-> source, stream |-> out, at |-> 2,
                     budget |-> noBudget, root |-> emptyMap, faulty |-> FALSE]
<1>2. /\ begun.pc = "entries" /\ begun.stream = out /\ begun.root = emptyMap /\ begun.at = 2
      /\ begun.budget = noBudget /\ IsExtraction(begun)
  BY DEF IsExtraction
<1>3. x' = IF hasIndex(out) THEN begun ELSE extractionFails(begun)
  BY DEF Extract
<1>4. isArchive(out)
  BY DEF Extract, ArchivesInv
<1> HIDE DEF begun
<1>5. CASE hasIndex(out)
  <2>1. x' = begun
    BY <1>3, <1>5
  <2>2. Progress(begun, 0)
    <3>1. Len(out) \in Nat /\ Len(out) >= 1
      BY <1>4, <1>5, ArchiveShape, PayloadsShape DEF hasIndex
    <3>2. Accepts(out, 0)
      BY DEF Accepts
    <3>3. Extracted(out, 0, begun.root)
      <4>1. seenIn(out, 0) = {}
        BY DEF seenIn
      <4>2. begun.root = [p \in {} |-> begun.root[p]]
        BY <1>2 DEF emptyMap
      <4> QED BY <4>1, <4>2 DEF Extracted
    <3>4. SumOf(entrySizes(out, 0), 1..0) = 0
      <4>1. 1..0 = {}
        OBVIOUS
      <4> QED BY <4>1, SumEmpty
    <3>5. begun.budget = [files |-> 0, bytes |-> 0]
      BY <1>2 DEF noBudget
    <3>6. Apart(out, 0)
      BY DEF Apart, seenIn
    <3> QED BY <1>2, <1>4, <1>5, <3>1, <3>2, <3>3, <3>4, <3>5, <3>6, LimitsAssumption DEF Progress
  <2>3. begun.at - 2 = 0
    BY <1>2
  <2> QED BY <1>2, <2>1, <2>2, <2>3 DEF ExtractInv, ExtractionIsExact
<1>6. CASE ~hasIndex(out)
  <2>1. ~Verify(begun.stream)
    BY <1>2, <1>6 DEF Verify
  <2> QED BY <1>2, <1>3, <1>6, <2>1, ExtractionIsRefused
<1> QED BY <1>5, <1>6

(***************************************************************************)
(* AcceptsOneMore, ExtractsOneMore: the account of the accepted payloads,  *)
(* and of the files they leave, after one more.                            *)
(***************************************************************************)
LEMMA AcceptsOneMore ==
    ASSUME NEW b, NEW n \in Nat, Accepts(b, n), b[n + 2].path # IndexPath,
           verifyPayloadEntry(b[n + 2], b[1].files, seenIn(b, n))
    PROVE  Accepts(b, n + 1)
<1>1. \A i \in 1..(n + 1) : i \in 1..n \/ (i = n + 1 /\ i + 1 = n + 2 /\ i - 1 = n)
  OBVIOUS
<1> QED BY <1>1 DEF Accepts

\* ... accepts one payload more, under a path not seen before ...
LEMMA SeenOneMore ==
    ASSUME NEW b, NEW n \in Nat
    PROVE  seenIn(b, n + 1) = seenIn(b, n) \cup {b[n + 2].path}
<1>1. \A i \in 1..(n + 1) : i \in 1..n \/ (i = n + 1 /\ i + 1 = n + 2)
  OBVIOUS
<1>2. n + 1 \in 1..(n + 1) /\ (n + 1) + 1 = n + 2 /\ \A i \in 1..n : i \in 1..(n + 1)
  OBVIOUS
<1> QED BY <1>1, <1>2 DEF seenIn

LEMMA ExtractsOneMore ==
    ASSUME NEW b, NEW n \in Nat, NEW root, Extracted(b, n, root), NEW e, e = b[n + 2],
           e.path \notin seenIn(b, n)
    PROVE  Extracted(b, n + 1, with(root, e.path, e.body))
<1> DEFINE new == with(root, e.path, e.body)
<1>1. DOMAIN root = seenIn(b, n)
  BY DEF Extracted
<1>2. new = [k \in seenIn(b, n) \cup {e.path} |-> IF k = e.path THEN e.body ELSE root[k]]
  BY <1>1 DEF with
<1>3. new = [p \in seenIn(b, n + 1) |-> new[p]]
  BY <1>2, SeenOneMore
<1>4. ASSUME NEW i \in 1..(n + 1) PROVE new[b[i + 1].path] = b[i + 1].body
  <2>1. CASE i = n + 1
    <3>1. i + 1 = n + 2
      BY <2>1
    <3> QED BY <1>2, <3>1
  <2>2. CASE i # n + 1
    <3>1. i \in 1..n
      BY <2>2
    <3>2. b[i + 1].path \in seenIn(b, n) /\ root[b[i + 1].path] = b[i + 1].body
      BY <3>1 DEF seenIn, Extracted
    <3> QED BY <1>2, <3>2
  <2> QED BY <2>1, <2>2
<1> QED BY <1>3, <1>4 DEF Extracted

(***************************************************************************)
(* ApartOneMore: a path that nothing obstructs stands apart of the others, *)
(* and one that is obstructed is in no tree with them.                     *)
(***************************************************************************)
LEMMA ApartOneMore ==
    ASSUME NEW b, NEW n \in Nat, Apart(b, n), NEW root, DOMAIN root = seenIn(b, n),
           ~obstructed(root, b[n + 2].path)
    PROVE  Apart(b, n + 1)
<1>1. \A p : <<p, p>> \notin Below
  <2>1. \A pair \in Below : pair[1] # pair[2]
    BY CompilerAssumption
  <2> QED BY <2>1
<1> QED BY <1>1, SeenOneMore DEF Apart, obstructed

LEMMA ObstructedIsNoTree ==
    ASSUME NEW b, validateIndex(b[1].files), NEW n \in Nat, Accepts(b, n),
           NEW root, DOMAIN root = seenIn(b, n),
           NEW path \in declaredPaths(b[1].files), obstructed(root, path)
    PROVE  ~isTree(b)
<1>1. seenIn(b, n) \subseteq declaredPaths(b[1].files)
  BY AcceptedEntries DEF seenIn
<1> QED BY <1>1 DEF obstructed, isTree

LEMMA ExtractEntryKeeps ==
    ASSUME ExtractInv, extractPayloadEntry
    PROVE  ExtractInv'
<1> DEFINE b == x.stream
           n == x.at - 2
           e == b[n + 2]
           used == SumOf(entrySizes(b, n), 1..n)
           size == headerSize(e)
           admitted == /\ e.path # IndexPath
                       /\ budgetAllows(x.budget, size)
                       /\ verifyPayloadEntry(e, b[1].files, DOMAIN x.root)
                       /\ ~obstructed(x.root, e.path)
<1>1. x.pc = "entries" /\ Progress(x, n) /\ IsExtraction(x)
  BY DEF extractPayloadEntry, ExtractInv
<1>2. n \in Nat /\ x.at = n + 2 /\ n + 2 <= Len(b) /\ Len(b) \in Nat
  <2>1. Len(b) \in Nat
    BY <1>1, ArchiveShape DEF Progress
  <2> QED BY <1>1, <2>1 DEF Progress, extractPayloadEntry
<1>3. /\ isArchive(b) /\ hasIndex(b) /\ validateIndex(b[1].files)
      /\ Accepts(b, n) /\ Extracted(b, n, x.root) /\ Apart(b, n)
      /\ x.budget = [files |-> n, bytes |-> used]
      /\ used <= MaxExpandedBytes
  BY <1>1 DEF Progress, hasIndex
<1>4. x' = IF admitted
           THEN [x EXCEPT !.at = @ + 1, !.budget = budgetAdd(@, size),
                          !.root = with(@, e.path, e.body)]
           ELSE extractionFails(x)
  BY <1>2 DEF extractPayloadEntry
<1>5. DOMAIN x.root = seenIn(b, n)
  BY <1>3 DEF Extracted
<1> HIDE DEF n, admitted, used, size, e
<1>6. CASE admitted
  <2>1. /\ e.path # IndexPath /\ budgetAllows(x.budget, size)
        /\ verifyPayloadEntry(e, b[1].files, seenIn(b, n))
    BY <1>5, <1>6 DEF admitted
  <2>2. /\ x'.pc = x.pc /\ x'.source = x.source /\ x'.stream = b /\ x'.faulty = x.faulty
        /\ x'.at = x.at + 1 /\ x'.budget = budgetAdd(x.budget, size)
        /\ x'.root = with(x.root, e.path, e.body)
    BY <1>1, <1>4, <1>6 DEF IsExtraction
  <2>3. IsExtraction(x')
    BY <1>1, <1>4, <1>6 DEF IsExtraction
  <2>4. Accepts(b, n + 1)
    BY <1>2, <1>3, <2>1, AcceptsOneMore DEF e
  <2>5. Extracted(b, n + 1, x'.root)
    <3>1. e.path \notin seenIn(b, n)
      BY <2>1 DEF verifyPayloadEntry
    <3> QED BY <1>2, <1>3, <2>2, <3>1, ExtractsOneMore DEF e
  <2>6. \A i \in 1..(n + 1) : headerSize(b[i + 1]) \in Nat
    BY <1>2, <1>3, <2>4, AcceptedEntries
  <2>7. used \in Nat /\ SumOf(entrySizes(b, n + 1), 1..(n + 1)) = used + size
    BY <1>2, <2>6, NextSum DEF used, size, e
  <2>8. size \in Nat
    <3>1. n + 1 \in 1..(n + 1) /\ (n + 1) + 1 = n + 2
      BY <1>2
    <3> QED BY <2>6, <3>1 DEF size, e
  <2>9. n < MaxBundleFiles /\ used + size <= MaxExpandedBytes
    BY <1>2, <1>3, <2>1, <2>7, <2>8, LimitsAssumption DEF budgetAllows
  <2>10. x'.budget = [files |-> n + 1, bytes |-> used + size]
    BY <1>3, <2>2 DEF budgetAdd
  <2>11. x'.at = (n + 1) + 2 /\ x'.at <= Len(b) + 1 /\ n + 1 \in Nat /\ x'.at - 2 = n + 1
         /\ n + 1 <= MaxBundleFiles
    BY <1>2, <2>2, <2>9, LimitsAssumption
  <2>12. Progress(x', n + 1)
    <3>1. ~obstructed(x.root, e.path)
      BY <1>6 DEF admitted
    <3>2. Apart(b, n + 1)
      BY <1>2, <1>3, <1>5, <3>1, ApartOneMore DEF e
    <3> QED BY <1>3, <2>2, <2>4, <2>5, <2>7, <2>9, <2>10, <2>11, <3>2 DEF Progress
  <2>13. Progress(x', x'.at - 2)
    BY <2>11, <2>12
  <2> QED BY <1>1, <2>2, <2>3, <2>13 DEF ExtractInv, ExtractionIsExact
<1>7. CASE ~admitted
  <2>1. ~Verify(b) \/ ~isTree(b)
    <3> SUFFICES ASSUME Verify(b), isTree(b) PROVE FALSE
      OBVIOUS
    <3>1. /\ e.path # IndexPath
          /\ verifyPayloadEntry(e, b[1].files, seenIn(b, n))
          /\ budgetAllows([files |-> n, bytes |-> used], size)
      BY <1>2, <1>3, VerifiedNeverRefused DEF e, used, size
    <3>2. e.path \in declaredPaths(b[1].files)
      BY <3>1 DEF verifyPayloadEntry
    <3>3. ~obstructed(x.root, e.path)
      BY <1>2, <1>3, <1>5, <3>2, ObstructedIsNoTree
    <3> QED BY <1>3, <1>5, <1>7, <3>1, <3>3 DEF admitted
  <2> QED BY <1>1, <1>4, <1>7, <2>1, ExtractionIsRefused
<1> QED BY <1>6, <1>7

\* ... and ends with all of them, which is what Verify wants.
LEMMA ExtractEndKeeps ==
    ASSUME ExtractInv, ExtractEnd
    PROVE  ExtractInv'
<1> DEFINE b == x.stream
           n == x.at - 2
           index == b[1].files
           whole == declaredPaths(index) \subseteq DOMAIN x.root
<1>1. x.pc = "entries" /\ Progress(x, n) /\ IsExtraction(x)
  BY DEF ExtractEnd, ExtractInv
<1>2. n \in Nat /\ n = Len(b) - 1
  <2>1. Len(b) \in Nat
    BY <1>1, ArchiveShape DEF Progress
  <2> QED BY <1>1, <2>1 DEF Progress, ExtractEnd
<1>3. /\ isArchive(b) /\ hasIndex(b) /\ validateIndex(index)
      /\ Accepts(b, n) /\ Extracted(b, n, x.root) /\ Apart(b, n)
      /\ n <= MaxBundleFiles /\ SumOf(entrySizes(b, n), 1..n) <= MaxExpandedBytes
  BY <1>1 DEF Progress, hasIndex
<1>4. DOMAIN x.root = seenIn(b, n) /\ x.root = [p \in seenIn(b, n) |-> x.root[p]]
  BY <1>3 DEF Extracted
<1>5. withinBudget(entrySizes(b, n))
  BY <1>2, <1>3, EntryBudget
<1>6. Verify(b) <=> whole
  <2> HIDE DEF n
  <2> QED BY <1>2, <1>3, <1>4, <1>5, VerifyAccepts
<1>7. x' = IF whole THEN [x EXCEPT !.pc = IF x.source THEN "readonly" ELSE "done"]
           ELSE extractionFails(x)
  BY DEF ExtractEnd
<1> HIDE DEF n, whole, index
<1>8. CASE whole
  <2>1. /\ x'.stream = b /\ x'.root = x.root /\ x'.pc \in {"readonly", "done"}
        /\ IsExtraction(x')
    BY <1>1, <1>7, <1>8 DEF IsExtraction
  <2>2. declaredPaths(index) = seenIn(b, n)
    <3>1. \A i \in 1..n : b[i + 1].path \in declaredPaths(index)
      BY <1>2, <1>3, AcceptedEntries DEF index
    <3> QED BY <1>4, <1>8, <3>1 DEF whole, seenIn
  <2>3. \A p \in seenIn(b, n) : x.root[p] = fileOf(index, p).sha
    <3> SUFFICES ASSUME NEW p \in seenIn(b, n) PROVE x.root[p] = fileOf(index, p).sha
      OBVIOUS
    <3>1. PICK i \in 1..n : b[i + 1].path = p
      BY DEF seenIn
    <3>2. b[i + 1].body = fileOf(index, p).sha
      BY <1>2, <1>3, <3>1, AcceptedEntries DEF index
    <3> QED BY <1>3, <3>1, <3>2 DEF Extracted
  <2>4. x.root = Unpacked(b)
    BY <1>4, <2>2, <2>3 DEF Unpacked, index
  <2>5. isTree(b)
    BY <1>3, <2>2 DEF Apart, isTree, index
  <2> QED BY <1>6, <1>8, <2>1, <2>4, <2>5 DEF ExtractInv, ExtractionIsExact
<1>9. CASE ~whole
  BY <1>1, <1>6, <1>7, <1>9, ExtractionIsRefused
<1> QED BY <1>8, <1>9

\* Opening, closing and failing leave it alone.
LEMMA OpenSourceKeeps == ASSUME ExtractInv, OpenSource PROVE ExtractInv'
<1>1. /\ x.pc = "readonly" /\ x'.pc = "open" /\ x'.stream = x.stream /\ x'.root = x.root
      /\ IsExtraction(x')
  BY DEF ExtractInv, IsExtraction, OpenSource
<1> QED BY <1>1 DEF ExtractInv, ExtractionIsExact

LEMMA CloseSourceKeeps == ASSUME ExtractInv, CloseSource PROVE ExtractInv'
<1>1. /\ x'.pc = "closed" /\ x'.root = NoFile /\ IsExtraction(x')
  BY DEF ExtractInv, IsExtraction, CloseSource
<1> QED BY <1>1 DEF ExtractInv, ExtractionIsExact

LEMMA ExtractionFaultKeeps == ASSUME ExtractInv, ExtractionFault PROVE ExtractInv'
<1>1. /\ x'.pc = "failed" /\ x'.faulty /\ (x'.source => x'.root = NoFile) /\ IsExtraction(x')
  BY DEF ExtractInv, IsExtraction, ExtractionFault, extractionFails
<1> QED BY <1>1 DEF ExtractInv, ExtractionIsExact

-----------------------------------------------------------------------------
(* Compilation *)

(***************************************************************************)
(* What the compilation's steps preserve together.                         *)
(***************************************************************************)
CompileInv == BatchInv /\ DataInv /\ PassInv /\ PublishedIsWhole /\ ArchivesInv

(***************************************************************************)
(* Between passes there is no batch; a batch begins with all its items     *)
(* left.                                                                   *)
(***************************************************************************)
LEMMA NoBatchAccounts ==
    ASSUME batch' = Run!noBatch, canceled \in BOOLEAN, UNCHANGED canceled
    PROVE  BatchInv'
<1>1. batch' = Run!newBatch("none", {}, 1)
  BY DEF Run!noBatch
<1>2. PICK mode, items, size :
         /\ mode \in {"none", "failFast", "collect"} /\ batch' = Run!newBatch(mode, items, size) /\ NoFile \notin items
  BY <1>1
<1>3. IsBatch(batch') /\ Accounts(batch', canceled')
  BY <1>2, NewBatch
<1> QED BY <1>3 DEF BatchInv

LEMMA BeginsBatch ==
    ASSUME NEW mode \in {"failFast", "collect"}, NEW items, NoFile \notin items, NEW size,
           Run!Begin(mode, items, size), canceled \in BOOLEAN, UNCHANGED canceled
    PROVE  /\ BatchInv' /\ okItems(batch') = {}
           /\ batch'.items = items /\ batch'.mode = mode
<1>1. batch' = Run!newBatch(mode, items, size)
  BY DEF Run!Begin
<1> QED BY <1>1, NewBatch DEF BatchInv

(***************************************************************************)
(* ReturnsBatch: the item of a pass returns to its batch.                  *)
(***************************************************************************)
LEMMA ReturnsBatch ==
    ASSUME BatchInv, NEW i \in batch.running, NEW o \in Outcomes, Run!Return(i, o),
           o = "canceled" => Run!itemContextDone, UNCHANGED canceled
    PROVE  /\ BatchInv' /\ batch'.items = batch.items /\ batch'.mode = batch.mode
           /\ okItems(batch') = IF o = "ok" THEN okItems(batch) \cup {i} ELSE okItems(batch)
<1>1. batch' = Run!returns(i, o)
  BY DEF Run!Return
<1>2. i \in batch.items
  BY DEF BatchInv, IsBatch
<1> QED BY <1>1, <1>2, ItemReturns DEF BatchInv

\* Adding one entry to a map of bodies.
LEMMA WithBodies ==
    ASSUME NEW map, map \in [DOMAIN map -> Bodies], NEW key, NEW value \in Bodies
    PROVE  /\ DOMAIN with(map, key, value) = DOMAIN map \cup {key}
           /\ with(map, key, value) \in [DOMAIN with(map, key, value) -> Bodies]
           /\ with(map, key, value)[key] = value
           /\ \A k \in DOMAIN map : k # key => with(map, key, value)[k] = map[k]
  BY DEF with

(***************************************************************************)
(* ContentIsBody: the content of an asset or a variant whose file exists.  *)
(***************************************************************************)
LEMMA ContentIsBody ==
    ASSUME DataInv, NEW f \in Assets \cup Variants, contentOf(f) # NoFile
    PROVE  contentOf(f) \in Bodies
  BY CompilerAssumption DEF DataInv, contentOf

(***************************************************************************)
(* The files of a bundle are assets and variants, finitely many, under     *)
(* safe paths.                                                             *)
(***************************************************************************)
LEMMA BundleFilesAre ==
    ASSUME NEW S \in SUBSET (Assets \cup Variants)
    PROVE  /\ IsFiniteSet(S) /\ NoFile \notin S
           /\ \A f \in S : f \notin {Unsafe, IndexPath}
<1>1. IsFiniteSet(Assets \cup Variants)
  BY CompilerAssumption, FS_Union
<1> QED BY <1>1, CompilerAssumption, FS_Subset

\* What is hashed are such files.
LEMMA HashedAre ==
    ASSUME DataInv, Hashed
    PROVE  /\ DOMAIN files \in SUBSET (Assets \cup Variants)
           /\ IsFiniteSet(DOMAIN files)
           /\ \A f \in DOMAIN files : f \notin {Unsafe, IndexPath}
<1>1. DOMAIN files \in SUBSET (Assets \cup Variants)
  BY DEF DataInv, Hashed, variantsOf
<1> QED BY <1>1, BundleFilesAre

(***************************************************************************)
(* The steps of a compilation: each pass begins with a batch, and an item  *)
(* that returns adds its result. First the scan ...                        *)
(***************************************************************************)
LEMMA ScanKeeps == ASSUME CompileInv, canceled \in BOOLEAN, Scan PROVE CompileInv'
<1>1. PICK size \in Sizes : Run!Begin("failFast", {a \in Assets : src[a] # NoFile}, size)
  BY DEF Scan
<1>2. /\ BatchInv' /\ okItems(batch') = {} /\ batch'.mode = "failFast"
      /\ batch'.items = {a \in Assets : src[a] # NoFile}
  <2>1. NoFile \notin {a \in Assets : src[a] # NoFile}
    BY CompilerAssumption
  <2>2. UNCHANGED canceled
    BY DEF Scan
  <2> QED BY <1>1, <2>1, <2>2, BeginsBatch
<1>3. /\ pc = "idle" /\ pc' = "scan" /\ first' = out
      /\ UNCHANGED <<src, scanned, listed, artifacts, files, shas, temp, out>>
  BY DEF Scan
<1>4. DataInv' /\ ArchivesInv'
  BY <1>3 DEF CompileInv, DataInv, ArchivesInv
<1>5. PassInv'
  BY <1>2, <1>3 DEF CompileInv, PassInv
<1>6. PublishedIsWhole'
  BY <1>3 DEF PublishedIsWhole
<1> QED BY <1>2, <1>4, <1>5, <1>6 DEF CompileInv

LEMMA BuildAssetKeeps ==
    ASSUME CompileInv, NEW a \in batch.running, BuildAsset(a)
    PROVE  CompileInv'
<1> DEFINE o == IF src[a] = NoFile \/ Run!itemContextDone
                THEN IF Run!itemContextDone THEN "canceled" ELSE "failed" ELSE "ok"
<1>1. /\ BatchInv /\ DataInv /\ PassInv /\ PublishedIsWhole /\ ArchivesInv
  BY DEF CompileInv
<1>2. /\ pc = "scan" /\ pc' = "scan"
      /\ UNCHANGED <<src, listed, artifacts, files, shas, temp, out, canceled, first>>
  BY DEF BuildAsset
<1>3. /\ Run!Return(a, o) /\ o \in Outcomes /\ (o = "canceled" => Run!itemContextDone)
      /\ scanned' = IF o = "ok" THEN with(scanned, a, src[a]) ELSE scanned
      /\ (o = "ok" => src[a] # NoFile)
  BY DEF BuildAsset, Outcomes
<1> HIDE DEF o
<1>4. /\ BatchInv' /\ batch'.items = batch.items /\ batch'.mode = batch.mode
      /\ okItems(batch') = IF o = "ok" THEN okItems(batch) \cup {a} ELSE okItems(batch)
  BY <1>1, <1>2, <1>3, ReturnsBatch
<1>5. a \in Assets
  BY <1>1, <1>2 DEF BatchInv, IsBatch, PassInv
<1>6. /\ DOMAIN scanned' = IF o = "ok" THEN DOMAIN scanned \cup {a} ELSE DOMAIN scanned
      /\ scanned' \in [DOMAIN scanned' -> Bodies]
  <2>1. CASE o = "ok"
    <3>1. src[a] \in Bodies
      BY <1>1, <1>3, <1>5, <2>1 DEF DataInv
    <3>2. scanned \in [DOMAIN scanned -> Bodies]
      BY <1>1 DEF DataInv
    <3> QED BY <1>3, <2>1, <3>1, <3>2, WithBodies
  <2>2. CASE o # "ok"
    BY <1>1, <1>3, <2>2 DEF DataInv
  <2> QED BY <2>1, <2>2
<1>7. DataInv' /\ ArchivesInv'
  BY <1>1, <1>2, <1>5, <1>6 DEF DataInv, ArchivesInv
<1>8. PassInv'
  BY <1>1, <1>2, <1>4, <1>6 DEF PassInv
<1>9. PublishedIsWhole'
  BY <1>1, <1>2 DEF PublishedIsWhole
<1> QED BY <1>4, <1>7, <1>8, <1>9 DEF CompileInv

\* ... then the variants of what was scanned ...
LEMMA WarmKeeps == ASSUME CompileInv, canceled \in BOOLEAN, Warm PROVE CompileInv'
<1>1. /\ BatchInv /\ DataInv /\ PassInv /\ PublishedIsWhole /\ ArchivesInv
  BY DEF CompileInv
<1>2. /\ pc = "scan" /\ pc' = "warm"
      /\ UNCHANGED <<src, scanned, listed, artifacts, files, shas, temp, out, canceled, first>>
  BY DEF Warm
<1>3. PICK size \in Sizes : Run!Begin("collect", DOMAIN scanned, size)
  BY DEF Warm
<1>4. /\ BatchInv' /\ okItems(batch') = {} /\ batch'.mode = "collect"
      /\ batch'.items = DOMAIN scanned
  <2>1. NoFile \notin DOMAIN scanned
    BY <1>1, CompilerAssumption DEF DataInv
  <2> QED BY <1>2, <1>3, <2>1, BeginsBatch
<1>5. variantsOf({}) = {}
  BY DEF variantsOf
<1>6. DataInv' /\ ArchivesInv'
  BY <1>1, <1>2 DEF DataInv, ArchivesInv
<1>7. PassInv'
  BY <1>1, <1>2, <1>4, <1>5 DEF PassInv
<1>8. PublishedIsWhole'
  BY <1>1, <1>2 DEF PublishedIsWhole
<1> QED BY <1>4, <1>6, <1>7, <1>8 DEF CompileInv

LEMMA GenerateKeeps ==
    ASSUME CompileInv, NEW a \in batch.running, Generate(a)
    PROVE  CompileInv'
<1> DEFINE mine == {v \in Variants : OwnerOf[v] = a}
           no == Run!itemContextDone \/ (mine # {} /\ src[a] = NoFile)
           o == IF no THEN IF Run!itemContextDone THEN "canceled" ELSE "failed" ELSE "ok"
<1>1. /\ BatchInv /\ DataInv /\ PassInv /\ PublishedIsWhole /\ ArchivesInv
  BY DEF CompileInv
<1>2. /\ pc = "warm" /\ pc' = "warm"
      /\ UNCHANGED <<src, scanned, files, shas, temp, out, canceled, first>>
  BY DEF Generate
<1>3. \E made \in SUBSET mine :
         /\ Run!Return(a, o)
         /\ listed' = IF o = "ok" THEN listed \cup made ELSE listed
         /\ artifacts' = IF o = "ok"
                         THEN [v \in Variants |-> IF v \in made THEN src[a] ELSE artifacts[v]]
                         ELSE artifacts
  BY DEF Generate
<1>4. o \in Outcomes /\ (o = "canceled" => Run!itemContextDone)
  BY DEF Outcomes
<1> HIDE DEF o, no
<1>5. /\ BatchInv' /\ batch'.items = batch.items /\ batch'.mode = batch.mode
      /\ okItems(batch') = IF o = "ok" THEN okItems(batch) \cup {a} ELSE okItems(batch)
  BY <1>1, <1>2, <1>3, <1>4, ReturnsBatch
<1>6. a \in Assets
  BY <1>1, <1>2 DEF BatchInv, IsBatch, PassInv, DataInv
<1>7. listed' \subseteq listed \cup mine /\ artifacts' \in [Variants -> Bodies \cup {NoFile}]
  <2>1. PICK made \in SUBSET mine :
           /\ listed' = IF o = "ok" THEN listed \cup made ELSE listed
           /\ artifacts' = IF o = "ok"
                           THEN [v \in Variants |-> IF v \in made THEN src[a] ELSE artifacts[v]]
                           ELSE artifacts
    BY <1>3
  <2>2. src[a] \in Bodies \cup {NoFile} /\ artifacts \in [Variants -> Bodies \cup {NoFile}]
    BY <1>1, <1>6 DEF DataInv
  <2> HIDE DEF mine
  <2> QED BY <2>1, <2>2
<1>8. DataInv' /\ ArchivesInv'
  BY <1>1, <1>2, <1>7 DEF DataInv, ArchivesInv
<1>9. mine \subseteq variantsOf(DOMAIN scanned)
  <2>1. a \in DOMAIN scanned
    BY <1>1, <1>2 DEF BatchInv, IsBatch, PassInv
  <2> QED BY <2>1 DEF variantsOf
<1>10. PassInv'
  <2>1. listed' \subseteq variantsOf(DOMAIN scanned)
    BY <1>1, <1>2, <1>7, <1>9 DEF PassInv
  <2> QED BY <1>1, <1>2, <1>5, <2>1 DEF PassInv
<1>11. PublishedIsWhole'
  BY <1>1, <1>2 DEF PublishedIsWhole
<1> QED BY <1>5, <1>8, <1>10, <1>11 DEF CompileInv

\* ... then the hashes of all the files ...
LEMMA WriteKeeps == ASSUME CompileInv, canceled \in BOOLEAN, Write PROVE CompileInv'
<1>1. /\ BatchInv /\ DataInv /\ PassInv /\ PublishedIsWhole /\ ArchivesInv
  BY DEF CompileInv
<1>2. /\ pc = "warm" /\ pc' = "hash" /\ files' = sizesOf(BundleFiles)
      /\ withinLimits(sizesOf(BundleFiles)) /\ Run!Ended /\ Run!Errors = {}
      /\ UNCHANGED <<src, scanned, listed, artifacts, shas, temp, out, canceled, first>>
  BY DEF Write
<1>3. PICK size \in Sizes : Run!Begin("failFast", BundleFiles, size)
  BY DEF Write
<1>4. /\ BatchInv' /\ okItems(batch') = {} /\ batch'.mode = "failFast"
      /\ batch'.items = BundleFiles
  <2>1. NoFile \notin BundleFiles
    <3>1. BundleFiles \in SUBSET (Assets \cup Variants)
      BY <1>1 DEF DataInv, BundleFiles
    <3> QED BY <3>1, BundleFilesAre
  <2> QED BY <1>2, <1>3, <2>1, BeginsBatch
<1>5. DOMAIN files' = DOMAIN scanned \cup listed
  BY <1>2 DEF sizesOf, BundleFiles
<1>6. listed \subseteq variantsOf(DOMAIN scanned) /\ DOMAIN shas = {}
  BY <1>1, <1>2 DEF PassInv
<1>7. Hashed'
  <2>1. withinLimits(files)'
    BY <1>2 DEF withinLimits
  <2>2. variantsOf(DOMAIN scanned)' = variantsOf(DOMAIN scanned)
    BY <1>2 DEF variantsOf
  <2> QED BY <1>2, <1>5, <1>6, <2>1, <2>2 DEF Hashed
<1>8. DataInv' /\ ArchivesInv'
  BY <1>1, <1>2 DEF DataInv, ArchivesInv
<1>9. PassInv'
  BY <1>1, <1>2, <1>4, <1>5, <1>6, <1>7 DEF PassInv, BundleFiles
<1>10. PublishedIsWhole'
  BY <1>1, <1>2 DEF PublishedIsWhole
<1> QED BY <1>4, <1>8, <1>9, <1>10 DEF CompileInv

LEMMA HashFileKeeps ==
    ASSUME CompileInv, NEW f \in batch.running, HashFile(f)
    PROVE  CompileInv'
<1> DEFINE o == IF Run!itemContextDone \/ ~sameSize(f)
                THEN IF Run!itemContextDone THEN "canceled" ELSE "failed" ELSE "ok"
<1>1. /\ BatchInv /\ DataInv /\ PassInv /\ PublishedIsWhole /\ ArchivesInv
  BY DEF CompileInv
<1>2. /\ pc = "hash" /\ pc' = "hash"
      /\ UNCHANGED <<src, scanned, listed, artifacts, files, temp, out, canceled, first>>
  BY DEF HashFile
<1>3. /\ Run!Return(f, o) /\ o \in Outcomes /\ (o = "canceled" => Run!itemContextDone)
      /\ shas' = IF o = "ok" THEN with(shas, f, contentOf(f)) ELSE shas
      /\ (o = "ok" => sameSize(f))
  BY DEF HashFile, Outcomes
<1> HIDE DEF o
<1>4. /\ BatchInv' /\ batch'.items = batch.items /\ batch'.mode = batch.mode
      /\ okItems(batch') = IF o = "ok" THEN okItems(batch) \cup {f} ELSE okItems(batch)
  BY <1>1, <1>2, <1>3, ReturnsBatch
<1>5. Hashed /\ f \in DOMAIN files /\ DOMAIN shas = okItems(batch)
  BY <1>1, <1>2 DEF BatchInv, IsBatch, PassInv
<1>6. /\ DOMAIN shas' = IF o = "ok" THEN DOMAIN shas \cup {f} ELSE DOMAIN shas
      /\ shas' \in [DOMAIN shas' -> Bodies]
      /\ \A g \in DOMAIN shas' : SizeOf[shas'[g]] = files[g]
  <2>1. CASE o = "ok"
    <3>1. contentOf(f) # NoFile /\ SizeOf[contentOf(f)] = files[f]
      BY <1>3, <2>1 DEF sameSize
    <3>2. contentOf(f) \in Bodies
      BY <1>1, <1>5, <3>1, HashedAre, ContentIsBody
    <3>3. shas \in [DOMAIN shas -> Bodies] /\ \A g \in DOMAIN shas : SizeOf[shas[g]] = files[g]
      BY <1>1, <1>5 DEF DataInv, Hashed
    <3>4. shas' = with(shas, f, contentOf(f))
      BY <1>3, <2>1
    <3>5. /\ DOMAIN shas' = DOMAIN shas \cup {f} /\ shas' \in [DOMAIN shas' -> Bodies]
          /\ shas'[f] = contentOf(f)
          /\ \A k \in DOMAIN shas : k # f => shas'[k] = shas[k]
      <4>1. PICK body \in Bodies : body = contentOf(f)
        BY <3>2
      <4>2. shas' = with(shas, f, body)
        BY <3>4, <4>1
      <4> QED BY <3>3, <4>1, <4>2 DEF with
    <3> QED BY <2>1, <3>1, <3>3, <3>5
  <2>2. CASE o # "ok"
    BY <1>1, <1>3, <1>5, <2>2 DEF DataInv, Hashed
  <2> QED BY <2>1, <2>2
<1>7. DataInv' /\ ArchivesInv'
  BY <1>1, <1>2, <1>6 DEF DataInv, ArchivesInv
<1>8. Hashed'
  <2>1. /\ variantsOf(DOMAIN scanned)' = variantsOf(DOMAIN scanned)
        /\ withinLimits(files)' <=> withinLimits(files)
    BY <1>2 DEF variantsOf
  <2> QED BY <1>2, <1>5, <1>6, <2>1 DEF Hashed
<1>9. PassInv'
  BY <1>1, <1>2, <1>4, <1>5, <1>6, <1>8 DEF PassInv
<1>10. PublishedIsWhole'
  BY <1>1, <1>2 DEF PublishedIsWhole
<1> QED BY <1>4, <1>7, <1>9, <1>10 DEF CompileInv

(***************************************************************************)
(* BuildIndexIsRight: the index has one entry for each file, with its size *)
(* and its digest.                                                         *)
(***************************************************************************)
LEMMA BuildIndexIsRight ==
    ASSUME DataInv, Hashed
    PROVE  Indexes(buildIndex)
<1> DEFINE D == DOMAIN files
           n == Cardinality(D)
           right(s) == \A i, j \in DOMAIN s : s[i] = s[j] => i = j
           order == CHOOSE s \in [1..n -> D] : right(s)
           etagOf(f) == scanned[IF f \in Assets THEN f ELSE OwnerOf[f]]
<1>1. IsFiniteSet(D)
  BY HashedAre
<1>2. n \in Nat /\ ExistsBijection(1..n, D)
  BY <1>1, FS_CardinalityType
<1>3. \E s \in [1..n -> D] : right(s)
  BY <1>2 DEF ExistsBijection, Bijection, Injection, IsInjective
<1>4. order \in [1..n -> D] /\ right(order)
  BY <1>3
<1>5. buildIndex = [i \in DOMAIN order |-> indexFile(order[i], files[order[i]], shas[order[i]],
                                                    etagOf(order[i]))]
  BY DEF buildIndex
<1> HIDE DEF n, order, etagOf
<1>6. \A d \in D : \E i \in 1..n : order[i] = d
  <2>1. order \in Injection(1..n, D)
    BY <1>4 DEF Injection, IsInjective
  <2>2. IsFiniteSet(1..n) /\ Cardinality(1..n) = n
    BY <1>2, FS_Interval
  <2>3. order \in Surjection(1..n, D)
    BY <1>1, <2>1, <2>2, FS_Injection DEF n
  <2> QED BY <2>3 DEF Surjection
<1>7. /\ DOMAIN buildIndex = 1..n
      /\ \A i \in 1..n : /\ buildIndex[i].path = order[i]
                         /\ buildIndex[i].size = files[order[i]]
                         /\ buildIndex[i].sha = shas[order[i]]
  BY <1>4, <1>5 DEF indexFile
<1>8. isArchive(buildIndex)
  <2>1. buildIndex \in [1..n -> {buildIndex[i] : i \in DOMAIN buildIndex}]
    BY <1>4, <1>5
  <2> QED BY <1>2, <2>1 DEF isArchive
<1>9. declaredPaths(buildIndex) = DOMAIN files
  BY <1>4, <1>6, <1>7 DEF declaredPaths
<1>10. \A i, j \in DOMAIN buildIndex : buildIndex[i].path = buildIndex[j].path => i = j
  BY <1>4, <1>7
<1> QED BY <1>7, <1>8, <1>9, <1>10 DEF Indexes

(***************************************************************************)
(* ... and the writing, index first: the file is hashed again as it is     *)
(* copied, so a payload that is written has the content that the index     *)
(* declares.                                                               *)
(***************************************************************************)
LEMMA WriteIndexKeeps == ASSUME CompileInv, canceled \in BOOLEAN, WriteIndex PROVE CompileInv'
<1>1. /\ BatchInv /\ DataInv /\ PassInv /\ PublishedIsWhole /\ ArchivesInv
  BY DEF CompileInv
<1>2. /\ pc = "hash" /\ pc' = "write" /\ batch' = Run!noBatch /\ Run!Ended /\ Run!Errors = {}
      /\ temp' = <<indexEntry(buildIndex)>>
      /\ UNCHANGED <<src, scanned, listed, artifacts, files, shas, out, canceled, first>>
  BY DEF WriteIndex, Ends
<1>3. BatchInv'
  BY <1>2, NoBatchAccounts
<1>4. Hashed /\ DOMAIN shas = DOMAIN files
  <2>1. okItems(batch) = batch.items
    BY <1>1, <1>2, EndedWithoutError
  <2> QED BY <1>1, <1>2, <2>1 DEF PassInv
<1>5. Indexes(buildIndex)
  BY <1>1, <1>4, BuildIndexIsRight
<1>6. Writes(temp')
  <2>1. PICK e : e = indexEntry(buildIndex)
    OBVIOUS
  <2>2. temp' = <<e>> /\ e = indexEntry(e.files) /\ Indexes(e.files)
    BY <1>2, <1>5, <2>1 DEF indexEntry
  <2>3. Len(temp') = 1 /\ temp'[1] = e /\ isArchive(temp')
    BY <2>2 DEF isArchive
  <2>4. 2..Len(temp') = {}
    BY <2>3
  <2> QED BY <2>2, <2>3, <2>4 DEF Writes
<1>7. Writes(temp)'
  BY <1>2, <1>6 DEF Writes, Indexes
<1>8. Hashed'
  <2>1. /\ variantsOf(DOMAIN scanned)' = variantsOf(DOMAIN scanned)
        /\ withinLimits(files)' <=> withinLimits(files)
    BY <1>2 DEF variantsOf
  <2> QED BY <1>2, <1>4, <2>1 DEF Hashed
<1>9. DataInv' /\ ArchivesInv'
  BY <1>1, <1>2 DEF DataInv, ArchivesInv
<1>10. PassInv'
  BY <1>2, <1>4, <1>7, <1>8 DEF PassInv
<1>11. PublishedIsWhole'
  BY <1>1, <1>2 DEF PublishedIsWhole
<1> QED BY <1>3, <1>9, <1>10, <1>11 DEF CompileInv

(***************************************************************************)
(* FailKeeps: an error ends the compilation, and the output stays what it  *)
(* was, whether or not the temporary file could be removed.                *)
(***************************************************************************)
LEMMA FailKeeps ==
    ASSUME CompileInv, canceled \in BOOLEAN, pc # "ok", fail,
           UNCHANGED <<src, scanned, listed, artifacts, files, shas, out, canceled, first>>
    PROVE  CompileInv'
<1>1. /\ BatchInv /\ DataInv /\ PassInv /\ PublishedIsWhole /\ ArchivesInv
  BY DEF CompileInv
<1>2. pc' = "error" /\ batch' = Run!noBatch
  BY DEF fail, Ends
<1>3. BatchInv'
  BY <1>2, NoBatchAccounts
<1>4. DataInv' /\ ArchivesInv' /\ PassInv'
  BY <1>1, <1>2 DEF DataInv, ArchivesInv, PassInv
<1>5. PublishedIsWhole'
  BY <1>1, <1>2 DEF PublishedIsWhole
<1> QED BY <1>3, <1>4, <1>5 DEF CompileInv

(***************************************************************************)
(* WritesOneMore: the archive after one more payload.                      *)
(***************************************************************************)
LEMMA WritesOneMore ==
    ASSUME Writes(temp), NEW f \in DOMAIN files, toWrite(f), NEW e, e.path = f, e.body = shas[f],
           NEW b, b = Append(temp, e)
    PROVE  Writes(b)
<1> DEFINE n == Len(temp)
<1>1. PICK S : temp \in Seq(S)
  BY DEF Writes, isArchive
<1>2. n \in Nat /\ n >= 1
  BY <1>1 DEF Writes
<1>3. /\ b \in Seq(S \cup {e}) /\ Len(b) = n + 1 /\ DOMAIN b = 1..(n + 1)
      /\ \A i \in 1..n : b[i] = temp[i]
      /\ b[n + 1] = e
  BY <1>1
<1>4. isArchive(b)
  BY <1>3, SequenceIsArchive
<1>5. b[1] = temp[1]
  BY <1>2, <1>3
<1>6. \A i \in 2..Len(b) : (i \in 2..n /\ b[i] = temp[i]) \/ (i = n + 1 /\ b[i] = e)
  BY <1>2, <1>3
<1>7. \A i \in 2..Len(b) : b[i].path \in DOMAIN files /\ b[i].body = shas[b[i].path]
  BY <1>6 DEF Writes
<1>8. \A i \in 2..n : temp[i].path # f
  BY DEF toWrite
<1> HIDE DEF n
<1>9. \A i, j \in 2..Len(b) : b[i].path = b[j].path => i = j
  BY <1>6, <1>8 DEF Writes, n
<1>10. Len(b) >= 1
  BY <1>2, <1>3
<1> QED BY <1>4, <1>5, <1>7, <1>9, <1>10 DEF Writes

LEMMA WriteFileKeeps ==
    ASSUME CompileInv, canceled \in BOOLEAN, NEW f \in DOMAIN files, WriteFile(f)
    PROVE  CompileInv'
<1>1. /\ BatchInv /\ DataInv /\ PassInv /\ PublishedIsWhole /\ ArchivesInv
  BY DEF CompileInv
<1>2. /\ pc = "write" /\ toWrite(f)
      /\ UNCHANGED <<src, scanned, listed, artifacts, files, shas, out, canceled, first>>
  BY DEF WriteFile
<1>3. CASE fail
  BY <1>2, <1>3, FailKeeps
<1>4. CASE /\ ~canceled /\ sameSize(f) /\ contentOf(f) = shas[f]
           /\ temp' = Append(temp, payloadEntry(f, contentOf(f))) /\ UNCHANGED <<pc, batch>>
  <2>1. Writes(temp) /\ Hashed /\ DOMAIN shas = DOMAIN files
    BY <1>1, <1>2 DEF PassInv
  <2>2. Writes(temp')
    <3>1. PICK e : e = payloadEntry(f, contentOf(f))
      OBVIOUS
    <3>2. e.path = f /\ e.body = shas[f] /\ temp' = Append(temp, e)
      BY <1>4, <3>1 DEF payloadEntry
    <3> QED BY <1>2, <2>1, <3>2, WritesOneMore
  <2>3. Writes(temp)'
    BY <1>2, <2>2 DEF Writes, Indexes
  <2>4. Hashed'
    <3>1. /\ variantsOf(DOMAIN scanned)' = variantsOf(DOMAIN scanned)
          /\ withinLimits(files)' <=> withinLimits(files)
      BY <1>2 DEF variantsOf
    <3> QED BY <1>2, <2>1, <3>1 DEF Hashed
  <2>5. BatchInv' /\ DataInv' /\ ArchivesInv'
    BY <1>1, <1>2, <1>4 DEF BatchInv, DataInv, ArchivesInv
  <2>6. PassInv'
    BY <1>2, <1>4, <2>1, <2>3, <2>4 DEF PassInv
  <2>7. PublishedIsWhole'
    BY <1>1, <1>2, <1>4 DEF PublishedIsWhole
  <2> QED BY <2>5, <2>6, <2>7 DEF CompileInv
<1> QED BY <1>3, <1>4 DEF WriteFile

(***************************************************************************)
(* WrittenIsValid, WrittenIsAccepted: what has been written has a valid    *)
(* index, and payloads that are as it declares.                            *)
(***************************************************************************)
LEMMA SizesAre ==
    ASSUME DataInv, Hashed, DOMAIN shas = DOMAIN files
    PROVE  /\ IsFiniteSet(DOMAIN files)
           /\ \A f \in DOMAIN files : /\ f \notin {Unsafe, IndexPath}
                                      /\ files[f] \in Nat /\ files[f] <= MaxFileBytes
                                      /\ shas[f] \in Bodies /\ SizeOf[shas[f]] = files[f]
           /\ Cardinality(DOMAIN files) <= MaxBundleFiles
           /\ SumOf(files, DOMAIN files) <= MaxExpandedBytes
<1>1. withinLimits(files)
  BY DEF Hashed
<1>2. IsFiniteSet(DOMAIN files) /\ \A f \in DOMAIN files : f \notin {Unsafe, IndexPath}
  BY HashedAre
<1>3. \A f \in DOMAIN files : shas[f] \in Bodies /\ SizeOf[shas[f]] = files[f]
  BY DEF DataInv, Hashed
<1>4. \A f \in DOMAIN files : files[f] \in Nat
  BY <1>3, LimitsAssumption
<1>5. withinBudget(files) /\ \A f \in DOMAIN files : files[f] <= MaxFileBytes
  BY <1>1 DEF withinLimits
<1> QED BY <1>2, <1>3, <1>4, <1>5, BudgetIsSum

\* An index that was written passes validateIndex ...
LEMMA WrittenIsValid ==
    ASSUME DataInv, Hashed, DOMAIN shas = DOMAIN files, NEW index, Indexes(index)
    PROVE  validateIndex(index)
<1> DEFINE h == [i \in DOMAIN index |-> index[i].path]
           g == [i \in DOMAIN index |-> index[i].size]
<1>1. /\ IsFiniteSet(DOMAIN files)
      /\ \A f \in DOMAIN files : /\ f \notin {Unsafe, IndexPath}
                                 /\ files[f] \in Nat /\ files[f] <= MaxFileBytes
                                 /\ shas[f] \in Bodies
      /\ Cardinality(DOMAIN files) <= MaxBundleFiles
      /\ SumOf(files, DOMAIN files) <= MaxExpandedBytes
  BY SizesAre
<1>2. \A i \in DOMAIN index : index[i].path \in DOMAIN files
  BY DEF Indexes, declaredPaths
<1>3. \A i \in DOMAIN index : validateIndexFile(index[i])
  BY <1>1, <1>2 DEF Indexes, validateIndexFile
<1>4. \A i, j \in DOMAIN index : index[i].path = index[j].path => i = j
  BY DEF Indexes
<1>5. h \in Bijection(DOMAIN index, DOMAIN files)
  <2>1. h \in [DOMAIN index -> DOMAIN files]
    BY <1>2
  <2>2. \A d \in DOMAIN files : \E i \in DOMAIN index : h[i] = d
    BY DEF Indexes, declaredPaths
  <2> QED BY <1>4, <2>1, <2>2 DEF Bijection, Injection, Surjection, IsInjective
<1>6. DOMAIN g = DOMAIN index /\ \A i \in DOMAIN index : g[i] = files[h[i]]
  BY DEF Indexes
<1> HIDE DEF h, g
<1>7. Cardinality(DOMAIN g) = Cardinality(DOMAIN files) /\ SumOf(g, DOMAIN g) = SumOf(files,
          DOMAIN files)
  BY <1>1, <1>5, <1>6, SumBijection
<1>8. withinBudget(g)
  BY <1>1, <1>7, BudgetIsSum
<1> QED BY <1>3, <1>4, <1>8 DEF validateIndex, g

\* ... and a bundle with all its payloads passes Verify.
LEMMA WrittenIsAccepted ==
    ASSUME DataInv, Hashed, DOMAIN shas = DOMAIN files, NEW b, Writes(b),
           \A f \in DOMAIN files : \E i \in 2..Len(b) : b[i].path = f
    PROVE  Verify(b)
<1> DEFINE index == b[1].files
           m == Len(b) - 1
           D == DOMAIN files
           h == [j \in 1..m |-> b[j + 1].path]
           g == entrySizes(b, m)
<1>1. isArchive(b) /\ Indexes(index) /\ b[1] = indexEntry(index)
  BY DEF Writes
<1>2. Len(b) \in Nat /\ DOMAIN b = 1..Len(b) /\ Len(b) >= 1 /\ m \in Nat
  BY <1>1, ArchiveShape DEF Writes
<1>3. /\ IsFiniteSet(D)
      /\ \A f \in D : /\ f \notin {Unsafe, IndexPath} /\ files[f] \in Nat
                      /\ shas[f] \in Bodies /\ SizeOf[shas[f]] = files[f]
      /\ Cardinality(D) <= MaxBundleFiles /\ SumOf(files, D) <= MaxExpandedBytes
  BY SizesAre
<1>4. validateIndex(index)
  BY <1>1, WrittenIsValid
<1>5. hasIndex(b)
  <2>1. b # <<>> /\ b[1].path = IndexPath
    BY <1>1, <1>2 DEF indexEntry
  <2> QED BY <1>4, <2>1 DEF hasIndex
<1>6. \A i \in 1..m : /\ i + 1 \in 2..Len(b)
                      /\ b[i + 1].path \in D /\ b[i + 1].body = shas[b[i + 1].path]
  BY <1>2 DEF Writes
<1>7. \A i, j \in 1..m : b[i + 1].path = b[j + 1].path => i = j
  <2> SUFFICES ASSUME NEW i \in 1..m, NEW j \in 1..m, b[i + 1].path = b[j + 1].path
               PROVE  i = j
    OBVIOUS
  <2>1. i + 1 = j + 1
    BY <1>6 DEF Writes
  <2> QED BY <1>2, <2>1
<1>8. \A f \in D : \E i \in 1..m : b[i + 1].path = f
  <2> SUFFICES ASSUME NEW f \in D PROVE \E i \in 1..m : b[i + 1].path = f
    OBVIOUS
  <2>1. PICK k \in 2..Len(b) : b[k].path = f
    OBVIOUS
  <2>2. k - 1 \in 1..m /\ (k - 1) + 1 = k
    BY <1>2
  <2> QED BY <2>1, <2>2
<1> HIDE DEF m
<1>9. Accepts(b, m)
  <2> SUFFICES ASSUME NEW i \in 1..m
               PROVE  /\ b[i + 1].path # IndexPath
                      /\ verifyPayloadEntry(b[i + 1], index, seenIn(b, i - 1))
    BY DEF Accepts
  <2> DEFINE e == b[i + 1]
  <2>1. e.path \in D /\ e.body = shas[e.path] /\ e.path \in declaredPaths(index)
    BY <1>1, <1>6 DEF Indexes
  <2>2. e.path \notin {Unsafe, IndexPath} /\ e.body \in Bodies /\ e.body # NoBody
        /\ SizeOf[e.body] = files[e.path]
    BY <1>3, <2>1, LimitsAssumption
  <2>3. e.path \notin seenIn(b, i - 1)
    <3>1. \A j \in 1..(i - 1) : j \in 1..m /\ j # i
      BY <1>2
    <3> QED BY <1>7, <3>1 DEF seenIn
  <2>4. verifyCopiedPayload(fileOf(index, e.path), e.body)
    <3>1. PICK k \in DOMAIN index : index[k].path = e.path
      BY <2>1 DEF declaredPaths
    <3>2. fileOf(index, e.path) = index[k]
      BY <1>4, <2>1, <3>1, DeclaredOnce
    <3>3. index[k].size = files[e.path] /\ index[k].sha = shas[e.path]
      BY <1>1, <3>1 DEF Indexes
    <3> QED BY <2>1, <2>2, <3>2, <3>3 DEF verifyCopiedPayload
  <2> QED BY <2>1, <2>2, <2>3, <2>4 DEF verifyPayloadEntry, cleanTarEntryPath
<1>10. withinBudget(g)
  <2>1. h \in Bijection(1..m, D)
    <3>1. h \in [1..m -> D]
      BY <1>6
    <3> QED BY <1>7, <1>8, <3>1 DEF Bijection, Injection, Surjection, IsInjective
  <2>2. \A i \in 1..m : g[i] = files[h[i]]
    <3> SUFFICES ASSUME NEW i \in 1..m PROVE g[i] = files[h[i]]
      OBVIOUS
    <3>1. g[i] = headerSize(b[i + 1]) /\ h[i] = b[i + 1].path
      BY DEF entrySizes
    <3>2. b[i + 1].path \in D /\ b[i + 1].body = shas[b[i + 1].path]
      BY <1>6
    <3>3. b[i + 1].body # NoBody
      BY <1>3, <3>2, LimitsAssumption
    <3> QED BY <1>3, <3>1, <3>2, <3>3 DEF headerSize
  <2>3. DOMAIN g = 1..m
    BY DEF entrySizes
  <2>4. IsFiniteSet(D) /\ \A f \in D : files[f] \in Nat
    BY <1>3
  <2> HIDE DEF h, g, D
  <2>5. Cardinality(1..m) = Cardinality(D) /\ SumOf(g, 1..m) = SumOf(files, D)
    <3>1. PICK T : T = 1..m
      OBVIOUS
    <3>2. h \in Bijection(T, D) /\ \A i \in T : g[i] = files[h[i]]
      BY <2>1, <2>2, <3>1
    <3>3. Cardinality(T) = Cardinality(D) /\ SumOf(g, T) = SumOf(files, D)
      BY <2>4, <3>2, SumBijection
    <3> QED BY <3>1, <3>3
  <2> QED BY <1>3, <2>3, <2>5, BudgetIsSum
<1>11. declaredPaths(index) \subseteq seenIn(b, m)
  BY <1>1, <1>8 DEF Indexes, seenIn
<1> QED BY <1>1, <1>5, <1>9, <1>10, <1>11, VerifyAccepts DEF m

\* The rename publishes a bundle that Verify accepts.
LEMMA PublishKeeps == ASSUME CompileInv, canceled \in BOOLEAN, Publish PROVE CompileInv'
<1>1. /\ BatchInv /\ DataInv /\ PassInv /\ PublishedIsWhole /\ ArchivesInv
  BY DEF CompileInv
<1>2. /\ pc = "write" /\ pc' = "ok" /\ batch' = Run!noBatch /\ out' = temp /\ temp' = NoBundle
      /\ \A f \in DOMAIN files : ~toWrite(f)
      /\ UNCHANGED <<src, scanned, listed, artifacts, files, shas, canceled, first>>
  BY DEF Publish, Ends
<1>3. BatchInv'
  BY <1>2, NoBatchAccounts
<1>4. Writes(temp) /\ Hashed /\ DOMAIN shas = DOMAIN files
  BY <1>1, <1>2 DEF PassInv
<1>5. Verify(temp)
  BY <1>1, <1>2, <1>4, WrittenIsAccepted DEF toWrite
<1>6. DataInv' /\ ArchivesInv'
  BY <1>1, <1>2, <1>4 DEF DataInv, ArchivesInv, Writes
<1>7. PassInv'
  BY <1>2 DEF PassInv
<1>8. PublishedIsWhole'
  <2>1. declaredPaths(temp[1].files) = DOMAIN files
    BY <1>4 DEF Writes, Indexes
  <2>2. /\ DOMAIN scanned \subseteq DOMAIN files
        /\ \A f \in DOMAIN files \ DOMAIN scanned :
             f \in Variants /\ OwnerOf[f] \in DOMAIN scanned
    BY <1>4 DEF Hashed, variantsOf
  <2>3. Verify(out)'
    BY <1>2, <1>5
  <2> QED BY <1>2, <2>1, <2>2, <2>3 DEF PublishedIsWhole
<1> QED BY <1>3, <1>6, <1>7, <1>8 DEF CompileInv

\* A kill, an edit of a source and a cancellation publish nothing.
LEMMA KillKeeps == ASSUME CompileInv, canceled \in BOOLEAN, Kill PROVE CompileInv'
<1>1. /\ BatchInv /\ DataInv /\ PassInv /\ PublishedIsWhole /\ ArchivesInv
  BY DEF CompileInv
<1>2. /\ compiling /\ pc' = "killed" /\ batch' = Run!noBatch
      /\ UNCHANGED <<src, scanned, listed, artifacts, files, shas, temp, out, canceled, first>>
  BY DEF Kill, Ends
<1>3. BatchInv'
  BY <1>2, NoBatchAccounts
<1>4. DataInv' /\ ArchivesInv' /\ PassInv'
  BY <1>1, <1>2 DEF DataInv, ArchivesInv, PassInv
<1>5. PublishedIsWhole'
  BY <1>1, <1>2 DEF PublishedIsWhole, compiling
<1> QED BY <1>3, <1>4, <1>5 DEF CompileInv

(***************************************************************************)
(* PassAgrees: what the passes have claimed depends on the items and the   *)
(* outcomes of the batch alone.                                            *)
(***************************************************************************)
LEMMA PassAgrees ==
    ASSUME CompileInv, UNCHANGED <<pc, scanned, files, shas, temp, out, first>>,
           listed' \subseteq listed, BatchInv', DataInv',
           batch'.items = batch.items, batch'.mode = batch.mode,
           okItems(batch') = okItems(batch)
    PROVE  CompileInv'
<1>1. UNCHANGED <<pc, scanned, files, shas, temp>> /\ listed' \subseteq listed
  OBVIOUS
<1>2. /\ variantsOf(DOMAIN scanned)' = variantsOf(DOMAIN scanned)
      /\ Hashed' <=> Hashed
  BY <1>1 DEF Hashed, withinLimits, variantsOf
<1>3. Writes(temp)' <=> Writes(temp)
  BY <1>1 DEF Writes, Indexes
<1>4. PassInv'
  BY <1>1, <1>2, <1>3 DEF CompileInv, PassInv
<1>5. PublishedIsWhole'
  BY <1>1, <1>2 DEF CompileInv, PublishedIsWhole
<1> QED BY <1>4, <1>5 DEF CompileInv, ArchivesInv

LEMMA ScheduleKeeps == ASSUME CompileInv, Schedule PROVE CompileInv'
<1>1. /\ BatchInv' /\ batch'.items = batch.items /\ batch'.mode = batch.mode
      /\ okItems(batch') = okItems(batch)
  BY BatchScheduled DEF Schedule, CompileInv
<1>2. DataInv'
  BY DEF Schedule, CompileInv, DataInv, compileVars
<1> QED BY <1>1, <1>2, PassAgrees DEF Schedule, compileVars

LEMMA EditKeeps == ASSUME CompileInv, NEW a \in Assets, Edit(a) PROVE CompileInv'
<1>1. src' \in [Assets -> Bodies \cup {NoFile}]
  BY DEF Edit, CompileInv, DataInv
<1>2. DataInv' /\ BatchInv'
  BY <1>1 DEF Edit, CompileInv, DataInv, compileVars, BatchInv
<1> QED BY <1>2, PassAgrees DEF Edit, compileVars

LEMMA CancelKeeps == ASSUME CompileInv, Cancel PROVE CompileInv'
<1>1. DataInv'
  BY DEF Cancel, CompileInv, DataInv, compileVars
<1>2. BatchInv'
  BY DEF Cancel, CompileInv, BatchInv, Accounts
<1> QED BY <1>1, <1>2, PassAgrees DEF Cancel, compileVars

(***************************************************************************)
(* RemovalKeeps: the cleanup loop takes variants from the catalog and from *)
(* the disk, never files from a bundle that was begun.                     *)
(***************************************************************************)
LEMMA RemovalKeeps ==
    ASSUME CompileInv, NEW v \in Variants, RemoveArtifact(v) \/ DropVariant(v)
    PROVE  CompileInv'
<1>1. /\ UNCHANGED <<src, pc, scanned, files, shas, temp, out, batch, canceled, first>>
      /\ listed' \subseteq listed
  BY DEF RemoveArtifact, DropVariant
<1>2. artifacts' \in [Variants -> Bodies \cup {NoFile}]
  BY DEF RemoveArtifact, DropVariant, CompileInv, DataInv
<1>3. BatchInv' /\ DataInv'
  BY <1>1, <1>2 DEF CompileInv, BatchInv, DataInv
<1> QED BY <1>1, <1>3, PassAgrees

(***************************************************************************)
(* OthersKeep: extraction and reading leave the compilation alone.         *)
(***************************************************************************)
LEMMA OthersKeep ==
    ASSUME CompileInv, UNCHANGED <<src, compileVars, out, batch, canceled, first>>
    PROVE  CompileInv'
<1>1. BatchInv' /\ DataInv'
  BY DEF CompileInv, BatchInv, DataInv, compileVars
<1> QED BY <1>1, PassAgrees DEF compileVars

-----------------------------------------------------------------------------
(***************************************************************************)
(* CompilerInit, CompilerStep: the invariant holds at first, and no step   *)
(* of the compilation, its users or the environment ends it.               *)
(***************************************************************************)
LEMMA CompilerInit == Init => CompilerInv /\ canceled \in BOOLEAN
<1> SUFFICES ASSUME Init PROVE CompilerInv /\ canceled \in BOOLEAN
  OBVIOUS
<1>1. BatchInv /\ canceled \in BOOLEAN
  <2>1. PICK mode, items, size :
           mode \in {"none", "failFast", "collect"} /\ batch = Run!newBatch(mode, items, size) /\ NoFile \notin items
    BY DEF Init, Run!noBatch
  <2>2. canceled \in BOOLEAN
    BY DEF Init
  <2>3. IsBatch(batch) /\ Accounts(batch, canceled)
    BY <2>1, <2>2, NewBatch
  <2> QED BY <2>2, <2>3 DEF BatchInv
<1>2. DataInv
  BY CompilerAssumption DEF Init, DataInv, emptyMap
<1>3. PassInv /\ PublishedIsWhole
  BY DEF Init, PassInv, PublishedIsWhole, emptyMap
<1>4. ArchivesInv
  BY CompilerAssumption DEF Init, ArchivesInv
<1>5. ExtractInv
  BY DEF Init, ExtractInv, IsExtraction, ExtractionIsExact, idleExtraction
<1>6. ReaderInv
  BY DEF Init, ReaderInv, idleReader
<1> QED BY <1>1, <1>2, <1>3, <1>4, <1>5, <1>6 DEF CompilerInv

\* The steps of a compilation together, and those of the other two.
LEMMA CompileStepKeeps ==
    ASSUME CompileInv, canceled \in BOOLEAN, CompileStep \/ WriteFails \/ Kill
    PROVE  CompileInv' /\ canceled' \in BOOLEAN /\ UNCHANGED <<x, rd>>
<1>1. UNCHANGED <<canceled, x, rd>>
  BY DEF CompileStep, Scan, Warm, Write, WriteRefused, WriteIndex, Publish, BatchFails, Schedule,
         BuildAsset, Generate, HashFile, WriteFile, WriteFails, Kill
<1>2. CASE WriteRefused \/ BatchFails \/ WriteFails
  <2>1. /\ fail /\ pc # "ok"
        /\ UNCHANGED <<src, scanned, listed, artifacts, files, shas, out, canceled, first>>
    BY <1>2 DEF WriteRefused, BatchFails, WriteFails
  <2> QED BY <1>1, <2>1, FailKeeps
<1> QED BY <1>1, <1>2, ScanKeeps, WarmKeeps, WriteKeeps, WriteIndexKeeps, PublishKeeps,
           ScheduleKeeps, BuildAssetKeeps, GenerateKeeps, HashFileKeeps, WriteFileKeeps, KillKeeps
        DEF CompileStep

\* Every step keeps the invariant.
LEMMA CompilerStep ==
    ASSUME CompilerInv, canceled \in BOOLEAN, [Next]_vars
    PROVE  CompilerInv' /\ canceled' \in BOOLEAN
<1>1. CompileInv /\ ArchivesInv /\ ExtractInv /\ ReaderInv
  BY DEF CompilerInv, CompileInv
<1>2. ASSUME UNCHANGED x PROVE ExtractInv'
  BY <1>1, <1>2 DEF ExtractInv, ExtractionIsExact
<1>3. ASSUME UNCHANGED rd PROVE ReaderInv'
  BY <1>1, <1>3 DEF ReaderInv
<1>4. CASE CompileStep \/ WriteFails \/ Kill
  BY <1>1, <1>2, <1>3, <1>4, CompileStepKeeps DEF CompilerInv, CompileInv
<1>5. ASSUME ExtractStep \/ ExtractionFault PROVE CompilerInv' /\ canceled' \in BOOLEAN
  <2>1. UNCHANGED <<src, compileVars, out, batch, canceled, rd, first>>
    BY <1>5 DEF ExtractStep, Extract, extractPayloadEntry, ExtractEnd, OpenSource, CloseSource,
                ExtractionFault
  <2>2. ExtractInv'
    BY <1>1, <1>5, ExtractKeeps, ExtractEntryKeeps, ExtractEndKeeps, OpenSourceKeeps,
       CloseSourceKeeps, ExtractionFaultKeeps DEF ExtractStep
  <2>3. CompileInv'
    BY <1>1, <2>1, OthersKeep
  <2> QED BY <1>3, <2>1, <2>2, <2>3 DEF CompilerInv, CompileInv
<1>6. ASSUME ReadStep PROVE CompilerInv' /\ canceled' \in BOOLEAN
  <2>1. UNCHANGED <<src, compileVars, out, batch, canceled, x, first>>
    BY <1>6 DEF ReadStep, LoadIndex, ReadFile
  <2>2. ReaderInv'
    BY <1>1, <1>6, LoadIndexKeeps, ReadFileKeeps DEF ReadStep
  <2>3. CompileInv'
    BY <1>1, <2>1, OthersKeep
  <2> QED BY <1>2, <2>1, <2>2, <2>3 DEF CompilerInv, CompileInv
<1>7. ASSUME \/ Cancel \/ \E a \in Assets : Edit(a)
             \/ \E v \in Variants : RemoveArtifact(v) \/ DropVariant(v)
      PROVE  CompilerInv' /\ canceled' \in BOOLEAN
  <2>1. UNCHANGED <<x, rd>> /\ canceled' \in BOOLEAN
    BY <1>7 DEF Cancel, Edit, RemoveArtifact, DropVariant
  <2>2. CompileInv'
    BY <1>1, <1>7, CancelKeeps, EditKeeps, RemovalKeeps
  <2> QED BY <1>2, <1>3, <2>1, <2>2 DEF CompilerInv, CompileInv
<1>8. ASSUME UNCHANGED vars PROVE CompilerInv' /\ canceled' \in BOOLEAN
  <2>1. UNCHANGED <<src, compileVars, out, batch, canceled, x, rd, first>>
    BY <1>8 DEF vars
  <2>2. CompileInv'
    BY <1>1, <2>1, OthersKeep
  <2> QED BY <1>2, <1>3, <2>1, <2>2 DEF CompilerInv, CompileInv
<1> QED BY <1>4, <1>5, <1>6, <1>7, <1>8 DEF Next

\* The invariant holds in every behaviour.
LEMMA CompilerInvariant == Spec => [](CompilerInv /\ canceled \in BOOLEAN)
<1>1. (CompilerInv /\ canceled \in BOOLEAN) /\ [Next]_vars =>
         (CompilerInv /\ canceled \in BOOLEAN)'
  BY CompilerStep
<1> QED BY <1>1, CompilerInit, PTL DEF Spec

-----------------------------------------------------------------------------
(***************************************************************************)
(* BatchesLoseNothing: the scan, the generation and the hashing of a       *)
(* compilation run all their items or report why not, for any number of    *)
(* items and of workers, whenever items fail and the context ends.         *)
(***************************************************************************)
THEOREM BatchesLoseNothing == Spec => []BatchesAccountForAll
<1>1. CompilerInv => BatchesAccountForAll
  BY BatchAccounts DEF CompilerInv
<1> QED BY <1>1, CompilerInvariant, PTL

(***************************************************************************)
(* CompilationIsAtomic: whatever is edited, fails, is canceled, killed or  *)
(* cleaned up meanwhile, a compilation leaves the output as it was or a    *)
(* bundle that Verify accepts, with every asset of the scan and nothing    *)
(* but variants of these beside them.                                      *)
(***************************************************************************)
THEOREM CompilationIsAtomic == Spec => []PublishedIsWhole
<1>1. CompilerInv => PublishedIsWhole
  BY DEF CompilerInv
<1> QED BY <1>1, CompilerInvariant, PTL

(***************************************************************************)
(* ExtractionAgreesWithVerify: entry by entry, with its running budget, an *)
(* extraction accepts exactly the bundles that Verify accepts and whose    *)
(* files can stand in one tree, and unpacks what their index states,       *)
(* whatever archive it is given.                                           *)
(***************************************************************************)
THEOREM ExtractionAgreesWithVerify == Spec => []ExtractionIsExact
<1>1. CompilerInv => ExtractionIsExact
  BY DEF CompilerInv, ExtractInv
<1> QED BY <1>1, CompilerInvariant, PTL

(***************************************************************************)
(* ReaderNeverMixesBundles: a Reader whose bundle is replaced returns the  *)
(* bodies its index declares or nothing, and all of a verified bundle.     *)
(***************************************************************************)
THEOREM ReaderNeverMixesBundles == Spec => []ReaderSeesOneBundle
<1>1. CompilerInv => ReaderSeesOneBundle
  BY ReaderIsRight DEF CompilerInv
<1> QED BY <1>1, CompilerInvariant, PTL
=============================================================================
