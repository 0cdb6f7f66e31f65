----------------------------- MODULE ParallelRun -----------------------------
(***************************************************************************)
(* internal/asyncx: one batch of items at a time, run by RunList, which    *)
(* stops at the first error, or by RunListCollectErrors, which runs them   *)
(* all and joins the errors.  Both run the items one by one when settings  *)
(* allow one worker only.  The order of the list plays no role: an item is *)
(* any that is left.                                                       *)
(***************************************************************************)
EXTENDS Naturals, FiniteSets

CONSTANT NoItem     \* no item is waiting to be taken

VARIABLES
    batch,          \* the batch under way, or noBatch
    canceled        \* the caller's context is done

runVars == <<batch, canceled>>

(***************************************************************************)
(* items: all of the batch; left: not yet handed out; handed: the one that *)
(* the scheduling loop waits to hand to a worker; running; outcome: of     *)
(* those that have returned; first: the first error, as errgroup keeps it. *)
(***************************************************************************)
newBatch(mode, items, size) ==
    [mode |-> mode, size |-> size, items |-> items, left |-> items, handed |-> NoItem,
     running |-> {}, outcome |-> [i \in {} |-> "ok"], first |-> "none"]
noBatch == newBatch("none", {}, 1)

Serial == batch.size <= 1
Returned == DOMAIN batch.outcome
Failed == {i \in Returned : batch.outcome[i] = "failed"}
Canceled == {i \in Returned : batch.outcome[i] = "canceled"}

(***************************************************************************)
(* What the scheduling loop checks before the next item: the context of    *)
(* the group, which ends with the first error; the error of the last item; *)
(* or the caller's context.                                                *)
(***************************************************************************)
groupDone == canceled \/ batch.first # "none"

\* Mutation: collecting stops at the first error as well.
endsAtFirstError == IF Serial THEN batch.first # "none" ELSE groupDone

SchedulingEnds ==
    IF batch.mode = "failFast"
    THEN IF Serial THEN batch.first # "none" ELSE groupDone
    ELSE canceled

Begin(mode, items, size) == batch' = newBatch(mode, items, size)

(***************************************************************************)
(* The loop of runListParallel, of scheduleCollectJobs and of the serial   *)
(* variants takes the next item ...                                        *)
(***************************************************************************)
Hand(i) ==
    /\ i \in batch.left /\ batch.handed = NoItem /\ ~SchedulingEnds
    /\ Serial => batch.running = {}
    /\ batch' = [batch EXCEPT !.left = @ \ {i}, !.handed = i]

(***************************************************************************)
(* ... and group.Go, or the send to the workers, waits until one is free.  *)
(* The select of scheduleCollectJobs may see the end of the context first. *)
(***************************************************************************)
workerFree == Cardinality(batch.running) < batch.size
GiveUpHanding ==
    /\ batch.mode = "collect" /\ ~Serial /\ canceled /\ batch.handed # NoItem
    /\ batch' = [batch EXCEPT !.handed = NoItem]

returns(i, outcome) ==
    [batch EXCEPT !.running = @ \ {i}, !.handed = IF @ = i THEN NoItem ELSE @,
                  !.outcome = [j \in DOMAIN @ \cup {i} |-> IF j = i THEN outcome ELSE @[j]],
                  !.first = IF @ = "none" /\ outcome # "ok" THEN outcome ELSE @]

(***************************************************************************)
(* The context an item is given: that of the group when errors end it.  A  *)
(* goroutine looks at it once more and then runs its item.                 *)
(***************************************************************************)
itemContextDone == IF batch.mode = "failFast" /\ ~Serial THEN groupDone ELSE canceled

Start(i) ==
    /\ batch.handed = i /\ i # NoItem /\ workerFree
    /\ batch' = IF ~Serial /\ itemContextDone
                THEN returns(i, "canceled")
                ELSE [batch EXCEPT !.handed = NoItem, !.running = @ \cup {i}]

Return(i, outcome) ==
    /\ i \in batch.running
    /\ batch' = returns(i, outcome)

\* Mutation: the wait counts the items and not the workers.
endedWhenAllRan ==
    /\ batch.mode # "none"
    /\ batch.handed = NoItem /\ batch.running = {} /\ batch.left = {}

\* group.Wait and workers.Wait
Ended ==
    /\ batch.mode # "none"
    /\ batch.handed = NoItem /\ batch.running = {}
    /\ batch.left = {} \/ SchedulingEnds

(***************************************************************************)
(* pickRunErr, joinCollectedErrors: the errors the caller is given, and    *)
(* one "canceled" however often the context was seen to be done.           *)
(***************************************************************************)
contextErr == IF canceled THEN {"canceled"} ELSE {}
Errors ==
    IF batch.mode = "failFast"
    THEN IF batch.first # "none" THEN {batch.first} ELSE contextErr
    ELSE Failed \cup contextErr \cup (IF Canceled # {} THEN {"canceled"} ELSE {})

(***************************************************************************)
(* No item is lost: a batch that ends without error has run every item to  *)
(* its end, whatever ended before; a batch that collects errors and is not *)
(* canceled has run every item in spite of failures and names each one;    *)
(* and the end of the group that a failure causes is never reported in     *)
(* place of the failure.                                                   *)
(***************************************************************************)
BatchAccountsForAll ==
    Ended =>
        /\ Errors = {} => batch.items = {i \in Returned : batch.outcome[i] = "ok"}
        /\ batch.mode = "collect" /\ ~canceled => Returned = batch.items /\ Errors = Failed
        /\ batch.mode = "failFast" /\ ~canceled /\ Errors # {} => Errors = {"failed"} /\ Failed # {}
=============================================================================
