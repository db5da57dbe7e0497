---------------------------- MODULE DecoderLedger ----------------------------
(***************************************************************************)
(* What a decoder queue promises about each batch, without threads, locks, *)
(* tickets or a pool: a batch is decoded at most once and only if it was   *)
(* not dropped, a batch that started always settles, what is listed for    *)
(* collection leaves the list only answered, failed, withdrawn by its      *)
(* owner or forgotten by a reset, only forgotten batches are dropped, and  *)
(* the predictions of a batch are handed out once.                         *)
(***************************************************************************)
CONSTANT Batches

VARIABLES
    fate,      \* what became of each batch
    listing,   \* whether it is listed for collection: "new", "listed", "gone"
    answered   \* the batches whose predictions get_corrections handed out

vars == <<fate, listing, answered>>

Fates == {"absent", "waiting", "started", "decoded", "failed", "dropped"}

Init ==
    /\ fate = [b \in Batches |-> "absent"]
    /\ listing = [b \in Batches |-> "new"]
    /\ answered = {}

Become(b, from, to) ==
    /\ fate[b] = from
    /\ fate' = [fate EXCEPT ![b] = to]

Relist(b, from, to) ==
    /\ listing[b] = from
    /\ listing' = [listing EXCEPT ![b] = to]

Accept(b) == Become(b, "absent", "waiting") /\ UNCHANGED <<listing, answered>>
Refuse(b) == fate[b] = "absent" /\ Relist(b, "new", "gone") /\ UNCHANGED <<fate, answered>>
List(b)   == fate[b] # "absent" /\ Relist(b, "new", "listed") /\ UNCHANGED <<fate, answered>>

Begin(b)  == Become(b, "waiting", "started") /\ UNCHANGED <<listing, answered>>
Finish(b) == \E end \in {"decoded", "failed"} :
                Become(b, "started", end) /\ UNCHANGED <<listing, answered>>

(* A drop follows the reset that forgot the batch.                         *)
Drop(b) ==
    /\ listing[b] = "gone"
    /\ Become(b, "waiting", "dropped")
    /\ UNCHANGED <<listing, answered>>

(* The predictions are handed out, once.  The batch may have been          *)
(* forgotten while its collector was waiting.                              *)
Answer(b) ==
    /\ fate[b] = "decoded"
    /\ listing[b] \in {"listed", "gone"}
    /\ b \notin answered
    /\ answered' = answered \cup {b}
    /\ listing' = [listing EXCEPT ![b] = "gone"]
    /\ UNCHANGED fate

Fail(b) == fate[b] = "failed" /\ Relist(b, "listed", "gone") /\ UNCHANGED <<fate, answered>>

(* The caller of submit takes its own result off the list.                 *)
Withdraw(b) == Relist(b, "listed", "gone") /\ UNCHANGED <<fate, answered>>

Forget ==
    /\ listing' = [b \in Batches |-> IF listing[b] = "listed" THEN "gone" ELSE listing[b]]
    /\ UNCHANGED <<fate, answered>>

Next ==
    \/ Forget
    \/ \E b \in Batches :
          \/ Accept(b) \/ Refuse(b) \/ List(b)
          \/ Begin(b) \/ Finish(b) \/ Drop(b)
          \/ Answer(b) \/ Fail(b) \/ Withdraw(b)

Spec == Init /\ [][Next]_vars

(* A batch that waits is begun or dropped, and one that was begun settles. *)
Progress == \A b \in Batches : WF_vars(Begin(b) \/ Drop(b)) /\ WF_vars(Finish(b))

FairSpec == Spec /\ Progress
=============================================================================
