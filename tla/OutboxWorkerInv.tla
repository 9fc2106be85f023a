--------------------------- MODULE OutboxWorkerInv ---------------------------
(***************************************************************************)
(* The inductive invariants behind the safety properties of OutboxWorker.  *)
(* MCOutboxWorker model-checks them; OutboxWorkerProofs proves them.       *)
(***************************************************************************)
EXTENDS OutboxWorker

\* The steps at which a worker holds an event in "current".
Handling(w) == pc[w] \in {"mark", "call", "finalize", "record"}

\* What a worker holds was read from the outbox, from the selection it is in.
HoldsEvents ==
    \A w \in Workers :
        /\ \A b \in batch[w] :
             /\ b.event \in DOMAIN outbox
             /\ outbox[b.event].type \in
                  (IF pc[w] \in {"fanout", "record"} THEN FanoutTypes
                                                     ELSE RequestedTypes)
        /\ Handling(w) =>
             /\ current[w].event \in DOMAIN outbox
             /\ outbox[current[w].event].type \in
                  (IF pc[w] = "record" THEN FanoutTypes ELSE RequestedTypes)

\* Row locks are held exactly by the workers whose transaction is open on the
\* row, and by one at a time.
LocksHeld ==
    /\ \A p \in Payments, w \in Workers :
         w \in lock[p] <=> Calling(w) /\ Target(w) = p
    /\ \A p \in Payments : \A v, w \in lock[p] : v = w

\* A transaction open on a row is going to write PROCESSING or a final status.
OpenIsProcessing ==
    \A w \in Workers : Calling(w) => loaded[w].status = "PROCESSING"

\* An outcome is remembered only while it is true of the outside world.
RepliesTrue ==
    \A w \in Workers :
        /\ pc[w] = "finalize" /\ reply[w] = "confirmed" => Target(w) \in accepted
        /\ pc[w] = "record" /\ reply[w] = "published"
             => current[w].event \in published

\* For any number of workers.
SharedInv ==
    /\ TypeOK
    /\ HoldsEvents
    /\ LocksHeld
    /\ OpenIsProcessing
    /\ RepliesTrue
    /\ ConfirmedByProvider
    /\ SentWasPublished

-------------------------------------------------------------------------------
(* With one worker.                                                        *)

\* Each payment is requested by one event.
OneRequest ==
    \A d, e \in DOMAIN outbox :
        /\ outbox[d].type = "PaymentRequested"
        /\ outbox[e].type = "PaymentRequested"
        /\ outbox[d].aggregate = outbox[e].aggregate
        => d = e

\* A pending request belongs to a payment that is not final, and conversely.
RequestsMatch ==
    \A p \in Payments :
        PendingRequest(p) <=> payments[p].status \in {"RECEIVED", "PROCESSING"}

\* No event speaks of a payment that was not inserted.
NoOrphan ==
    \A e \in DOMAIN outbox : payments[outbox[e].aggregate].status # "ABSENT"

\* The requests a worker holds are still pending, and it holds each once.
HeldPending ==
    \A w \in Workers :
        /\ pc[w] \notin {"fanout", "record"} =>
             \A b \in batch[w] : outbox[b.event].status = "PENDING"
        /\ pc[w] \in {"mark", "call", "finalize"} =>
             /\ outbox[current[w].event].status = "PENDING"
             /\ \A b \in batch[w] : b.event # current[w].event
        /\ \A b, c \in batch[w] : b.event = c.event => b = c

\* The version the worker loaded is the committed one until it writes the row.
LoadedFresh ==
    \A w \in Workers : pc[w] = "mark" => VersionMatches(w)

\* What a lone worker relies on when it takes up a request.
HeldInv == NoOrphan /\ HeldPending /\ LoadedFresh

\* The strengthening of NoStranded and AnnouncedOnce.
SingleInv ==
    /\ OneRequest
    /\ NoOrphan
    /\ RequestsMatch
    /\ AnnouncedOnce
    /\ HeldPending
    /\ LoadedFresh

===============================================================================
