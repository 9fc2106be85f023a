---------------------------- MODULE MCOutboxWorker ----------------------------
(* TLC instances of OutboxWorker: model values for payments and workers.   *)
EXTENDS OutboxWorkerInv, TLC

CONSTANTS p1, p2, w1, w2

TwoPayments == {p1, p2}
OnePayment == {p1}
OneWorker == {w1}
TwoWorkers == {w1, w2}

\* Payments, and workers, are interchangeable in every safety property.
Symmetry == Permutations(Payments) \cup Permutations(Workers)

===============================================================================
