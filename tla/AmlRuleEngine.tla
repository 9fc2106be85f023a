----------------------------- MODULE AmlRuleEngine -----------------------------
(***************************************************************************)
(* payments-api, AmlRuleEngine: what a customer has sent on a rail, from a *)
(* list in Redis with the payments table as the fallback, compared with    *)
(* two thresholds.  The list is written after the commit of the payment.   *)
(* The module gives the list and what is read from it; the composing       *)
(* module says when.  All payments are of one customer and one rail.       *)
(***************************************************************************)
EXTENDS CustomerRequests, Sequences

CONSTANTS TotalWindow,          \* settings.aml_total_window_seconds
          TotalThreshold,       \* settings.aml_total_threshold_amount, as Amount
          StructuringWindow,    \* settings.aml_structuring_window_seconds
          StructuringCount,     \* settings.aml_structuring_count_threshold
          MaxHistory            \* AML_HISTORY_MAX_ITEMS

ASSUME AmlAssumption ==
    /\ TotalWindow \in Nat \ {0} /\ StructuringWindow \in Nat \ {0}
    /\ TotalThreshold \in Nat
    /\ StructuringCount \in Nat \ {0}
    /\ MaxHistory \in Nat

VARIABLES
    history,        \* the list, newest first
    historyExpiry   \* when its key expires; 0 when it is absent or has no TTL

amlVars == <<history, historyExpiry>>

Entry == [time : Nat, request : Requests]

AmlTypeOK == history \in Seq(Entry) /\ historyExpiry \in Nat

AmlInit == history = << >> /\ historyExpiry = 0

-------------------------------------------------------------------------------
\* The first n items of a list.
First(list, n) == SubSeq(list, 1, IF Len(list) < n THEN Len(list) ELSE n)

\* _read_history_entries, from a cutoff: LRANGE 0 AML_HISTORY_MAX_ITEMS.
Recent(window) ==
    LET read == First(history, MaxHistory + 1) IN
    {read[i].request : i \in {j \in DOMAIN read : read[j].time >= clock - window}}

\* record_outgoing, with the time it has read before: LPUSH, LTRIM 0
\* AML_HISTORY_MAX_ITEMS, EXPIRE.
Pushed(r, time) == <<[time |-> time, request |-> r]>> \o history

Trimmed(list) == First(list, MaxHistory + 1)

\* Faulty variant: the list outlives the shorter of the two windows only.
ShorterTtl == IF TotalWindow < StructuringWindow THEN TotalWindow ELSE StructuringWindow

HistoryTtl == IF TotalWindow > StructuringWindow THEN TotalWindow ELSE StructuringWindow

RecordOutgoing(r, time) ==
    /\ history' = Trimmed(Pushed(r, time))
    /\ historyExpiry' = clock + HistoryTtl

\* RedisError, the request dies, or the key expires before the EXPIRE: the commands
\* before have been executed.
RecordPart(r, time) ==
    /\ history' \in {history, Pushed(r, time), Trimmed(Pushed(r, time))}
    /\ UNCHANGED historyExpiry

\* The clock moves to time.
AmlTick(time) ==
    IF historyExpiry \in 1 .. time
    THEN history' = << >> /\ historyExpiry' = 0
    ELSE UNCHANGED amlVars

===============================================================================
