-------------------------- MODULE IdempotentCreation --------------------------
(***************************************************************************)
(* What POST /payments promises to a client that repeats a request with    *)
(* the same Idempotency-Key, without Redis, snapshots, constraints or      *)
(* polling: the first commit of a scope is its only one, every 202 names   *)
(* the payment that was committed, each request is answered at most once,  *)
(* and a request that has been answered creates nothing afterwards.        *)
(***************************************************************************)
CONSTANTS Payments,         \* requests, and the payments they would create
          Keys,             \* idempotency scopes
          KeyOf             \* KeyOf[r]: the scope of request r

VARIABLES
    created,    \* created[k]: the payments created under scope k
    answered,   \* requests that have got a response, or never will
    told        \* told[r]: the payment named to r, as a set of at most one

vars == <<created, answered, told>>

Init ==
    /\ created = [k \in Keys |-> {}]
    /\ answered = {}
    /\ told = [r \in Payments |-> {}]

Create(r) ==
    /\ r \notin answered
    /\ created[KeyOf[r]] = {}
    /\ created' = [created EXCEPT ![KeyOf[r]] = {r}]
    /\ UNCHANGED <<answered, told>>

Tell(r) ==
    /\ r \notin answered
    /\ \E p \in created[KeyOf[r]] : told' = [told EXCEPT ![r] = {p}]
    /\ answered' = answered \cup {r}
    /\ UNCHANGED created

\* A conflict, a rejection, an error, or no response at all.
Refuse(r) ==
    /\ r \notin answered
    /\ answered' = answered \cup {r}
    /\ UNCHANGED <<created, told>>

Next == \E r \in Payments : Create(r) \/ Tell(r) \/ Refuse(r)

Spec == Init /\ [][Next]_vars

===============================================================================
