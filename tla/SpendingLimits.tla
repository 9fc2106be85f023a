---------------------------- MODULE SpendingLimits ----------------------------
(***************************************************************************)
(* payments-api, LimitsService.enforce: the bounds of one transaction, the *)
(* amount a customer may pay on one rail in one day, and the number of     *)
(* payments in a sliding window.  The day's amount is a counter in Redis   *)
(* and the window a sorted set, each read and written by commands of their *)
(* own, with the payments table as the fallback when Redis fails.          *)
(* The module follows one customer, one rail, one day.  The counter holds  *)
(* cents as _as_cents rounds them, the table cents as its column does; the *)
(* limits are whole cents.  The code after the check, up to the commit of  *)
(* the payment, may still reject a request or store its payment BLOCKED.   *)
(***************************************************************************)
EXTENDS CustomerRequests

CONSTANTS MinAmount,        \* policy.min_amount
          MaxAmount,        \* policy.max_amount
          DailyLimit,       \* policy.daily_limit_amount
          VelocityLimit,    \* policy.velocity_limit_count
          Window,           \* policy.velocity_window_seconds
          MaxOutages,       \* bound: the Redis commands that fail
          MaxInFlight       \* requests that are handled at the same time

\* The controls whose Redis commands may fail, those of other modules last.
Control == {"daily", "velocity", "later"}

ASSUME LimitsAssumption ==
    /\ MinAmount \in Nat /\ MaxAmount \in Nat
    /\ DailyLimit \in Nat
    /\ VelocityLimit \in Nat \ {0}
    /\ Window \in Nat \ {0}
    /\ MaxOutages \in Nat
    /\ MaxInFlight \in Nat \ {0}

VARIABLES
    outages,    \* outages[c]: the Redis commands of control c that have failed
    counter,    \* the Redis key of the day; 0 when it is absent
    paid,       \* requests whose payment is in the table and not BLOCKED
    spent,      \* the sum of their amounts in the table, in cents
    pc,         \* pc[r]: where request r is
    read,       \* read[r]: the total or count request r has read, to write from;
                \* then the velocity count that enforce returns
    members,    \* the sorted set of the window
    now,        \* now[r]: the clock as request r read it
    admitted,   \* the requests for which enforce has returned, with their times
    created,    \* created[r]: when r's transaction began, created_at of its payment;
                \* 0 before it and after a rollback
    inTurn      \* so far no request has begun while another was being handled

daily == <<counter, paid, spent>>
velocity == <<clock, members, now, admitted>>
arrivals == <<created, inTurn>>
vars == <<outages, pc, read, daily, velocity, arrivals>>

DailyStep == {"start", "set", "fallback"}
VelocityStep == {"window", "count", "add", "recount"}
Step == DailyStep \cup VelocityStep \cup {"new", "passed", "done"}

\* A member of the sorted set; its score is its time.
Member == [time : Nat, count : Nat]

TypeOK ==
    /\ outages \in [Control -> Nat]
    /\ counter \in Nat
    /\ paid \subseteq Requests
    /\ spent \in Nat
    /\ pc \in [Requests -> Step]
    /\ read \in [Requests -> Nat]
    /\ clock \in 0 .. MaxTime
    /\ members \subseteq Member
    /\ now \in [Requests -> Nat]
    /\ admitted \subseteq [request : Requests, time : Nat]
    /\ created \in [Requests -> Nat]
    /\ inTurn \in BOOLEAN

Init ==
    /\ outages = [c \in Control |-> 0]
    /\ counter = 0
    /\ paid = {}
    /\ spent = 0
    /\ pc = [r \in Requests |-> "new"]
    /\ read = [r \in Requests |-> 0]
    /\ clock = 0
    /\ members = {}
    /\ now = [r \in Requests |-> 0]
    /\ admitted = {}
    /\ created = [r \in Requests |-> 0]
    /\ inTurn = TRUE

InFlight == {r \in Requests : pc[r] \notin {"new", "done"}}

Goto(r, step) == pc' = [pc EXCEPT ![r] = step]

\* The request ends without a payment.
Rollback(r) ==
    /\ Goto(r, "done")
    /\ created' = [created EXCEPT ![r] = 0]
    /\ UNCHANGED inTurn

\* The value in hand; 0 once it has been used.
Read(r, value) == read' = [read EXCEPT ![r] = value]

At(r, time) == now' = [now EXCEPT ![r] = time]

RedisFails(c) ==
    /\ outages["daily"] + outages["velocity"] + outages["later"] < MaxOutages
    /\ outages' = [outages EXCEPT ![c] = @ + 1]

-------------------------------------------------------------------------------
Tick ==
    /\ clock < MaxTime
    /\ clock' = clock + 1
    /\ UNCHANGED <<outages, pc, read, daily, members, now, admitted, arrivals>>

\* handled: the requests that are being handled.  The first SELECT of the new one
\* begins the transaction that will store its payment, and now() is the time of that;
\* then _get_policy and _enforce_transaction_amount.
Arrive(r, handled) ==
    /\ pc[r] = "new"
    /\ Cardinality(handled) < MaxInFlight
    /\ inTurn' = (inTurn /\ handled = {})
    /\ IF Amount[r] \in MinAmount * Cent .. MaxAmount * Cent
       THEN Goto(r, "start") /\ created' = [created EXCEPT ![r] = clock]
       ELSE Goto(r, "done") /\ UNCHANGED created
    /\ UNCHANGED <<outages, read, daily, velocity>>

-------------------------------------------------------------------------------
(* _enforce_daily_limit.                                                   *)

\* _as_cents: to_integral_value rounds half a cent to the even neighbour.
Counted ==
    [r \in Requests |->
        LET whole == Amount[r] \div Cent
            rest  == 2 * (Amount[r] % Cent)
        IN  IF rest > Cent \/ (rest = Cent /\ whole % 2 = 1) THEN whole + 1 ELSE whole]

\* Faulty variant: the amount of the request itself is left out.
ExceededBefore(r) == counter > DailyLimit

Exceeds(r) == counter + Counted[r] > DailyLimit

\* GET; projected > limit raises LimitExceededError.
ReadCounter(r) ==
    /\ pc[r] = "start"
    /\ IF Exceeds(r)
       THEN Rollback(r) /\ UNCHANGED read
       ELSE Goto(r, "set") /\ Read(r, counter) /\ UNCHANGED arrivals
    /\ UNCHANGED <<outages, daily, velocity>>

\* SET key projected EX ttl.
WriteCounter(r) ==
    /\ pc[r] = "set"
    /\ counter' = read[r] + Counted[r]
    /\ Read(r, 0)
    /\ Goto(r, "window")
    /\ UNCHANGED <<outages, paid, spent, velocity, arrivals>>

\* RedisError at either command; the SET may have been executed.
DailyRedisFails(r) ==
    /\ pc[r] \in {"start", "set"}
    /\ RedisFails("daily")
    /\ \/ UNCHANGED counter
       \/ pc[r] = "set" /\ counter' = read[r] + Counted[r]
    /\ Read(r, 0)
    /\ Goto(r, "fallback")
    /\ UNCHANGED <<paid, spent, velocity, arrivals>>

\* Faulty variant: the fallback lets every request through.
CheckNothing(r) ==
    /\ pc[r] = "fallback"
    /\ Goto(r, "window")
    /\ UNCHANGED <<outages, read, daily, velocity, arrivals>>

\* sum_outgoing_since, the payments of the day that are not BLOCKED, and the amount
\* as it was requested.
CheckTable(r) ==
    /\ pc[r] = "fallback"
    /\ IF spent * Cent + Amount[r] > DailyLimit * Cent
       THEN Rollback(r)
       ELSE Goto(r, "window") /\ UNCHANGED arrivals
    /\ UNCHANGED <<outages, read, daily, velocity>>

-------------------------------------------------------------------------------
(* _enforce_velocity_limit.  The key's own expiry is not visible: by then  *)
(* every member is older than the window.                                  *)

\* enforce raises LimitExceededError, or returns.
Full(used) == used >= VelocityLimit

Refuse(r) == Rollback(r) /\ At(r, 0) /\ Read(r, 0) /\ UNCHANGED admitted

\* used: the members or payments before this one.
Admit(r, used) ==
    /\ Goto(r, "passed")
    /\ At(r, 0)
    /\ Read(r, used + 1)
    /\ admitted' = admitted \cup {[request |-> r, time |-> now[r]]}
    /\ UNCHANGED arrivals

\* time.time(), then ZREMRANGEBYSCORE 0 window_start.
InWindow == {m \in members : m.time > clock - Window}

Prune(r) ==
    /\ pc[r] = "window"
    /\ At(r, clock)
    /\ members' = InWindow
    /\ Goto(r, "count")
    /\ UNCHANGED <<outages, read, daily, clock, admitted, arrivals>>

\* ZCARD
CountWindow(r) ==
    LET used == Cardinality(members) IN
    /\ pc[r] = "count"
    /\ IF Full(used)
       THEN Refuse(r)
       ELSE Goto(r, "add") /\ Read(r, used) /\ UNCHANGED <<now, admitted, arrivals>>
    /\ UNCHANGED <<outages, daily, clock, members>>

\* Faulty variant: the member is the time alone.
MemberWithoutCount(r) == [time |-> now[r], count |-> 0]

MemberOf(r) == [time |-> now[r], count |-> read[r]]

\* ZADD {member: now}, then EXPIRE.
AddMember(r) ==
    /\ pc[r] = "add"
    /\ members' = members \cup {MemberOf(r)}
    /\ Admit(r, read[r])
    /\ UNCHANGED <<outages, daily, clock>>

\* RedisError at any of the commands, which may have been executed.
VelocityRedisFails(r) ==
    /\ RedisFails("velocity")
    /\ \/ pc[r] = "window" /\ At(r, clock) /\ members' \in {members, InWindow}
       \/ pc[r] = "count" /\ UNCHANGED <<now, members>>
       \/ /\ pc[r] = "add"
          /\ members' \in {members, members \cup {MemberOf(r)}}
          /\ UNCHANGED now
    /\ Read(r, 0)
    /\ Goto(r, "recount")
    /\ UNCHANGED <<daily, clock, admitted, arrivals>>

\* count_outgoing_since(window_start)
RecountTable(r) ==
    LET used == Cardinality({q \in paid : created[q] >= now[r] - Window}) IN
    /\ pc[r] = "recount"
    /\ IF Full(used) THEN Refuse(r) ELSE Admit(r, used)
    /\ UNCHANGED <<outages, daily, clock, members>>

-------------------------------------------------------------------------------
\* The payment is committed, RECEIVED or IN_REVIEW.
Pay(r) ==
    /\ pc[r] = "passed"
    /\ paid' = paid \cup {r}
    /\ spent' = spent + Stored[r]
    /\ Goto(r, "done") /\ Read(r, 0)
    /\ UNCHANGED <<outages, counter, velocity, arrivals>>

\* Faulty variant: an unpaid request returns its amount, taken or not.
EndUnpaidRefunds(r) ==
    /\ r \in InFlight
    /\ counter' = counter - Counted[r]
    /\ Rollback(r) /\ Read(r, 0) /\ At(r, 0)
    /\ UNCHANGED <<outages, paid, spent, clock, members, admitted>>

\* The payment is stored BLOCKED, a later control rejects the request, or it
\* dies: what the counter and the window have taken is not given back.
EndUnpaid(r) ==
    /\ r \in InFlight
    /\ Rollback(r) /\ Read(r, 0) /\ At(r, 0)
    /\ UNCHANGED <<outages, daily, clock, members, admitted>>

\* The rest of enforce.
Enforce(r) ==
    \/ ReadCounter(r) \/ WriteCounter(r) \/ DailyRedisFails(r) \/ CheckTable(r)
    \/ Prune(r) \/ CountWindow(r) \/ AddMember(r)
    \/ VelocityRedisFails(r) \/ RecountTable(r)

Next ==
    \/ Tick
    \/ \E r \in Requests : Arrive(r, InFlight) \/ Enforce(r) \/ Pay(r) \/ EndUnpaid(r)

Spec == Init /\ [][Next]_vars

-------------------------------------------------------------------------------
\* Payments of half a cent more than a whole number: the counter may take them for a
\* cent less than the table.
HalfCents(requests) == {q \in requests : 2 * (Amount[q] % Cent) = Cent}

\* "Enforce ... daily ... limits": the payments of one day stay within the limit,
\* at least as long as requests come one at a time and Redis answers; but a payment
\* of half a cent may cost a cent that _as_cents has not counted.
WithinDailyLimit ==
    inTurn /\ outages["daily"] = 0 => spent <= DailyLimit + Cardinality(HalfCents(paid))

\* Why the check on the counter alone suffices then (_enforce_daily_limit): whatever
\* was rejected, blocked or lost after it, the counter covers all that was paid and
\* what a request past the check may still be, to the half cents.
CounterCovers ==
    inTurn /\ outages["daily"] = 0 =>
        /\ spent <= counter + Cardinality(HalfCents(paid))
        /\ \A r \in Requests :
            pc[r] \in VelocityStep \cup {"passed"} =>
                spent + Counted[r] <= counter + Cardinality(HalfCents(paid))

\* What failing commands cost a customer's limit at most, requests coming one at a
\* time: the payments admitted by the counter and those admitted by the table each
\* stay within the limit, whichever commands of _enforce_daily_limit fail and however
\* often.  A Redis that loses the key itself would count from 0 again.
OutageBound == inTurn => spent <= 2 * DailyLimit + Cardinality(HalfCents(paid))

\* "Enforce ... velocity limits": no window that ends with an admitted request
\* holds more admitted requests than the policy allows (_enforce_velocity_limit).
WithinVelocityLimit ==
    outages["velocity"] = 0 =>
        \A a \in admitted :
            Cardinality({b \in admitted : /\ b.time > a.time - Window
                                          /\ b.time <= a.time}) <= VelocityLimit

\* It holds of requests that come one at a time, although members of one instant
\* differ by a count that was read before, and the window is read and written by
\* commands of their own (_enforce_velocity_limit).
VelocityLimitInTurn == inTurn => WithinVelocityLimit

===============================================================================
