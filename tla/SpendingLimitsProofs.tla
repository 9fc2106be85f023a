-------------------------- MODULE SpendingLimitsProofs --------------------------
(***************************************************************************)
(* Theorems about SpendingLimits: as long as the requests of the customer  *)
(* come one at a time, the limits hold for any number of requests, any     *)
(* amounts and any failing commands.  The step lemmas are stated for the   *)
(* actions, so that the composition in PaymentControls uses them too.      *)
(***************************************************************************)
EXTENDS SpendingLimits, FiniteSetTheorems, TLAPS

\* Past the daily check.
Admissible(r) == pc[r] \in VelocityStep \cup {"passed"}

\* The cents that the counter may have missed.
Missed == Cardinality(HalfCents(paid))

\* The strengthening of the daily invariants: what the counter does not cover was
\* paid on the word of the table, and stays within the limit by itself.
DailyInv ==
    /\ counter <= DailyLimit
    /\ spent <= counter + DailyLimit + Missed
    /\ outages["daily"] = 0 => spent <= counter + Missed
    /\ \A r \in Requests :
        /\ pc[r] = "set" => read[r] = counter /\ counter + Counted[r] <= DailyLimit
        /\ pc[r] = "fallback" => outages["daily"] # 0
        /\ Admissible(r) =>
            /\ spent + Counted[r] <= counter + DailyLimit + Missed
            /\ outages["daily"] = 0 => spent + Counted[r] <= counter + Missed

OneInFlight == \A q, r \in InFlight : q = r

PaidIsDone == \A r \in paid : pc[r] = "done"

LimitsInv ==
    /\ TypeOK /\ IsFiniteSet(members) /\ PaidIsDone
    /\ inTurn => OneInFlight /\ DailyInv

-------------------------------------------------------------------------------
(* The two roundings of an amount.                                         *)

\* Division with remainder.
LEMMA Division ==
    ASSUME NEW n \in Nat, NEW d \in Nat \ {0}
    PROVE  /\ n = d * (n \div d) + (n % d)
           /\ n % d \in 0 .. d - 1
           /\ n \div d \in Nat
<1>1. n = d * (n \div d) + (n % d) /\ (n % d) \in 0 .. d - 1 /\ n \div d \in Int
    OBVIOUS
<1>2. n \div d \in Nat
    OBVIOUS
<1> QED
    BY <1>1, <1>2

LEMMA Quotient ==
    ASSUME NEW n \in Nat, NEW d \in Nat \ {0}, NEW q \in Nat, NEW s \in 0 .. d - 1,
           n = d * q + s
    PROVE  n \div d = q
OBVIOUS

\* What the column of the table holds is the amount rounded half up.
LEMMA StoredRoundsHalfUp ==
    ASSUME NEW r \in Requests
    PROVE  Stored[r] = IF 2 * (Amount[r] % Cent) >= Cent THEN Amount[r] \div Cent + 1
                                                        ELSE Amount[r] \div Cent
<1> DEFINE w == Amount[r] \div Cent
           m == Amount[r] % Cent
           n == 2 * Amount[r] + Cent
<1>1. /\ Cent \in Nat \ {0} /\ Amount[r] \in Nat
      /\ Amount[r] = Cent * w + m /\ m \in 0 .. Cent - 1 /\ w \in Nat
    BY RequestsAssumption, Division DEF RequestsAssumption
<1>2. Stored[r] = n \div (2 * Cent)
    BY DEF Stored
<1> HIDE DEF w, m
<1>3. n \in Nat /\ 2 * Cent \in Nat \ {0}
    BY <1>1
<1>4. CASE 2 * m >= Cent
    <2>1. n = (2 * Cent) * (w + 1) + (2 * m - Cent)
        BY <1>1
    <2>2. 2 * m - Cent \in 0 .. (2 * Cent) - 1 /\ w + 1 \in Nat
        BY <1>1, <1>4
    <2>3. n \div (2 * Cent) = w + 1
        BY <1>3, <2>1, <2>2, Quotient
    <2> QED
        BY <1>2, <1>4, <2>3 DEF w, m
<1>5. CASE ~(2 * m >= Cent)
    <2>1. n = (2 * Cent) * w + (2 * m + Cent)
        BY <1>1
    <2>2. 2 * m + Cent \in 0 .. (2 * Cent) - 1
        BY <1>1, <1>5
    <2>3. n \div (2 * Cent) = w
        BY <1>1, <1>3, <2>1, <2>2, Quotient
    <2> QED
        BY <1>2, <1>5, <2>3 DEF w, m
<1> QED
    BY <1>4, <1>5

\* The counter takes a payment for what the table takes it for, or for a cent less
\* if it is half a cent more than a whole number.
LEMMA CountedCloseToStored ==
    ASSUME NEW r \in Requests
    PROVE  /\ Stored[r] \in Nat /\ Counted[r] \in Nat
           /\ Counted[r] <= Stored[r]
           /\ Stored[r] <= Counted[r] + 1
           /\ 2 * (Amount[r] % Cent) # Cent => Stored[r] = Counted[r]
<1> DEFINE w == Amount[r] \div Cent
           m == Amount[r] % Cent
<1>1. Cent \in Nat /\ m \in Nat /\ w \in Nat
    <2>1. Cent \in Nat \ {0} /\ Amount[r] \in Nat
        BY RequestsAssumption DEF RequestsAssumption
    <2>2. m \in 0 .. Cent - 1 /\ w \in Nat
        BY <2>1, Division
    <2> QED
        BY <2>1, <2>2
<1>2. Stored[r] = IF 2 * m >= Cent THEN w + 1 ELSE w
    BY StoredRoundsHalfUp
<1>3. Counted[r] = IF 2 * m > Cent \/ (2 * m = Cent /\ w % 2 = 1) THEN w + 1 ELSE w
    BY DEF Counted
<1> HIDE DEF w, m
<1>4. Stored[r] \in {w, w + 1} /\ Counted[r] \in {w, w + 1}
    BY <1>2, <1>3
<1>5. Counted[r] = w + 1 => Stored[r] = w + 1
    <2>1. 2 * m > Cent \/ 2 * m = Cent => 2 * m >= Cent
        BY <1>1
    <2> QED
        BY <1>1, <1>2, <1>3, <2>1
<1>6. 2 * m # Cent => Stored[r] = Counted[r]
    BY <1>1, <1>2, <1>3
<1> QED
    BY <1>1, <1>4, <1>5, <1>6 DEF m

\* An amount that is within a number of whole cents is stored within it.
LEMMA StoredWithin ==
    ASSUME NEW r \in Requests, NEW cents \in Int, Amount[r] <= cents * Cent
    PROVE  Stored[r] <= cents
<1> DEFINE w == Amount[r] \div Cent
           m == Amount[r] % Cent
<1>1. /\ Cent \in Nat \ {0} /\ Amount[r] \in Nat
      /\ Amount[r] = Cent * w + m /\ m \in 0 .. Cent - 1 /\ w \in Nat
    BY RequestsAssumption, Division DEF RequestsAssumption
<1>2. Stored[r] = IF 2 * m >= Cent THEN w + 1 ELSE w
    BY StoredRoundsHalfUp
<1> HIDE DEF w, m
<1>3. Cent * w + m <= Cent * cents
    BY <1>1
<1>4. CASE m = 0
    <2>1. w <= cents
        BY <1>1, <1>3, <1>4
    <2> QED
        BY <1>1, <1>2, <1>4, <2>1
<1>5. CASE m > 0
    <2>1. w < cents
        BY <1>1, <1>3, <1>5
    <2> QED
        BY <1>1, <1>2, <2>1
<1> QED
    BY <1>1, <1>4, <1>5
-------------------------------------------------------------------------------
\* The missed cents are counted, and a payment misses one at most, if it is of half
\* a cent more than a whole number.
LEMMA MissedType == TypeOK => Missed \in Nat
<1> SUFFICES ASSUME TypeOK PROVE Missed \in Nat
    OBVIOUS
<1>1. IsFiniteSet(HalfCents(paid))
    BY RequestsAssumption, FS_Subset DEF TypeOK, HalfCents, RequestsAssumption
<1> QED
    BY <1>1, FS_CardinalityType DEF Missed

LEMMA MissedPay ==
    ASSUME TypeOK, NEW r \in Requests, r \notin paid, paid' = paid \cup {r}
    PROVE  Missed' \in Nat /\ Stored[r] + Missed <= Counted[r] + Missed'
<1>1. IsFiniteSet(HalfCents(paid)) /\ r \notin HalfCents(paid)
    BY RequestsAssumption, FS_Subset DEF TypeOK, HalfCents, RequestsAssumption
<1>2. Missed \in Nat
    BY MissedType
<1>3. Stored[r] \in Nat /\ Counted[r] \in Nat /\ Stored[r] <= Counted[r] + 1
    BY CountedCloseToStored
<1>4. CASE 2 * (Amount[r] % Cent) = Cent
    <2>1. HalfCents(paid') = HalfCents(paid) \cup {r}
        BY <1>4 DEF HalfCents
    <2>2. Missed' = Missed + 1
        BY <1>1, <2>1, FS_AddElement DEF Missed, HalfCents
    <2> QED
        BY <1>2, <1>3, <2>2
<1>5. CASE 2 * (Amount[r] % Cent) # Cent
    <2>1. HalfCents(paid') = HalfCents(paid)
        BY <1>5 DEF HalfCents
    <2>2. Missed' = Missed
        BY <2>1 DEF Missed, HalfCents
    <2>3. Stored[r] = Counted[r]
        BY <1>5, CountedCloseToStored
    <2> QED
        BY <1>2, <1>3, <2>2, <2>3
<1> QED
    BY <1>4, <1>5

-------------------------------------------------------------------------------
\* What the invariant rests on holds at the start (LimitsService with no keys in
\* Redis and no payments in the table).
LEMMA LimitsInit == Init => LimitsInv
<1> SUFFICES ASSUME Init PROVE LimitsInv
    OBVIOUS
<1> USE LimitsAssumption, RequestsAssumption DEF LimitsAssumption, RequestsAssumption
<1>1. TypeOK
    BY DEF Init, TypeOK, Step, Control
<1>2. IsFiniteSet(members)
    BY FS_EmptySet DEF Init
<1>3. OneInFlight /\ PaidIsDone
    BY DEF Init, OneInFlight, InFlight, PaidIsDone
<1>4. DailyInv
    BY <1>1, MissedType DEF Init, DailyInv, Admissible, VelocityStep, Control
<1> QED
    BY <1>1, <1>2, <1>3, <1>4 DEF LimitsInv

\* A request that is being handled is the only one.
LEMMA Alone ==
    ASSUME LimitsInv, inTurn, NEW r \in Requests, NEW q \in Requests,
           pc[r] \notin {"new", "done"}, q # r
    PROVE  pc[q] \in {"new", "done"}
BY DEF LimitsInv, OneInFlight, InFlight

\* A request that goes on leaves no second one in flight, and no payment undone.
LEMMA StaysAlone ==
    ASSUME LimitsInv, NEW r \in Requests, NEW step, pc[r] \notin {"new", "done"},
           Goto(r, step)
    PROVE  /\ inTurn => OneInFlight'
           /\ paid' = paid => PaidIsDone'
BY DEF LimitsInv, TypeOK, Goto, OneInFlight, InFlight, PaidIsDone

-------------------------------------------------------------------------------
(* One lemma per action.                                                   *)

\* Arrive: the transaction begins, then _get_policy and _enforce_transaction_amount.
LEMMA ArriveStep ==
    ASSUME LimitsInv, NEW r \in Requests, NEW handled, InFlight \subseteq handled,
           Arrive(r, handled)
    PROVE  LimitsInv'
<1> USE LimitsAssumption, RequestsAssumption DEF LimitsAssumption, RequestsAssumption
<1>1. /\ pc[r] = "new" /\ (inTurn' <=> inTurn /\ handled = {})
      /\ Goto(r, "start") \/ Goto(r, "done")
      /\ created' = [created EXCEPT ![r] = clock] \/ created' = created
      /\ UNCHANGED <<outages, read, daily, velocity>>
    BY DEF Arrive
<1>2. TypeOK'
    <2>1. inTurn' \in BOOLEAN
        BY DEF Arrive
    <2> QED
        BY <1>1, <2>1 DEF LimitsInv, TypeOK, Goto, Step, DailyStep, daily, velocity
<1>3. IsFiniteSet(members)' /\ PaidIsDone'
    BY <1>1 DEF LimitsInv, TypeOK, Goto, PaidIsDone, daily, velocity
<1>4. inTurn' => inTurn /\ InFlight = {}
    BY <1>1
<1>5. InFlight = {} => OneInFlight'
    BY <1>1 DEF LimitsInv, TypeOK, Goto, OneInFlight, InFlight
<1>6. DailyInv => DailyInv'
    <2>1. \A q \in Requests : pc'[q] = pc[q] \/ pc'[q] \in {"start", "done"}
        BY <1>1 DEF LimitsInv, TypeOK, Goto
    <2>2. UNCHANGED <<outages, read, counter, spent, Missed>>
        BY <1>1 DEF daily, Missed, HalfCents
    <2> QED
        BY <2>1, <2>2 DEF DailyInv, Admissible, VelocityStep
<1> QED
    BY <1>2, <1>3, <1>4, <1>5, <1>6 DEF LimitsInv

\* ReadCounter: the GET of _enforce_daily_limit.
LEMMA ReadCounterStep ==
    ASSUME LimitsInv, NEW r \in Requests, ReadCounter(r)
    PROVE  LimitsInv'
<1> USE LimitsAssumption, RequestsAssumption DEF LimitsAssumption, RequestsAssumption
<1>1. /\ pc[r] = "start" /\ UNCHANGED <<outages, daily, velocity, inTurn>>
      /\ \/ Goto(r, "done") /\ UNCHANGED read /\ created' = [created EXCEPT ![r] = 0]
         \/ /\ Goto(r, "set") /\ Read(r, counter) /\ UNCHANGED created
            /\ ~(counter + Counted[r] > DailyLimit)
    BY DEF ReadCounter, Exceeds, Rollback, arrivals
<1>2. TypeOK'
    BY <1>1 DEF LimitsInv, TypeOK, Goto, Read, Step, DailyStep, daily, velocity
<1>3. IsFiniteSet(members)' /\ PaidIsDone' /\ (inTurn => OneInFlight')
    BY <1>1, StaysAlone DEF LimitsInv, velocity, daily
<1>4. ASSUME inTurn PROVE DailyInv'
    <2>1. /\ UNCHANGED <<outages, counter, spent, Missed>>
          /\ counter \in Nat /\ Counted[r] \in Nat /\ DailyLimit \in Nat
        BY <1>1, CountedCloseToStored DEF daily, LimitsInv, TypeOK, Missed, HalfCents
    <2>2. \A q \in Requests \ {r} : pc'[q] = pc[q] /\ read'[q] = read[q]
        BY <1>1 DEF LimitsInv, TypeOK, Goto, Read
    <2>3. \/ pc'[r] = "done"
          \/ pc'[r] = "set" /\ read'[r] = counter /\ counter + Counted[r] <= DailyLimit
        BY <1>1, <2>1 DEF LimitsInv, TypeOK, Goto, Read
    <2> QED
        BY <1>4, <2>1, <2>2, <2>3 DEF LimitsInv, DailyInv, Admissible, VelocityStep
<1> QED
    BY <1>1, <1>2, <1>3, <1>4 DEF LimitsInv

\* WriteCounter: the SET of _enforce_daily_limit.
LEMMA WriteCounterStep ==
    ASSUME LimitsInv, NEW r \in Requests, WriteCounter(r)
    PROVE  LimitsInv'
<1> USE LimitsAssumption, RequestsAssumption DEF LimitsAssumption, RequestsAssumption
<1>1. /\ pc[r] = "set" /\ counter' = read[r] + Counted[r] /\ Goto(r, "window") /\ Read(r, 0)
      /\ UNCHANGED <<outages, paid, spent, velocity, arrivals>>
    BY DEF WriteCounter
<1>2. Counted[r] \in Nat /\ counter' \in Nat /\ counter \in Nat
    BY <1>1, CountedCloseToStored DEF LimitsInv, TypeOK
<1>3. TypeOK'
    BY <1>1, <1>2 DEF LimitsInv, TypeOK, Goto, Read, Step, VelocityStep, velocity, arrivals
<1>4. IsFiniteSet(members)' /\ PaidIsDone' /\ (inTurn => OneInFlight')
    BY <1>1, StaysAlone DEF LimitsInv, velocity
<1>5. ASSUME inTurn PROVE DailyInv'
    <2>1. \A q \in Requests \ {r} : pc[q] \in {"new", "done"} /\ pc'[q] = pc[q]
        BY <1>1, <1>5, Alone DEF LimitsInv, TypeOK, Goto
    <2>2. pc'[r] = "window" /\ DailyInv
        BY <1>1, <1>5 DEF LimitsInv, TypeOK, Goto
    <2>3. /\ counter' = counter + Counted[r] /\ counter' <= DailyLimit
          /\ UNCHANGED <<spent, outages, Missed>>
        BY <1>1, <2>2 DEF DailyInv, Missed, HalfCents
    <2>4. spent \in Nat /\ Missed \in Nat /\ DailyLimit \in Nat
        BY MissedType DEF LimitsInv, TypeOK
    <2> QED
        BY <1>2, <2>1, <2>2, <2>3, <2>4 DEF DailyInv, Admissible, VelocityStep
<1> QED
    BY <1>1, <1>3, <1>4, <1>5 DEF LimitsInv, arrivals

\* DailyRedisFails: RedisError at either command.
LEMMA DailyRedisFailsStep ==
    ASSUME LimitsInv, NEW r \in Requests, DailyRedisFails(r)
    PROVE  LimitsInv'
<1> USE LimitsAssumption, RequestsAssumption DEF LimitsAssumption, RequestsAssumption
<1>1. /\ pc[r] \in {"start", "set"} /\ Goto(r, "fallback") /\ Read(r, 0)
      /\ UNCHANGED <<paid, spent, velocity, arrivals>>
      /\ counter' = counter \/ (pc[r] = "set" /\ counter' = read[r] + Counted[r])
    BY DEF DailyRedisFails
<1>2. outages' \in [Control -> Nat] /\ outages'["daily"] # 0
    BY DEF LimitsInv, TypeOK, DailyRedisFails, RedisFails, Control
<1>3. Counted[r] \in Nat /\ counter' \in Nat /\ counter \in Nat
    BY <1>1, CountedCloseToStored DEF LimitsInv, TypeOK
<1>4. TypeOK'
    BY <1>1, <1>2, <1>3 DEF LimitsInv, TypeOK, Goto, Read, Step, DailyStep, velocity, arrivals
<1>5. IsFiniteSet(members)' /\ PaidIsDone' /\ (inTurn => OneInFlight')
    BY <1>1, StaysAlone DEF LimitsInv, velocity
<1>6. ASSUME inTurn PROVE DailyInv'
    <2>1. \A q \in Requests \ {r} : pc[q] \in {"new", "done"} /\ pc'[q] = pc[q]
        BY <1>1, <1>6, Alone DEF LimitsInv, TypeOK, Goto
    <2>2. pc'[r] = "fallback" /\ DailyInv /\ UNCHANGED <<spent, Missed>>
        BY <1>1, <1>6 DEF LimitsInv, TypeOK, Goto, Missed, HalfCents
    <2>3. counter' <= DailyLimit /\ counter <= counter'
        BY <1>1, <1>3, <2>2 DEF DailyInv
    <2>4. spent' <= counter' + DailyLimit + Missed'
        <3>1. spent <= counter + DailyLimit + Missed
            BY <2>2 DEF DailyInv
        <3>2. spent \in Nat /\ Missed \in Nat /\ DailyLimit \in Nat
            BY MissedType DEF LimitsInv, TypeOK
        <3>3. \A a, b, c, l, m \in Nat : a <= b + l + m /\ b <= c => a <= c + l + m
            OBVIOUS
        <3> QED
            BY <1>3, <2>2, <2>3, <3>1, <3>2, <3>3
    <2> QED
        BY <1>2, <2>1, <2>2, <2>3, <2>4 DEF DailyInv, Admissible, VelocityStep
<1> QED
    BY <1>1, <1>4, <1>5, <1>6 DEF LimitsInv, arrivals

\* CheckTable: the fallback of _enforce_daily_limit.
LEMMA CheckTableStep ==
    ASSUME LimitsInv, NEW r \in Requests, CheckTable(r)
    PROVE  LimitsInv'
<1> USE LimitsAssumption, RequestsAssumption DEF LimitsAssumption, RequestsAssumption
<1>1. /\ pc[r] = "fallback" /\ UNCHANGED <<outages, read, daily, velocity, inTurn>>
      /\ \/ Goto(r, "done") /\ created' = [created EXCEPT ![r] = 0]
         \/ /\ Goto(r, "window") /\ UNCHANGED created
            /\ ~(spent * Cent + Amount[r] > DailyLimit * Cent)
    BY DEF CheckTable, Rollback, arrivals
<1>2. TypeOK'
    BY <1>1 DEF LimitsInv, TypeOK, Goto, Step, VelocityStep, daily, velocity
<1>3. IsFiniteSet(members)' /\ PaidIsDone' /\ (inTurn => OneInFlight')
    BY <1>1, StaysAlone DEF LimitsInv, velocity, daily
<1>4. ASSUME inTurn PROVE DailyInv'
    <2>1. \A q \in Requests \ {r} : pc[q] \in {"new", "done"} /\ pc'[q] = pc[q]
        BY <1>1, <1>4, Alone DEF LimitsInv, TypeOK, Goto
    <2>2. UNCHANGED <<outages, read, counter, spent, Missed>> /\ DailyInv
        BY <1>1, <1>4 DEF daily, LimitsInv, Missed, HalfCents
    <2>3. outages["daily"] # 0
        BY <1>1, <2>2 DEF DailyInv
    <2>4. /\ spent \in Nat /\ counter \in Nat /\ DailyLimit \in Nat /\ Missed \in Nat
          /\ Stored[r] \in Nat /\ Counted[r] \in Nat /\ Counted[r] <= Stored[r]
        BY MissedType, CountedCloseToStored DEF LimitsInv, TypeOK
    <2>5. pc'[r] = "done" \/ (pc'[r] = "window" /\ spent + Counted[r] <= DailyLimit)
        <3>1. CASE Goto(r, "done")
            <4>1. pc'[r] = "done"
                BY <3>1 DEF LimitsInv, TypeOK, Goto
            <4> QED
                BY <4>1
        <3>2. CASE ~Goto(r, "done")
            <4>1. Amount[r] <= (DailyLimit - spent) * Cent
                BY <1>1, <2>4, <3>2
            <4>2. Stored[r] <= DailyLimit - spent
                BY <2>4, <4>1, StoredWithin
            <4>3. pc'[r] = "window"
                BY <1>1, <3>2 DEF LimitsInv, TypeOK, Goto
            <4> QED
                BY <2>4, <4>2, <4>3
        <3> QED
            BY <3>1, <3>2
    <2> QED
        BY <2>1, <2>2, <2>3, <2>4, <2>5 DEF DailyInv, Admissible, VelocityStep
<1> QED
    BY <1>1, <1>2, <1>3, <1>4 DEF LimitsInv

\* The velocity commands leave the day alone: Prune, CountWindow, AddMember,
\* VelocityRedisFails and RecountTable of _enforce_velocity_limit.
LEMMA DayUnchanged ==
    ASSUME LimitsInv, NEW r \in Requests, NEW step \in VelocityStep \cup {"passed", "done"},
           pc[r] \in VelocityStep, Goto(r, step), UNCHANGED <<counter, paid, spent>>,
           outages' = outages \/ RedisFails("velocity")
    PROVE  /\ PaidIsDone'
           /\ inTurn => OneInFlight' /\ DailyInv'
<1> USE LimitsAssumption, RequestsAssumption DEF LimitsAssumption, RequestsAssumption
<1>1. PaidIsDone' /\ (inTurn => OneInFlight')
    BY StaysAlone DEF VelocityStep
<1>2. ASSUME inTurn PROVE DailyInv'
    <2>1. \A q \in Requests \ {r} : pc[q] \in {"new", "done"} /\ pc'[q] = pc[q]
        BY <1>2, Alone DEF LimitsInv, TypeOK, Goto, VelocityStep
    <2>2. pc'[r] = step /\ DailyInv /\ Missed' = Missed
        BY <1>2 DEF LimitsInv, TypeOK, Goto, Missed, HalfCents
    <2>3. outages'["daily"] = outages["daily"]
        BY DEF LimitsInv, TypeOK, RedisFails, Control
    <2> QED
        BY <2>1, <2>2, <2>3 DEF DailyInv, Admissible, VelocityStep
<1> QED
    BY <1>1, <1>2

\* Prune: time.time() and ZREMRANGEBYSCORE.
LEMMA PruneStep ==
    ASSUME LimitsInv, NEW r \in Requests, Prune(r)
    PROVE  LimitsInv'
<1> USE LimitsAssumption, RequestsAssumption DEF LimitsAssumption, RequestsAssumption
<1>1. TypeOK'
    BY DEF LimitsInv, TypeOK, Prune, At, InWindow, Goto, Step, VelocityStep, daily, arrivals
<1>2. IsFiniteSet(members)'
    BY FS_Subset DEF LimitsInv, Prune, InWindow
<1>3. PaidIsDone' /\ (inTurn => OneInFlight' /\ DailyInv') /\ inTurn' = inTurn
    BY DayUnchanged DEF Prune, VelocityStep, daily, arrivals
<1> QED
    BY <1>1, <1>2, <1>3 DEF LimitsInv

\* CountWindow: ZCARD.
LEMMA CountWindowStep ==
    ASSUME LimitsInv, NEW r \in Requests, CountWindow(r)
    PROVE  LimitsInv'
<1> USE LimitsAssumption, RequestsAssumption DEF LimitsAssumption, RequestsAssumption
<1> DEFINE used == Cardinality(members)
<1>1. used \in Nat
    BY FS_CardinalityType DEF LimitsInv
<1>2. /\ pc[r] = "count" /\ UNCHANGED <<outages, daily, clock, members, admitted, inTurn>>
      /\ \E step \in {"done", "add"} : Goto(r, step)
      /\ \E value \in {0, used} : Read(r, value)
      /\ now' = now \/ At(r, 0)
      /\ created' \in {created, [created EXCEPT ![r] = 0]}
    BY DEF CountWindow, Refuse, Rollback, arrivals
<1> HIDE DEF used
<1>3. TypeOK'
    BY <1>1, <1>2 DEF LimitsInv, TypeOK, At, Goto, Read, Step, VelocityStep, daily
<1>4. PaidIsDone' /\ (inTurn => OneInFlight' /\ DailyInv')
    BY <1>2, DayUnchanged DEF VelocityStep, daily
<1> QED
    BY <1>2, <1>3, <1>4 DEF LimitsInv

\* AddMember: ZADD and EXPIRE; enforce returns.
LEMMA AddMemberStep ==
    ASSUME LimitsInv, NEW r \in Requests, AddMember(r)
    PROVE  LimitsInv'
<1> USE LimitsAssumption, RequestsAssumption DEF LimitsAssumption, RequestsAssumption
<1>1. MemberOf(r) \in Member
    BY DEF LimitsInv, TypeOK, MemberOf, Member
<1>2. TypeOK'
    BY <1>1 DEF LimitsInv, TypeOK, AddMember, Admit, At, Goto, Read, Step, daily, arrivals
<1>3. IsFiniteSet(members)'
    BY FS_AddElement DEF LimitsInv, AddMember
<1>4. PaidIsDone' /\ (inTurn => OneInFlight' /\ DailyInv') /\ inTurn' = inTurn
    BY DayUnchanged DEF AddMember, Admit, VelocityStep, daily, arrivals
<1> QED
    BY <1>2, <1>3, <1>4 DEF LimitsInv

\* VelocityRedisFails: RedisError at any of the commands.
LEMMA VelocityRedisFailsStep ==
    ASSUME LimitsInv, NEW r \in Requests, VelocityRedisFails(r)
    PROVE  LimitsInv'
<1> USE LimitsAssumption, RequestsAssumption DEF LimitsAssumption, RequestsAssumption
<1>1. MemberOf(r) \in Member
    BY DEF LimitsInv, TypeOK, MemberOf, Member
<1>2. /\ members' \in {members, InWindow, members \cup {MemberOf(r)}}
      /\ pc[r] \in {"window", "count", "add"}
      /\ now' = now \/ At(r, clock)
    BY DEF VelocityRedisFails
<1>3. members' \subseteq Member /\ IsFiniteSet(members')
    BY <1>1, <1>2, FS_Subset, FS_AddElement DEF LimitsInv, TypeOK, InWindow
<1>4. outages' \in [Control -> Nat]
    BY DEF LimitsInv, TypeOK, VelocityRedisFails, RedisFails, Control
<1>5. now' \in [Requests -> Nat]
    BY <1>2 DEF LimitsInv, TypeOK, At
<1>6. TypeOK'
    BY <1>3, <1>4, <1>5 DEF LimitsInv, TypeOK, VelocityRedisFails, Goto, Read, Step,
                            VelocityStep, daily, arrivals
<1>7. PaidIsDone' /\ (inTurn => OneInFlight' /\ DailyInv') /\ inTurn' = inTurn
    BY <1>2, DayUnchanged DEF VelocityRedisFails, VelocityStep, daily, arrivals
<1> QED
    BY <1>3, <1>6, <1>7 DEF LimitsInv

\* RecountTable: the fallback of _enforce_velocity_limit.
LEMMA RecountTableStep ==
    ASSUME LimitsInv, NEW r \in Requests, RecountTable(r)
    PROVE  LimitsInv'
<1> USE LimitsAssumption, RequestsAssumption DEF LimitsAssumption, RequestsAssumption
<1> DEFINE used == Cardinality({q \in paid : created[q] >= now[r] - Window})
<1>1. used \in Nat
    BY FS_Subset, FS_CardinalityType DEF LimitsInv, TypeOK
<1>2. /\ pc[r] = "recount" /\ UNCHANGED <<outages, daily, clock, members, inTurn>> /\ At(r, 0)
      /\ \E step \in {"done", "passed"} : Goto(r, step)
      /\ \E value \in {0, used + 1} : Read(r, value)
      /\ admitted' \in {admitted, admitted \cup {[request |-> r, time |-> now[r]]}}
      /\ created' \in {created, [created EXCEPT ![r] = 0]}
    BY DEF RecountTable, Refuse, Admit, Rollback, arrivals
<1> HIDE DEF used
<1>3. TypeOK'
    BY <1>1, <1>2 DEF LimitsInv, TypeOK, At, Goto, Read, Step, daily
<1>4. PaidIsDone' /\ (inTurn => OneInFlight' /\ DailyInv')
    BY <1>2, DayUnchanged DEF VelocityStep, daily
<1> QED
    BY <1>2, <1>3, <1>4 DEF LimitsInv

\* Enforce: LimitsService.enforce as a whole.
LEMMA EnforceStep ==
    ASSUME LimitsInv, NEW r \in Requests, Enforce(r)
    PROVE  LimitsInv'
BY ReadCounterStep, WriteCounterStep, DailyRedisFailsStep, CheckTableStep, PruneStep,
   CountWindowStep, AddMemberStep, VelocityRedisFailsStep, RecountTableStep
   DEF Enforce

-------------------------------------------------------------------------------
\* Pay: the commit of a payment that is not BLOCKED.
LEMMA PayStep ==
    ASSUME LimitsInv, NEW r \in Requests, Pay(r)
    PROVE  LimitsInv'
<1> USE LimitsAssumption, RequestsAssumption DEF LimitsAssumption, RequestsAssumption
<1>1. /\ pc[r] = "passed" /\ Admissible(r) /\ Goto(r, "done") /\ Read(r, 0)
      /\ paid' = paid \cup {r} /\ spent' = spent + Stored[r]
      /\ UNCHANGED <<outages, counter, velocity, arrivals>>
    BY DEF Pay, Admissible
<1>2. /\ spent \in Nat /\ Stored[r] \in Nat /\ Counted[r] \in Nat /\ counter \in Nat
      /\ DailyLimit \in Nat
    BY CountedCloseToStored DEF LimitsInv, TypeOK
<1>3. TypeOK'
    BY <1>1, <1>2 DEF LimitsInv, TypeOK, Goto, Read, Step, velocity, arrivals
<1>4. IsFiniteSet(members)' /\ (inTurn => OneInFlight')
    BY <1>1, StaysAlone DEF LimitsInv, velocity
<1>5. r \notin paid /\ PaidIsDone'
    BY <1>1 DEF LimitsInv, TypeOK, Goto, PaidIsDone
<1>6. ASSUME inTurn PROVE DailyInv'
    <2>1. \A q \in Requests \ {r} : pc[q] \in {"new", "done"} /\ pc'[q] = pc[q]
        BY <1>1, <1>6, Alone DEF LimitsInv, TypeOK, Goto
    <2>2. pc'[r] = "done" /\ DailyInv
        BY <1>1, <1>6 DEF LimitsInv, TypeOK, Goto
    <2>3. Missed \in Nat /\ Missed' \in Nat /\ Stored[r] + Missed <= Counted[r] + Missed'
        BY <1>1, <1>5, MissedType, MissedPay DEF LimitsInv
    <2>4. /\ spent + Counted[r] <= counter + DailyLimit + Missed
          /\ outages["daily"] = 0 => spent + Counted[r] <= counter + Missed
        BY <1>1, <2>2 DEF DailyInv
    <2>5. /\ spent' <= counter + DailyLimit + Missed'
          /\ outages["daily"] = 0 => spent' <= counter + Missed'
        BY <1>1, <1>2, <2>3, <2>4
    <2> QED
        BY <1>1, <2>1, <2>2, <2>5 DEF DailyInv, Admissible, VelocityStep
<1> QED
    BY <1>1, <1>3, <1>4, <1>5, <1>6 DEF LimitsInv, arrivals

\* EndUnpaid: a rejection, a BLOCKED payment, or the death of the request.
LEMMA EndUnpaidStep ==
    ASSUME LimitsInv, NEW r \in Requests, EndUnpaid(r)
    PROVE  LimitsInv'
<1> USE LimitsAssumption, RequestsAssumption DEF LimitsAssumption, RequestsAssumption
<1>1. /\ pc[r] \notin {"new", "done"} /\ Goto(r, "done")
      /\ UNCHANGED <<outages, counter, paid, spent, members, inTurn>>
    BY DEF EndUnpaid, Rollback, InFlight, daily
<1>2. TypeOK'
    BY DEF LimitsInv, TypeOK, EndUnpaid, Rollback, Goto, Read, At, Step, daily
<1>3. IsFiniteSet(members)' /\ PaidIsDone' /\ (inTurn => OneInFlight')
    BY <1>1, StaysAlone DEF LimitsInv
<1>4. ASSUME inTurn PROVE DailyInv'
    <2>1. \A q \in Requests \ {r} : pc[q] \in {"new", "done"} /\ pc'[q] = pc[q]
        BY <1>1, <1>4, Alone DEF LimitsInv, TypeOK, Goto
    <2>2. pc'[r] = "done" /\ DailyInv /\ Missed' = Missed
        BY <1>1, <1>4 DEF LimitsInv, TypeOK, Goto, Missed, HalfCents
    <2> QED
        BY <1>1, <2>1, <2>2 DEF DailyInv, Admissible, VelocityStep
<1> QED
    BY <1>1, <1>2, <1>3, <1>4 DEF LimitsInv

\* What happens beside the limits: time.time() goes on, a request stamps the record of
\* its payment or is refused before it begins, other Redis commands fail.
LEMMA OtherStep ==
    ASSUME LimitsInv, UNCHANGED <<read, daily, members, admitted, arrivals>>,
           clock' \in 0 .. MaxTime, now' \in [Requests -> Nat],
           \/ UNCHANGED <<outages, pc>>
           \/ UNCHANGED pc /\ RedisFails("later")
           \/ UNCHANGED outages /\ \E r \in Requests : pc[r] = "new" /\ Goto(r, "done")
    PROVE  LimitsInv'
<1> USE LimitsAssumption, RequestsAssumption DEF LimitsAssumption, RequestsAssumption
<1>1. outages' \in [Control -> Nat] /\ outages'["daily"] = outages["daily"]
    BY DEF LimitsInv, TypeOK, RedisFails, Control
<1>2. /\ pc' \in [Requests -> Step]
      /\ \A q \in Requests : pc'[q] = pc[q] \/ pc'[q] = "done"
    BY DEF LimitsInv, TypeOK, Goto, Step
<1>3. TypeOK'
    BY <1>1, <1>2 DEF LimitsInv, TypeOK, daily, arrivals
<1>4. IsFiniteSet(members)' /\ PaidIsDone' /\ (inTurn => OneInFlight')
    BY <1>2 DEF LimitsInv, TypeOK, OneInFlight, InFlight, PaidIsDone, daily
<1>5. ASSUME inTurn PROVE DailyInv'
    <2>1. UNCHANGED <<read, counter, spent, Missed>>
        BY DEF daily, Missed, HalfCents
    <2> QED
        BY <1>1, <1>2, <1>5, <2>1 DEF LimitsInv, DailyInv, Admissible, VelocityStep
<1> QED
    BY <1>3, <1>4, <1>5 DEF LimitsInv, arrivals

\* Tick: time.time() goes on.
LEMMA TickStep ==
    ASSUME LimitsInv, Tick
    PROVE  LimitsInv'
<1>1. clock' \in 0 .. MaxTime /\ now' \in [Requests -> Nat]
    BY RequestsAssumption DEF LimitsInv, TypeOK, Tick, RequestsAssumption
<1> QED
    BY <1>1, OtherStep DEF Tick

-------------------------------------------------------------------------------
\* What the invariant says of the money (LimitsService._enforce_daily_limit).
LEMMA LimitsFacts == LimitsInv => WithinDailyLimit /\ CounterCovers /\ OutageBound
<1> SUFFICES ASSUME LimitsInv PROVE WithinDailyLimit /\ CounterCovers /\ OutageBound
    OBVIOUS
<1>1. spent \in Nat /\ counter \in Nat /\ DailyLimit \in Nat /\ Missed \in Nat
    BY LimitsAssumption, MissedType DEF LimitsInv, TypeOK, LimitsAssumption
<1>2. WithinDailyLimit
    BY <1>1 DEF LimitsInv, DailyInv, WithinDailyLimit, Missed
<1>3. CounterCovers
    BY DEF LimitsInv, DailyInv, Admissible, CounterCovers, Missed
<1>4. OutageBound
    BY <1>1 DEF LimitsInv, DailyInv, OutageBound, Missed
<1> QED
    BY <1>2, <1>3, <1>4

\* LimitsService by itself keeps the invariant: one step for each action.
LEMMA LimitsStep ==
    ASSUME LimitsInv, [Next]_vars
    PROVE  LimitsInv'
<1>1. CASE UNCHANGED vars
    <2>1. clock' \in 0 .. MaxTime /\ now' \in [Requests -> Nat]
        BY <1>1 DEF LimitsInv, TypeOK, vars, velocity
    <2> QED
        BY <1>1, <2>1, OtherStep DEF vars, velocity
<1>2. CASE Tick
    BY <1>2, TickStep
<1>3. ASSUME NEW r \in Requests, Arrive(r, InFlight) \/ Enforce(r) \/ Pay(r) \/ EndUnpaid(r)
      PROVE  LimitsInv'
    BY <1>3, ArriveStep, EnforceStep, PayStep, EndUnpaidStep
<1> QED
    BY <1>1, <1>2, <1>3 DEF Next

\* LimitsService, for requests that come one at a time: it keeps the payments of a day
\* within the limit while Redis answers, and within twice the limit whichever commands
\* fail, to a cent for each payment of half a cent more than a whole number; and to
\* that the counter covers what was paid.
THEOREM LimitsHold == Spec => [](TypeOK /\ WithinDailyLimit /\ CounterCovers /\ OutageBound)
<1>1. Init => LimitsInv
    BY LimitsInit
<1>2. LimitsInv /\ [Next]_vars => LimitsInv'
    BY LimitsStep
<1>3. LimitsInv => TypeOK /\ WithinDailyLimit /\ CounterCovers /\ OutageBound
    BY LimitsFacts DEF LimitsInv
<1> QED
    BY <1>1, <1>2, <1>3, PTL DEF Spec

(***************************************************************************)
(* The velocity limit, while requests come in turn and Redis answers its   *)
(* commands: an admitted request that has left no member of its own would  *)
(* be one too many.                                                        *)
(***************************************************************************)

\* The records, members or admissions, of the window that ends at t.
Since(records, t) == {m \in records : m.time > t - Window}

\* At t the window holds a member for each admission.
Covered(t) == Cardinality(Since(admitted, t)) <= Cardinality(Since(members, t))

\* What a request that reads the clock at t finds: nothing is later; if another
\* request was admitted at the same instant, the set has been pruned since and its
\* members are told apart by their counts; now and later each admission has left
\* a member.
Sound(t) ==
    /\ \A m \in members : m.time <= t
    /\ \A b \in admitted : b.time <= t
    /\ \A m \in members : m.time = t => /\ members = Since(members, t)
                                        /\ m.count < Cardinality(members)
    /\ \A u \in Nat : u >= t => Covered(u)

\* A request between ZREMRANGEBYSCORE and ZADD holds a pruned set, and its own count.
Counting(r) ==
    /\ pc[r] # "recount"
    /\ pc[r] \in {"count", "add"} =>
         now[r] <= clock /\ Sound(now[r]) /\ members = Since(members, now[r])
    /\ pc[r] = "add" => read[r] = Cardinality(members) /\ read[r] < VelocityLimit

\* The strengthening of WithinVelocityLimit.
VelocityInv ==
    /\ IsFiniteSet(admitted)
    /\ inTurn /\ outages["velocity"] = 0 =>
         /\ Sound(clock)
         /\ \A r \in Requests : Counting(r)
         /\ WithinVelocityLimit

LEMMA VelocityInit == Init => VelocityInv
<1> SUFFICES ASSUME Init PROVE VelocityInv
    OBVIOUS
<1>1. Since({}, 0) = {} /\ \A u \in Nat : Since({}, u) = {}
    BY DEF Since
<1>2. Sound(clock)
    BY <1>1, FS_EmptySet DEF Init, Sound, Covered
<1> QED
    BY <1>2, FS_EmptySet DEF Init, VelocityInv, Counting, WithinVelocityLimit

\* What is sound now is sound later.
LEMMA SoundLater ==
    ASSUME TypeOK, NEW t \in Nat, NEW u \in Nat, Sound(t), t <= u
    PROVE  Sound(u)
<1> USE LimitsAssumption DEF LimitsAssumption
<1>1. CASE t = u
    BY <1>1
<1>2. CASE t < u
    <2>1. /\ \A m \in members : m.time \in Nat /\ m.time <= t
          /\ \A b \in admitted : b.time \in Nat /\ b.time <= t
        BY DEF TypeOK, Member, Sound
    <2>2. /\ \A m \in members : m.time <= u /\ m.time # u
          /\ \A b \in admitted : b.time <= u
        BY <1>2, <2>1
    <2>3. \A v \in Nat : v >= u => Covered(v)
        BY <1>2 DEF Sound
    <2> QED
        BY <2>2, <2>3 DEF Sound
<1> QED
    BY <1>1, <1>2

\* A step that leaves the window alone, and takes no request into its commands.
LEMMA WindowUnchanged ==
    ASSUME VelocityInv, UNCHANGED <<clock, members, admitted>>,
           outages'["velocity"] = outages["velocity"], inTurn' => inTurn,
           \A r \in Requests :
              \/ pc'[r] = pc[r] /\ now'[r] = now[r] /\ read'[r] = read[r]
              \/ pc'[r] \notin {"count", "add", "recount"}
    PROVE  VelocityInv'
<1>1. \A t : Sound(t)' = Sound(t)
    BY DEF Sound, Covered
<1>2. inTurn /\ outages["velocity"] = 0 => Sound(clock)' /\ WithinVelocityLimit'
    BY <1>1 DEF VelocityInv, WithinVelocityLimit
<1>3. ASSUME NEW r \in Requests, Counting(r)
      PROVE  Counting(r)'
    BY <1>1, <1>3 DEF Counting
<1> QED
    BY <1>2, <1>3 DEF VelocityInv

\* Tick: time.time() goes on.
LEMMA TickVelocity ==
    ASSUME LimitsInv, VelocityInv, Tick
    PROVE  VelocityInv'
<1> USE LimitsAssumption, RequestsAssumption DEF LimitsAssumption, RequestsAssumption
<1>1. TypeOK /\ clock \in Nat /\ clock' = clock + 1
    BY DEF LimitsInv, TypeOK, Tick
<1>2. UNCHANGED <<outages, pc, read, members, now, admitted, inTurn>>
    BY DEF Tick, arrivals
<1>3. \A t : Sound(t)' = Sound(t)
    BY <1>2 DEF Sound, Covered
<1>4. inTurn /\ outages["velocity"] = 0 => Sound(clock)'
    <2> SUFFICES ASSUME Sound(clock)
                 PROVE  Sound(clock)'
        BY DEF VelocityInv
    <2>1. Sound(clock + 1)
        BY <1>1, SoundLater
    <2> QED
        BY <1>1, <1>2, <2>1 DEF Sound, Covered
<1>5. ASSUME NEW r \in Requests, Counting(r)
      PROVE  Counting(r)'
    <2>1. now[r] \in Nat
        BY <1>1 DEF TypeOK
    <2> QED
        BY <1>1, <1>2, <1>3, <1>5, <2>1 DEF Counting
<1>6. WithinVelocityLimit => WithinVelocityLimit'
    BY <1>2 DEF WithinVelocityLimit
<1> QED
    BY <1>2, <1>4, <1>5, <1>6 DEF VelocityInv

\* Prune: time.time() and ZREMRANGEBYSCORE. What is removed is older than any window
\* that a later request can ask for.
LEMMA PruneVelocity ==
    ASSUME LimitsInv, VelocityInv, NEW r \in Requests, Prune(r)
    PROVE  VelocityInv'
<1> USE LimitsAssumption, RequestsAssumption DEF LimitsAssumption, RequestsAssumption
<1>1. /\ TypeOK /\ clock \in Nat /\ pc \in [Requests -> Step] /\ now \in [Requests -> Nat]
      /\ members' = Since(members, clock)
      /\ UNCHANGED <<outages, read, clock, admitted, inTurn>>
      /\ pc'[r] = "count" /\ now'[r] = clock
    BY DEF LimitsInv, TypeOK, Prune, InWindow, Since, Goto, At, arrivals
<1>2. inTurn => \A q \in Requests \ {r} : pc'[q] \in {"new", "done"}
    BY Alone DEF LimitsInv, TypeOK, Prune, Goto
<1>3. ASSUME Sound(clock), outages["velocity"] = 0
      PROVE  Sound(clock)'
    <2>1. \A m \in members : m.time \in Nat
        BY <1>1 DEF TypeOK, Member
    <2>2. \A m \in members' : m \in members /\ m.time > clock - Window
        BY <1>1 DEF Since
    <2>3. \A m \in members' : m.time = clock =>
             members' = members /\ m.count < Cardinality(members)
        BY <1>1, <1>3, <2>2 DEF Sound
    <2>4. Since(members', clock) = members'
        BY <2>2 DEF Since
    <2>5. ASSUME NEW u \in Nat, u >= clock
          PROVE  Since(members', u) = Since(members, u)
        BY <1>1, <2>1, <2>5 DEF Since
    <2>6. \A u \in Nat : u >= clock => Covered(u)'
        BY <1>1, <1>3, <2>5 DEF Sound, Covered
    <2> QED
        BY <1>1, <1>3, <2>2, <2>3, <2>4, <2>6 DEF Sound
<1>4. Since(members', clock) = members'
    BY <1>1 DEF Since
<1>5. Sound(clock)' => Counting(r)'
    <2>1. Sound(clock)' => Sound(now[r])'
        BY <1>1 DEF Sound, Covered
    <2> QED
        BY <1>1, <1>4, <2>1 DEF Counting
<1>6. inTurn => \A q \in Requests \ {r} : Counting(q)'
    BY <1>2 DEF Counting
<1>7. WithinVelocityLimit => WithinVelocityLimit'
    BY <1>1 DEF WithinVelocityLimit
<1> QED
    BY <1>1, <1>3, <1>5, <1>6, <1>7 DEF VelocityInv

\* CountWindow: ZCARD; below the limit the count is what the member will carry.
LEMMA CountWindowVelocity ==
    ASSUME LimitsInv, VelocityInv, NEW r \in Requests, CountWindow(r)
    PROVE  VelocityInv'
<1>1. /\ pc \in [Requests -> Step] /\ now \in [Requests -> Nat] /\ read \in [Requests -> Nat]
      /\ UNCHANGED <<outages, clock, members, admitted, inTurn>>
    BY DEF LimitsInv, TypeOK, CountWindow, Refuse, Rollback, arrivals
<1>2. /\ \A q \in Requests \ {r} : pc'[q] = pc[q] /\ read'[q] = read[q] /\ now'[q] = now[q]
      /\ inTurn => \A q \in Requests \ {r} : pc'[q] \in {"new", "done"}
    BY Alone DEF LimitsInv, TypeOK, CountWindow, Refuse, Rollback, Goto, Read, At
<1>3. CASE Full(Cardinality(members))
    <2>1. pc'[r] = "done"
        BY <1>1, <1>3 DEF CountWindow, Refuse, Rollback, Goto
    <2> QED
        BY <1>1, <1>2, <2>1, WindowUnchanged
<1>4. CASE ~Full(Cardinality(members))
    <2>1. /\ pc[r] = "count" /\ pc'[r] = "add" /\ now' = now
          /\ read'[r] = Cardinality(members)
        BY <1>1, <1>4 DEF CountWindow, Goto, Read
    <2>2. Cardinality(members) < VelocityLimit
        BY <1>4, LimitsAssumption, FS_CardinalityType DEF Full, LimitsInv, LimitsAssumption
    <2>3. \A t : Sound(t)' = Sound(t)
        BY <1>1 DEF Sound, Covered
    <2>4. Counting(r) => Counting(r)'
        BY <1>1, <2>1, <2>2, <2>3 DEF Counting
    <2>5. inTurn => \A q \in Requests \ {r} : Counting(q)'
        BY <1>2 DEF Counting
    <2>6. WithinVelocityLimit => WithinVelocityLimit'
        BY <1>1 DEF WithinVelocityLimit
    <2>7. Sound(clock) => Sound(clock)'
        BY <1>1, <2>3
    <2> QED
        BY <1>1, <2>4, <2>5, <2>6, <2>7 DEF VelocityInv
<1> QED
    BY <1>3, <1>4

\* One record more in a window.
LEMMA SinceAdd ==
    ASSUME NEW S, IsFiniteSet(S), NEW x, NEW t \in Int
    PROVE  /\ IsFiniteSet(Since(S, t))
           /\ Cardinality(Since(S, t)) \in Nat
           /\ Cardinality(Since(S \cup {x}, t)) =
                IF x.time > t - Window /\ x \notin S THEN Cardinality(Since(S, t)) + 1
                ELSE Cardinality(Since(S, t))
<1>1. Since(S, t) \subseteq S
    BY DEF Since
<1>2. IsFiniteSet(Since(S, t)) /\ Cardinality(Since(S, t)) \in Nat
    BY <1>1, FS_Subset, FS_CardinalityType
<1>3. Since(S \cup {x}, t) = IF x.time > t - Window THEN Since(S, t) \cup {x}
                                                   ELSE Since(S, t)
    BY DEF Since
<1>4. x \in Since(S, t) <=> x \in S /\ x.time > t - Window
    BY DEF Since
<1> QED
    BY <1>2, <1>3, <1>4, FS_AddElement

\* AddMember: ZADD. The member is a new one, and so the window stays covered; it is
\* within the limit, because it was below it before.
LEMMA AddMemberVelocity ==
    ASSUME LimitsInv, VelocityInv, NEW r \in Requests, AddMember(r)
    PROVE  VelocityInv'
<1> USE LimitsAssumption, RequestsAssumption DEF LimitsAssumption, RequestsAssumption
<1> DEFINE m == MemberOf(r)
           b == [request |-> r, time |-> now[r]]
           n == Cardinality(members)
<1>1. /\ TypeOK /\ clock \in Nat /\ now[r] \in Nat /\ IsFiniteSet(members) /\ n \in Nat
      /\ IsFiniteSet(admitted)
      /\ UNCHANGED <<outages, clock, inTurn>>
      /\ members' = members \cup {m}
      /\ admitted' = admitted \cup {b}
      /\ pc'[r] = "passed"
      /\ m.time = now[r] /\ b.time = now[r] /\ m.count = read[r]
    BY FS_CardinalityType
       DEF LimitsInv, TypeOK, VelocityInv, AddMember, Admit, Goto, MemberOf, arrivals
<1>2. inTurn => \A q \in Requests \ {r} : pc'[q] \in {"new", "done"}
    BY Alone DEF LimitsInv, TypeOK, AddMember, Admit, Goto
<1>3. IsFiniteSet(admitted')
    BY <1>1, FS_AddElement
<1> SUFFICES ASSUME inTurn, outages["velocity"] = 0
             PROVE  Sound(clock)' /\ WithinVelocityLimit'
    BY <1>1, <1>2, <1>3 DEF VelocityInv, Counting
<1>4. /\ now[r] <= clock /\ Sound(now[r]) /\ members = Since(members, now[r])
      /\ read[r] = n /\ n < VelocityLimit
      /\ Sound(clock) /\ WithinVelocityLimit
    BY DEF AddMember, VelocityInv, Counting
<1>5. m \notin members
    BY <1>1, <1>4 DEF Sound
<1> HIDE DEF m, b
<1>6. ASSUME NEW t \in Nat, t >= now[r]
      PROVE  Covered(t)'
    <2>1. Cardinality(Since(admitted, t)) <= Cardinality(Since(members, t))
        BY <1>4, <1>6 DEF Sound, Covered
    <2>2. /\ Cardinality(Since(admitted, t)) \in Nat
          /\ Cardinality(Since(admitted', t)) =
               IF b.time > t - Window /\ b \notin admitted
               THEN Cardinality(Since(admitted, t)) + 1 ELSE Cardinality(Since(admitted, t))
        BY <1>1, SinceAdd
    <2>3. /\ Cardinality(Since(members, t)) \in Nat
          /\ Cardinality(Since(members', t)) =
               IF m.time > t - Window
               THEN Cardinality(Since(members, t)) + 1 ELSE Cardinality(Since(members, t))
        BY <1>1, <1>5, SinceAdd
    <2> QED
        BY <1>1, <2>1, <2>2, <2>3 DEF Covered
<1>7. Cardinality(members') = n + 1
    BY <1>1, <1>5, FS_AddElement
<1>8. Sound(clock)'
    <2>1. /\ \A x \in members' : x.time <= clock
          /\ \A x \in admitted' : x.time <= clock
        BY <1>1, <1>4 DEF Sound
    <2>2. ASSUME NEW x \in members', x.time = clock
          PROVE  members' = Since(members', clock) /\ x.count < Cardinality(members')
        <3>1. now[r] = clock
            <4>1. CASE x = m
                BY <1>1, <2>2, <4>1
            <4>2. CASE x \in members
                BY <1>1, <1>4, <2>2, <4>2 DEF Sound
            <4> QED
                BY <1>1, <4>1, <4>2
        <3>2. members' = Since(members', clock)
            BY <1>1, <1>4, <3>1 DEF Since
        <3>3. x.count < n + 1
            <4>1. CASE x = m
                BY <1>1, <1>4, <4>1
            <4>2. CASE x \in members
                <5>1. x.count < n /\ x.count \in Nat
                    BY <1>1, <1>4, <2>2, <4>2 DEF Sound, TypeOK, Member
                <5> QED
                    BY <1>1, <5>1
            <4> QED
                BY <1>1, <4>1, <4>2
        <3> QED
            BY <1>7, <3>2, <3>3
    <2>3. \A u \in Nat : u >= clock => Covered(u)'
        BY <1>1, <1>4, <1>6
    <2> QED
        BY <1>1, <2>1, <2>2, <2>3 DEF Sound
<1>9. WithinVelocityLimit'
    <2> SUFFICES ASSUME NEW a \in admitted'
                 PROVE  Cardinality({x \in admitted' : /\ x.time > a.time - Window
                                                      /\ x.time <= a.time})
                          <= VelocityLimit
        BY DEF WithinVelocityLimit
    <2>1. a.time \in Nat
        BY <1>1 DEF TypeOK
    <2>2. CASE a.time = now[r]
        <3>1. {x \in admitted' : x.time > a.time - Window /\ x.time <= a.time}
                = Since(admitted', now[r])
            BY <1>1, <1>4, <2>2 DEF Sound, Since
        <3>2. Cardinality(Since(admitted', now[r])) <= Cardinality(Since(members', now[r]))
            BY <1>1, <1>6 DEF Covered
        <3>3. Since(members', now[r]) = members'
            BY <1>1, <1>4 DEF Since
        <3>4. Cardinality(Since(admitted', now[r])) \in Nat
            BY <1>1, <1>3, SinceAdd
        <3>5. Cardinality(Since(admitted', now[r])) <= VelocityLimit
            <4>1. n + 1 <= VelocityLimit
                BY <1>1, <1>4
            <4>2. Cardinality(Since(members', now[r])) = n + 1
                BY <1>7, <3>3
            <4> HIDE DEF n
            <4> QED
                BY <1>1, <3>2, <3>4, <4>1, <4>2
        <3> QED
            BY <3>1, <3>5
    <2>3. CASE a.time # now[r]
        <3>1. a \in admitted /\ a.time < now[r]
            <4>1. a \in admitted
                BY <1>1, <2>3
            <4> QED
                BY <1>1, <1>4, <2>1, <2>3, <4>1 DEF Sound
        <3>2. {x \in admitted' : x.time > a.time - Window /\ x.time <= a.time}
                = {x \in admitted : x.time > a.time - Window /\ x.time <= a.time}
            BY <1>1, <2>1, <3>1
        <3> QED
            BY <1>4, <3>1, <3>2 DEF WithinVelocityLimit
    <2> QED
        BY <2>2, <2>3
<1> QED
    BY <1>8, <1>9

\* VelocityRedisFails: RedisError at any of the commands; then nothing is promised.
LEMMA VelocityRedisFailsVelocity ==
    ASSUME LimitsInv, VelocityInv, NEW r \in Requests, VelocityRedisFails(r)
    PROVE  VelocityInv'
BY DEF LimitsInv, TypeOK, VelocityInv, VelocityRedisFails, RedisFails, Control

\* RecountTable: reached after a RedisError only.
LEMMA RecountTableVelocity ==
    ASSUME LimitsInv, VelocityInv, NEW r \in Requests, RecountTable(r)
    PROVE  VelocityInv'
<1>1. /\ ~(inTurn /\ outages["velocity"] = 0)
      /\ outages' = outages /\ inTurn' = inTurn
    BY DEF VelocityInv, Counting, RecountTable, Refuse, Admit, Rollback, arrivals
<1>2. IsFiniteSet(admitted')
    BY FS_AddElement DEF VelocityInv, RecountTable, Refuse, Admit
<1> QED
    BY <1>1, <1>2 DEF VelocityInv

\* Enforce: LimitsService.enforce as a whole; the commands of the daily limit leave
\* the window alone.
LEMMA EnforceVelocity ==
    ASSUME LimitsInv, VelocityInv, NEW r \in Requests, Enforce(r)
    PROVE  VelocityInv'
<1>1. ASSUME ReadCounter(r) \/ WriteCounter(r) \/ DailyRedisFails(r) \/ CheckTable(r)
      PROVE  VelocityInv'
    <2>1. /\ UNCHANGED <<clock, members, now, admitted, inTurn>>
          /\ outages'["velocity"] = outages["velocity"]
        BY <1>1 DEF LimitsInv, TypeOK, ReadCounter, WriteCounter, DailyRedisFails, CheckTable,
                    Rollback, RedisFails, Control, velocity, arrivals
    <2>2. pc'[r] \notin {"count", "add", "recount"}
        BY <1>1 DEF LimitsInv, TypeOK, ReadCounter, WriteCounter, DailyRedisFails, CheckTable,
                    Rollback, Goto
    <2>3. \A q \in Requests : q # r => pc'[q] = pc[q] /\ read'[q] = read[q]
        BY <1>1 DEF LimitsInv, TypeOK, ReadCounter, WriteCounter, DailyRedisFails, CheckTable,
                    Rollback, Goto, Read
    <2> QED
        BY <2>1, <2>2, <2>3, WindowUnchanged
<1> QED
    BY <1>1, PruneVelocity, CountWindowVelocity, AddMemberVelocity,
       VelocityRedisFailsVelocity, RecountTableVelocity
       DEF Enforce

\* Arrive, Pay and EndUnpaid: the window takes no notice of what becomes of a request.
LEMMA RestVelocity ==
    ASSUME LimitsInv, VelocityInv, NEW r \in Requests,
           (\E handled : Arrive(r, handled)) \/ Pay(r) \/ EndUnpaid(r)
    PROVE  VelocityInv'
<1>1. UNCHANGED <<outages, clock, members, admitted>>
    BY DEF Arrive, Pay, EndUnpaid, Rollback, velocity
<1>2. inTurn' => inTurn
    BY DEF Arrive, Pay, EndUnpaid, Rollback, arrivals
<1>3. pc'[r] \notin {"count", "add", "recount"}
    BY DEF LimitsInv, TypeOK, Arrive, Pay, EndUnpaid, Rollback, Goto
<1>4. \A q \in Requests : q # r =>
         pc'[q] = pc[q] /\ read'[q] = read[q] /\ now'[q] = now[q]
    BY DEF LimitsInv, TypeOK, Arrive, Pay, EndUnpaid, Rollback, Goto, Read, At, velocity
<1> QED
    BY <1>1, <1>2, <1>3, <1>4, WindowUnchanged

\* What happens beside the limits; the stamp of a record is not that of a request in
\* the window.
LEMMA OtherVelocity ==
    ASSUME LimitsInv, VelocityInv, UNCHANGED <<read, daily, clock, members, admitted, arrivals>>,
           \A r \in Requests : now'[r] = now[r] \/ pc[r] = "done",
           \/ UNCHANGED <<outages, pc>>
           \/ UNCHANGED pc /\ RedisFails("later")
           \/ UNCHANGED outages /\ \E r \in Requests : pc[r] = "new" /\ Goto(r, "done")
    PROVE  VelocityInv'
<1>1. outages'["velocity"] = outages["velocity"]
    BY DEF LimitsInv, TypeOK, RedisFails, Control
<1>2. \A q \in Requests : pc'[q] = pc[q] \/ pc'[q] = "done"
    BY DEF LimitsInv, TypeOK, Goto
<1>3. \A q \in Requests :
         \/ pc'[q] = pc[q] /\ now'[q] = now[q] /\ read'[q] = read[q]
         \/ pc'[q] \notin {"count", "add", "recount"}
    BY <1>2
<1> QED
    BY <1>1, <1>3, WindowUnchanged DEF arrivals

\* As long as requests come one at a time and Redis answers, no window that ends with
\* an admitted request holds more of them than the policy allows
\* (LimitsService._enforce_velocity_limit).
THEOREM VelocityHolds == Spec => []VelocityLimitInTurn
<1>1. Init => LimitsInv /\ VelocityInv
    BY LimitsInit, VelocityInit
<1>2. LimitsInv /\ VelocityInv /\ [Next]_vars => LimitsInv' /\ VelocityInv'
    <2> SUFFICES ASSUME LimitsInv, VelocityInv, [Next]_vars
                 PROVE  VelocityInv'
        BY LimitsStep
    <2>1. CASE UNCHANGED vars
        BY <2>1, OtherVelocity DEF vars, velocity
    <2>2. CASE Tick
        BY <2>2, TickVelocity
    <2>3. ASSUME NEW r \in Requests,
                 Arrive(r, InFlight) \/ Enforce(r) \/ Pay(r) \/ EndUnpaid(r)
          PROVE  VelocityInv'
        BY <2>3, EnforceVelocity, RestVelocity
    <2> QED
        BY <2>1, <2>2, <2>3 DEF Next
<1>3. VelocityInv => VelocityLimitInTurn
    BY DEF VelocityInv, VelocityLimitInTurn, WithinVelocityLimit
<1> QED
    BY <1>1, <1>2, <1>3, PTL DEF Spec

===============================================================================
