-------------------------- MODULE AmlRuleEngineProofs --------------------------
(***************************************************************************)
(* Facts about the sum of a set of payments, and about the list of         *)
(* AmlRuleEngine.  The sum is a recursive function of the community        *)
(* modules; what it computes follows from the fact that every set of       *)
(* finite sets has a smallest element, applied to the counterexamples.     *)
(***************************************************************************)
EXTENDS AmlRuleEngine, FiniteSetTheorems, TLAPS

(***************************************************************************)
(* Sums.                                                                   *)
(***************************************************************************)

\* Among sets of requests there is one of which no other is a part.
LEMMA SmallestSet ==
    ASSUME NEW Bad \in SUBSET SUBSET Requests, Bad # {}
    PROVE  \E T \in Bad : \A U \in Bad : U \subseteq T => U = T
<1>1. IsWellFoundedOn(StrictSubsetOrdering(Requests), SUBSET Requests)
    <2>1. IsFiniteSet(Requests)
        BY RequestsAssumption DEF RequestsAssumption
    <2>2. FiniteSubsetsOf(Requests) = SUBSET Requests
        BY <2>1, FS_FiniteSubsetsOfFinite
    <2> QED
        BY <2>2, FS_StrictSubsetOrderingWellFounded
<1>2. PICK T \in Bad : \A U \in Bad : <<U, T>> \notin StrictSubsetOrdering(Requests)
    BY <1>1, WFMin
<1> QED
    BY <1>2 DEF StrictSubsetOrdering

\* The element that SumFunctionOnSet takes first.
Chosen(s) == CHOOSE x \in s : TRUE

\* The function by which Functions!SumFunctionOnSet is defined.
Solves(a, f, S) ==
    f = [s \in SUBSET S |-> IF s = {} THEN 0
                            ELSE a[Chosen(s)] + f[s \ {Chosen(s)}]]

LEMMA TotalUnfolds ==
    ASSUME NEW a, NEW S
    PROVE  Total(a, S) = (CHOOSE f : Solves(a, f, S))[S]
BY DEF Total, SumFunctionOnSet, FoldFunctionOnSet, MapThenFoldSet, Solves, Chosen

\* Two solutions agree wherever both are defined.
LEMMA SolutionsAgree ==
    ASSUME NEW a, NEW S \in SUBSET Requests, NEW T \in SUBSET Requests, NEW f, NEW g,
           Solves(a, f, S), Solves(a, g, T), NEW s \in SUBSET S, s \in SUBSET T
    PROVE  f[s] = g[s]
<1> DEFINE Bad == {u \in SUBSET Requests : u \subseteq S /\ u \subseteq T /\ f[u] # g[u]}
<1> SUFFICES ASSUME Bad # {} PROVE FALSE
    OBVIOUS
<1>0. Bad \in SUBSET SUBSET Requests
    OBVIOUS
<1>1. PICK u \in Bad : \A v \in Bad : v \subseteq u => v = u
    <2> HIDE DEF Bad
    <2> QED
        BY <1>0, SmallestSet
<1>2. u \in SUBSET S /\ u \in SUBSET T /\ f[u] # g[u]
    OBVIOUS
<1>3. u # {}
    BY <1>2 DEF Solves
<1>4. Chosen(u) \in u
    BY <1>3 DEF Chosen
<1>5. f[u \ {Chosen(u)}] = g[u \ {Chosen(u)}]
    BY <1>1, <1>4
<1>6. /\ f[u] = a[Chosen(u)] + f[u \ {Chosen(u)}]
      /\ g[u] = a[Chosen(u)] + g[u \ {Chosen(u)}]
    BY <1>2, <1>3 DEF Solves
<1> QED
    BY <1>2, <1>5, <1>6

\* Every set of requests has a solution.
Solution(a, S) == CHOOSE f : Solves(a, f, S)

LEMMA SolutionExists ==
    ASSUME NEW a, NEW S \in SUBSET Requests
    PROVE  Solves(a, Solution(a, S), S)
<1> DEFINE Bad == {u \in SUBSET Requests : ~ \E f : Solves(a, f, u)}
<1> SUFFICES ASSUME Bad # {} PROVE FALSE
    BY DEF Solution
<1>1. Bad \in SUBSET SUBSET Requests
    OBVIOUS
<1>2. PICK T \in Bad : \A v \in Bad : v \subseteq T => v = T
    <2> HIDE DEF Bad
    <2> QED
        BY <1>1, SmallestSet
<1>3. T \in SUBSET Requests /\ ~ \E f : Solves(a, f, T)
    OBVIOUS
<1>4. ASSUME NEW u \in SUBSET T, u # T
      PROVE  Solves(a, Solution(a, u), u)
    <2>1. u \in SUBSET Requests /\ u \notin Bad
        BY <1>2, <1>3, <1>4
    <2> QED
        BY <2>1 DEF Solution
<1> DEFINE Rest(s) == s \ {Chosen(s)}
           G == [s \in SUBSET T |-> IF s = {} THEN 0
                                    ELSE a[Chosen(s)] + Solution(a, Rest(s))[Rest(s)]]
<1>5. ASSUME NEW s \in SUBSET T, s # {}
      PROVE  G[Rest(s)] = Solution(a, Rest(s))[Rest(s)]
    <2>1. Chosen(s) \in s
        BY <1>5 DEF Chosen
    <2>2. PICK u : u = Rest(s)
        OBVIOUS
    <2>3. u \in SUBSET T /\ u # T /\ u \in SUBSET Requests
        BY <2>1, <2>2, <1>3
    <2>4. Solves(a, Solution(a, u), u)
        BY <2>3, <1>4
    <2>5. CASE u = {}
        <3>1. Solution(a, u)[u] = 0
            BY <2>4, <2>5 DEF Solves
        <3> QED
            BY <3>1, <2>2, <2>3, <2>5
    <2>6. CASE u # {}
        <3>1. PICK w : w = Rest(u)
            OBVIOUS
        <3>2. Chosen(u) \in u
            BY <2>6 DEF Chosen
        <3>3. w \in SUBSET T /\ w # T /\ w \in SUBSET Requests /\ w \in SUBSET u
            BY <3>1, <3>2, <2>3
        <3>4. Solves(a, Solution(a, w), w)
            BY <3>3, <1>4
        <3>5. Solution(a, u)[w] = Solution(a, w)[w]
            <4>1. w \in SUBSET w
                OBVIOUS
            <4> HIDE DEF Bad, G, Rest
            <4> QED
                BY <2>3, <2>4, <3>3, <3>4, <4>1, SolutionsAgree
        <3>6. Solution(a, u)[u] = a[Chosen(u)] + Solution(a, u)[w]
            BY <2>4, <2>6, <3>1 DEF Solves
        <3>7. G[u] = a[Chosen(u)] + Solution(a, w)[w]
            BY <2>3, <2>6, <3>1
        <3> QED
            BY <3>5, <3>6, <3>7, <2>2
    <2> QED
        BY <2>5, <2>6
<1>6. Solves(a, G, T)
    <2>1. ASSUME NEW s \in SUBSET T
          PROVE  G[s] = IF s = {} THEN 0 ELSE a[Chosen(s)] + G[s \ {Chosen(s)}]
        BY <1>5
    <2>2. G = [s \in SUBSET T |-> G[s]]
        OBVIOUS
    <2> HIDE DEF G
    <2> QED
        BY <2>1, <2>2 DEF Solves
<1> QED
    BY <1>3, <1>6

\* The sum of no payments, and of a set that holds some.
LEMMA TotalByChoice ==
    ASSUME NEW a
    PROVE  /\ Total(a, {}) = 0
           /\ \A S \in SUBSET Requests :
                S # {} => /\ Chosen(S) \in S
                          /\ Total(a, S) = a[Chosen(S)] + Total(a, S \ {Chosen(S)})
<1>1. ASSUME NEW S \in SUBSET Requests
      PROVE  Total(a, S) = Solution(a, S)[S] /\ Solves(a, Solution(a, S), S)
    BY TotalUnfolds, SolutionExists DEF Solution
<1>2. Total(a, {}) = 0
    BY <1>1 DEF Solves
<1>3. ASSUME NEW S \in SUBSET Requests, S # {}
      PROVE  /\ Chosen(S) \in S
             /\ Total(a, S) = a[Chosen(S)] + Total(a, S \ {Chosen(S)})
    <2>1. Chosen(S) \in S
        BY <1>3 DEF Chosen
    <2>2. PICK w \in SUBSET S : w = S \ {Chosen(S)}
        OBVIOUS
    <2>3. Solution(a, S)[w] = Solution(a, w)[w]
        BY <1>1, <2>2, SolutionsAgree
    <2>4. Solution(a, S)[S] = a[Chosen(S)] + Solution(a, S)[w]
        BY <1>1, <1>3, <2>2 DEF Solves
    <2> QED
        BY <1>1, <2>1, <2>2, <2>3, <2>4
<1> QED
    BY <1>2, <1>3

LEMMA TotalType ==
    ASSUME NEW a \in [Requests -> Nat], NEW S \in SUBSET Requests
    PROVE  Total(a, S) \in Nat
<1> DEFINE Bad == {u \in SUBSET Requests : Total(a, u) \notin Nat}
<1> SUFFICES ASSUME Bad # {} PROVE FALSE
    OBVIOUS
<1>1. Bad \in SUBSET SUBSET Requests
    OBVIOUS
<1>2. PICK T \in Bad : \A v \in Bad : v \subseteq T => v = T
    <2> HIDE DEF Bad
    <2> QED
        BY <1>1, SmallestSet
<1>3. T \in SUBSET Requests /\ Total(a, T) \notin Nat
    OBVIOUS
<1>4. T # {}
    <2>1. Total(a, {}) = 0
        BY TotalByChoice
    <2> QED
        BY <1>3, <2>1
<1>5. PICK c \in T : Total(a, T) = a[c] + Total(a, T \ {c})
    BY <1>3, <1>4, TotalByChoice
<1>6. Total(a, T \ {c}) \in Nat
    BY <1>2, <1>3
<1>7. a[c] \in Nat
    BY <1>3
<1> QED
    BY <1>3, <1>5, <1>6, <1>7

\* The order in which the payments are taken makes no difference.
LEMMA TotalRemove ==
    ASSUME NEW a \in [Requests -> Nat], NEW S \in SUBSET Requests, NEW x \in S
    PROVE  Total(a, S) = Total(a, S \ {x}) + a[x]
<1> DEFINE Bad == {u \in SUBSET Requests :
                     \E y \in u : Total(a, u) # Total(a, u \ {y}) + a[y]}
<1> SUFFICES ASSUME Bad # {} PROVE FALSE
    OBVIOUS
<1>1. Bad \in SUBSET SUBSET Requests
    OBVIOUS
<1>2. PICK T \in Bad : \A v \in Bad : v \subseteq T => v = T
    <2> HIDE DEF Bad
    <2> QED
        BY <1>1, SmallestSet
<1>3. T \in SUBSET Requests
    OBVIOUS
<1>4. PICK y \in T : Total(a, T) # Total(a, T \ {y}) + a[y]
    OBVIOUS
<1>5. PICK c \in T : Total(a, T) = a[c] + Total(a, T \ {c})
    BY <1>3, <1>4, TotalByChoice
<1>6. /\ a[c] \in Nat /\ a[y] \in Nat
      /\ Total(a, T \ {c}) \in Nat /\ Total(a, T \ {y}) \in Nat
    BY <1>3, TotalType
<1>7. c # y
    BY <1>4, <1>5, <1>6
<1>8. ASSUME NEW u \in SUBSET T, u # T, NEW z \in u
      PROVE  Total(a, u) = Total(a, u \ {z}) + a[z]
    BY <1>2, <1>3, <1>8
<1>9. Total(a, T \ {c}) = Total(a, (T \ {c}) \ {y}) + a[y]
    BY <1>7, <1>8
<1>10. Total(a, T \ {y}) = Total(a, (T \ {y}) \ {c}) + a[c]
    BY <1>7, <1>8
<1>11. (T \ {c}) \ {y} = (T \ {y}) \ {c}
    OBVIOUS
<1>12. PICK rest \in Nat : rest = Total(a, (T \ {c}) \ {y})
    BY <1>3, TotalType
<1>13. Total(a, T) = a[c] + (rest + a[y])
    BY <1>5, <1>9, <1>12
<1>14. Total(a, T \ {y}) + a[y] = (rest + a[c]) + a[y]
    BY <1>10, <1>11, <1>12
<1>15. a[c] + (rest + a[y]) = (rest + a[c]) + a[y]
    BY <1>6
<1> QED
    BY <1>4, <1>13, <1>14, <1>15

LEMMA TotalAdd ==
    ASSUME NEW a \in [Requests -> Nat], NEW S \in SUBSET Requests, NEW x \in Requests, x \notin S
    PROVE  Total(a, S \cup {x}) = Total(a, S) + a[x]
<1>1. (S \cup {x}) \ {x} = S
    OBVIOUS
<1> QED
    BY <1>1, TotalRemove

\* A part has no more than the whole, and a union no more than its parts.
LEMMA TotalOfParts ==
    ASSUME NEW a \in [Requests -> Nat], NEW S \in SUBSET Requests, NEW T \in SUBSET Requests
    PROVE  /\ Total(a, S) <= Total(a, S \cup T)
           /\ Total(a, S \cup T) <= Total(a, S) + Total(a, T)
<1> DEFINE Good(u) == /\ Total(a, S) <= Total(a, S \cup u)
                      /\ Total(a, S \cup u) <= Total(a, S) + Total(a, u)
           Bad == {u \in SUBSET Requests : ~Good(u)}
<1> SUFFICES ASSUME Bad # {} PROVE FALSE
    OBVIOUS
<1>1. Bad \in SUBSET SUBSET Requests
    OBVIOUS
<1>2. PICK U \in Bad : \A v \in Bad : v \subseteq U => v = U
    <2> HIDE DEF Bad
    <2> QED
        BY <1>1, SmallestSet
<1>3. U \in SUBSET Requests /\ ~Good(U)
    OBVIOUS
<1>4. Total(a, S) \in Nat
    BY TotalType
<1>5. U # {}
    <2>1. S \cup {} = S /\ Total(a, {}) = 0
        BY TotalByChoice
    <2>2. Good({})
        BY <1>4, <2>1
    <2> QED
        BY <1>3, <2>2
<1>6. PICK x \in U : TRUE
    BY <1>5
<1>7. PICK w \in SUBSET U : w = U \ {x}
    OBVIOUS
<1>8. w \in SUBSET Requests /\ Good(w)
    BY <1>2, <1>3, <1>6, <1>7
<1>9. Total(a, U) = Total(a, w) + a[x]
    BY <1>3, <1>7, TotalRemove
<1>10. Total(a, w) \in Nat /\ a[x] \in Nat /\ Total(a, S \cup w) \in Nat
    BY <1>3, <1>8, TotalType
<1>11. CASE x \in S \cup w
    <2>1. S \cup U = S \cup w
        BY <1>6, <1>7, <1>11
    <2> QED
        BY <1>3, <1>4, <1>8, <1>9, <1>10, <2>1
<1>12. CASE x \notin S \cup w
    <2>1. S \cup U = (S \cup w) \cup {x}
        BY <1>6, <1>7
    <2>2. Total(a, S \cup U) = Total(a, S \cup w) + a[x]
        BY <1>3, <1>8, <1>12, <2>1, TotalAdd
    <2> QED
        BY <1>3, <1>4, <1>8, <1>9, <1>10, <2>2
<1> QED
    BY <1>11, <1>12

LEMMA TotalMonotone ==
    ASSUME NEW a \in [Requests -> Nat], NEW T \in SUBSET Requests, NEW S \in SUBSET T
    PROVE  Total(a, S) <= Total(a, T)
<1>1. S \cup T = T /\ S \in SUBSET Requests
    OBVIOUS
<1> QED
    BY <1>1, TotalOfParts

\* Smaller amounts have a smaller sum.
LEMMA TotalOfLess ==
    ASSUME NEW a \in [Requests -> Nat], NEW b \in [Requests -> Nat],
           \A r \in Requests : a[r] <= b[r], NEW S \in SUBSET Requests
    PROVE  Total(a, S) <= Total(b, S)
<1> DEFINE Bad == {u \in SUBSET Requests : ~(Total(a, u) <= Total(b, u))}
<1> SUFFICES ASSUME Bad # {} PROVE FALSE
    OBVIOUS
<1>1. Bad \in SUBSET SUBSET Requests
    OBVIOUS
<1>2. PICK T \in Bad : \A v \in Bad : v \subseteq T => v = T
    <2> HIDE DEF Bad
    <2> QED
        BY <1>1, SmallestSet
<1>3. T \in SUBSET Requests /\ ~(Total(a, T) <= Total(b, T))
    OBVIOUS
<1>4. T # {}
    <2>1. Total(a, {}) = 0 /\ Total(b, {}) = 0
        BY TotalByChoice
    <2> QED
        BY <1>3, <2>1
<1>5. PICK x \in T : TRUE
    BY <1>4
<1>6. /\ Total(a, T) = Total(a, T \ {x}) + a[x]
      /\ Total(b, T) = Total(b, T \ {x}) + b[x]
    BY <1>3, <1>5, TotalRemove
<1>7. Total(a, T \ {x}) <= Total(b, T \ {x})
    BY <1>2, <1>3, <1>5
<1>8. /\ Total(a, T \ {x}) \in Nat /\ Total(b, T \ {x}) \in Nat
      /\ a[x] \in Nat /\ b[x] \in Nat /\ a[x] <= b[x]
    BY <1>3, <1>5, TotalType
<1> QED
    BY <1>3, <1>6, <1>7, <1>8

(***************************************************************************)
(* The list.                                                               *)
(***************************************************************************)

\* The first n entries that are older than t.
Older(list, n, t) == {i \in 1 .. n : list[i].time < t}

\* What is read of the list has q, recorded at t or later, or is full; of the entries
\* that were pushed since at most k are older than t.
Listed(list, q, t, k) ==
    \/ \E i \in 1 .. MaxHistory + 1 :
        /\ i \in DOMAIN list /\ list[i].request = q /\ list[i].time >= t
        /\ Cardinality(Older(list, i, t)) <= k
    \/ /\ Len(list) > MaxHistory
       /\ Cardinality(Older(list, MaxHistory + 1, t)) <= k

LEMMA EntryFacts ==
    ASSUME NEW list \in Seq(Entry)
    PROVE  /\ Len(list) \in Nat
           /\ DOMAIN list = 1 .. Len(list)
           /\ \A i \in DOMAIN list : list[i].time \in Nat /\ list[i].request \in Requests
<1>1. /\ Len(list) \in Nat /\ DOMAIN list = 1 .. Len(list)
      /\ \A i \in DOMAIN list : list[i] \in Entry
    OBVIOUS
<1> QED
    BY <1>1 DEF Entry

LEMMA PushedFacts ==
    ASSUME AmlTypeOK, NEW time \in Nat, NEW r \in Requests
    PROVE  /\ Pushed(r, time) \in Seq(Entry)
           /\ Len(Pushed(r, time)) = Len(history) + 1
           /\ Pushed(r, time)[1] = [time |-> time, request |-> r]
           /\ \A i \in 2 .. Len(history) + 1 : Pushed(r, time)[i] = history[i - 1]
<1>1. [time |-> time, request |-> r] \in Entry
    BY DEF Entry
<1> QED
    BY <1>1 DEF Pushed, AmlTypeOK

LEMMA TrimmedFacts ==
    ASSUME NEW list \in Seq(Entry)
    PROVE  /\ Trimmed(list) \in Seq(Entry)
           /\ Len(Trimmed(list)) = IF Len(list) < MaxHistory + 1 THEN Len(list)
                                   ELSE MaxHistory + 1
           /\ \A i \in 1 .. Len(Trimmed(list)) : Trimmed(list)[i] = list[i]
<1> DEFINE n == IF Len(list) < MaxHistory + 1 THEN Len(list) ELSE MaxHistory + 1
<1>1. n \in 0 .. Len(list)
    BY AmlAssumption DEF AmlAssumption
<1>2. Trimmed(list) = SubSeq(list, 1, n)
    BY DEF Trimmed, First
<1> HIDE DEF n
<1>3. /\ SubSeq(list, 1, n) \in Seq(Entry)
      /\ Len(SubSeq(list, 1, n)) = n
      /\ \A i \in 1 .. n : SubSeq(list, 1, n)[i] = list[i]
    BY <1>1
<1> QED
    BY <1>2, <1>3 DEF n

\* The entries before a place in the list are finitely many.
LEMMA OlderFinite ==
    ASSUME NEW list, NEW n \in Nat, NEW t
    PROVE  IsFiniteSet(Older(list, n, t)) /\ Cardinality(Older(list, n, t)) \in Nat
<1>1. IsFiniteSet(1 .. n) /\ Older(list, n, t) \in SUBSET (1 .. n)
    BY FS_Interval DEF Older
<1> QED
    BY <1>1, FS_Subset, FS_CardinalityType

\* A shorter list, or a list of the same entries, has no more that are older.
LEMMA OlderFewer ==
    ASSUME NEW list, NEW other, NEW n \in Nat, NEW m \in Nat, NEW t, m <= n,
           \A i \in 1 .. m : other[i] = list[i]
    PROVE  Cardinality(Older(other, m, t)) <= Cardinality(Older(list, n, t))
<1>1. Older(other, m, t) \subseteq Older(list, n, t)
    BY DEF Older
<1> QED
    BY <1>1, OlderFinite, FS_Subset

\* LPUSH moves the entries by one, and adds one that is older than t or not.
LEMMA OlderPushed ==
    ASSUME AmlTypeOK, NEW time \in Nat, NEW r \in Requests, NEW t \in Nat,
           NEW n \in Nat, n <= Len(history), NEW k \in Nat,
           Cardinality(Older(history, n, t)) <= k
    PROVE  Cardinality(Older(Pushed(r, time), n + 1, t)) <= IF time < t THEN k + 1 ELSE k
<1> DEFINE p == Pushed(r, time)
           moved == {i + 1 : i \in Older(history, n, t)}
<1>1. /\ Len(history) \in Nat
      /\ p[1].time = time
      /\ \A i \in 2 .. Len(history) + 1 : p[i] = history[i - 1]
    <2>1. p[1] = [time |-> time, request |-> r]
        BY PushedFacts
    <2> QED
        BY <2>1, PushedFacts, EntryFacts DEF AmlTypeOK
<1> HIDE DEF p
<1>2. IsFiniteSet(Older(history, n, t)) /\ Cardinality(Older(history, n, t)) \in Nat
    BY OlderFinite
<1>3. IsFiniteSet(moved) /\ Cardinality(moved) <= Cardinality(Older(history, n, t))
    <2> DEFINE older == Older(history, n, t)
               move == [i \in older |-> i + 1]
    <2>1. move \in Surjection(older, moved)
        BY DEF Surjection
    <2> HIDE DEF move, moved
    <2> QED
        BY <1>2, <2>1, FS_Surjection
<1>4. Cardinality(moved) \in Nat
    BY <1>3, FS_CardinalityType
<1>5. ASSUME NEW i \in Older(p, n + 1, t), i # 1
      PROVE  i \in moved
    <2>1. i \in 2 .. Len(history) + 1 /\ i - 1 \in 1 .. n /\ p[i].time < t
        BY <1>1, <1>5 DEF Older
    <2>2. i - 1 \in Older(history, n, t)
        BY <1>1, <2>1 DEF Older
    <2> QED
        BY <2>1, <2>2
<1>6. CASE time < t
    <2>1. Older(p, n + 1, t) \subseteq moved \cup {1}
        BY <1>5
    <2>2. /\ IsFiniteSet(moved \cup {1}) /\ Cardinality(moved \cup {1}) \in Nat
          /\ Cardinality(moved \cup {1}) <= Cardinality(moved) + 1
        <3> HIDE DEF moved
        <3>1. /\ IsFiniteSet(moved \cup {1})
              /\ Cardinality(moved \cup {1})
                    = IF 1 \in moved THEN Cardinality(moved) ELSE Cardinality(moved) + 1
            BY <1>3, FS_AddElement
        <3> QED
            BY <1>4, <3>1
    <2>3. Cardinality(Older(p, n + 1, t)) <= Cardinality(moved \cup {1})
        BY <2>1, <2>2, FS_Subset
    <2>4. Cardinality(Older(p, n + 1, t)) \in Nat
        BY OlderFinite
    <2> HIDE DEF moved
    <2> QED
        BY <1>2, <1>3, <1>4, <1>6, <2>2, <2>3, <2>4 DEF p
<1>7. CASE ~(time < t)
    <2>1. Older(p, n + 1, t) \subseteq moved
        BY <1>1, <1>5, <1>7 DEF Older
    <2>2. Cardinality(Older(p, n + 1, t)) <= Cardinality(moved)
        BY <1>3, <2>1, FS_Subset
    <2>3. Cardinality(Older(p, n + 1, t)) \in Nat
        BY OlderFinite
    <2> HIDE DEF moved
    <2> QED
        BY <1>2, <1>3, <1>4, <1>7, <2>2, <2>3 DEF p
<1> QED
    BY <1>6, <1>7

\* LPUSH counts among what was pushed since, and pushes out of what is read what has
\* enough before it to fill the list.
LEMMA PushKeeps ==
    ASSUME AmlTypeOK, NEW time \in Nat, NEW r \in Requests, NEW q \in Requests,
           NEW t \in Nat, NEW k \in Nat, NEW l \in Nat,
           l = IF time < t THEN k + 1 ELSE k, Listed(history, q, t, k)
    PROVE  Listed(Pushed(r, time), q, t, l)
<1>0. MaxHistory \in Nat /\ MaxHistory + 1 \in Nat
    BY AmlAssumption DEF AmlAssumption
<1> DEFINE p == Pushed(r, time)
<1>1. /\ Len(history) \in Nat /\ DOMAIN history = 1 .. Len(history)
      /\ Len(p) = Len(history) + 1 /\ DOMAIN p = 1 .. Len(history) + 1
      /\ \A i \in 2 .. Len(history) + 1 : p[i] = history[i - 1]
    <2>1. history \in Seq(Entry) /\ p \in Seq(Entry)
        BY PushedFacts DEF AmlTypeOK
    <2> HIDE DEF p
    <2>2. /\ Len(p) = Len(history) + 1
          /\ \A i \in 2 .. Len(history) + 1 : p[i] = history[i - 1]
        BY PushedFacts DEF p
    <2> QED
        BY <2>1, <2>2, EntryFacts
<1> HIDE DEF p
<1>2. ASSUME Len(history) > MaxHistory, Cardinality(Older(history, MaxHistory + 1, t)) <= k
      PROVE  Listed(p, q, t, l)
    <2>1. Cardinality(Older(history, MaxHistory, t)) <= k
        <3>1. Cardinality(Older(history, MaxHistory, t))
                <= Cardinality(Older(history, MaxHistory + 1, t))
            BY <1>0, OlderFewer
        <3> QED
            BY <1>0, <1>2, <3>1, OlderFinite
    <2>2. Cardinality(Older(p, MaxHistory + 1, t)) <= l
        BY <1>0, <1>1, <1>2, <2>1, OlderPushed DEF p
    <2> QED
        BY <1>0, <1>1, <1>2, <2>2 DEF Listed
<1>3. ASSUME NEW i \in 1 .. MaxHistory + 1, i \in DOMAIN history, history[i].request = q,
             history[i].time >= t, Cardinality(Older(history, i, t)) <= k
      PROVE  Listed(p, q, t, l)
    <2>1. Cardinality(Older(p, i + 1, t)) <= l /\ i + 1 \in DOMAIN p /\ p[i + 1] = history[i]
        <3>1. i \in Nat /\ i <= Len(history)
            BY <1>0, <1>1, <1>3
        <3>2. Cardinality(Older(p, i + 1, t)) <= l
            BY <1>3, <3>1, OlderPushed DEF p
        <3> QED
            BY <1>1, <3>1, <3>2
    <2>2. CASE i <= MaxHistory
        <3>1. i + 1 \in 1 .. MaxHistory + 1
            BY <1>0, <2>2
        <3> QED
            BY <1>3, <2>1, <3>1 DEF Listed
    <2>3. CASE i = MaxHistory + 1
        <3>1. Cardinality(Older(p, MaxHistory + 1, t)) <= Cardinality(Older(p, i + 1, t))
            <4>1. i + 1 \in Nat /\ MaxHistory + 1 <= i + 1
                BY <1>0, <2>3
            <4> QED
                BY <1>0, <4>1, OlderFewer
        <3>2. Cardinality(Older(p, MaxHistory + 1, t)) <= l
            <4>1. i + 1 \in Nat
                BY <1>0
            <4>2. /\ Cardinality(Older(p, i + 1, t)) \in Nat
                  /\ Cardinality(Older(p, MaxHistory + 1, t)) \in Nat
                BY <1>0, <4>1, OlderFinite
            <4>3. l \in Nat
                OBVIOUS
            <4> QED
                BY <2>1, <3>1, <4>2, <4>3
        <3>3. Len(p) > MaxHistory
            BY <1>0, <1>1, <1>3, <2>3
        <3> QED
            BY <3>2, <3>3 DEF Listed
    <2> QED
        BY <1>0, <2>2, <2>3
<1> QED
    BY <1>2, <1>3 DEF Listed, p

LEMMA PushLists ==
    ASSUME AmlTypeOK, NEW time \in Nat, NEW r \in Requests, NEW t \in 0 .. time
    PROVE  Listed(Pushed(r, time), r, t, 0)
<1>0. MaxHistory \in Nat /\ MaxHistory + 1 \in Nat
    BY AmlAssumption DEF AmlAssumption
<1>1. PICK p \in Seq(Entry) : p = Pushed(r, time)
    BY PushedFacts
<1>2. p[1].time = time /\ p[1].request = r /\ 1 \in DOMAIN p
    <2>1. Len(p) = Len(history) + 1 /\ p[1] = [time |-> time, request |-> r]
        BY <1>1, PushedFacts
    <2> QED
        BY <2>1, EntryFacts DEF AmlTypeOK
<1>3. Older(p, 1, t) = {}
    BY <1>2 DEF Older
<1>4. 1 \in 1 .. MaxHistory + 1
    BY <1>0
<1>5. Cardinality(Older(p, 1, t)) = 0
    BY <1>3, FS_EmptySet
<1> QED
    BY <1>1, <1>2, <1>4, <1>5 DEF Listed

\* LTRIM takes away nothing that is read.
LEMMA TrimKeeps ==
    ASSUME NEW list \in Seq(Entry), NEW q \in Requests, NEW t \in Nat, NEW k \in Nat,
           Listed(list, q, t, k)
    PROVE  Listed(Trimmed(list), q, t, k)
<1> USE AmlAssumption DEF AmlAssumption
<1>1. PICK p \in Seq(Entry) : p = Trimmed(list)
    BY TrimmedFacts
<1>2. /\ Len(p) = IF Len(list) < MaxHistory + 1 THEN Len(list) ELSE MaxHistory + 1
      /\ \A i \in 1 .. Len(p) : p[i] = list[i]
      /\ DOMAIN p = 1 .. Len(p) /\ DOMAIN list = 1 .. Len(list)
      /\ Len(p) \in Nat /\ Len(list) \in Nat
    BY <1>1, TrimmedFacts
<1>3. ASSUME Len(list) > MaxHistory, Cardinality(Older(list, MaxHistory + 1, t)) <= k
      PROVE  Listed(p, q, t, k)
    <2>1. Cardinality(Older(p, MaxHistory + 1, t)) <= Cardinality(Older(list, MaxHistory + 1, t))
        BY <1>2, <1>3, OlderFewer
    <2>2. Cardinality(Older(p, MaxHistory + 1, t)) <= k
        BY <1>3, <2>1, OlderFinite
    <2> QED
        BY <1>2, <1>3, <2>2 DEF Listed
<1>4. ASSUME NEW i \in 1 .. MaxHistory + 1, i \in DOMAIN list, list[i].request = q,
             list[i].time >= t, Cardinality(Older(list, i, t)) <= k
      PROVE  Listed(p, q, t, k)
    <2>1. i \in DOMAIN p /\ p[i] = list[i] /\ i \in Nat /\ \A j \in 1 .. i : p[j] = list[j]
        BY <1>2, <1>4
    <2>2. Cardinality(Older(p, i, t)) <= Cardinality(Older(list, i, t))
        BY <2>1, OlderFewer
    <2>3. Cardinality(Older(p, i, t)) <= k
        BY <1>4, <2>1, <2>2, OlderFinite
    <2> QED
        BY <1>4, <2>1, <2>3 DEF Listed
<1> QED
    BY <1>1, <1>3, <1>4 DEF Listed

\* What the writes of one payment may do to the list (record_outgoing, to the end
\* or a part of it).
Written(r, time) == {history, Pushed(r, time), Trimmed(Pushed(r, time))}

LEMMA WriteType ==
    ASSUME AmlTypeOK, NEW time \in Nat, NEW r \in Requests, NEW list \in Written(r, time)
    PROVE  list \in Seq(Entry)
<1>1. Pushed(r, time) \in Seq(Entry) /\ history \in Seq(Entry)
    BY PushedFacts DEF AmlTypeOK
<1>2. Trimmed(Pushed(r, time)) \in Seq(Entry)
    BY <1>1, TrimmedFacts
<1> QED
    BY <1>1, <1>2 DEF Written

LEMMA WriteKeeps ==
    ASSUME AmlTypeOK, NEW time \in Nat, NEW r \in Requests, NEW list \in Written(r, time),
           NEW q \in Requests, NEW t \in Nat, NEW k \in Nat, NEW l \in Nat,
           l = IF time < t THEN k + 1 ELSE k, Listed(history, q, t, k)
    PROVE  Listed(list, q, t, l)
<1>1. Pushed(r, time) \in Seq(Entry)
    BY PushedFacts
<1>2. Listed(Pushed(r, time), q, t, l)
    BY PushKeeps
<1>3. Listed(Trimmed(Pushed(r, time)), q, t, l)
    BY <1>1, <1>2, TrimKeeps
<1>4. Listed(history, q, t, l)
    <2>1. PICK n : n = MaxHistory + 1
        OBVIOUS
    <2>2. /\ history \in Seq(Entry) /\ DOMAIN history = 1 .. Len(history)
          /\ \A i \in 1 .. n : Cardinality(Older(history, i, t)) \in Nat
          /\ Cardinality(Older(history, n, t)) \in Nat /\ k <= l
        BY <2>1, OlderFinite, AmlAssumption DEF AmlTypeOK, AmlAssumption
    <2> QED
        BY <2>1, <2>2 DEF Listed
<1> QED
    BY <1>2, <1>3, <1>4 DEF Written

\* record_outgoing to the end leaves the payment in the list.
LEMMA WriteLists ==
    ASSUME AmlTypeOK, NEW time \in Nat, NEW r \in Requests, NEW t \in 0 .. time
    PROVE  Listed(Trimmed(Pushed(r, time)), r, t, 0)
<1>1. Listed(Pushed(r, time), r, t, 0) /\ Pushed(r, time) \in Seq(Entry)
    BY PushLists, PushedFacts
<1> QED
    BY <1>1, TrimKeeps

\* A payment is read from the list for as long as it is in the window.
LEMMA EntryIsRead ==
    ASSUME AmlTypeOK, clock \in Nat, NEW window \in Nat, NEW t \in Nat,
           t >= clock - window,
           NEW i \in 1 .. MaxHistory + 1, i \in DOMAIN history, history[i].time >= t
    PROVE  history[i].request \in Recent(window)
<1>1. PICK seen : seen = First(history, MaxHistory + 1)
    OBVIOUS
<1>2. /\ seen \in Seq(Entry)
      /\ Len(seen) = IF Len(history) < MaxHistory + 1 THEN Len(history) ELSE MaxHistory + 1
      /\ \A j \in 1 .. Len(seen) : seen[j] = history[j]
    BY <1>1, TrimmedFacts DEF Trimmed, AmlTypeOK
<1>3. i \in DOMAIN seen /\ seen[i] = history[i]
    BY <1>2, EntryFacts, AmlAssumption DEF AmlTypeOK, AmlAssumption
<1>4. history[i].time \in Nat
    BY EntryFacts DEF AmlTypeOK
<1>5. seen[i].time >= clock - window
    BY <1>3, <1>4
<1> QED
    BY <1>1, <1>3, <1>5 DEF Recent

LEMMA ListedIsRead ==
    ASSUME AmlTypeOK, clock \in Nat, NEW window \in Nat, NEW q \in Requests,
           NEW t \in Nat, t >= clock - window, NEW k, Listed(history, q, t, k)
    PROVE  \/ q \in Recent(window)
           \/ /\ Len(history) > MaxHistory
              /\ Cardinality(Older(history, MaxHistory + 1, t)) <= k
BY EntryIsRead DEF Listed

===============================================================================
