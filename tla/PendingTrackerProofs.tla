------------------------ MODULE PendingTrackerProofs ------------------------
(***************************************************************************)
(* How soon an approved plan is picked up, and by how many polls, for all  *)
(* durations, plans, events, failed runs and restarts.                     *)
(***************************************************************************)
EXTENDS PendingTracker, FiniteSetTheorems, WellFoundedInduction, TLAPS

-----------------------------------------------------------------------------
(* Numbers.                                                                *)

\* A nonempty set of natural numbers has a least element.
LEMMA Least ==
  ASSUME NEW s \in SUBSET Nat, s # {}
  PROVE  \E m \in s : \A y \in s : m <= y
  <1>1. PICK m \in s : \A y \in s : ~ (<<y, m>> \in OpToRel(<, Nat))
    BY NatLessThanWellFounded, WFMin
  <1>2. ASSUME NEW y \in s PROVE ~ (y < m)
    BY <1>1, <1>2 DEF OpToRel
  <1> QED BY <1>2

\* The loop that starts with a value of S and repeats a step.
Iterates(f, S, start, step) ==
  /\ f \in [Nat -> S] /\ f[0] = start
  /\ \A n \in Nat : f[n + 1] = step[<<n, f[n]>>]

\* There is one: a function can be defined by its value at 0 and the step from
\* each value to the next one.
LEMMA Iteration ==
  ASSUME NEW S, NEW start \in S, NEW step \in [Nat \X S -> S]
  PROVE  \E f : Iterates(f, S, start, step)
  <1> DEFINE Prefix(n, g) == /\ g \in [0..n -> S] /\ g[0] = start
                             /\ \A k \in 0..n-1 : g[k + 1] = step[<<k, g[k]>>]
  <1>1. \A n \in Nat : \E g : Prefix(n, g)
    <2> DEFINE bad == {n \in Nat : ~ \E g : Prefix(n, g)}
    <2>1. SUFFICES ASSUME bad # {} PROVE FALSE
      OBVIOUS
    <2>2. PICK m \in bad : \A y \in bad : m <= y
      <3> HIDE DEF bad
      <3>1. bad \in SUBSET Nat
        BY DEF bad
      <3> QED BY <2>1, <3>1, Least
    <2>3. CASE m = 0
      <3>1. Prefix(0, [k \in 0..0 |-> start])
        OBVIOUS
      <3> QED BY <2>2, <2>3, <3>1
    <2>4. CASE m # 0
      <3>1. m - 1 \in Nat /\ m - 1 \notin bad
        BY <2>2, <2>4
      <3>2. PICK g : Prefix(m - 1, g)
        BY <3>1
      <3> DEFINE h == [k \in 0..m |-> IF k = m THEN step[<<m - 1, g[m - 1]>>] ELSE g[k]]
      <3>3. g[m - 1] \in S /\ <<m - 1, g[m - 1]>> \in Nat \X S
        BY <3>1, <3>2
      <3>4. h \in [0..m -> S] /\ h[0] = start
        BY <3>1, <3>2, <3>3, <2>4
      <3>5. ASSUME NEW k \in 0..m-1 PROVE h[k + 1] = step[<<k, h[k]>>]
        <4>1. CASE k = m - 1
          BY <4>1, <3>1
        <4>2. CASE k # m - 1
          <5>1. k \in 0..(m-1)-1
            BY <4>2, <3>1
          <5>2. g[k + 1] = step[<<k, g[k]>>]
            BY <5>1, <3>2
          <5>3. h[k + 1] = g[k + 1] /\ h[k] = g[k]
            BY <5>1, <3>1
          <5> HIDE DEF h
          <5> QED BY <5>2, <5>3
        <4> QED BY <4>1, <4>2
      <3>6. Prefix(m, h)
        <4> HIDE DEF h
        <4> QED BY <3>4, <3>5
      <3> QED BY <2>2, <3>6
    <2> QED BY <2>3, <2>4
  <1> DEFINE at(n) == CHOOSE g : Prefix(n, g)
             f == [n \in Nat |-> at(n)[n]]
  <1>2. \A n \in Nat : Prefix(n, at(n))
    <2> HIDE DEF Prefix
    <2> QED BY <1>1
  \* Two prefixes agree where both are defined.
  <1>3. ASSUME NEW n \in Nat PROVE at(n + 1)[n] = at(n)[n]
    <2> DEFINE a == at(n)
               b == at(n + 1)
               apart == {k \in 0..n : a[k] # b[k]}
    <2>1. Prefix(n, a) /\ Prefix(n + 1, b)
      <3> HIDE DEF Prefix, at
      <3> QED BY <1>2
    <2> HIDE DEF a, b
    <2>2. ASSUME apart # {} PROVE FALSE
      <3>1. PICK m \in apart : \A y \in apart : m <= y
        <4>1. apart \in SUBSET Nat
          OBVIOUS
        <4> HIDE DEF apart
        <4> QED BY <2>2, <4>1, Least
      <3>2. m # 0
        BY <2>1, <3>1
      <3>3. m - 1 \in 0..n /\ m - 1 \notin apart
        BY <3>1, <3>2
      <3>4. m - 1 \in 0..n-1 /\ m - 1 \in 0..(n+1)-1 /\ (m - 1) + 1 = m
        BY <3>1, <3>2
      <3>5. a[m] = step[<<m - 1, a[m - 1]>>] /\ b[m] = step[<<m - 1, b[m - 1]>>]
        BY <2>1, <3>4
      <3> QED BY <3>1, <3>3, <3>5
    <2>3. n \notin apart /\ n \in 0..n
      BY <2>2
    <2> QED BY <2>3 DEF a, b
  <1>4. f \in [Nat -> S] /\ f[0] = start
    <2>1. ASSUME NEW n \in Nat PROVE at(n)[n] \in S
      <3> HIDE DEF at
      <3> QED BY <1>2, <2>1
    <2>2. at(0)[0] = start
      <3> HIDE DEF at
      <3> QED BY <1>2
    <2> HIDE DEF at
    <2> QED BY <2>1, <2>2
  <1>5. ASSUME NEW n \in Nat PROVE f[n + 1] = step[<<n, f[n]>>]
    <2>1. n \in 0..(n+1)-1 /\ n + 1 \in Nat
      OBVIOUS
    <2>2. at(n + 1)[n + 1] = step[<<n, at(n + 1)[n]>>]
      <3> HIDE DEF at
      <3> QED BY <1>2, <2>1
    <2> HIDE DEF at
    <2> QED BY <1>3, <2>1, <2>2
  <1> HIDE DEF f
  <1> QED BY <1>4, <1>5 DEF Iterates

-----------------------------------------------------------------------------
(* The delay.                                                              *)

\* The loop of delay: it starts at retryDuration and doubles.
LEMMA Doubles ==
  ASSUME ConstantsOK
  PROVE  /\ doubled(0) = Retry
         /\ \A k \in Nat : doubled(k) \in Nat /\ doubled(k + 1) = 2 * doubled(k)
  <1> DEFINE step == [x \in Nat \X Nat |-> 2 * x[2]]
  <1>1. step \in [Nat \X Nat -> Nat] /\ Retry \in Nat
    BY DEF ConstantsOK
  <1>2. PICK f : Iterates(f, Nat, Retry, step)
    <2> HIDE DEF step
    <2> QED BY <1>1, Iteration
  <1>3. /\ f \in [Nat -> Nat] /\ f[0] = Retry
        /\ \A n \in Nat : f[n + 1] = 2 * f[n]
    BY <1>2 DEF Iterates
  <1>4. ASSUME NEW n \in Nat PROVE doubled(n) = f[n]
    <2> DEFINE body(g) == [k \in 0..n |-> IF k = 0 THEN Retry ELSE 2 * g[k - 1]]
               h == [k \in 0..n |-> f[k]]
               delay == CHOOSE g : g = body(g)
    <2>1. h = body(h)
      <3>1. ASSUME NEW k \in 0..n PROVE h[k] = IF k = 0 THEN Retry ELSE 2 * h[k - 1]
        <4>1. CASE k # 0
          <5>1. k - 1 \in Nat /\ k - 1 \in 0..n /\ (k - 1) + 1 = k
            BY <4>1
          <5>2. f[k] = 2 * f[k - 1]
            BY <1>3, <5>1
          <5> QED BY <4>1, <5>1, <5>2
        <4> QED BY <1>3, <4>1
      <3> QED BY <3>1
    <2>2. delay = body(delay)
      <3> HIDE DEF body, h
      <3> QED BY <2>1
    <2>3. doubled(n) = delay[n]
      BY DEF doubled
    <2>4. \A k \in 0..n : delay[k] = IF k = 0 THEN Retry ELSE 2 * delay[k - 1]
      <3> HIDE DEF delay
      <3> QED BY <2>2
    <2> HIDE DEF delay
    \* A least number at which the two differ has a predecessor at which they do.
    <2>5. \A k \in 0..n : delay[k] = f[k]
      <3> DEFINE apart == {k \in 0..n : delay[k] # f[k]}
      <3>1. ASSUME apart # {} PROVE FALSE
        <4>1. PICK m \in apart : \A y \in apart : m <= y
          <5>1. apart \in SUBSET Nat
            OBVIOUS
          <5> HIDE DEF apart
          <5> QED BY <3>1, <5>1, Least
        <4>2. m # 0
          BY <1>3, <2>4, <4>1
        <4>3. m - 1 \in 0..n /\ m - 1 \notin apart /\ (m - 1) + 1 = m /\ m - 1 \in Nat
          BY <4>1, <4>2
        <4>4. f[m] = 2 * f[m - 1]
          BY <1>3, <4>3
        <4> QED BY <2>4, <4>1, <4>2, <4>3, <4>4
      <3> QED BY <3>1
    <2> QED BY <2>3, <2>5
  <1>5. \A n \in Nat : n + 1 \in Nat
    OBVIOUS
  <1> QED BY <1>3, <1>4, <1>5

\* It grows at least as fast as the number of its rounds.
LEMMA DoubledGrows ==
  ASSUME ConstantsOK
  PROVE  \A k \in Nat : doubled(k) >= k + 1
  <1> DEFINE bad == {k \in Nat : ~ (doubled(k) >= k + 1)}
  <1>1. ASSUME bad # {} PROVE FALSE
    <2>1. PICK m \in bad : \A y \in bad : m <= y
      <3>1. bad \in SUBSET Nat
        OBVIOUS
      <3> HIDE DEF bad
      <3> QED BY <1>1, <3>1, Least
    <2>2. m # 0
      BY <2>1, Doubles DEF ConstantsOK
    <2>3. m - 1 \in Nat /\ m - 1 \notin bad /\ (m - 1) + 1 = m
      BY <2>1, <2>2
    <2>4. doubled(m) = 2 * doubled(m - 1) /\ doubled(m - 1) \in Nat /\ doubled(m - 1) >= m
      BY <2>3, Doubles
    <2> QED BY <2>1, <2>2, <2>4
  <1> QED BY <1>1

LEMMA MinOfTwo ==
  ASSUME NEW a \in Int, NEW b \in Int
  PROVE  Min({a, b}) = IF a <= b THEN a ELSE b
  <1>1. \E x \in {a, b} : \A y \in {a, b} : x <= y
    OBVIOUS
  <1>2. Min({a, b}) \in {a, b} /\ \A y \in {a, b} : Min({a, b}) <= y
    BY <1>1 DEF Min
  <1> QED BY <1>2

LEMMA MaxOfTwo ==
  ASSUME NEW a \in Int, NEW b \in Int
  PROVE  Max({a, b}) = IF a >= b THEN a ELSE b
  <1>1. \E x \in {a, b} : \A y \in {a, b} : x >= y
    OBVIOUS
  <1>2. Max({a, b}) \in {a, b} /\ \A y \in {a, b} : Max({a, b}) >= y
    BY <1>1 DEF Max
  <1> QED BY <1>2

\* Where the loop ends: in some round, and not in the one before.
LEMMA LoopEnds ==
  ASSUME ConstantsOK, NEW e \in Nat
  PROVE  \E k \in Nat :
           /\ firstDoubled(e) = doubled(k) /\ (doubled(k) >= e \/ doubled(k) >= MaxDelay)
           /\ k # 0 => doubled(k - 1) < e /\ doubled(k - 1) < MaxDelay
  <1> DEFINE Ends(d) == d >= e \/ d >= MaxDelay
             ends == {d \in {doubled(k) : k \in 0..MaxDelay} : Ends(d)}
  <1>1. ends \in SUBSET Nat
    BY Doubles DEF ConstantsOK
  <1>2. doubled(MaxDelay) \in ends
    <2>1. MaxDelay \in Nat /\ doubled(MaxDelay) >= MaxDelay
      BY Doubles, DoubledGrows DEF ConstantsOK
    <2> QED BY <2>1
  <1>3. firstDoubled(e) \in ends /\ \A d \in ends : firstDoubled(e) <= d
    <2>1. firstDoubled(e) = Min(ends)
      BY DEF firstDoubled
    <2>2. \E x \in ends : \A y \in ends : x <= y
      <3> HIDE DEF ends
      <3> QED BY <1>1, <1>2, Least
    <2> HIDE DEF ends
    <2> QED BY <2>1, <2>2 DEF Min
  <1>4. PICK k \in 0..MaxDelay : firstDoubled(e) = doubled(k) /\ Ends(doubled(k))
    BY <1>3
  <1>5. k \in Nat /\ doubled(k) \in Nat
    BY <1>4, Doubles DEF ConstantsOK
  <1>6. ASSUME k # 0 PROVE ~ Ends(doubled(k - 1)) /\ doubled(k - 1) \in Nat
    <2>1. k - 1 \in 0..MaxDelay /\ k - 1 \in Nat /\ (k - 1) + 1 = k
      BY <1>4, <1>6 DEF ConstantsOK
    <2>2. doubled(k) = 2 * doubled(k - 1) /\ doubled(k - 1) \in Nat /\ doubled(k - 1) > 0
      BY <2>1, Doubles, DoubledGrows
    <2>3. doubled(k - 1) < firstDoubled(e)
      BY <1>4, <1>5, <2>2
    <2>4. doubled(k - 1) \notin ends
      BY <1>3, <1>5, <2>2, <2>3, <1>4
    <2> QED BY <2>1, <2>2, <2>4
  <1>7. k # 0 => doubled(k - 1) < e /\ doubled(k - 1) < MaxDelay
    BY <1>6 DEF ConstantsOK
  <1> QED BY <1>4, <1>5, <1>7

\* The loop ends after as many rounds as the cap at the latest.  With a longer
\* wait it does not end earlier.
LEMMA DelayType ==
  ASSUME ConstantsOK, NEW e \in Nat
  PROVE  /\ firstDoubled(e) \in Nat /\ requeueDelay(e) \in Nat
         /\ requeueDelay(e) = IF firstDoubled(e) <= MaxDelay THEN firstDoubled(e) ELSE MaxDelay
         /\ requeueDelay(e) > 0
  <1>1. PICK k \in Nat : firstDoubled(e) = doubled(k)
    BY LoopEnds
  <1>2. doubled(k) \in Nat /\ doubled(k) > 0
    BY Doubles, DoubledGrows
  <1> QED BY <1>1, <1>2, MinOfTwo DEF requeueDelay, ConstantsOK

LEMMA LongestDelayIs ==
  ASSUME ConstantsOK, NEW e \in Nat
  PROVE  /\ longestDelay(e) \in Nat
         /\ longestDelay(e) = IF MaxDelay <= Retry \/ MaxDelay <= 2 * e THEN MaxDelay
                              ELSE IF Retry >= 2 * e THEN Retry ELSE 2 * e
  <1>1. Max({Retry, 2 * e}) = IF Retry >= 2 * e THEN Retry ELSE 2 * e
    BY MaxOfTwo DEF ConstantsOK
  <1>2. Max({Retry, 2 * e}) \in Nat
    BY <1>1 DEF ConstantsOK
  <1>3. longestDelay(e) = IF MaxDelay <= Max({Retry, 2 * e}) THEN MaxDelay ELSE Max({Retry, 2 * e})
    <2>1. MaxDelay \in Int /\ Max({Retry, 2 * e}) \in Int
      BY <1>2 DEF ConstantsOK
    <2> QED BY <2>1, MinOfTwo DEF longestDelay
  <1> QED BY <1>1, <1>2, <1>3 DEF ConstantsOK

LEMMA LongestDelayGrows ==
  ASSUME ConstantsOK, NEW d \in Nat, NEW e \in Nat, d <= e
  PROVE  longestDelay(d) <= longestDelay(e)
  BY LongestDelayIs DEF ConstantsOK

\* The delay is at most twice the time that has been waited, or the first one.
LEMMA DelayIsShort ==
  ASSUME ConstantsOK, NEW e \in Nat
  PROVE  requeueDelay(e) <= longestDelay(e)
  <1>1. PICK k \in Nat : /\ firstDoubled(e) = doubled(k)
                         /\ k # 0 => doubled(k - 1) < e
    BY LoopEnds
  <1>2. doubled(k) = Retry \/ doubled(k) <= 2 * e
    <2>1. CASE k = 0
      BY <2>1, Doubles
    <2>2. CASE k # 0
      <3>1. k - 1 \in Nat /\ (k - 1) + 1 = k
        BY <2>2
      <3>2. doubled(k) = 2 * doubled(k - 1) /\ doubled(k - 1) \in Nat
        BY <3>1, Doubles
      <3> QED BY <1>1, <2>2, <3>2
    <2> QED BY <2>1, <2>2
  <1> QED BY <1>1, <1>2, DelayType, LongestDelayIs DEF ConstantsOK

-----------------------------------------------------------------------------
(* The number of polls.                                                    *)

rounds(e) == {k \in 0..Horizon : doubled(k) <= Min({e, MaxDelay})}

LEMMA Rounds ==
  ASSUME ConstantsOK, NEW e \in Nat
  PROVE  /\ rounds(e) = {k \in 0..Horizon : doubled(k) <= e /\ doubled(k) <= MaxDelay}
         /\ IsFiniteSet(rounds(e)) /\ Cardinality(rounds(e)) \in Nat
         /\ e \div MaxDelay \in Nat
         /\ roomFor(e) = Cardinality(rounds(e)) + e \div MaxDelay /\ roomFor(e) \in Nat
  <1>1. \A k \in 0..Horizon : doubled(k) \in Nat
    BY Doubles DEF ConstantsOK
  <1>2. Min({e, MaxDelay}) = IF e <= MaxDelay THEN e ELSE MaxDelay
    BY MinOfTwo DEF ConstantsOK
  <1>3. rounds(e) = {k \in 0..Horizon : doubled(k) <= e /\ doubled(k) <= MaxDelay}
    BY <1>1, <1>2 DEF rounds, ConstantsOK
  <1>4. IsFiniteSet(0..Horizon)
    BY FS_Interval DEF ConstantsOK
  <1>5. IsFiniteSet(rounds(e)) /\ Cardinality(rounds(e)) \in Nat
    <2>1. rounds(e) \in SUBSET (0..Horizon)
      BY DEF rounds
    <2> QED BY <1>4, <2>1, FS_Subset, FS_CardinalityType
  <1>6. e \div MaxDelay \in Nat
    BY DEF ConstantsOK
  <1>7. roomFor(e) = Cardinality(rounds(e)) + e \div MaxDelay
    BY DEF roomFor, rounds
  <1> QED BY <1>3, <1>5, <1>6, <1>7

\* A longer wait has room for as many delays, and for one more if it lasts as
\* long as a delay longer: that delay doubles, or is as long as the cap.
LEMMA RoomIsMonotone ==
  ASSUME ConstantsOK, NEW d \in Nat, NEW e \in Nat, d <= e
  PROVE  /\ rounds(d) \subseteq rounds(e) /\ d \div MaxDelay <= e \div MaxDelay
         /\ Cardinality(rounds(d)) <= Cardinality(rounds(e))
         /\ roomFor(d) <= roomFor(e)
  <1>1. \A k \in 0..Horizon : doubled(k) \in Nat
    BY Doubles DEF ConstantsOK
  <1>2. rounds(d) \subseteq rounds(e)
    <2>1. \A k \in 0..Horizon : doubled(k) <= d => doubled(k) <= e
      BY <1>1
    <2> QED BY <2>1, Rounds
  <1>3. Cardinality(rounds(d)) <= Cardinality(rounds(e))
    BY <1>2, Rounds, FS_Subset
  <1>4. d \div MaxDelay <= e \div MaxDelay
    BY DEF ConstantsOK
  <1>5. /\ roomFor(d) = Cardinality(rounds(d)) + d \div MaxDelay
        /\ roomFor(e) = Cardinality(rounds(e)) + e \div MaxDelay
        /\ Cardinality(rounds(d)) \in Nat /\ Cardinality(rounds(e)) \in Nat
        /\ d \div MaxDelay \in Nat /\ e \div MaxDelay \in Nat
    BY Rounds
  <1>6. roomFor(d) <= roomFor(e)
    BY <1>3, <1>4, <1>5
  <1> QED BY <1>2, <1>3, <1>4, <1>6

LEMMA RoomGrows ==
  ASSUME ConstantsOK, NEW e \in 0..Horizon
  PROVE  roomFor(e + requeueDelay(e)) >= roomFor(e) + 1
  <1> DEFINE later == e + requeueDelay(e)
  <1>0. /\ e \in Nat /\ requeueDelay(e) \in Nat /\ later \in Nat /\ later >= e
        /\ MaxDelay \in Nat /\ MaxDelay > 0 /\ Horizon \in Nat /\ e <= Horizon
    BY DelayType DEF ConstantsOK
  <1>1. PICK k \in Nat : /\ firstDoubled(e) = doubled(k)
                         /\ doubled(k) >= e \/ doubled(k) >= MaxDelay
                         /\ k # 0 => doubled(k - 1) < e
    BY <1>0, LoopEnds
  <1>2. /\ doubled(k) \in Nat /\ doubled(k) >= k + 1
        /\ doubled(k + 1) \in Nat /\ doubled(k + 1) = 2 * doubled(k)
    <2>1. k \in Nat /\ k + 1 \in Nat
      OBVIOUS
    <2> QED BY <2>1, Doubles, DoubledGrows
  <1>3. requeueDelay(e) = IF doubled(k) <= MaxDelay THEN doubled(k) ELSE MaxDelay
    BY <1>0, <1>1, DelayType
  <1> HIDE DEF later
  <1>4. ASSUME NEW n \in rounds(later), n \notin rounds(e)
        PROVE  roomFor(later) >= roomFor(e) + 1
    <2>1. rounds(e) \subseteq rounds(later) /\ e \div MaxDelay <= later \div MaxDelay
      BY <1>0, RoomIsMonotone
    <2>2. rounds(e) \cup {n} \in SUBSET rounds(later)
      BY <1>4, <2>1
    <2>3. Cardinality(rounds(e) \cup {n}) = Cardinality(rounds(e)) + 1
      BY <1>0, <1>4, Rounds, FS_AddElement
    <2>4. Cardinality(rounds(e) \cup {n}) <= Cardinality(rounds(later))
      BY <1>0, <2>2, Rounds, FS_Subset
    <2> QED BY <1>0, <2>1, <2>3, <2>4, Rounds
  <1>5. ASSUME later \div MaxDelay >= (e \div MaxDelay) + 1
        PROVE  roomFor(later) >= roomFor(e) + 1
    <2>1. Cardinality(rounds(e)) <= Cardinality(rounds(later))
      BY <1>0, RoomIsMonotone
    <2> QED BY <1>0, <1>5, <2>1, Rounds
  <1>6. ASSUME NEW n \in 0..Horizon, e < doubled(n), doubled(n) <= later, doubled(n) <= MaxDelay
        PROVE  n \in rounds(later) /\ n \notin rounds(e)
    <2>1. doubled(n) \in Nat
      BY <1>0, <1>6, Doubles
    <2>2. n \in rounds(later)
      BY <1>0, <1>6, Rounds
    <2>3. n \notin rounds(e)
      <3>1. rounds(e) = {i \in 0..Horizon : doubled(i) <= e /\ doubled(i) <= MaxDelay}
        BY <1>0, Rounds
      <3> QED BY <1>0, <1>6, <2>1, <3>1
    <2> QED BY <2>2, <2>3
  <1>7. CASE doubled(k) >= MaxDelay
    <2>1. later = e + MaxDelay
      BY <1>0, <1>2, <1>3, <1>7 DEF later
    <2>2. later \div MaxDelay = (e \div MaxDelay) + 1
      BY <1>0, <2>1
    <2> QED BY <1>0, <1>5, <2>2 DEF later
  <1>8. CASE doubled(k) < MaxDelay
    <2>1. doubled(k) >= e /\ later = e + doubled(k) /\ k <= Horizon
      <3>1. doubled(k) >= e /\ later = e + doubled(k)
        BY <1>0, <1>1, <1>2, <1>3, <1>8 DEF later
      <3>2. k # 0 => k <= Horizon
        <4>1. ASSUME k # 0 PROVE k - 1 \in Nat /\ doubled(k - 1) \in Nat /\ doubled(k - 1) >= k
          BY <4>1, Doubles, DoubledGrows
        <4> QED BY <1>0, <1>1, <4>1
      <3> QED BY <1>0, <3>1, <3>2
    <2>2. CASE doubled(k) > e
      <3>1. k \in rounds(later) /\ k \notin rounds(e)
        BY <1>0, <1>2, <1>8, <1>6, <2>1, <2>2
      <3> QED BY <1>4, <3>1 DEF later
    <2>3. CASE doubled(k) = e /\ doubled(k + 1) <= MaxDelay
      <3>1. k + 1 \in 0..Horizon
        BY <1>0, <1>2, <2>3
      <3>2. k + 1 \in rounds(later) /\ k + 1 \notin rounds(e)
        BY <1>0, <1>2, <1>8, <1>6, <2>1, <2>3, <3>1
      <3> QED BY <1>4, <3>2 DEF later
    <2>4. CASE doubled(k) = e /\ doubled(k + 1) > MaxDelay
      <3>1. e < MaxDelay /\ later >= MaxDelay
        BY <1>0, <1>2, <1>8, <2>1, <2>4
      <3>2. e \div MaxDelay = 0 /\ later \div MaxDelay >= 1
        BY <1>0, <3>1
      <3> QED BY <1>5, <3>2 DEF later
    <2> QED BY <1>0, <1>2, <2>1, <2>2, <2>3, <2>4
  <1> QED BY <1>0, <1>2, <1>7, <1>8 DEF later

-----------------------------------------------------------------------------
(* The invariant.                                                          *)

Entries == [key : Nat \ {0}, since : 0..time]

TrackerType ==
  /\ time \in 0..Horizon /\ next \in Nat \cup {Never} /\ late \in Nat /\ failedRuns \in Nat
  /\ plan \in Nat \ {0} /\ picked \in BOOLEAN /\ polls \in Nat
  /\ approvedAt \in Nat \cup {-1}
  /\ entry = NoEntry \/ entry \in Entries
  /\ waits = NoEntry \/ waits \in Entries

\* What the tracker knows is what was found, since then or a later time (after a
\* failed run or a restart); what was approved was found before.
WaitInv ==
  /\ entry # NoEntry => entry.key = waits.key /\ entry.since >= waits.since
  /\ approved => waits # NoEntry /\ waits.since <= approvedAt /\ approvedAt <= time

asked == IF approved THEN approvedAt ELSE time

\* A run is due at no later time than the delay of a plan found now, or when it
\* was approved, allows; it does not become overdue.  None is due only if the last
\* run gave up.
TimerInv ==
  ~picked => IF next = Never THEN gaveUp
             ELSE /\ time <= next
                  /\ waits # NoEntry => next <= asked + late + longestDelay(asked - waits.since)

\* While a plan is tracked a run is due, and also the time until then has room for
\* the polls so far.
PollInv ==
  entry # NoEntry => /\ next >= entry.since
                     /\ polls <= roomFor(next - entry.since)
                     /\ polls <= 1 + roomFor(time - entry.since)

TrackerInv == TrackerType /\ WaitInv /\ TimerInv /\ PollInv

LEMMA TrackerInit == ConstantsOK /\ Init => TrackerInv
  <1> SUFFICES ASSUME ConstantsOK, Init PROVE TrackerInv
    OBVIOUS
  <1>1. TrackerType
    <2>1. /\ time = 0 /\ next = 0 /\ late = 0 /\ failedRuns = 0 /\ polls = 0 /\ plan = 1
          /\ approvedAt = -1 /\ picked = FALSE /\ entry = NoEntry /\ waits = NoEntry
      BY DEF Init
    <2>2. time \in 0..Horizon
      BY <2>1 DEF ConstantsOK
    <2>3. picked \in BOOLEAN
      BY <2>1
    <2>4. /\ next \in Nat /\ late \in Nat /\ failedRuns \in Nat /\ polls \in Nat
          /\ plan \in Nat \ {0} /\ approvedAt \in Nat \cup {-1}
      BY <2>1
    <2> QED BY <2>1, <2>2, <2>3, <2>4 DEF TrackerType
  <1>2. WaitInv /\ TimerInv /\ PollInv
    BY DEF Init, WaitInv, TimerInv, PollInv, approved, Never
  <1> QED BY <1>1, <1>2 DEF TrackerInv

LEMMA EntryFacts ==
  ASSUME TrackerType, ConstantsOK
  PROVE  /\ entry # NoEntry => /\ entry.key \in Nat \ {0} /\ entry.since \in 0..time
         /\ waits # NoEntry => /\ waits.key \in Nat \ {0} /\ waits.since \in 0..time
         /\ NoEntry.key = 0 /\ NoEntry.since = 0
         /\ time \in Nat
  BY DEF TrackerType, Entries, NoEntry, ConstantsOK

\* When the next run is due once a requeue has been asked for.
LEMMA RequeueAfter ==
  ASSUME ConstantsOK, TrackerInv, ~picked, NEW delay \in Nat
  PROVE  /\ requeueAfter(delay) \in Nat /\ requeueAfter(delay) # Never
         /\ time <= requeueAfter(delay) /\ requeueAfter(delay) <= time + delay
         /\ Due \/ next = Never => requeueAfter(delay) = time + delay
         /\ ~Due /\ next # Never => /\ next > time /\ requeueAfter(delay) <= next
                                   /\ requeueAfter(delay) \in {next, time + delay}
  <1>1. /\ time \in Nat /\ next \in Nat \cup {Never} /\ Never \notin Nat
        /\ next # Never => time <= next
    BY DEF TrackerInv, TrackerType, TimerInv, ConstantsOK, Never
  <1>2. CASE Due \/ next = Never
    BY <1>1, <1>2 DEF requeueAfter
  <1>3. CASE ~Due /\ next # Never
    <2>1. next \in Nat /\ next > time
      BY <1>1, <1>3 DEF Due
    <2>2. requeueAfter(delay) = IF next <= time + delay THEN next ELSE time + delay
      BY <1>1, <1>3, <2>1, MinOfTwo DEF requeueAfter
    <2> QED BY <1>1, <1>3, <2>1, <2>2
  <1> QED BY <1>2, <1>3

\* A run that finds the plan pending.
LEMMA PendingStep ==
  ASSUME ConstantsOK, TrackerInv, NEW byTimer \in BOOLEAN, byTimer <=> Due, FindsPending(byTimer)
  PROVE  TrackerInv'
  <1> DEFINE e == waitingOn(plan)
             d == requeueDelay(time - e.since)
             at == time + d
             kept == entry # NoEntry /\ entry.key = plan
             w == IF waits.key = plan THEN waits ELSE [key |-> plan, since |-> time]
  <1>1. /\ time \in Nat /\ time <= Horizon /\ Horizon \in Nat /\ plan \in Nat \ {0}
        /\ polls \in Nat /\ late \in Nat
        /\ ~approved /\ ~picked
    BY DEF ConstantsOK, TrackerInv, TrackerType, TimerInv, FindsPending
  <1>2. /\ e \in Entries /\ e # NoEntry /\ e.key = plan /\ e.since \in 0..time
        /\ kept => e = entry
        /\ ~kept => e.since = time
    BY <1>1, EntryFacts DEF TrackerInv, TrackerType, Entries, waitingOn, NoEntry
  <1>3. /\ w \in Entries /\ w # NoEntry /\ w.key = plan /\ w.since \in 0..time
        /\ e.since >= w.since
    <2>1. w \in Entries /\ w # NoEntry /\ w.key = plan /\ w.since \in 0..time
      BY <1>1, EntryFacts DEF TrackerInv, TrackerType, Entries, NoEntry
    <2>2. CASE kept
      <3>1. waits.key = plan /\ entry.since >= waits.since
        BY <2>2 DEF TrackerInv, WaitInv
      <3> QED BY <1>2, <2>1, <2>2, <3>1
    <2>3. CASE ~kept
      BY <1>2, <2>1, <2>3, <1>1
    <2> HIDE DEF e, w
    <2> QED BY <2>1, <2>2, <2>3
  <1>4. /\ entry' = e /\ waits' = w /\ late' = 0
        /\ next' = requeueAfter(d)
        /\ polls' = (IF kept THEN polls ELSE 0) + (IF byTimer THEN 1 ELSE 0)
        /\ time' = time /\ plan' = plan /\ approvedAt' = approvedAt /\ picked' = picked
        /\ failedRuns' = failedRuns
    BY DEF FindsPending
  <1>5. time - e.since \in 0..Horizon /\ d \in Nat /\ d > 0 /\ at \in Nat /\ at > time
    <2>1. time - e.since \in Nat /\ time - e.since <= Horizon
      BY <1>1, <1>2
    <2> HIDE DEF e
    <2> QED BY <1>1, <2>1, DelayType
  <1>6. /\ byTimer => next = time
        /\ next' \in Nat /\ next' # Never /\ next' >= time /\ next' <= at
        /\ byTimer => next' = at
        /\ ~byTimer => (next' = next /\ next > time) \/ next' = at
    <2> HIDE DEF e, d
    <2>1. byTimer => next = time
      BY <1>1 DEF Due, TrackerInv, TrackerType, TimerInv
    <2> QED BY <1>1, <1>4, <1>5, <2>1, RequeueAfter
  <1> HIDE DEF e, w, d, kept
  <1>7. TrackerType'
    <2>1. polls' \in Nat
      BY <1>1, <1>4
    <2>2. Entries' = Entries
      BY <1>4 DEF Entries
    <2> QED BY <1>2, <1>3, <1>4, <1>6, <2>1, <2>2 DEF TrackerInv, TrackerType
  <1>8. WaitInv'
    BY <1>1, <1>2, <1>3, <1>4 DEF WaitInv, approved
  <1>9. TimerInv'
    <2>1. time - e.since \in Nat /\ time - w.since \in Nat /\ time - e.since <= time - w.since
      BY <1>1, <1>2, <1>3
    <2>2. d <= longestDelay(time - e.since)
      BY <2>1, DelayIsShort DEF d
    <2>3. longestDelay(time - e.since) <= longestDelay(time - w.since)
      BY <2>1, LongestDelayGrows
    <2>4. longestDelay(time - e.since) \in Nat /\ longestDelay(time - w.since) \in Nat
      BY <2>1, LongestDelayIs
    <2>5. next' <= time + longestDelay(time - w.since)
      BY <1>1, <1>5, <1>6, <2>2, <2>3, <2>4
    <2>6. asked' = time /\ late' = 0
      BY <1>1, <1>4 DEF asked, approved
    <2>7. next' <= asked' + late' + longestDelay(time - w.since)
      BY <1>1, <2>4, <2>5, <2>6
    <2>8. waits'.since = w.since /\ longestDelay(asked - waits.since)' = longestDelay(time - w.since)
      BY <1>4, <2>6 DEF longestDelay
    <2> QED BY <1>4, <1>6, <2>7, <2>8 DEF TimerInv
  <1>10. PollInv'
    <2> DEFINE n == IF kept THEN polls ELSE 0
    <2>1. n \in Nat /\ roomFor(time - e.since) \in Nat /\ roomFor(at - e.since) \in Nat
      <3>1. time - e.since \in Nat /\ at - e.since \in Nat
        BY <1>1, <1>2, <1>5
      <3> QED BY <1>1, <3>1, Rounds
    <2>2. roomFor(at - e.since) >= roomFor(time - e.since) + 1
      <3>1. at - e.since = (time - e.since) + d
        BY <1>1, <1>2, <1>5
      <3> QED BY <1>5, <3>1, RoomGrows DEF d
    <2>3. n <= 1 + roomFor(time - e.since)
      BY <1>1, <1>2, <2>1 DEF TrackerInv, PollInv, kept
    <2>4. byTimer => n <= roomFor(time - e.since)
      <3>1. CASE kept /\ byTimer
        <4>1. next = time /\ n <= roomFor(next - e.since)
          BY <1>1, <1>2, <1>6, <3>1 DEF TrackerInv, PollInv, kept
        <4> QED BY <4>1
      <3> QED BY <2>1, <3>1
    <2>5. ~byTimer /\ next' = next /\ next > time => n <= roomFor(next' - e.since)
      <3>1. CASE kept
        BY <1>2, <3>1 DEF TrackerInv, PollInv, kept
      <3>2. CASE ~kept /\ next' = next /\ next > time
        <4>1. next - e.since \in Nat
          BY <1>1, <1>2, <1>6, <3>2
        <4> QED BY <3>2, <4>1, Rounds
      <3> QED BY <3>1, <3>2
    <2>6. polls' <= roomFor(next' - e.since)
      <3>1. CASE byTimer
        BY <1>4, <1>6, <2>1, <2>2, <2>4, <3>1
      <3>2. CASE ~byTimer /\ next' = at
        BY <1>4, <1>6, <2>1, <2>2, <2>3, <3>2
      <3>3. CASE ~byTimer /\ next' = next /\ next > time
        BY <1>4, <2>1, <2>5, <3>3
      <3> QED BY <1>6, <3>1, <3>2, <3>3
    <2>7. polls' <= 1 + roomFor(time - e.since)
      BY <1>4, <2>1, <2>3, <2>4
    <2>8. /\ roomFor(next - entry.since)' = roomFor(next' - e.since)
          /\ roomFor(time - entry.since)' = roomFor(time - e.since)
          /\ next' >= e.since
      BY <1>1, <1>2, <1>4, <1>6 DEF roomFor
    <2> QED BY <1>4, <2>6, <2>7, <2>8 DEF PollInv
  <1> QED BY <1>7, <1>8, <1>9, <1>10 DEF TrackerInv

LEMMA PicksUpStep ==
  ASSUME ConstantsOK, TrackerInv, PicksUp
  PROVE  TrackerInv'
  <1>1. TrackerType'
    <2>1. Entries' = Entries
      BY DEF PicksUp, Entries
    <2> QED BY <2>1 DEF TrackerInv, TrackerType, PicksUp
  <1>2. WaitInv' /\ TimerInv' /\ PollInv'
    BY DEF TrackerInv, WaitInv, TimerInv, PollInv, PicksUp, approved
  <1> QED BY <1>1, <1>2 DEF TrackerInv

\* A run that ends early leaves what is known of the plan as it is.
LEMMA EarlyStep ==
  ASSUME ConstantsOK, TrackerInv, NEW why, EndsEarly(why), failedRuns' \in Nat,
         next' \in Nat \cup {Never}, late' \in Nat, TimerInv'
  PROVE  TrackerInv'
  <1>1. /\ entry' = NoEntry /\ polls' = 0 /\ ~picked
        /\ UNCHANGED <<time, plan, approvedAt, picked, waits>>
    BY DEF EndsEarly
  <1>2. TrackerType'
    <2>1. Entries' = Entries
      BY <1>1 DEF Entries
    <2> QED BY <1>1, <2>1 DEF TrackerInv, TrackerType
  <1>3. WaitInv' /\ PollInv'
    BY <1>1 DEF TrackerInv, WaitInv, PollInv, approved
  <1> QED BY <1>2, <1>3 DEF TrackerInv

\* A requeue after such a run adds its delay to what a plan may wait for.
LEMMA RequeuesStep ==
  ASSUME ConstantsOK, TrackerInv, NEW why, EndsEarly(why), failedRuns' \in Nat,
         NEW delay \in Nat, Requeues(delay)
  PROVE  TrackerInv'
  <1>1. ~picked /\ UNCHANGED <<time, plan, approvedAt, picked, waits>>
    BY DEF EndsEarly
  <1>2. /\ next' = requeueAfter(delay)
        /\ late' = (IF ~Due /\ next # Never THEN late
                    ELSE delay + (IF ~approved THEN 0
                                  ELSE IF next = Never THEN time - approvedAt ELSE late))
    BY DEF Requeues
  <1>3. /\ time \in Nat /\ next \in Nat \cup {Never} /\ late \in Nat
        /\ Due => next = time /\ next # Never
        /\ approved => waits # NoEntry /\ approvedAt \in Nat /\ approvedAt <= time
    BY DEF TrackerInv, TrackerType, WaitInv, TimerInv, Due, ConstantsOK, approved
  <1>4. /\ next' \in Nat /\ next' # Never /\ time <= next' /\ next' <= time + delay
        /\ ~Due /\ next # Never => next' <= next /\ next \in Nat
    BY <1>1, <1>2, <1>3, RequeueAfter
  <1>5. late' \in Nat
    BY <1>2, <1>3
  <1>6. ASSUME waits # NoEntry
        PROVE  next' <= asked + late' + longestDelay(asked - waits.since)
    <2>1. asked \in Nat /\ asked - waits.since \in Nat
      BY <1>3, <1>6, EntryFacts DEF TrackerInv, TrackerType, WaitInv, asked
    <2>2. longestDelay(asked - waits.since) \in Nat
      BY <2>1, LongestDelayIs
    <2>3. next # Never => next <= asked + late + longestDelay(asked - waits.since)
      BY <1>1, <1>6 DEF TrackerInv, TimerInv
    <2>4. CASE ~Due /\ next # Never
      BY <1>2, <1>3, <1>4, <2>1, <2>2, <2>3, <2>4
    <2>5. CASE (Due \/ next = Never) /\ ~approved
      <3>1. asked = time
        BY <2>5 DEF asked
      <3> QED BY <1>2, <1>3, <1>4, <2>2, <2>5, <3>1
    <2>6. CASE next = Never /\ approved
      <3>1. asked = approvedAt /\ late' = delay + (time - approvedAt)
        BY <1>2, <1>3, <2>6 DEF asked
      <3> QED BY <1>3, <1>4, <2>2, <2>6, <3>1
    <2>7. CASE Due /\ approved
      <3>1. late' = delay + late
        BY <1>2, <1>3, <2>7
      <3> QED BY <1>3, <1>4, <2>1, <2>2, <2>3, <2>7, <3>1
    <2> QED BY <2>4, <2>5, <2>6, <2>7
  <1>7. TimerInv'
    <2>1. asked' = asked /\ longestDelay(asked - waits.since)' = longestDelay(asked - waits.since)
      BY <1>1 DEF asked, approved, longestDelay
    <2> QED BY <1>1, <1>4, <1>6, <2>1 DEF TimerInv
  <1> QED BY <1>4, <1>5, <1>7, EarlyStep

\* Without a requeue what is in the queue stays there; if nothing is left the
\* operator gave up.
LEMMA GivesUpStep ==
  ASSUME ConstantsOK, TrackerInv, NEW why, EndsEarly(why), failedRuns' \in Nat,
         GivesUp, gaveUp'
  PROVE  TrackerInv'
  <1>1. /\ ~picked /\ late' = late /\ next' \in {next, Never}
        /\ UNCHANGED <<time, plan, approvedAt, picked, waits>>
    BY DEF EndsEarly, GivesUp
  <1>2. next' \in Nat \cup {Never} /\ late' \in Nat
    BY <1>1 DEF TrackerInv, TrackerType
  <1>3. TimerInv'
    <2>1. asked' = asked /\ longestDelay(asked - waits.since)' = longestDelay(asked - waits.since)
      BY <1>1 DEF asked, approved, longestDelay
    <2>2. next' # Never => next' = next /\ next # Never
      BY <1>1
    <2> QED BY <1>1, <2>1, <2>2 DEF TrackerInv, TimerInv
  <1> QED BY <1>2, <1>3, EarlyStep

\* The three ways in which a run does not get to see the plan.
LEMMA FailsStep ==
  ASSUME ConstantsOK, TrackerInv, FailsEarly \/ ListingFails \/ DevDBNotReady
  PROVE  TrackerInv'
  <1>1. failedRuns \in Nat /\ Retry \in Nat
    BY DEF TrackerInv, TrackerType, ConstantsOK
  <1>2. CASE FailsEarly
    <2>1. EndsEarly("ReadSchema") /\ failedRuns' \in Nat /\ reason' = "ReadSchema"
      BY <1>1, <1>2 DEF FailsEarly, EndsEarly
    <2>2. CASE IsExceedBackoffLimit(failedRuns')
      <3>1. gaveUp'
        BY <2>1, <2>2 DEF gaveUp, IsExceedBackoffLimit
      <3> QED BY <1>2, <2>1, <2>2, <3>1, GivesUpStep DEF FailsEarly
    <2>3. CASE ~ IsExceedBackoffLimit(failedRuns')
      <3>1. Requeues(Retry * failedRuns') /\ Retry * failedRuns' \in Nat
        BY <1>1, <1>2, <2>1, <2>3 DEF FailsEarly
      <3> QED BY <2>1, <3>1, RequeuesStep
    <2> QED BY <2>2, <2>3
  <1>3. CASE ListingFails
    <2>1. /\ EndsEarly("ListingPlans") /\ failedRuns' \in Nat /\ GivesUp
          /\ gaveUp'
      BY <1>1, <1>3 DEF ListingFails, EndsEarly, gaveUp
    <2> QED BY <2>1, GivesUpStep
  <1>4. CASE DevDBNotReady
    <2>1. EndsEarly("GettingDevDB") /\ failedRuns' \in Nat /\ Requeues(Retry)
      BY <1>1, <1>4 DEF DevDBNotReady
    <2> QED BY <1>1, <2>1, RequeuesStep
  <1> QED BY <1>2, <1>3, <1>4

LEMMA RestartStep ==
  ASSUME ConstantsOK, TrackerInv, OperatorRestarts
  PROVE  TrackerInv'
  <1>1. /\ entry' = NoEntry /\ polls' = 0 /\ next' = time /\ ~picked
        /\ late' = (IF next = Never /\ approved THEN time - approvedAt ELSE late)
        /\ UNCHANGED <<time, plan, approvedAt, picked, failedRuns, waits>>
    BY DEF OperatorRestarts
  <1>2. /\ time \in Nat /\ late \in Nat /\ Never \notin Nat
        /\ next # Never => next \in Nat /\ time <= next
        /\ approved => approvedAt \in Nat /\ approvedAt <= time
    BY <1>1 DEF TrackerInv, TrackerType, TimerInv, WaitInv, ConstantsOK, approved, Never
  <1>3. TrackerType'
    <2>1. Entries' = Entries
      BY <1>1 DEF Entries
    <2>2. late' \in Nat /\ next' \in Nat
      BY <1>1, <1>2
    <2> QED BY <1>1, <2>1, <2>2 DEF TrackerInv, TrackerType
  <1>4. WaitInv' /\ PollInv'
    BY <1>1 DEF TrackerInv, WaitInv, PollInv, approved
  <1>5. ASSUME waits # NoEntry
        PROVE  next' <= asked + late' + longestDelay(asked - waits.since)
    <2>1. asked \in Nat /\ asked - waits.since \in Nat
      BY <1>2, <1>5, EntryFacts DEF TrackerInv, TrackerType, WaitInv, asked
    <2>2. longestDelay(asked - waits.since) \in Nat
      BY <2>1, LongestDelayIs
    <2>3. next # Never => next <= asked + late + longestDelay(asked - waits.since)
      BY <1>1, <1>5 DEF TrackerInv, TimerInv
    <2>4. CASE next # Never
      BY <1>1, <1>2, <2>1, <2>2, <2>3, <2>4
    <2>5. CASE next = Never
      <3>1. \A l \in Nat : next' <= asked + late' + l
        BY <1>1, <1>2, <2>1, <2>5 DEF asked
      <3> QED BY <2>2, <3>1
    <2> QED BY <2>4, <2>5
  <1>6. TimerInv'
    <2>1. asked' = asked /\ longestDelay(asked - waits.since)' = longestDelay(asked - waits.since)
      BY <1>1 DEF asked, approved, longestDelay
    <2> QED BY <1>1, <1>2, <1>5, <2>1 DEF TimerInv
  <1> QED BY <1>3, <1>4, <1>6 DEF TrackerInv

\* While time passes the plan has been pending for longer, and so is the delay
\* that it may have.
LEMMA PassesStep ==
  ASSUME ConstantsOK, TrackerInv, Passes
  PROVE  TrackerInv'
  <1>1. /\ time' = time + 1 /\ (next = Never \/ next > time) /\ time < Horizon
        /\ UNCHANGED <<entry, plan, approvedAt, picked, next, reason, failedRuns, polls, waits, late>>
    BY DEF Passes
  <1>2. /\ time \in Nat /\ next \in Nat \cup {Never} /\ late \in Nat /\ Horizon \in Nat
        /\ polls \in Nat
    BY DEF TrackerInv, TrackerType, ConstantsOK
  <1>3. TrackerType'
    <2>1. Entries \subseteq Entries'
      <3>1. 0..time \subseteq 0..(time + 1)
        BY <1>2
      <3> QED BY <1>1, <3>1 DEF Entries
    <2>2. time' \in 0..Horizon
      BY <1>1, <1>2
    <2> QED BY <1>1, <2>1, <2>2 DEF TrackerInv, TrackerType
  <1>4. WaitInv'
    <2>1. approved => approvedAt \in Nat /\ approvedAt <= time
      BY DEF TrackerInv, TrackerType, WaitInv, approved
    <2> QED BY <1>1, <1>2, <2>1 DEF TrackerInv, WaitInv, approved
  <1>5. ASSUME waits # NoEntry, ~picked, next # Never
        PROVE  next <= asked' + late + longestDelay(asked' - waits.since)
    <2>1. /\ asked \in Nat /\ asked - waits.since \in Nat
          /\ asked' \in Nat /\ asked' - waits.since \in Nat /\ asked <= asked'
      BY <1>1, <1>2, <1>5, EntryFacts DEF TrackerInv, TrackerType, WaitInv, asked, approved
    <2>2. /\ longestDelay(asked - waits.since) \in Nat /\ longestDelay(asked' - waits.since) \in Nat
          /\ asked - waits.since <= asked' - waits.since
      BY <2>1, LongestDelayIs, EntryFacts, <1>5 DEF TrackerInv
    <2>3. longestDelay(asked - waits.since) <= longestDelay(asked' - waits.since)
      BY <2>1, <2>2, LongestDelayGrows
    <2>4. next <= asked + late + longestDelay(asked - waits.since)
      BY <1>5 DEF TrackerInv, TimerInv
    <2> QED BY <1>2, <2>1, <2>2, <2>3, <2>4
  <1>6. TimerInv'
    <2>1. longestDelay(asked - waits.since)' = longestDelay(asked' - waits.since)
      BY <1>1 DEF longestDelay
    <2>2. gaveUp' = gaveUp
      BY <1>1 DEF gaveUp
    <2> QED BY <1>1, <1>2, <1>5, <2>1, <2>2 DEF TimerInv, TrackerInv
  <1>7. PollInv'
    <2> SUFFICES ASSUME entry # NoEntry
                 PROVE  /\ next >= entry.since
                        /\ polls <= roomFor(next - entry.since)
                        /\ polls <= 1 + roomFor(time' - entry.since)
      BY <1>1 DEF PollInv, roomFor
    <2>1. entry.since \in 0..time /\ time - entry.since \in Nat /\ time' - entry.since \in Nat
      BY <1>1, <1>2, EntryFacts DEF TrackerInv
    <2>2. roomFor(time - entry.since) <= roomFor(time' - entry.since)
      <3>1. time - entry.since <= time' - entry.since
        BY <1>1, <1>2, <2>1
      <3> QED BY <2>1, <3>1, RoomIsMonotone
    <2>3. roomFor(time - entry.since) \in Nat /\ roomFor(time' - entry.since) \in Nat
      BY <2>1, Rounds
    <2>4. /\ next >= entry.since
          /\ polls <= roomFor(next - entry.since)
          /\ polls <= 1 + roomFor(time - entry.since)
      BY DEF TrackerInv, PollInv
    <2> QED BY <1>2, <2>2, <2>3, <2>4
  <1> QED BY <1>3, <1>4, <1>6, <1>7 DEF TrackerInv

\* At its approval a plan has been pending since it was found, and the next run
\* is due within the delay that has been asked for.
LEMMA ApprovedStep ==
  ASSUME ConstantsOK, TrackerInv, Approved
  PROVE  TrackerInv'
  <1>1. /\ ~approved /\ waits # NoEntry /\ approvedAt' = time
        /\ UNCHANGED <<time, entry, plan, picked, next, reason, failedRuns, polls, waits, late>>
    BY DEF Approved
  <1>2. time \in Nat
    BY DEF TrackerInv, TrackerType, ConstantsOK
  <1>3. TrackerType'
    <2>1. Entries' = Entries
      BY <1>1 DEF Entries
    <2> QED BY <1>1, <1>2, <2>1 DEF TrackerInv, TrackerType
  <1>4. WaitInv'
    <2>1. waits.since \in 0..time
      BY <1>1, EntryFacts DEF TrackerInv
    <2> QED BY <1>1, <1>2, <2>1 DEF TrackerInv, WaitInv, approved
  <1>5. TimerInv' /\ PollInv'
    <2>1. asked = time /\ asked' = time
      BY <1>1, <1>2 DEF asked, approved
    <2>2. longestDelay(asked - waits.since)' = longestDelay(asked - waits.since)
      BY <1>1, <2>1 DEF longestDelay
    <2>3. TimerInv'
      BY <1>1, <2>1, <2>2 DEF TrackerInv, TimerInv, gaveUp
    <2>4. PollInv'
      BY <1>1 DEF TrackerInv, PollInv, roomFor
    <2> QED BY <2>3, <2>4
  <1> QED BY <1>3, <1>4, <1>5 DEF TrackerInv

\* What concerns only the plan in Atlas Cloud, or nothing.
LEMMA ElsewhereStep ==
  ASSUME ConstantsOK, TrackerInv, plan' \in {plan, plan + 1},
         UNCHANGED <<time, entry, approvedAt, picked, next, reason, failedRuns, polls, waits, late>>
  PROVE  TrackerInv'
  <1>1. TrackerType'
    <2>1. Entries' = Entries
      BY DEF Entries
    <2>2. plan' \in Nat \ {0}
      BY DEF TrackerInv, TrackerType
    <2> QED BY <2>1, <2>2 DEF TrackerInv, TrackerType
  <1>2. WaitInv' /\ TimerInv' /\ PollInv'
    BY DEF TrackerInv, WaitInv, TimerInv, PollInv, gaveUp, approved, asked, longestDelay, roomFor
  <1> QED BY <1>1, <1>2 DEF TrackerInv

LEMMA TrackerStep == ConstantsOK /\ TrackerInv /\ [Next]_vars => TrackerInv'
  <1> SUFFICES ASSUME ConstantsOK, TrackerInv, [Next]_vars PROVE TrackerInv'
    OBVIOUS
  <1>1. CASE TimerRun
    <2>1. CASE Due /\ FindsPending(TRUE)
      BY <2>1, PendingStep
    <2>2. CASE PicksUp
      BY <2>2, PicksUpStep
    <2> QED BY <1>1, <2>1, <2>2 DEF TimerRun
  <1>2. CASE EventRun
    <2>1. CASE ~Due /\ FindsPending(FALSE)
      BY <2>1, PendingStep
    <2>2. CASE PicksUp
      BY <2>2, PicksUpStep
    <2> QED BY <1>2, <2>1, <2>2 DEF EventRun
  <1>3. CASE FailsEarly \/ ListingFails \/ DevDBNotReady
    BY <1>3, FailsStep
  <1>4. CASE OperatorRestarts
    BY <1>4, RestartStep
  <1>5. CASE Passes
    BY <1>5, PassesStep
  <1>6. CASE Approved
    BY <1>6, ApprovedStep
  <1>7. CASE Replanned \/ UNCHANGED vars
    BY <1>7, ElsewhereStep DEF Replanned, vars
  <1> QED BY <1>1, <1>2, <1>3, <1>4, <1>5, <1>6, <1>7 DEF Next

-----------------------------------------------------------------------------
(* The theorems.                                                           *)

LEMMA Tracked == ConstantsOK => (Spec => []TrackerInv)
  <1> SUFFICES ASSUME ConstantsOK PROVE Spec => []TrackerInv
    OBVIOUS
  <1>1. Init => TrackerInv
    BY TrackerInit
  <1>2. TrackerInv /\ [Next]_vars => TrackerInv'
    BY TrackerStep
  <1> QED BY <1>1, <1>2, PTL DEF Spec

\* maxPendingDuration is "the longest a user waits between approving a plan and
\* the operator picking it up": the bound on that wait, with what runs that did not
\* see the plan add to it, and when there is none because the operator gave up; for
\* all durations and limits, and however many plans, such runs and restarts there
\* are.
THEOREM PickedUp == ConstantsOK => (Spec => []PickedUpInTime)
  <1> SUFFICES ASSUME ConstantsOK PROVE Spec => []PickedUpInTime
    OBVIOUS
  <1>1. ASSUME TrackerInv PROVE PickedUpInTime
    <2>1. CASE next = Never
      BY <1>1, <2>1 DEF PickedUpInTime, TrackerInv, TimerInv
    <2>2. ASSUME next # Never, approved, ~picked
          PROVE  time - approvedAt <= late + longestDelay(approvedAt - waits.since)
      <3>1. /\ time <= next /\ asked = approvedAt /\ waits # NoEntry
            /\ next <= asked + late + longestDelay(asked - waits.since)
        BY <1>1, <2>2 DEF TrackerInv, TimerInv, WaitInv, asked
      <3>2. /\ time \in Nat /\ next \in Nat /\ late \in Nat /\ approvedAt \in Nat
            /\ approvedAt - waits.since \in Nat
        BY <1>1, <2>2, <3>1, EntryFacts DEF TrackerInv, TrackerType, WaitInv, approved
      <3>3. longestDelay(approvedAt - waits.since) \in Nat
        BY <3>2, LongestDelayIs
      <3> QED BY <3>1, <3>2, <3>3
    <2> QED BY <2>1, <2>2 DEF PickedUpInTime
  <1>2. Spec => []TrackerInv
    BY Tracked
  <1> QED BY <1>1, <1>2, PTL

\* The backoff of pendingTracker keeps the number of polls of a pending plan
\* small, for all durations, and however the runs that events start fall between
\* those of the timer.
THEOREM FewPolls == ConstantsOK => (Spec => []PollsAreFew)
  <1> SUFFICES ASSUME ConstantsOK PROVE Spec => []PollsAreFew
    OBVIOUS
  <1>1. TrackerInv => PollsAreFew
    BY DEF TrackerInv, PollInv, PollsAreFew
  <1>2. Spec => []TrackerInv
    BY Tracked
  <1> QED BY <1>1, <1>2, PTL
=============================================================================
