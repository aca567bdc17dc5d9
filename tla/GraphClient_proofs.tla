-------------------------- MODULE GraphClient_proofs --------------------------
(* Theorems about GraphClient, for any number of worker threads, any bucket, *)
(* any retry budget and any answers of the server.                           *)
EXTENDS GraphClient, FiniteSetTheorems, TLAPS

\* The steps in which an attempt of the call goes out.
AttemptStep == Succeeds \/ Refused \/ Throttled \/ Fails \/ MeetsDeadPool

\* What an attempt does, whatever becomes of it.
LEMMA AttemptEnds ==
  ASSUME AttemptStep
  PROVE  /\ pc = "send" /\ pc' \in {"idle", "sleep"}
         /\ attempt' = attempt + 1 /\ sent' = sent + 1
         /\ pc' = "sleep" => attempt + 1 # MaxRetries
         /\ UNCHANGED <<closed, bucket, age>>
  BY DEF AttemptStep, Succeeds, Refused, Throttled, Fails, MeetsDeadPool, Answered,
         Attempt, Return, SleepFor

-----------------------------------------------------------------------------
(* Types *)

\* No more attempts than the call may make, no more executions or dead pools
\* than attempts.
Counted ==
  /\ pc # "idle" => attempt < MaxRetries
  /\ executed <= attempt /\ lost <= attempt /\ deadHits <= attempt

\* The state of the client, of the limiter and of their observers is well typed
\* in every reachable state, and no call makes more attempts than it may.
THEOREM TypeCorrect == Spec => [](TypeOK /\ Counted)
<1> USE ClientAssumption
<1>1. Init => TypeOK /\ Counted
  BY DEF Init, TypeOK, Counted, Bucket!Init, Bucket!TypeOK
<1>2. TypeOK /\ Counted /\ [Next]_vars => (TypeOK /\ Counted)'
  <2> SUFFICES ASSUME TypeOK, Counted, [Next]_vars PROVE TypeOK' /\ Counted'
    OBVIOUS
  <2> USE DEF TypeOK, Counted, Bucket!TypeOK, call, effects, bucket, window
  <2>1. CASE Call
    BY <2>1 DEF Call
  <2>2. CASE Acquire
    BY <2>2 DEF Acquire, Bucket!Acquire, Bucket!AcquireSleeps, Bucket!Refilled, Bucket!Least
  <2>3. CASE Wake
    BY <2>3 DEF Wake, Bucket!Wake
  <2>4. CASE AttemptStep
    <3>1. /\ executed' \in {executed, executed + 1} /\ lost' \in {lost, lost + 1}
          /\ deadHits' \in {deadHits, deadHits + 1}
          /\ pool' \in {"live", "dead"} /\ result' \in {"none", "ok", "error"}
      BY <2>4 DEF AttemptStep, Succeeds, Refused, Throttled, Fails, MeetsDeadPool, Answered,
              Attempt, Return, SleepFor, Redial
    <3>2. timer' \in Nat
      BY <2>4 DEF AttemptStep, Succeeds, Refused, Throttled, Fails, MeetsDeadPool, Return,
              SleepFor, PauseFor
    <3> QED
      BY <2>4, <3>1, <3>2, AttemptEnds
  <2>5. CASE Retry
    BY <2>5 DEF Retry
  <2>6. CASE Close
    BY <2>6 DEF Close
  <2>7. ASSUME NEW t \in Threads \ {Self}, Other(t) PROVE TypeOK' /\ Counted'
    BY <2>7 DEF Other, Bucket!Acquire, Bucket!AcquireSleeps, Bucket!Wake, Bucket!Refilled,
            Bucket!Least
  <2>8. CASE Tick
    BY <2>8 DEF Tick, Bucket!Tick, Bucket!Least
  <2>9. CASE Observe
    BY <2>9 DEF Observe
  <2>10. CASE UNCHANGED vars
    BY <2>10 DEF vars
  <2> QED
    BY <2>1, <2>2, <2>3, <2>4, <2>5, <2>6, <2>7, <2>8, <2>9, <2>10
       DEF Next, Step, AttemptStep
<1> QED
  BY <1>1, <1>2, PTL DEF Spec

-----------------------------------------------------------------------------
(* One call *)

\* Nothing is known to have been done while a call is under way, and what was
\* done without that knowledge is an answer lost.
Effects ==
  /\ pc # "idle" => result = "none"
  /\ executed = lost + (IF result = "ok" THEN 1 ELSE 0)

\* A pool that was dead when the call began costs an attempt, and so does every
\* close since; the one a call under way would meet next has not cost it yet.
DeadPools ==
  deadHits + (IF pc # "idle" /\ pool = "dead" THEN 1 ELSE 0) <= closed + 1

\* Both survive every step.
LEMMA CallInvariant == Spec => [](Effects /\ DeadPools)
<1> USE ClientAssumption
<1>1. Init => Effects /\ DeadPools
  BY DEF Init, Effects, DeadPools
<1>2. TypeOK /\ Effects /\ DeadPools /\ [Next]_vars => Effects' /\ DeadPools'
  <2> SUFFICES ASSUME TypeOK, Effects, DeadPools, [Next]_vars
               PROVE  Effects' /\ DeadPools'
    OBVIOUS
  <2> USE DEF TypeOK, Effects, DeadPools, call, effects, bucket, window
  <2>1. CASE Call
    BY <2>1 DEF Call
  <2>2. CASE Acquire \/ Wake \/ Retry
    BY <2>2 DEF Acquire, Wake, Retry
  <2>3. CASE Succeeds \/ Refused
    BY <2>3 DEF Succeeds, Refused, Answered, Attempt, Return
  <2>4. CASE Throttled
    BY <2>4 DEF Throttled, Answered, Attempt, SleepFor, Return
  <2>5. CASE Fails
    BY <2>5 DEF Fails, Attempt, SleepFor, Return, Redial
  <2>6. CASE MeetsDeadPool
    BY <2>6 DEF MeetsDeadPool, Attempt, SleepFor, Return, Redial
  <2>7. CASE Close
    BY <2>7 DEF Close
  <2>8. ASSUME NEW t \in Threads \ {Self}, Other(t) PROVE Effects' /\ DeadPools'
    BY <2>8 DEF Other
  <2>9. CASE Tick \/ Observe \/ UNCHANGED vars
    BY <2>9 DEF Tick, Observe, vars
  <2> QED
    BY <2>1, <2>2, <2>3, <2>4, <2>5, <2>6, <2>7, <2>8, <2>9 DEF Next, Step
<1> QED
  BY <1>1, <1>2, TypeCorrect, PTL DEF Spec

\* A call that returns had its effect once, a call that raises not at all, but
\* for the executions whose answers were lost.
THEOREM OneEffectHolds == Spec => []OneEffect
BY CallInvariant, TypeCorrect, PTL DEF OneEffect, Effects

\* Every dead pool costs a call one attempt at most.
THEOREM DeadPoolMetOnceHolds == Spec => []DeadPoolMetOnce
<1>1. TypeOK /\ DeadPools => DeadPoolMetOnce
  BY ClientAssumption DEF TypeOK, DeadPools, DeadPoolMetOnce
<1> QED
  BY <1>1, CallInvariant, TypeCorrect, PTL

-----------------------------------------------------------------------------
(* The rate *)

Workers == Cardinality(Threads)

\* What the threads have paid for requests that did not leave yet, unit by unit:
\* a thread that sleeps has paid what the bucket held when it came, and the time
\* it slept; the client has paid for the attempt it is about to send.
Paid ==
  {p \in Threads \X (1..Cost) :
     \/ p[1] \in asleep /\ p[2] > wait[p[1]]
     \/ p[1] = Self /\ pc = "send"}

\* The last k units of a thread's payment.
Units(t, k) == {t} \X ((Cost - k + 1)..Cost)

\* Whatever was sent in the window or is paid for, and what the bucket holds,
\* comes out of a full bucket, its refill, and what every thread had paid when
\* the window was opened or has slept since.
Earned ==
  Cost * sent + Cardinality(Paid) + Bucket!Refilled
    <= Capacity + age + Workers * (age + Cost)

\* Units are counted by their number.
LEMMA UnitsCount ==
  ASSUME NEW t \in Threads, NEW k \in 0..Cost
  PROVE  IsFiniteSet(Units(t, k)) /\ Cardinality(Units(t, k)) = k
<1> USE ClientAssumption
<1>1. IsFiniteSet({t}) /\ Cardinality({t}) = 1
  BY FS_Singleton
<1>2. IsFiniteSet((Cost - k + 1)..Cost) /\ Cardinality((Cost - k + 1)..Cost) = k
  <2>1. Cost - k + 1 \in Int /\ Cost \in Int
    OBVIOUS
  <2> QED
    BY <2>1, FS_Interval
<1> QED
  BY <1>1, <1>2, FS_Product DEF Units

\* No thread pays for more than one request at a time, before a step or after.
LEMMA PaidBounded ==
  /\ IsFiniteSet(Paid) /\ Cardinality(Paid) \in Nat
  /\ IsFiniteSet(Paid') /\ Cardinality(Paid') \in Nat
  /\ Workers \in Nat
  /\ Cardinality(Paid) <= Workers * Cost /\ Cardinality(Paid') <= Workers * Cost
<1> USE ClientAssumption
<1>1. IsFiniteSet(1..Cost) /\ Cardinality(1..Cost) = Cost
  BY FS_Interval
<1>2. IsFiniteSet(Threads \X (1..Cost)) /\ Cardinality(Threads \X (1..Cost)) = Workers * Cost
  BY <1>1, FS_Product DEF Workers
<1>3. /\ Paid \in SUBSET (Threads \X (1..Cost))
      /\ Paid' \in SUBSET (Threads \X (1..Cost))
  BY DEF Paid
<1> QED
  BY <1>2, <1>3, FS_Subset, FS_CardinalityType DEF Workers

\* Units that were not paid before add to what is paid.
LEMMA PaidMore ==
  ASSUME NEW t \in Threads, NEW k \in 0..Cost,
         Paid' = Paid \cup Units(t, k), Paid \cap Units(t, k) = {}
  PROVE  Cardinality(Paid') = Cardinality(Paid) + k
<1> DEFINE P == Paid U == Units(t, k)
<1>1. IsFiniteSet(P) /\ Cardinality(P) \in Nat
  BY PaidBounded
<1>2. IsFiniteSet(U) /\ Cardinality(U) = k
  BY UnitsCount
<1>3. Cardinality(P \cap U) = 0
  BY FS_EmptySet
<1> HIDE DEF P, U
<1>4. Cardinality(P \cup U) = Cardinality(P) + Cardinality(U) - Cardinality(P \cap U)
  BY <1>1, <1>2, FS_Union
<1>5. Cardinality(P \cup U) = Cardinality(P) + k
  BY <1>1, <1>2, <1>3, <1>4
<1> QED
  BY <1>5 DEF P, U

\* A request that is sent takes its thread's units off what is paid.
LEMMA PaidLess ==
  ASSUME NEW t \in Threads,
         Paid' = Paid \ Units(t, Cost), Units(t, Cost) \subseteq Paid
  PROVE  Cardinality(Paid') = Cardinality(Paid) - Cost
<1> DEFINE P == Paid U == Units(t, Cost)
<1>1. IsFiniteSet(P) /\ Cardinality(P) \in Nat
  BY PaidBounded
<1>2. Cardinality(U) = Cost
  BY UnitsCount, ClientAssumption
<1>3. P \cap U = U
  OBVIOUS
<1> HIDE DEF P, U
<1>4. Cardinality(P \ U) = Cardinality(P) - Cardinality(P \cap U)
  BY <1>1, FS_Difference
<1>5. Cardinality(P \ U) = Cardinality(P) - Cost
  BY <1>2, <1>3, <1>4
<1> QED
  BY <1>5 DEF P, U

\* One tick pays at most one unit for every thread.
LEMMA PaidByTick ==
  ASSUME TypeOK, TypeOK', Bucket!Tick, UNCHANGED pc
  PROVE  Cardinality(Paid') <= Cardinality(Paid) + Workers
<1> USE ClientAssumption
<1> DEFINE P == Paid
           Unit == [t \in Threads |-> <<t, wait[t]>>]
           U == {Unit[t] : t \in Threads}
<1>1. IsFiniteSet(P) /\ Cardinality(P) \in Nat /\ Workers \in Nat
  BY PaidBounded
<1>2. IsFiniteSet(U) /\ Cardinality(U) <= Workers
  <2>1. Unit \in Surjection(Threads, U)
    BY DEF Surjection
  <2> HIDE DEF Unit, U
  <2> QED
    BY <2>1, FS_Surjection DEF Workers
<1>3. Paid' \subseteq P \cup U
  <2> SUFFICES ASSUME NEW p \in Paid', p \notin Paid PROVE p \in U
    OBVIOUS
  <2>1. p[1] \in Threads /\ p[2] \in 1..Cost /\ p = <<p[1], p[2]>>
    BY DEF Paid
  <2>2. p[1] \in asleep /\ p[2] > wait'[p[1]] /\ ~(p[2] > wait[p[1]])
    BY <2>1 DEF Paid, Bucket!Tick
  <2>3. p[2] = wait[p[1]]
    BY <2>1, <2>2 DEF Bucket!Tick, TypeOK, Bucket!TypeOK
  <2> QED
    BY <2>1, <2>3
<1> HIDE DEF P, U
<1>4. /\ IsFiniteSet(P \cup U)
      /\ Cardinality(P \cup U) = Cardinality(P) + Cardinality(U) - Cardinality(P \cap U)
  BY <1>1, <1>2, FS_Union
<1>5. Cardinality(U) \in Nat /\ Cardinality(P \cap U) \in Nat
  BY <1>1, <1>2, FS_CardinalityType, FS_Intersection
<1>6. Cardinality(Paid') <= Cardinality(P \cup U) /\ Cardinality(Paid') \in Nat
  BY <1>3, <1>4, FS_Subset, FS_CardinalityType
<1>7. Cardinality(Paid') <= Cardinality(P) + Workers
  BY <1>1, <1>2, <1>4, <1>5, <1>6
<1> QED
  BY <1>7 DEF P

\* The budget of a window is kept: a request leaves for what was paid, the bucket
\* is charged for what it hands out, and a tick earns it one unit and every
\* sleeper one.
LEMMA EarnedHolds == Spec => []Earned
<1> USE ClientAssumption
<1>1. TypeOK => Bucket!Refilled \in 0..Capacity
  BY DEF TypeOK, Bucket!TypeOK, Bucket!Refilled, Bucket!Least
<1>2. Init => Earned
  <2> SUFFICES ASSUME Init PROVE Earned
    OBVIOUS
  <2>1. TypeOK
    BY DEF Init, TypeOK, Bucket!Init, Bucket!TypeOK
  <2>2. age = 0 /\ sent = 0
    BY DEF Init
  <2> QED
    BY <1>1, <2>1, <2>2, PaidBounded DEF Earned
<1>3. TypeOK /\ TypeOK' /\ Earned /\ [Next]_vars => Earned'
  <2> SUFFICES ASSUME TypeOK, TypeOK', Earned, [Next]_vars PROVE Earned'
    OBVIOUS
  <2> DEFINE R == Bucket!Refilled
  <2>a. /\ Cardinality(Paid) \in Nat /\ Cardinality(Paid') \in Nat /\ Workers \in Nat
        /\ Cardinality(Paid') <= Workers * Cost
    BY PaidBounded
  <2>b. R \in 0..Capacity /\ R' \in 0..Capacity
    <3>1. tokens' \in 0..Capacity /\ elapsed' \in 0..Capacity
      BY DEF TypeOK, Bucket!TypeOK
    <3>2. \A x, y \in 0..Capacity : Bucket!Least(Capacity, x + y) \in 0..Capacity
      BY DEF Bucket!Least
    <3>3. R' \in 0..Capacity
      BY <3>1, <3>2 DEF Bucket!Refilled
    <3> QED
      BY <1>1, <3>3
  <2>c. /\ age \in Nat /\ sent \in Nat /\ Cost \in Nat /\ Capacity \in Nat
        /\ Cost * sent \in Nat /\ Workers * (age + Cost) \in Nat
        /\ Cost * (sent + 1) = Cost * sent + Cost
        /\ Workers * ((age + 1) + Cost) = Workers * (age + Cost) + Workers
    BY <2>a DEF TypeOK
  <2>1. ASSUME UNCHANGED <<age, sent>>, Cardinality(Paid') + R' <= Cardinality(Paid) + R
        PROVE  Earned'
    BY <2>1, <2>a, <2>b, <2>c DEF Earned
  <2>2. ASSUME UNCHANGED age, sent' = sent + 1,
               Cardinality(Paid') + R' + Cost <= Cardinality(Paid) + R
        PROVE  Earned'
    BY <2>2, <2>a, <2>b, <2>c DEF Earned
  <2>3. ASSUME age' = 0, sent' = 0
        PROVE  Earned'
    BY <2>3, <2>a, <2>b DEF Earned
  <2>4. CASE Call \/ Retry \/ Close \/ UNCHANGED vars
    <3>1. UNCHANGED <<age, sent, Paid, R>>
      BY <2>4 DEF Call, Retry, Close, vars, call, bucket, window, Paid, Bucket!Refilled,
              Bucket!Least
    <3> QED
      BY <3>1, <2>1, <2>a, <2>b
  <2>5. ASSUME NEW t \in Threads, Bucket!AcquireSleeps(t), UNCHANGED <<age, sent>>,
               t = Self => pc # "send",
               UNCHANGED pc \/ (t = Self /\ pc' # "send")
        PROVE  Earned'
    \* What the thread finds in the bucket is what it pays at once.
    <3>1. R \in 0..Cost /\ R' = 0
      BY <2>5, <2>b DEF Bucket!AcquireSleeps, Bucket!Refilled, Bucket!Least
    <3>2. t \notin asleep /\ asleep' = asleep \cup {t} /\ wait' = [wait EXCEPT ![t] = Cost - R]
      BY <2>5 DEF Bucket!AcquireSleeps
    <3>3. Paid' = Paid \cup Units(t, R) /\ Paid \cap Units(t, R) = {}
      BY <2>5, <3>1, <3>2 DEF Paid, Units, TypeOK, Bucket!TypeOK
    <3>4. Cardinality(Paid') = Cardinality(Paid) + R
      BY <3>1, <3>3, PaidMore
    <3> QED
      BY <2>1, <2>5, <2>a, <3>1, <3>4
  <2>6. ASSUME NEW t \in Threads, Bucket!Acquire(t), UNCHANGED age
        PROVE  R' = R - Cost /\ UNCHANGED <<asleep, wait>>
    BY <2>6, <2>b DEF Bucket!Acquire, Bucket!Refilled, Bucket!Least
  <2>7. ASSUME NEW t \in Threads, Bucket!Wake(t)
        PROVE  /\ R' = R /\ asleep' = asleep \ {t} /\ UNCHANGED wait
               /\ t \in asleep /\ wait[t] = 0
    BY <2>7 DEF Bucket!Wake, Bucket!Refilled, Bucket!Least
  <2>8. CASE Acquire
    <3>1. CASE Bucket!Acquire(Self) /\ pc' = "send"
      <4>1. pc = "acquire" /\ Self \notin asleep /\ UNCHANGED <<age, sent>>
        BY <2>8 DEF Acquire, TypeOK, window
      <4>2. R' = R - Cost /\ UNCHANGED <<asleep, wait>>
        BY <2>6, <3>1, <4>1
      <4>3. Paid' = Paid \cup Units(Self, Cost) /\ Paid \cap Units(Self, Cost) = {}
        BY <3>1, <4>1, <4>2 DEF Paid, Units
      <4>4. Cardinality(Paid') = Cardinality(Paid) + Cost
        BY <4>3, PaidMore, Cost \in 0..Cost
      <4> QED
        BY <2>1, <2>a, <2>b, <4>1, <4>2, <4>4
    <3>2. CASE Bucket!AcquireSleeps(Self) /\ pc' = "queue"
      BY <2>5, <2>8, <3>2 DEF Acquire, window
    <3> QED
      BY <2>8, <3>1, <3>2 DEF Acquire
  <2>9. CASE Wake
    <3>1. /\ pc' = "send" /\ UNCHANGED <<age, sent>>
          /\ R' = R /\ asleep' = asleep \ {Self} /\ UNCHANGED wait
          /\ Self \in asleep /\ wait[Self] = 0
      BY <2>7, <2>9 DEF Wake, window
    <3>2. Paid' = Paid
      BY <2>9, <3>1 DEF Wake, Paid
    <3> QED
      BY <2>1, <2>a, <2>b, <3>1, <3>2
  <2>10. CASE AttemptStep
    <3>1. /\ pc = "send" /\ pc' # "send" /\ Self \notin asleep
          /\ UNCHANGED <<age, asleep, wait, tokens, elapsed>> /\ sent' = sent + 1
      BY <2>10, AttemptEnds DEF bucket, TypeOK
    <3>2. R' = R
      BY <3>1 DEF Bucket!Refilled, Bucket!Least
    <3>3. Paid' = Paid \ Units(Self, Cost) /\ Units(Self, Cost) \subseteq Paid
      BY <3>1 DEF Paid, Units
    <3>4. Cardinality(Paid') = Cardinality(Paid) - Cost
      BY <3>3, PaidLess
    <3> QED
      BY <2>2, <2>a, <2>b, <3>1, <3>2, <3>4
  <2>11. ASSUME NEW t \in Threads \ {Self}, Other(t) PROVE Earned'
    <3>1. UNCHANGED <<pc, age>>
      BY <2>11 DEF Other, call
    <3>2. CASE Bucket!AcquireSleeps(t) /\ UNCHANGED sent
      BY <2>5, <3>1, <3>2
    <3>3. CASE Bucket!Acquire(t) /\ sent' = sent + 1
      <4>1. R' = R - Cost /\ UNCHANGED <<asleep, wait>>
        BY <2>6, <3>1, <3>3
      <4>2. Paid' = Paid
        BY <3>1, <4>1 DEF Paid
      <4> QED
        BY <2>2, <2>a, <2>b, <3>1, <3>3, <4>1, <4>2
    <3>4. CASE Bucket!Wake(t) /\ sent' = sent + 1
      <4>1. /\ R' = R /\ asleep' = asleep \ {t} /\ UNCHANGED wait
            /\ t \in asleep /\ wait[t] = 0
        BY <2>7, <3>4
      <4>2. Paid' = Paid \ Units(t, Cost) /\ Units(t, Cost) \subseteq Paid
        BY <3>1, <4>1 DEF Paid, Units
      <4>3. Cardinality(Paid') = Cardinality(Paid) - Cost
        BY <4>2, PaidLess
      <4> QED
        BY <2>2, <2>a, <2>b, <3>1, <3>4, <4>1, <4>3
    <3> QED
      BY <2>11, <3>2, <3>3, <3>4 DEF Other
  <2>12. CASE Tick
    <3>1. CASE age = MaxWindow
      BY <2>3, <2>12, <3>1 DEF Tick
    <3>2. CASE age # MaxWindow
      <4>1. age' = age + 1 /\ UNCHANGED <<sent, pc>> /\ Bucket!Tick
        BY <2>12, <3>2 DEF Tick
      <4>2. R' <= R + 1
        BY <4>1 DEF Bucket!Tick, Bucket!Refilled, Bucket!Least, TypeOK, Bucket!TypeOK
      <4>3. Cardinality(Paid') <= Cardinality(Paid) + Workers
        BY <4>1, PaidByTick
      <4> QED
        BY <2>a, <2>b, <2>c, <4>1, <4>2, <4>3 DEF Earned
    <3> QED
      BY <3>1, <3>2
  <2>13. CASE Observe
    BY <2>3, <2>13 DEF Observe
  <2> QED
    BY <2>4, <2>8, <2>9, <2>10, <2>11, <2>12, <2>13 DEF Next, Step, AttemptStep
<1> QED
  BY <1>2, <1>3, TypeCorrect, PTL DEF Spec

\* The requests all threads send in a window are bounded by a full bucket, its
\* refill, and a credit for every thread that sleeps: no retry gets past the
\* limiter, and no interleaving of sleepers makes the bound any larger.
THEOREM RateHolds == Spec => []RateOfSleepers
<1>1. TypeOK /\ Earned => RateOfSleepers
  <2> SUFFICES ASSUME TypeOK, Earned PROVE RateOfSleepers
    OBVIOUS
  <2>1. Bucket!Refilled \in Nat
    BY ClientAssumption DEF TypeOK, Bucket!TypeOK, Bucket!Refilled, Bucket!Least
  <2>2. Cost * sent \in Nat /\ Workers * (age + Cost) \in Nat /\ age \in Nat
    BY PaidBounded, ClientAssumption DEF TypeOK
  <2> QED
    BY <2>1, <2>2, PaidBounded, ClientAssumption DEF Earned, RateOfSleepers, Workers
<1> QED
  BY <1>1, EarnedHolds, TypeCorrect, PTL
=============================================================================
