------------------------- MODULE LoginLimiter_proofs -------------------------
(***************************************************************************)
(* Theorems about LoginLimiter, for any number of parallel attempts, any   *)
(* keys and any configuration of the limiter.                              *)
(***************************************************************************)
EXTENDS LoginLimiter, FiniteSetTheorems, TLAPS

\* The attempts that have passed Allow for k and have not reported yet.
Verifying(k) == {a \in Attempt : pc[a] = "verify" /\ key[a] = k}

\* Every reading of the clock is in the past.
ReadingsArePast == \A a \in Attempt : at[a] <= clock

\* Without a block the counter is the number of failures since the key was
\* forgiven, and below the limit.
CounterIsExact(k) ==
  entries[k].blockedUntil = 0 =>
    /\ strikes[k] = entries[k].failures
    /\ strikes[k] < MaxFailures

\* With a block, what has failed and what may still fail is bounded, since no
\* attempt passes Allow before the block is forgiven.
BlockIsTight(k) ==
  entries[k].blockedUntil # 0 =>
    /\ strikes[k] >= MaxFailures
    /\ strikes[k] + Cardinality(Verifying(k)) < MaxFailures + Cardinality(Attempt)
    /\ entries[k].blockedUntil <= clock + BlockFor

LimiterInv ==
  /\ TypeOK
  /\ ReadingsArePast
  /\ \A k \in Key : CounterIsExact(k) /\ BlockIsTight(k)

-----------------------------------------------------------------------------

\* What the attempts in verification are is a finite set with a count.
LEMMA VerifyingIsFinite ==
  ASSUME NEW k
  PROVE  /\ IsFiniteSet(Verifying(k))
         /\ Cardinality(Verifying(k)) \in Nat
         /\ Cardinality(Verifying(k)) <= Cardinality(Attempt)
BY FiniteAttempts, FS_Subset, FS_CardinalityType DEF Verifying

\* One attempt fewer in verification.
LEMMA OneFewer ==
  ASSUME NEW k, NEW a \in Verifying(k), NEW S, S = Verifying(k) \ {a}
  PROVE  Cardinality(S) = Cardinality(Verifying(k)) - 1
BY VerifyingIsFinite, FS_RemoveElement

\* Fewer attempts in verification.
LEMMA NotMore ==
  ASSUME NEW k, NEW S, S \subseteq Verifying(k)
  PROVE  Cardinality(S) \in Nat /\ Cardinality(S) <= Cardinality(Verifying(k))
BY VerifyingIsFinite, FS_Subset, FS_CardinalityType

LEMMA InitLimiter == Init => LimiterInv
<1> SUFFICES ASSUME Init PROVE LimiterInv
  OBVIOUS
<1>1. TypeOK
  BY DEF Init, TypeOK, Entry, NoEntry
<1>2. ReadingsArePast
  BY DEF Init, ReadingsArePast
<1>3. \A k \in Key : CounterIsExact(k) /\ BlockIsTight(k)
  BY LimiterConfig DEF Init, CounterIsExact, BlockIsTight, NoEntry
<1> QED
  BY <1>1, <1>2, <1>3 DEF LimiterInv

\* Types and clock readings are kept by every step.
LEMMA TypeStep ==
  ASSUME TypeOK, ReadingsArePast, [Next]_vars
  PROVE  TypeOK' /\ ReadingsArePast'
<1> USE LimiterConfig, MaxTimeType, NoneIsNoKey DEF TypeOK, ReadingsArePast
<1>1. ASSUME NEW a \in Attempt, NEW k \in Key, Begin(a, k)
      PROVE  TypeOK' /\ ReadingsArePast'
  BY <1>1 DEF Begin
<1>2. ASSUME NEW a \in Attempt, Allow(a)
      PROVE  TypeOK' /\ ReadingsArePast'
  <2>1. key[a] \in Key /\ NoEntry \in Entry
    BY <1>2 DEF Allow, Entry, NoEntry
  <2>2. entries' \in [Key -> Entry] /\ strikes' \in [Key -> Nat]
    <3>1. CASE entries[key[a]].blockedUntil # 0
      BY <1>2, <2>1, <3>1 DEF Allow, Forgive
    <3>2. CASE entries[key[a]].blockedUntil = 0
      BY <1>2, <3>2 DEF Allow
    <3> QED
      BY <3>1, <3>2
  <2>3. /\ pc' = [pc EXCEPT ![a] = "verify"]
        /\ UNCHANGED <<clock, key, at>>
    BY <1>2 DEF Allow
  <2> QED
    BY <2>1, <2>2, <2>3
<1>3. ASSUME NEW a \in Attempt, Refuse(a)
      PROVE  TypeOK' /\ ReadingsArePast'
  BY <1>3 DEF Refuse, Finish
<1>4. ASSUME NEW a \in Attempt, Reject(a)
      PROVE  TypeOK' /\ ReadingsArePast'
  <2>1. key[a] \in Key /\ EntryAfterFailure(entries[key[a]], at[a]) \in Entry
    BY <1>4 DEF Reject, EntryAfterFailure, Entry
  <2> QED
    BY <1>4, <2>1 DEF Reject, Finish
<1>5. ASSUME NEW a \in Attempt, Accept(a)
      PROVE  TypeOK' /\ ReadingsArePast'
  BY <1>5 DEF Accept, Forgive, Finish, Entry, NoEntry
<1>6. ASSUME NEW a \in Attempt, Fail(a)
      PROVE  TypeOK' /\ ReadingsArePast'
  BY <1>6 DEF Fail, Finish
<1>7. CASE Restart
  BY <1>7 DEF Restart, Entry, NoEntry
<1>8. CASE Tick
  BY <1>8 DEF Tick
<1>9. CASE UNCHANGED vars
  BY <1>9 DEF vars
<1> QED
  BY <1>1, <1>2, <1>3, <1>4, <1>5, <1>6, <1>7, <1>8, <1>9 DEF Next

\* A key the step does not touch keeps its part of the invariant, provided no
\* attempt enters verification for it and time does not go back.
LEMMA Untouched ==
  ASSUME LimiterInv, TypeOK', NEW k \in Key,
         entries'[k] = entries[k], strikes'[k] = strikes[k],
         Verifying(k)' \subseteq Verifying(k), clock <= clock'
  PROVE  CounterIsExact(k)' /\ BlockIsTight(k)'
<1>1. /\ Cardinality(Verifying(k)') \in Nat
      /\ Cardinality(Verifying(k)') <= Cardinality(Verifying(k))
  BY NotMore
<1>2. Cardinality(Verifying(k)) \in Nat /\ Cardinality(Attempt) \in Nat
  BY VerifyingIsFinite, FiniteAttempts, FS_CardinalityType
<1>3. clock \in Nat /\ clock' \in Nat /\ strikes[k] \in Nat
      /\ entries[k].blockedUntil \in Nat
  BY DEF LimiterInv, TypeOK, Entry
<1>4. CounterIsExact(k)'
  BY DEF LimiterInv, CounterIsExact
<1>5. BlockIsTight(k)'
  BY <1>1, <1>2, <1>3, LimiterConfig DEF LimiterInv, BlockIsTight
<1> QED
  BY <1>4, <1>5

\* A key that is forgiven satisfies the invariant.
LEMMA Forgiven ==
  ASSUME NEW k \in Key, TypeOK, Forgive(k)
  PROVE  /\ CounterIsExact(k)' /\ BlockIsTight(k)'
         /\ \A o \in Key \ {k} : entries'[o] = entries[o] /\ strikes'[o] = strikes[o]
BY LimiterConfig DEF Forgive, CounterIsExact, BlockIsTight, NoEntry, TypeOK

LEMMA AllowStep ==
  ASSUME LimiterInv, TypeOK', NEW a \in Attempt, Allow(a), NEW k \in Key
  PROVE  CounterIsExact(k)' /\ BlockIsTight(k)'
<1>1. key[a] \in Key /\ clock' = clock
  BY DEF Allow, LimiterInv, TypeOK
<1>2. CASE k = key[a] /\ entries[k].blockedUntil # 0
  BY <1>1, <1>2, Forgiven DEF Allow, LimiterInv
<1>3. CASE k = key[a] /\ entries[k].blockedUntil = 0
  <2>1. entries'[k] = entries[k] /\ strikes'[k] = strikes[k]
    BY <1>3 DEF Allow
  <2> QED
    BY <1>3, <2>1 DEF CounterIsExact, BlockIsTight, LimiterInv
<1>4. CASE k # key[a]
  <2>1. entries'[k] = entries[k] /\ strikes'[k] = strikes[k]
    BY <1>1, <1>4, Forgiven DEF Allow, LimiterInv
  <2>2. Verifying(k)' \subseteq Verifying(k)
    BY <1>4 DEF Allow, Verifying, LimiterInv, TypeOK
  <2> QED
    BY <1>1, <2>1, <2>2, Untouched DEF LimiterInv, TypeOK
<1> QED
  BY <1>2, <1>3, <1>4

LEMMA RejectStep ==
  ASSUME LimiterInv, TypeOK', NEW a \in Attempt, Reject(a), NEW k \in Key
  PROVE  CounterIsExact(k)' /\ BlockIsTight(k)'
<1>1. /\ key[a] \in Key /\ clock' = clock /\ clock \in Nat
      /\ at[a] \in Nat /\ at[a] <= clock
  BY DEF Reject, Finish, LimiterInv, TypeOK, ReadingsArePast
<1>2. CASE k # key[a]
  <2>1. entries'[k] = entries[k] /\ strikes'[k] = strikes[k]
    BY <1>1, <1>2 DEF Reject, LimiterInv, TypeOK
  <2>2. Verifying(k)' \subseteq Verifying(k)
    BY <1>2 DEF Reject, Finish, Verifying, LimiterInv, TypeOK
  <2> QED
    BY <1>1, <2>1, <2>2, Untouched DEF LimiterInv, TypeOK
<1>3. CASE k = key[a]
  <2> DEFINE e == entries[k]
             n == Cardinality(Verifying(k))
             N == Cardinality(Attempt)
  <2>1. /\ e \in Entry /\ strikes[k] \in Nat
        /\ strikes'[k] = strikes[k] + 1
        /\ entries'[k] = EntryAfterFailure(e, at[a])
    BY <1>3 DEF Reject, LimiterInv, TypeOK
  <2>2. Verifying(k)' = Verifying(k) \ {a} /\ a \in Verifying(k)
    BY <1>3, NoneIsNoKey DEF Reject, Finish, Verifying, LimiterInv, TypeOK
  <2>3. Cardinality(Verifying(k)') = n - 1
    BY <2>2, OneFewer
  <2>4. n \in Nat /\ N \in Nat /\ n <= N
    BY VerifyingIsFinite, FiniteAttempts, FS_CardinalityType
  <2>5. CASE e.failures + 1 >= MaxFailures
    <3>1. entries'[k].blockedUntil = at[a] + BlockFor
      BY <2>1, <2>5 DEF EntryAfterFailure
    <3>2. CASE e.blockedUntil = 0
      <4>1. strikes'[k] = MaxFailures
        BY <2>1, <2>5, <3>2, LimiterConfig DEF LimiterInv, CounterIsExact, Entry
      <4> QED
        BY <1>1, <2>3, <2>4, <3>1, <4>1, LimiterConfig
        DEF CounterIsExact, BlockIsTight
    <3>3. CASE e.blockedUntil # 0
      <4>1. strikes[k] >= MaxFailures /\ strikes[k] + n < MaxFailures + N
        BY <3>3 DEF LimiterInv, BlockIsTight
      <4> QED
        BY <1>1, <2>1, <2>3, <2>4, <3>1, <4>1, LimiterConfig
        DEF CounterIsExact, BlockIsTight
    <3> QED
      BY <3>2, <3>3
  <2>6. CASE ~(e.failures + 1 >= MaxFailures)
    <3>1. /\ entries'[k].blockedUntil = e.blockedUntil
          /\ entries'[k].failures = e.failures + 1
      BY <2>1, <2>6 DEF EntryAfterFailure, Entry
    <3>2. CounterIsExact(k)'
      <4> SUFFICES ASSUME e.blockedUntil = 0
                   PROVE  strikes'[k] = e.failures + 1 /\ strikes'[k] < MaxFailures
        BY <3>1 DEF CounterIsExact
      <4>1. strikes[k] = e.failures
        BY DEF LimiterInv, CounterIsExact
      <4>2. e.failures \in Nat
        BY <2>1 DEF Entry
      <4> QED
        BY <2>1, <2>6, <4>1, <4>2, LimiterConfig
    <3>3. BlockIsTight(k)'
      <4> SUFFICES ASSUME e.blockedUntil # 0
                   PROVE  BlockIsTight(k)'
        BY <3>1 DEF BlockIsTight
      <4>1. /\ strikes[k] >= MaxFailures /\ strikes[k] + n < MaxFailures + N
            /\ e.blockedUntil <= clock + BlockFor
        BY DEF LimiterInv, BlockIsTight
      <4> QED
        BY <1>1, <2>1, <2>3, <2>4, <3>1, <4>1, LimiterConfig DEF BlockIsTight
    <3> QED
      BY <3>2, <3>3
  <2> QED
    BY <2>5, <2>6
<1> QED
  BY <1>2, <1>3

LEMMA AcceptStep ==
  ASSUME LimiterInv, TypeOK', NEW a \in Attempt, Accept(a), NEW k \in Key
  PROVE  CounterIsExact(k)' /\ BlockIsTight(k)'
<1>1. key[a] \in Key /\ clock' = clock /\ clock \in Nat
  BY DEF Accept, Finish, LimiterInv, TypeOK
<1>2. CASE k = key[a]
  BY <1>1, <1>2, Forgiven DEF Accept, LimiterInv
<1>3. CASE k # key[a]
  <2>1. entries'[k] = entries[k] /\ strikes'[k] = strikes[k]
    BY <1>1, <1>3, Forgiven DEF Accept, LimiterInv
  <2>2. Verifying(k)' \subseteq Verifying(k)
    BY DEF Accept, Finish, Verifying, LimiterInv, TypeOK
  <2> QED
    BY <1>1, <2>1, <2>2, Untouched DEF LimiterInv
<1> QED
  BY <1>2, <1>3

\* The steps that leave the map alone and let no attempt into verification.
LEMMA OtherStep ==
  ASSUME LimiterInv, TypeOK', NEW k \in Key,
         UNCHANGED <<entries, strikes>>, clock <= clock',
         \A a \in Attempt : pc'[a] = "verify" => pc[a] = "verify" /\ key'[a] = key[a]
  PROVE  CounterIsExact(k)' /\ BlockIsTight(k)'
BY Untouched DEF Verifying, LimiterInv, TypeOK

LEMMA LimiterStep == LimiterInv /\ [Next]_vars => LimiterInv'
<1> SUFFICES ASSUME LimiterInv, [Next]_vars PROVE LimiterInv'
  OBVIOUS
<1>1. TypeOK' /\ ReadingsArePast'
  BY TypeStep DEF LimiterInv
<1> SUFFICES ASSUME NEW k \in Key PROVE CounterIsExact(k)' /\ BlockIsTight(k)'
  BY <1>1 DEF LimiterInv
<1>2. clock \in Nat
  BY DEF LimiterInv, TypeOK
<1>3. ASSUME NEW a \in Attempt, NEW c \in Key, Begin(a, c)
      PROVE  CounterIsExact(k)' /\ BlockIsTight(k)'
  BY <1>1, <1>2, <1>3, OtherStep DEF Begin, LimiterInv, TypeOK
<1>4. ASSUME NEW a \in Attempt, Allow(a)
      PROVE  CounterIsExact(k)' /\ BlockIsTight(k)'
  BY <1>1, <1>4, AllowStep
<1>5. ASSUME NEW a \in Attempt, Reject(a)
      PROVE  CounterIsExact(k)' /\ BlockIsTight(k)'
  BY <1>1, <1>5, RejectStep
<1>6. ASSUME NEW a \in Attempt, Accept(a)
      PROVE  CounterIsExact(k)' /\ BlockIsTight(k)'
  BY <1>1, <1>6, AcceptStep
<1>7. ASSUME NEW a \in Attempt, Refuse(a) \/ Fail(a)
      PROVE  CounterIsExact(k)' /\ BlockIsTight(k)'
  BY <1>1, <1>2, <1>7, OtherStep DEF Refuse, Fail, Finish, LimiterInv, TypeOK
<1>8. CASE Restart
  BY <1>8, LimiterConfig DEF Restart, CounterIsExact, BlockIsTight, NoEntry
<1>9. CASE Tick
  BY <1>1, <1>2, <1>9, OtherStep DEF Tick
<1>10. CASE UNCHANGED vars
  BY <1>1, <1>2, <1>10, OtherStep DEF vars
<1> QED
  BY <1>3, <1>4, <1>5, <1>6, <1>7, <1>8, <1>9, <1>10 DEF Next

\* Neither parallel attempts nor old clock readings get a key more failures
\* than maxFailures - 1 and one for each attempt, before it is forgiven.
THEOREM GuessBudget == Spec => []GuessesAreBounded
<1>1. LimiterInv => GuessesAreBounded
  <2> SUFFICES ASSUME LimiterInv, NEW k \in Key
               PROVE  strikes[k] <= MaxFailures - 1 + Cardinality(Attempt)
    BY DEF GuessesAreBounded
  <2>1. Cardinality(Attempt) \in Nat /\ Cardinality(Verifying(k)) \in Nat
    BY VerifyingIsFinite, FiniteAttempts, FS_CardinalityType
  <2>2. strikes[k] \in Nat
    BY DEF LimiterInv, TypeOK
  <2> QED
    BY <2>1, <2>2, LimiterConfig DEF LimiterInv, CounterIsExact, BlockIsTight
<1> QED
  BY InitLimiter, LimiterStep, <1>1, PTL DEF Spec

\* A block is due to enough failures of its key, and ends blockFor from now
\* at the latest.
THEOREM LockoutEarned == Spec => []LockoutIsEarned
<1>1. LimiterInv => LockoutIsEarned
  BY DEF LimiterInv, BlockIsTight, LockoutIsEarned
<1> QED
  BY InitLimiter, LimiterStep, <1>1, PTL DEF Spec

\* Every variable keeps its type.
THEOREM LimiterTypes == Spec => []TypeOK
<1>1. LimiterInv => TypeOK
  BY DEF LimiterInv
<1> QED
  BY InitLimiter, LimiterStep, <1>1, PTL DEF Spec

=============================================================================
