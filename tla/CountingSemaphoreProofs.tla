----------------------- MODULE CountingSemaphoreProofs -----------------------
(***************************************************************************)
(* Theorems about CountingSemaphore, for every capacity and any sets of    *)
(* threads, finite or not.                                                 *)
(***************************************************************************)
EXTENDS CountingSemaphore, TLAPS

(* The counter stays between 0 and max_count_ whatever threads race on it, *)
(* and every variable keeps its type.                                      *)
THEOREM TypeCorrect == Spec => []TypeOK
<1> USE SemaphoreAssumption
<1>1. Init => TypeOK
  <2> SUFFICES ASSUME Init PROVE TypeOK
    OBVIOUS
  <2>1. stopped \in BOOLEAN
    BY DEF Init
  <2> QED
    BY <2>1 DEF Init, TypeOK, AcqPlaces, RelPlaces
<1>2. TypeOK /\ [Next]_vars => TypeOK'
  <2> SUFFICES ASSUME TypeOK, [Next]_vars PROVE TypeOK'
    OBVIOUS
  <2> USE DEF TypeOK, AcqPlaces, RelPlaces
  <2>1. ASSUME NEW a \in Acquirers,
               Acquire(a) \/ AcquireStep(a) \/ SpuriousWakeup(a)
        PROVE  TypeOK'
    BY <2>1 DEF Acquire, AcquireStep, AcquireTake, AcquireZero, AcquireLook,
                AcquireLock, AcquireSleep, SpuriousWakeup, AcquireGo
  <2>2. ASSUME NEW r \in Releasers,
               TryRelease(r) \/ ReleaseCheck(r) \/ ReleaseRetry(r)
        PROVE  TypeOK'
    BY <2>2 DEF TryRelease, ReleaseCheck, ReleaseRetry, ReleaseGo, MayRelease
  <2>3. ASSUME NEW r \in Releasers, ReleaseCas(r) PROVE TypeOK'
    BY <2>3 DEF ReleaseCas, ReleaseGo, CasHit
  <2>4. ASSUME NEW r \in Releasers, ReleaseNotify(r) PROVE TypeOK'
    BY <2>4 DEF ReleaseNotify, ReleaseGo, Asleep
  <2>5. ASSUME NEW s \in Stoppers, StopSet(s) \/ StopWake(s) PROVE TypeOK'
    BY <2>5 DEF StopSet, StopWake
  <2>6. CASE UNCHANGED vars
    BY <2>6 DEF vars
  <2> QED
    BY <2>1, <2>2, <2>3, <2>4, <2>5, <2>6 DEF Next, ReleaseStep
<1> QED
  BY <1>1, <1>2, PTL DEF Spec
-----------------------------------------------------------------------------
(* No token lies in the semaphore while every acquirer is blocked and no   *)
(* notification is under way.  The property is inductive with the types:   *)
(* an acquirer blocks only after it saw 0 under the mutex, and only the    *)
(* release that leaves 0 ends the emptiness that all blocked ones saw.     *)
THEOREM NoLostToken == Spec => []TokensReachSomebody
<1>1. Init => TokensReachSomebody
  BY DEF Init, TokensReachSomebody
<1>2. TypeOK /\ TokensReachSomebody /\ [Next]_vars => TokensReachSomebody'
  <2> SUFFICES ASSUME TypeOK, TokensReachSomebody, [Next]_vars,
                      count' > 0, \A a \in Acquirers : Blocked(a)'
               PROVE  \E r \in Releasers : rel'[r] = "notify"
    BY DEF TokensReachSomebody
  <2> USE DEF TypeOK, Blocked
  <2>1. ASSUME UNCHANGED count, \A a \in Acquirers : Blocked(a),
               \A r \in Releasers : rel[r] = "notify" => rel'[r] = "notify"
        PROVE  \E r \in Releasers : rel'[r] = "notify"
    BY <2>1 DEF TokensReachSomebody
  <2>2. ASSUME NEW a \in Acquirers,
               Acquire(a) \/ AcquireStep(a) \/ SpuriousWakeup(a)
        PROVE  \E r \in Releasers : rel'[r] = "notify"
    <3>1. CASE AcquireSleep(a)
      BY <2>1, <3>1 DEF AcquireSleep, AcquireGo
    <3>2. CASE AcquireLock(a)
      BY <3>2 DEF AcquireLock, AcquireGo, WaitPredicate
    <3> QED
      BY <2>2, <3>1, <3>2
      DEF Acquire, AcquireStep, AcquireTake, AcquireZero, AcquireLook,
          SpuriousWakeup, AcquireGo
  <2>3. ASSUME NEW r \in Releasers,
               TryRelease(r) \/ ReleaseCheck(r) \/ ReleaseRetry(r)
        PROVE  \E q \in Releasers : rel'[q] = "notify"
    BY <2>1, <2>3 DEF TryRelease, ReleaseCheck, ReleaseRetry, ReleaseGo
  <2>4. ASSUME NEW r \in Releasers, ReleaseCas(r)
        PROVE  \E q \in Releasers : rel'[q] = "notify"
    <3>1. CASE count = 0
      BY <2>4, <3>1 DEF ReleaseCas, ReleaseGo, MustNotify
    <3>2. CASE count # 0
      <4>1. PICK q \in Releasers : rel[q] = "notify"
        BY <2>4, <3>2 DEF ReleaseCas, TokensReachSomebody
      <4>2. q # r
        BY <2>4, <4>1 DEF ReleaseCas, ReleaseGo
      <4> QED
        BY <2>4, <4>1, <4>2 DEF ReleaseCas, ReleaseGo
    <3> QED
      BY <3>1, <3>2
  <2>5. ASSUME NEW r \in Releasers, ReleaseNotify(r) PROVE FALSE
    <3>1. \A a \in Acquirers : acq[a] # "decided"
      BY <2>5 DEF ReleaseNotify, MutexFree
    <3>2. PICK a \in Acquirers : TRUE
      BY SemaphoreAssumption
    <3>3. CASE Asleep = {}
      <4>1. acq'[a] = acq[a]
        BY <2>5, <3>3 DEF ReleaseNotify
      <4> QED
        BY <3>1, <3>2, <3>3, <4>1 DEF Asleep
    <3>4. CASE Asleep # {}
      <4>1. PICK b \in Asleep : acq' = [acq EXCEPT ![b] = "lock"]
        BY <2>5, <3>4 DEF ReleaseNotify
      <4> QED
        BY <4>1 DEF Asleep
    <3> QED
      BY <3>3, <3>4
  <2>6. ASSUME NEW s \in Stoppers, StopSet(s) \/ StopWake(s)
        PROVE  \E r \in Releasers : rel'[r] = "notify"
    <3>1. CASE StopSet(s)
      BY <2>1, <3>1 DEF StopSet
    <3>2. CASE StopWake(s)
      <4>1. PICK a \in Acquirers : TRUE
        BY SemaphoreAssumption
      <4> QED
        BY <3>2, <4>1 DEF StopWake, StopMayNotify, MutexFree
    <3> QED
      BY <2>6, <3>1, <3>2
  <2>7. CASE UNCHANGED vars
    BY <2>1, <2>7 DEF vars
  <2> QED
    BY <2>2, <2>3, <2>4, <2>5, <2>6, <2>7 DEF Next, ReleaseStep
<1> QED
  BY <1>1, <1>2, TypeCorrect, PTL DEF Spec

(* Nobody is blocked on a stopped semaphore without a notify_all under     *)
(* way: who is about to sleep holds the mutex that stop needs.             *)
THEOREM StopWakesEverybody == Spec => []StopReachesEverybody
<1>1. Init => StopReachesEverybody
  BY DEF Init, StopReachesEverybody
<1>2. TypeOK /\ StopReachesEverybody /\ [Next]_vars => StopReachesEverybody'
  <2> SUFFICES ASSUME TypeOK, StopReachesEverybody, [Next]_vars
               PROVE  StopReachesEverybody'
    OBVIOUS
  <2> USE DEF TypeOK, Blocked, StopReachesEverybody
  <2>1. ASSUME NEW a \in Acquirers,
               Acquire(a) \/ AcquireStep(a) \/ SpuriousWakeup(a)
        PROVE  StopReachesEverybody'
    BY <2>1 DEF Acquire, AcquireStep, AcquireTake, AcquireZero, AcquireLook,
                AcquireLock, AcquireSleep, SpuriousWakeup, AcquireGo, WaitPredicate
  <2>2. ASSUME NEW r \in Releasers,
               TryRelease(r) \/ ReleaseStep(r) \/ ReleaseRetry(r)
        PROVE  StopReachesEverybody'
    BY <2>2 DEF TryRelease, ReleaseStep, ReleaseCheck, ReleaseCas,
                ReleaseNotify, ReleaseRetry, Asleep
  <2>3. ASSUME NEW s \in Stoppers, StopSet(s) PROVE StopReachesEverybody'
    BY <2>3 DEF StopSet
  <2>4. ASSUME NEW s \in Stoppers, StopWake(s) PROVE StopReachesEverybody'
    <3>1. \A a \in Acquirers : ~Blocked(a)'
      BY <2>4 DEF StopWake, StopMayNotify, MutexFree
    <3> QED
      BY <3>1
  <2>5. CASE UNCHANGED vars
    BY <2>5 DEF vars
  <2> QED
    BY <2>1, <2>2, <2>3, <2>4, <2>5 DEF Next
<1> QED
  BY <1>1, <1>2, TypeCorrect, PTL DEF Spec
-----------------------------------------------------------------------------
(* The semaphore implements the abstract one.                              *)
THEOREM ImplementsSemaphore == Spec => SemaphoreSpec
<1> DEFINE Inside == {a \in Acquirers : acq[a] # "out"}
<1>1. Init => Abstract!Init
  BY DEF Init, Abstract!Init
<1>2. TypeOK /\ [Next]_vars => [Abstract!Next]_(Abstract!vars)
  <2> SUFFICES ASSUME TypeOK, [Next]_vars
               PROVE  Abstract!Next \/ UNCHANGED Abstract!vars
    OBVIOUS
  <2> USE DEF TypeOK
  <2>1. ASSUME NEW a \in Acquirers,
               Acquire(a) \/ AcquireStep(a) \/ SpuriousWakeup(a)
        PROVE  \/ Abstract!Call(a) \/ Abstract!Take(a) \/ Abstract!GiveUp(a)
               \/ UNCHANGED Abstract!vars
    <3>1. CASE Acquire(a)
      <4>1. Inside' = Inside \cup {a} /\ a \notin Inside
        BY <3>1 DEF Acquire, AcquireGo
      <4> QED
        BY <3>1, <4>1 DEF Acquire, Abstract!Call
    <3>2. CASE AcquireTake(a)
      <4>1. Inside' = Inside \ {a} /\ a \in Inside
        BY <3>2 DEF AcquireTake, AcquireGo
      <4> QED
        BY <3>2, <4>1 DEF AcquireTake, Abstract!Take
    <3>3. CASE AcquireLook(a) /\ stopped
      <4>1. Inside' = Inside \ {a} /\ a \in Inside
        BY <3>3 DEF AcquireLook, AcquireGo
      <4> QED
        BY <3>3, <4>1 DEF AcquireLook, Abstract!GiveUp
    <3>4. CASE \/ AcquireLook(a) /\ ~stopped
               \/ AcquireZero(a) \/ AcquireLock(a) \/ AcquireSleep(a)
               \/ SpuriousWakeup(a)
      <4>1. Inside' = Inside
        BY <3>4 DEF AcquireLook, AcquireZero, AcquireLock, AcquireSleep,
                    SpuriousWakeup, AcquireGo
      <4> QED
        BY <3>4, <4>1 DEF AcquireLook, AcquireZero, AcquireLock, AcquireSleep,
                          SpuriousWakeup, Abstract!vars
    <3> QED
      BY <2>1, <3>1, <3>2, <3>3, <3>4 DEF AcquireStep
  <2>2. ASSUME NEW r \in Releasers,
               TryRelease(r) \/ ReleaseCheck(r) \/ ReleaseRetry(r)
        PROVE  UNCHANGED Abstract!vars
    BY <2>2 DEF TryRelease, ReleaseCheck, ReleaseRetry, Abstract!vars
  <2>3. ASSUME NEW r \in Releasers, ReleaseCas(r) PROVE Abstract!Release
    BY <2>3 DEF ReleaseCas, ReleaseGo, CasHit, Abstract!Release
  <2>4. ASSUME NEW r \in Releasers, ReleaseNotify(r)
        PROVE  UNCHANGED Abstract!vars
    <3>1. Inside' = Inside
      BY <2>4 DEF ReleaseNotify, Asleep
    <3> QED
      BY <2>4, <3>1 DEF ReleaseNotify, Abstract!vars
  <2>5. ASSUME NEW s \in Stoppers, StopSet(s)
        PROVE  Abstract!Close \/ UNCHANGED Abstract!vars
    BY <2>5 DEF StopSet, Abstract!Close, Abstract!vars
  <2>6. ASSUME NEW s \in Stoppers, StopWake(s) PROVE UNCHANGED Abstract!vars
    <3>1. Inside' = Inside
      BY <2>6 DEF StopWake
    <3> QED
      BY <2>6, <3>1 DEF StopWake, Abstract!vars
  <2>7. CASE UNCHANGED vars
    BY <2>7 DEF vars, Abstract!vars
  <2> QED
    BY <2>1, <2>2, <2>3, <2>4, <2>5, <2>6, <2>7
    DEF Next, ReleaseStep, Abstract!Next
<1> QED
  BY <1>1, <1>2, TypeCorrect, PTL DEF Spec, SemaphoreSpec, Abstract!Spec
=============================================================================
