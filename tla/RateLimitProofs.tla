--------------------------- MODULE RateLimitProofs ---------------------------
(***************************************************************************)
(* Theorems about RateLimit, for any counters, limits, routes and calls    *)
(* and any number of faults.                                               *)
(***************************************************************************)
EXTENDS RateLimit, FiniteSetTheorems, TLAPS

-----------------------------------------------------------------------------
(* The inductive invariant.                                                *)

\* There is nothing to count in a key that does not exist.
AbsentIsZero == \A k \in Key : ttl[k] = "absent" => count[k] = 0

\* Only a refused increment is rolled back.
RefusedRollsBack == \A l \in Leg : leg[l].pc = "decr" => ~leg[l].allowed

\* A call that has not begun has not sent a command.
IdleCallsRest ==
    \A p \in Call : call[p].pc = "idle" => \A k \in Key : leg[<<p, k>>].pc = "idle"

\* Whatever fails, a counter covers what was granted in its life: a fault may leave a
\* refused increment in it, and never takes a granted one out.
CountCovers ==
    \A k \in Key : count[k] >= granted[k] + Cardinality(Pending(k)) - strays[k]

IInv ==
    /\ TypeOK
    /\ AbsentIsZero
    /\ RefusedRollsBack
    /\ IdleCallsRest
    /\ CountCovers
    /\ CounterIsExact
    /\ EndlessCounterIsNegative
    /\ GrantsBounded

-----------------------------------------------------------------------------
(* Type correctness.                                                       *)

LEMMA RouteIsKeys ==
    ASSUME NEW keys \in ServiceKeys \cup WorkerKeys
    PROVE  keys \in SUBSET Key
BY RoutesAreKeys

LEMMA TypeInit == Init => TypeOK
BY MaxFaultsIsNat DEF Init, TypeOK, IdleLeg, Kind, CallPC, LegPC, Leg

LEMMA BeginType ==
    ASSUME TypeOK, NEW p \in Call, NEW kind \in Kind, NEW keys \in SUBSET Key,
           Begin(p, kind, keys)
    PROVE  TypeOK'
BY DEF TypeOK, Begin, AllLegs, IdleLeg, counters, CallPC, LegPC, Leg

LEMMA DecideType ==
    ASSUME TypeOK, NEW p \in Call, Decide(p)
    PROVE  TypeOK'
<1>1. call' \in [Call -> [kind: Kind, pc: CallPC, keys: SUBSET Key]]
  BY DEF TypeOK, Decide, CallPC
<1>2. leg' \in [Leg -> [pc: LegPC, allowed: BOOLEAN, fresh: BOOLEAN]]
  <2>1. CASE UNCHANGED leg
    BY <2>1 DEF TypeOK
  <2>2. CASE leg' = AllLegs(p, "incr")
    <3>1. [IdleLeg EXCEPT !.pc = "incr"] \in [pc: LegPC, allowed: BOOLEAN, fresh: BOOLEAN]
      BY DEF IdleLeg, LegPC
    <3> QED
      BY <2>2, <3>1 DEF TypeOK, AllLegs
  <2> QED
    BY <2>1, <2>2 DEF Decide
<1> QED
  BY <1>1, <1>2 DEF TypeOK, Decide, counters

LEMMA LegType ==
    ASSUME TypeOK, NEW p \in Call, NEW k \in Key, LegStep(p, k) \/ RedisFails(p, k)
    PROVE  TypeOK'
<1>1. <<p, k>> \in Leg
  BY DEF Leg
<1>2. CASE CheckRateLimit(p, k)
  BY <1>1, <1>2, LimitIsPositive DEF CheckRateLimit, TypeOK, counters, LegPC
<1>3. CASE Increment(p, k)
  BY <1>1, <1>3, LimitIsPositive DEF Increment, Incremented, AfterExpiry, TypeOK, LegPC
<1>4. CASE SetExpiry(p, k)
  BY <1>1, <1>4 DEF SetExpiry, AfterExpiry, TypeOK, LegPC
<1>5. CASE RollBack(p, k)
  <2>1. /\ count[k] - 1 \in Int
        /\ (IF leg[<<p, k>>].fresh THEN strays[k] ELSE strays[k] + 1) \in Nat
    BY DEF TypeOK
  <2>2. count' \in [Key -> Int] /\ strays' \in [Key -> Nat]
    BY <1>5, <2>1 DEF RollBack, TypeOK
  <2>3. ttl' \in [Key -> {"absent", "none", "set"}]
    BY <1>5 DEF RollBack, TypeOK
  <2>4. leg' \in [Leg -> [pc: LegPC, allowed: BOOLEAN, fresh: BOOLEAN]]
    BY <1>1, <1>5 DEF RollBack, TypeOK, LegPC
  <2> QED
    BY <1>5, <2>2, <2>3, <2>4 DEF RollBack, TypeOK
<1>6. CASE RedisFails(p, k)
  <2>1. [leg[<<p, k>>] EXCEPT !.allowed = TRUE, !.pc = IF @ = "get" THEN "checked" ELSE "done"]
          \in [pc: LegPC, allowed: BOOLEAN, fresh: BOOLEAN]
    BY <1>1 DEF TypeOK, LegPC
  <2>2. leg' \in [Leg -> [pc: LegPC, allowed: BOOLEAN, fresh: BOOLEAN]]
    BY <1>1, <1>6, <2>1 DEF RedisFails, TypeOK
  <2>3. faults' \in 0..MaxFaults
    BY <1>6, MaxFaultsIsNat DEF RedisFails, Fault, TypeOK
  <2> QED
    BY <1>6, <2>2, <2>3 DEF RedisFails, TypeOK, counters
<1> QED
  BY <1>2, <1>3, <1>4, <1>5, <1>6 DEF LegStep

LEMMA OtherType ==
    ASSUME TypeOK, Crash \/ (\E p \in Call : Proceed(p)) \/ (\E k \in Key : Expire(k))
    PROVE  TypeOK'
<1>1. CASE Crash
  BY <1>1, MaxFaultsIsNat DEF Crash, Fault, Running, IdleLeg, TypeOK, counters, CallPC, LegPC, Leg
<1>2. CASE \E p \in Call : Proceed(p)
  BY <1>2 DEF Proceed, TypeOK, counters, CallPC
<1>3. ASSUME NEW k \in Key, Expire(k) PROVE TypeOK'
  <2>1. \A l \in Leg : [leg[l] EXCEPT !.fresh = FALSE]
                         \in [pc: LegPC, allowed: BOOLEAN, fresh: BOOLEAN]
    BY DEF TypeOK
  <2>2. leg' \in [Leg -> [pc: LegPC, allowed: BOOLEAN, fresh: BOOLEAN]]
    BY <1>3, <2>1 DEF Expire, TypeOK
  <2>3. /\ count' \in [Key -> Int]
        /\ ttl' \in [Key -> {"absent", "none", "set"}]
        /\ granted' \in [Key -> Nat]
        /\ strays' \in [Key -> Nat]
    BY <1>3 DEF Expire, TypeOK
  <2> QED
    BY <1>3, <2>2, <2>3 DEF Expire, TypeOK
<1> QED
  BY <1>1, <1>2, <1>3

LEMMA TypeStep == TypeOK /\ [Next]_vars => TypeOK'
<1> SUFFICES ASSUME TypeOK, [Next]_vars PROVE TypeOK'
  OBVIOUS
<1>1. ASSUME NEW p \in Call, NEW keys \in ServiceKeys, Begin(p, "service", keys) PROVE TypeOK'
  BY <1>1, RouteIsKeys, BeginType DEF Kind
<1>2. ASSUME NEW p \in Call, NEW keys \in WorkerKeys, Begin(p, "worker", keys) PROVE TypeOK'
  BY <1>2, RouteIsKeys, BeginType DEF Kind
<1>3. ASSUME NEW p \in Call, CallStep(p) PROVE TypeOK'
  BY <1>3, DecideType, LegType, OtherType DEF CallStep
<1>4. CASE UNCHANGED vars
  BY <1>4 DEF vars, TypeOK
<1> QED
  BY <1>1, <1>2, <1>3, <1>4, LegType, OtherType DEF Next

\* Whatever calls overlap, expire, fail or crash, every variable keeps its type
\* (RateLimitService).
THEOREM TypeCorrect == Spec => []TypeOK
BY TypeInit, TypeStep, PTL DEF Spec

-----------------------------------------------------------------------------
(* The refused increments that are about to be undone.                     *)

LEMMA PendingIsFinite ==
    ASSUME NEW k
    PROVE  IsFiniteSet(Pending(k)) /\ Cardinality(Pending(k)) \in Nat
<1>1. Pending(k) \in SUBSET Call
  BY DEF Pending
<1> QED
  BY <1>1, CallsAreFinite, FS_Subset, FS_CardinalityType

\* Two sets of calls that differ at most in p.
LEMMA CountWithout ==
    ASSUME NEW S \in SUBSET Call, NEW T \in SUBSET Call, NEW p \in Call,
           S \ {p} = T \ {p}
    PROVE  Cardinality(T) = Cardinality(S) + (IF p \in T /\ p \notin S THEN 1
                                              ELSE IF p \in S /\ p \notin T THEN -1 ELSE 0)
<1>1. IsFiniteSet(S) /\ IsFiniteSet(T)
  BY CallsAreFinite, FS_Subset
<1>2. Cardinality(S) \in Nat /\ Cardinality(T) \in Nat
  BY <1>1, FS_CardinalityType
<1>3. CASE p \in T /\ p \notin S
  <2>1. T = S \cup {p}
    BY <1>3
  <2> QED
    BY <1>1, <1>3, <2>1, FS_AddElement
<1>4. CASE p \in S /\ p \notin T
  <2>1. T = S \ {p}
    BY <1>4
  <2> QED
    BY <1>1, <1>2, <1>4, <2>1, FS_RemoveElement
<1>5. CASE (p \in S) <=> (p \in T)
  <2>1. S = T
    BY <1>5
  <2> QED
    BY <1>2, <1>5, <2>1
<1> QED
  BY <1>3, <1>4, <1>5

\* A step of one leg changes the pending increments of its key at most by its call.
LEMMA PendingMoves ==
    ASSUME NEW p \in Call, NEW k \in Key, \A l \in Leg \ {<<p, k>>} : leg'[l] = leg[l]
    PROVE  /\ \A j \in Key \ {k} : Pending(j)' = Pending(j)
           /\ Cardinality(Pending(k)') = Cardinality(Pending(k))
                 + (IF p \in Pending(k)' /\ p \notin Pending(k) THEN 1
                    ELSE IF p \in Pending(k) /\ p \notin Pending(k)' THEN -1 ELSE 0)
<1>1. \A q \in Call, j \in Key : <<q, j>> # <<p, k>> => leg'[<<q, j>>] = leg[<<q, j>>]
  BY DEF Leg
<1>2. \A j \in Key \ {k} : Pending(j)' = Pending(j)
  BY <1>1 DEF Pending
<1>3. Pending(k) \ {p} = Pending(k)' \ {p}
  BY <1>1 DEF Pending
<1>4. Pending(k) \in SUBSET Call /\ Pending(k)' \in SUBSET Call
  BY DEF Pending
<1> QED
  BY <1>2, <1>3, <1>4, CountWithout

\* Fewer legs under way: no more pending increments.
LEMMA PendingShrinks ==
    ASSUME NEW k \in Key, Pending(k)' \subseteq Pending(k)
    PROVE  /\ Cardinality(Pending(k)') \in Nat
           /\ Cardinality(Pending(k)') <= Cardinality(Pending(k))
<1>1. Pending(k)' \in SUBSET Pending(k)
  OBVIOUS
<1> QED
  BY <1>1, PendingIsFinite, FS_Subset, FS_CardinalityType

-----------------------------------------------------------------------------
(* A step of one leg, or its failure.                                      *)

LEMMA LegFrame ==
    ASSUME TypeOK, NEW p \in Call, NEW k \in Key, LegStep(p, k) \/ RedisFails(p, k)
    PROVE  /\ <<p, k>> \in Leg
           /\ \A l \in Leg \ {<<p, k>>} : leg'[l] = leg[l]
           /\ \A q \in Call, j \in Key : q # p \/ j # k => leg'[<<q, j>>] = leg[<<q, j>>]
           /\ \A j \in Key \ {k} : /\ count'[j] = count[j]
                                     /\ ttl'[j] = ttl[j]
                                     /\ granted'[j] = granted[j]
                                     /\ strays'[j] = strays[j]
           /\ call' = call
           /\ leg[<<p, k>>].pc # "idle"
<1>1. <<p, k>> \in Leg
  BY DEF Leg
<1>2. /\ \A l \in Leg \ {<<p, k>>} : leg'[l] = leg[l]
      /\ leg[<<p, k>>].pc # "idle"
  BY <1>1 DEF LegStep, CheckRateLimit, Increment, Incremented, SetExpiry, RollBack, RedisFails,
       At, TypeOK
<1>3. /\ \A j \in Key \ {k} : /\ count'[j] = count[j]
                                /\ ttl'[j] = ttl[j]
                                /\ granted'[j] = granted[j]
                                /\ strays'[j] = strays[j]
      /\ call' = call
  BY DEF LegStep, CheckRateLimit, Increment, Incremented, SetExpiry, RollBack, RedisFails,
     TypeOK, counters
<1>4. ASSUME NEW q \in Call, NEW j \in Key, q # p \/ j # k
      PROVE  leg'[<<q, j>>] = leg[<<q, j>>]
  <2>1. <<q, j>> \in Leg /\ <<q, j>> # <<p, k>>
    BY <1>4 DEF Leg
  <2> QED
    BY <1>2, <2>1
<1> QED
  BY <1>1, <1>2, <1>3, <1>4

LEMMA LegKeepsOrder ==
    ASSUME IInv, NEW p \in Call, NEW k \in Key, LegStep(p, k) \/ RedisFails(p, k)
    PROVE  AbsentIsZero' /\ RefusedRollsBack' /\ IdleCallsRest'
<1> USE DEF IInv
<1>1. AbsentIsZero'
  <2>1. ttl'[k] = "absent" => count'[k] = 0
    BY DEF AbsentIsZero, LegStep, CheckRateLimit, Increment, Incremented, SetExpiry, RollBack,
           RedisFails, TypeOK, counters
  <2> QED
    BY <2>1, LegFrame DEF AbsentIsZero
<1>2. RefusedRollsBack'
  <2>1. leg'[<<p, k>>].pc = "decr" => ~leg'[<<p, k>>].allowed
    <3>0. /\ <<p, k>> \in Leg
          /\ leg \in [Leg -> [pc: LegPC, allowed: BOOLEAN, fresh: BOOLEAN]]
          /\ leg[<<p, k>>] \in [pc: LegPC, allowed: BOOLEAN, fresh: BOOLEAN]
      BY LegFrame DEF TypeOK
    <3>1. CASE Increment(p, k)
      BY <3>0, <3>1 DEF AfterExpiry, Increment, Incremented
    <3>2. CASE SetExpiry(p, k)
      BY <3>0, <3>2 DEF AfterExpiry, SetExpiry
    <3>3. CASE RollBack(p, k)
      BY <3>0, <3>3 DEF RollBack
    <3>4. CASE CheckRateLimit(p, k)
      BY <3>0, <3>4 DEF CheckRateLimit
    <3>5. CASE RedisFails(p, k)
      BY <3>0, <3>5 DEF RedisFails
    <3> QED
      BY <3>1, <3>2, <3>3, <3>4, <3>5 DEF LegStep
  <2> QED
    BY <2>1, LegFrame DEF RefusedRollsBack
<1>3. IdleCallsRest'
  <2> SUFFICES ASSUME NEW q \in Call, call'[q].pc = "idle", NEW j \in Key
               PROVE  leg'[<<q, j>>].pc = "idle"
    BY DEF IdleCallsRest
  <2>1. call[q].pc = "idle" /\ leg[<<q, j>>].pc = "idle" /\ <<q, j>> \in Leg
    BY LegFrame DEF IdleCallsRest, Leg
  <2> QED
    BY <2>1, LegFrame
<1> QED
  BY <1>1, <1>2, <1>3

\* A counter without an expiry: the leg that made it so is about to set one.
LEMMA LegKeepsExpiry ==
    ASSUME IInv, NEW p \in Call, NEW k \in Key, LegStep(p, k) \/ RedisFails(p, k)
    PROVE  EndlessCounterIsNegative'
<1> USE DEF IInv
<1>1. CASE RedisFails(p, k)
  <2>1. faults' # 0
    BY <1>1, MaxFaultsIsNat DEF RedisFails, Fault, TypeOK
  <2> QED
    BY <2>1 DEF EndlessCounterIsNegative
<1>2. CASE LegStep(p, k)
  <2> SUFFICES ASSUME faults' = 0, NEW j \in Key, ttl'[j] = "none"
               PROVE  count'[j] < 0 \/ \E q \in Call : leg'[<<q, j>>].pc = "pexpire"
    BY DEF EndlessCounterIsNegative, At
  <2>1. faults = 0
    BY <1>2 DEF LegStep, CheckRateLimit, Increment, Incremented, SetExpiry, RollBack
  <2>2. CASE j # k
    <3>1. count[j] < 0 \/ \E q \in Call : leg[<<q, j>>].pc = "pexpire"
      BY <2>1, <2>2, LegFrame DEF EndlessCounterIsNegative, At
    <3>2. \A q \in Call : leg'[<<q, j>>] = leg[<<q, j>>]
      BY <2>2, LegFrame
    <3> QED
      BY <2>2, <3>1, <3>2, LegFrame
  <2>3. CASE j = k
    <3>1. CASE Increment(p, k)
      <4>1. ttl[k] # "set"
        BY <2>3, <3>1 DEF Increment, Incremented, TypeOK
      <4> QED
        BY <2>3, <3>1, <4>1, LegFrame DEF Increment, Incremented, TypeOK
    <3>2. CASE SetExpiry(p, k)
      BY <2>3, <3>2 DEF SetExpiry, TypeOK
    <3>3. CASE RollBack(p, k)
      <4>1. CASE ttl[k] = "absent"
        BY <2>3, <3>3, <4>1 DEF RollBack, TypeOK, AbsentIsZero
      <4>2. CASE ttl[k] = "none"
        <5>1. count[k] < 0 \/ \E q \in Call : leg[<<q, k>>].pc = "pexpire"
          BY <2>1, <4>2 DEF EndlessCounterIsNegative, At
        <5>2. count'[k] = count[k] - 1 /\ leg[<<p, k>>].pc = "decr"
          BY <3>3 DEF RollBack, TypeOK, At
        <5>3. \A q \in Call \ {p} : leg'[<<q, k>>] = leg[<<q, k>>]
          BY LegFrame
        <5>4. CASE count[k] < 0
          <6>1. count[k] \in Int
            BY DEF TypeOK
          <6> QED
            BY <2>3, <5>2, <5>4, <6>1
        <5>5. CASE \E q \in Call : leg[<<q, k>>].pc = "pexpire"
          BY <2>3, <5>2, <5>3, <5>5
        <5> QED
          BY <5>1, <5>4, <5>5
      <4> QED
        BY <2>3, <3>3, <4>1, <4>2 DEF RollBack, TypeOK
    <3>4. CASE CheckRateLimit(p, k)
      <4>1. count[k] < 0 \/ \E q \in Call : leg[<<q, k>>].pc = "pexpire"
        BY <2>1, <2>3, <3>4 DEF EndlessCounterIsNegative, At, CheckRateLimit, counters
      <4>2. count' = count /\ leg[<<p, k>>].pc = "get"
        BY <3>4 DEF CheckRateLimit, At, counters
      <4>3. \A q \in Call \ {p} : leg'[<<q, k>>] = leg[<<q, k>>]
        BY LegFrame
      <4> QED
        BY <2>3, <4>1, <4>2, <4>3
    <3> QED
      BY <1>2, <3>1, <3>2, <3>3, <3>4 DEF LegStep
  <2> QED
    BY <2>2, <2>3
<1> QED
  BY <1>1, <1>2

\* What the step does to the counter of its key, and to the pending increments of it.
LEMMA LegCount ==
    ASSUME IInv, NEW p \in Call, NEW k \in Key, LegStep(p, k) \/ RedisFails(p, k)
    PROVE  /\ Cardinality(Pending(k)') \in Nat
           /\ count'[k] - granted'[k] + strays'[k] - Cardinality(Pending(k)')
                >= count[k] - granted[k] + strays[k] - Cardinality(Pending(k))
           /\ faults' = 0 =>
                count'[k] - granted'[k] + strays'[k] - Cardinality(Pending(k)')
                  = count[k] - granted[k] + strays[k] - Cardinality(Pending(k))
<1> USE DEF IInv
<1>1. /\ <<p, k>> \in Leg
      /\ leg \in [Leg -> [pc: LegPC, allowed: BOOLEAN, fresh: BOOLEAN]]
      /\ leg[<<p, k>>] \in [pc: LegPC, allowed: BOOLEAN, fresh: BOOLEAN]
  BY LegFrame DEF TypeOK
<1>2. /\ count \in [Key -> Int] /\ granted \in [Key -> Nat] /\ strays \in [Key -> Nat]
      /\ count[k] \in Int /\ granted[k] \in Nat /\ strays[k] \in Nat
  BY DEF TypeOK
<1>3. Cardinality(Pending(k)) \in Nat /\ Cardinality(Pending(k)') \in Nat
  <2>1. Pending(k)' \in SUBSET Call
    BY DEF Pending
  <2> QED
    BY <2>1, PendingIsFinite, CallsAreFinite, FS_Subset, FS_CardinalityType
<1>4. Cardinality(Pending(k)') = Cardinality(Pending(k))
        + (IF p \in Pending(k)' /\ p \notin Pending(k) THEN 1
           ELSE IF p \in Pending(k) /\ p \notin Pending(k)' THEN -1 ELSE 0)
  BY LegFrame, PendingMoves
<1>5. CASE CheckRateLimit(p, k)
  <2>1. p \notin Pending(k) /\ p \notin Pending(k)'
    BY <1>1, <1>5 DEF CheckRateLimit, At, Pending
  <2> QED
    BY <1>2, <1>3, <1>4, <1>5, <2>1 DEF CheckRateLimit, counters
<1>6. CASE Increment(p, k)
  <2>1. p \notin Pending(k)
    BY <1>1, <1>6 DEF Increment, Incremented, At, Pending
  <2>2. CASE count[k] + 1 <= Limit[k]
    <3>1. p \notin Pending(k)'
      BY <1>1, <1>6, <2>2 DEF Increment, Incremented, Pending
    <3>2. count'[k] = count[k] + 1 /\ granted'[k] = granted[k] + 1 /\ strays'[k] = strays[k]
      BY <1>2, <1>6, <2>2 DEF Increment, Incremented
    <3> QED
      BY <1>2, <1>3, <1>4, <2>1, <3>1, <3>2
  <2>3. CASE ~(count[k] + 1 <= Limit[k])
    <3>1. p \in Pending(k)'
      BY <1>1, <1>6, <2>3 DEF Increment, Incremented, AfterExpiry, Pending
    <3>2. count'[k] = count[k] + 1 /\ granted'[k] = granted[k] /\ strays'[k] = strays[k]
      BY <1>2, <1>6, <2>3 DEF Increment, Incremented
    <3> QED
      BY <1>2, <1>3, <1>4, <2>1, <3>1, <3>2
  <2> QED
    BY <2>2, <2>3
<1>7. CASE SetExpiry(p, k)
  <2>1. p \in Pending(k)' <=> p \in Pending(k)
    BY <1>1, <1>7 DEF SetExpiry, AfterExpiry, At, Pending
  <2>2. count' = count /\ granted' = granted /\ strays' = strays
    BY <1>7 DEF SetExpiry
  <2> QED
    BY <1>2, <1>3, <1>4, <2>1, <2>2
<1>8. CASE RollBack(p, k)
  <2>1. ~leg[<<p, k>>].allowed /\ leg[<<p, k>>].pc = "decr"
    BY <1>1, <1>8 DEF RollBack, RefusedRollsBack, At
  <2>2. p \notin Pending(k)' /\ (p \in Pending(k) <=> leg[<<p, k>>].fresh)
    BY <1>1, <1>8, <2>1 DEF RollBack, Pending
  <2>3. /\ count'[k] = count[k] - 1
        /\ granted' = granted
        /\ strays'[k] = IF leg[<<p, k>>].fresh THEN strays[k] ELSE strays[k] + 1
    BY <1>2, <1>8 DEF RollBack
  <2>4. CASE leg[<<p, k>>].fresh
    BY <1>2, <1>3, <1>4, <2>2, <2>3, <2>4
  <2>5. CASE ~leg[<<p, k>>].fresh
    BY <1>2, <1>3, <1>4, <2>2, <2>3, <2>5
  <2> QED
    BY <2>4, <2>5
<1>9. CASE RedisFails(p, k)
  <2>1. p \notin Pending(k)'
    BY <1>1, <1>9 DEF RedisFails, Pending
  <2>2. count' = count /\ granted' = granted /\ strays' = strays
    BY <1>9 DEF RedisFails, counters
  <2>3. faults' # 0
    BY <1>9, MaxFaultsIsNat DEF RedisFails, Fault, TypeOK
  <2> QED
    BY <1>2, <1>3, <1>4, <2>1, <2>2, <2>3
<1> QED
  BY <1>5, <1>6, <1>7, <1>8, <1>9 DEF LegStep

\* An increment is granted only while the counter, and so what it covers, is below the limit.
LEMMA LegKeepsGrants ==
    ASSUME IInv, NEW p \in Call, NEW k \in Key, LegStep(p, k) \/ RedisFails(p, k)
    PROVE  granted'[k] <= Limit[k] + strays'[k]
<1> USE DEF IInv
<1>1. /\ count \in [Key -> Int] /\ granted \in [Key -> Nat] /\ strays \in [Key -> Nat]
      /\ count[k] \in Int /\ granted[k] \in Nat /\ strays[k] \in Nat /\ Limit[k] \in Nat
      /\ Cardinality(Pending(k)) \in Nat
  BY PendingIsFinite, LimitIsPositive DEF TypeOK
<1>2. granted[k] <= Limit[k] + strays[k]
  BY DEF GrantsBounded
<1>3. CASE Increment(p, k)
  <2>1. CASE count[k] + 1 <= Limit[k]
    <3>1. count[k] >= granted[k] + Cardinality(Pending(k)) - strays[k]
      BY DEF CountCovers
    <3>2. granted'[k] = granted[k] + 1 /\ strays'[k] = strays[k]
      BY <1>1, <1>3, <2>1 DEF Increment, Incremented
    <3> QED
      BY <1>1, <2>1, <3>1, <3>2
  <2>2. CASE ~(count[k] + 1 <= Limit[k])
    BY <1>1, <1>2, <1>3, <2>2 DEF Increment, Incremented
  <2> QED
    BY <2>1, <2>2
<1>4. CASE RollBack(p, k)
  <2>1. granted' = granted /\ (strays'[k] = strays[k] \/ strays'[k] = strays[k] + 1)
    BY <1>1, <1>4 DEF RollBack
  <2> QED
    BY <1>1, <1>2, <2>1
<1>5. CASE CheckRateLimit(p, k) \/ SetExpiry(p, k) \/ RedisFails(p, k)
  BY <1>2, <1>5 DEF CheckRateLimit, SetExpiry, RedisFails, counters
<1> QED
  BY <1>3, <1>4, <1>5 DEF LegStep

LEMMA LegKeepsCounts ==
    ASSUME IInv, NEW p \in Call, NEW k \in Key, LegStep(p, k) \/ RedisFails(p, k)
    PROVE  CountCovers' /\ CounterIsExact' /\ GrantsBounded'
<1> USE DEF IInv
<1>1. \A j \in Key \ {k} : Pending(j)' = Pending(j)
  BY LegFrame, PendingMoves
<1>2. TypeOK'
  BY LegType
<1>3. faults' = 0 => faults = 0
  BY MaxFaultsIsNat DEF LegStep, CheckRateLimit, Increment, Incremented, SetExpiry, RollBack,
     RedisFails, Fault, TypeOK
<1>4. /\ count[k] \in Int /\ granted[k] \in Nat /\ strays[k] \in Nat
      /\ count'[k] \in Int /\ granted'[k] \in Nat /\ strays'[k] \in Nat
      /\ Cardinality(Pending(k)) \in Nat /\ Cardinality(Pending(k)') \in Nat
  BY <1>2, PendingIsFinite, LegCount DEF TypeOK
<1>5. CountCovers'
  <2>1. count'[k] >= granted'[k] + Cardinality(Pending(k)') - strays'[k]
    BY <1>4, LegCount DEF CountCovers
  <2> QED
    BY <1>1, <2>1, LegFrame DEF CountCovers
<1>6. CounterIsExact'
  <2> SUFFICES ASSUME faults' = 0
               PROVE  \A j \in Key : count'[j] = granted'[j] + Cardinality(Pending(j)') - strays'[j]
    BY DEF CounterIsExact
  <2>1. \A j \in Key : count[j] = granted[j] + Cardinality(Pending(j)) - strays[j]
    BY <1>3 DEF CounterIsExact
  <2>2. count[k] - granted[k] + strays[k] - Cardinality(Pending(k)) = 0
    BY <1>4, <2>1
  <2>3. count'[k] - granted'[k] + strays'[k] - Cardinality(Pending(k)') = 0
    BY <2>2, LegCount
  <2>4. count'[k] = granted'[k] + Cardinality(Pending(k)') - strays'[k]
    BY <1>4, <2>3
  <2>5. ASSUME NEW j \in Key \ {k}
        PROVE  count'[j] = granted'[j] + Cardinality(Pending(j)') - strays'[j]
    BY <1>1, <2>1, LegFrame
  <2> QED
    BY <2>4, <2>5
<1>7. GrantsBounded'
  BY LegFrame, LegKeepsGrants DEF GrantsBounded
<1> QED
  BY <1>5, <1>6, <1>7

-----------------------------------------------------------------------------
(* The other steps: they leave the counters alone, or end their lives.     *)

\* What a step that leaves the counters alone must not do to the legs.
LEMMA CountersKept ==
    ASSUME IInv, UNCHANGED counters, faults' \in Nat, faults' = 0 => faults = 0,
           \A k \in Key : Pending(k)' \subseteq Pending(k),
           faults' = 0 => \A k \in Key : Pending(k)' = Pending(k)
    PROVE  /\ AbsentIsZero' /\ CountCovers' /\ CounterIsExact' /\ GrantsBounded'
<1> USE DEF IInv, counters
<1>1. AbsentIsZero' /\ GrantsBounded'
  BY DEF AbsentIsZero, GrantsBounded
<1>2. CountCovers'
  <2> SUFFICES ASSUME NEW k \in Key
               PROVE  count[k] >= granted[k] + Cardinality(Pending(k)') - strays[k]
    BY DEF CountCovers
  <2>1. count[k] \in Int /\ granted[k] \in Nat /\ strays[k] \in Nat
    BY DEF TypeOK
  <2>2. Cardinality(Pending(k)') \in Nat /\ Cardinality(Pending(k)') <= Cardinality(Pending(k))
    BY PendingShrinks
  <2>3. count[k] >= granted[k] + Cardinality(Pending(k)) - strays[k]
    BY DEF CountCovers
  <2> QED
    BY <2>1, <2>2, <2>3, PendingIsFinite
<1>3. CounterIsExact'
  BY DEF CounterIsExact
<1> QED
  BY <1>1, <1>2, <1>3

\* Begin and Decide give a call new legs in place of ones that are not under way.
LEMMA NewLegs ==
    ASSUME IInv, NEW p \in Call, NEW pc \in {"get", "incr"}, leg' = AllLegs(p, pc),
           \A k \in call'[p].keys : leg[<<p, k>>].pc \in {"idle", "checked"},
           UNCHANGED <<counters, faults>>
    PROVE  /\ AbsentIsZero' /\ RefusedRollsBack' /\ CountCovers' /\ CounterIsExact'
           /\ EndlessCounterIsNegative' /\ GrantsBounded'
<1> USE DEF IInv
<1>1. ASSUME NEW q \in Call, NEW k \in Key
      PROVE  IF q = p /\ k \in call'[p].keys
               THEN leg[<<q, k>>].pc \in {"idle", "checked"} /\ leg'[<<q, k>>].pc = pc
               ELSE leg'[<<q, k>>] = leg[<<q, k>>]
  <2>1. <<q, k>> \in Leg /\ <<q, k>>[1] = q /\ <<q, k>>[2] = k
    BY DEF Leg
  <2> QED
    BY <2>1 DEF AllLegs, IdleLeg
<1>2. \A k \in Key : Pending(k)' = Pending(k)
  BY <1>1 DEF Pending
<1>3. AbsentIsZero' /\ CountCovers' /\ CounterIsExact' /\ GrantsBounded'
  BY <1>2, MaxFaultsIsNat, CountersKept DEF TypeOK
<1>4. RefusedRollsBack'
  <2>1. \A l \in Leg : leg'[l].pc = pc \/ leg'[l] = leg[l]
    BY DEF AllLegs, IdleLeg
  <2> QED
    BY <2>1 DEF RefusedRollsBack
<1>5. EndlessCounterIsNegative'
  BY <1>1 DEF EndlessCounterIsNegative, At, counters
<1> QED
  BY <1>3, <1>4, <1>5

LEMMA BeginStep ==
    ASSUME IInv, NEW p \in Call, NEW kind \in Kind, NEW keys \in SUBSET Key,
           Begin(p, kind, keys)
    PROVE  IInv'
<1> USE DEF IInv
<1>1. TypeOK'
  BY BeginType
<1>2. call'[p].keys = keys /\ \A q \in Call \ {p} : call'[q] = call[q]
  BY DEF Begin, TypeOK
<1>3. \A k \in Key : leg[<<p, k>>].pc = "idle"
  BY DEF Begin, IdleCallsRest
<1>4. /\ AbsentIsZero' /\ RefusedRollsBack' /\ CountCovers' /\ CounterIsExact'
      /\ EndlessCounterIsNegative' /\ GrantsBounded'
  <2>1. leg' = AllLegs(p, "get") /\ UNCHANGED <<counters, faults>>
    BY DEF Begin
  <2> QED
    BY <1>2, <1>3, <2>1, NewLegs
<1>5. IdleCallsRest'
  <2> SUFFICES ASSUME NEW q \in Call, call'[q].pc = "idle", NEW k \in Key
               PROVE  leg'[<<q, k>>].pc = "idle"
    BY DEF IdleCallsRest
  <2>1. q # p /\ call[q].pc = "idle"
    BY <1>2 DEF Begin, TypeOK
  <2>2. leg'[<<q, k>>] = leg[<<q, k>>]
    <3>1. <<q, k>> \in Leg /\ <<q, k>>[1] # p
      BY <2>1 DEF Leg
    <3> QED
      BY <3>1 DEF Begin, AllLegs
  <2> QED
    BY <2>1, <2>2 DEF IdleCallsRest
<1> QED
  BY <1>1, <1>4, <1>5

LEMMA DecideStep ==
    ASSUME IInv, NEW p \in Call, Decide(p)
    PROVE  IInv'
<1> USE DEF IInv
<1>1. TypeOK'
  BY DecideType
<1>2. /\ call'[p].keys = call[p].keys /\ call'[p].pc # "idle"
      /\ \A q \in Call \ {p} : call'[q] = call[q]
  BY DEF Decide, TypeOK
<1>3. \A k \in call[p].keys : leg[<<p, k>>].pc = "checked"
  BY DEF Decide, LegsAt, At
<1>4. leg' = leg \/ leg' = AllLegs(p, "incr")
  BY DEF Decide
<1>5. /\ AbsentIsZero' /\ RefusedRollsBack' /\ CountCovers' /\ CounterIsExact'
      /\ EndlessCounterIsNegative' /\ GrantsBounded'
  <2>1. UNCHANGED <<counters, faults>>
    BY DEF Decide
  <2>2. CASE leg' = leg
    BY <2>1, <2>2 DEF AbsentIsZero, RefusedRollsBack, CountCovers, CounterIsExact, Pending,
       EndlessCounterIsNegative, GrantsBounded, At, counters
  <2>3. CASE leg' = AllLegs(p, "incr")
    BY <1>2, <1>3, <2>1, <2>3, NewLegs
  <2> QED
    BY <1>4, <2>2, <2>3
<1>6. IdleCallsRest'
  <2> SUFFICES ASSUME NEW q \in Call, call'[q].pc = "idle", NEW k \in Key
               PROVE  leg'[<<q, k>>].pc = "idle"
    BY DEF IdleCallsRest
  <2>1. q # p /\ call[q].pc = "idle" /\ leg[<<q, k>>].pc = "idle"
    BY <1>2 DEF IdleCallsRest
  <2>2. leg'[<<q, k>>] = leg[<<q, k>>]
    <3>1. <<q, k>> \in Leg /\ <<q, k>>[1] # p
      BY <2>1 DEF Leg
    <3> QED
      BY <1>4, <3>1 DEF AllLegs
  <2> QED
    BY <2>1, <2>2
<1> QED
  BY <1>1, <1>5, <1>6

LEMMA ProceedStep ==
    ASSUME IInv, NEW p \in Call, Proceed(p)
    PROVE  IInv'
<1> USE DEF IInv
<1>1. TypeOK'
  BY OtherType
<1>2. UNCHANGED <<counters, leg, faults>>
  BY DEF Proceed
<1>3. /\ AbsentIsZero' /\ RefusedRollsBack' /\ CountCovers' /\ CounterIsExact'
      /\ EndlessCounterIsNegative' /\ GrantsBounded'
  BY <1>2 DEF AbsentIsZero, RefusedRollsBack, CountCovers, CounterIsExact, Pending,
     EndlessCounterIsNegative, GrantsBounded, At, counters
<1>4. IdleCallsRest'
  BY <1>2 DEF IdleCallsRest, Proceed, TypeOK
<1> QED
  BY <1>1, <1>3, <1>4

LEMMA ExpireStep ==
    ASSUME IInv, NEW k \in Key, Expire(k)
    PROVE  IInv'
<1> USE DEF IInv
<1>1. TypeOK'
  BY OtherType
<1>2. /\ count'[k] = 0 /\ granted'[k] = 0 /\ strays'[k] = 0 /\ ttl'[k] = "absent"
      /\ \A j \in Key \ {k} : /\ count'[j] = count[j] /\ granted'[j] = granted[j]
                                /\ strays'[j] = strays[j] /\ ttl'[j] = ttl[j]
      /\ call' = call /\ faults' = faults
  BY DEF Expire, TypeOK
<1>3. ASSUME NEW q \in Call, NEW j \in Key
      PROVE  /\ leg'[<<q, j>>].pc = leg[<<q, j>>].pc
             /\ leg'[<<q, j>>].allowed = leg[<<q, j>>].allowed
             /\ IF j = k THEN ~leg'[<<q, j>>].fresh ELSE leg'[<<q, j>>] = leg[<<q, j>>]
  <2>1. <<q, j>> \in Leg /\ <<q, j>>[2] = j
    BY DEF Leg
  <2>2. leg[<<q, j>>] \in [pc: LegPC, allowed: BOOLEAN, fresh: BOOLEAN]
    BY <2>1 DEF TypeOK
  <2> QED
    BY <2>1, <2>2 DEF Expire
<1>4. Pending(k)' = {} /\ \A j \in Key \ {k} : Pending(j)' = Pending(j)
  BY <1>3 DEF Pending
<1>5. Cardinality(Pending(k)') = 0
  BY <1>4, FS_EmptySet
<1>6. AbsentIsZero'
  BY <1>2 DEF AbsentIsZero
<1>7. RefusedRollsBack'
  <2> SUFFICES ASSUME NEW l \in Leg, leg'[l].pc = "decr" PROVE ~leg'[l].allowed
    BY DEF RefusedRollsBack
  <2>1. PICK q \in Call, j \in Key : l = <<q, j>>
    BY DEF Leg
  <2> QED
    BY <1>3, <2>1 DEF RefusedRollsBack
<1>8. IdleCallsRest'
  BY <1>2, <1>3 DEF IdleCallsRest
<1>9. CountCovers' /\ CounterIsExact'
  BY <1>2, <1>4, <1>5 DEF CountCovers, CounterIsExact
<1>10. EndlessCounterIsNegative'
  BY <1>2, <1>3 DEF EndlessCounterIsNegative, At
<1>11. GrantsBounded'
  BY <1>2, LimitIsPositive DEF GrantsBounded
<1> QED
  BY <1>1, <1>6, <1>7, <1>8, <1>9, <1>10, <1>11

LEMMA CrashStep ==
    ASSUME IInv, Crash
    PROVE  IInv'
<1> USE DEF IInv
<1>1. TypeOK'
  BY OtherType
<1>2. faults' \in Nat /\ faults' # 0 /\ UNCHANGED counters
  BY MaxFaultsIsNat DEF Crash, Fault, TypeOK
<1>3. \A l \in Leg : leg'[l] = leg[l] \/ leg'[l] = IdleLeg
  BY DEF Crash
<1>4. \A k \in Key : Pending(k)' \subseteq Pending(k)
  <2>1. \A q \in Call, k \in Key : leg'[<<q, k>>] = leg[<<q, k>>] \/ leg'[<<q, k>>] = IdleLeg
    BY <1>3 DEF Leg
  <2> QED
    BY <2>1 DEF Pending, IdleLeg
<1>5. AbsentIsZero' /\ CountCovers' /\ CounterIsExact' /\ GrantsBounded'
  BY <1>2, <1>4, CountersKept
<1>6. RefusedRollsBack'
  BY <1>3 DEF RefusedRollsBack, IdleLeg
<1>7. IdleCallsRest'
  <2> SUFFICES ASSUME NEW q \in Call, call'[q].pc = "idle", NEW k \in Key
               PROVE  leg'[<<q, k>>].pc = "idle"
    BY DEF IdleCallsRest
  <2>1. call[q].pc = "idle" /\ <<q, k>> \in Leg
    BY DEF Crash, Running, TypeOK, Leg
  <2> QED
    BY <1>3, <2>1 DEF IdleCallsRest, IdleLeg
<1>8. EndlessCounterIsNegative'
  BY <1>2 DEF EndlessCounterIsNegative
<1> QED
  BY <1>1, <1>5, <1>6, <1>7, <1>8

-----------------------------------------------------------------------------
(* The theorems.                                                           *)

LEMMA InvInit == Init => IInv
<1> SUFFICES ASSUME Init PROVE IInv
  OBVIOUS
<1>1. TypeOK
  BY TypeInit
<1>2. \A l \in Leg : leg[l].pc = "idle" /\ ~leg[l].allowed
  BY DEF Init, IdleLeg
<1>3. \A k \in Key : Pending(k) = {}
  BY <1>2 DEF Pending, Leg
<1>4. \A k \in Key : Cardinality(Pending(k)) = 0
  BY <1>3, FS_EmptySet
<1>5. AbsentIsZero /\ RefusedRollsBack
  BY <1>2 DEF Init, AbsentIsZero, RefusedRollsBack
<1>6. IdleCallsRest
  BY <1>2 DEF IdleCallsRest, Leg
<1>7. CountCovers /\ CounterIsExact /\ GrantsBounded
  BY <1>4, LimitIsPositive DEF Init, CountCovers, CounterIsExact, GrantsBounded
<1>8. EndlessCounterIsNegative
  BY DEF Init, EndlessCounterIsNegative
<1> QED
  BY <1>1, <1>5, <1>6, <1>7, <1>8 DEF IInv

LEMMA InvStep == IInv /\ [Next]_vars => IInv'
<1> SUFFICES ASSUME IInv, [Next]_vars PROVE IInv'
  OBVIOUS
<1>1. ASSUME NEW p \in Call, NEW keys \in ServiceKeys, Begin(p, "service", keys) PROVE IInv'
  BY <1>1, RouteIsKeys, BeginStep DEF Kind
<1>2. ASSUME NEW p \in Call, NEW keys \in WorkerKeys, Begin(p, "worker", keys) PROVE IInv'
  BY <1>2, RouteIsKeys, BeginStep DEF Kind
<1>3. ASSUME NEW p \in Call, NEW k \in Key, LegStep(p, k) \/ RedisFails(p, k) PROVE IInv'
  BY <1>3, LegType, LegKeepsOrder, LegKeepsExpiry, LegKeepsCounts DEF IInv
<1>4. CASE UNCHANGED vars
  BY <1>4 DEF IInv, TypeOK, AbsentIsZero, RefusedRollsBack, IdleCallsRest, CountCovers,
     CounterIsExact, Pending, EndlessCounterIsNegative, At, GrantsBounded, vars
<1> QED
  BY <1>1, <1>2, <1>3, <1>4, DecideStep, ProceedStep, ExpireStep, CrashStep DEF Next, CallStep

\* Between the commands of the calls the counters, their lives and the legs stay in the
\* relation that the three properties below need.
THEOREM Invariance == Spec => []IInv
BY InvInit, InvStep, PTL DEF Spec

\* Without a fault a counter is what was granted in its life and is not undone yet, for
\* any number of calls (incrementAndCheck).
THEOREM CountersAreExact == Spec => []CounterIsExact
<1>1. IInv => CounterIsExact
  BY DEF IInv
<1> QED
  BY <1>1, Invariance, PTL

\* Whatever crashes or fails, the grants of a life stay within the limit but for the
\* increments of an earlier life undone in it (incrementAndCheck).
THEOREM GrantsAreBounded == Spec => []GrantsBounded
<1>1. IInv => GrantsBounded
  BY DEF IInv
<1> QED
  BY <1>1, Invariance, PTL

\* Without a fault no counter at or above zero is left without an expiry, but for the
\* moment before it is set (incrementAndCheck's PEXPIRE).
THEOREM NoCounterIsEndless == Spec => []EndlessCounterIsNegative
<1>1. IInv => EndlessCounterIsNegative
  BY DEF IInv
<1> QED
  BY <1>1, Invariance, PTL
=============================================================================
