------------------------------ MODULE RateLimit ------------------------------
(***************************************************************************)
(* The counters RateLimitService keeps in Redis and the two kinds of calls *)
(* that consume them: a message worker, which consumes the quota of its    *)
(* page, and MessagesService.sendMessage, which consumes the quotas of the *)
(* page, the workspace and the contact at once (consumeMessageQuota).      *)
(*                                                                         *)
(* A counter is a Redis key with a time to live: it starts when the first  *)
(* INCRBY creates it and ends when it expires.  Each Redis command is one  *)
(* step; the commands of one call on different keys run concurrently       *)
(* (Promise.all).  The time left, used only for texts, is left out.        *)
(***************************************************************************)
EXTENDS Integers, FiniteSets

CONSTANTS
    Key,           \* the counters: a limit type and an identifier
    Limit,         \* [Key -> Nat]: LIMITS[type].limit
    ServiceKeys,   \* the sets {page, workspace, contact} a service call may consume
    WorkerKeys,    \* the sets {page} a worker may consume
    Call,          \* every call ever made
    MaxFaults      \* bound: crashes and Redis errors in a behaviour

ASSUME LimitIsPositive == Limit \in [Key -> Nat \ {0}]
ASSUME RoutesAreKeys == ServiceKeys \cup WorkerKeys \subseteq SUBSET Key
ASSUME CallsAreFinite == IsFiniteSet(Call)
ASSUME MaxFaultsIsNat == MaxFaults \in Nat

VARIABLES
    count,         \* the integer a key holds, 0 when there is no key
    ttl,           \* there is no key, it never expires, or it will expire
    call,          \* where each call is, who made it, the keys it consumes
    leg,           \* where a call is with one of its keys, and what it was answered
    granted,       \* increments of the key's present life found within the limit
    strays,        \* increments of an earlier life undone in the present one
    faults

vars == <<count, ttl, call, leg, granted, strays, faults>>
counters == <<count, ttl, granted, strays>>

Kind == {"worker", "service"}
CallPC == {"idle", "check", "consume", "sent", "refused", "lost"}
LegPC == {"idle", "get", "checked", "incr", "pexpire", "decr", "done"}
Leg == Call \X Key

\* fresh: the key has not expired since this leg's increment.
IdleLeg == [pc |-> "idle", allowed |-> FALSE, fresh |-> FALSE]

TypeOK ==
    /\ count \in [Key -> Int]
    /\ ttl \in [Key -> {"absent", "none", "set"}]
    /\ call \in [Call -> [kind: Kind, pc: CallPC, keys: SUBSET Key]]
    /\ leg \in [Leg -> [pc: LegPC, allowed: BOOLEAN, fresh: BOOLEAN]]
    /\ granted \in [Key -> Nat]
    /\ strays \in [Key -> Nat]
    /\ faults \in 0..MaxFaults

Init ==
    /\ count = [k \in Key |-> 0]
    /\ ttl = [k \in Key |-> "absent"]
    /\ call = [p \in Call |-> [kind |-> "worker", pc |-> "idle", keys |-> {}]]
    /\ leg = [l \in Leg |-> IdleLeg]
    /\ granted = [k \in Key |-> 0]
    /\ strays = [k \in Key |-> 0]
    /\ faults = 0

-----------------------------------------------------------------------------
At(p, k, pc) == leg[<<p, k>>].pc = pc
LegsAt(p, pc) == \A k \in call[p].keys : At(p, k, pc)
AllLegs(p, pc) == [l \in Leg |-> IF l[1] = p /\ l[2] \in call'[p].keys
                                   THEN [IdleLeg EXCEPT !.pc = pc] ELSE leg[l]]

\* A call starts with a check of each key.
Begin(p, kind, keys) ==
    /\ call[p].pc = "idle"
    /\ call' = [call EXCEPT ![p] = [kind |-> kind, pc |-> "check", keys |-> keys]]
    /\ leg' = AllLegs(p, "get")
    /\ UNCHANGED <<counters, faults>>

CheckRateLimit(p, k) ==
    /\ At(p, k, "get")
    /\ leg' = [leg EXCEPT ![<<p, k>>].pc = "checked",
                          ![<<p, k>>].allowed = count[k] < Limit[k]]
    /\ UNCHANGED <<counters, call, faults>>

\* consumeMessageQuota refuses when a check did.  The workers test the status object
\* itself, which is never false: they go on whatever it says.
Decide(p) ==
    /\ call[p].pc = "check"
    /\ LegsAt(p, "checked")
    /\ IF call[p].kind = "service" /\ \E k \in call[p].keys : ~leg[<<p, k>>].allowed
         THEN call' = [call EXCEPT ![p].pc = "refused"] /\ UNCHANGED leg
         ELSE call' = [call EXCEPT ![p].pc = "consume"] /\ leg' = AllLegs(p, "incr")
    /\ UNCHANGED <<counters, faults>>

\* What incrementAndCheck does once the expiry is dealt with.
AfterExpiry(allowed) == IF allowed THEN "done" ELSE "decr"

\* What an increment leaves behind, given its answer and whether it must set the expiry.
Incremented(p, k, allowed, starts) ==
    /\ At(p, k, "incr")
    /\ count' = [count EXCEPT ![k] = @ + 1]
    /\ ttl' = [ttl EXCEPT ![k] = IF @ = "absent" THEN "none" ELSE @]
    /\ leg' = [leg EXCEPT ![<<p, k>>] =
                  [pc |-> IF starts THEN "pexpire" ELSE AfterExpiry(allowed),
                   allowed |-> allowed, fresh |-> TRUE]]
    /\ granted' = [granted EXCEPT ![k] = IF allowed THEN @ + 1 ELSE @]
    /\ UNCHANGED <<call, strays, faults>>

\* Mutants: only the call that creates the key sets the expiry; the count before the
\* increment is compared.
IncrementCreates(p, k) == Incremented(p, k, count[k] + 1 <= Limit[k], ttl[k] = "absent")
IncrementLoose(p, k) == Incremented(p, k, count[k] <= Limit[k], ttl[k] # "set")

\* MULTI INCRBY TTL EXEC: the reply of TTL is -1 when the key has no expiry.
Increment(p, k) == Incremented(p, k, count[k] + 1 <= Limit[k], ttl[k] # "set")

\* Mutant: the expiry is not set.
SetNoExpiry(p, k) ==
    /\ At(p, k, "pexpire")
    /\ leg' = [leg EXCEPT ![<<p, k>>].pc = AfterExpiry(leg[<<p, k>>].allowed)]
    /\ UNCHANGED <<counters, call, faults>>

\* PEXPIRE of a key that is gone does nothing.
SetExpiry(p, k) ==
    /\ At(p, k, "pexpire")
    /\ ttl' = [ttl EXCEPT ![k] = IF @ = "absent" THEN @ ELSE "set"]
    /\ leg' = [leg EXCEPT ![<<p, k>>].pc = AfterExpiry(leg[<<p, k>>].allowed)]
    /\ UNCHANGED <<count, granted, strays, call, faults>>

\* Mutant: the refused increment is kept.
KeepIncrement(p, k) ==
    /\ At(p, k, "decr")
    /\ leg' = [leg EXCEPT ![<<p, k>>].pc = "done"]
    /\ UNCHANGED <<counters, call, faults>>

\* DECRBY of a key that is gone creates one, at -1 and without an expiry.
RollBack(p, k) ==
    /\ At(p, k, "decr")
    /\ count' = [count EXCEPT ![k] = @ - 1]
    /\ ttl' = [ttl EXCEPT ![k] = IF @ = "absent" THEN "none" ELSE @]
    /\ strays' = [strays EXCEPT ![k] = IF leg[<<p, k>>].fresh THEN @ ELSE @ + 1]
    /\ leg' = [leg EXCEPT ![<<p, k>>].pc = "done"]
    /\ UNCHANGED <<granted, call, faults>>

\* A worker drops the answer; consumeMessageQuota returns the three answers in a
\* result that says allowed.  Either way the message goes out.
Proceed(p) ==
    /\ call[p].pc = "consume"
    /\ LegsAt(p, "done")
    /\ call' = [call EXCEPT ![p].pc = "sent"]
    /\ UNCHANGED <<counters, leg, faults>>

Expire(k) ==
    /\ ttl[k] = "set"
    /\ ttl' = [ttl EXCEPT ![k] = "absent"]
    /\ count' = [count EXCEPT ![k] = 0]
    /\ granted' = [granted EXCEPT ![k] = 0]
    /\ strays' = [strays EXCEPT ![k] = 0]
    /\ leg' = [l \in Leg |-> IF l[2] = k THEN [leg[l] EXCEPT !.fresh = FALSE] ELSE leg[l]]
    /\ UNCHANGED <<call, faults>>

-----------------------------------------------------------------------------
Fault == faults < MaxFaults /\ faults' = faults + 1

\* A Redis error: both operations fail open.
RedisFails(p, k) ==
    /\ leg[<<p, k>>].pc \in {"get", "incr", "pexpire", "decr"}
    /\ Fault
    /\ leg' = [leg EXCEPT ![<<p, k>>].allowed = TRUE,
                          ![<<p, k>>].pc = IF @ = "get" THEN "checked" ELSE "done"]
    /\ UNCHANGED <<counters, call>>

Running(p) == call[p].pc \in {"check", "consume"}

\* The process that makes the calls dies; what it wrote to Redis stays.
Crash ==
    /\ Fault
    /\ call' = [p \in Call |-> IF Running(p) THEN [call[p] EXCEPT !.pc = "lost"]
                                             ELSE call[p]]
    /\ leg' = [l \in Leg |-> IF Running(l[1]) THEN IdleLeg ELSE leg[l]]
    /\ UNCHANGED counters

-----------------------------------------------------------------------------
LegStep(p, k) ==
    \/ CheckRateLimit(p, k)
    \/ Increment(p, k)
    \/ SetExpiry(p, k)
    \/ RollBack(p, k)

CallStep(p) ==
    \/ Decide(p)
    \/ Proceed(p)
    \/ \E k \in Key : LegStep(p, k)

Next ==
    \/ \E p \in Call :
          \/ \E keys \in ServiceKeys : Begin(p, "service", keys)
          \/ \E keys \in WorkerKeys : Begin(p, "worker", keys)
          \/ CallStep(p)
          \/ \E k \in Key : RedisFails(p, k)
    \/ \E k \in Key : Expire(k)
    \/ Crash

Spec == Init /\ [][Next]_vars

\* A call that runs goes on, and a key with a time to live expires.
Fairness ==
    /\ \A p \in Call : WF_vars(CallStep(p))
    /\ \A k \in Key : WF_vars(Expire(k))

FairSpec == Spec /\ Fairness

-----------------------------------------------------------------------------
(* Safety.                                                                 *)

\* The increments in k's present life that are over the limit and not yet undone.
Pending(k) == {p \in Call : /\ leg[<<p, k>>].pc \in {"pexpire", "decr"}
                            /\ ~leg[<<p, k>>].allowed /\ leg[<<p, k>>].fresh}

\* Without a fault a counter is exactly what was granted in its present life, plus the
\* refused increments about to be undone, less the undone ones of an earlier life
\* (incrementAndCheck's INCRBY and DECRBY are two commands; the key may expire between).
CounterIsExact ==
    faults = 0 => \A k \in Key :
        count[k] = granted[k] + Cardinality(Pending(k)) - strays[k]

\* Whatever fails, incrementAndCheck finds an increment within the limit at most Limit
\* times in a life of the counter, and once more for each increment of an earlier life
\* undone in it.  (An answer given because Redis failed is no such finding.)
GrantsBounded == \A k \in Key : granted[k] <= Limit[k] + strays[k]

\* Without a fault, a counter that has no expiry gets one from a call that is on its
\* way, or is below zero: no page is kept out by a counter that never ends.
EndlessCounterIsNegative ==
    faults = 0 => \A k \in Key :
        ttl[k] = "none" => count[k] < 0 \/ \E p \in Call : At(p, k, "pexpire")

-----------------------------------------------------------------------------
(* Liveness, under FairSpec.                                               *)

\* A used-up quota comes back, unless a fault took the expiry of its counter away.
QuotaComesBack ==
    \A k \in Key : count[k] >= Limit[k] ~> (count[k] < Limit[k] \/ faults > 0)

=============================================================================
