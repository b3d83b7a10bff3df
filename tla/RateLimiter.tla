---------------------------- MODULE RateLimiter ----------------------------
(***************************************************************************)
(* apps/agent/orchestrator/ratelimit.py: the token bucket in front of the  *)
(* perception port.  Time passes in ticks; a token is worth Cost ticks of  *)
(* refill (60 / per_minute seconds), and the bucket is counted in ticks,   *)
(* so that the float arithmetic of the code is exact here.  What rounding  *)
(* can do is the parameter Hair: a sleep may end up to Hair ticks before   *)
(* the bucket holds a whole token.                                         *)
(*                                                                         *)
(* The caller is the loop: it makes one call at a time, whenever it likes. *)
(***************************************************************************)
EXTENDS Naturals, Sequences

CONSTANTS
    Costs,      \* ticks of refill per token; 0 for per_minute = 0, unlimited
    Capacities, \* burst tokens, in ticks
    Hair,       \* how much too early a sleep may end
    Lag,        \* how much too late a sleep may end
    MaxCalls,   \* bound: calls in a run
    Horizon     \* bound: the last tick at which the caller may still idle

ASSUME RateLimiterAssumption ==
    /\ Costs \subseteq Nat /\ Capacities \subseteq Nat
    /\ Hair \in Nat /\ Lag \in Nat
    /\ MaxCalls \in Nat /\ Horizon \in Nat

VARIABLES
    cost, capacity, \* what __init__ makes of per_minute and burst
    now,            \* the clock
    tokens,         \* _tokens, in ticks
    last,           \* _last
    due,            \* when the sleep of a waiting call ends
    pc,             \* "idle", or "asleep" inside acquire
    total_wait,
    grants          \* when each call got its token; acquisitions is its length

limits == <<cost, capacity>>
vars == <<limits, now, tokens, last, due, pc, total_wait, grants>>

Least(x, y) == IF x <= y THEN x ELSE y
Most(x, y) == IF x >= y THEN x ELSE y

Init ==
    /\ cost \in Costs /\ capacity \in Capacities
    /\ now = 0 /\ last = 0 /\ due = 0
    /\ tokens = capacity
    /\ pc = "idle"
    /\ total_wait = 0
    /\ grants = <<>>

\* Mutants of Refill: idle time banks without limit; idle time is not banked.
RefillUncapped(t) == tokens + (t - last)
RefillNothing(t) == Least(capacity, tokens)

\* _refill at time t: what the bucket holds then.
Refill(t) == Least(capacity, tokens + (t - last))

\* The loop is elsewhere, in the crawler.
Idle ==
    /\ pc = "idle"
    /\ now < Horizon
    /\ now' = now + 1
    /\ UNCHANGED <<limits, tokens, last, due, pc, total_wait, grants>>

Called ==
    /\ pc = "idle"
    /\ Len(grants) < MaxCalls

AcquireUnlimited ==
    /\ Called
    /\ cost = 0
    /\ grants' = Append(grants, now)
    /\ UNCHANGED <<limits, now, tokens, last, due, pc, total_wait>>

AcquireNow ==
    /\ Called
    /\ cost > 0
    /\ Refill(now) >= cost
    /\ tokens' = Refill(now) - cost
    /\ last' = now
    /\ grants' = Append(grants, now)
    /\ UNCHANGED <<limits, now, due, pc, total_wait>>

\* Not a whole token: sleep for what is missing.
AcquireSleeps ==
    /\ Called
    /\ cost > 0
    /\ Refill(now) < cost
    /\ tokens' = Refill(now)
    /\ last' = now
    /\ due' = now + (cost - Refill(now))
    /\ total_wait' = total_wait + (cost - Refill(now))
    /\ pc' = "asleep"
    /\ UNCHANGED <<limits, now, grants>>

\* Mutant of AcquireWakes: sleep again unless the token is whole.
AcquireWakesAgain ==
    /\ pc = "asleep"
    /\ now' \in {t \in now..(due + Lag) : t + Hair >= due}
    /\ last' = now'
    /\ IF Refill(now') >= cost
       THEN /\ tokens' = Refill(now') - cost
            /\ grants' = Append(grants, now') /\ pc' = "idle"
       ELSE tokens' = Refill(now') /\ UNCHANGED <<grants, pc>>
    /\ UNCHANGED <<limits, due, total_wait>>

\* The wait is paid: refill, and spend a token even if it is not quite whole.
AcquireWakes ==
    /\ pc = "asleep"
    /\ now' \in {t \in now..(due + Lag) : t + Hair >= due}
    /\ tokens' = Most(Refill(now'), cost) - cost
    /\ last' = now'
    /\ grants' = Append(grants, now')
    /\ pc' = "idle"
    /\ UNCHANGED <<limits, due, total_wait>>

Finished ==
    /\ pc = "idle"
    /\ now >= Horizon /\ Len(grants) = MaxCalls
    /\ UNCHANGED vars

Next ==
    \/ Idle
    \/ AcquireUnlimited \/ AcquireNow \/ AcquireSleeps \/ AcquireWakes
    \/ Finished

\* A sleep ends: time passes for the process whatever it does.
Spec == Init /\ [][Next]_vars /\ WF_vars(AcquireWakes)

-----------------------------------------------------------------------------
TypeOK ==
    /\ cost \in Costs /\ capacity \in Capacities
    /\ now \in Nat /\ last \in Nat /\ due \in Nat
    /\ tokens \in 0..capacity
    /\ pc \in {"idle", "asleep"}
    /\ total_wait \in Nat
    /\ grants \in Seq(Nat)

\* The throttle: in every window that starts and ends with a call, the calls
\* are worth at most a full bucket and the time the window lasts, but for the
\* Hair each call after the first may have been let through early.  With the
\* default burst this is at most 2 * per_minute calls in any minute.
WindowBound ==
    cost > 0 =>
      \A i, j \in DOMAIN grants :
        i <= j => (j - i + 1) * cost
                    <= Most(capacity, cost) + (grants[j] - grants[i]) + (j - i) * Hair

\* The dual: a call is made to wait only when granting it now would break the
\* bound for some window that ends with it.  Idle time is credit, and none is
\* lost to the sleeps in between.
WaitsOnlyWhenSpent ==
    [][AcquireSleeps =>
         \/ capacity < cost
         \/ \E i \in DOMAIN grants :
              (Len(grants) - i + 2) * cost > capacity + (now - grants[i])]_vars

\* Every call gets its token, and no call waits for more than one: acquire
\* never sleeps twice.
CallsAnswered == pc = "asleep" ~> pc = "idle"
=============================================================================
