------------------------- MODULE RateLimiterProofs -------------------------
(***************************************************************************)
(* What the token bucket guarantees for every rate, burst and bound.       *)
(*                                                                         *)
(* WindowBound looks back at pairs of past calls.  What makes it inductive *)
(* is the account of every window that is still open: the calls since call *)
(* i and what the bucket holds now are paid for by a full bucket, the time *)
(* since call i and the Hairs (Spent).  Its dual (Banked) says that the    *)
(* bucket is full or has spent since some call all it could have gained.   *)
(***************************************************************************)
EXTENDS RateLimiter, TLAPS

\* The account of every window of grants g that is open when the bucket holds
\* `bag` at time t; the windows that are closed; a window spent to the last tick.
Accounts(g, c, m, bag, t) ==
    \A i \in DOMAIN g :
      (Len(g) - i + 1) * c + bag <= m + (t - g[i]) + (Len(g) - i) * Hair
Windows(g, c, m) ==
    \A i, j \in DOMAIN g :
      i <= j => (j - i + 1) * c <= m + (g[j] - g[i]) + (j - i) * Hair
SpentFrom(g, c, cap, bag, t) ==
    \E i \in DOMAIN g : bag + (Len(g) - i + 1) * c >= cap + (t - g[i])

Spent == cost > 0 => Accounts(grants, cost, Most(capacity, cost), tokens, last)

Banked ==
    cost > 0 /\ capacity >= cost =>
      tokens = capacity \/ SpentFrom(grants, cost, capacity, tokens, last)

Clock ==
    /\ last <= now
    /\ pc = "asleep" => /\ cost > 0 /\ tokens < cost
                        /\ due = last + (cost - tokens)

IInv == TypeOK /\ Clock /\ Spent /\ Banked /\ WindowBound

-----------------------------------------------------------------------------
(* Arithmetic: the provers know no products.                               *)

\* One more call costs one more token.
LEMMA OneMore ==
    ASSUME NEW n \in Nat, NEW c \in Nat
    PROVE  (n + 1) * c = n * c + c /\ n * c \in Nat
  OBVIOUS

\* A window's account after one more call.
LEMMA AccountGoesOn ==
    ASSUME NEW d \in Nat, NEW c \in Nat, NEW h \in Nat, NEW m \in Nat,
           NEW b \in Nat, NEW b2 \in Nat, NEW g \in Nat, NEW l \in Nat, NEW t \in Nat,
           (d + 1) * c + b <= m + (l - g) + d * h,
           b2 + c <= b + (t - l) + h
    PROVE  (d + 1 + 1) * c + b2 <= m + (t - g) + (d + 1) * h
  <1> DEFINE x == (d + 1) * c
             y == d * h
  <1>1. (d + 1 + 1) * c = x + c /\ x \in Nat
    <2>1. d + 1 \in Nat
      OBVIOUS
    <2> QED  BY <2>1, OneMore
  <1>2. (d + 1) * h = y + h /\ y \in Nat
    BY OneMore
  <1>3. x + b <= m + (l - g) + y
    OBVIOUS
  <1> HIDE DEF x, y
  <1>4. x + c + b2 <= m + (t - g) + (y + h)
    BY <1>1, <1>2, <1>3
  <1> QED  BY <1>1, <1>2, <1>4

\* A window whose account is kept is within the bound.
LEMMA AccountCloses ==
    ASSUME NEW d \in Nat, NEW c \in Nat, NEW h \in Nat, NEW m \in Nat,
           NEW b \in Nat, NEW g \in Nat, NEW t \in Nat,
           (d + 1) * c + b <= m + (t - g) + d * h
    PROVE  (d + 1) * c <= m + (t - g) + d * h
  <1> DEFINE x == (d + 1) * c
             y == d * h
  <1>1. x \in Nat /\ y \in Nat
    <2>1. d + 1 \in Nat
      OBVIOUS
    <2> QED  BY <2>1, OneMore
  <1>2. x + b <= m + (t - g) + y
    OBVIOUS
  <1> HIDE DEF x, y
  <1>3. x <= m + (t - g) + y
    BY <1>1, <1>2
  <1> QED  BY <1>3 DEF x, y

\* A window that starts with a call from a bucket of b ticks.
LEMMA AccountOpens ==
    ASSUME NEW c \in Nat, NEW h \in Nat, NEW m \in Nat, NEW b \in Nat,
           NEW t \in Nat, b + c <= m
    PROVE  (0 + 1) * c + b <= m + (t - t) + 0 * h
  <1>1. (0 + 1) * c = c /\ 0 * h = 0 /\ t - t = 0
    OBVIOUS
  <1> QED  BY <1>1

\* A window's account after a refill.
LEMMA AccountRefills ==
    ASSUME NEW d \in Nat, NEW c \in Nat, NEW h \in Nat, NEW m \in Nat,
           NEW b \in Nat, NEW b2 \in Nat, NEW g \in Nat, NEW l \in Nat, NEW t \in Nat,
           (d + 1) * c + b <= m + (l - g) + d * h,
           b2 <= b + (t - l)
    PROVE  (d + 1) * c + b2 <= m + (t - g) + d * h
  <1> DEFINE x == (d + 1) * c
             y == d * h
  <1>1. x \in Nat /\ y \in Nat
    <2>1. d + 1 \in Nat
      OBVIOUS
    <2> QED  BY <2>1, OneMore
  <1>2. x + b <= m + (l - g) + y
    OBVIOUS
  <1> HIDE DEF x, y
  <1>3. x + b2 <= m + (t - g) + y
    BY <1>1, <1>2
  <1> QED  BY <1>3 DEF x, y

\* For windows spent to the last tick: nothing is lost by a call, or a refill.
LEMMA SpentGoesOn ==
    ASSUME NEW d \in Nat, NEW c \in Nat, NEW cap \in Nat,
           NEW b \in Nat, NEW b2 \in Nat, NEW g \in Nat, NEW l \in Nat, NEW t \in Nat,
           b + (d + 1) * c >= cap + (l - g)
    PROVE  /\ b2 + c >= b + (t - l) => b2 + (d + 1 + 1) * c >= cap + (t - g)
           /\ b2 >= b + (t - l) => b2 + (d + 1) * c >= cap + (t - g)
  <1> DEFINE x == (d + 1) * c
  <1>1. (d + 1 + 1) * c = x + c /\ x \in Nat
    <2>1. d + 1 \in Nat
      OBVIOUS
    <2> QED  BY <2>1, OneMore
  <1>2. b + x >= cap + (l - g)
    OBVIOUS
  <1> HIDE DEF x
  <1>3. /\ b2 + c >= b + (t - l) => b2 + (x + c) >= cap + (t - g)
        /\ b2 >= b + (t - l) => b2 + x >= cap + (t - g)
    BY <1>1, <1>2
  <1> QED  BY <1>1, <1>3 DEF x

-----------------------------------------------------------------------------
\* What a list of grants with one more contains.
LEMMA AppendFacts ==
    ASSUME NEW g \in Seq(Nat), NEW t \in Nat
    PROVE  /\ Len(g) \in Nat /\ DOMAIN g = 1..Len(g)
           /\ Len(Append(g, t)) = Len(g) + 1
           /\ DOMAIN Append(g, t) = 1..(Len(g) + 1)
           /\ \A i \in 1..Len(g) : Append(g, t)[i] = g[i] /\ g[i] \in Nat
           /\ Append(g, t)[Len(g) + 1] = t
  OBVIOUS

\* A call granted at time t, when the bucket and the time since the last refill
\* pay for it but for a Hair, keeps the accounts of all windows.
LEMMA GrantKeepsAccounts ==
    ASSUME NEW g \in Seq(Nat), NEW c \in Nat, NEW m \in Nat, Hair \in Nat,
           NEW b \in Nat, NEW b2 \in Nat, NEW l \in Nat, NEW t \in Nat,
           Accounts(g, c, m, b, l),
           b2 + c <= b + (t - l) + Hair,
           b2 + c <= m
    PROVE  Accounts(Append(g, t), c, m, b2, t)
  <1> DEFINE n == Len(g)
             e == Append(g, t)
  <1>1. SUFFICES ASSUME NEW i \in 1..(n + 1)
                 PROVE  (n + 1 - i + 1) * c + b2 <= m + (t - e[i]) + (n + 1 - i) * Hair
    BY AppendFacts DEF Accounts
  <1>2. CASE i = n + 1
    <2>1. n + 1 - i = 0 /\ e[i] = t
      BY <1>2, AppendFacts
    <2> QED  BY <2>1, AccountOpens
  <1>3. CASE i \in 1..n
    <2> DEFINE d == n - i
    <2>1. d \in Nat /\ n + 1 - i = d + 1 /\ e[i] = g[i] /\ g[i] \in Nat
      BY <1>3, AppendFacts
    <2>2. (d + 1) * c + b <= m + (l - g[i]) + d * Hair
      BY <1>3, AppendFacts DEF Accounts
    <2> HIDE DEF d
    <2>3. (d + 1 + 1) * c + b2 <= m + (t - g[i]) + (d + 1) * Hair
      BY <2>1, <2>2, AccountGoesOn
    <2> QED  BY <2>1, <2>3
  <1> QED  BY <1>2, <1>3, AppendFacts

\* ... and the windows that end with the call keep the bound.
LEMMA GrantKeepsWindows ==
    ASSUME NEW g \in Seq(Nat), NEW c \in Nat, NEW m \in Nat, Hair \in Nat,
           NEW b2 \in Nat, NEW t \in Nat,
           Windows(g, c, m), Accounts(Append(g, t), c, m, b2, t)
    PROVE  Windows(Append(g, t), c, m)
  <1> DEFINE n == Len(g)
             e == Append(g, t)
  <1>1. SUFFICES ASSUME NEW i \in 1..(n + 1), NEW j \in 1..(n + 1), i <= j
                 PROVE  (j - i + 1) * c <= m + (e[j] - e[i]) + (j - i) * Hair
    BY AppendFacts DEF Windows
  <1>2. CASE j = n + 1
    <2> DEFINE d == j - i
    <2>1. d \in Nat /\ e[j] = t /\ e[i] \in Nat
      BY <1>1, <1>2, AppendFacts
    <2>2. (d + 1) * c + b2 <= m + (t - e[i]) + d * Hair
      BY <1>2, AppendFacts DEF Accounts
    <2> HIDE DEF d, e
    <2>3. (d + 1) * c <= m + (t - e[i]) + d * Hair
      BY <2>1, <2>2, AccountCloses
    <2> QED  BY <2>1, <2>3 DEF d
  <1>3. CASE j \in 1..n
    <2>1. i \in 1..n /\ e[i] = g[i] /\ e[j] = g[j]
      BY <1>1, <1>3, AppendFacts
    <2>2. (j - i + 1) * c <= m + (g[j] - g[i]) + (j - i) * Hair
      BY <1>1, <1>3, <2>1, AppendFacts DEF Windows
    <2> QED  BY <2>1, <2>2
  <1> QED  BY <1>2, <1>3, AppendFacts

\* A refill to b2 keeps them.
LEMMA RefillKeepsAccounts ==
    ASSUME NEW g \in Seq(Nat), NEW c \in Nat, NEW m \in Nat, Hair \in Nat,
           NEW b \in Nat, NEW b2 \in Nat, NEW l \in Nat, NEW t \in Nat,
           Accounts(g, c, m, b, l), b2 <= b + (t - l)
    PROVE  Accounts(g, c, m, b2, t)
  <1> SUFFICES ASSUME NEW i \in DOMAIN g
               PROVE  (Len(g) - i + 1) * c + b2 <= m + (t - g[i]) + (Len(g) - i) * Hair
    BY DEF Accounts
  <1> DEFINE d == Len(g) - i
  <1>1. d \in Nat /\ g[i] \in Nat
    OBVIOUS
  <1>2. (d + 1) * c + b <= m + (l - g[i]) + d * Hair
    BY DEF Accounts
  <1> HIDE DEF d
  <1>3. (d + 1) * c + b2 <= m + (t - g[i]) + d * Hair
    BY <1>1, <1>2, AccountRefills
  <1> QED  BY <1>3 DEF d

\* A call that found a whole token, or slept until there was one, and a refill
\* that did not fill the bucket leave a window spent to the last tick.
LEMMA GrantSpends ==
    ASSUME NEW g \in Seq(Nat), NEW c \in Nat, NEW cap \in Nat,
           NEW b \in Nat, NEW b2 \in Nat, NEW l \in Nat, NEW t \in Nat,
           \/ b2 + c >= cap
           \/ SpentFrom(g, c, cap, b, l) /\ b2 + c >= b + (t - l)
    PROVE  SpentFrom(Append(g, t), c, cap, b2, t)
  <1> DEFINE n == Len(g)
             e == Append(g, t)
  <1>1. ASSUME NEW i \in 1..(n + 1), b2 + (n + 1 - i + 1) * c >= cap + (t - e[i])
        PROVE  SpentFrom(e, c, cap, b2, t)
    <2>1. Len(e) = n + 1 /\ DOMAIN e = 1..(n + 1)
      BY AppendFacts
    <2>2. b2 + (Len(e) - i + 1) * c >= cap + (t - e[i])
      BY <1>1, <2>1
    <2> HIDE DEF e, n
    <2> QED  BY <2>1, <2>2, Zenon DEF SpentFrom
  <1>2. CASE b2 + c >= cap
    <2>1. n + 1 \in 1..(n + 1) /\ n + 1 - (n + 1) = 0 /\ e[n + 1] = t
      BY AppendFacts
    <2>2. (0 + 1) * c = c /\ t - t = 0
      OBVIOUS
    <2>3. b2 + (0 + 1) * c >= cap + (t - t)
      BY <1>2, <2>2
    <2> QED  BY <2>1, <2>3, <1>1
  <1>3. CASE SpentFrom(g, c, cap, b, l) /\ b2 + c >= b + (t - l)
    <2>1. PICK i \in 1..n : b + (n - i + 1) * c >= cap + (l - g[i])
      BY <1>3, AppendFacts DEF SpentFrom
    <2> DEFINE d == n - i
    <2>2. d \in Nat /\ n + 1 - i = d + 1 /\ e[i] = g[i] /\ g[i] \in Nat
          /\ i \in 1..(n + 1)
      BY AppendFacts
    <2>3. b + (d + 1) * c >= cap + (l - g[i])
      BY <2>1
    <2> HIDE DEF d
    <2>4. b2 + (d + 1 + 1) * c >= cap + (t - g[i])
      BY <1>3, <2>2, <2>3, SpentGoesOn
    <2> QED  BY <2>2, <2>4, <1>1
  <1> QED  BY <1>2, <1>3

\* A refill that does not fill the bucket keeps a spent window spent.
LEMMA RefillSpends ==
    ASSUME NEW g \in Seq(Nat), NEW c \in Nat, NEW cap \in Nat,
           NEW b \in Nat, NEW b2 \in Nat, NEW l \in Nat, NEW t \in Nat,
           SpentFrom(g, c, cap, b, l), b2 >= b + (t - l)
    PROVE  SpentFrom(g, c, cap, b2, t)
  <1>1. PICK i \in DOMAIN g : b + (Len(g) - i + 1) * c >= cap + (l - g[i])
    BY DEF SpentFrom
  <1> DEFINE d == Len(g) - i
  <1>2. d \in Nat /\ g[i] \in Nat
    OBVIOUS
  <1>3. b + (d + 1) * c >= cap + (l - g[i])
    BY <1>1
  <1> HIDE DEF d
  <1>4. b2 + (d + 1) * c >= cap + (t - g[i])
    BY <1>2, <1>3, SpentGoesOn
  <1> QED  BY <1>4 DEF SpentFrom, d

-----------------------------------------------------------------------------
\* A call granted at time t from a bucket of b ticks.
LEMMA GrantStep ==
    ASSUME IInv, cost > 0, cost' = cost, capacity' = capacity,
           NEW t \in Nat, last <= t, last' = t, grants' = Append(grants, t),
           tokens' \in Nat,
           tokens' + cost <= tokens + (t - last) + Hair,
           tokens' + cost <= Most(capacity, cost),
           \/ tokens' + cost >= tokens + (t - last)
           \/ tokens' + cost >= capacity
    PROVE  Spent' /\ WindowBound' /\ Banked'
  <1> DEFINE m == Most(capacity, cost)
             b2 == tokens'
  <1>1. /\ cost \in Nat /\ capacity \in Nat /\ Hair \in Nat /\ m \in Nat
        /\ tokens \in Nat /\ last \in Nat /\ grants \in Seq(Nat)
    BY RateLimiterAssumption DEF IInv, TypeOK, Most
  <1>2. Accounts(grants, cost, m, tokens, last) /\ Windows(grants, cost, m)
    BY DEF IInv, Spent, WindowBound, Windows
  <1>3. Accounts(Append(grants, t), cost, m, b2, t)
    <2> HIDE DEF m, b2
    <2>1. b2 \in Nat /\ b2 + cost <= tokens + (t - last) + Hair /\ b2 + cost <= m
      BY DEF b2, m
    <2> QED  BY <1>1, <1>2, <2>1, GrantKeepsAccounts
  <1>4. Windows(Append(grants, t), cost, m)
    <2>1. b2 \in Nat
      OBVIOUS
    <2> HIDE DEF m, b2
    <2> QED  BY <1>1, <1>2, <1>3, <2>1, GrantKeepsWindows
  <1>5. Spent' /\ WindowBound'
    BY <1>3, <1>4 DEF Spent, WindowBound, Windows, Most
  <1>6. ASSUME capacity >= cost
        PROVE  SpentFrom(Append(grants, t), cost, capacity, b2, t)
    <2>1. \/ b2 + cost >= capacity
          \/ /\ b2 + cost >= tokens + (t - last)
             /\ tokens = capacity \/ SpentFrom(grants, cost, capacity, tokens, last)
      BY <1>6 DEF IInv, Banked
    <2>2. b2 \in Nat
      OBVIOUS
    <2> HIDE DEF b2
    <2>3. CASE b2 + cost >= capacity
      BY <2>3, <2>2, <1>1, GrantSpends
    <2>4. CASE /\ b2 + cost >= tokens + (t - last)
               /\ SpentFrom(grants, cost, capacity, tokens, last)
      BY <2>4, <2>2, <1>1, GrantSpends
    <2>5. CASE b2 + cost >= tokens + (t - last) /\ tokens = capacity
      <3>1. t - last \in Nat
        BY <1>1
      <3>2. b2 + cost >= capacity
        BY <3>1, <2>5, <2>2, <1>1
      <3> QED  BY <3>2, <2>3
    <2> QED  BY <2>1, <2>3, <2>4, <2>5
  <1>7. Banked'
    BY <1>6 DEF Banked
  <1> QED  BY <1>5, <1>7

\* A full bucket and no calls.
LEMMA InitInv == Init => IInv
  <1> SUFFICES ASSUME Init PROVE IInv
    OBVIOUS
  <1> USE RateLimiterAssumption DEF Init
  <1>1. TypeOK
    BY DEF TypeOK
  <1>2. grants = <<>> /\ DOMAIN grants = {}
    OBVIOUS
  <1> QED  BY <1>1, <1>2 DEF IInv, Clock, Spent, Banked, Accounts, WindowBound

\* What the bucket holds at time t after a refill.
LEMMA RefillFacts ==
    ASSUME TypeOK, NEW t \in Nat, last <= t
    PROVE  /\ Refill(t) \in 0..capacity
           /\ Refill(t) <= tokens + (t - last)
           /\ tokens <= Refill(t)
           /\ Refill(t) = capacity \/ Refill(t) = tokens + (t - last)
  BY RateLimiterAssumption DEF TypeOK, Refill, Least

\* Every step of the bucket keeps the accounts.
LEMMA StepInv == IInv /\ [Next]_vars => IInv'
  <1> SUFFICES ASSUME IInv, [Next]_vars PROVE IInv'
    OBVIOUS
  <1>0. /\ TypeOK /\ Clock /\ Spent /\ Banked /\ WindowBound
        /\ cost \in Nat /\ capacity \in Nat /\ Hair \in Nat /\ Lag \in Nat
        /\ now \in Nat /\ last \in Nat /\ due \in Nat /\ last <= now
        /\ tokens \in Nat /\ tokens <= capacity /\ grants \in Seq(Nat)
    BY RateLimiterAssumption DEF IInv, TypeOK, Clock
  <1>1. CASE Idle
    <2>1. TypeOK' /\ Clock'
      BY <1>0, <1>1 DEF Idle, limits, TypeOK, Clock
    <2>2. Spent' /\ Banked' /\ WindowBound'
      BY <1>0, <1>1 DEF Idle, limits, Spent, Banked, WindowBound
    <2> QED  BY <2>1, <2>2 DEF IInv
  <1>2. CASE AcquireUnlimited
    <2>1. TypeOK' /\ Clock'
      BY <1>0, <1>2 DEF AcquireUnlimited, Called, limits, TypeOK, Clock
    <2>2. ~(cost' > 0)
      BY <1>0, <1>2 DEF AcquireUnlimited, limits
    <2>3. Spent' /\ Banked' /\ WindowBound'
      BY <2>2 DEF Spent, Banked, WindowBound
    <2> QED  BY <2>1, <2>3 DEF IInv
  <1>3. CASE AcquireNow
    <2> DEFINE r == Refill(now)
    <2>1. /\ cost > 0 /\ r >= cost /\ tokens' = r - cost
          /\ last' = now /\ now' = now /\ grants' = Append(grants, now)
          /\ cost' = cost /\ capacity' = capacity /\ due' = due /\ pc' = pc
          /\ total_wait' = total_wait /\ pc = "idle"
      BY <1>3 DEF AcquireNow, Called, limits
    <2>2. /\ r \in 0..capacity /\ r <= tokens + (now - last)
          /\ r = capacity \/ r = tokens + (now - last)
      BY <1>0, RefillFacts
    <2> HIDE DEF r
    <2>3. tokens' \in 0..capacity /\ tokens' \in Nat
      BY <2>1, <2>2, <1>0
    <2>4. tokens' + cost <= tokens + (now - last) + Hair
      BY <2>1, <2>2, <1>0
    <2>5. tokens' + cost <= Most(capacity, cost)
      BY <2>1, <2>2, <1>0 DEF Most
    <2>6. tokens' + cost >= tokens + (now - last) \/ tokens' + cost >= capacity
      BY <2>1, <2>2, <1>0
    <2>7. TypeOK' /\ Clock'
      BY <2>1, <2>3, <1>0 DEF TypeOK, Clock
    <2>8. Spent' /\ WindowBound' /\ Banked'
      BY <2>1, <2>3, <2>4, <2>5, <2>6, <1>0, GrantStep
    <2> QED  BY <2>7, <2>8 DEF IInv
  <1>4. CASE AcquireSleeps
    <2> DEFINE r == Refill(now)
    <2>1. /\ cost > 0 /\ r < cost /\ tokens' = r
          /\ last' = now /\ now' = now /\ grants' = grants
          /\ cost' = cost /\ capacity' = capacity
          /\ due' = now + (cost - r) /\ pc' = "asleep"
          /\ total_wait' = total_wait + (cost - r)
      BY <1>4 DEF AcquireSleeps, Called, limits
    <2>2. /\ r \in 0..capacity /\ r <= tokens + (now - last)
          /\ r = capacity \/ r = tokens + (now - last)
      BY <1>0, RefillFacts
    <2> HIDE DEF r
    <2>3. TypeOK' /\ Clock'
      BY <2>1, <2>2, <1>0 DEF TypeOK, Clock
    <2>4. Spent'
      <3>1. Accounts(grants, cost, Most(capacity, cost), tokens, last)
        BY <2>1, <1>0 DEF Spent
      <3>2. Most(capacity, cost) \in Nat /\ r \in Nat
        BY <2>2, <1>0 DEF Most
      <3>3. Accounts(grants, cost, Most(capacity, cost), r, now)
        BY <3>1, <3>2, <2>2, <1>0, RefillKeepsAccounts
      <3> QED  BY <3>3, <2>1 DEF Spent, Most
    <2>5. Banked'
      <3>1. CASE ~(capacity >= cost) \/ r = capacity
        BY <3>1, <2>1 DEF Banked
      <3>2. CASE capacity >= cost /\ r # capacity
        <4>1. tokens # capacity /\ r = tokens + (now - last) /\ r \in Nat
          BY <3>2, <2>2, <1>0
        <4>2. SpentFrom(grants, cost, capacity, tokens, last)
          BY <4>1, <3>2, <2>1, <1>0 DEF Banked
        <4>3. r >= tokens + (now - last)
          BY <4>1
        <4>4. SpentFrom(grants, cost, capacity, r, now)
          BY <4>1, <4>2, <4>3, <1>0, RefillSpends
        <4> QED  BY <4>4, <2>1 DEF Banked
      <3> QED  BY <3>1, <3>2
    <2>6. WindowBound'
      BY <2>1, <1>0 DEF WindowBound, Most
    <2> QED  BY <2>3, <2>4, <2>5, <2>6 DEF IInv
  <1>5. CASE AcquireWakes
    <2> DEFINE u == now'
               r == Refill(u)
    <2>1. /\ pc = "asleep" /\ u \in now..(due + Lag) /\ u + Hair >= due
          /\ tokens' = Most(r, cost) - cost
          /\ last' = u /\ grants' = Append(grants, u) /\ pc' = "idle"
          /\ cost' = cost /\ capacity' = capacity /\ due' = due
          /\ total_wait' = total_wait
      BY <1>5 DEF AcquireWakes, limits
    <2>2. u \in Nat /\ last <= u /\ now <= u
      BY <2>1, <1>0
    <2>3. /\ r \in 0..capacity /\ r <= tokens + (u - last)
          /\ r = capacity \/ r = tokens + (u - last)
      BY <2>2, <1>0, RefillFacts
    <2>4. cost > 0 /\ tokens < cost /\ due = last + (cost - tokens)
      BY <2>1, <1>0 DEF Clock
    <2>5. now' = u
      OBVIOUS
    <2> HIDE DEF r, u
    <2>6. /\ tokens' \in 0..capacity /\ tokens' \in Nat
          /\ tokens' + cost <= tokens + (u - last) + Hair
          /\ tokens' + cost <= Most(capacity, cost)
          /\ tokens' + cost >= tokens + (u - last) \/ tokens' + cost >= capacity
      <3>1. CASE r >= cost
        <4>1. tokens' = r - cost /\ Most(capacity, cost) = capacity
          BY <3>1, <2>1, <2>3, <1>0 DEF Most
        <4> QED  BY <4>1, <3>1, <2>2, <2>3, <1>0
      <3>2. CASE ~(r >= cost)
        <4>1. tokens' = 0 /\ Most(capacity, cost) >= cost
          BY <3>2, <2>1, <2>3, <1>0 DEF Most
        <4> QED  BY <4>1, <3>2, <2>1, <2>2, <2>3, <2>4, <1>0
      <3> QED  BY <3>1, <3>2
    <2>7. TypeOK' /\ Clock'
      BY <2>1, <2>2, <2>5, <2>6, <1>0 DEF TypeOK, Clock
    <2>8. Spent' /\ WindowBound' /\ Banked'
      BY <2>1, <2>2, <2>4, <2>6, <1>0, GrantStep
    <2> QED  BY <2>7, <2>8 DEF IInv
  <1>6. CASE Finished \/ UNCHANGED vars
    <2>1. TypeOK' /\ Clock' /\ WindowBound'
      BY <1>0, <1>6 DEF Finished, vars, limits, TypeOK, Clock, WindowBound
    <2>2. Spent' /\ Banked'
      BY <1>0, <1>6 DEF Finished, vars, limits, Spent, Banked
    <2> QED  BY <2>1, <2>2 DEF IInv
  <1> QED
    BY <1>1, <1>2, <1>3, <1>4, <1>5, <1>6 DEF Next

\* The accounts are kept in every reachable state.
THEOREM Invariance == Spec => []IInv
  BY InitInv, StepInv, PTL DEF Spec

-----------------------------------------------------------------------------
\* The type invariant holds for every rate and burst.
THEOREM TypeCorrect == Spec => []TypeOK
  <1>1. IInv => TypeOK
    BY DEF IInv
  <1> QED  BY <1>1, Invariance, PTL

\* In every window the calls are worth at most a full bucket and the time the
\* window lasts, up to the rounding of the sleeps.
THEOREM Throttled == Spec => []WindowBound
  <1>1. IInv => WindowBound
    BY DEF IInv
  <1> QED  BY <1>1, Invariance, PTL

\* A call that has to sleep finds a window that its token would overdraw.
LEMMA SleepsWhenSpent ==
    ASSUME IInv, AcquireSleeps
    PROVE  \/ capacity < cost
           \/ \E i \in DOMAIN grants :
                (Len(grants) - i + 2) * cost > capacity + (now - grants[i])
  <1> DEFINE r == Refill(now)
  <1>1. /\ cost > 0 /\ r < cost
        /\ cost \in Nat /\ capacity \in Nat /\ now \in Nat /\ last \in Nat
        /\ last <= now /\ tokens \in Nat /\ grants \in Seq(Nat)
    BY RateLimiterAssumption DEF IInv, TypeOK, Clock, AcquireSleeps
  <1>2. /\ r \in 0..capacity /\ tokens <= r
        /\ r = capacity \/ r = tokens + (now - last)
    BY <1>1, RefillFacts DEF IInv
  <1> HIDE DEF r
  <1>3. SUFFICES ASSUME capacity >= cost
                 PROVE  \E i \in DOMAIN grants :
                          (Len(grants) - i + 2) * cost > capacity + (now - grants[i])
    BY <1>1
  <1>4. r >= tokens + (now - last) /\ tokens # capacity /\ r \in Nat
    BY <1>1, <1>2, <1>3
  <1>5. SpentFrom(grants, cost, capacity, tokens, last)
    BY <1>1, <1>3, <1>4 DEF IInv, Banked
  <1>6. SpentFrom(grants, cost, capacity, r, now)
    BY <1>1, <1>4, <1>5, RefillSpends
  <1>7. PICK i \in DOMAIN grants :
          r + (Len(grants) - i + 1) * cost >= capacity + (now - grants[i])
    BY <1>6 DEF SpentFrom
  <1> DEFINE d == Len(grants) - i + 1
             x == d * cost
  <1>8. d \in Nat /\ grants[i] \in Nat /\ Len(grants) - i + 2 = d + 1
    BY <1>1
  <1> HIDE DEF d
  <1>9. x \in Nat /\ (d + 1) * cost = x + cost
    BY <1>1, <1>8, OneMore
  <1>10. r + x >= capacity + (now - grants[i])
    BY <1>7 DEF d
  <1> HIDE DEF x
  <1>11. x + cost > capacity + (now - grants[i])
    BY <1>1, <1>4, <1>8, <1>9, <1>10
  <1> QED  BY <1>8, <1>9, <1>11

\* No call waits for longer than the throttle demands.
THEOREM WaitsJustified == Spec => WaitsOnlyWhenSpent
  <1>1. IInv /\ [Next]_vars =>
          [AcquireSleeps =>
             \/ capacity < cost
             \/ \E i \in DOMAIN grants :
                  (Len(grants) - i + 2) * cost > capacity + (now - grants[i])]_vars
    BY SleepsWhenSpent
  <1> QED  BY <1>1, Invariance, PTL DEF Spec, WaitsOnlyWhenSpent
=============================================================================
