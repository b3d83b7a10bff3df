------------------------- MODULE ExplorationProofs -------------------------
(***************************************************************************)
(* What the operators of Crawler and Exploration return, for every         *)
(* application and configuration.                                          *)
(***************************************************************************)
EXTENDS Exploration, RecursionProofs

-----------------------------------------------------------------------------
(* The crawler.                                                            *)

Places == Pages \cup {NoPage}

\* An app that loads and an action lead from a page of the app to one, or nowhere.
LEMMA DestType ==
    ASSUME NEW app, IsApp(app), NEW p, NEW action
    PROVE  /\ Dest(app, p, action) \in DOMAIN app \cup {NoPage}
           /\ Dest(app, p, action) # NoPage => p \in DOMAIN app
  BY DEF Dest, Open

\* The seed opens to a page of the application, or not at all.
LEMMA OpenType ==
    ASSUME NEW app, NEW url
    PROVE  Open(app, url) \in DOMAIN app \cup {NoPage}
  BY DEF Open

\* enumerate_actions returns a list of actions.
LEMMA EnumerateType ==
    ASSUME NEW app, IsApp(app), NEW p
    PROVE  /\ Enumerate(app, p) \in Seq(Actions)
           /\ p \in DOMAIN app => DOMAIN Enumerate(app, p) = DOMAIN app[p]
  <1>1. CASE p \in DOMAIN app
    <2>1. app[p] \in Seq(Link)
      BY <1>1 DEF IsApp
    <2> DEFINE s == app[p]
    <2>2. /\ Len(s) \in Nat /\ DOMAIN s = 1..Len(s)
          /\ \A i \in 1..Len(s) : s[i] \in Link
      BY <2>1
    <2>3. \A x \in Link : x.action \in Actions
      BY DEF Link
    <2>4. Enumerate(app, p) = [i \in 1..Len(s) |-> s[i].action]
      BY <1>1, <2>2 DEF Enumerate
    <2> HIDE DEF s
    <2>5. Enumerate(app, p) \in Seq(Actions)
      BY <2>2, <2>3, <2>4
    <2> QED  BY <2>2, <2>4, <2>5 DEF s
  <1>2. CASE p \notin DOMAIN app
    BY <1>2 DEF Enumerate
  <1> QED  BY <1>1, <1>2

\* It lists the controls of the page, one by one.
LEMMA EnumerateControls ==
    ASSUME NEW app, IsApp(app), NEW p \in DOMAIN app
    PROVE  /\ app[p] \in Seq(Link) /\ Len(Enumerate(app, p)) = Len(app[p])
           /\ Enumerate(app, p) = [i \in 1..Len(app[p]) |-> app[p][i].action]
  <1>1. app[p] \in Seq(Link)
    BY DEF IsApp
  <1>2. Enumerate(app, p) = [i \in 1..Len(app[p]) |-> app[p][i].action]
    BY <1>1 DEF Enumerate
  <1>3. Len(app[p]) \in Nat
    BY <1>1
  <1>4. Len(Enumerate(app, p)) = Len(app[p])
    <2> HIDE <1>1
    <2> QED  BY <1>2, <1>3
  <1> QED  BY <1>1, <1>2, <1>4

\* The replay is the sequence of calls it says it is.
LEMMA WalkDef ==
    ASSUME NEW app, IsApp(app), NEW seed, NEW path \in Seq(Actions)
    PROVE  LET w == Walk(app, seed, path)
           IN  w = [i \in 0..Len(path) |->
                      IF i = 0 THEN Open(app, seed)
                      ELSE LET here == w[i - 1]
                           IN  IF here = NoPage THEN NoPage
                               ELSE Dest(app, here, path[i])]
  <1> DEFINE V == DOMAIN app \cup {NoPage}
             n == Len(path)
             Step(here, i) == IF here = NoPage THEN NoPage ELSE Dest(app, here, path[i])
             F == [x \in V \X (1..n) |-> Step(x[1], x[2])]
             Is(w) == w = [i \in 0..n |-> IF i = 0 THEN Open(app, seed)
                                          ELSE Step(w[i - 1], i)]
  <1>1. n \in Nat
    OBVIOUS
  <1>2. Open(app, seed) \in V
    BY OpenType
  <1>3. F \in [V \X (1..n) -> V]
    BY DestType
  <1>4. PICK f \in [0..n -> V] :
          /\ f[0] = Open(app, seed)
          /\ \A i \in 1..n : f[i] = F[<<f[i - 1], i>>]
    <2> DEFINE a == Open(app, seed)
    <2>1. a \in V
      BY <1>2
    <2> HIDE DEF F, V, n, Is, Step, a
    <2>2. Recursion(V, n, a, F)
      BY <1>1, <1>3, <2>1, RecursionExists
    <2> QED  BY <2>2 DEF a, Recursion
  <1>5. \A i \in 1..n : f[i] = Step(f[i - 1], i)
    <2> SUFFICES ASSUME NEW i \in 1..n PROVE f[i] = Step(f[i - 1], i)
      OBVIOUS
    <2>1. i - 1 \in 0..n /\ f[i - 1] \in V
      BY <1>1, <1>4
    <2>2. F[<<f[i - 1], i>>] = Step(f[i - 1], i)
      BY <2>1
    <2> QED  BY <1>4, <2>2
  <1>6. Is(f)
    <2> HIDE DEF F, Step, V
    <2> QED  BY <1>1, <1>4, <1>5
  <1>7. Walk(app, seed, path) = CHOOSE w : Is(w)
    BY DEF Walk
  <1> HIDE DEF Is
  <1>8. Is(Walk(app, seed, path))
    BY <1>6, <1>7
  <1> QED  BY <1>8 DEF Is

\* Every call of a replay lands on a page of the application, or nowhere.
LEMMA WalkType ==
    ASSUME NEW app, IsApp(app), NEW seed, NEW path \in Seq(Actions),
           NEW i \in 0..Len(path)
    PROVE  Walk(app, seed, path)[i] \in DOMAIN app \cup {NoPage}
  <1> DEFINE w == Walk(app, seed, path)
  <1>1. w = [j \in 0..Len(path) |->
               IF j = 0 THEN Open(app, seed)
               ELSE IF w[j - 1] = NoPage THEN NoPage
                    ELSE Dest(app, w[j - 1], path[j])]
    BY WalkDef
  <1> HIDE DEF w
  <1>2. w[i] = IF i = 0 THEN Open(app, seed)
               ELSE IF w[i - 1] = NoPage THEN NoPage
                    ELSE Dest(app, w[i - 1], path[i])
    BY <1>1
  <1>3. w[i] \in DOMAIN app \cup {NoPage}
    BY <1>2, OpenType, DestType
  <1> QED  BY <1>3 DEF w

-----------------------------------------------------------------------------
(* The frontier.                                                           *)

FreshAt(queue, known, sid, actions, i) ==
    /\ <<sid, actions[i]>> \notin PairsOf(queue) \cup known
    /\ \A j \in 1..(i - 1) : actions[j] # actions[i]
EntryAt(sid, actions, d, path, i) ==
    [from |-> sid, action |-> actions[i], depth |-> d, path |-> path]

\* q is what the queue is after each pass of the loop.
Passes(queue, known, sid, actions, d, path, q) ==
    /\ q[0] = queue
    /\ \A i \in 1..Len(actions) :
         q[i] = q[i - 1] \o (IF FreshAt(queue, known, sid, actions, i)
                            THEN <<EntryAt(sid, actions, d, path, i)>> ELSE <<>>)

\* What the first i actions of a list may make of a queue: its entries come
\* first, in their places; the entries after them are of state sid, their pairs
\* are new and differ; and the pair of each of the i actions is somewhere.
Grown(queue, known, sid, actions, d, path, i, r) ==
    /\ r \in Seq(Pending)
    /\ Len(queue) <= Len(r) /\ Len(r) <= Len(queue) + i
    /\ \A k \in 1..Len(queue) : r[k] = queue[k]
    /\ \A k \in (Len(queue) + 1)..Len(r) :
         /\ r[k].from = sid /\ r[k].depth = d /\ r[k].path = path
         /\ PairOf(r[k]) \notin PairsOf(queue) \cup known
         /\ \E j \in 1..i : r[k].action = actions[j]
    /\ \A k, m \in (Len(queue) + 1)..Len(r) : PairOf(r[k]) = PairOf(r[m]) => k = m
    /\ \A j \in 1..i : <<sid, actions[j]>> \in PairsOf(r) \cup known

\* What a list with one more element contains.
LEMMA AppendOne ==
    ASSUME NEW T, NEW s \in Seq(T), NEW e \in T
    PROVE  /\ s \o <<>> = s
           /\ s \o <<e>> \in Seq(T)
           /\ Len(s) \in Nat /\ DOMAIN s = 1..Len(s)
           /\ Len(s \o <<e>>) = Len(s) + 1
           /\ DOMAIN (s \o <<e>>) = 1..(Len(s) + 1)
           /\ \A k \in 1..Len(s) : (s \o <<e>>)[k] = s[k]
           /\ (s \o <<e>>)[Len(s) + 1] = e
  OBVIOUS

\* Before the first action of a page nothing has been enqueued.
LEMMA GrownStart ==
    ASSUME NEW queue \in Seq(Pending), NEW known, NEW sid, NEW actions, NEW d, NEW path
    PROVE  Grown(queue, known, sid, actions, d, path, 0, queue)
  BY DEF Grown

\* One action of the page: enqueued if its pair is fresh, passed over if not.
LEMMA GrownStep ==
    ASSUME NEW queue \in Seq(Pending), NEW known, NEW sid \in Pages,
           NEW actions \in Seq(Actions), NEW d \in Nat, NEW path \in Seq(Actions),
           NEW i \in 1..Len(actions), NEW r,
           Grown(queue, known, sid, actions, d, path, i - 1, r)
    PROVE  LET r2 == r \o (IF FreshAt(queue, known, sid, actions, i)
                           THEN <<EntryAt(sid, actions, d, path, i)>> ELSE <<>>)
           IN  Grown(queue, known, sid, actions, d, path, i, r2)
  <1> DEFINE n == Len(queue)
             e == EntryAt(sid, actions, d, path, i)
             r2 == r \o (IF FreshAt(queue, known, sid, actions, i)
                         THEN <<e>> ELSE <<>>)
  <1>1. /\ n \in Nat /\ i \in Nat /\ i - 1 \in Nat /\ i - 1 < i
        /\ r \in Seq(Pending) /\ n <= Len(r) /\ Len(r) <= n + (i - 1)
        /\ Len(r) \in Nat
        /\ \A k \in 1..n : r[k] = queue[k]
        /\ \A k \in (n + 1)..Len(r) :
             /\ r[k].from = sid /\ r[k].depth = d /\ r[k].path = path
             /\ PairOf(r[k]) \notin PairsOf(queue) \cup known
             /\ \E j \in 1..(i - 1) : r[k].action = actions[j]
        /\ \A k, m \in (n + 1)..Len(r) : PairOf(r[k]) = PairOf(r[m]) => k = m
        /\ \A j \in 1..(i - 1) : <<sid, actions[j]>> \in PairsOf(r) \cup known
    BY DEF Grown
  <1>2. /\ e \in Pending /\ PairOf(e) = <<sid, actions[i]>>
        /\ e.from = sid /\ e.depth = d /\ e.path = path /\ e.action = actions[i]
    BY DEF EntryAt, Pending, PairOf
  <1>3. PairsOf(queue) \subseteq PairsOf(r)
    <2> SUFFICES ASSUME NEW k \in 1..n PROVE PairOf(queue[k]) \in PairsOf(r)
      BY DEF PairsOf
    <2>1. k \in DOMAIN r /\ r[k] = queue[k]
      BY <1>1
    <2> QED  BY <2>1 DEF PairsOf
  <1>4. CASE FreshAt(queue, known, sid, actions, i)
    <2>1. /\ <<sid, actions[i]>> \notin PairsOf(queue) \cup known
          /\ \A j \in 1..(i - 1) : actions[j] # actions[i]
          /\ r2 = r \o <<e>>
      BY <1>4 DEF FreshAt
    <2>2. /\ r2 \in Seq(Pending) /\ Len(r2) = Len(r) + 1
          /\ DOMAIN r2 = 1..(Len(r) + 1) /\ DOMAIN r = 1..Len(r)
          /\ \A k \in 1..Len(r) : r2[k] = r[k]
          /\ r2[Len(r) + 1] = e
      BY <1>1, <1>2, <2>1, AppendOne
    <2> HIDE DEF e, r2
    <2>3. n <= Len(r2) /\ Len(r2) <= n + i
      BY <1>1, <2>2
    <2>4. \A k \in 1..n : r2[k] = queue[k]
      BY <1>1, <2>2
    <2>5. ASSUME NEW k \in (n + 1)..Len(r2)
          PROVE  /\ r2[k].from = sid /\ r2[k].depth = d /\ r2[k].path = path
                 /\ PairOf(r2[k]) \notin PairsOf(queue) \cup known
                 /\ \E j \in 1..i : r2[k].action = actions[j]
      <3>1. CASE k = Len(r) + 1
        <4>1. r2[k] = e /\ i \in 1..i
          BY <3>1, <2>2, <1>1
        <4> QED  BY <4>1, <1>2, <2>1
      <3>2. CASE k \in (n + 1)..Len(r)
        <4>1. k \in 1..Len(r) /\ r2[k] = r[k]
          BY <3>2, <2>2, <1>1
        <4>2. PICK j \in 1..(i - 1) : r[k].action = actions[j]
          BY <3>2, <1>1
        <4>3. j \in 1..i
          BY <1>1
        <4> QED  BY <4>1, <4>2, <4>3, <3>2, <1>1
      <3> QED  BY <3>1, <3>2, <2>2, <1>1
    <2>6. ASSUME NEW k \in (n + 1)..Len(r) PROVE PairOf(r[k]) # PairOf(e)
      <3>1. PICK j \in 1..(i - 1) : r[k].action = actions[j]
        BY <1>1
      <3>2. PairOf(r[k])[2] = actions[j] /\ PairOf(e)[2] = actions[i]
        BY <3>1, <1>2 DEF PairOf
      <3> QED  BY <3>2, <2>1
    <2>7. ASSUME NEW k \in (n + 1)..Len(r2), NEW m \in (n + 1)..Len(r2),
                 PairOf(r2[k]) = PairOf(r2[m])
          PROVE  k = m
      <3>1. \A x \in (n + 1)..Len(r2) :
              \/ x = Len(r) + 1 /\ r2[x] = e
              \/ x \in (n + 1)..Len(r) /\ r2[x] = r[x]
        BY <2>2, <1>1
      <3> QED  BY <3>1, <2>6, <2>7, <1>1
    <2>8. PairsOf(r) \subseteq PairsOf(r2) /\ PairOf(e) \in PairsOf(r2)
      <3>1. \A k \in DOMAIN r : k \in DOMAIN r2 /\ r2[k] = r[k]
        BY <2>2, <1>1
      <3>2. Len(r) + 1 \in DOMAIN r2
        BY <2>2, <1>1
      <3> QED  BY <3>1, <3>2, <2>2 DEF PairsOf
    <2>9. \A j \in 1..i : <<sid, actions[j]>> \in PairsOf(r2) \cup known
      <3> SUFFICES ASSUME NEW j \in 1..i
                   PROVE  <<sid, actions[j]>> \in PairsOf(r2) \cup known
        OBVIOUS
      <3>1. j = i \/ j \in 1..(i - 1)
        BY <1>1
      <3> QED  BY <3>1, <2>8, <1>1, <1>2
    <2>10. Grown(queue, known, sid, actions, d, path, i, r2)
      BY <2>2, <2>3, <2>4, <2>5, <2>7, <2>9 DEF Grown
    <2> QED  BY <2>10 DEF r2, e
  <1>5. CASE ~FreshAt(queue, known, sid, actions, i)
    <2>1. r2 = r
      BY <1>5, <1>1, <1>2, AppendOne
    <2> HIDE DEF r2
    <2>2. <<sid, actions[i]>> \in PairsOf(r) \cup known
      <3>1. \/ <<sid, actions[i]>> \in PairsOf(queue) \cup known
            \/ \E j \in 1..(i - 1) : actions[j] = actions[i]
        BY <1>5 DEF FreshAt
      <3> QED  BY <3>1, <1>1, <1>3
    <2>3. \A j \in 1..i : <<sid, actions[j]>> \in PairsOf(r) \cup known
      <3> SUFFICES ASSUME NEW j \in 1..i
                   PROVE  <<sid, actions[j]>> \in PairsOf(r) \cup known
        OBVIOUS
      <3>1. j = i \/ j \in 1..(i - 1)
        BY <1>1
      <3> QED  BY <3>1, <2>2, <1>1
    <2>4. ASSUME NEW k \in (n + 1)..Len(r) PROVE \E j \in 1..i : r[k].action = actions[j]
      <3>1. PICK j \in 1..(i - 1) : r[k].action = actions[j]
        BY <1>1
      <3>2. j \in 1..i
        BY <1>1
      <3> QED  BY <3>1, <3>2
    <2>5. Len(r) <= n + i
      BY <1>1
    <2>6. Grown(queue, known, sid, actions, d, path, i, r)
      BY <1>1, <2>3, <2>4, <2>5 DEF Grown
    <2> QED  BY <2>1, <2>6 DEF r2
  <1> QED  BY <1>4, <1>5

\* The loop over enumerate_actions makes of a queue what its passes make of it,
\* one after the other.
LEMMA EnqueuePasses ==
    ASSUME NEW queue \in Seq(Pending), NEW known, NEW sid \in Pages,
           NEW actions \in Seq(Actions), NEW d \in Nat, NEW path \in Seq(Actions)
    PROVE  \E q : /\ Enqueue(queue, known, sid, actions, d, path) = q[Len(actions)]
                  /\ Passes(queue, known, sid, actions, d, path, q)
  <1> DEFINE n == Len(actions)
             V == Seq(Pending)
             New(i) == IF FreshAt(queue, known, sid, actions, i)
                       THEN <<EntryAt(sid, actions, d, path, i)>> ELSE <<>>
             F == [x \in V \X (1..n) |-> x[1] \o New(x[2])]
             Is(q) == q = [i \in 0..n |-> IF i = 0 THEN queue ELSE q[i - 1] \o New(i)]
             q0 == CHOOSE q : Is(q)
  <1>1. n \in Nat
    OBVIOUS
  <1>2. ASSUME NEW i \in 1..n, NEW r \in V PROVE r \o New(i) \in V
    <2>1. EntryAt(sid, actions, d, path, i) \in Pending
      BY DEF EntryAt, Pending
    <2> QED  BY <2>1, AppendOne
  <1>3. PICK f \in [0..n -> V] :
          f[0] = queue /\ \A i \in 1..n : f[i] = F[<<f[i - 1], i>>]
    <2>1. F \in [V \X (1..n) -> V]
      BY <1>2
    <2>2. queue \in V
      OBVIOUS
    <2> HIDE DEF F, V, n, Is
    <2>3. Recursion(V, n, queue, F)
      BY <1>1, <2>1, <2>2, RecursionExists
    <2> QED  BY <2>3 DEF Recursion
  <1>4. \A i \in 1..n : f[i] = f[i - 1] \o New(i)
    <2> SUFFICES ASSUME NEW i \in 1..n PROVE f[i] = f[i - 1] \o New(i)
      OBVIOUS
    <2>0. i - 1 \in 0..n
      BY <1>1
    <2>1. f[i - 1] \in V
      <3> HIDE DEF V, n, New
      <3> QED  BY <2>0, <1>3
    <2> DEFINE y == <<f[i - 1], i>>
    <2>2. y \in V \X (1..n) /\ y[1] = f[i - 1] /\ y[2] = i
      BY <2>1
    <2> HIDE DEF New, V, n, y
    <2>3. F[y] = y[1] \o New(y[2])
      BY <2>2
    <2>4. F[<<f[i - 1], i>>] = f[i - 1] \o New(i)
      BY <2>2, <2>3 DEF y
    <2> QED  BY <1>3, <2>4
  <1>5. Is(f)
    <2> HIDE DEF F, New, V
    <2> QED  BY <1>1, <1>3, <1>4
  <1>6. Is(q0)
    <2> HIDE DEF Is
    <2> QED  BY <1>5
  <1>7. Enqueue(queue, known, sid, actions, d, path) = q0[n]
    BY DEF Enqueue, FreshAt, EntryAt
  <1> HIDE DEF q0
  <1>8. q0[0] = queue /\ \A i \in 1..n : q0[i] = q0[i - 1] \o New(i)
    <2> HIDE DEF New, V, F, n
    <2>1. q0 = [i \in 0..n |-> IF i = 0 THEN queue ELSE q0[i - 1] \o New(i)]
      BY <1>6
    <2>2. 0 \in 0..n
      BY <1>1
    <2>3. ASSUME NEW i \in 1..n PROVE q0[i] = q0[i - 1] \o New(i)
      <3>1. i \in 0..n /\ i # 0
        BY <1>1
      <3> QED  BY <2>1, <3>1
    <2> QED  BY <2>1, <2>2, <2>3
  <1> HIDE DEF New
  <1>9. PICK q : q = q0
    OBVIOUS
  <1>10. Passes(queue, known, sid, actions, d, path, q)
    BY <1>8, <1>9 DEF New, Passes
  <1> QED  BY <1>7, <1>9, <1>10

\* It makes of a queue what Grown says, for actions of any number, duplicates
\* included.
LEMMA EnqueueGrown ==
    ASSUME NEW queue \in Seq(Pending), NEW known, NEW sid \in Pages,
           NEW actions \in Seq(Actions), NEW d \in Nat, NEW path \in Seq(Actions)
    PROVE  Grown(queue, known, sid, actions, d, path, Len(actions),
                 Enqueue(queue, known, sid, actions, d, path))
  <1> DEFINE n == Len(actions)
             New(i) == IF FreshAt(queue, known, sid, actions, i)
                       THEN <<EntryAt(sid, actions, d, path, i)>> ELSE <<>>
  <1>1. n \in Nat
    OBVIOUS
  <1>2. PICK q0 : /\ Enqueue(queue, known, sid, actions, d, path) = q0[n]
                  /\ Passes(queue, known, sid, actions, d, path, q0)
    BY EnqueuePasses
  <1>3. q0[0] = queue /\ \A i \in 1..n : q0[i] = q0[i - 1] \o New(i)
    BY <1>2 DEF Passes
  <1> DEFINE G(i) == Grown(queue, known, sid, actions, d, path, i, q0[i])
             S == {i \in Nat : i <= n => G(i)}
  <1>4. 0 \in S
    BY <1>3, GrownStart
  <1>5. ASSUME NEW i \in S PROVE i + 1 \in S
    <2>1. SUFFICES ASSUME i + 1 <= n PROVE G(i + 1)
      OBVIOUS
    <2>2. i \in Nat /\ i + 1 \in 1..n /\ (i + 1) - 1 = i
      BY <2>1, <1>1
    <2>3. Grown(queue, known, sid, actions, d, path, (i + 1) - 1, q0[i])
      BY <2>2, <1>5
    <2>4. q0[i + 1] = q0[i] \o New(i + 1)
      BY <2>2, <1>3
    <2>5. Grown(queue, known, sid, actions, d, path, i + 1, q0[i] \o New(i + 1))
      BY <2>2, <2>3, GrownStep
    <2> QED  BY <2>4, <2>5
  <1>6. n \in S
    <2>1. S \in SUBSET Nat
      OBVIOUS
    <2> HIDE DEF S
    <2>2. S = Nat
      BY <2>1, <1>4, <1>5, InductionOnNat
    <2> QED  BY <2>2, <1>1
  <1> QED  BY <1>1, <1>2, <1>6

\* What is known matters for the pairs of the state alone.
LEMMA EnqueueKnown ==
    ASSUME NEW queue \in Seq(Pending), NEW k1, NEW k2, NEW sid \in Pages,
           NEW actions \in Seq(Actions), NEW d \in Nat, NEW path \in Seq(Actions),
           \A x \in Actions : <<sid, x>> \in PairsOf(queue) \cup k1
                              <=> <<sid, x>> \in PairsOf(queue) \cup k2
    PROVE  Enqueue(queue, k1, sid, actions, d, path) = Enqueue(queue, k2, sid, actions, d, path)
  <1> DEFINE n == Len(actions)
             Of(i, known) == IF FreshAt(queue, known, sid, actions, i)
                             THEN <<EntryAt(sid, actions, d, path, i)>> ELSE <<>>
  <1>1. n \in Nat
    OBVIOUS
  <1>2. PICK p : /\ Enqueue(queue, k1, sid, actions, d, path) = p[n]
                /\ Passes(queue, k1, sid, actions, d, path, p)
    BY EnqueuePasses
  <1>3. PICK q : /\ Enqueue(queue, k2, sid, actions, d, path) = q[n]
                /\ Passes(queue, k2, sid, actions, d, path, q)
    BY EnqueuePasses
  <1>4. /\ p[0] = queue /\ \A i \in 1..n : p[i] = p[i - 1] \o Of(i, k1)
        /\ q[0] = queue /\ \A i \in 1..n : q[i] = q[i - 1] \o Of(i, k2)
    BY <1>2, <1>3 DEF Passes
  <1>5. ASSUME NEW i \in 1..n PROVE Of(i, k1) = Of(i, k2)
    <2>1. actions[i] \in Actions
      OBVIOUS
    <2>2. FreshAt(queue, k1, sid, actions, i) <=> FreshAt(queue, k2, sid, actions, i)
      BY <2>1 DEF FreshAt
    <2> QED  BY <2>2
  <1> HIDE DEF n, Of
  <1> DEFINE S == {i \in Nat : i <= n => p[i] = q[i]}
  <1>6. 0 \in S
    BY <1>4
  <1>7. ASSUME NEW i \in S PROVE i + 1 \in S
    <2> SUFFICES ASSUME i + 1 <= n PROVE p[i + 1] = q[i + 1]
      OBVIOUS
    <2>1. i \in Nat /\ i <= n /\ i + 1 \in 1..n /\ (i + 1) - 1 = i
      BY <1>1
    <2>2. p[i] = q[i]
      BY <2>1
    <2>3. p[i + 1] = p[i] \o Of(i + 1, k1) /\ q[i + 1] = q[i] \o Of(i + 1, k2)
      BY <1>4, <2>1
    <2> QED  BY <1>5, <2>1, <2>2, <2>3
  <1>8. S = Nat
    <2>1. S \in SUBSET Nat
      OBVIOUS
    <2> HIDE DEF S
    <2> QED  BY <2>1, <1>6, <1>7, InductionOnNat
  <1>9. p[n] = q[n]
    BY <1>1, <1>8
  <1> QED  BY <1>2, <1>3, <1>9

-----------------------------------------------------------------------------
(* The graph store.                                                        *)

\* persist_state adds at most its state, and keeps what was written first.
LEMMA PersistStateType ==
    ASSUME NEW t, t \in [DOMAIN t -> Nat], NEW sid, NEW d \in Nat
    PROVE  /\ DOMAIN PersistState(t, sid, d) = DOMAIN t \cup {sid}
           /\ PersistState(t, sid, d) \in [DOMAIN PersistState(t, sid, d) -> Nat]
           /\ \A s \in DOMAIN t : PersistState(t, sid, d)[s] = t[s]
           /\ sid \notin DOMAIN t => PersistState(t, sid, d)[sid] = d
  BY DEF PersistState
=============================================================================
