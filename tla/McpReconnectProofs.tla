-------------------------- MODULE McpReconnectProofs --------------------------
(***************************************************************************)
(* The rebuilds of McpReconnect keep their distance, for any callers,      *)
(* servers and backoff settings.  Induction over the failure count is by   *)
(* the least number: a set of naturals that is not empty has one.          *)
(***************************************************************************)
EXTENDS McpReconnect, WellFoundedInduction, TLAPS

\* A nonempty set of natural numbers has a least element.
LEMMA LeastNatural ==
  ASSUME NEW T \in SUBSET Nat, T # {}
  PROVE  \E x \in T : \A y \in T : x <= y
<1>. DEFINE R == {ss \in Nat \X Nat : ss[1] < ss[2]}
<1>1. IsWellFoundedOn(R, Nat)
  BY NatLessThanWellFounded DEF OpToRel
<1>2. \A x, y \in Nat : x < y => <<x, y>> \in R
  OBVIOUS
<1>. HIDE DEF R
<1>3. PICK x \in T : \A y \in T : ~ (<<y, x>> \in R)
  BY <1>1, WFMin
<1>4. \A y \in T : ~ (y < x)
  BY <1>2, <1>3
<1>. QED
  BY <1>4

-----------------------------------------------------------------------------
(* The delay (mcp_recovery.py:82-86).                                      *)

\* f is the doubling sequence up to n.
Fits(n, f) ==
  /\ f \in [0..n -> Nat]
  /\ f[0] = InitialBackoff
  /\ \A k \in 1..n : f[k] = 2 * f[k - 1]

\* There is such a sequence of every length.
LEMMA FitExists ==
  ASSUME NEW n \in Nat
  PROVE  \E f : Fits(n, f)
<1>. DEFINE T == {m \in Nat : ~ \E f : Fits(m, f)}
<1>1. SUFFICES ASSUME T # {} PROVE FALSE
  OBVIOUS
<1>2. PICK m \in T : \A y \in T : m <= y
  BY <1>1, LeastNatural
<1>3. m # 0
  <2>1. Fits(0, [k \in 0..0 |-> InitialBackoff])
    BY BackoffAssumption DEF Fits
  <2>. QED  BY <2>1
<1>4. m - 1 \in Nat /\ m - 1 \notin T
  BY <1>2, <1>3
<1>5. PICK f : Fits(m - 1, f)
  BY <1>4
<1>. DEFINE g == [k \in 0..m |-> IF k = m THEN 2 * f[m - 1] ELSE f[k]]
<1>6. g \in [0..m -> Nat]
  <2>1. ASSUME NEW k \in 0..m PROVE (IF k = m THEN 2 * f[m - 1] ELSE f[k]) \in Nat
    <3>1. f[m - 1] \in Nat
      BY <1>4, <1>5 DEF Fits
    <3>2. k # m => k \in 0..(m - 1)
      BY <1>4
    <3>. QED  BY <1>5, <3>1, <3>2 DEF Fits
  <2>. QED  BY <2>1
<1>7. g[0] = InitialBackoff
  BY <1>3, <1>5 DEF Fits
<1>8. ASSUME NEW k \in 1..m PROVE g[k] = 2 * g[k - 1]
  <2>1. k \in 0..m /\ k - 1 \in 0..m /\ k - 1 # m
    BY <1>4
  <2>2. g[k - 1] = f[k - 1]
    BY <2>1
  <2>3. CASE k = m
    BY <2>1, <2>2, <2>3
  <2>4. CASE k # m
    <3>1. k \in 1..(m - 1)
      BY <1>4, <2>4
    <3>2. f[k] = 2 * f[k - 1]
      BY <1>5, <3>1 DEF Fits
    <3>. QED  BY <2>1, <2>2, <2>4, <3>2
  <2>. QED  BY <2>3, <2>4
<1>9. Fits(m, g)
  BY <1>6, <1>7, <1>8 DEF Fits
<1>. QED  BY <1>9

\* Two of them agree where both are defined.
LEMMA FitUnique ==
  ASSUME NEW n \in Nat, NEW m \in Nat, NEW f, NEW g, Fits(n, f), Fits(m, g),
         NEW j \in Nat, j <= n, j <= m
  PROVE  f[j] = g[j]
<1>. DEFINE T == {k \in Nat : k <= n /\ k <= m /\ f[k] # g[k]}
<1>1. SUFFICES ASSUME T # {} PROVE FALSE
  OBVIOUS
<1>2. PICK k \in T : \A y \in T : k <= y
  BY <1>1, LeastNatural
<1>3. k # 0
  BY DEF Fits
<1>4. k - 1 \in Nat /\ k \in 1..n /\ k \in 1..m
  BY <1>3
<1>5. f[k - 1] = g[k - 1]
  BY <1>2, <1>4
<1>6. f[k] = 2 * f[k - 1] /\ g[k] = 2 * g[k - 1]
  BY <1>4 DEF Fits
<1>. QED  BY <1>5, <1>6

\* Doubled satisfies its recursive equation.
LEMMA DoubledEquation ==
  Doubled = [n \in Nat |-> IF n = 0 THEN InitialBackoff ELSE 2 * Doubled[n - 1]]
<1>. DEFINE Fit(n) == CHOOSE f : Fits(n, f)
            D == [n \in Nat |-> Fit(n)[n]]
<1>1. \A n \in Nat : Fits(n, Fit(n))
  BY FitExists
<1>. HIDE DEF Fit
<1>2. ASSUME NEW n \in Nat
      PROVE  D[n] = IF n = 0 THEN InitialBackoff ELSE 2 * D[n - 1]
  <2>1. CASE n = 0
    BY <1>1, <2>1 DEF Fits
  <2>2. CASE n # 0
    <3>1. n - 1 \in Nat /\ n \in 1..n
      BY <2>2
    <3>2. Fits(n, Fit(n)) /\ Fits(n - 1, Fit(n - 1))
      BY <1>1, <3>1
    <3>3. Fit(n)[n] = 2 * Fit(n)[n - 1]
      BY <3>1, <3>2 DEF Fits
    <3>4. n - 1 <= n /\ n - 1 <= n - 1
      BY <3>1
    <3>5. Fit(n)[n - 1] = Fit(n - 1)[n - 1]
      BY <3>1, <3>2, <3>4, FitUnique
    <3>. QED  BY <2>2, <3>1, <3>3, <3>5
  <2>. QED  BY <2>1, <2>2
<1>3. D = [n \in Nat |-> IF n = 0 THEN InitialBackoff ELSE 2 * D[n - 1]]
  BY <1>2
<1>. HIDE DEF D
<1>4. \E f : f = [n \in Nat |-> IF n = 0 THEN InitialBackoff ELSE 2 * f[n - 1]]
  BY <1>3
<1>. QED  BY <1>4 DEF Doubled

\* What the equation says of a number.
LEMMA DoubledStep ==
  /\ Doubled[0] = InitialBackoff
  /\ \A n \in Nat \ {0} : Doubled[n] = 2 * Doubled[n - 1]
<1>1. \A n \in Nat : Doubled[n] = IF n = 0 THEN InitialBackoff ELSE 2 * Doubled[n - 1]
  BY DoubledEquation
<1>. QED  BY <1>1

\* Every value is a natural number.
LEMMA DoubledNat == \A n \in Nat : Doubled[n] \in Nat
<1>. DEFINE T == {n \in Nat : Doubled[n] \notin Nat}
<1>1. SUFFICES ASSUME T # {} PROVE FALSE
  OBVIOUS
<1>2. PICK n \in T : \A y \in T : n <= y
  BY <1>1, LeastNatural
<1>3. n # 0
  BY DoubledStep, BackoffAssumption
<1>4. Doubled[n - 1] \in Nat
  BY <1>2, <1>3
<1>. QED  BY <1>3, <1>4, DoubledStep

\* The sequence never falls.
LEMMA DoubledGrows ==
  ASSUME NEW a \in Nat, NEW b \in Nat, a <= b
  PROVE  Doubled[a] <= Doubled[b]
<1>. DEFINE T == {n \in Nat : a <= n /\ ~ (Doubled[a] <= Doubled[n])}
<1>1. SUFFICES ASSUME T # {} PROVE FALSE
  OBVIOUS
<1>2. PICK n \in T : \A y \in T : n <= y
  BY <1>1, LeastNatural
<1>3. n # a
  BY DoubledNat
<1>4. n - 1 \in Nat /\ a <= n - 1 /\ n # 0
  BY <1>3
<1>5. Doubled[a] <= Doubled[n - 1]
  BY <1>2, <1>4
<1>6. Doubled[n] = 2 * Doubled[n - 1] /\ Doubled[n - 1] \in Nat /\ Doubled[a] \in Nat
  BY <1>4, DoubledStep, DoubledNat
<1>. QED  BY <1>5, <1>6

\* The delay is a natural number.
LEMMA DelayNat ==
  ASSUME NEW f \in Nat \ {0}
  PROVE  Delay(f) \in Nat
<1>1. Doubled[f - 1] \in Nat
  BY DoubledNat
<1>. QED  BY <1>1, BackoffAssumption DEF Delay

\* More failures never wait for less.
LEMMA DelayGrows ==
  ASSUME NEW a \in Nat \ {0}, NEW b \in Nat \ {0}, a <= b
  PROVE  Delay(a) <= Delay(b)
<1>1. /\ Doubled[a - 1] \in Nat /\ Doubled[b - 1] \in Nat
      /\ Doubled[a - 1] <= Doubled[b - 1]
  BY DoubledNat, DoubledGrows
<1>. QED  BY <1>1, BackoffAssumption DEF Delay

-----------------------------------------------------------------------------
(* The invariant.                                                          *)

\* A call that lasts has a server.
ServerInv == \A c \in Calls : pc[c] \notin {"idle", "done"} => server[c] \in Servers

\* Without an entry the first delay is over and nothing counts; an entry
\* dates from the last rebuild, counts at least the rebuilds since the last
\* discovery, and is marked recovered only after one.
EntryOK(s) ==
  /\ backoff[s] = None =>
       /\ streak[s] = 0
       /\ started[s] # None => now >= started[s] + Delay(1)
  /\ backoff[s] # None =>
       /\ started[s] # None
       /\ backoff[s].after = started[s] + Delay(backoff[s].failures)
       /\ streak[s] <= backoff[s].failures
       /\ backoff[s].recovered => streak[s] = 0

EntryInv == \A s \in Servers : EntryOK(s)

IInv == TypeOK /\ ServerInv /\ EntryInv

\* The invariant holds at the start.
LEMMA InitInv == Init => IInv
<1>. SUFFICES ASSUME Init PROVE IInv
  OBVIOUS
<1>1. 1 \in 0..MaxSession /\ 0 \in 0..MaxTime /\ 0 \in 0..1 /\ 1 \in 0..1
  BY BoundsAssumption
<1>2. \A c \in Calls : c # None
  BY CallsAssumption
<1>3. TypeOK
  BY <1>1, <1>2 DEF Init, TypeOK
<1>. QED  BY <1>3 DEF Init, IInv, ServerInv, EntryInv, EntryOK

\* What an entry and a time are, in the form the steps need.
LEMMA EntryFacts ==
  /\ \A e \in Entry : /\ e # None /\ e.failures \in Nat \ {0}
                      /\ e.after \in Nat /\ e.recovered \in BOOLEAN
  /\ \A t \in 0..MaxTime : t # None /\ t \in Nat
  BY NoneAssumption, BoundsAssumption DEF Entry

\* Marking an entry changes nothing else of it.
LEMMA MarkedEntry ==
  ASSUME NEW e \in Entry
  PROVE  LET m == [e EXCEPT !.recovered = TRUE]
         IN  /\ m \in Entry /\ m.failures = e.failures
             /\ m.after = e.after /\ m.recovered = TRUE
  BY DEF Entry

\* The values behind one server's entry.
LEMMA Values ==
  ASSUME TypeOK, NEW s \in Servers
  PROVE  /\ started[s] # None => started[s] \in Nat
         /\ backoff[s] # None =>
              /\ backoff[s] \in Entry
              /\ backoff[s].failures \in Nat \ {0} /\ backoff[s].after \in Nat
              /\ backoff[s].recovered \in BOOLEAN
         /\ streak[s] \in Nat /\ now \in Nat /\ Delay(1) \in Nat
<1>1. /\ started[s] \in (0..MaxTime) \cup {None}
      /\ backoff[s] \in Entry \cup {None}
      /\ streak[s] \in Nat
  <2>. HIDE DEF Entry
  <2>1. /\ started \in [Servers -> (0..MaxTime) \cup {None}]
        /\ backoff \in [Servers -> Entry \cup {None}]
        /\ streak \in [Servers -> Nat]
    BY DEF TypeOK
  <2>. QED  BY <2>1
<1>3. now \in Nat
  BY BoundsAssumption DEF TypeOK
<1>4. started[s] # None => started[s] \in Nat
  BY <1>1, EntryFacts
<1>5. backoff[s] # None =>
        /\ backoff[s] \in Entry
        /\ backoff[s].failures \in Nat \ {0} /\ backoff[s].after \in Nat
        /\ backoff[s].recovered \in BOOLEAN
  BY <1>1, EntryFacts
<1>2. Delay(1) \in Nat
  BY DelayNat
<1>. QED  BY <1>1, <1>2, <1>3, <1>4, <1>5

\* A step that leaves the entry and its history alone keeps EntryOK, however
\* much time passes.
LEMMA EntryStays ==
  ASSUME TypeOK, NEW s \in Servers, EntryOK(s), now' \in Nat, now' >= now,
         backoff'[s] = backoff[s], started'[s] = started[s], streak'[s] = streak[s]
  PROVE  EntryOK(s)'
<1>1. /\ started[s] # None => started[s] \in Nat
      /\ now \in Nat /\ Delay(1) \in Nat
  BY Values
<1>2. Delay(1)' = Delay(1) /\ \A f : Delay(f)' = Delay(f)
  BY DEF Delay
<1>3. started[s] # None /\ now >= started[s] + Delay(1) => now' >= started[s] + Delay(1)
  BY <1>1
<1>. QED  BY <1>2, <1>3 DEF EntryOK

-----------------------------------------------------------------------------
(* One lemma for each group of actions.                                    *)

\* Steps outside the coordinator: entries and history stay, time may pass.
LEMMA OutsideInv ==
  ASSUME IInv, UNCHANGED <<backoff, history>>, TypeOK', ServerInv', now' >= now
  PROVE  IInv'
<1>1. now' \in Nat
  BY BoundsAssumption DEF TypeOK
<1>2. ASSUME NEW s \in Servers PROVE EntryOK(s)'
  BY <1>1, EntryStays DEF IInv, EntryInv, history
<1>. QED  BY <1>2 DEF IInv, EntryInv

\* The call ends.
LEMMA ReturnFacts ==
  ASSUME IInv, NEW c \in Calls, Return(c)
  PROVE  /\ pc' = [pc EXCEPT ![c] = "done"]
         /\ pc' \in [Calls -> {"idle", "try", "closed", "rebuild", "retry",
                                "healthy", "done"}]
         /\ server' \in [Calls -> Servers \cup {None}]
         /\ seen' \in [Calls -> 0..opened]
         /\ ServerInv'
<1>1. 0 \in 0..opened
  BY BoundsAssumption DEF IInv, TypeOK
<1>. QED  BY <1>1 DEF IInv, TypeOK, ServerInv, Return

\* A request goes out.
LEMMA RequestFacts ==
  ASSUME IInv, NEW c \in Calls, NEW s \in Servers, NEW w \in {"try", "retry"},
         Request(c, s, w), session' \in [Servers -> 0..opened']
  PROVE  /\ pc' = [pc EXCEPT ![c] = w]
         /\ pc' \in [Calls -> {"idle", "try", "closed", "rebuild", "retry",
                                "healthy", "done"}]
         /\ server' \in [Calls -> Servers \cup {None}]
         /\ opened' \in Nat /\ opened' >= opened => seen' \in [Calls -> 0..opened']
         /\ ServerInv'
<1>1. /\ pc' = [pc EXCEPT ![c] = w]
      /\ seen' = [seen EXCEPT ![c] = session'[s]]
      /\ server' = [server EXCEPT ![c] = s]
      /\ seen \in [Calls -> 0..opened] /\ opened \in Nat
  BY BoundsAssumption DEF Request, IInv, TypeOK
<1>2. ASSUME opened' \in Nat, opened' >= opened PROVE seen' \in [Calls -> 0..opened']
  <2>1. \A q \in Calls : seen[q] \in 0..opened'
    BY <1>1, <1>2
  <2>. QED  BY <1>1, <2>1
<1>. QED  BY <1>1, <1>2 DEF IInv, TypeOK, ServerInv

\* The clock and the servers.
LEMMA WorldInv ==
  ASSUME IInv, Tick \/ \E s \in Servers : RemoteCloses(s)
  PROVE  IInv'
<1>1. CASE Tick
  <2>1. now' \in 0..MaxTime /\ now' >= now
    BY <1>1, BoundsAssumption DEF Tick, IInv, TypeOK
  <2>2. TypeOK' /\ ServerInv'
    BY <1>1, <2>1 DEF Tick, IInv, TypeOK, ServerInv, coordinator, callers, history
  <2>. QED  BY <1>1, <2>1, <2>2, OutsideInv DEF Tick, coordinator, history
<1>2. ASSUME NEW s \in Servers, RemoteCloses(s) PROVE IInv'
  <2>1. 0 \in 0..opened /\ now \in Nat
    BY BoundsAssumption DEF IInv, TypeOK
  <2>2. TypeOK' /\ ServerInv'
    BY <1>2, <2>1 DEF RemoteCloses, IInv, TypeOK, ServerInv, coordinator, callers, history
  <2>. QED  BY <1>2, <2>1, <2>2, OutsideInv DEF RemoteCloses, coordinator, history
<1>. QED  BY <1>1, <1>2

\* The steps of a call that end it or move it on without the coordinator.
LEMMA CallInv ==
  ASSUME IInv, NEW c \in Calls,
         \/ Answered(c) \/ FoundClosed(c) \/ Raised(c) \/ RebuildCancelled(c)
         \/ \E s \in Servers : CallTool(c, s)
  PROVE  IInv'
<1>. USE DEF coordinator, callers, world, history
<1>1. now \in Nat /\ opened \in Nat
  BY BoundsAssumption DEF IInv, TypeOK
<1>2. CASE Answered(c) /\ c \in Listings
  <2>1. TypeOK' /\ ServerInv'
    BY <1>2 DEF Answered, IInv, TypeOK, ServerInv
  <2>. QED  BY <1>1, <1>2, <2>1, OutsideInv DEF Answered
<1>3. CASE FoundClosed(c) /\ pc' = [pc EXCEPT ![c] = "closed"] /\ UNCHANGED <<server, seen>>
           /\ pc[c] = "try"
  <2>1. TypeOK' /\ ServerInv'
    BY <1>3 DEF FoundClosed, IInv, TypeOK, ServerInv
  <2>. QED  BY <1>1, <1>3, <2>1, OutsideInv DEF FoundClosed
<1>4. ASSUME Return(c), pc[c] # "rebuild", UNCHANGED <<coordinator, world, history>>
      PROVE  IInv'
  <2>1. TypeOK' /\ ServerInv'
    BY <1>4, ReturnFacts DEF IInv, TypeOK
  <2>. QED  BY <1>1, <1>4, <2>1, OutsideInv
<1>5. CASE RebuildCancelled(c)
  <2>1. Return(c) /\ pc[c] = "rebuild" /\ lock' = None
        /\ UNCHANGED <<backoff, world, history>>
    BY <1>5 DEF RebuildCancelled
  <2>2. \A d \in Calls : None # d
    BY CallsAssumption
  <2>3. TypeOK' /\ ServerInv'
    BY <2>1, <2>2, ReturnFacts DEF IInv, TypeOK
  <2>. QED  BY <1>1, <2>1, <2>3, OutsideInv
<1>6. ASSUME NEW s \in Servers, CallTool(c, s) PROVE IInv'
  <2>1. Request(c, s, "try") /\ pc[c] = "idle" /\ UNCHANGED <<coordinator, world, history>>
    BY <1>6 DEF CallTool
  <2>2. session' \in [Servers -> 0..opened']
    BY <2>1 DEF IInv, TypeOK
  <2>3. TypeOK' /\ ServerInv'
    BY <1>1, <2>1, <2>2, RequestFacts DEF IInv, TypeOK
  <2>. QED  BY <1>1, <2>1, <2>3, OutsideInv
<1>7. CASE Answered(c) /\ c \notin Listings
  BY <1>4, <1>7 DEF Answered
<1>8. CASE Raised(c)
  BY <1>4, <1>8 DEF Raised
<1>9. CASE FoundClosed(c) /\ pc[c] = "retry" /\ Return(c)
  BY <1>4, <1>9 DEF FoundClosed
<1>. QED  BY <1>2, <1>3, <1>5, <1>6, <1>7, <1>8, <1>9 DEF FoundClosed

\* should_defer: an entry is dropped only after its cooldown and only if the
\* server was found healthy.
LEMMA DeferInv ==
  ASSUME IInv, NEW c \in Calls, NEW s \in Servers, Defer(c, s)
  PROVE  IInv'
<1>. USE DEF coordinator, callers, world, history
<1>1. now \in Nat /\ opened \in Nat
  BY BoundsAssumption DEF IInv, TypeOK
<1>2. Return(c) \/ Request(c, s, "try")
  BY DEF Defer
<1>3. pc[c] = "idle" /\ UNCHANGED <<lock, session, opened, now, started, streak>>
  BY DEF Defer
<1>4. session' \in [Servers -> 0..opened']
  BY <1>3 DEF IInv, TypeOK
<1>5. \/ UNCHANGED backoff
      \/ /\ backoff[s] # None /\ backoff[s].recovered /\ ~CoolingDown(s)
         /\ backoff' = [backoff EXCEPT ![s] = None]
  BY DEF Defer
<1>6. TypeOK'
  BY <1>1, <1>2, <1>3, <1>4, <1>5, ReturnFacts, RequestFacts DEF IInv, TypeOK
<1>7. ServerInv'
  BY <1>2, <1>4, ReturnFacts, RequestFacts
<1>8. ASSUME NEW q \in Servers PROVE EntryOK(q)'
  <2>1. CASE backoff'[q] = backoff[q]
    BY <1>1, <1>3, <2>1, EntryStays DEF IInv, EntryInv
  <2>2. CASE backoff'[q] # backoff[q]
    <3>1. /\ q = s /\ backoff[s] # None /\ backoff[s].recovered
          /\ ~(now < backoff[s].after) /\ backoff'[s] = None
      BY <1>5, <2>2 DEF CoolingDown, IInv, TypeOK
    <3>2. /\ started[s] # None /\ streak[s] = 0
          /\ backoff[s].after = started[s] + Delay(backoff[s].failures)
      BY <3>1 DEF IInv, EntryInv, EntryOK
    <3>3. /\ started[s] \in Nat /\ backoff[s].failures \in Nat \ {0}
          /\ Delay(1) \in Nat
      BY <3>1, <3>2, Values DEF IInv
    <3>4. Delay(1) <= Delay(backoff[s].failures) /\ Delay(backoff[s].failures) \in Nat
      BY <3>3, DelayGrows, DelayNat
    <3>5. now >= started[s] + Delay(1)
      BY <1>1, <3>1, <3>2, <3>3, <3>4
    <3>. QED  BY <1>3, <3>1, <3>2, <3>5 DEF EntryOK, Delay
  <2>. QED  BY <2>1, <2>2
<1>. QED  BY <1>6, <1>7, <1>8 DEF IInv, EntryInv

\* mark_healthy: after the cooldown the entry is dropped, before it is marked.
LEMMA MarkHealthyInv ==
  ASSUME IInv, NEW c \in Calls, MarkHealthy(c)
  PROVE  IInv'
<1>. USE DEF coordinator, callers, world, history
<1>. DEFINE s == server[c]
<1>1. /\ pc[c] = "healthy" /\ lock = None /\ Return(c) /\ ForgetIfOver(s)
      /\ streak' = [streak EXCEPT ![s] = 0]
      /\ UNCHANGED <<lock, session, opened, now, started>>
  BY DEF MarkHealthy
<1>2. s \in Servers /\ now \in Nat
  BY <1>1, BoundsAssumption DEF IInv, TypeOK, ServerInv
<1>. HIDE DEF s
<1>3. backoff' = [backoff EXCEPT ![s] =
                   IF backoff[s] = None \/ now >= backoff[s].after THEN None
                   ELSE [backoff[s] EXCEPT !.recovered = TRUE]]
  BY <1>1 DEF ForgetIfOver
<1>4. backoff[s] = None \/ backoff[s] \in Entry
  BY <1>2 DEF IInv, TypeOK
<1>5. backoff[s] # None => [backoff[s] EXCEPT !.recovered = TRUE] \in Entry
  BY <1>4, MarkedEntry
<1>6. backoff' \in [Servers -> Entry \cup {None}] /\ streak' \in [Servers -> Nat]
  BY <1>1, <1>3, <1>5 DEF IInv, TypeOK
<1>7. TypeOK' /\ ServerInv'
  BY <1>1, <1>6, ReturnFacts DEF IInv, TypeOK
<1>8. ASSUME NEW q \in Servers PROVE EntryOK(q)'
  <2>1. CASE q # s
    <3>1. backoff'[q] = backoff[q] /\ streak'[q] = streak[q]
      BY <1>1, <1>3, <2>1 DEF IInv, TypeOK
    <3>. QED  BY <1>1, <1>2, <3>1, EntryStays DEF IInv, EntryInv
  <2>2. CASE q = s /\ backoff[s] = None
    <3>1. backoff'[s] = None /\ streak'[s] = 0
      BY <1>1, <1>2, <1>3, <2>2 DEF IInv, TypeOK
    <3>. QED  BY <1>1, <1>2, <2>2, <3>1 DEF IInv, EntryInv, EntryOK, Delay
  <2>3. CASE q = s /\ backoff[s] # None
    <3>1. /\ started[s] # None /\ started[s] \in Nat
          /\ backoff[s].after = started[s] + Delay(backoff[s].failures)
          /\ backoff[s].failures \in Nat \ {0} /\ Delay(1) \in Nat
      BY <1>2, <2>3, Values DEF IInv, EntryInv, EntryOK
    <3>2. Delay(1) <= Delay(backoff[s].failures) /\ Delay(backoff[s].failures) \in Nat
      BY <3>1, DelayGrows, DelayNat
    <3>3. streak'[s] = 0 /\ started'[s] = started[s] /\ now' = now
      BY <1>1, <1>2 DEF IInv, TypeOK
    <3>4. CASE now >= backoff[s].after
      <4>1. backoff'[s] = None
        BY <1>2, <1>3, <3>4 DEF IInv, TypeOK
      <4>2. now >= started[s] + Delay(1)
        BY <1>2, <3>1, <3>2, <3>4
      <4>. QED  BY <2>3, <3>1, <3>3, <4>1, <4>2 DEF EntryOK, Delay
    <3>5. CASE ~(now >= backoff[s].after)
      <4>1. backoff'[s] = [backoff[s] EXCEPT !.recovered = TRUE]
        BY <1>2, <1>3, <2>3, <3>5 DEF IInv, TypeOK
      <4>2. /\ backoff'[s] # None
            /\ backoff'[s].failures = backoff[s].failures
            /\ backoff'[s].after = backoff[s].after
        BY <1>4, <2>3, <4>1, MarkedEntry, EntryFacts
      <4>3. \A f : Delay(f)' = Delay(f)
        BY DEF Delay
      <4>. QED  BY <2>3, <3>1, <3>3, <4>2, <4>3 DEF EntryOK
    <3>. QED  BY <3>4, <3>5
  <2>. QED  BY <2>1, <2>2, <2>3
<1>. QED  BY <1>7, <1>8 DEF IInv, EntryInv

\* A rebuild that begins outside the cooldown of its server begins late
\* enough: after the delay of as many rebuilds as were not made good.
LEMMA LateEnough ==
  ASSUME IInv, NEW s \in Servers, ~CoolingDown(s)
  PROVE  \/ started[s] = None
         \/ now >= started[s] + Delay(IF streak[s] = 0 THEN 1 ELSE streak[s])
<1>1. streak[s] \in Nat /\ now \in Nat /\ Delay(1) \in Nat
  BY Values DEF IInv
<1>2. CASE backoff[s] = None
  <2>1. streak[s] = 0 /\ (started[s] # None => now >= started[s] + Delay(1))
    BY <1>2 DEF IInv, EntryInv, EntryOK
  <2>. QED  BY <2>1
<1>3. CASE backoff[s] # None
  <2>. DEFINE n == IF streak[s] = 0 THEN 1 ELSE streak[s]
  <2>1. /\ started[s] \in Nat /\ streak[s] <= backoff[s].failures
        /\ backoff[s].after = started[s] + Delay(backoff[s].failures)
        /\ backoff[s].failures \in Nat \ {0}
    BY <1>3, Values DEF IInv, EntryInv, EntryOK
  <2>2. n \in Nat \ {0} /\ n <= backoff[s].failures
    BY <1>1, <2>1
  <2>. HIDE DEF n
  <2>3. Delay(n) <= Delay(backoff[s].failures) /\ Delay(n) \in Nat
        /\ Delay(backoff[s].failures) \in Nat
    BY <2>1, <2>2, DelayGrows, DelayNat
  <2>4. now >= backoff[s].after
    BY <1>1, <1>3, <2>1, <2>3 DEF CoolingDown
  <2>5. now >= started[s] + Delay(n)
    BY <1>1, <2>1, <2>3, <2>4
  <2>. QED  BY <2>5 DEF n
<1>. QED  BY <1>2, <1>3

\* The first half of reconnect writes an entry that dates from now.
LEMMA BeginRebuildInv ==
  ASSUME IInv, NEW c \in Calls, pc[c] = "closed", lock = None, BeginRebuild(c),
         UNCHANGED <<server, seen, opened, now>>
  PROVE  IInv'
<1>. DEFINE s == server[c]
            failures == IF backoff[s] = None THEN 1 ELSE backoff[s].failures + 1
            e == [failures |-> failures, after |-> now + Delay(failures),
                  recovered |-> FALSE]
<1>1. /\ lock' = c
      /\ backoff' = [backoff EXCEPT ![s] = e]
      /\ pc' = [pc EXCEPT ![c] = "rebuild"]
      /\ session' = [q \in Servers |-> 0]
      /\ started' = [started EXCEPT ![s] = now]
      /\ streak' = [streak EXCEPT ![s] = @ + 1]
  BY DEF BeginRebuild
<1>2. s \in Servers
  BY DEF IInv, ServerInv
<1>3. /\ now \in 0..MaxTime /\ now \in Nat /\ opened \in Nat
      /\ streak[s] \in Nat /\ 0 \in 0..opened
  BY <1>2, BoundsAssumption DEF IInv, TypeOK
<1>4. failures \in Nat \ {0} /\ streak[s] + 1 <= failures
  <2>1. CASE backoff[s] = None
    BY <1>2, <2>1 DEF IInv, EntryInv, EntryOK
  <2>2. CASE backoff[s] # None
    <3>1. backoff[s].failures \in Nat \ {0} /\ streak[s] <= backoff[s].failures
      BY <1>2, <2>2, Values DEF IInv, EntryInv, EntryOK
    <3>. QED  BY <1>3, <2>2, <3>1
  <2>. QED  BY <2>1, <2>2
<1>. HIDE DEF failures
<1>5. Delay(failures) \in Nat
  BY <1>4, DelayNat
<1>6. e \in Entry
  BY <1>3, <1>4, <1>5 DEF Entry
<1>7. e.failures = failures /\ e.after = now + Delay(failures) /\ e.recovered = FALSE
  OBVIOUS
<1>. HIDE DEF e, s
<1>8. c # None /\ \A d \in Calls : lock' = d <=> d = c
  BY <1>1, CallsAssumption
<1>9. TypeOK'
  <2>1. backoff' \in [Servers -> Entry \cup {None}]
    <3>. HIDE DEF Entry
    <3>. QED  BY <1>1, <1>6 DEF IInv, TypeOK
  <2>2. started' \in [Servers -> (0..MaxTime) \cup {None}]
    BY <1>1, <1>3 DEF IInv, TypeOK
  <2>3. streak' \in [Servers -> Nat]
    <3>1. streak \in [Servers -> Nat] /\ streak' = [streak EXCEPT ![s] = streak[s] + 1]
      BY <1>1 DEF IInv, TypeOK
    <3>2. streak[s] + 1 \in Nat
      BY <1>3
    <3>. QED  BY <3>1, <3>2
  <2>4. \A d \in Calls : pc[d] # "rebuild"
    BY CallsAssumption DEF IInv, TypeOK
  <2>5. \A d \in Calls : pc'[d] = "rebuild" <=> d = c
    BY <1>1, <2>4 DEF IInv, TypeOK
  <2>6. \A d \in Calls : lock' = d <=> pc'[d] = "rebuild"
    BY <1>8, <2>5
  <2>. QED  BY <1>1, <1>3, <2>1, <2>2, <2>3, <2>6 DEF IInv, TypeOK
<1>10. ServerInv'
  BY <1>1, <1>2 DEF s, IInv, TypeOK, ServerInv
<1>11. ASSUME NEW q \in Servers PROVE EntryOK(q)'
  <2>1. CASE q # s
    <3>1. backoff'[q] = backoff[q] /\ streak'[q] = streak[q] /\ started'[q] = started[q]
      BY <1>1, <2>1 DEF IInv, TypeOK
    <3>. QED  BY <1>3, <3>1, EntryStays DEF IInv, EntryInv
  <2>2. CASE q = s
    <3>1. backoff'[s] = e /\ started'[s] = now /\ streak'[s] = streak[s] + 1
      BY <1>1, <1>2 DEF IInv, TypeOK
    <3>2. e # None /\ now # None
      BY <1>3, <1>6, EntryFacts
    <3>. QED  BY <1>4, <1>7, <2>2, <3>1, <3>2 DEF EntryOK, Delay
  <2>. QED  BY <2>1, <2>2
<1>. QED  BY <1>9, <1>10, <1>11 DEF IInv, EntryInv

\* A caller that finds its session closed gives up or rebuilds.
LEMMA ReconnectInv ==
  ASSUME IInv, NEW c \in Calls, Reconnect(c)
  PROVE  IInv'
<1>. USE DEF coordinator, history
<1>1. CASE CoolingDown(server[c])
  <2>1. /\ pc[c] = "closed" /\ Return(c)
        /\ UNCHANGED <<lock, backoff, session, started, streak, opened, now>>
    BY <1>1 DEF Reconnect
  <2>2. TypeOK' /\ ServerInv'
    BY <2>1, ReturnFacts DEF IInv, TypeOK
  <2>3. now \in Nat
    BY BoundsAssumption DEF IInv, TypeOK
  <2>. QED  BY <2>1, <2>2, <2>3, OutsideInv
<1>2. CASE ~CoolingDown(server[c])
  BY <1>2, BeginRebuildInv DEF Reconnect
<1>. QED  BY <1>1, <1>2

\* The manager is done: new sessions, and the lock is free.
LEMMA RebuiltInv ==
  ASSUME IInv, NEW c \in Calls, Rebuilt(c)
  PROVE  IInv'
<1>. USE DEF coordinator, callers, world, history
<1>1. /\ pc[c] = "rebuild" /\ opened < MaxSession /\ lock' = None
      /\ opened' = opened + 1 /\ UNCHANGED <<backoff, now, started, streak>>
  BY DEF Rebuilt
<1>2. /\ opened \in Nat /\ opened' \in 0..MaxSession /\ opened' \in Nat
      /\ now \in Nat /\ 0 \in 0..opened' /\ opened + 1 \in 0..opened'
  BY <1>1, BoundsAssumption DEF IInv, TypeOK
<1>3. PICK up \in SUBSET Servers :
        /\ session' = [s \in Servers |-> IF s \in up THEN opened + 1 ELSE 0]
        /\ IF server[c] \in up /\ c \in Listings
           THEN Request(c, server[c], "retry") ELSE Return(c)
  BY DEF Rebuilt
<1>4. session' \in [Servers -> 0..opened']
  BY <1>2, <1>3
<1>5. \A d \in Calls : lock' = d <=> d = c /\ FALSE
  BY <1>1, CallsAssumption
<1>6. CASE Request(c, server[c], "retry") /\ server[c] \in Servers
  <2>1. /\ pc' = [pc EXCEPT ![c] = "retry"]
        /\ pc' \in [Calls -> {"idle", "try", "closed", "rebuild", "retry",
                               "healthy", "done"}]
        /\ server' \in [Calls -> Servers \cup {None}]
        /\ seen' \in [Calls -> 0..opened']
        /\ ServerInv'
    BY <1>1, <1>2, <1>4, <1>6, RequestFacts
  <2>2. \A d \in Calls : pc'[d] # "rebuild"
    BY <1>1, <2>1, CallsAssumption DEF IInv, TypeOK
  <2>3. TypeOK'
    BY <1>1, <1>2, <1>4, <1>5, <2>1, <2>2 DEF IInv, TypeOK
  <2>. QED  BY <1>1, <1>2, <2>1, <2>3, OutsideInv
<1>7. CASE Return(c)
  <2>1. /\ pc' = [pc EXCEPT ![c] = "done"]
        /\ pc' \in [Calls -> {"idle", "try", "closed", "rebuild", "retry",
                               "healthy", "done"}]
        /\ server' \in [Calls -> Servers \cup {None}]
        /\ seen' \in [Calls -> 0..opened]
        /\ ServerInv'
    BY <1>7, ReturnFacts
  <2>2. \A d \in Calls : pc'[d] # "rebuild"
    BY <1>1, <2>1, CallsAssumption DEF IInv, TypeOK
  <2>3. seen' \in [Calls -> 0..opened']
    <3>1. \A d \in Calls : seen'[d] \in 0..opened'
      BY <1>1, <1>2, <2>1
    <3>. QED  BY <2>1, <3>1
  <2>4. TypeOK'
    BY <1>1, <1>2, <1>4, <1>5, <2>1, <2>2, <2>3 DEF IInv, TypeOK
  <2>. QED  BY <1>1, <1>2, <2>1, <2>4, OutsideInv
<1>. QED  BY <1>3, <1>6, <1>7

-----------------------------------------------------------------------------
(* The theorems.                                                           *)

\* Every step keeps the invariant.
LEMMA NextInv == IInv /\ [Next]_vars => IInv'
<1>. SUFFICES ASSUME IInv, [Next]_vars PROVE IInv'
  OBVIOUS
<1>1. CASE UNCHANGED vars
  <2>1. TypeOK' /\ ServerInv' /\ now' = now /\ now \in Nat
    BY <1>1, BoundsAssumption
       DEF vars, coordinator, callers, world, history, IInv, TypeOK, ServerInv
  <2>. QED  BY <1>1, <2>1, OutsideInv DEF vars, coordinator, history, world
<1>2. ASSUME NEW c \in Calls, Step(c) \/ Raised(c) \/ RebuildCancelled(c) PROVE IInv'
  BY <1>2, CallInv, ReconnectInv, RebuiltInv, MarkHealthyInv DEF Step
<1>3. ASSUME NEW c \in Calls, NEW s \in Servers, Begin(c, s) PROVE IInv'
  BY <1>3, CallInv, DeferInv DEF Begin
<1>4. CASE Tick \/ \E s \in Servers : RemoteCloses(s)
  BY <1>4, WorldInv
<1>. QED  BY <1>1, <1>2, <1>3, <1>4 DEF Next

\* IInv is an invariant: an entry always counts at least the rebuilds since
\* the last discovery and dates from the last of them (mcp_recovery.py:75-90).
THEOREM Inductive == Spec => []IInv
  BY InitInv, NextInv, PTL DEF Spec

\* The variables keep their types, and the lock is held exactly by the call
\* that rebuilds (mcp_recovery.py:77-112).
THEOREM TypeCorrect == Spec => []TypeOK
<1>1. IInv => TypeOK
  BY DEF IInv
<1>. QED  BY <1>1, Inductive, PTL

\* Rebuilds for one server keep the exponential distance, whatever the
\* interleaving of callers, cancellations and recoveries
\* (mcp_recovery.py:75-90, 133-144).
THEOREM RebuildsAreSpaced == Spec => RebuildsSpaced
<1>. DEFINE Spaced ==
       \A s \in Servers :
         streak'[s] > streak[s] =>
           \/ started[s] = None
           \/ now >= started[s] + Delay(IF streak[s] = 0 THEN 1 ELSE streak[s])
<1>1. ASSUME IInv, [Next]_vars PROVE [Spaced]_vars
  <2>. SUFFICES ASSUME Next, NEW s \in Servers, streak'[s] > streak[s]
                PROVE  \/ started[s] = None
                       \/ now >= started[s] + Delay(IF streak[s] = 0 THEN 1 ELSE streak[s])
    BY <1>1
  <2>1. streak[s] \in Nat /\ streak \in [Servers -> Nat]
    BY <1>1 DEF IInv, TypeOK
  <2>2. streak' # streak
    BY <2>1
  <2>3. PICK c \in Calls : Reconnect(c) \/ MarkHealthy(c)
    BY <2>2 DEF Next, Step, Begin, Defer, CallTool, Answered, FoundClosed, Raised,
         RebuildCancelled, Rebuilt, RemoteCloses, Tick, history
  <2>4. ~MarkHealthy(c)
    <3>1. CASE streak' = [streak EXCEPT ![server[c]] = 0]
      BY <2>1, <3>1
    <3>. QED  BY <3>1 DEF MarkHealthy
  <2>5. pc[c] = "closed" /\ ~CoolingDown(server[c]) /\ BeginRebuild(c)
    BY <2>2, <2>3, <2>4 DEF Reconnect, history
  <2>6. s = server[c]
    BY <2>1, <2>5 DEF BeginRebuild
  <2>. QED  BY <1>1, <2>5, <2>6, LateEnough
<1>. QED  BY <1>1, Inductive, PTL DEF Spec, RebuildsSpaced

=============================================================================
