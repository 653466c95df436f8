------------------------- MODULE AssistantLedsProofs -------------------------
(***************************************************************************)
(* Theorems about AssistantLeds for any set of lifecycles, finite or not,  *)
(* with or without the pulse and with any number of failing calls.         *)
(***************************************************************************)
EXTENDS AssistantLeds, FiniteSetTheorems, SequenceTheorems, TLAPS

(* The inductive invariant, part by part.                                  *)

\* The lifecycles that think they use the light.
Users == {j \in Jobs : pc[j] \in {"activate", "busy"}}

\* A session has no more users than there are; as long as no call failed it
\* has exactly these, and one that is being activated is still registered.
UserInv ==
  ~closing =>
    /\ IsFiniteSet(Users)
    /\ current # None => refcount[current] <= Cardinality(Users)
    /\ failures = 0 =>
         /\ current = None => Users = {}
         /\ current # None => refcount[current] = Cardinality(Users)
         /\ \A j \in Jobs : pc[j] = "activate" => current = j

\* What a task restores is a session that was begun, and one that is relit
\* was off; nothing is begun after the shutdown.
RestoringInv ==
  /\ \A t \in Tasks : pc[t] \in {"unpulse", "relight"} => restoring[t] \in Jobs
  /\ \A t \in Tasks : restoring[t] # None => pc[restoring[t]] # "idle"
  /\ current # None => pc[current] # "idle"
  /\ \A t \in Tasks : pc[t] = "relight" => ~snap[restoring[t]].on
  /\ pc[Stop] \in {"idle", "unpulse", "relight", "restore", "done"}
  /\ closing => \A j \in Jobs : pc[j] # "activate"

\* Carried out on a light with settings first, the calls leave it with look.
Leaves(calls, first, look) ==
  \E i \in 0 .. Len(calls) :
    /\ (IF i = 0 THEN first ELSE calls[i].look) = look
    /\ \A k \in i + 1 .. Len(calls) : calls[k].look = "keep"

\* Once no session is left and none is about to be restored, the calls sent
\* give the settings back that all sessions had saved, and, when no second
\* call is to come, the last of them switches the light as it was.  A blink
\* would have to come from a pulse that outlived its session.
GivenBackInv ==
  /\ ~closing /\ failures = 0 /\ current = None
  /\ \A t \in Tasks : pc[t] # "unpulse"
  /\ \A s, u \in Jobs : snap[s] = snap[u]
  => \A s \in Jobs :
       /\ snap[s].look # "none" => Leaves(wire, light.look, snap[s].look)
       /\ (\A t \in Tasks : pc[t] # "relight") =>
            (IF wire = <<>> THEN light ELSE wire[Len(wire)]).on = snap[s].on

IInv == UserInv /\ RestoringInv /\ RestoreIsLast /\ GivenBackInv

-----------------------------------------------------------------------------

\* A call more on the wire, and the calls and events that are left.
LEMMA Sequenced ==
  ASSUME NEW S, NEW s \in Seq(S)
  PROVE  /\ \A e \in S : Append(s, e) \in Seq(S)
         /\ s # <<>> => Head(s) \in S /\ Tail(s) \in Seq(S)
  OBVIOUS

\* A call sent is the last one.
LEMMA Appended ==
  ASSUME NEW S, NEW s \in Seq(S), NEW e
  PROVE  Append(s, e) # <<>> /\ Append(s, e)[Len(Append(s, e))] = e
  OBVIOUS

\* The last of several calls stays the last when the first is carried out.
LEMMA LastOfTail ==
  ASSUME NEW S, NEW s \in Seq(S), s # <<>>
  PROVE  /\ Len(s) = 1 => Tail(s) = <<>> /\ Head(s) = s[Len(s)]
         /\ Len(s) # 1 => Tail(s) # <<>> /\ Tail(s)[Len(Tail(s))] = s[Len(s)]
<1>1. /\ Tail(s) \in Seq(S) /\ Head(s) = s[1]
      /\ Len(Tail(s)) = Len(s) - 1
      /\ \A i \in 1 .. Len(Tail(s)) : Tail(s)[i] = s[i + 1]
  BY HeadTailProperties
<1>2. Len(s) \in Nat /\ Len(s) # 0
  BY EmptySeq, LenProperties
<1>3. CASE Len(s) = 1
  <2>1. Len(Tail(s)) = 0
    BY <1>1, <1>3
  <2>2. \A q \in Seq(S) : q # <<>> => Len(q) # 0
    BY EmptySeq
  <2>3. Tail(s) = <<>>
    BY <1>1, <2>1, <2>2
  <2>. QED
    BY <1>1, <1>3, <2>3
<1>4. CASE Len(s) # 1
  <2>. DEFINE n == Len(Tail(s))
  <2>1. n \in Nat /\ n # 0 /\ n + 1 = Len(s)
    BY <1>1, <1>2, <1>4
  <2>2. Tail(s)[n] = s[n + 1]
    BY <1>1, <2>1
  <2>. QED
    BY <1>1, <1>4, <2>1, <2>2, EmptySeq
<1>. QED
  BY <1>3, <1>4

\* A call with settings decides them, one without leaves them alone.
LEMMA LeavesAppend ==
  ASSUME NEW q \in Seq(Call), NEW e \in Call, NEW first, NEW look
  PROVE  /\ e.look = look => Leaves(Append(q, e), first, look)
         /\ e.look = "keep" /\ Leaves(q, first, look)
              => Leaves(Append(q, e), first, look)
<1>. DEFINE n == Len(q)
            r == Append(q, e)
<1>1. /\ n \in Nat /\ Len(r) = n + 1 /\ r[n + 1] = e
      /\ \A i \in 1 .. n : r[i] = q[i]
  OBVIOUS
<1>. HIDE DEF n, r
<1>2. ASSUME e.look = look PROVE Leaves(r, first, look)
  <2>1. n + 1 \in 0 .. Len(r) /\ n + 1 # 0 /\ (n + 1) + 1 .. Len(r) = {}
    BY <1>1
  <2>. QED
    BY <1>1, <1>2, <2>1 DEF Leaves
<1>3. ASSUME e.look = "keep", Leaves(q, first, look) PROVE Leaves(r, first, look)
  <2>1. PICK i \in 0 .. n : /\ (IF i = 0 THEN first ELSE q[i].look) = look
                            /\ \A k \in i + 1 .. n : q[k].look = "keep"
    BY <1>3 DEF Leaves, n
  <2>2. i \in 0 .. Len(r) /\ (i # 0 => r[i] = q[i])
    BY <1>1
  <2>3. \A k \in i + 1 .. Len(r) : r[k].look = "keep"
    <3>. SUFFICES ASSUME NEW k \in i + 1 .. Len(r) PROVE r[k].look = "keep"
      OBVIOUS
    <3>1. CASE k = n + 1
      BY <1>1, <1>3, <3>1
    <3>2. CASE k # n + 1
      <4>1. k \in i + 1 .. n /\ k \in 1 .. n
        BY <1>1, <3>2
      <4>. QED
        BY <1>1, <2>1, <4>1
    <3>. QED
      BY <3>1, <3>2
  <2>. QED
    BY <2>1, <2>2, <2>3 DEF Leaves
<1>. QED
  BY <1>2, <1>3 DEF r

\* The first call carried out, the others leave the same settings.
LEMMA LeavesTail ==
  ASSUME NEW q \in Seq(Call), q # <<>>, NEW first, NEW look, look # "keep",
         Leaves(q, first, look)
  PROVE  Leaves(Tail(q), IF Head(q).look = "keep" THEN first ELSE Head(q).look,
                look)
<1>. DEFINE n == Len(q)
            r == Tail(q)
            next == IF Head(q).look = "keep" THEN first ELSE Head(q).look
<1>1. /\ Head(q) = q[1] /\ Len(r) = n - 1
      /\ \A i \in 1 .. Len(r) : r[i] = q[i + 1]
  BY HeadTailProperties
<1>2. n \in Nat /\ n # 0
  BY EmptySeq, LenProperties
<1>3. PICK i \in 0 .. n : /\ (IF i = 0 THEN first ELSE q[i].look) = look
                          /\ \A k \in i + 1 .. n : q[k].look = "keep"
  BY DEF Leaves
<1>4. next = IF q[1].look = "keep" THEN first ELSE q[1].look
  BY <1>1
<1>. HIDE DEF n, r, next
<1>. DEFINE m == IF i = 0 THEN 0 ELSE i - 1
<1>5. m \in 0 .. Len(r) /\ m + 1 >= i
  BY <1>1, <1>2
<1>6. (IF m = 0 THEN next ELSE r[m].look) = look
  <2>1. CASE i = 0
    <3>1. 1 \in i + 1 .. n
      BY <1>2, <2>1
    <3>2. q[1].look = "keep"
      BY <1>3, <3>1
    <3>. QED
      BY <1>3, <1>4, <2>1, <3>2
  <2>2. CASE i = 1
    BY <1>3, <1>4, <2>2
  <2>3. CASE i \notin {0, 1}
    <3>1. m \in 1 .. Len(r) /\ m + 1 = i /\ m # 0
      BY <1>1, <1>2, <2>3
    <3>2. r[m] = q[i]
      BY <1>1, <3>1
    <3>. QED
      BY <1>3, <2>3, <3>1, <3>2
  <2>. QED
    BY <2>1, <2>2, <2>3
<1>7. \A k \in m + 1 .. Len(r) : r[k].look = "keep"
  <2>. SUFFICES ASSUME NEW k \in m + 1 .. Len(r) PROVE r[k].look = "keep"
    OBVIOUS
  <2>1. k + 1 \in i + 1 .. n /\ k \in 1 .. Len(r)
    BY <1>1, <1>2, <1>5
  <2>. QED
    BY <1>1, <1>3, <2>1
<1>. HIDE DEF m
<1>. QED
  BY <1>5, <1>6, <1>7 DEF Leaves, r, next

\* What is sent is a call.
LEMMA Issued ==
  ASSUME TypeOK, NEW on \in BOOLEAN, NEW look \in {"own", "temp", "keep"},
         NEW t \in Tasks, NEW p \in BOOLEAN, Issue(on, look, t, p)
  PROVE  wire' \in Seq(Call)
<1>1. [on |-> on, look |-> look, by |-> t, pulse |-> p] \in Call
  BY DEF Call
<1>. QED
  BY <1>1, Sequenced DEF TypeOK, Issue

\* The first call of a restore has the settings of the snapshot; it is the
\* only one if the light was on, or was off and shows no settings to restore.
LEMMA RestoreCalled ==
  ASSUME TypeOK, NEW t \in Tasks, NEW s \in Jobs, RestoreCall(t, s)
  PROVE  \E e \in Call :
           /\ wire' = Append(wire, e) /\ wire' \in Seq(Call)
           /\ snap[s].look # "none" => e.look = snap[s].look
           /\ \/ pc' = [pc EXCEPT ![t] = "relight"] /\ ~snap[s].on
              \/ pc' = [pc EXCEPT ![t] = "restore"] /\ e.on = snap[s].on
<1>1. /\ snap[s].on \in BOOLEAN /\ snap[s].look \in {"own", "temp", "none"}
  BY DEF TypeOK, State
<1>2. PICK neutral \in BOOLEAN :
        LET relight == Relights(s, neutral)
            on == snap[s].on \/ relight
        IN  /\ Issue(on, IF on THEN Settings(s) ELSE "keep", t, FALSE)
            /\ pc' = [pc EXCEPT ![t] = IF relight THEN "relight" ELSE "restore"]
  BY DEF RestoreCall
<1>. DEFINE relight == Relights(s, neutral)
            on == snap[s].on \/ relight
            look == IF on THEN Settings(s) ELSE "keep"
            e == [on |-> on, look |-> look, by |-> t, pulse |-> FALSE]
<1>3. relight \in BOOLEAN /\ (relight <=> ~snap[s].on /\ (snap[s].look # "none" \/ neutral))
  BY <1>1 DEF Relights
<1>4. on \in BOOLEAN /\ look \in {"own", "temp", "keep"}
  BY <1>1, <1>3 DEF Settings
<1>5. snap[s].look # "none" => look = snap[s].look
  BY <1>1, <1>3 DEF Settings
<1>6. Issue(on, look, t, FALSE) /\ pc' = [pc EXCEPT ![t] = IF relight THEN "relight" ELSE "restore"]
  BY <1>2
<1>7. ~relight => on = snap[s].on
  BY <1>1, <1>3
<1>. HIDE DEF relight, on, look
<1>8. e \in Call /\ e.look = look /\ e.on = on
  BY <1>4 DEF Call
<1>9. wire' = Append(wire, e) /\ wire' \in Seq(Call)
  BY <1>4, <1>6, Issued DEF Issue
<1>. QED
  BY <1>3, <1>5, <1>6, <1>7, <1>8, <1>9

\* Every step keeps every variable in its type, and a registered session its
\* users.
LEMMA TypeStep ==
  ASSUME TypeOK, RestoringInv, [Next]_vars
  PROVE  TypeOK'
<1>. USE TasksAssumption, SettingsAssumption DEF TypeOK, Tasks, vars, leds, tasks, world
<1>1. ASSUME NEW t \in Tasks, Join(t) PROVE TypeOK'
  BY <1>1 DEF Join
<1>2. ASSUME NEW t \in Tasks, Create(t) PROVE TypeOK'
  <2>1. wire' \in Seq(Call)
    BY <1>2, Issued DEF Create
  <2>. QED
    BY <1>2, <2>1 DEF Create
<1>3. ASSUME NEW t \in Tasks, BeginFails(t) PROVE TypeOK'
  BY <1>3 DEF BeginFails
<1>4. ASSUME NEW t \in Tasks, Activated(t) PROVE TypeOK'
  BY <1>4 DEF Activated
<1>5. ASSUME NEW t \in Tasks, ActivateFails(t) PROVE TypeOK'
  BY <1>5 DEF ActivateFails
<1>6. ASSUME NEW t \in Tasks, EndLast(t) PROVE TypeOK'
  BY <1>6 DEF EndLast
<1>7. ASSUME NEW t \in Tasks, EndOther(t) PROVE TypeOK'
  <2>1. CASE current = None /\ UNCHANGED refcount
    BY <1>7, <2>1 DEF EndOther
  <2>2. CASE /\ current # None /\ refcount[current] > 1
             /\ refcount' = [refcount EXCEPT ![current] = @ - 1]
    <3>1. current \in Jobs /\ refcount[current] \in Nat /\ refcount[current] - 1 \in Nat \ {0}
      BY <2>2
    <3>2. refcount' \in [Jobs -> Nat] /\ refcount'[current] > 0
      BY <2>2, <3>1
    <3>. QED
      BY <1>7, <3>2 DEF EndOther
  <2>. QED
    BY <1>7, <2>1, <2>2 DEF EndOther
<1>8. ASSUME NEW t \in Tasks, Restore(t) PROVE TypeOK'
  <2>1. restoring[t] \in Jobs
    BY <1>8 DEF Restore, RestoringInv
  <2>2. /\ wire' \in Seq(Call)
        /\ pc' \in [Tasks -> {"idle", "activate", "busy", "unpulse", "relight",
                             "restore", "done"}]
    BY <1>8, <2>1, RestoreCalled DEF Restore
  <2>. QED
    BY <1>8, <2>1, <2>2 DEF Restore
<1>9. ASSUME NEW t \in Tasks, Restored(t) PROVE TypeOK'
  BY <1>9 DEF Restored
<1>18. ASSUME NEW t \in Tasks, Relit(t) PROVE TypeOK'
  <2>1. wire' \in Seq(Call)
    BY <1>18, Issued DEF Relit
  <2>. QED
    BY <1>18, <2>1 DEF Relit
<1>10. ASSUME NEW t \in Jobs, Blink(t) PROVE TypeOK'
  <2>1. wire' \in Seq(Call)
    BY <1>10, Issued DEF Blink
  <2>. QED
    BY <1>10, <2>1 DEF Blink
<1>11. ASSUME NEW t \in Jobs, Blinked(t) PROVE TypeOK'
  BY <1>11 DEF Blinked
<1>12. ASSUME NEW t \in Jobs, BlinkFails(t) PROVE TypeOK'
  BY <1>12 DEF BlinkFails
<1>13. CASE HaActs
  <2>1. Head(wire) \in Call /\ Tail(wire) \in Seq(Call)
    BY <1>13, Sequenced DEF HaActs
  <2>2. light' \in Light
    BY <1>13, <2>1 DEF HaActs, Call, Light
  <2>3. Shown(light') \in State
    BY <2>2 DEF Shown, Light, State
  <2>4. events' \in Seq(State)
    BY <1>13, <2>3, Sequenced DEF HaActs
  <2>. QED
    BY <1>13, <2>1, <2>2, <2>4 DEF HaActs
<1>14. CASE ReadEvent
  <2>1. Head(events) \in State /\ Tail(events) \in Seq(State)
    BY <1>14, Sequenced DEF ReadEvent
  <2>. QED
    BY <1>14, <2>1 DEF ReadEvent
<1>15. CASE Close
  BY <1>15 DEF Close
<1>16. CASE StopAll
  <2>1. CASE current = None
    BY <1>16, <2>1 DEF StopAll
  <2>2. CASE current # None
    <3>1. current \in Jobs
      BY <2>2
    <3>2. /\ refcount' = [refcount EXCEPT ![current] = 0]
          /\ restoring' = [restoring EXCEPT ![Stop] = current]
          /\ pc' = [pc EXCEPT ![Stop] = "unpulse"]
      BY <1>16, <2>2 DEF StopAll
    <3>3. refcount' \in [Jobs -> Nat] /\ restoring' \in [Tasks -> Jobs \cup {None}]
      BY <3>1, <3>2
    <3>4. pc' \in [Tasks -> {"idle", "activate", "busy", "unpulse", "relight", "restore", "done"}]
      BY <3>2
    <3>. QED
      BY <1>16, <3>3, <3>4 DEF StopAll
  <2>. QED
    BY <2>1, <2>2
<1>17. CASE UNCHANGED vars
  BY <1>17
<1>. QED
  BY <1>1, <1>2, <1>3, <1>4, <1>5, <1>6, <1>7, <1>8, <1>9, <1>10, <1>11, <1>12, <1>13, <1>14, <1>15, <1>16, <1>17, <1>18
  DEF Next, TaskStep, PulseStep

\* Every step keeps what is restored a session.
LEMMA RestoringStep ==
  ASSUME TypeOK, RestoringInv, [Next]_vars
  PROVE  RestoringInv'
<1>. USE TasksAssumption DEF TypeOK, RestoringInv, Tasks, vars, leds, tasks, world
<1>1. ASSUME NEW t \in Tasks, Join(t) PROVE RestoringInv'
  BY <1>1 DEF Join
<1>2. ASSUME NEW t \in Tasks, Create(t) PROVE RestoringInv'
  BY <1>2 DEF Create, Issue
<1>3. ASSUME NEW t \in Tasks, BeginFails(t) PROVE RestoringInv'
  BY <1>3 DEF BeginFails
<1>4. ASSUME NEW t \in Tasks, Activated(t) PROVE RestoringInv'
  BY <1>4 DEF Activated
<1>5. ASSUME NEW t \in Tasks, ActivateFails(t) PROVE RestoringInv'
  BY <1>5 DEF ActivateFails
<1>6. ASSUME NEW t \in Tasks, EndLast(t) PROVE RestoringInv'
  BY <1>6 DEF EndLast
<1>7. ASSUME NEW t \in Tasks, EndOther(t) PROVE RestoringInv'
  BY <1>7 DEF EndOther
<1>8. ASSUME NEW t \in Tasks, Restore(t) PROVE RestoringInv'
  <2>1. restoring[t] \in Jobs /\ pc[t] = "unpulse"
    BY <1>8 DEF Restore
  <2>2. \/ pc' = [pc EXCEPT ![t] = "relight"] /\ ~snap[restoring[t]].on
        \/ pc' = [pc EXCEPT ![t] = "restore"]
    BY <1>8, <2>1, RestoreCalled DEF Restore
  <2>3. UNCHANGED <<current, snap, restoring, closing>>
    BY <1>8 DEF Restore
  <2>4. /\ pc'[t] \in {"relight", "restore"}
        /\ pc'[t] = "relight" => ~snap[restoring[t]].on
        /\ \A u \in Tasks \ {t} : pc'[u] = pc[u]
    BY <2>2
  <2>5. \A u \in Tasks : pc[u] # "idle" => pc'[u] # "idle"
    BY <2>4
  <2>6. /\ \A u \in Tasks : pc'[u] \in {"unpulse", "relight"} => restoring[u] \in Jobs
        /\ \A u \in Tasks : pc'[u] = "relight" => ~snap[restoring[u]].on
        /\ pc'[Stop] \in {"idle", "unpulse", "relight", "restore", "done"}
        /\ closing => \A j \in Jobs : pc'[j] # "activate"
    BY <2>1, <2>4
  <2>7. /\ \A u \in Tasks : restoring[u] # None => pc'[restoring[u]] # "idle"
        /\ current # None => pc'[current] # "idle"
    BY <2>5
  <2>. QED
    BY <2>3, <2>6, <2>7
<1>9. ASSUME NEW t \in Tasks, Restored(t) PROVE RestoringInv'
  BY <1>9 DEF Restored
<1>18. ASSUME NEW t \in Tasks, Relit(t) PROVE RestoringInv'
  BY <1>18 DEF Relit, Issue
<1>10. ASSUME NEW t \in Jobs, Blink(t) PROVE RestoringInv'
  BY <1>10 DEF Blink, Issue
<1>11. ASSUME NEW t \in Jobs, Blinked(t) PROVE RestoringInv'
  BY <1>11 DEF Blinked
<1>12. ASSUME NEW t \in Jobs, BlinkFails(t) PROVE RestoringInv'
  BY <1>12 DEF BlinkFails
<1>13. CASE HaActs
  BY <1>13 DEF HaActs
<1>14. CASE ReadEvent
  BY <1>14 DEF ReadEvent
<1>15. CASE Close
  BY <1>15 DEF Close
<1>16. CASE StopAll
  BY <1>16 DEF StopAll
<1>17. CASE UNCHANGED vars
  BY <1>17
<1>. QED
  BY <1>1, <1>2, <1>3, <1>4, <1>5, <1>6, <1>7, <1>8, <1>9, <1>10, <1>11, <1>12, <1>13, <1>14, <1>15, <1>16, <1>17, <1>18
  DEF Next, TaskStep, PulseStep

\* A pulse that is not the registered session's is about to be stopped.
LEMMA Stopper ==
  ASSUME RestoreIsLast, failures = 0, NEW s \in Jobs, pulse[s] \in {"sleep", "call"}, current # s
  PROVE  \E u \in Tasks : restoring[u] = s /\ pc[u] = "unpulse"
  BY DEF RestoreIsLast

\* Every step leaves a pulse to the registered session or to the task that
\* is about to stop it.
LEMMA LastStep ==
  ASSUME TypeOK, UserInv, RestoringInv, RestoreIsLast, [Next]_vars
  PROVE  RestoreIsLast'
<1>. USE TasksAssumption DEF TypeOK, RestoringInv, RestoreIsLast, Tasks, vars, leds, tasks, world
<1>1. ASSUME NEW t \in Tasks, Join(t) PROVE RestoreIsLast'
  BY <1>1 DEF Join
<1>2. ASSUME NEW t \in Tasks, Create(t) PROVE RestoreIsLast'
  <2>. SUFFICES ASSUME failures' = 0, NEW s \in Jobs, pulse'[s] \in {"sleep", "call"}
                PROVE  \/ current' = s
                       \/ \E u \in Tasks : restoring'[u] = s /\ pc'[u] = "unpulse"
    BY DEF RestoreIsLast
  <2>1. failures = 0 /\ pulse[s] \in {"sleep", "call"} /\ current # s
    BY <1>2 DEF Create
  <2>2. PICK u \in Tasks : restoring[u] = s /\ pc[u] = "unpulse"
    BY <2>1, Stopper
  <2>3. restoring'[u] = s /\ pc'[u] = "unpulse"
    BY <1>2, <2>2 DEF Create
  <2>. QED
    BY <2>3
<1>3. ASSUME NEW t \in Tasks, BeginFails(t) PROVE RestoreIsLast'
  BY <1>3 DEF BeginFails
<1>4. ASSUME NEW t \in Tasks, Activated(t) PROVE RestoreIsLast'
  BY <1>4 DEF Activated, UserInv
<1>5. ASSUME NEW t \in Tasks, ActivateFails(t) PROVE RestoreIsLast'
  BY <1>5 DEF ActivateFails
<1>6. ASSUME NEW t \in Tasks, EndLast(t) PROVE RestoreIsLast'
  BY <1>6 DEF EndLast
<1>7. ASSUME NEW t \in Tasks, EndOther(t) PROVE RestoreIsLast'
  BY <1>7 DEF EndOther
<1>8. ASSUME NEW t \in Tasks, Restore(t) PROVE RestoreIsLast'
  <2>. SUFFICES ASSUME failures' = 0, NEW s \in Jobs, pulse'[s] \in {"sleep", "call"}
                PROVE  \/ current' = s
                       \/ \E u \in Tasks : restoring'[u] = s /\ pc'[u] = "unpulse"
    BY DEF RestoreIsLast
  <2>0. UNCHANGED <<current, restoring, failures>> /\ restoring[t] \in Jobs
    BY <1>8 DEF Restore
  <2>1. /\ pulse' = [pulse EXCEPT ![restoring[t]] = IF @ = "none" THEN "none" ELSE "ended"]
        /\ \/ pc' = [pc EXCEPT ![t] = "relight"]
           \/ pc' = [pc EXCEPT ![t] = "restore"]
    BY <1>8, <2>0, RestoreCalled DEF Restore
  <2>2. s # restoring[t] /\ pulse[s] \in {"sleep", "call"}
    BY <2>0, <2>1
  <2>3. CASE current = s
    BY <2>0, <2>3
  <2>4. CASE current # s
    <3>1. PICK u \in Tasks : restoring[u] = s /\ pc[u] = "unpulse"
      BY <2>0, <2>2, <2>4, Stopper
    <3>2. u # t
      BY <2>2, <3>1
    <3>3. restoring'[u] = s /\ pc'[u] = "unpulse"
      BY <2>0, <2>1, <3>1, <3>2
    <3>. QED
      BY <3>3
  <2>. QED
    BY <2>3, <2>4
<1>9. ASSUME NEW t \in Tasks, Restored(t) PROVE RestoreIsLast'
  BY <1>9 DEF Restored
<1>18. ASSUME NEW t \in Tasks, Relit(t) PROVE RestoreIsLast'
  BY <1>18 DEF Relit, Issue
<1>10. ASSUME NEW t \in Jobs, Blink(t) PROVE RestoreIsLast'
  BY <1>10 DEF Blink, Issue
<1>11. ASSUME NEW t \in Jobs, Blinked(t) PROVE RestoreIsLast'
  BY <1>11 DEF Blinked
<1>12. ASSUME NEW t \in Jobs, BlinkFails(t) PROVE RestoreIsLast'
  BY <1>12 DEF BlinkFails
<1>13. CASE HaActs
  BY <1>13 DEF HaActs
<1>14. CASE ReadEvent
  BY <1>14 DEF ReadEvent
<1>15. CASE Close
  BY <1>15 DEF Close
<1>16. CASE StopAll
  <2>. SUFFICES ASSUME failures' = 0, NEW s \in Jobs, pulse'[s] \in {"sleep", "call"}
                PROVE  \/ current' = s
                       \/ \E u \in Tasks : restoring'[u] = s /\ pc'[u] = "unpulse"
    BY DEF RestoreIsLast
  <2>1. /\ failures = 0 /\ pulse[s] \in {"sleep", "call"} /\ Stop \in Tasks /\ pc[Stop] = "idle"
        /\ \A u \in Tasks \ {Stop} : pc'[u] = pc[u] /\ restoring'[u] = restoring[u]
    BY <1>16 DEF StopAll
  <2>2. CASE current = s
    <3>1. restoring'[Stop] = s /\ pc'[Stop] = "unpulse"
      BY <1>16, <2>1, <2>2 DEF StopAll
    <3>. QED
      BY <2>1, <3>1
  <2>3. CASE current # s
    <3>1. PICK u \in Tasks : restoring[u] = s /\ pc[u] = "unpulse"
      BY <2>1, <2>3, Stopper
    <3>2. restoring'[u] = s /\ pc'[u] = "unpulse"
      BY <2>1, <3>1
    <3>. QED
      BY <3>2
  <2>. QED
    BY <2>2, <2>3
<1>17. CASE UNCHANGED vars
  BY <1>17
<1>. QED
  BY <1>1, <1>2, <1>3, <1>4, <1>5, <1>6, <1>7, <1>8, <1>9, <1>10, <1>11, <1>12, <1>13, <1>14, <1>15, <1>16, <1>17, <1>18
  DEF Next, TaskStep, PulseStep

\* One user more, one user less.
LEMMA Counted ==
  ASSUME NEW S, IsFiniteSet(S), NEW x
  PROVE  /\ Cardinality(S) \in Nat
         /\ IsFiniteSet(S \cup {x}) /\ IsFiniteSet(S \ {x})
         /\ x \notin S => Cardinality(S \cup {x}) = Cardinality(S) + 1
         /\ x \in S => Cardinality(S \ {x}) = Cardinality(S) - 1
         /\ Cardinality(S) = 0 <=> S = {}
  BY FS_CardinalityType, FS_AddElement, FS_RemoveElement, FS_EmptySet

\* A step after which the users are the same, and the session with them.
LEMMA SameUsers ==
  ASSUME TypeOK, UserInv, UNCHANGED <<current, refcount, closing>>, Users' = Users,
         failures' \in Nat, failures' >= failures,
         \A j \in Jobs : pc'[j] = "activate" => pc[j] = "activate"
  PROVE  UserInv'
<1>1. failures' = 0 => failures = 0
  BY DEF TypeOK
<1>. QED
  BY <1>1 DEF UserInv

\* Every step keeps the count of users.
LEMMA UserStep ==
  ASSUME TypeOK, UserInv, RestoringInv, [Next]_vars
  PROVE  UserInv'
<1>. USE TasksAssumption, SettingsAssumption DEF Tasks, vars, leds, tasks, world
<1>a. failures \in Nat /\ pc \in [Tasks -> {"idle", "activate", "busy", "unpulse", "relight", "restore", "done"}]
  BY DEF TypeOK
<1>b. closing \/ IsFiniteSet(Users)
  BY DEF UserInv
<1>1. ASSUME NEW t \in Tasks, Join(t) PROVE UserInv'
  <2>1. Users' = Users \cup {t} /\ t \notin Users
    BY <1>1, <1>a DEF Join, Users
  <2>2. /\ IsFiniteSet(Users') /\ Cardinality(Users') = Cardinality(Users) + 1
        /\ Cardinality(Users) \in Nat
    BY <1>1, <1>b, <2>1, Counted DEF Join
  <2>3. refcount'[current] = refcount[current] + 1 /\ refcount[current] \in Nat
    BY <1>1 DEF Join, TypeOK
  <2>4. \A j \in Jobs : pc'[j] = "activate" => pc[j] = "activate"
    BY <1>1, <1>a DEF Join
  <2>. QED
    BY <1>1, <2>2, <2>3, <2>4 DEF Join, UserInv
<1>2. ASSUME NEW t \in Tasks, Create(t) PROVE UserInv'
  <2>1. Users' = Users \cup {t} /\ t \notin Users
    BY <1>2, <1>a DEF Create, Users
  <2>2. /\ IsFiniteSet(Users') /\ Cardinality(Users') = Cardinality(Users) + 1
        /\ Cardinality(Users) \in Nat /\ (Cardinality(Users) = 0 <=> Users = {})
    BY <1>2, <1>b, <2>1, Counted DEF Create
  <2>3. current' = t /\ refcount'[t] = 1 /\ t \in Jobs /\ t # None
    BY <1>2 DEF Create, TypeOK
  <2>4. \A j \in Jobs : pc'[j] = "activate" => j = t \/ pc[j] = "activate"
    BY <1>2, <1>a DEF Create
  <2>5. failures = 0 => \A j \in Jobs : pc[j] # "activate"
    <3>1. current = None /\ ~closing
      BY <1>2 DEF Create
    <3>. QED
      BY <3>1, <1>b DEF UserInv, Users
  <2>6. failures' = failures /\ current = None /\ ~closing
    BY <1>2 DEF Create
  <2>7. failures = 0 => Users = {}
    BY <2>6 DEF UserInv
  <2>. QED
    BY <1>2, <2>2, <2>3, <2>4, <2>5, <2>6, <2>7 DEF UserInv
<1>3. ASSUME NEW t \in Tasks, BeginFails(t) PROVE UserInv'
  <2>1. Users' = Users /\ \A j \in Jobs : pc'[j] = "activate" => pc[j] = "activate"
    BY <1>3, <1>a DEF BeginFails, Users
  <2>. QED
    BY <1>3, <1>a, <2>1, SameUsers DEF BeginFails
<1>4. ASSUME NEW t \in Tasks, Activated(t) PROVE UserInv'
  <2>1. Users' = Users /\ \A j \in Jobs : pc'[j] = "activate" => pc[j] = "activate"
    BY <1>4, <1>a DEF Activated, Users
  <2>. QED
    BY <1>4, <1>a, <2>1, SameUsers DEF Activated
<1>5. ASSUME NEW t \in Tasks, ActivateFails(t) PROVE UserInv'
  <2>1. Users' = Users \ {t}
    BY <1>5, <1>a DEF ActivateFails, Users
  <2>2. ~closing => IsFiniteSet(Users')
    BY <1>b, <2>1, Counted
  <2>3. current' = None /\ failures' = failures + 1 /\ closing' = closing
    BY <1>5 DEF ActivateFails
  <2>. QED
    BY <1>a, <2>2, <2>3 DEF UserInv
<1>6. ASSUME NEW t \in Tasks, EndLast(t) PROVE UserInv'
  <2>0. /\ pc' = [pc EXCEPT ![t] = "unpulse"] /\ t \in Jobs /\ pc[t] = "busy"
        /\ current' = None /\ current # None /\ refcount[current] <= 1
        /\ UNCHANGED <<failures, closing>>
    BY <1>6 DEF EndLast
  <2>1. Users' = Users \ {t} /\ t \in Users
    BY <2>0, <1>a DEF Users
  <2>2. ~closing => /\ IsFiniteSet(Users') /\ Cardinality(Users') = Cardinality(Users) - 1
                    /\ Cardinality(Users) \in Nat /\ (Cardinality(Users') = 0 <=> Users' = {})
    BY <1>b, <2>1, Counted
  <2>3. refcount[current] \in Nat
    BY <2>0 DEF TypeOK
  <2>4. ~closing /\ failures = 0 => Cardinality(Users) = refcount[current]
    BY <2>0 DEF UserInv
  <2>5. ~closing /\ failures = 0 => Users' = {}
    <3>. SUFFICES ASSUME ~closing, failures = 0 PROVE Users' = {}
      OBVIOUS
    <3>1. Cardinality(Users) > 0
      <4>1. Cardinality(Users) # 0
        BY <1>b, <2>1, Counted
      <4>. QED
        BY <4>1, <2>2
    <3>2. Cardinality(Users') = 0
      BY <3>1, <2>0, <2>2, <2>3, <2>4
    <3>. QED
      BY <2>2, <3>2
  <2>6. \A j \in Jobs : pc'[j] = "activate" => j \in Users'
    BY <2>0, <1>a DEF Users
  <2>. QED
    BY <2>0, <2>2, <2>5, <2>6 DEF UserInv
<1>7. ASSUME NEW t \in Tasks, EndOther(t) PROVE UserInv'
  <2>0. /\ pc' = [pc EXCEPT ![t] = "done"] /\ t \in Jobs /\ pc[t] = "busy"
        /\ UNCHANGED <<failures, closing, current>>
    BY <1>7 DEF EndOther
  <2>1. Users' = Users \ {t} /\ t \in Users
    BY <2>0, <1>a DEF Users
  <2>2. ~closing => /\ IsFiniteSet(Users') /\ Cardinality(Users') = Cardinality(Users) - 1
                    /\ Cardinality(Users) \in Nat
    BY <1>b, <2>1, Counted
  <2>3. \A j \in Jobs : pc'[j] = "activate" => pc[j] = "activate"
    BY <2>0, <1>a
  <2>4. CASE current = None
    <3>1. ~closing /\ failures = 0 => Users' = {}
      BY <2>1, <2>4 DEF UserInv
    <3>. QED
      BY <2>0, <2>2, <2>3, <2>4, <3>1 DEF UserInv
  <2>5. CASE current # None
    <3>1. current \in Jobs /\ refcount[current] \in Nat
      BY <2>5 DEF TypeOK
    <3>2. refcount'[current] = refcount[current] - 1
      BY <1>7, <2>5, <3>1 DEF EndOther, TypeOK
    <3>3. ~closing => refcount'[current] <= Cardinality(Users')
      BY <2>2, <2>5, <3>1, <3>2 DEF UserInv
    <3>4. ~closing /\ failures = 0 => refcount'[current] = Cardinality(Users')
      BY <2>2, <2>5, <3>1, <3>2 DEF UserInv
    <3>. QED
      BY <2>0, <2>2, <2>3, <2>5, <3>3, <3>4 DEF UserInv
  <2>. QED
    BY <2>4, <2>5
<1>8. ASSUME NEW t \in Tasks, Restore(t) PROVE UserInv'
  <2>0. /\ restoring[t] \in Jobs /\ pc[t] = "unpulse"
        /\ \/ pc' = [pc EXCEPT ![t] = "relight"]
           \/ pc' = [pc EXCEPT ![t] = "restore"]
    BY <1>8, RestoreCalled DEF Restore, RestoringInv
  <2>1. Users' = Users /\ \A j \in Jobs : pc'[j] = "activate" => pc[j] = "activate"
    BY <2>0, <1>a DEF Users
  <2>. QED
    BY <1>8, <1>a, <2>1, SameUsers DEF Restore
<1>9. ASSUME NEW t \in Tasks, Restored(t) PROVE UserInv'
  <2>1. Users' = Users /\ \A j \in Jobs : pc'[j] = "activate" => pc[j] = "activate"
    BY <1>9, <1>a DEF Restored, Users
  <2>2. failures' \in Nat /\ failures' >= failures
    BY <1>9, <1>a DEF Restored
  <2>. QED
    BY <1>9, <2>1, <2>2, SameUsers DEF Restored
<1>18. ASSUME NEW t \in Tasks, Relit(t) PROVE UserInv'
  <2>1. Users' = Users /\ \A j \in Jobs : pc'[j] = "activate" => pc[j] = "activate"
    BY <1>18, <1>a DEF Relit, Users
  <2>. QED
    BY <1>18, <1>a, <2>1, SameUsers DEF Relit
<1>10. ASSUME NEW t \in Jobs, Blink(t) PROVE UserInv'
  BY <1>10, <1>a, SameUsers DEF Blink, Users
<1>11. ASSUME NEW t \in Jobs, Blinked(t) PROVE UserInv'
  BY <1>11, <1>a, SameUsers DEF Blinked, Users
<1>12. ASSUME NEW t \in Jobs, BlinkFails(t) PROVE UserInv'
  BY <1>12, <1>a, SameUsers DEF BlinkFails, Users
<1>13. CASE HaActs
  BY <1>13, <1>a, SameUsers DEF HaActs, Users
<1>14. CASE ReadEvent
  BY <1>14, <1>a, SameUsers DEF ReadEvent, Users
<1>15. CASE Close
  BY <1>15 DEF Close, UserInv
<1>16. CASE StopAll
  BY <1>16 DEF StopAll, UserInv
<1>17. CASE UNCHANGED vars
  BY <1>17, <1>a, SameUsers DEF Users
<1>. QED
  BY <1>1, <1>2, <1>3, <1>4, <1>5, <1>6, <1>7, <1>8, <1>9, <1>10, <1>11, <1>12, <1>13, <1>14, <1>15, <1>16, <1>17, <1>18
  DEF Next, TaskStep, PulseStep

\* Every step leaves the settings and the state that are restored as those
\* the calls sent end in.
LEMMA GivenBackStep ==
  ASSUME TypeOK, UserInv, RestoringInv, RestoreIsLast, GivenBackInv, [Next]_vars
  PROVE  GivenBackInv'
<1>. USE TasksAssumption DEF Tasks, vars, leds, tasks, world
<1>a. pc \in [Tasks -> {"idle", "activate", "busy", "unpulse", "relight", "restore", "done"}]
      /\ failures \in Nat /\ wire \in Seq(Call)
  BY SettingsAssumption DEF TypeOK
<1>b. SUFFICES ASSUME ~closing', failures' = 0, current' = None,
                      \A t \in Tasks : pc'[t] # "unpulse",
                      \A s, u \in Jobs : snap'[s] = snap'[u]
               PROVE  GivenBackInv'
  BY DEF GivenBackInv
\* A step that changes neither the calls nor what was saved.
<1>c. ASSUME UNCHANGED <<closing, failures, current, light, wire, snap>>,
             \A t \in Tasks : pc[t] \in {"unpulse", "relight"} => pc'[t] = pc[t]
      PROVE  GivenBackInv'
  <2>1. /\ \A t \in Tasks : pc[t] # "unpulse"
        /\ (\A t \in Tasks : pc'[t] # "relight") => \A t \in Tasks : pc[t] # "relight"
    BY <1>b, <1>c
  <2>. QED
    BY <1>b, <1>c, <2>1 DEF GivenBackInv
<1>1. ASSUME NEW t \in Tasks, Join(t) PROVE GivenBackInv'
  BY <1>1, <1>a, <1>c DEF Join
<1>2. ASSUME NEW t \in Tasks, Create(t) PROVE GivenBackInv'
  BY <1>2, <1>b DEF Create
<1>3. ASSUME NEW t \in Tasks, BeginFails(t) PROVE GivenBackInv'
  BY <1>3, <1>a, <1>c DEF BeginFails
<1>4. ASSUME NEW t \in Tasks, Activated(t) PROVE GivenBackInv'
  BY <1>4, <1>a, <1>c DEF Activated
<1>5. ASSUME NEW t \in Tasks, ActivateFails(t) PROVE GivenBackInv'
  BY <1>5, <1>a, <1>b DEF ActivateFails
<1>6. ASSUME NEW t \in Tasks, EndLast(t) PROVE GivenBackInv'
  BY <1>6, <1>a, <1>b DEF EndLast
<1>7. ASSUME NEW t \in Tasks, EndOther(t) PROVE GivenBackInv'
  BY <1>7, <1>a, <1>c DEF EndOther
<1>8. ASSUME NEW t \in Tasks, Restore(t) PROVE GivenBackInv'
  <2>. DEFINE s == restoring[t]
  <2>1. s \in Jobs /\ RestoreCall(t, s) /\ snap' = snap /\ light' = light
    BY <1>8 DEF Restore, RestoringInv
  <2>. HIDE DEF s
  <2>2. PICK e \in Call :
          /\ wire' = Append(wire, e)
          /\ snap[s].look # "none" => e.look = snap[s].look
          /\ \/ pc' = [pc EXCEPT ![t] = "relight"] /\ ~snap[s].on
             \/ pc' = [pc EXCEPT ![t] = "restore"] /\ e.on = snap[s].on
    BY <2>1, RestoreCalled
  <2>. SUFFICES ASSUME NEW u \in Jobs
                PROVE  /\ snap'[u].look # "none" => Leaves(wire', light'.look, snap'[u].look)
                       /\ (\A v \in Tasks : pc'[v] # "relight") =>
                            (IF wire' = <<>> THEN light' ELSE wire'[Len(wire')]).on = snap'[u].on
    BY DEF GivenBackInv
  <2>3. snap'[u] = snap[s]
    BY <1>b, <2>1
  <2>4. snap[s].look # "none" => Leaves(wire', light'.look, snap[s].look)
    BY <1>a, <2>1, <2>2, LeavesAppend
  <2>5. (\A v \in Tasks : pc'[v] # "relight") => e.on = snap[s].on
    BY <1>a, <2>2
  <2>6. wire' # <<>> /\ wire'[Len(wire')] = e
    BY <1>a, <2>2, Appended
  <2>. QED
    BY <2>3, <2>4, <2>5, <2>6
<1>18. ASSUME NEW t \in Tasks, Relit(t) PROVE GivenBackInv'
  <2>. DEFINE e == [on |-> FALSE, look |-> "keep", by |-> t, pulse |-> FALSE]
  <2>1. /\ wire' = Append(wire, e) /\ pc[t] = "relight"
        /\ pc' = [pc EXCEPT ![t] = "restore"]
        /\ UNCHANGED <<snap, light, current, closing, failures>>
    BY <1>18 DEF Relit, Issue
  <2>2. e \in Call /\ e.look = "keep" /\ e.on = FALSE
    BY DEF Call
  <2>. HIDE DEF e
  <2>3. \A v \in Tasks : pc[v] # "unpulse"
    BY <1>a, <1>b, <2>1
  <2>. SUFFICES ASSUME NEW u \in Jobs
                PROVE  /\ snap'[u].look # "none" => Leaves(wire', light'.look, snap'[u].look)
                       /\ (\A v \in Tasks : pc'[v] # "relight") =>
                            (IF wire' = <<>> THEN light' ELSE wire'[Len(wire')]).on = snap'[u].on
    BY DEF GivenBackInv
  <2>4. snap[u].look # "none" => Leaves(wire, light.look, snap[u].look)
    BY <1>b, <2>1, <2>3 DEF GivenBackInv
  <2>5. snap[u].look # "none" => Leaves(wire', light.look, snap[u].look)
    BY <1>a, <2>1, <2>2, <2>4, LeavesAppend
  <2>6. snap[u].on = FALSE
    <3>1. restoring[t] \in Jobs /\ ~snap[restoring[t]].on
      BY <2>1 DEF RestoringInv
    <3>2. snap[u] = snap[restoring[t]] /\ snap[u].on \in BOOLEAN
      BY <1>b, <2>1, <3>1 DEF TypeOK, State
    <3>. QED
      BY <3>1, <3>2
  <2>7. wire' # <<>> /\ wire'[Len(wire')] = e
    BY <1>a, <2>1, Appended
  <2>. QED
    BY <2>1, <2>2, <2>5, <2>6, <2>7
<1>9. ASSUME NEW t \in Tasks, Restored(t) PROVE GivenBackInv'
  <2>1. failures' = failures /\ pc[t] = "restore"
    BY <1>9, <1>a, <1>b DEF Restored
  <2>. QED
    BY <1>9, <1>a, <1>c, <2>1 DEF Restored
<1>10. ASSUME NEW t \in Jobs, Blink(t) PROVE GivenBackInv'
  <2>1. /\ pulse[t] = "sleep" /\ UNCHANGED <<current, restoring, pc, failures>>
    BY <1>10 DEF Blink
  <2>2. current # t
    BY <1>b, <2>1
  <2>3. \E u \in Tasks : restoring[u] = t /\ pc[u] = "unpulse"
    BY <1>b, <2>1, <2>2, Stopper
  <2>. QED
    BY <1>b, <2>1, <2>3
<1>11. ASSUME NEW t \in Jobs, Blinked(t) PROVE GivenBackInv'
  BY <1>11, <1>c DEF Blinked
<1>12. ASSUME NEW t \in Jobs, BlinkFails(t) PROVE GivenBackInv'
  BY <1>12, <1>a, <1>b DEF BlinkFails
<1>13. CASE HaActs
  <2>. DEFINE c == Head(wire)
              new == IF c.look = "keep" THEN light.look ELSE c.look
  <2>1. /\ wire # <<>> /\ wire' = Tail(wire)
        /\ light' = [light EXCEPT !.on = c.on, !.look = new]
        /\ UNCHANGED <<current, closing, failures, snap, pc>>
    BY <1>13 DEF HaActs
  <2>2. light'.on = c.on /\ light'.look = new
    BY <2>1 DEF TypeOK, Light
  <2>. SUFFICES ASSUME NEW u \in Jobs
                PROVE  /\ snap'[u].look # "none" => Leaves(wire', light'.look, snap'[u].look)
                       /\ (\A v \in Tasks : pc'[v] # "relight") =>
                            (IF wire' = <<>> THEN light' ELSE wire'[Len(wire')]).on = snap'[u].on
    BY DEF GivenBackInv
  <2>3. /\ snap[u].look # "none" => Leaves(wire, light.look, snap[u].look)
        /\ (\A v \in Tasks : pc[v] # "relight") => wire[Len(wire)].on = snap[u].on
    BY <1>b, <2>1 DEF GivenBackInv
  <2>4. snap[u].look # "none" => Leaves(wire', light'.look, snap[u].look)
    <3>1. snap[u].look # "keep"
      BY DEF TypeOK, State
    <3>. QED
      BY <1>a, <2>1, <2>2, <2>3, <3>1, LeavesTail
  <2>5. (IF wire' = <<>> THEN light' ELSE wire'[Len(wire')]).on = wire[Len(wire)].on
    <3>1. CASE Len(wire) = 1
      BY <1>a, <2>1, <2>2, <3>1, LastOfTail
    <3>2. CASE Len(wire) # 1
      BY <1>a, <2>1, <3>2, LastOfTail
    <3>. QED
      BY <3>1, <3>2
  <2>. QED
    BY <2>1, <2>3, <2>4, <2>5
<1>14. CASE ReadEvent
  BY <1>14, <1>c DEF ReadEvent
<1>15. CASE Close
  BY <1>15, <1>b DEF Close
<1>16. CASE StopAll
  BY <1>16, <1>b DEF StopAll
<1>17. CASE UNCHANGED vars
  BY <1>17, <1>c
<1>. QED
  BY <1>1, <1>2, <1>3, <1>4, <1>5, <1>6, <1>7, <1>8, <1>9, <1>10, <1>11, <1>12, <1>13, <1>14, <1>15, <1>16, <1>17, <1>18
  DEF Next, TaskStep, PulseStep

-----------------------------------------------------------------------------
(* Theorems.                                                               *)

\* The strengthened invariant: sessions, users, pulses and restores agree.
THEOREM Inductive == Spec => [](TypeOK /\ IInv)
<1>1. Init => TypeOK /\ IInv
  <2>. SUFFICES ASSUME Init PROVE TypeOK /\ IInv
    OBVIOUS
  <2>. USE TasksAssumption, SettingsAssumption DEF Init, Tasks
  <2>1. TypeOK
    <3>1. light \in Light
      OBVIOUS
    <3>2. cache \in State /\ snap \in [Jobs -> State]
      BY <3>1 DEF Light, State, Shown
    <3>3. events \in Seq(State) /\ wire \in Seq(Call)
      OBVIOUS
    <3>4. /\ refcount \in [Jobs -> Nat] /\ blinks \in [Jobs -> 0..MaxBlinks]
          /\ failures \in 0..MaxFailures
      OBVIOUS
    <3>. QED
      BY <3>1, <3>2, <3>3, <3>4 DEF TypeOK
  <2>2. Users = {} /\ IsFiniteSet(Users)
    BY FS_EmptySet DEF Users
  <2>3. UserInv
    BY <2>2 DEF UserInv
  <2>4. RestoringInv /\ RestoreIsLast
    BY DEF RestoringInv, RestoreIsLast
  <2>5. GivenBackInv
    <3>1. 0 \in 0 .. Len(wire) /\ 0 + 1 .. Len(wire) = {}
      OBVIOUS
    <3>2. Leaves(wire, light.look, light.look)
      BY <3>1 DEF Leaves
    <3>3. \A s \in Jobs : snap[s].on = light.on
                        /\ (snap[s].look # "none" => snap[s].look = light.look)
      BY DEF Shown
    <3>. QED
      BY <3>2, <3>3 DEF GivenBackInv
  <2>. QED
    BY <2>1, <2>3, <2>4, <2>5 DEF IInv
<1>2. TypeOK /\ IInv /\ [Next]_vars => (TypeOK /\ IInv)'
  BY TypeStep, RestoringStep, LastStep, UserStep, GivenBackStep DEF IInv
<1>. QED
  BY <1>1, <1>2, PTL DEF Spec

\* Every reachable state is well typed, and a registered session has a user.
THEOREM TypeCorrect == Spec => []TypeOK
BY Inductive, PTL

\* However begin() and end() of the lifecycles, failing calls and the shutdown
\* interleave, a session that nobody uses is not left registered (controller.py:386-391, 495-513).
THEOREM NoSessionIsLeft == Spec => []NoSessionLeft
<1>1. TypeOK /\ IInv => NoSessionLeft
  <2>. SUFFICES ASSUME TypeOK, UserInv, ~closing, current # None,
                       \A j \in Jobs : pc[j] \notin {"activate", "busy"}
                PROVE  FALSE
    BY DEF IInv, NoSessionLeft
  <2>1. Users = {} /\ Cardinality(Users) = 0
    BY FS_EmptySet DEF Users
  <2>2. refcount[current] > 0 /\ refcount[current] \in Nat
    BY DEF TypeOK
  <2>3. refcount[current] <= Cardinality(Users)
    BY DEF UserInv
  <2>. QED
    BY <2>1, <2>2, <2>3
<1>. QED
  BY <1>1, Inductive, PTL

\* Whatever begins, ends and blinks in whatever order, as long as no call
\* failed a pulse never outlives the restore of its light (controller.py:516-519).
THEOREM RestoreStaysLast == Spec => []RestoreIsLast
<1>1. TypeOK /\ IInv => RestoreIsLast
  BY DEF IInv
<1>. QED
  BY <1>1, Inductive, PTL

\* The user's light is given back: once all lifecycles are over, it is on
\* exactly if it was, and it has its own settings again if the snapshots had
\* them, whether it was on or off, provided no call failed and all sessions
\* were begun on the same state of it and none saved the temporary look of
\* another (controller.py:521-549).
THEOREM LightIsGivenBack == Spec => []LightGivenBack
<1>1. TypeOK /\ IInv => LightGivenBack
  <2>. SUFFICES ASSUME TypeOK, IInv, ~closing, wire = <<>>, failures = 0,
                       \A t \in Tasks : pc[t] \in {"idle", "done"},
                       \A s, u \in Jobs : snap[s] = snap[u] /\ snap[s].look # "temp",
                       NEW s \in Jobs
                PROVE  light.on = snap[s].on /\ (snap[s].look = "own" => light.look = "own")
    BY DEF LightGivenBack
  <2>1. Users = {}
    BY DEF Users, Tasks
  <2>2. current = None
    <3>1. current # None => refcount[current] > 0 /\ refcount[current] \in Nat
                            /\ refcount[current] = Cardinality(Users)
      BY DEF TypeOK, IInv, UserInv
    <3>. QED
      BY <2>1, <3>1, FS_EmptySet
  <2>3. /\ snap[s].look # "none" => Leaves(<<>>, light.look, snap[s].look)
        /\ light.on = snap[s].on
    BY <2>2 DEF IInv, GivenBackInv
  <2>4. ASSUME NEW look, Leaves(<<>>, light.look, look) PROVE light.look = look
    BY <2>4 DEF Leaves
  <2>. QED
    BY <2>3, <2>4
<1>. QED
  BY <1>1, Inductive, PTL
=============================================================================
