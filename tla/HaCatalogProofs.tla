--------------------------- MODULE HaCatalogProofs ---------------------------
(***************************************************************************)
(* Theorems about HaCatalog for any set of requests that refresh and any   *)
(* number of versions and of connections.                                  *)
(***************************************************************************)
EXTENDS HaCatalog, SequenceTheorems, TLAPS

(* The inductive invariant, part by part.                                  *)

\* Who has a request under way: a refresh that holds the lock, or the
\* supervisor while it initialises a connection, never both at a time when
\* either can be answered.
AskInv ==
  /\ \A r \in Refreshers :
       /\ rpc[r] = "fetch" <=> lock = r
       /\ rpc[r] = "fetch" <=> call[r] # "none"
       /\ rpc[r] = "fetch" <=> at[r] > 0
       /\ conn = "init" => call[r] \in {"none", "ask", "error"}
       /\ conn = "dial" => call[r] \notin {"sent", "coming"}
  /\ conn = "init" <=> at[Sup] > 0
  /\ conn = "init" <=> call[Sup] # "none"
  /\ call[Sup] # "ask"
  /\ pub = "refresh" <=> rpc[Pub] # "idle"
  /\ rpc[Pub] # "done"

\* What can be in the receive buffer: a reply to the task that waits for it,
\* and no event before the subscription.
FrameInv ==
  /\ conn = "dial" => ~link /\ inbox = <<>>
  /\ \A i, j \in DOMAIN inbox :
       inbox[i].kind = "reply" /\ inbox[j].kind = "reply" => i = j
  /\ \A i \in DOMAIN inbox :
       inbox[i].kind = "reply" => call[inbox[i].to] = "coming"
  /\ conn = "init" /\ Asked(Sup) # "subscribe" =>
       /\ ~subscribed
       /\ \A i \in DOMAIN inbox : inbox[i].kind \notin {"state", "registry"}

\* Nothing is newer than Home Assistant.
VersionInv ==
  /\ announced <= truth.registry
  /\ pub = "off" => announced = 0
  /\ cache.states <= truth.state
  /\ \A table \in Table : cache.registry[table] <= truth.registry

\* Version v of what t asks for is not older than what the client has.
Newer(t, v) ==
  /\ Asked(t) = "states" => cache.states <= v /\ v <= truth.state
  /\ Asked(t) \in Table => cache.registry[Asked(t)] <= v /\ v <= truth.registry

\* What is to be read is in the order in which it happened.
InboxInv ==
  \A i \in DOMAIN inbox :
    LET f == inbox[i]
    IN  /\ f.kind = "state" =>
             /\ cache.states <= f.ver /\ f.ver <= truth.state
             /\ \A j \in DOMAIN inbox :
                  i < j /\ inbox[j].kind = "state" => f.ver <= inbox[j].ver
        /\ f.kind = "registry" =>
             /\ f.ver <= truth.registry
             /\ \A j \in DOMAIN inbox :
                  i < j /\ inbox[j].kind = "reply" /\ Asked(inbox[j].to) \in Table
                    => f.ver <= inbox[j].ver
        /\ f.kind = "reply" =>
             Newer(f.to, f.ver) /\ (Asked(f.to) \in Table => announced <= f.ver)

\* A reply that was read and not yet used.  If a registry event came in since,
\* the table is due again; during the initialisation none can.
GotInv ==
  \A t \in Askers :
    call[t] = "got" =>
      /\ Newer(t, got[t])
      /\ t = Sup /\ Asked(t) \in Table => announced <= got[t]
      /\ \A i \in DOMAIN Tables :
           t # Sup /\ Listening /\ Asked(t) = Tables[i] /\ got[t] < announced =>
             needed \/ (t # Pub /\ pub = "refresh" /\ at[Pub] <= i)

\* What is served is not newer than what was copied, and that not newer than
\* the caches.
ChainInv ==
  /\ snap.states <= src.states /\ src.states <= cache.states
  /\ \A table \in Table : /\ snap.registry[table] <= src.registry[table]
                          /\ src.registry[table] <= cache.registry[table]

IInv ==
  /\ AskInv /\ FrameInv /\ VersionInv /\ InboxInv /\ GotInv /\ ChainInv
  /\ WakeUpKept /\ RegistryDebtKept

-----------------------------------------------------------------------------
(* Sequences.                                                              *)

\* The tables and the requests of a new connection, one by one.
LEMMA StepsAre ==
  /\ Len(Tables) = 2 /\ DOMAIN Tables = 1..2
  /\ Tables[1] = "entity" /\ Tables[2] = "device"
  /\ Table = {"entity", "device"}
  /\ Len(InitSteps) = 4 /\ DOMAIN InitSteps = 1..4
  /\ InitSteps[1] = "states" /\ InitSteps[2] = "entity"
  /\ InitSteps[3] = "device" /\ InitSteps[4] = "subscribe"
<1>1. Tables = <<"entity", "device">>
  BY DEF Tables
<1>2. Len(Tables) = 2 /\ DOMAIN Tables = 1..2 /\ Tables[1] = "entity" /\ Tables[2] = "device"
  BY <1>1
<1>3. Table = {"entity", "device"}
  BY <1>2 DEF Table
<1>. DEFINE S == {"states", "entity", "device", "subscribe"}
            first == <<"states">>
            last == <<"subscribe">>
            some == first \o Tables
<1>4. /\ first \in Seq(S) /\ Len(first) = 1 /\ first[1] = "states"
      /\ last \in Seq(S) /\ Len(last) = 1 /\ last[1] = "subscribe"
      /\ Tables \in Seq(S)
  <2>1. first \in Seq(S) /\ Len(first) = 1 /\ first[1] = "states"
    OBVIOUS
  <2>2. last \in Seq(S) /\ Len(last) = 1 /\ last[1] = "subscribe"
    OBVIOUS
  <2>3. Tables \in Seq(S)
    BY <1>1
  <2>. QED
    BY <2>1, <2>2, <2>3
<1>. HIDE DEF first, last
<1>5. /\ some \in Seq(S) /\ Len(some) = 3
      /\ some[1] = "states" /\ some[2] = "entity" /\ some[3] = "device"
  <2>1. /\ some \in Seq(S) /\ Len(some) = Len(first) + Len(Tables)
        /\ \A i \in 1..(Len(first) + Len(Tables)) :
             some[i] = IF i <= Len(first) THEN first[i] ELSE Tables[i - Len(first)]
    BY <1>4, ConcatProperties
  <2>. HIDE DEF some
  <2>. QED
    BY <1>2, <1>4, <2>1
<1>. HIDE DEF some
<1>6. /\ Len(some \o last) = 4 /\ some \o last \in Seq(S)
      /\ (some \o last)[1] = "states" /\ (some \o last)[2] = "entity"
      /\ (some \o last)[3] = "device" /\ (some \o last)[4] = "subscribe"
  <2>. DEFINE all == some \o last
  <2>1. /\ all \in Seq(S) /\ Len(all) = Len(some) + Len(last)
        /\ \A i \in 1..(Len(some) + Len(last)) :
             all[i] = IF i <= Len(some) THEN some[i] ELSE last[i - Len(some)]
    BY <1>4, <1>5, ConcatProperties
  <2>. HIDE DEF all
  <2>2. Len(all) = 4 /\ all[1] = "states" /\ all[2] = "entity" /\ all[3] = "device" /\ all[4] = "subscribe"
    BY <1>4, <1>5, <2>1
  <2>. QED
    BY <2>1, <2>2 DEF all
<1>7. InitSteps = some \o last
  BY DEF InitSteps, some, first, last
<1>8. DOMAIN InitSteps = 1..4
  BY <1>6, <1>7
<1>. QED
  BY <1>2, <1>3, <1>6, <1>7, <1>8

\* A frame more at the end.
LEMMA Appended ==
  ASSUME NEW S, NEW s \in Seq(S), NEW e \in S
  PROVE  /\ Append(s, e) \in Seq(S)
         /\ DOMAIN Append(s, e) = 1..(Len(s) + 1) /\ Len(s) \in Nat /\ DOMAIN s = 1..Len(s)
         /\ \A i \in DOMAIN s : Append(s, e)[i] = s[i]
         /\ Append(s, e)[Len(s) + 1] = e
  OBVIOUS

\* The first frame is gone.
LEMMA Tailed ==
  ASSUME NEW S, NEW s \in Seq(S), s # <<>>
  PROVE  /\ Head(s) = s[1] /\ 1 \in DOMAIN s /\ s[1] \in S
         /\ Tail(s) \in Seq(S)
         /\ \A i \in DOMAIN Tail(s) : /\ i \in Nat /\ i > 0 /\ i + 1 \in DOMAIN s
                                      /\ Tail(s)[i] = s[i + 1]
  OBVIOUS

\* The frames a task no longer owns.
LEMMA DisownedIs ==
  ASSUME NEW t, inbox \in Seq(Frame)
  PROVE  /\ Disowned(t) \in Seq(Frame) /\ DOMAIN Disowned(t) = DOMAIN inbox
         /\ \A i \in DOMAIN inbox :
              \/ Disowned(t)[i].kind = "unknown"
              \/ /\ Disowned(t)[i] = inbox[i]
                 /\ ~(inbox[i].kind = "reply" /\ inbox[i].to = t)
<1>1. DOMAIN Disowned(t) = DOMAIN inbox
  BY DEF Disowned
<1>2. \A i \in DOMAIN inbox : inbox[i] \in Frame
  OBVIOUS
<1>3. [kind |-> "unknown"] \in Frame
  BY DEF Frame
<1>4. \A i \in DOMAIN inbox : Disowned(t)[i] \in Frame
  BY <1>2, <1>3 DEF Disowned
<1>5. Disowned(t) \in Seq(Frame)
  <2>1. DOMAIN inbox = 1..Len(inbox) /\ Len(inbox) \in Nat
    OBVIOUS
  <2>2. Disowned(t) = [i \in 1..Len(inbox) |-> Disowned(t)[i]]
    BY <2>1 DEF Disowned
  <2>. QED
    BY <1>4, <2>1, <2>2
<1>6. \A i \in DOMAIN inbox :
        \/ Disowned(t)[i].kind = "unknown"
        \/ /\ Disowned(t)[i] = inbox[i]
           /\ ~(inbox[i].kind = "reply" /\ inbox[i].to = t)
  BY DEF Disowned
<1>. QED
  BY <1>1, <1>5, <1>6

-----------------------------------------------------------------------------
(* The operations on the caches.                                           *)

\* The bounds are numbers, the tasks are told apart.
LEMMA Constants ==
  /\ MaxState \in Nat /\ MaxRegistry \in Nat /\ MaxConn \in Nat
  /\ Sup \notin Refreshers /\ Pub \in Refreshers /\ None \notin Askers
  /\ Askers = {Sup} \cup Refreshers /\ Refreshers = {Pub} \cup Others /\ Pub \notin Others
BY TasksAssumption, BoundsAssumption DEF Askers, Refreshers

\* Versions are numbers.
LEMMA Numbers ==
  ASSUME TypeOK
  PROVE  /\ truth.state \in Nat /\ truth.registry \in Nat /\ announced \in Nat
         /\ truth.state <= MaxState /\ truth.registry <= MaxRegistry
         /\ cache.states \in Nat /\ src.states \in Nat /\ snap.states \in Nat
         /\ \A table \in Table : /\ cache.registry[table] \in Nat
                                 /\ src.registry[table] \in Nat
                                 /\ snap.registry[table] \in Nat
<1>1. \A c \in Source : c.states \in Nat /\ \A table \in Table : c.registry[table] \in Nat
  BY Constants DEF Source
<1>2. cache \in Source /\ src \in Source /\ snap \in Source
  BY DEF TypeOK
<1>3. /\ truth.state \in Nat /\ truth.registry \in Nat /\ announced \in Nat
      /\ truth.state <= MaxState /\ truth.registry <= MaxRegistry
  BY Constants DEF TypeOK
<1>. QED
  BY <1>1, <1>2, <1>3

\* What a task asks for.
LEMMA AskedIs ==
  ASSUME TypeOK, AskInv
  PROVE  /\ \A r \in Refreshers :
              call[r] # "none" =>
                /\ at[r] \in {1, 2} /\ Asked(r) = Tables[at[r]] /\ Asked(r) \in Table
         /\ conn = "init" =>
              /\ at[Sup] \in 1..4 /\ Asked(Sup) = InitSteps[at[Sup]]
              /\ Asked(Sup) = "states" \/ Asked(Sup) = "subscribe" \/ Asked(Sup) \in Table
         /\ "states" \notin Table /\ "subscribe" \notin Table
<1>1. ASSUME NEW r \in Refreshers, call[r] # "none"
      PROVE  at[r] \in {1, 2} /\ Asked(r) = Tables[at[r]] /\ Asked(r) \in Table
  <2>1. at[r] \in {1, 2}
    BY <1>1, Constants, StepsAre DEF TypeOK, AskInv
  <2>2. Asked(r) = Tables[at[r]]
    BY Constants DEF Asked
  <2>. QED
    BY <2>1, <2>2, StepsAre
<1>2. ASSUME conn = "init"
      PROVE  /\ at[Sup] \in 1..4 /\ Asked(Sup) = InitSteps[at[Sup]]
             /\ Asked(Sup) = "states" \/ Asked(Sup) = "subscribe" \/ Asked(Sup) \in Table
  <2>1. at[Sup] \in 1..4
    BY <1>2, Constants, StepsAre DEF TypeOK, AskInv
  <2>2. Asked(Sup) = InitSteps[at[Sup]]
    BY DEF Asked
  <2>. QED
    BY <2>1, <2>2, StepsAre
<1>. QED
  BY <1>1, <1>2, StepsAre

\* The states are replaced.
LEMMA StatesSet ==
  ASSUME TypeOK, NEW v, cache' = [cache EXCEPT !.states = v]
  PROVE  /\ cache'.states = v /\ cache'.registry = cache.registry
         /\ v \in 0..MaxState => cache' \in Source
BY DEF TypeOK, Source

\* A table is replaced by what was got, or stays as it is.
LEMMA TableStored ==
  ASSUME TypeOK, GotInv, NEW t \in Askers, Asked(t) \in Table, StoreTable(t),
         truth.registry \in Nat, truth.registry <= MaxRegistry
  PROVE  /\ cache' \in Source /\ skipped' \subseteq Table
         /\ cache'.states = cache.states
         /\ \A table \in Table :
              cache'.registry[table] =
                IF call[t] = "got" /\ table = Asked(t) THEN got[t] ELSE cache.registry[table]
         /\ call[t] = "got" => /\ cache.registry[Asked(t)] <= got[t]
                               /\ got[t] <= truth.registry /\ got[t] \in Nat
         /\ skipped' = IF call[t] = "got" THEN skipped \ {Asked(t)} ELSE skipped \cup {Asked(t)}
<1>1. CASE call[t] = "got"
  <2>1. /\ cache' = [cache EXCEPT !.registry[Asked(t)] = got[t]]
        /\ skipped' = skipped \ {Asked(t)}
    BY <1>1 DEF StoreTable
  <2>2. cache.registry[Asked(t)] <= got[t] /\ got[t] <= truth.registry /\ got[t] \in Nat
    BY <1>1 DEF GotInv, Newer, TypeOK
  <2>3. got[t] \in 0..MaxRegistry
    BY <2>2, Constants
  <2>4. cache \in Source /\ skipped \subseteq Table
    BY DEF TypeOK
  <2>5. cache' \in Source /\ cache'.states = cache.states
    BY <2>1, <2>3, <2>4 DEF Source
  <2>6. cache'.registry = [cache.registry EXCEPT ![Asked(t)] = got[t]]
    BY <2>1, <2>4 DEF Source
  <2>7. \A table \in Table :
          cache'.registry[table] = IF table = Asked(t) THEN got[t] ELSE cache.registry[table]
    BY <2>4, <2>6 DEF Source
  <2>. QED
    BY <1>1, <2>1, <2>2, <2>4, <2>5, <2>7
<1>2. CASE call[t] # "got"
  BY <1>2 DEF StoreTable, TypeOK
<1>. QED
  BY <1>1, <1>2

-----------------------------------------------------------------------------
(* Types.                                                                  *)

\* Every step keeps every variable in its type.
LEMMA TypeStep ==
  ASSUME TypeOK, IInv, [Next]_vars
  PROVE  TypeOK'
<1>. USE Constants, StepsAre DEF vars, ha, client, calls, publisher, history
<1>a. /\ truth \in [state : 1..MaxState, registry : 1..MaxRegistry]
      /\ inbox \in Seq(Frame) /\ cache \in Source /\ src \in Source /\ snap \in Source
      /\ at \in [Askers -> 0..4]
      /\ call \in [Askers -> {"none", "ask", "sent", "coming", "got", "refused", "error"}]
      /\ got \in [Askers -> Nat]
      /\ rpc \in [Refreshers -> {"idle", "lock", "fetch", "done"}]
  BY DEF TypeOK
<1>b. AskInv /\ VersionInv /\ InboxInv /\ GotInv
  BY DEF IInv
<1>c. truth.state \in Nat /\ truth.registry \in Nat /\ truth.state <= MaxState
      /\ truth.registry <= MaxRegistry
  BY <1>a
<1>1. CASE StateChanges
  <2>0. truth' = [truth EXCEPT !.state = truth.state + 1] /\ truth.state < MaxState
    BY <1>1 DEF StateChanges
  <2>1. truth' \in [state : 1..MaxState, registry : 1..MaxRegistry]
    <3>1. truth.state + 1 \in 1..MaxState
      BY <1>c, <2>0
    <3>. QED
      BY <1>a, <2>0, <3>1
  <2>2. [kind |-> "state", ver |-> truth.state + 1] \in Frame
    BY <1>c DEF Frame
  <2>3. inbox' \in Seq(Frame)
    BY <1>1, <1>a, <2>2, Appended DEF StateChanges, Emit
  <2>. QED
    BY <1>1, <2>1, <2>3 DEF StateChanges, TypeOK
<1>2. CASE RegistryChanges
  <2>1. truth' \in [state : 1..MaxState, registry : 1..MaxRegistry]
    BY <1>2, <1>a DEF RegistryChanges
  <2>2. [kind |-> "registry", ver |-> truth.registry + 1] \in Frame
    BY <1>c DEF Frame
  <2>3. inbox' \in Seq(Frame)
    BY <1>2, <1>a, <2>2, Appended DEF RegistryChanges, Emit
  <2>. QED
    BY <1>2, <2>1, <2>3 DEF RegistryChanges, TypeOK
<1>3. CASE LinkDrop
  BY <1>3 DEF LinkDrop, TypeOK
<1>4. CASE Expire
  BY <1>4 DEF Expire, TypeOK
<1>5. ASSUME NEW t \in Askers, HaAnswers(t) PROVE TypeOK'
  <2>. DEFINE ver == IF Asked(t) = "states" THEN truth.state ELSE truth.registry
  <2>1. [kind |-> "reply", to |-> t, ver |-> ver] \in Frame
    BY <1>c DEF Frame
  <2>2. inbox' \in Seq(Frame)
    BY <1>5, <1>a, <2>1, Appended DEF HaAnswers
  <2>3. call' \in [Askers -> {"none", "ask", "sent", "coming", "got", "refused", "error"}]
    BY <1>5, <1>a DEF HaAnswers
  <2>. QED
    BY <1>5, <2>2, <2>3 DEF HaAnswers, TypeOK
<1>6. ASSUME NEW t \in Askers, HaRefuses(t) PROVE TypeOK'
  BY <1>6 DEF HaRefuses, TypeOK
<1>7. ASSUME NEW t \in Askers, CallTimeout(t) PROVE TypeOK'
  <2>1. inbox' \in Seq(Frame)
    BY <1>7, <1>a, DisownedIs DEF CallTimeout
  <2>. QED
    BY <1>7, <2>1 DEF CallTimeout, TypeOK
<1>8. CASE Read
  <2>. DEFINE f == Head(inbox)
  <2>1. inbox' \in Seq(Frame) /\ f = inbox[1] /\ 1 \in DOMAIN inbox /\ f \in Frame
    BY <1>8, <1>a, Tailed DEF Read
  <2>. HIDE DEF f
  <2>2. CASE f.kind = "state" /\ cache' = [cache EXCEPT !.states = f.ver] /\ Notify("state")
             /\ UNCHANGED <<fresh, call, got, announced>>
    <3>1. f.ver \in Nat /\ f.ver <= truth.state
      BY <1>b, <2>1, <2>2 DEF InboxInv, Frame
    <3>2. cache' \in Source
      BY <1>c, <2>2, <3>1, StatesSet
    <3>. QED
      BY <1>8, <2>1, <2>2, <3>2 DEF Read, Notify, Listening, TypeOK
  <2>3. CASE /\ f.kind = "registry" /\ fresh' = FALSE /\ Notify("registry")
             /\ announced' = (IF Listening THEN f.ver ELSE announced)
             /\ UNCHANGED <<cache, call, got>>
    <3>1. f.ver \in Nat /\ f.ver <= truth.registry
      BY <1>b, <2>1, <2>3 DEF InboxInv, Frame
    <3>2. announced' \in 0..MaxRegistry
      BY <1>c, <2>3, <3>1 DEF TypeOK
    <3>. QED
      BY <1>8, <2>1, <2>3, <3>2 DEF Read, Notify, Listening, TypeOK
  <2>4. CASE /\ f.kind = "reply" /\ call' = [call EXCEPT ![f.to] = "got"]
             /\ got' = [got EXCEPT ![f.to] = f.ver]
             /\ UNCHANGED <<cache, fresh, changed, needed, announced>>
    <3>1. f.to \in Askers /\ f.ver \in Nat
      BY <2>1, <2>4 DEF Frame
    <3>. QED
      BY <1>8, <2>1, <2>4, <3>1 DEF Read, TypeOK
  <2>5. CASE UNCHANGED <<cache, fresh, call, got, changed, needed, announced>>
    BY <1>8, <2>1, <2>5 DEF Read, TypeOK
  <2>. QED
    BY <1>8, <2>2, <2>3, <2>4, <2>5 DEF Read, f
<1>9. CASE Dial
  <2>1. at' \in [Askers -> 0..4]
    BY <1>9, <1>a DEF Dial
  <2>2. conns' \in 0..MaxConn
    BY <1>9 DEF Dial, TypeOK
  <2>. QED
    BY <1>9, <2>1, <2>2 DEF Dial, TypeOK
<1>10. CASE InitNext
  <2>0. conn = "init"
    BY <1>10 DEF InitNext
  <2>1. cache' \in Source /\ skipped' \subseteq Table /\ fresh' \in BOOLEAN
    <3>1. CASE Asked(Sup) = "states"
      <4>1. /\ call[Sup] = "got" /\ cache' = [cache EXCEPT !.states = got[Sup]]
            /\ UNCHANGED <<fresh, skipped>>
        BY <1>10, <3>1 DEF InitNext
      <4>2. got[Sup] \in Nat /\ got[Sup] <= truth.state
        BY <1>a, <1>b, <3>1, <4>1 DEF GotInv, Newer
      <4>3. cache' \in Source
        BY <1>c, <4>1, <4>2, StatesSet
      <4>. QED
        BY <4>1, <4>3 DEF TypeOK
    <3>2. CASE Asked(Sup) = "subscribe"
      BY <1>10, <3>2 DEF InitNext, TypeOK
    <3>3. CASE Asked(Sup) \in Table
      <4>1. StoreTable(Sup) /\ fresh' \in BOOLEAN
        BY <1>10, <3>3, <1>b, AskedIs DEF InitNext
      <4>. QED
        BY <1>b, <1>c, <3>3, <4>1, TableStored
    <3>. QED
      BY <1>b, <2>0, <3>1, <3>2, <3>3, AskedIs
  <2>2. got' \in [Askers -> Nat] /\ UNCHANGED <<ha, lock, rpc, pub, src, snap, announced>>
    BY <1>10, <1>a DEF InitNext
  <2>3. /\ at' \in [Askers -> 0..4] /\ \A r \in Refreshers : at'[r] = at[r]
        /\ call' \in [Askers -> {"none", "ask", "sent", "coming", "got", "refused", "error"}]
        /\ conn' \in {"dial", "init", "serve"}
    <3>1. CASE at[Sup] < Len(InitSteps)
      <4>1. /\ at' = [at EXCEPT ![Sup] = @ + 1] /\ UNCHANGED conn
            /\ call' = [call EXCEPT ![Sup] = IF link THEN "sent" ELSE "error"]
        BY <1>10, <3>1 DEF InitNext
      <4>2. at[Sup] + 1 \in 0..4
        BY <1>a, <3>1
      <4>. QED
        BY <1>a, <2>0, <4>1, <4>2
    <3>2. CASE ~(at[Sup] < Len(InitSteps))
      <4>1. /\ at' = [at EXCEPT ![Sup] = 0] /\ conn' = "serve"
            /\ call' = [call EXCEPT ![Sup] = "none"]
        BY <1>10, <3>2 DEF InitNext
      <4>. QED
        BY <1>a, <4>1
    <3>. QED
      BY <3>1, <3>2
  <2>4. changed' \in BOOLEAN /\ needed' \in BOOLEAN
    <3>1. changed \in BOOLEAN /\ needed \in BOOLEAN
      BY DEF TypeOK
    <3>2. UNCHANGED <<changed, needed>> \/ Notify("connection")
      BY <1>10 DEF InitNext
    <3>. QED
      BY <3>1, <3>2 DEF Notify, Listening
  <2>. QED
    BY <2>1, <2>2, <2>3, <2>4 DEF TypeOK
<1>11. CASE InitFailed
  <2>1. /\ at' \in [Askers -> 0..4] /\ \A r \in Refreshers : at'[r] = at[r]
        /\ call' \in [Askers -> {"none", "ask", "sent", "coming", "got", "refused", "error"}]
    BY <1>11, <1>a DEF InitFailed
  <2>2. inbox' = <<>> /\ inbox' \in Seq(Frame)
    BY <1>11 DEF InitFailed
  <2>. QED
    BY <1>11, <2>1, <2>2 DEF InitFailed, TypeOK
<1>12. CASE ReaderEnded
  BY <1>12 DEF ReaderEnded, TypeOK
<1>13. ASSUME NEW r \in Refreshers, OtherRefresh(r) PROVE TypeOK'
  BY <1>13 DEF OtherRefresh, TypeOK
<1>14. ASSUME NEW r \in Refreshers, LockRegistry(r) PROVE TypeOK'
  <2>1. /\ at' \in [Askers -> 0..4] /\ \A q \in Refreshers : at'[q] <= 2
    <3>1. at' = at \/ at' = [at EXCEPT ![r] = 1]
      BY <1>14 DEF LockRegistry
    <3>. QED
      BY <1>a, <3>1 DEF TypeOK
  <2>2. /\ call' \in [Askers -> {"none", "ask", "sent", "coming", "got", "refused", "error"}]
        /\ rpc' \in [Refreshers -> {"idle", "lock", "fetch", "done"}]
        /\ lock' \in Refreshers \cup {None}
    BY <1>14, <1>a DEF LockRegistry, TypeOK
  <2>. QED
    BY <1>14, <2>1, <2>2 DEF LockRegistry, TypeOK
<1>15. ASSUME NEW r \in Refreshers, Send(r) PROVE TypeOK'
  BY <1>15 DEF Send, TypeOK
<1>16. ASSUME NEW r \in Refreshers, RefreshNext(r) PROVE TypeOK'
  <2>1. Asked(r) \in Table /\ at[r] \in {1, 2}
    BY <1>16, <1>b, AskedIs DEF RefreshNext
  <2>2. cache' \in Source /\ skipped' \subseteq Table
    BY <1>16, <1>b, <1>c, <2>1, TableStored DEF RefreshNext
  <2>3. got' \in [Askers -> Nat]
    BY <1>16, <1>a DEF RefreshNext
  <2>4. CASE LastTable(r)
    <3>0. RefreshDone(r)
      BY <1>16, <2>4 DEF RefreshNext
    <3>1. /\ lock' = None /\ fresh' = TRUE /\ UNCHANGED needed
          /\ rpc' \in [Refreshers -> {"idle", "lock", "fetch", "done"}]
          /\ at' \in [Askers -> 0..4] /\ \A q \in Refreshers : at'[q] <= 2
          /\ call' \in [Askers -> {"none", "ask", "sent", "coming", "got", "refused", "error"}]
      <4>1. /\ lock' = None /\ fresh' = TRUE /\ UNCHANGED needed
            /\ rpc' = [rpc EXCEPT ![r] = IF r = Pub THEN "idle" ELSE "done"]
            /\ at' = [at EXCEPT ![r] = 0] /\ call' = [call EXCEPT ![r] = "none"]
        BY <3>0 DEF RefreshDone
      <4>2. \A q \in Refreshers : at[q] <= 2
        BY DEF TypeOK
      <4>. QED
        BY <1>a, <4>1, <4>2
    <3>2. src' \in Source /\ pub' \in {"off", "wait", "debounce", "pace", "refresh", "build", "stopped"}
      BY <1>16, <2>2, <2>4 DEF RefreshNext, RefreshDone, CopySource, TypeOK
    <3>. QED
      BY <1>16, <2>2, <2>3, <3>1, <3>2 DEF RefreshNext, TypeOK
  <2>5. CASE ~LastTable(r)
    <3>1. /\ at' \in [Askers -> 0..4] /\ \A q \in Refreshers : at'[q] <= 2
          /\ call' \in [Askers -> {"none", "ask", "sent", "coming", "got", "refused", "error"}]
          /\ UNCHANGED <<fresh, lock, rpc, pub, src, needed>>
      <4>1. /\ at' = [at EXCEPT ![r] = @ + 1] /\ call' = [call EXCEPT ![r] = "ask"]
            /\ UNCHANGED <<fresh, lock, rpc, pub, src, needed>>
        BY <1>16, <2>5 DEF RefreshNext
      <4>2. at[r] = 1 /\ \A q \in Refreshers : at[q] <= 2
        BY <2>1, <2>5 DEF LastTable, TypeOK
      <4>. QED
        BY <1>a, <4>1, <4>2
    <3>. QED
      BY <1>16, <2>2, <2>3, <3>1 DEF RefreshNext, TypeOK
  <2>. QED
    BY <2>4, <2>5
<1>17. ASSUME NEW r \in Refreshers, GiveUp(r) PROVE TypeOK'
  BY <1>17 DEF GiveUp, TypeOK
<1>18. CASE PubStart
  BY <1>18 DEF PubStart, CopySource, TypeOK
<1>19. CASE WakeUp \/ Periodic \/ DebounceOver
  BY <1>19 DEF WakeUp, Periodic, DebounceOver, TypeOK
<1>20. CASE PaceOver
  <2>1. CASE needed
    BY <1>20, <2>1 DEF PaceOver, TypeOK
  <2>2. CASE ~needed
    BY <1>20, <2>2 DEF PaceOver, CopySource, TypeOK
  <2>. QED
    BY <2>1, <2>2
<1>21. CASE BuildDone \/ BuildFails
  BY <1>21 DEF BuildDone, BuildFails, TypeOK
<1>22. CASE PubStop
  <2>1. inbox' \in Seq(Frame)
    BY <1>22, <1>a, DisownedIs DEF PubStop
  <2>2. /\ at' \in [Askers -> 0..4] /\ \A q \in Refreshers : at'[q] <= 2
        /\ call' \in [Askers -> {"none", "ask", "sent", "coming", "got", "refused", "error"}]
        /\ got' \in [Askers -> Nat] /\ rpc' \in [Refreshers -> {"idle", "lock", "fetch", "done"}]
    BY <1>22, <1>a DEF PubStop, TypeOK
  <2>. QED
    BY <1>22, <2>1, <2>2 DEF PubStop, TypeOK
<1>23. CASE UNCHANGED vars
  BY <1>23 DEF TypeOK
<1>. QED
  BY <1>1, <1>2, <1>3, <1>4, <1>5, <1>6, <1>7, <1>8, <1>9, <1>10, <1>11, <1>12, <1>13, <1>14, <1>15, <1>16, <1>17, <1>18, <1>19, <1>20, <1>21, <1>22, <1>23
  DEF Next, SupStep, RefreshStep, PubStep

-----------------------------------------------------------------------------
(* Who asks.                                                               *)

\* Every step keeps requests with the lock and with the initialisation.
LEMMA AskStep ==
  ASSUME TypeOK, AskInv, FrameInv, [Next]_vars
  PROVE  AskInv'
<1>. USE Constants, StepsAre DEF vars, ha, client, calls, publisher, history
<1>a. /\ at \in [Askers -> 0..4]
      /\ call \in [Askers -> {"none", "ask", "sent", "coming", "got", "refused", "error"}]
      /\ rpc \in [Refreshers -> {"idle", "lock", "fetch", "done"}]
      /\ conn \in {"dial", "init", "serve"} /\ lock \in Refreshers \cup {None}
  BY DEF TypeOK
<1>1. CASE UNCHANGED <<rpc, lock, call, at, conn, pub>>
  BY <1>1 DEF AskInv
<1>2. CASE StateChanges \/ RegistryChanges \/ LinkDrop \/ Expire
  BY <1>1, <1>2 DEF StateChanges, RegistryChanges, LinkDrop, Expire
<1>3. ASSUME NEW t \in Askers, HaAnswers(t) PROVE AskInv'
  BY <1>3, <1>a DEF HaAnswers, AskInv
<1>4. ASSUME NEW t \in Askers, HaRefuses(t) PROVE AskInv'
  BY <1>4, <1>a DEF HaRefuses, AskInv
<1>5. ASSUME NEW t \in Askers, CallTimeout(t) PROVE AskInv'
  BY <1>5, <1>a DEF CallTimeout, AskInv
<1>6. CASE Read
  <2>1. UNCHANGED <<rpc, lock, at, conn, pub>>
    BY <1>6 DEF Read
  <2>2. CASE UNCHANGED call
    BY <1>1, <2>1, <2>2
  <2>3. CASE Head(inbox).kind = "reply" /\ call' = [call EXCEPT ![Head(inbox).to] = "got"]
    <3>1. inbox # <<>> /\ inbox \in Seq(Frame)
      BY <1>6 DEF Read, TypeOK
    <3>2. Head(inbox) = inbox[1] /\ 1 \in DOMAIN inbox /\ inbox[1] \in Frame
      BY <3>1, Tailed
    <3>3. inbox[1].to \in Askers /\ call[inbox[1].to] = "coming"
      BY <2>3, <3>2 DEF Frame, FrameInv
    <3>. QED
      BY <1>a, <2>1, <2>3, <3>2, <3>3 DEF AskInv
  <2>. QED
    BY <1>6, <2>2, <2>3 DEF Read
<1>7. CASE Dial
  BY <1>7, <1>a DEF Dial, AskInv
<1>8. CASE InitNext
  <2>1. CASE at[Sup] < Len(InitSteps)
    <3>1. /\ at' = [at EXCEPT ![Sup] = @ + 1] /\ UNCHANGED <<conn, rpc, lock, pub>>
          /\ call' = [call EXCEPT ![Sup] = IF link THEN "sent" ELSE "error"]
          /\ conn = "init"
      BY <1>8, <2>1 DEF InitNext
    <3>2. at'[Sup] = at[Sup] + 1 /\ at[Sup] \in Nat /\ \A r \in Refreshers : at'[r] = at[r]
      BY <1>a, <3>1
    <3>3. /\ call'[Sup] \in {"sent", "error"} /\ \A r \in Refreshers : call'[r] = call[r]
      BY <1>a, <3>1
    <3>. QED
      BY <3>1, <3>2, <3>3 DEF AskInv
  <2>2. CASE ~(at[Sup] < Len(InitSteps))
    BY <1>8, <1>a, <2>2 DEF InitNext, AskInv
  <2>. QED
    BY <2>1, <2>2
<1>9. CASE InitFailed
  BY <1>9, <1>a DEF InitFailed, AskInv
<1>10. CASE ReaderEnded
  BY <1>10, <1>a DEF ReaderEnded, AskInv
<1>11. ASSUME NEW r \in Refreshers, OtherRefresh(r) PROVE AskInv'
  BY <1>11, <1>a DEF OtherRefresh, AskInv
<1>12. ASSUME NEW r \in Refreshers, LockRegistry(r) PROVE AskInv'
  <2>1. CASE r = Pub \/ ~fresh
    <3>1. /\ lock' = r /\ rpc' = [rpc EXCEPT ![r] = "fetch"] /\ at' = [at EXCEPT ![r] = 1]
          /\ call' = [call EXCEPT ![r] = "ask"] /\ UNCHANGED <<conn, pub>>
          /\ rpc[r] = "lock" /\ lock = None
      BY <1>12, <2>1 DEF LockRegistry
    <3>. QED
      BY <1>a, <3>1 DEF AskInv
  <2>2. CASE ~(r = Pub \/ ~fresh)
    BY <1>12, <1>a, <2>2 DEF LockRegistry, AskInv
  <2>. QED
    BY <2>1, <2>2
<1>13. ASSUME NEW r \in Refreshers, Send(r) \/ GiveUp(r) PROVE AskInv'
  BY <1>13, <1>a DEF Send, GiveUp, AskInv
<1>14. ASSUME NEW r \in Refreshers, RefreshNext(r) PROVE AskInv'
  <2>1. /\ UNCHANGED conn /\ rpc[r] = "fetch" /\ lock = r
        /\ call[r] \in {"got", "refused", "error"} /\ at[r] > 0
    BY <1>14 DEF RefreshNext, AskInv
  <2>2. CASE LastTable(r)
    <3>1. /\ lock' = None
          /\ rpc' = [rpc EXCEPT ![r] = IF r = Pub THEN "idle" ELSE "done"]
          /\ at' = [at EXCEPT ![r] = 0] /\ call' = [call EXCEPT ![r] = "none"]
          /\ IF r = Pub THEN pub' = "build" ELSE UNCHANGED pub
      BY <1>14, <2>2 DEF RefreshNext, RefreshDone, CopySource
    <3>. QED
      BY <1>a, <2>1, <3>1 DEF AskInv
  <2>3. CASE ~LastTable(r)
    <3>1. /\ at' = [at EXCEPT ![r] = @ + 1] /\ call' = [call EXCEPT ![r] = "ask"]
          /\ UNCHANGED <<lock, rpc, pub>>
      BY <1>14, <2>3 DEF RefreshNext
    <3>2. at'[r] = at[r] + 1 /\ at[r] \in Nat /\ \A t \in Askers \ {r} : at'[t] = at[t]
      BY <1>a, <3>1
    <3>3. call'[r] = "ask" /\ \A t \in Askers \ {r} : call'[t] = call[t]
      BY <1>a, <3>1
    <3>. QED
      BY <2>1, <3>1, <3>2, <3>3 DEF AskInv
  <2>. QED
    BY <2>2, <2>3
<1>15. CASE PubStart
  BY <1>15, <1>a DEF PubStart, CopySource, AskInv
<1>16. CASE WakeUp \/ Periodic \/ DebounceOver
  BY <1>16, <1>a DEF WakeUp, Periodic, DebounceOver, AskInv
<1>17. CASE PaceOver
  BY <1>17, <1>a DEF PaceOver, CopySource, AskInv
<1>18. CASE BuildDone \/ BuildFails
  BY <1>18, <1>a DEF BuildDone, BuildFails, AskInv
<1>19. CASE PubStop
  BY <1>19, <1>a DEF PubStop, AskInv
<1>. QED
  BY <1>1, <1>2, <1>3, <1>4, <1>5, <1>6, <1>7, <1>8, <1>9, <1>10, <1>11, <1>12, <1>13, <1>14, <1>15, <1>16, <1>17, <1>18, <1>19
  DEF Next, SupStep, RefreshStep, PubStep

-----------------------------------------------------------------------------
(* Versions.                                                               *)

\* Every step leaves Home Assistant the newest.
LEMMA VersionStep ==
  ASSUME TypeOK, IInv, [Next]_vars
  PROVE  VersionInv'
<1>. USE Constants, StepsAre DEF vars, ha, client, calls, publisher, history
<1>a. /\ truth.state \in Nat /\ truth.registry \in Nat
      /\ truth.state <= MaxState /\ truth.registry <= MaxRegistry
      /\ announced \in Nat /\ cache.states \in Nat
      /\ \A table \in Table : cache.registry[table] \in Nat
  BY Numbers
<1>b. AskInv /\ VersionInv /\ InboxInv /\ GotInv
  BY DEF IInv
<1>1. CASE UNCHANGED <<truth, announced, cache>> /\ (pub' = "off" => pub = "off")
  BY <1>1, <1>b DEF VersionInv
<1>2. CASE StateChanges
  <2>1. truth'.registry = truth.registry /\ truth'.state = truth.state + 1
    BY <1>2 DEF StateChanges, TypeOK
  <2>. QED
    BY <1>2, <1>a, <1>b, <2>1 DEF StateChanges, VersionInv
<1>3. CASE RegistryChanges
  <2>1. truth'.registry = truth.registry + 1 /\ truth'.state = truth.state
    BY <1>3 DEF RegistryChanges, TypeOK
  <2>. QED
    BY <1>3, <1>a, <1>b, <2>1 DEF RegistryChanges, VersionInv
<1>4. CASE Read
  <2>. DEFINE f == Head(inbox)
  <2>1. f = inbox[1] /\ 1 \in DOMAIN inbox /\ UNCHANGED <<truth, pub>>
    BY <1>4, Tailed DEF Read, TypeOK
  <2>. HIDE DEF f
  <2>2. CASE UNCHANGED <<cache, announced>>
    BY <1>1, <2>1, <2>2
  <2>3. CASE f.kind = "state" /\ cache' = [cache EXCEPT !.states = f.ver] /\ UNCHANGED announced
    <3>1. f.ver <= truth.state
      BY <1>b, <2>1, <2>3 DEF InboxInv
    <3>2. cache'.states = f.ver /\ cache'.registry = cache.registry
      BY <2>3, StatesSet
    <3>. QED
      BY <1>b, <2>1, <2>3, <3>1, <3>2 DEF VersionInv
  <2>4. CASE /\ f.kind = "registry" /\ announced' = (IF Listening THEN f.ver ELSE announced)
             /\ UNCHANGED cache
    <3>1. f.ver <= truth.registry
      BY <1>b, <2>1, <2>4 DEF InboxInv
    <3>. QED
      BY <1>b, <2>1, <2>4, <3>1 DEF VersionInv, Listening
  <2>. QED
    BY <1>4, <2>2, <2>3, <2>4 DEF Read, f
<1>5. CASE InitNext
  <2>0. UNCHANGED <<truth, announced, pub>> /\ conn = "init"
    BY <1>5 DEF InitNext
  <2>1. CASE Asked(Sup) = "states"
    <3>1. call[Sup] = "got" /\ cache' = [cache EXCEPT !.states = got[Sup]]
      BY <1>5, <2>1 DEF InitNext
    <3>2. got[Sup] <= truth.state
      BY <1>b, <2>1, <3>1 DEF GotInv, Newer
    <3>3. cache'.states = got[Sup] /\ cache'.registry = cache.registry
      BY <3>1, StatesSet
    <3>. QED
      BY <1>b, <2>0, <3>2, <3>3 DEF VersionInv
  <2>2. CASE Asked(Sup) = "subscribe"
    BY <1>1, <1>5, <2>0, <2>2 DEF InitNext
  <2>3. CASE Asked(Sup) \in Table
    <3>1. StoreTable(Sup)
      BY <1>5, <2>3, <1>b, AskedIs DEF InitNext
    <3>2. /\ cache'.states = cache.states
          /\ \A table \in Table : cache'.registry[table] = cache.registry[table]
                                    \/ cache'.registry[table] <= truth.registry
      BY <1>a, <1>b, <2>3, <3>1, TableStored
    <3>. QED
      BY <1>b, <2>0, <3>2 DEF VersionInv
  <2>. QED
    BY <1>b, <2>0, <2>1, <2>2, <2>3, AskedIs
<1>6. ASSUME NEW r \in Refreshers, RefreshNext(r) PROVE VersionInv'
  <2>0. UNCHANGED <<truth, announced>> /\ StoreTable(r) /\ call[r] # "none"
    BY <1>6 DEF RefreshNext
  <2>1. Asked(r) \in Table
    BY <1>b, <2>0, AskedIs
  <2>2. /\ cache'.states = cache.states
        /\ \A table \in Table : cache'.registry[table] = cache.registry[table]
                                  \/ cache'.registry[table] <= truth.registry
    BY <1>a, <1>b, <2>0, <2>1, TableStored
  <2>3. pub' = "off" => pub = "off"
    BY <1>6 DEF RefreshNext, RefreshDone, CopySource
  <2>. QED
    BY <1>b, <2>0, <2>2, <2>3 DEF VersionInv
<1>7. CASE LinkDrop \/ Expire
  BY <1>1, <1>7 DEF LinkDrop, Expire
<1>8. ASSUME NEW t \in Askers, HaAnswers(t) \/ HaRefuses(t) \/ CallTimeout(t)
      PROVE  VersionInv'
  BY <1>1, <1>8 DEF HaAnswers, HaRefuses, CallTimeout
<1>9. CASE Dial \/ InitFailed \/ ReaderEnded
  BY <1>1, <1>9 DEF Dial, InitFailed, ReaderEnded
<1>10. ASSUME NEW r \in Refreshers,
              OtherRefresh(r) \/ LockRegistry(r) \/ Send(r) \/ GiveUp(r)
       PROVE  VersionInv'
  BY <1>1, <1>10 DEF OtherRefresh, LockRegistry, Send, GiveUp
<1>11. CASE PubStart \/ PubStep \/ PubStop
  <2>1. UNCHANGED <<truth, announced, cache>> /\ pub' # "off"
    BY <1>11 DEF PubStart, PubStep, PubStop, WakeUp, Periodic, DebounceOver, PaceOver,
                 BuildDone, BuildFails, CopySource
  <2>. QED
    BY <1>1, <2>1
<1>. QED
  BY <1>1, <1>2, <1>3, <1>4, <1>5, <1>6, <1>7, <1>8, <1>9, <1>10, <1>11
  DEF Next, SupStep, RefreshStep

-----------------------------------------------------------------------------
(* The receive buffer.                                                     *)

\* A task that is waited for by a reply is the only one, and asks nothing else.
LEMMA ReplyTo ==
  ASSUME TypeOK, AskInv, FrameInv, NEW i \in DOMAIN inbox, inbox[i].kind = "reply"
  PROVE  /\ inbox[i] \in Frame /\ inbox[i].to \in Askers /\ inbox[i].ver \in Nat
         /\ call[inbox[i].to] = "coming"
         /\ conn = "init" <=> inbox[i].to = Sup
         /\ inbox[i].to # Sup => lock = inbox[i].to /\ conn = "serve"
<1>. USE Constants
<1>1. inbox[i] \in Frame
  BY DEF TypeOK
<1>2. inbox[i].to \in Askers /\ inbox[i].ver \in Nat /\ call[inbox[i].to] = "coming"
  BY <1>1 DEF Frame, FrameInv
<1>. QED
  BY <1>1, <1>2 DEF AskInv, TypeOK

\* While something is not waited for, no reply to it is in the buffer; while a
\* task has its answer in hand, no reply at all is, but for an interrupted
\* refresh during the next initialisation.
LEMMA NoReply ==
  ASSUME TypeOK, AskInv, FrameInv, NEW t \in Askers, call[t] \notin {"none", "coming"},
         t = Sup \/ call[t] \notin {"ask", "error"}
  PROVE  \A i \in DOMAIN inbox : inbox[i].kind # "reply"
<1>. SUFFICES ASSUME NEW i \in DOMAIN inbox, inbox[i].kind = "reply"
              PROVE  FALSE
  OBVIOUS
<1>1. /\ inbox[i].to \in Askers /\ call[inbox[i].to] = "coming"
      /\ conn = "init" <=> inbox[i].to = Sup
      /\ inbox[i].to # Sup => lock = inbox[i].to /\ conn = "serve"
  BY ReplyTo
<1>2. CASE t = Sup
  BY <1>1, <1>2 DEF AskInv
<1>3. CASE t \in Refreshers
  <2>1. lock = t
    BY <1>3 DEF AskInv
  <2>2. CASE conn = "init"
    BY <1>3, <2>2, Constants DEF AskInv
  <2>3. CASE conn # "init"
    BY <1>1, <2>1, <2>3
  <2>. QED
    BY <2>2, <2>3
<1>. QED
  BY <1>2, <1>3, Constants

\* What is left of the buffer after a step that only takes from it.
Shrunk ==
  /\ inbox' \in Seq(Frame)
  /\ inbox = <<>> => inbox' = <<>>
  /\ \E d \in {0, 1} :
       \A i \in DOMAIN inbox' :
         /\ i \in Nat
         /\ inbox'[i].kind # "unknown" =>
              i + d \in DOMAIN inbox /\ inbox'[i] = inbox[i + d]

\* Reading a frame, giving up on a reply or leaving the buffer is such a step.
LEMMA ShrinkCases ==
  ASSUME TypeOK
  PROVE  /\ UNCHANGED inbox => Shrunk
         /\ inbox # <<>> /\ inbox' = Tail(inbox) => Shrunk
         /\ \A t : inbox' = Disowned(t) => Shrunk
<1>1. ASSUME inbox # <<>>, inbox' = Tail(inbox) PROVE Shrunk
  <2>1. /\ inbox' \in Seq(Frame)
        /\ \A i \in DOMAIN inbox' :
             i \in Nat /\ i + 1 \in DOMAIN inbox /\ inbox'[i] = inbox[i + 1]
    BY <1>1, Tailed DEF TypeOK
  <2>. QED
    BY <1>1, <2>1 DEF Shrunk
<1>2. ASSUME NEW t, inbox' = Disowned(t) PROVE Shrunk
  <2>1. /\ inbox' \in Seq(Frame) /\ DOMAIN inbox' = DOMAIN inbox
        /\ \A i \in DOMAIN inbox' :
             inbox'[i].kind # "unknown" => inbox'[i] = inbox[i]
    BY <1>2, DisownedIs DEF TypeOK
  <2>2. \A i \in DOMAIN inbox' : i \in Nat /\ i + 0 = i
    BY <2>1
  <2>3. inbox = <<>> => inbox' = <<>>
    <3>1. DOMAIN inbox' = 1..Len(inbox') /\ Len(inbox') \in Nat
      BY <2>1
    <3>2. ASSUME inbox = <<>> PROVE Len(inbox') = 0
      <4>1. DOMAIN inbox = {}
        BY <3>2
      <4>2. 1..Len(inbox') = {}
        BY <2>1, <3>1, <4>1
      <4>. QED
        BY <3>1, <4>2
    <3>. QED
      BY <2>1, <3>2, EmptySeq
  <2>. QED
    BY <2>1, <2>2, <2>3 DEF Shrunk
<1>3. ASSUME UNCHANGED inbox PROVE Shrunk
  <2>1. \A i \in DOMAIN inbox : i \in Nat /\ i + 0 = i
    BY DEF TypeOK
  <2>. QED
    BY <1>3, <2>1 DEF Shrunk, TypeOK
<1>. QED
  BY <1>1, <1>2, <1>3

\* A step that takes from the buffer, and leaves the tasks whose reply stays
\* as they are, keeps FrameInv.
LEMMA ShrunkFrames ==
  ASSUME TypeOK, FrameInv, Shrunk, UNCHANGED <<conn, link>>,
         conn = "init" => subscribed' = subscribed /\ Asked(Sup)' = Asked(Sup),
         \A i \in DOMAIN inbox' :
           inbox'[i].kind = "reply" => call'[inbox'[i].to] = call[inbox'[i].to]
  PROVE  FrameInv'
<1>1. PICK d \in {0, 1} :
        \A i \in DOMAIN inbox' :
          /\ i \in Nat
          /\ inbox'[i].kind # "unknown" => i + d \in DOMAIN inbox /\ inbox'[i] = inbox[i + d]
  BY DEF Shrunk
<1>2. \A i, j \in DOMAIN inbox' :
        inbox'[i].kind = "reply" /\ inbox'[j].kind = "reply" => i = j
  <2>. SUFFICES ASSUME NEW i \in DOMAIN inbox', NEW j \in DOMAIN inbox',
                       inbox'[i].kind = "reply", inbox'[j].kind = "reply"
                PROVE  i = j
    OBVIOUS
  <2>1. /\ i + d \in DOMAIN inbox /\ inbox[i + d].kind = "reply" /\ i \in Nat
        /\ j + d \in DOMAIN inbox /\ inbox[j + d].kind = "reply" /\ j \in Nat
    BY <1>1
  <2>2. i + d = j + d
    BY <2>1 DEF FrameInv
  <2>. QED
    BY <2>1, <2>2
<1>3. \A i \in DOMAIN inbox' : inbox'[i].kind = "reply" => call'[inbox'[i].to] = "coming"
  BY <1>1 DEF FrameInv
<1>4. conn' = "init" /\ Asked(Sup)' # "subscribe" =>
        /\ ~subscribed'
        /\ \A i \in DOMAIN inbox' : inbox'[i].kind \notin {"state", "registry"}
  BY <1>1 DEF FrameInv
<1>5. conn' = "dial" => ~link' /\ inbox' = <<>>
  BY DEF FrameInv, Shrunk
<1>. QED
  BY <1>2, <1>3, <1>4, <1>5 DEF FrameInv

\* A step that leaves the buffer, the connection and the tasks waited for.
LEMMA SameFrames ==
  ASSUME FrameInv, UNCHANGED <<inbox, link, subscribed, conn>>,
         conn = "init" => at'[Sup] = at[Sup],
         \A i \in DOMAIN inbox :
           inbox[i].kind = "reply" => call'[inbox[i].to] = call[inbox[i].to]
  PROVE  FrameInv'
BY DEF FrameInv, Asked

\* An event is sent.
LEMMA EmittedFrames ==
  ASSUME TypeOK, FrameInv, NEW kind \in {"state", "registry"}, NEW ver \in Nat, Emit(kind, ver),
         UNCHANGED <<link, subscribed, conn, call, at>>
  PROVE  FrameInv'
<1>. DEFINE e == [kind |-> kind, ver |-> ver]
<1>1. CASE UNCHANGED inbox
  BY <1>1, SameFrames
<1>2. CASE link /\ subscribed /\ inbox' = Append(inbox, e)
  <2>1. e \in Frame /\ e.kind = kind
    BY DEF Frame
  <2>. HIDE DEF e
  <2>2. /\ DOMAIN inbox' = 1..(Len(inbox) + 1) /\ Len(inbox) \in Nat
        /\ DOMAIN inbox = 1..Len(inbox)
        /\ \A i \in DOMAIN inbox : inbox'[i] = inbox[i]
        /\ inbox'[Len(inbox) + 1] = e
    BY <1>2, <2>1, Appended DEF TypeOK
  <2>3. \A i \in DOMAIN inbox' : inbox'[i].kind = "reply" =>
          i \in DOMAIN inbox /\ inbox'[i] = inbox[i]
    BY <2>1, <2>2
  <2>4. conn # "dial" /\ ~(conn = "init" /\ Asked(Sup) # "subscribe")
    BY <1>2 DEF FrameInv
  <2>. QED
    BY <2>3, <2>4 DEF FrameInv, Asked
<1>. QED
  BY <1>1, <1>2 DEF Emit

\* Home Assistant replies.
LEMMA AnsweredFrames ==
  ASSUME TypeOK, AskInv, FrameInv, NEW t \in Askers, HaAnswers(t)
  PROVE  /\ FrameInv' /\ \A i \in DOMAIN inbox : inbox[i].kind # "reply"
         /\ DOMAIN inbox' = 1..(Len(inbox) + 1) /\ Len(inbox) \in Nat
         /\ DOMAIN inbox = 1..Len(inbox)
         /\ \A i \in DOMAIN inbox : inbox'[i] = inbox[i]
         /\ inbox'[Len(inbox) + 1].kind = "reply" /\ inbox'[Len(inbox) + 1].to = t
         /\ inbox'[Len(inbox) + 1].ver =
              IF Asked(t) = "states" THEN truth.state ELSE truth.registry
<1>. DEFINE v == IF Asked(t) = "states" THEN truth.state ELSE truth.registry
            e == [kind |-> "reply", to |-> t, ver |-> v]
<1>1. /\ call[t] = "sent" /\ link /\ call' = [call EXCEPT ![t] = "coming"]
      /\ subscribed' = (subscribed \/ Asked(t) = "subscribe")
      /\ inbox' = Append(inbox, e) /\ UNCHANGED <<link, conn, at>>
  BY DEF HaAnswers, client
<1>2. v \in Nat
  BY Numbers
<1>3. e \in Frame /\ e.kind = "reply" /\ e.to = t /\ e.ver = v
  BY <1>2 DEF Frame
<1>. HIDE DEF e, v
<1>4. /\ DOMAIN inbox' = 1..(Len(inbox) + 1) /\ Len(inbox) \in Nat
      /\ DOMAIN inbox = 1..Len(inbox)
      /\ \A i \in DOMAIN inbox : inbox'[i] = inbox[i]
      /\ inbox'[Len(inbox) + 1] = e
  BY <1>1, <1>3, Appended DEF TypeOK
<1>5. \A i \in DOMAIN inbox : inbox[i].kind # "reply"
  BY <1>1, NoReply
<1>6. \A i \in DOMAIN inbox' : inbox'[i].kind = "reply" => i = Len(inbox) + 1
  BY <1>4, <1>5
<1>7. conn # "dial"
  BY <1>1 DEF FrameInv
<1>8. call'[t] = "coming"
  BY <1>1 DEF TypeOK
<1>9. ASSUME conn = "init", Asked(Sup) # "subscribe"
      PROVE  ~subscribed' /\ \A i \in DOMAIN inbox' : inbox'[i].kind \notin {"state", "registry"}
  <2>1. t = Sup
    BY <1>1, <1>9, Constants DEF AskInv
  <2>2. ~subscribed'
    BY <1>1, <1>9, <2>1 DEF FrameInv
  <2>3. ASSUME NEW i \in DOMAIN inbox' PROVE inbox'[i].kind \notin {"state", "registry"}
    BY <1>3, <1>4, <1>9, <2>3 DEF FrameInv
  <2>. QED
    BY <2>2, <2>3
<1>10. FrameInv'
  BY <1>1, <1>3, <1>4, <1>6, <1>7, <1>8, <1>9 DEF FrameInv, Asked
<1>. QED
  BY <1>3, <1>4, <1>5, <1>10 DEF v

\* Every step keeps the frames with the tasks that wait for them.
LEMMA FrameStep ==
  ASSUME TypeOK, AskInv, FrameInv, [Next]_vars
  PROVE  FrameInv'
<1>. USE Constants DEF vars, ha, client, calls, publisher, history
<1>a. /\ at \in [Askers -> 0..4]
      /\ call \in [Askers -> {"none", "ask", "sent", "coming", "got", "refused", "error"}]
      /\ rpc \in [Refreshers -> {"idle", "lock", "fetch", "done"}]
      /\ conn \in {"dial", "init", "serve"} /\ link \in BOOLEAN
  BY StepsAre DEF TypeOK
<1>c. truth.state + 1 \in Nat /\ truth.registry + 1 \in Nat
  BY Numbers
<1>b. \A i \in DOMAIN inbox : inbox[i].kind = "reply" =>
        inbox[i].to \in Askers /\ call[inbox[i].to] = "coming"
  BY ReplyTo
<1>1. CASE UNCHANGED <<inbox, link, subscribed, conn, call, at>>
  BY <1>1, SameFrames
<1>2. CASE StateChanges \/ RegistryChanges
  BY <1>2, <1>c, EmittedFrames DEF StateChanges, RegistryChanges
<1>3. CASE LinkDrop
  BY <1>3, <1>a DEF LinkDrop, FrameInv, Asked
<1>4. ASSUME NEW t \in Askers, HaAnswers(t) PROVE FrameInv'
  BY <1>4, AnsweredFrames
<1>5. ASSUME NEW t \in Askers, HaRefuses(t) PROVE FrameInv'
  <2>1. /\ call[t] = "sent" /\ UNCHANGED <<inbox, link, subscribed, conn, at>>
        /\ \A u \in Askers \ {t} : call'[u] = call[u]
    BY <1>5, <1>a DEF HaRefuses
  <2>. QED
    BY <1>b, <2>1, SameFrames
<1>6. ASSUME NEW t \in Askers, CallTimeout(t) PROVE FrameInv'
  <2>1. /\ inbox' = Disowned(t) /\ UNCHANGED <<link, subscribed, conn, at>>
        /\ \A u \in Askers \ {t} : call'[u] = call[u]
    BY <1>6, <1>a DEF CallTimeout
  <2>2. \A i \in DOMAIN inbox' : inbox'[i].kind = "reply" =>
          inbox'[i].to \in Askers \ {t}
    <3>1. /\ DOMAIN inbox' = DOMAIN inbox
          /\ \A i \in DOMAIN inbox :
               \/ inbox'[i].kind = "unknown"
               \/ inbox'[i] = inbox[i] /\ ~(inbox[i].kind = "reply" /\ inbox[i].to = t)
      BY <2>1, DisownedIs DEF TypeOK
    <3>. QED
      BY <1>b, <3>1
  <2>3. Shrunk
    BY <2>1, ShrinkCases
  <2>4. conn = "init" => subscribed' = subscribed /\ Asked(Sup)' = Asked(Sup)
    BY <2>1 DEF Asked
  <2>. QED
    BY <2>1, <2>2, <2>3, <2>4, ShrunkFrames
<1>7. CASE Read
  <2>. DEFINE f == Head(inbox)
  <2>1. /\ inbox # <<>> /\ inbox' = Tail(inbox) /\ UNCHANGED <<link, subscribed, conn, at>>
        /\ UNCHANGED call \/ (f.kind = "reply" /\ call' = [call EXCEPT ![f.to] = "got"])
    BY <1>7 DEF Read
  <2>2. /\ f = inbox[1] /\ 1 \in DOMAIN inbox
        /\ \A i \in DOMAIN inbox' : i \in Nat /\ i > 0 /\ i + 1 \in DOMAIN inbox
                                      /\ inbox'[i] = inbox[i + 1]
    BY <2>1, Tailed DEF TypeOK
  <2>. HIDE DEF f
  <2>3. CASE UNCHANGED call
    BY <2>1, <2>3, ShrinkCases, ShrunkFrames DEF Asked
  <2>4. CASE f.kind = "reply"
    <3>1. \A i \in DOMAIN inbox' : inbox'[i].kind # "reply"
      <4>. SUFFICES ASSUME NEW i \in DOMAIN inbox', inbox'[i].kind = "reply" PROVE FALSE
        OBVIOUS
      <4>1. i \in Nat /\ i > 0 /\ i + 1 \in DOMAIN inbox /\ inbox[i + 1].kind = "reply"
        BY <2>2
      <4>2. i + 1 = 1
        BY <2>2, <2>4, <4>1 DEF FrameInv
      <4>. QED
        BY <4>1, <4>2
    <3>. QED
      BY <2>1, <3>1, ShrinkCases, ShrunkFrames DEF Asked
  <2>. QED
    BY <2>1, <2>3, <2>4
<1>8. CASE Dial
  <2>1. /\ conn' = "init" /\ conn = "dial" /\ ~subscribed' /\ UNCHANGED inbox
        /\ at'[Sup] = 1
    BY <1>8, <1>a DEF Dial
  <2>2. inbox' = <<>> /\ DOMAIN inbox' = {}
    BY <2>1 DEF FrameInv
  <2>. QED
    BY <2>1, <2>2 DEF FrameInv
<1>9. CASE InitNext
  <2>1. /\ conn = "init" /\ call[Sup] \in {"got", "refused", "error"}
        /\ UNCHANGED <<inbox, link, subscribed>> /\ conn' \in {"init", "serve"}
    BY <1>9 DEF InitNext
  <2>2. \A i \in DOMAIN inbox : inbox[i].kind # "reply"
    BY <2>1, NoReply
  <2>3. ASSUME conn' = "init"
        PROVE  ~subscribed /\ \A i \in DOMAIN inbox : inbox[i].kind \notin {"state", "registry"}
    <3>1. at[Sup] < Len(InitSteps)
      BY <1>9, <2>3 DEF InitNext
    <3>2. Asked(Sup) # "subscribe"
      BY <2>1, <3>1, AskedIs, StepsAre
    <3>. QED
      BY <2>1, <3>2 DEF FrameInv
  <2>. QED
    BY <2>1, <2>2, <2>3 DEF FrameInv
<1>10. CASE InitFailed \/ ReaderEnded
  <2>1. conn' = "dial" /\ inbox' = <<>> /\ ~link'
    BY <1>10, <1>a DEF InitFailed, ReaderEnded
  <2>2. DOMAIN inbox' = {}
    BY <2>1
  <2>. QED
    BY <2>1, <2>2 DEF FrameInv
<1>11. CASE Expire
  BY <1>1, <1>11 DEF Expire
<1>12. ASSUME NEW r \in Refreshers, OtherRefresh(r) PROVE FrameInv'
  BY <1>1, <1>12 DEF OtherRefresh
<1>13. ASSUME NEW r \in Refreshers, LockRegistry(r) \/ Send(r) \/ GiveUp(r) \/ RefreshNext(r)
       PROVE  FrameInv'
  <2>1. /\ call[r] # "coming" /\ at'[Sup] = at[Sup]
        /\ \A u \in Askers \ {r} : call'[u] = call[u]
        /\ UNCHANGED <<inbox, link, subscribed, conn>>
    <3>1. CASE LockRegistry(r)
      BY <3>1, <1>a DEF LockRegistry, AskInv
    <3>2. CASE Send(r) \/ GiveUp(r)
      BY <3>2, <1>a DEF Send, GiveUp
    <3>3. CASE RefreshNext(r)
      BY <3>3, <1>a DEF RefreshNext, RefreshDone
    <3>. QED
      BY <1>13, <3>1, <3>2, <3>3
  <2>. QED
    BY <1>b, <2>1, SameFrames
<1>14. CASE PubStart \/ PubStep
  BY <1>1, <1>14 DEF PubStart, PubStep, WakeUp, Periodic, DebounceOver, PaceOver,
                     BuildDone, BuildFails, CopySource
<1>15. CASE PubStop
  <2>1. /\ inbox' = Disowned(Pub) /\ UNCHANGED <<link, subscribed, conn>>
        /\ \A u \in Askers \ {Pub} : call'[u] = call[u] /\ at'[u] = at[u]
    BY <1>15, <1>a DEF PubStop
  <2>2. \A i \in DOMAIN inbox' : inbox'[i].kind = "reply" =>
          inbox'[i].to \in Askers \ {Pub}
    <3>1. /\ DOMAIN inbox' = DOMAIN inbox
          /\ \A i \in DOMAIN inbox :
               \/ inbox'[i].kind = "unknown"
               \/ inbox'[i] = inbox[i] /\ ~(inbox[i].kind = "reply" /\ inbox[i].to = Pub)
      BY <2>1, DisownedIs DEF TypeOK
    <3>. QED
      BY <1>b, <3>1
  <2>3. Shrunk
    BY <2>1, ShrinkCases
  <2>4. conn = "init" => subscribed' = subscribed /\ Asked(Sup)' = Asked(Sup)
    BY <2>1 DEF Asked
  <2>. QED
    BY <2>1, <2>2, <2>3, <2>4, ShrunkFrames
<1>. QED
  BY <1>1, <1>2, <1>3, <1>4, <1>5, <1>6, <1>7, <1>8, <1>9, <1>10, <1>11, <1>12, <1>13, <1>14, <1>15
  DEF Next, SupStep, RefreshStep

-----------------------------------------------------------------------------
(* The order of what is to be read.                                        *)

\* A step that only takes from the buffer keeps what is left in order, if it
\* makes no cache newer than that.
LEMMA ShrunkInbox ==
  ASSUME InboxInv, Shrunk, UNCHANGED truth,
         \A i \in DOMAIN inbox' :
           inbox'[i].kind = "state" => cache'.states <= inbox'[i].ver,
         \A i \in DOMAIN inbox' :
           inbox'[i].kind = "reply" =>
             /\ at'[inbox'[i].to] = at[inbox'[i].to]
             /\ Asked(inbox'[i].to) = "states" => cache'.states <= inbox'[i].ver
             /\ Asked(inbox'[i].to) \in Table =>
                  /\ cache'.registry[Asked(inbox'[i].to)] <= inbox'[i].ver
                  /\ announced' <= inbox'[i].ver
  PROVE  InboxInv'
<1>1. PICK d \in {0, 1} :
        \A i \in DOMAIN inbox' :
          /\ i \in Nat
          /\ inbox'[i].kind # "unknown" => i + d \in DOMAIN inbox /\ inbox'[i] = inbox[i + d]
  BY DEF Shrunk
<1>2. ASSUME NEW i \in DOMAIN inbox', inbox'[i].kind = "state"
      PROVE  /\ cache'.states <= inbox'[i].ver /\ inbox'[i].ver <= truth'.state
             /\ \A j \in DOMAIN inbox' :
                  i < j /\ inbox'[j].kind = "state" => inbox'[i].ver <= inbox'[j].ver
  <2>1. i \in Nat /\ i + d \in DOMAIN inbox /\ inbox'[i] = inbox[i + d]
    BY <1>1, <1>2
  <2>2. inbox'[i].ver <= truth'.state
    BY <1>2, <2>1 DEF InboxInv
  <2>3. ASSUME NEW j \in DOMAIN inbox', i < j, inbox'[j].kind = "state"
        PROVE  inbox'[i].ver <= inbox'[j].ver
    <3>1. j \in Nat /\ j + d \in DOMAIN inbox /\ inbox'[j] = inbox[j + d]
      BY <1>1, <2>3
    <3>2. i + d < j + d
      BY <2>1, <2>3, <3>1
    <3>. QED
      BY <1>2, <2>1, <2>3, <3>1, <3>2 DEF InboxInv
  <2>. QED
    BY <1>2, <2>2, <2>3
<1>3. ASSUME NEW i \in DOMAIN inbox', inbox'[i].kind = "registry"
      PROVE  /\ inbox'[i].ver <= truth'.registry
             /\ \A j \in DOMAIN inbox' :
                  i < j /\ inbox'[j].kind = "reply" /\ Asked(inbox[j].to)' \in Table
                    => inbox'[i].ver <= inbox'[j].ver
  <2>1. i \in Nat /\ i + d \in DOMAIN inbox /\ inbox'[i] = inbox[i + d]
    BY <1>1, <1>3
  <2>2. inbox'[i].ver <= truth'.registry
    BY <1>3, <2>1 DEF InboxInv
  <2>3. ASSUME NEW j \in DOMAIN inbox', i < j, inbox'[j].kind = "reply",
               Asked(inbox[j].to)' \in Table
        PROVE  inbox'[i].ver <= inbox'[j].ver
    <3>1. j \in Nat /\ j + d \in DOMAIN inbox /\ inbox'[j] = inbox[j + d]
      BY <1>1, <2>3
    <3>2. i + d < j + d /\ Asked(inbox[j + d].to) \in Table
      BY <2>1, <2>3, <3>1 DEF Asked
    <3>. QED
      BY <1>3, <2>1, <2>3, <3>1, <3>2 DEF InboxInv
  <2>. QED
    BY <2>2, <2>3
<1>4. ASSUME NEW i \in DOMAIN inbox', inbox'[i].kind = "reply"
      PROVE  /\ Newer(inbox[i].to, inbox[i].ver)'
             /\ Asked(inbox[i].to)' \in Table => announced' <= inbox'[i].ver
  <2>1. i \in Nat /\ i + d \in DOMAIN inbox /\ inbox'[i] = inbox[i + d]
    BY <1>1, <1>4
  <2>2. Newer(inbox'[i].to, inbox'[i].ver)
    BY <1>4, <2>1 DEF InboxInv
  <2>3. Asked(inbox[i].to)' = Asked(inbox'[i].to)
    BY <1>4 DEF Asked
  <2>. QED
    BY <1>4, <2>2, <2>3 DEF Newer
<1>. QED
  BY <1>2, <1>3, <1>4 DEF InboxInv

\* A step that leaves caches and versions keeps the order.
LEMMA CalmInbox ==
  ASSUME TypeOK, AskInv, FrameInv, InboxInv, Shrunk, UNCHANGED <<truth, cache, announced>>,
         \A i \in DOMAIN inbox' :
           inbox'[i].kind = "reply" => at'[inbox'[i].to] = at[inbox'[i].to]
  PROVE  InboxInv'
<1>1. PICK d \in {0, 1} :
        \A i \in DOMAIN inbox' :
          /\ i \in Nat
          /\ inbox'[i].kind # "unknown" => i + d \in DOMAIN inbox /\ inbox'[i] = inbox[i + d]
  BY DEF Shrunk
<1>2. \A i \in DOMAIN inbox' :
        inbox'[i].kind = "state" => cache'.states <= inbox'[i].ver
  BY <1>1 DEF InboxInv
<1>3. \A i \in DOMAIN inbox' :
        inbox'[i].kind = "reply" =>
          /\ Asked(inbox'[i].to) = "states" => cache'.states <= inbox'[i].ver
          /\ Asked(inbox'[i].to) \in Table =>
               /\ cache'.registry[Asked(inbox'[i].to)] <= inbox'[i].ver
               /\ announced' <= inbox'[i].ver
  BY <1>1 DEF InboxInv, Newer
<1>. QED
  BY <1>2, <1>3, ShrunkInbox

\* An event is the newest there is.
LEMMA EmittedInbox ==
  ASSUME TypeOK, VersionInv, InboxInv, StateChanges \/ RegistryChanges
  PROVE  InboxInv'
<1>. USE DEF client, calls, publisher, history
<1>a. /\ truth.state \in Nat /\ truth.registry \in Nat /\ cache.states \in Nat
  BY Numbers
<1>b. \A i \in DOMAIN inbox : inbox[i] \in Frame
  BY DEF TypeOK
<1>c. \A i \in DOMAIN inbox :
        inbox[i].kind \in {"reply", "state", "registry"} => inbox[i].ver \in Nat
  BY <1>b DEF Frame
<1>d. UNCHANGED <<cache, announced, at>>
  BY DEF StateChanges, RegistryChanges
<1>e. /\ truth'.state \in Nat /\ truth'.registry \in Nat
      /\ truth.state <= truth'.state /\ truth.registry <= truth'.registry
  BY <1>a DEF StateChanges, RegistryChanges, TypeOK
<1>f. \A i \in DOMAIN inbox :
        /\ inbox[i].kind = "state" =>
             cache'.states <= inbox[i].ver /\ inbox[i].ver <= truth.state /\ inbox[i].ver <= truth'.state
        /\ inbox[i].kind = "registry" =>
             inbox[i].ver <= truth.registry /\ inbox[i].ver <= truth'.registry
        /\ inbox[i].kind = "reply" =>
             /\ Asked(inbox[i].to) = "states" =>
                  cache.states <= inbox[i].ver /\ inbox[i].ver <= truth'.state
             /\ Asked(inbox[i].to) \in Table =>
                  /\ cache.registry[Asked(inbox[i].to)] <= inbox[i].ver
                  /\ inbox[i].ver <= truth'.registry /\ announced <= inbox[i].ver
  BY <1>a, <1>c, <1>d, <1>e DEF InboxInv, Newer
<1>1. CASE UNCHANGED inbox
  BY <1>1, <1>d, <1>f DEF InboxInv, Newer, Asked
<1>2. ASSUME NEW kind \in {"state", "registry"}, NEW ver \in Nat,
             inbox' = Append(inbox, [kind |-> kind, ver |-> ver]),
             kind = "state" => ver = truth'.state /\ truth.state <= ver,
             kind = "registry" => ver = truth'.registry
      PROVE  InboxInv'
  <2>. DEFINE e == [kind |-> kind, ver |-> ver]
  <2>1. e \in Frame /\ e.kind = kind /\ e.ver = ver
    BY DEF Frame
  <2>. HIDE DEF e
  <2>2. /\ DOMAIN inbox' = 1..(Len(inbox) + 1) /\ Len(inbox) \in Nat
        /\ DOMAIN inbox = 1..Len(inbox)
        /\ \A i \in DOMAIN inbox : inbox'[i] = inbox[i]
        /\ inbox'[Len(inbox) + 1] = e
    BY <1>2, <2>1, Appended DEF TypeOK, e
  <2>3. cache'.states <= truth.state
    BY <1>d DEF VersionInv
  <2>4. ASSUME NEW i \in DOMAIN inbox', inbox'[i].kind = "state"
        PROVE  /\ cache'.states <= inbox'[i].ver /\ inbox'[i].ver <= truth'.state
               /\ \A j \in DOMAIN inbox' :
                    i < j /\ inbox'[j].kind = "state" => inbox'[i].ver <= inbox'[j].ver
    <3>1. CASE i \in DOMAIN inbox
      <4>1. ASSUME NEW j \in DOMAIN inbox', i < j, inbox'[j].kind = "state"
            PROVE  inbox'[i].ver <= inbox'[j].ver
        <5>1. CASE j \in DOMAIN inbox
          BY <2>2, <2>4, <3>1, <4>1, <5>1 DEF InboxInv
        <5>2. CASE j = Len(inbox) + 1
          BY <1>2, <1>a, <1>c, <1>f, <2>1, <2>2, <2>4, <3>1, <4>1, <5>2
        <5>. QED
          BY <2>2, <5>1, <5>2
      <4>. QED
        BY <1>f, <2>2, <2>4, <3>1, <4>1
    <3>2. CASE i = Len(inbox) + 1
      BY <1>2, <1>a, <1>d, <1>e, <2>1, <2>2, <2>3, <2>4, <3>2
    <3>. QED
      BY <2>2, <3>1, <3>2
  <2>5. ASSUME NEW i \in DOMAIN inbox', inbox'[i].kind = "registry"
        PROVE  /\ inbox'[i].ver <= truth'.registry
               /\ \A j \in DOMAIN inbox' :
                    i < j /\ inbox'[j].kind = "reply" /\ Asked(inbox[j].to)' \in Table
                      => inbox'[i].ver <= inbox'[j].ver
    <3>1. CASE i \in DOMAIN inbox
      <4>1. ASSUME NEW j \in DOMAIN inbox', i < j, inbox'[j].kind = "reply",
                   Asked(inbox[j].to)' \in Table
            PROVE  inbox'[i].ver <= inbox'[j].ver
        <5>1. j \in DOMAIN inbox
          BY <2>1, <2>2, <4>1
        <5>2. Asked(inbox[j].to) \in Table
          BY <1>d, <2>2, <4>1, <5>1 DEF Asked
        <5>. QED
          BY <2>2, <2>5, <3>1, <4>1, <5>1, <5>2 DEF InboxInv
      <4>. QED
        BY <1>f, <2>2, <2>5, <3>1, <4>1
    <3>2. CASE i = Len(inbox) + 1
      <4>1. inbox'[i].ver <= truth'.registry
        BY <1>2, <1>e, <2>1, <2>2, <2>5, <3>2
      <4>2. \A j \in DOMAIN inbox' : ~(i < j)
        BY <2>2, <3>2
      <4>. QED
        BY <4>1, <4>2
    <3>. QED
      BY <2>2, <3>1, <3>2
  <2>6. ASSUME NEW i \in DOMAIN inbox', inbox'[i].kind = "reply"
        PROVE  /\ Newer(inbox[i].to, inbox[i].ver)'
               /\ Asked(inbox[i].to)' \in Table => announced' <= inbox'[i].ver
    <3>1. i \in DOMAIN inbox /\ inbox'[i] = inbox[i]
      BY <2>1, <2>2, <2>6
    <3>2. Asked(inbox[i].to)' = Asked(inbox[i].to)
      BY <1>d, <3>1 DEF Asked
    <3>. QED
      BY <1>d, <1>f, <2>6, <3>1, <3>2 DEF Newer
  <2>. QED
    BY <2>4, <2>5, <2>6 DEF InboxInv
<1>3. CASE StateChanges
  <2>1. truth'.state = truth.state + 1
    BY <1>3 DEF StateChanges, TypeOK
  <2>. QED
    BY <1>3, <1>1, <1>2, <1>a, <1>e, <2>1 DEF StateChanges, Emit
<1>4. CASE RegistryChanges
  <2>1. truth'.registry = truth.registry + 1
    BY <1>4 DEF RegistryChanges, TypeOK
  <2>. QED
    BY <1>4, <1>1, <1>2, <1>a, <1>e, <2>1 DEF RegistryChanges, Emit
<1>. QED
  BY <1>3, <1>4

\* A reply carries the newest version.
LEMMA AnsweredInbox ==
  ASSUME TypeOK, IInv, NEW t \in Askers, HaAnswers(t)
  PROVE  InboxInv'
<1>a. AskInv /\ FrameInv /\ VersionInv /\ InboxInv
  BY DEF IInv
<1>b. UNCHANGED <<truth, cache, announced, at>>
  BY DEF HaAnswers, client, history
<1>c. /\ \A i \in DOMAIN inbox : inbox[i].kind # "reply"
      /\ DOMAIN inbox' = 1..(Len(inbox) + 1) /\ Len(inbox) \in Nat
      /\ DOMAIN inbox = 1..Len(inbox)
      /\ \A i \in DOMAIN inbox : inbox'[i] = inbox[i]
      /\ inbox'[Len(inbox) + 1].kind = "reply" /\ inbox'[Len(inbox) + 1].to = t
      /\ inbox'[Len(inbox) + 1].ver =
           IF Asked(t) = "states" THEN truth.state ELSE truth.registry
  BY <1>a, AnsweredFrames
<1>1. ASSUME NEW i \in DOMAIN inbox', inbox'[i].kind = "state"
      PROVE  /\ cache'.states <= inbox'[i].ver /\ inbox'[i].ver <= truth'.state
             /\ \A j \in DOMAIN inbox' :
                  i < j /\ inbox'[j].kind = "state" => inbox'[i].ver <= inbox'[j].ver
  BY <1>1, <1>a, <1>b, <1>c DEF InboxInv
<1>2. ASSUME NEW i \in DOMAIN inbox', inbox'[i].kind = "registry"
      PROVE  /\ inbox'[i].ver <= truth'.registry
             /\ \A j \in DOMAIN inbox' :
                  i < j /\ inbox'[j].kind = "reply" /\ Asked(inbox[j].to)' \in Table
                    => inbox'[i].ver <= inbox'[j].ver
  <2>1. inbox'[i].ver <= truth.registry
    BY <1>2, <1>a, <1>c DEF InboxInv
  <2>2. ASSUME NEW j \in DOMAIN inbox', inbox'[j].kind = "reply", Asked(inbox[j].to)' \in Table
        PROVE  inbox'[j].ver = truth.registry
    <3>1. j = Len(inbox) + 1
      BY <1>c, <2>2
    <3>2. Asked(t) \in Table
      BY <1>b, <1>c, <2>2, <3>1 DEF Asked
    <3>3. Asked(t) # "states"
      BY <1>a, <3>2, AskedIs
    <3>. QED
      BY <1>c, <3>1, <3>3
  <2>. QED
    BY <1>b, <2>1, <2>2
<1>3. ASSUME NEW i \in DOMAIN inbox', inbox'[i].kind = "reply"
      PROVE  /\ Newer(inbox[i].to, inbox[i].ver)'
             /\ Asked(inbox[i].to)' \in Table => announced' <= inbox'[i].ver
  <2>1. i = Len(inbox) + 1 /\ inbox'[i].to = t
    BY <1>3, <1>c
  <2>2. Asked(inbox[i].to)' = Asked(t)
    BY <1>b, <2>1 DEF Asked
  <2>3. /\ Asked(t) = "states" => cache.states <= inbox'[i].ver /\ inbox'[i].ver <= truth.state
        /\ Asked(t) \in Table => /\ cache.registry[Asked(t)] <= inbox'[i].ver
                                 /\ inbox'[i].ver <= truth.registry /\ announced <= inbox'[i].ver
    <3>1. "states" \notin Table
      BY <1>a, AskedIs
    <3>2. truth.state <= truth.state /\ truth.registry <= truth.registry
      BY Numbers
    <3>. QED
      BY <1>a, <1>c, <2>1, <3>1, <3>2 DEF VersionInv
  <2>. QED
    BY <1>b, <2>2, <2>3 DEF Newer
<1>. QED
  BY <1>1, <1>2, <1>3 DEF InboxInv

\* Every step keeps the buffer in order.
LEMMA InboxStep ==
  ASSUME TypeOK, IInv, [Next]_vars
  PROVE  InboxInv'
<1>. USE Constants DEF vars, ha, client, calls, publisher, history
<1>a. AskInv /\ FrameInv /\ VersionInv /\ InboxInv /\ GotInv
  BY DEF IInv
<1>b. \A i \in DOMAIN inbox : inbox[i].kind = "reply" =>
        inbox[i].to \in Askers /\ call[inbox[i].to] = "coming"
  BY <1>a, ReplyTo
<1>c. /\ at \in [Askers -> 0..4]
      /\ call \in [Askers -> {"none", "ask", "sent", "coming", "got", "refused", "error"}]
      /\ rpc \in [Refreshers -> {"idle", "lock", "fetch", "done"}]
  BY StepsAre DEF TypeOK
<1>1. CASE UNCHANGED <<inbox, truth, cache, announced, at>>
  BY <1>1, <1>a, ShrinkCases, CalmInbox
<1>2. CASE StateChanges \/ RegistryChanges
  BY <1>2, <1>a, EmittedInbox
<1>3. CASE LinkDrop \/ Expire
  BY <1>1, <1>3 DEF LinkDrop, Expire
<1>4. ASSUME NEW t \in Askers, HaAnswers(t) PROVE InboxInv'
  BY <1>4, AnsweredInbox
<1>5. ASSUME NEW t \in Askers, HaRefuses(t) PROVE InboxInv'
  BY <1>1, <1>5 DEF HaRefuses
<1>6. ASSUME NEW t \in Askers, CallTimeout(t) PROVE InboxInv'
  <2>1. inbox' = Disowned(t) /\ UNCHANGED <<truth, cache, announced, at>>
    BY <1>6 DEF CallTimeout
  <2>. QED
    BY <1>a, <2>1, ShrinkCases, CalmInbox
<1>7. CASE Read
  <2>. DEFINE f == Head(inbox)
  <2>1. /\ inbox # <<>> /\ inbox' = Tail(inbox) /\ UNCHANGED <<truth, at>>
    BY <1>7 DEF Read
  <2>2. /\ f = inbox[1] /\ 1 \in DOMAIN inbox /\ f \in Frame
        /\ \A i \in DOMAIN inbox' : i \in Nat /\ i > 0 /\ i + 1 \in DOMAIN inbox
                                      /\ inbox'[i] = inbox[i + 1]
    BY <2>1, Tailed DEF TypeOK
  <2>3. \/ f.kind = "state" /\ cache' = [cache EXCEPT !.states = f.ver] /\ UNCHANGED announced
        \/ /\ f.kind = "registry" /\ UNCHANGED cache
           /\ announced' = IF Listening THEN f.ver ELSE announced
        \/ UNCHANGED <<cache, announced>>
    BY <1>7 DEF Read
  <2>. HIDE DEF f
  <2>4. CASE UNCHANGED <<cache, announced>>
    BY <1>a, <2>1, <2>4, ShrinkCases, CalmInbox
  <2>5. CASE f.kind = "state" /\ cache' = [cache EXCEPT !.states = f.ver] /\ UNCHANGED announced
    <3>1. cache'.states = f.ver /\ cache'.registry = cache.registry
      BY <2>5, StatesSet
    <3>2. ASSUME NEW i \in DOMAIN inbox', inbox'[i].kind = "state"
          PROVE  cache'.states <= inbox'[i].ver
      <4>1. i + 1 \in DOMAIN inbox /\ 1 < i + 1 /\ inbox'[i] = inbox[i + 1]
        BY <2>2
      <4>. QED
        BY <1>a, <2>2, <2>5, <3>1, <3>2, <4>1 DEF InboxInv
    <3>3. ASSUME NEW i \in DOMAIN inbox', inbox'[i].kind = "reply"
          PROVE  /\ Asked(inbox'[i].to) # "states"
                 /\ Asked(inbox'[i].to) \in Table =>
                      /\ cache'.registry[Asked(inbox'[i].to)] <= inbox'[i].ver
                      /\ announced' <= inbox'[i].ver
      <4>1. i + 1 \in DOMAIN inbox /\ inbox'[i] = inbox[i + 1]
        BY <2>2
      <4>2. inbox'[i].to \in Askers /\ (conn = "init" <=> inbox'[i].to = Sup)
            /\ call[inbox'[i].to] = "coming"
        BY <1>a, <3>3, <4>1, ReplyTo
      <4>3. Asked(inbox'[i].to) # "states"
        <5>1. CASE inbox'[i].to = Sup
          <6>1. conn = "init" /\ Asked(Sup) = "subscribe"
            BY <1>a, <2>2, <2>5, <4>2, <5>1 DEF FrameInv
          <6>. QED
            BY <5>1, <6>1
        <5>2. CASE inbox'[i].to \in Refreshers
          BY <1>a, <4>2, <5>2, AskedIs
        <5>. QED
          BY <4>2, <5>1, <5>2
      <4>. QED
        BY <1>a, <2>5, <3>1, <3>3, <4>1, <4>3 DEF InboxInv, Newer
    <3>. QED
      BY <1>a, <2>1, <3>2, <3>3, ShrinkCases, ShrunkInbox
  <2>6. CASE /\ f.kind = "registry" /\ UNCHANGED cache
             /\ announced' = (IF Listening THEN f.ver ELSE announced)
    <3>2. ASSUME NEW i \in DOMAIN inbox', inbox'[i].kind = "state"
          PROVE  cache'.states <= inbox'[i].ver
      BY <1>a, <2>2, <2>6, <3>2 DEF InboxInv
    <3>3. ASSUME NEW i \in DOMAIN inbox', inbox'[i].kind = "reply"
          PROVE  /\ Asked(inbox'[i].to) = "states" => cache'.states <= inbox'[i].ver
                 /\ Asked(inbox'[i].to) \in Table =>
                      /\ cache'.registry[Asked(inbox'[i].to)] <= inbox'[i].ver
                      /\ announced' <= inbox'[i].ver
      <4>1. i + 1 \in DOMAIN inbox /\ 1 < i + 1 /\ inbox'[i] = inbox[i + 1]
        BY <2>2
      <4>2. Asked(inbox'[i].to) \in Table => f.ver <= inbox'[i].ver
        BY <1>a, <2>2, <2>6, <3>3, <4>1 DEF InboxInv
      <4>. QED
        BY <1>a, <2>6, <3>3, <4>1, <4>2 DEF InboxInv, Newer
    <3>. QED
      BY <1>a, <2>1, <3>2, <3>3, ShrinkCases, ShrunkInbox
  <2>. QED
    BY <2>3, <2>4, <2>5, <2>6
<1>8. CASE Dial \/ InitFailed \/ ReaderEnded
  <2>1. inbox' = <<>>
    BY <1>8, <1>a DEF Dial, InitFailed, ReaderEnded, FrameInv
  <2>2. DOMAIN inbox' = {}
    BY <2>1
  <2>. QED
    BY <2>2 DEF InboxInv
<1>9. CASE InitNext
  <2>1. /\ conn = "init" /\ call[Sup] \in {"got", "refused", "error"}
        /\ UNCHANGED <<inbox, truth, announced>>
    BY <1>9 DEF InitNext
  <2>2. \A i \in DOMAIN inbox' : inbox'[i].kind # "reply"
    BY <1>a, <2>1, NoReply
  <2>3. ASSUME NEW i \in DOMAIN inbox', inbox'[i].kind = "state"
        PROVE  cache'.states <= inbox'[i].ver
    <3>1. Asked(Sup) = "subscribe"
      BY <1>a, <2>1, <2>3 DEF FrameInv
    <3>2. UNCHANGED cache
      BY <1>9, <3>1 DEF InitNext
    <3>. QED
      BY <1>a, <2>1, <2>3, <3>2 DEF InboxInv
  <2>. QED
    BY <1>a, <2>1, <2>2, <2>3, ShrinkCases, ShrunkInbox
<1>10. ASSUME NEW r \in Refreshers, OtherRefresh(r) \/ Send(r) \/ GiveUp(r)
       PROVE  InboxInv'
  BY <1>1, <1>10 DEF OtherRefresh, Send, GiveUp
<1>11. ASSUME NEW r \in Refreshers, LockRegistry(r) PROVE InboxInv'
  <2>1. /\ UNCHANGED <<inbox, truth, cache, announced>> /\ call[r] # "coming"
        /\ \A t \in Askers \ {r} : at'[t] = at[t]
    BY <1>11, <1>a, <1>c DEF LockRegistry, AskInv
  <2>. QED
    BY <1>a, <1>b, <2>1, ShrinkCases, CalmInbox
<1>12. ASSUME NEW r \in Refreshers, RefreshNext(r) PROVE InboxInv'
  <2>1. /\ UNCHANGED <<inbox, truth, announced>> /\ call[r] \in {"got", "refused", "error"}
        /\ \A t \in Askers \ {r} : at'[t] = at[t]
        /\ StoreTable(r)
    BY <1>12, <1>c DEF RefreshNext, RefreshDone
  <2>2. CASE call[r] = "error"
    <3>1. UNCHANGED cache
      BY <2>1, <2>2 DEF StoreTable
    <3>. QED
      BY <1>a, <1>b, <2>1, <2>2, <3>1, ShrinkCases, CalmInbox
  <2>3. CASE call[r] # "error"
    <3>1. \A i \in DOMAIN inbox' : inbox'[i].kind # "reply"
      BY <1>a, <2>1, <2>3, NoReply
    <3>2. Asked(r) \in Table
      BY <1>a, <2>1, AskedIs
    <3>3. cache'.states = cache.states
      BY <1>a, <2>1, <3>2, TableStored, Numbers
    <3>. QED
      BY <1>a, <2>1, <3>1, <3>3, ShrinkCases, ShrunkInbox DEF InboxInv
  <2>. QED
    BY <2>2, <2>3
<1>13. CASE PubStart \/ PubStep
  BY <1>1, <1>13 DEF PubStart, PubStep, WakeUp, Periodic, DebounceOver, PaceOver,
                     BuildDone, BuildFails, CopySource
<1>14. CASE PubStop
  <2>1. /\ inbox' = Disowned(Pub) /\ UNCHANGED <<truth, cache, announced>>
        /\ \A t \in Askers \ {Pub} : at'[t] = at[t]
    BY <1>14, <1>c DEF PubStop
  <2>2. \A i \in DOMAIN inbox' : inbox'[i].kind = "reply" =>
          inbox'[i].to \in Askers \ {Pub}
    <3>1. /\ DOMAIN inbox' = DOMAIN inbox
          /\ \A i \in DOMAIN inbox :
               \/ inbox'[i].kind = "unknown"
               \/ inbox'[i] = inbox[i] /\ ~(inbox[i].kind = "reply" /\ inbox[i].to = Pub)
      BY <2>1, DisownedIs DEF TypeOK
    <3>. QED
      BY <1>b, <3>1
  <2>. QED
    BY <1>a, <2>1, <2>2, ShrinkCases, CalmInbox
<1>. QED
  BY <1>1, <1>2, <1>3, <1>4, <1>5, <1>6, <1>7, <1>8, <1>9, <1>10, <1>11, <1>12, <1>13, <1>14
  DEF Next, SupStep, RefreshStep

-----------------------------------------------------------------------------
(* Replies in hand.                                                        *)

\* A step that makes no cache newer, and no table due that was not, keeps
\* what was read.
LEMMA SameGot ==
  ASSUME TypeOK, GotInv,
         truth.state <= truth'.state, truth.registry <= truth'.registry,
         truth'.state \in Nat, truth'.registry \in Nat,
         UNCHANGED <<cache, announced>>,
         \A t \in Askers :
           call'[t] = "got" =>
             /\ call[t] = "got" /\ got'[t] = got[t] /\ at'[t] = at[t]
             /\ \A i \in DOMAIN Tables :
                  t # Sup /\ Listening' /\ Asked(t) = Tables[i] /\ got[t] < announced =>
                    /\ Listening
                    /\ needed \/ (t # Pub /\ pub = "refresh" /\ at[Pub] <= i) =>
                         needed' \/ (t # Pub /\ pub' = "refresh" /\ at'[Pub] <= i)
  PROVE  GotInv'
<1>. SUFFICES ASSUME NEW t \in Askers, call'[t] = "got"
              PROVE  /\ Newer(t, got[t])'
                     /\ t = Sup /\ Asked(t)' \in Table => announced' <= got'[t]
                     /\ \A i \in DOMAIN Tables :
                          t # Sup /\ Listening' /\ Asked(t)' = Tables[i] /\ got'[t] < announced' =>
                            needed' \/ (t # Pub /\ pub' = "refresh" /\ at'[Pub] <= i)
  BY DEF GotInv
<1>1. call[t] = "got" /\ got'[t] = got[t] /\ at'[t] = at[t]
  OBVIOUS
<1>2. Asked(t)' = Asked(t)
  BY <1>1 DEF Asked
<1>3. /\ truth.state \in Nat /\ truth.registry \in Nat /\ got[t] \in Nat
  BY Numbers DEF TypeOK
<1>4. Newer(t, got[t])'
  BY <1>1, <1>2, <1>3 DEF Newer, GotInv
<1>5. t = Sup /\ Asked(t)' \in Table => announced' <= got'[t]
  BY <1>1, <1>2 DEF GotInv
<1>6. ASSUME NEW i \in DOMAIN Tables,
             t # Sup, Listening', Asked(t)' = Tables[i], got'[t] < announced'
      PROVE  needed' \/ (t # Pub /\ pub' = "refresh" /\ at'[Pub] <= i)
  BY <1>1, <1>2, <1>6 DEF GotInv
<1>. QED
  BY <1>4, <1>5, <1>6

\* Every step keeps what was read up to date, or the table due.
LEMMA GotStep ==
  ASSUME TypeOK, IInv, [Next]_vars
  PROVE  GotInv'
<1>. USE Constants DEF vars, ha, client, calls, publisher, history
<1>a. AskInv /\ FrameInv /\ VersionInv /\ InboxInv /\ GotInv
  BY DEF IInv
<1>c. /\ at \in [Askers -> 0..4] /\ got \in [Askers -> Nat]
      /\ call \in [Askers -> {"none", "ask", "sent", "coming", "got", "refused", "error"}]
      /\ rpc \in [Refreshers -> {"idle", "lock", "fetch", "done"}]
  BY StepsAre DEF TypeOK
<1>d. /\ truth.state \in Nat /\ truth.registry \in Nat
      /\ truth.state <= truth.state /\ truth.registry <= truth.registry
      /\ announced \in Nat
  BY Numbers
<1>e. conn = "init" => \A r \in Refreshers : call[r] # "got"
  BY <1>a DEF AskInv
<1>1. CASE UNCHANGED <<truth, cache, announced, call, got, at, pub, needed>>
  BY <1>1, <1>a, <1>d, SameGot DEF Listening
<1>2. CASE StateChanges \/ RegistryChanges
  <2>1. /\ truth'.state \in Nat /\ truth'.registry \in Nat
        /\ truth.state <= truth'.state /\ truth.registry <= truth'.registry
    <3>1. /\ StateChanges => truth'.state = truth.state + 1 /\ truth'.registry = truth.registry
          /\ RegistryChanges => truth'.registry = truth.registry + 1 /\ truth'.state = truth.state
      BY DEF StateChanges, RegistryChanges, TypeOK
    <3>. QED
      BY <1>2, <1>d, <3>1
  <2>2. UNCHANGED <<cache, announced, call, got, at, pub, needed>>
    BY <1>2 DEF StateChanges, RegistryChanges
  <2>. QED
    BY <1>a, <2>1, <2>2, SameGot DEF Listening
<1>3. CASE LinkDrop \/ Expire
  BY <1>1, <1>3 DEF LinkDrop, Expire
<1>4. ASSUME NEW t \in Askers, HaAnswers(t) \/ HaRefuses(t) \/ CallTimeout(t)
      PROVE  GotInv'
  <2>1. /\ UNCHANGED <<truth, cache, announced, got, at, pub, needed>>
        /\ call'[t] # "got" /\ \A u \in Askers \ {t} : call'[u] = call[u]
    BY <1>4, <1>c DEF HaAnswers, HaRefuses, CallTimeout
  <2>. QED
    BY <1>a, <1>d, <2>1, SameGot DEF Listening
<1>5. CASE Read
  <2>. DEFINE f == Head(inbox)
  <2>1. /\ inbox # <<>> /\ UNCHANGED <<truth, at, pub, conn>>
    BY <1>5 DEF Read
  <2>2. f = inbox[1] /\ 1 \in DOMAIN inbox /\ f \in Frame
    BY <2>1, Tailed DEF TypeOK
  <2>3. \/ /\ f.kind = "state" /\ cache' = [cache EXCEPT !.states = f.ver]
           /\ UNCHANGED <<call, got, announced>> /\ needed' = needed
        \/ /\ f.kind = "registry" /\ UNCHANGED <<cache, call, got>>
           /\ announced' = (IF Listening THEN f.ver ELSE announced)
           /\ needed' = (needed \/ Listening)
        \/ /\ f.kind = "reply" /\ UNCHANGED <<cache, announced, needed>>
           /\ call' = [call EXCEPT ![f.to] = "got"]
           /\ got' = [got EXCEPT ![f.to] = f.ver]
        \/ UNCHANGED <<cache, announced, call, got, needed>>
    BY <1>5 DEF Read, Notify, TypeOK
  <2>. HIDE DEF f
  <2>4. CASE UNCHANGED <<cache, announced, call, got, needed>>
    BY <1>1, <2>1, <2>4
  <2>5. ASSUME f.kind \in {"state", "registry"}, NEW t \in Askers, call[t] = "got"
        PROVE  t \in Refreshers \/ Asked(t) = "subscribe"
    <3>1. t = Sup => conn = "init"
      BY <1>a, <2>5 DEF AskInv
    <3>. QED
      BY <1>a, <2>2, <2>5, <3>1 DEF FrameInv
  <2>6. CASE /\ f.kind = "state" /\ cache' = [cache EXCEPT !.states = f.ver]
             /\ UNCHANGED <<call, got, announced>> /\ needed' = needed
    <3>1. cache'.registry = cache.registry
      BY <2>6, StatesSet
    <3>2. ASSUME NEW t \in Askers, call[t] = "got"
          PROVE  Asked(t) # "states"
      BY <1>a, <2>5, <2>6, <3>2, AskedIs
    <3>3. \A t \in Askers : Asked(t)' = Asked(t)
      BY <2>1 DEF Asked
    <3>. QED
      BY <1>a, <2>1, <2>6, <3>1, <3>2, <3>3 DEF GotInv, Newer, Listening
  <2>7. CASE /\ f.kind = "registry" /\ UNCHANGED <<cache, call, got>>
             /\ announced' = (IF Listening THEN f.ver ELSE announced)
             /\ needed' = (needed \/ Listening)
    <3>1. \A t \in Askers : Asked(t)' = Asked(t)
      BY <2>1 DEF Asked
    <3>2. ASSUME NEW t \in Askers, call[t] = "got", t = Sup
          PROVE  Asked(t) \notin Table
      BY <1>a, <2>5, <2>7, <3>2, AskedIs
    <3>3. Listening' => Listening /\ needed'
      BY <2>1, <2>7 DEF Listening
    <3>4. \A t \in Askers : call'[t] = "got" =>
            /\ Newer(t, got[t])'
            /\ t = Sup => Asked(t)' \notin Table
      BY <1>a, <2>1, <2>7, <3>1, <3>2 DEF GotInv, Newer
    <3>. QED
      BY <3>3, <3>4 DEF GotInv
  <2>8. CASE /\ f.kind = "reply" /\ UNCHANGED <<cache, announced, needed>>
             /\ call' = [call EXCEPT ![f.to] = "got"]
             /\ got' = [got EXCEPT ![f.to] = f.ver]
    <3>1. \A t \in Askers : Asked(t)' = Asked(t)
      BY <2>1 DEF Asked
    <3>2. /\ f.to \in Askers /\ f.ver \in Nat /\ Newer(f.to, f.ver)
          /\ Asked(f.to) \in Table => announced <= f.ver
      BY <1>a, <2>2, <2>8, ReplyTo DEF InboxInv
    <3>3. /\ got'[f.to] = f.ver /\ call'[f.to] = "got"
          /\ \A t \in Askers \ {f.to} : call'[t] = call[t] /\ got'[t] = got[t]
      BY <1>c, <2>8, <3>2
    <3>4. ASSUME NEW t \in Askers, call'[t] = "got"
          PROVE  /\ Newer(t, got[t])'
                 /\ t = Sup /\ Asked(t)' \in Table => announced' <= got'[t]
                 /\ \A i \in DOMAIN Tables :
                      t # Sup /\ Listening' /\ Asked(t)' = Tables[i] /\ got'[t] < announced' =>
                        needed' \/ (t # Pub /\ pub' = "refresh" /\ at'[Pub] <= i)
      <4>1. CASE t = f.to
        <5>1. Newer(t, got[t])'
          BY <2>1, <2>8, <3>1, <3>2, <3>3, <4>1 DEF Newer
        <5>2. Asked(t)' \in Table => announced' <= got'[t]
          BY <2>8, <3>1, <3>2, <3>3, <4>1
        <5>3. \A i \in DOMAIN Tables : Asked(t)' = Tables[i] => ~(got'[t] < announced')
          BY <1>d, <2>8, <3>2, <3>3, <4>1, <5>2 DEF Table
        <5>. QED
          BY <5>1, <5>2, <5>3
      <4>2. CASE t # f.to
        <5>1. call[t] = "got" /\ got'[t] = got[t]
          BY <3>3, <3>4, <4>2
        <5>2. Newer(t, got[t])'
          BY <1>a, <2>1, <2>8, <3>1, <5>1 DEF GotInv, Newer
        <5>. QED
          BY <1>a, <2>1, <2>8, <3>1, <5>1, <5>2 DEF GotInv, Listening
      <4>. QED
        BY <4>1, <4>2
    <3>. QED
      BY <3>4 DEF GotInv
  <2>. QED
    BY <2>3, <2>4, <2>6, <2>7, <2>8
<1>6. CASE Dial \/ ReaderEnded
  <2>1. /\ UNCHANGED <<truth, cache, announced, got, pub, needed>>
        /\ \A t \in Askers : call'[t] = "got" => call[t] = "got" /\ at'[t] = at[t]
        /\ at'[Pub] = at[Pub]
    BY <1>6, <1>c DEF Dial, ReaderEnded
  <2>. QED
    BY <1>a, <1>d, <2>1, SameGot DEF Listening
<1>7. CASE InitNext \/ InitFailed
  <2>1. conn = "init" /\ \A r \in Refreshers : call'[r] = call[r]
    BY <1>7, <1>c DEF InitNext, InitFailed
  <2>2. call'[Sup] # "got"
    BY <1>7, <1>c DEF InitNext, InitFailed
  <2>3. \A t \in Askers : call'[t] # "got"
    BY <1>e, <2>1, <2>2
  <2>. QED
    BY <2>3 DEF GotInv
<1>8. ASSUME NEW r \in Refreshers, OtherRefresh(r) \/ Send(r) \/ GiveUp(r)
      PROVE  GotInv'
  <2>1. /\ UNCHANGED <<truth, cache, announced, got, at, pub, needed>>
        /\ \A t \in Askers : call'[t] = "got" => call[t] = "got"
    BY <1>8, <1>c DEF OtherRefresh, Send, GiveUp
  <2>. QED
    BY <1>a, <1>d, <2>1, SameGot DEF Listening
<1>9. ASSUME NEW r \in Refreshers, LockRegistry(r) PROVE GotInv'
  <2>1. /\ \/ lock = None /\ call'[r] # "got"
           \/ UNCHANGED <<call, at>>
        /\ \A t \in Askers \ {r} : call'[t] = call[t] /\ at'[t] = at[t]
    BY <1>9, <1>c DEF LockRegistry
  <2>2. UNCHANGED <<truth, cache, announced, got, pub, needed>>
    BY <1>9 DEF LockRegistry
  <2>3. CASE UNCHANGED <<call, at>>
    BY <1>1, <2>2, <2>3
  <2>4. CASE lock = None /\ call'[r] # "got"
    <3>1. \A t \in Askers : call'[t] = "got" => t = Sup
      BY <1>a, <2>1, <2>4 DEF AskInv
    <3>. QED
      BY <1>a, <1>d, <2>1, <2>2, <2>4, <3>1, SameGot
  <2>. QED
    BY <2>1, <2>3, <2>4
<1>10. ASSUME NEW r \in Refreshers, RefreshNext(r) PROVE GotInv'
  <2>1. /\ UNCHANGED <<truth, announced>> /\ call[r] \in {"got", "refused", "error"}
        /\ call'[r] # "got" /\ StoreTable(r) /\ rpc[r] = "fetch"
        /\ \A t \in Askers \ {r} : call'[t] = call[t] /\ at'[t] = at[t] /\ got'[t] = got[t]
    BY <1>10, <1>c DEF RefreshNext, RefreshDone
  <2>2. \A t \in Askers : call'[t] = "got" => t = Sup
    BY <1>a, <2>1 DEF AskInv
  <2>3. CASE call'[Sup] = "got"
    <3>1. call[Sup] = "got" /\ conn = "init"
      BY <1>a, <2>1, <2>3 DEF AskInv
    <3>2. call[r] = "error"
      BY <1>a, <2>1, <3>1 DEF AskInv
    <3>3. UNCHANGED cache
      BY <2>1, <3>2 DEF StoreTable
    <3>. QED
      BY <1>a, <1>d, <2>1, <2>2, <3>1, <3>3, SameGot
  <2>4. CASE call'[Sup] # "got"
    BY <2>2, <2>4 DEF GotInv
  <2>. QED
    BY <2>3, <2>4
<1>11. CASE PubStart
  <2>1. UNCHANGED <<truth, cache, announced, call, got, at, needed>> /\ announced = 0
    BY <1>11, <1>a DEF PubStart, CopySource, VersionInv
  <2>2. \A t \in Askers : ~(got[t] < announced)
    BY <1>c, <2>1
  <2>. QED
    BY <1>a, <1>d, <2>1, <2>2, SameGot
<1>12. CASE WakeUp \/ Periodic \/ DebounceOver \/ BuildDone \/ BuildFails
  <2>1. /\ UNCHANGED <<truth, cache, announced, call, got, at, needed>>
        /\ pub # "refresh" /\ Listening
    BY <1>12 DEF WakeUp, Periodic, DebounceOver, BuildDone, BuildFails, Listening
  <2>. QED
    BY <1>a, <1>d, <2>1, SameGot
<1>13. CASE PaceOver
  <2>1. /\ UNCHANGED <<truth, cache, announced, call, got, at>>
        /\ pub = "pace" /\ Listening /\ (needed => pub' = "refresh")
    BY <1>13 DEF PaceOver, Listening
  <2>2. at[Pub] = 0 /\ call[Pub] = "none"
    BY <1>a, <1>c, <2>1 DEF AskInv
  <2>3. \A i \in DOMAIN Tables : at'[Pub] <= i
    BY <2>1, <2>2, StepsAre
  <2>. QED
    BY <1>a, <1>d, <2>1, <2>2, <2>3, SameGot
<1>14. CASE PubStop
  <2>1. /\ UNCHANGED <<truth, cache, announced, needed>> /\ ~Listening' /\ call'[Pub] # "got"
        /\ \A t \in Askers \ {Pub} : call'[t] = call[t] /\ at'[t] = at[t] /\ got'[t] = got[t]
    BY <1>14, <1>c DEF PubStop, Listening
  <2>. QED
    BY <1>a, <1>d, <2>1, SameGot
<1>. QED
  BY <1>1, <1>2, <1>3, <1>4, <1>5, <1>6, <1>7, <1>8, <1>9, <1>10, <1>11, <1>12, <1>13, <1>14
  DEF Next, SupStep, RefreshStep, PubStep

-----------------------------------------------------------------------------
(* What is copied and served.                                              *)

\* No step makes a cache older.
LEMMA CacheGrows ==
  ASSUME TypeOK, IInv, [Next]_vars
  PROVE  /\ cache.states <= cache'.states
         /\ \A table \in Table : cache.registry[table] <= cache'.registry[table]
<1>. USE Constants DEF vars, ha, client, calls, publisher, history
<1>a. AskInv /\ InboxInv /\ GotInv
  BY DEF IInv
<1>b. /\ cache.states \in Nat /\ cache.states <= cache.states
      /\ \A table \in Table : /\ cache.registry[table] \in Nat
                              /\ cache.registry[table] <= cache.registry[table]
  BY Numbers
<1>1. CASE UNCHANGED cache
  BY <1>1, <1>b
<1>2. CASE Read
  <2>. DEFINE f == Head(inbox)
  <2>1. f = inbox[1] /\ 1 \in DOMAIN inbox
    BY <1>2, Tailed DEF Read, TypeOK
  <2>2. UNCHANGED cache \/ (f.kind = "state" /\ cache' = [cache EXCEPT !.states = f.ver])
    BY <1>2 DEF Read
  <2>. HIDE DEF f
  <2>3. CASE f.kind = "state" /\ cache' = [cache EXCEPT !.states = f.ver]
    <3>1. cache'.states = f.ver /\ cache'.registry = cache.registry
      BY <2>3, StatesSet
    <3>. QED
      BY <1>a, <1>b, <2>1, <2>3, <3>1 DEF InboxInv
  <2>. QED
    BY <1>1, <2>2, <2>3
<1>3. CASE InitNext
  <2>1. CASE Asked(Sup) = "states"
    <3>1. call[Sup] = "got" /\ cache' = [cache EXCEPT !.states = got[Sup]]
      BY <1>3, <2>1 DEF InitNext
    <3>2. cache'.states = got[Sup] /\ cache'.registry = cache.registry
      BY <3>1, StatesSet
    <3>. QED
      BY <1>a, <1>b, <2>1, <3>1, <3>2 DEF GotInv, Newer
  <2>2. CASE Asked(Sup) = "subscribe"
    BY <1>1, <1>3, <2>2 DEF InitNext
  <2>3. CASE Asked(Sup) \in Table
    <3>1. StoreTable(Sup)
      BY <1>3, <2>3, <1>a, AskedIs DEF InitNext
    <3>. QED
      BY <1>a, <1>b, <2>3, <3>1, TableStored, Numbers
  <2>4. conn = "init"
    BY <1>3 DEF InitNext
  <2>. QED
    BY <1>a, <2>1, <2>2, <2>3, <2>4, AskedIs
<1>4. ASSUME NEW r \in Refreshers, RefreshNext(r)
      PROVE  /\ cache.states <= cache'.states
             /\ \A table \in Table : cache.registry[table] <= cache'.registry[table]
  <2>1. StoreTable(r) /\ call[r] # "none"
    BY <1>4 DEF RefreshNext
  <2>2. Asked(r) \in Table
    BY <1>a, <2>1, AskedIs
  <2>. QED
    BY <1>a, <1>b, <2>1, <2>2, TableStored, Numbers
<1>5. CASE StateChanges \/ RegistryChanges \/ LinkDrop \/ Expire
  BY <1>1, <1>5 DEF StateChanges, RegistryChanges, LinkDrop, Expire
<1>6. ASSUME NEW t \in Askers, HaAnswers(t) \/ HaRefuses(t) \/ CallTimeout(t)
      PROVE  UNCHANGED cache
  BY <1>6 DEF HaAnswers, HaRefuses, CallTimeout
<1>7. CASE Dial \/ InitFailed \/ ReaderEnded
  BY <1>1, <1>7 DEF Dial, InitFailed, ReaderEnded
<1>8. ASSUME NEW r \in Refreshers,
             OtherRefresh(r) \/ LockRegistry(r) \/ Send(r) \/ GiveUp(r)
      PROVE  UNCHANGED cache
  BY <1>8 DEF OtherRefresh, LockRegistry, Send, GiveUp
<1>9. CASE PubStart \/ PubStep \/ PubStop
  BY <1>1, <1>9 DEF PubStart, PubStep, PubStop, WakeUp, Periodic, DebounceOver, PaceOver,
                    BuildDone, BuildFails, CopySource
<1>. QED
  BY <1>1, <1>2, <1>3, <1>4, <1>5, <1>6, <1>7, <1>8, <1>9 DEF Next, SupStep, RefreshStep

\* The publisher serves what it served, or what it copied; and it copies the
\* caches as they are.
LEMMA PublisherMoves ==
  ASSUME [Next]_vars
  PROVE  /\ UNCHANGED snap \/ snap' = src
         /\ UNCHANGED src \/ (CopySource /\ UNCHANGED snap)
<1>. USE DEF vars, ha, client, calls, publisher, history
<1>1. CASE UNCHANGED <<src, snap>>
  BY <1>1
<1>2. CASE StateChanges \/ RegistryChanges \/ LinkDrop \/ Expire \/ Read
  BY <1>1, <1>2 DEF StateChanges, RegistryChanges, LinkDrop, Expire, Read
<1>3. ASSUME NEW t \in Askers, HaAnswers(t) \/ HaRefuses(t) \/ CallTimeout(t)
      PROVE  UNCHANGED <<src, snap>>
  BY <1>3 DEF HaAnswers, HaRefuses, CallTimeout
<1>4. CASE SupStep
  BY <1>1, <1>4 DEF SupStep, Dial, InitNext, InitFailed, ReaderEnded
<1>5. ASSUME NEW r \in Refreshers,
             OtherRefresh(r) \/ LockRegistry(r) \/ Send(r) \/ GiveUp(r)
      PROVE  UNCHANGED <<src, snap>>
  BY <1>5 DEF OtherRefresh, LockRegistry, Send, GiveUp
<1>6. ASSUME NEW r \in Refreshers, RefreshNext(r)
      PROVE  UNCHANGED snap /\ (UNCHANGED src \/ CopySource)
  BY <1>6 DEF RefreshNext, RefreshDone
<1>7. CASE PubStart
  BY <1>7 DEF PubStart
<1>8. CASE PubStep \/ PubStop
  BY <1>8 DEF PubStep, PubStop, WakeUp, Periodic, DebounceOver, PaceOver,
              BuildDone, BuildFails
<1>. QED
  BY <1>1, <1>2, <1>3, <1>4, <1>5, <1>6, <1>7, <1>8 DEF Next, RefreshStep

\* Every step keeps the order of snapshot, copy and cache, and serves nothing
\* older than before.
LEMMA ChainStep ==
  ASSUME TypeOK, TypeOK', IInv, [Next]_vars
  PROVE  /\ ChainInv'
         /\ snap.states <= snap'.states
         /\ \A table \in Table : snap.registry[table] <= snap'.registry[table]
<1>a. ChainInv
  BY DEF IInv
<1>b. /\ cache.states \in Nat /\ src.states \in Nat /\ snap.states \in Nat
      /\ \A table \in Table : /\ cache.registry[table] \in Nat
                              /\ src.registry[table] \in Nat
                              /\ snap.registry[table] \in Nat
  BY Numbers
<1>c. /\ cache'.states \in Nat
      /\ \A table \in Table : cache'.registry[table] \in Nat
  <2>1. \A c \in Source : c.states \in Nat /\ \A table \in Table : c.registry[table] \in Nat
    BY Constants DEF Source
  <2>2. cache' \in Source
    BY DEF TypeOK
  <2>. QED
    BY <2>1, <2>2
<1>d. /\ cache.states <= cache'.states
      /\ \A table \in Table : cache.registry[table] <= cache'.registry[table]
  BY CacheGrows
<1>1. CASE UNCHANGED snap
  <2>1. CASE UNCHANGED src
    BY <1>1, <1>a, <1>b, <1>c, <1>d, <2>1 DEF ChainInv
  <2>2. CASE src' = cache'
    BY <1>1, <1>a, <1>b, <1>c, <1>d, <2>2 DEF ChainInv
  <2>. QED
    BY <2>1, <2>2, PublisherMoves DEF CopySource
<1>2. CASE snap' = src /\ UNCHANGED src
  BY <1>2, <1>a, <1>b, <1>c, <1>d DEF ChainInv
<1>. QED
  BY <1>1, <1>2, PublisherMoves

-----------------------------------------------------------------------------
(* What the publisher is told.                                             *)

\* Every step keeps the wake-up of a change that was not copied.
LEMMA WakeStep ==
  ASSUME TypeOK, IInv, [Next]_vars
  PROVE  WakeUpKept'
<1>. USE DEF WakeUpKept, Listening, vars, ha, client, calls, publisher, history
<1>a. WakeUpKept /\ AskInv /\ GotInv
  BY DEF IInv
<1>1. CASE Read
  <2>1. UNCHANGED <<conn, src, pub>>
    BY <1>1 DEF Read
  <2>2. CASE cache'.states = cache.states /\ UNCHANGED changed
    BY <1>a, <2>1, <2>2
  <2>3. CASE \E change : Notify(change)
    BY <1>a, <2>1, <2>3 DEF Notify
  <2>. QED
    BY <1>1, <2>2, <2>3 DEF Read
<1>2. CASE InitNext
  <2>1. conn' = "init" \/ Notify("connection")
    BY <1>2 DEF InitNext
  <2>. QED
    BY <1>2, <2>1 DEF InitNext, Notify
<1>3. ASSUME NEW r \in Refreshers, RefreshNext(r) PROVE WakeUpKept'
  <2>1. StoreTable(r) /\ call[r] # "none" /\ UNCHANGED <<conn, changed>>
    BY <1>3 DEF RefreshNext
  <2>2. Asked(r) \in Table /\ r \in Askers
    BY <1>a, <2>1, AskedIs, Constants
  <2>3. cache'.states = cache.states
    BY <1>a, <2>1, <2>2, TableStored, Numbers
  <2>4. UNCHANGED <<pub, src>> \/ CopySource
    BY <1>3 DEF RefreshNext, RefreshDone
  <2>. QED
    BY <1>a, <2>1, <2>3, <2>4 DEF CopySource
<1>4. CASE UNCHANGED <<cache, conn, pub, changed, src>>
  BY <1>a, <1>4
<1>5. CASE StateChanges \/ RegistryChanges \/ LinkDrop \/ Expire
  BY <1>4, <1>5 DEF StateChanges, RegistryChanges, LinkDrop, Expire
<1>6. ASSUME NEW t \in Askers, HaAnswers(t) \/ HaRefuses(t) \/ CallTimeout(t)
      PROVE  WakeUpKept'
  BY <1>4, <1>6 DEF HaAnswers, HaRefuses, CallTimeout
<1>7. CASE Dial \/ InitFailed \/ ReaderEnded
  BY <1>7 DEF Dial, InitFailed, ReaderEnded
<1>8. ASSUME NEW r \in Refreshers,
             OtherRefresh(r) \/ LockRegistry(r) \/ Send(r) \/ GiveUp(r)
      PROVE  WakeUpKept'
  BY <1>4, <1>8 DEF OtherRefresh, LockRegistry, Send, GiveUp
<1>9. CASE PubStart
  BY <1>9 DEF PubStart, CopySource
<1>10. CASE WakeUp \/ Periodic \/ DebounceOver
  BY <1>10 DEF WakeUp, Periodic, DebounceOver
<1>11. CASE PaceOver
  BY <1>11 DEF PaceOver, CopySource
<1>12. CASE BuildDone \/ BuildFails
  BY <1>a, <1>12 DEF BuildDone, BuildFails
<1>13. CASE PubStop
  BY <1>13 DEF PubStop
<1>. QED
  BY <1>1, <1>2, <1>3, <1>4, <1>5, <1>6, <1>7, <1>8, <1>9, <1>10, <1>11, <1>12, <1>13
  DEF Next, SupStep, RefreshStep, PubStep

\* Every step keeps a registry event in mind until it is dealt with.
LEMMA DebtStep ==
  ASSUME TypeOK, IInv, [Next]_vars
  PROVE  RegistryDebtKept'
<1>. USE Constants DEF vars, ha, client, calls, publisher, history
<1>a. RegistryDebtKept /\ AskInv /\ FrameInv /\ VersionInv /\ InboxInv /\ GotInv
  BY DEF IInv
<1>b. announced \in Nat /\ \A table \in Table : cache.registry[table] \in Nat
  BY Numbers
<1>c. /\ at \in [Askers -> 0..4] /\ got \in [Askers -> Nat]
      /\ \A i \in DOMAIN Tables : Tables[i] \in Table /\ i \in {1, 2}
  BY StepsAre DEF TypeOK
<1>1. CASE /\ UNCHANGED <<announced, skipped, pub, needed>> /\ at'[Pub] = at[Pub]
           /\ \A table \in Table : cache'.registry[table] = cache.registry[table]
  BY <1>1, <1>a, <1>c DEF RegistryDebtKept, Listening
<1>2. CASE StateChanges \/ RegistryChanges \/ LinkDrop \/ Expire
  BY <1>1, <1>2 DEF StateChanges, RegistryChanges, LinkDrop, Expire
<1>3. ASSUME NEW t \in Askers, HaAnswers(t) \/ HaRefuses(t) \/ CallTimeout(t)
      PROVE  RegistryDebtKept'
  BY <1>1, <1>3 DEF HaAnswers, HaRefuses, CallTimeout
<1>4. CASE Read
  <2>1. UNCHANGED <<skipped, pub, at>>
    BY <1>4 DEF Read
  <2>2. \/ cache' = [cache EXCEPT !.states = Head(inbox).ver] /\ UNCHANGED <<announced, needed>>
        \/ needed' = (needed \/ Listening)
           /\ announced' = (IF Listening THEN Head(inbox).ver ELSE announced)
        \/ UNCHANGED <<cache, announced, needed>>
    BY <1>4 DEF Read, Notify, TypeOK
  <2>3. CASE cache' = [cache EXCEPT !.states = Head(inbox).ver] /\ UNCHANGED <<announced, needed>>
    BY <1>1, <2>1, <2>3, StatesSet
  <2>4. CASE needed' = (needed \/ Listening)
    BY <2>1, <2>4 DEF RegistryDebtKept, Listening
  <2>5. CASE UNCHANGED <<cache, announced, needed>>
    BY <1>1, <2>1, <2>5
  <2>. QED
    BY <2>2, <2>3, <2>4, <2>5
<1>5. CASE Dial \/ InitFailed \/ ReaderEnded
  BY <1>1, <1>5, <1>c DEF Dial, InitFailed, ReaderEnded
<1>6. CASE InitNext
  <2>1. /\ UNCHANGED <<announced, pub>> /\ conn = "init" /\ at'[Pub] = at[Pub]
        /\ needed' = needed
    BY <1>6, <1>c DEF InitNext, Notify, TypeOK
  <2>2. CASE Asked(Sup) = "states"
    <3>1. cache' = [cache EXCEPT !.states = got[Sup]] /\ UNCHANGED skipped
      BY <1>6, <2>2 DEF InitNext
    <3>. QED
      BY <1>1, <2>1, <3>1, StatesSet
  <2>3. CASE Asked(Sup) = "subscribe"
    BY <1>1, <1>6, <2>1, <2>3 DEF InitNext
  <2>4. CASE Asked(Sup) \in Table
    <3>1. StoreTable(Sup)
      BY <1>6, <2>4, <1>a, AskedIs DEF InitNext
    <3>2. /\ \A table \in Table :
               cache'.registry[table] =
                 IF call[Sup] = "got" /\ table = Asked(Sup) THEN got[Sup] ELSE cache.registry[table]
          /\ skipped' = IF call[Sup] = "got" THEN skipped \ {Asked(Sup)}
                                             ELSE skipped \cup {Asked(Sup)}
      BY <1>a, <2>4, <3>1, TableStored, Numbers
    <3>3. call[Sup] = "got" => announced <= got[Sup] /\ got[Sup] \in Nat
      BY <1>a, <1>c, <2>4 DEF GotInv
    <3>. QED
      BY <1>a, <1>b, <1>c, <2>1, <3>2, <3>3 DEF RegistryDebtKept, Listening
  <2>. QED
    BY <1>a, <2>1, <2>2, <2>3, <2>4, AskedIs
<1>7. ASSUME NEW r \in Refreshers, OtherRefresh(r) \/ Send(r) \/ GiveUp(r)
      PROVE  RegistryDebtKept'
  BY <1>1, <1>7 DEF OtherRefresh, Send, GiveUp
<1>8. ASSUME NEW r \in Refreshers, LockRegistry(r) PROVE RegistryDebtKept'
  <2>1. /\ UNCHANGED <<cache, announced, skipped, pub, needed>>
        /\ at'[Pub] = at[Pub] \/ at'[Pub] = 1
    BY <1>8, <1>c DEF LockRegistry
  <2>. QED
    BY <1>a, <1>c, <2>1 DEF RegistryDebtKept, Listening
<1>9. ASSUME NEW r \in Refreshers, RefreshNext(r) PROVE RegistryDebtKept'
  <2>1. /\ UNCHANGED <<announced, needed>> /\ StoreTable(r) /\ call[r] # "none"
        /\ rpc[r] = "fetch"
    BY <1>9 DEF RefreshNext, RefreshDone
  <2>2. /\ at[r] \in {1, 2} /\ Asked(r) = Tables[at[r]] /\ Asked(r) \in Table
    BY <1>a, <2>1, AskedIs
  <2>3. /\ \A table \in Table :
             cache'.registry[table] =
               IF call[r] = "got" /\ table = Asked(r) THEN got[r] ELSE cache.registry[table]
        /\ skipped' = IF call[r] = "got" THEN skipped \ {Asked(r)} ELSE skipped \cup {Asked(r)}
    BY <1>a, <2>1, <2>2, TableStored, Numbers
  <2>4. r # Pub => UNCHANGED pub /\ at'[Pub] = at[Pub]
    BY <1>9, <1>c DEF RefreshNext, RefreshDone
  <2>5. r = Pub => \/ at[Pub] = 2 /\ pub' = "build"
                   \/ at[Pub] = 1 /\ at'[Pub] = 2 /\ UNCHANGED pub
    BY <1>9, <1>c, <2>2, StepsAre DEF RefreshNext, RefreshDone, CopySource, LastTable
  <2>6. Listening' => Listening
    <3>1. r = Pub => pub = "refresh"
      BY <1>a, <2>1 DEF AskInv
    <3>. QED
      BY <2>4, <2>5, <3>1 DEF Listening
  <2>7. ASSUME NEW i \in DOMAIN Tables, Listening', cache'.registry[Tables[i]] < announced'
        PROVE  \/ needed' \/ Tables[i] \in skipped'
               \/ pub' = "refresh" /\ at'[Pub] <= i
    <3>1. CASE i = at[r]
      <4>1. CASE call[r] = "got"
        <5>1. got[r] < announced
          BY <2>1, <2>2, <2>3, <2>7, <3>1, <4>1
        <5>2. needed \/ (r # Pub /\ pub = "refresh" /\ at[Pub] <= i)
          BY <1>a, <2>2, <2>6, <2>7, <3>1, <4>1, <5>1 DEF GotInv
        <5>. QED
          BY <2>1, <2>4, <5>2
      <4>2. CASE call[r] # "got"
        BY <2>2, <2>3, <3>1, <4>2
      <4>. QED
        BY <4>1, <4>2
    <3>2. CASE i # at[r]
      <4>1. Tables[i] # Asked(r) /\ Tables[i] \in Table
        BY <1>c, <2>2, <3>2, StepsAre
      <4>2. \/ needed \/ Tables[i] \in skipped
            \/ pub = "refresh" /\ at[Pub] <= i
        BY <1>a, <2>1, <2>3, <2>6, <2>7, <4>1 DEF RegistryDebtKept
      <4>3. CASE pub = "refresh" /\ at[Pub] <= i
        <5>1. CASE r = Pub
          BY <1>c, <2>2, <2>5, <3>2, <4>3, <5>1
        <5>2. CASE r # Pub
          BY <2>4, <4>3, <5>2
        <5>. QED
          BY <5>1, <5>2
      <4>. QED
        BY <2>1, <2>3, <4>1, <4>2, <4>3
    <3>. QED
      BY <3>1, <3>2
  <2>. QED
    BY <2>7 DEF RegistryDebtKept
<1>10. CASE PubStart
  <2>1. UNCHANGED <<cache, announced>> /\ announced = 0
    BY <1>10, <1>a DEF PubStart, VersionInv
  <2>2. \A i \in DOMAIN Tables : ~(cache'.registry[Tables[i]] < announced')
    BY <1>b, <1>c, <2>1
  <2>. QED
    BY <2>2 DEF RegistryDebtKept
<1>11. CASE WakeUp \/ Periodic \/ DebounceOver \/ BuildDone \/ BuildFails
  <2>1. /\ UNCHANGED <<cache, announced, skipped, needed>> /\ pub # "refresh" /\ Listening
    BY <1>11 DEF WakeUp, Periodic, DebounceOver, BuildDone, BuildFails, Listening
  <2>. QED
    BY <1>a, <2>1 DEF RegistryDebtKept
<1>12. CASE PaceOver
  <2>1. /\ UNCHANGED <<cache, announced, skipped, at>>
        /\ pub = "pace" /\ (needed => pub' = "refresh")
    BY <1>12 DEF PaceOver
  <2>2. at'[Pub] = 0
    BY <1>a, <1>c, <2>1 DEF AskInv
  <2>. QED
    BY <1>a, <1>c, <2>1, <2>2 DEF RegistryDebtKept, Listening
<1>13. CASE PubStop
  BY <1>13 DEF PubStop, RegistryDebtKept, Listening
<1>. QED
  BY <1>1, <1>2, <1>3, <1>4, <1>5, <1>6, <1>7, <1>8, <1>9, <1>10, <1>11, <1>12, <1>13
  DEF Next, SupStep, RefreshStep, PubStep

-----------------------------------------------------------------------------
(* The theorems.                                                           *)

\* Requests, replies, events, caches and copies are in line in every reachable
\* state.
THEOREM Inductive == Spec => [](TypeOK /\ IInv)
<1>1. Init => TypeOK /\ IInv
  <2>. SUFFICES ASSUME Init PROVE TypeOK /\ IInv
    OBVIOUS
  <2>. USE Constants, StepsAre
  <2>1. TypeOK
    <3>1. 1 \in 1..MaxState /\ 1 \in 1..MaxRegistry
      BY BoundsAssumption
    <3>2. Empty \in Source
      BY DEF Empty, Source
    <3>3. inbox \in Seq(Frame)
      BY DEF Init
    <3>4. /\ at \in [Askers -> 0..Len(InitSteps)] /\ got \in [Askers -> Nat]
          /\ \A r \in Refreshers : at[r] <= Len(Tables)
      BY DEF Init
    <3>5. /\ call \in [Askers -> {"none", "ask", "sent", "coming", "got", "refused", "error"}]
          /\ rpc \in [Refreshers -> {"idle", "lock", "fetch", "done"}]
      BY DEF Init
    <3>6. /\ truth \in [state : 1..MaxState, registry : 1..MaxRegistry]
          /\ conns \in 0..MaxConn /\ announced \in 0..MaxRegistry /\ skipped \subseteq Table
      BY <3>1 DEF Init
    <3>7. cache \in Source /\ src \in Source /\ snap \in Source
      BY <3>2 DEF Init
    <3>. QED
      BY <3>3, <3>4, <3>5, <3>6, <3>7 DEF Init, TypeOK
  <2>2. inbox = <<>> /\ DOMAIN inbox = {}
    BY DEF Init
  <2>3. AskInv /\ VersionInv
    BY DEF Init, AskInv, VersionInv, Empty
  <2>4. FrameInv /\ InboxInv
    BY <2>2 DEF Init, FrameInv, InboxInv
  <2>5. GotInv /\ ChainInv
    BY DEF Init, GotInv, ChainInv, Empty
  <2>6. WakeUpKept /\ RegistryDebtKept
    BY DEF Init, WakeUpKept, RegistryDebtKept, Listening
  <2>. QED
    BY <2>1, <2>3, <2>4, <2>5, <2>6 DEF IInv
<1>2. TypeOK /\ IInv /\ [Next]_vars => (TypeOK /\ IInv)'
  <2>. SUFFICES ASSUME TypeOK, IInv, [Next]_vars PROVE (TypeOK /\ IInv)'
    OBVIOUS
  <2>1. TypeOK'
    BY TypeStep
  <2>2. AskInv' /\ FrameInv'
    BY AskStep, FrameStep DEF IInv
  <2>3. VersionInv' /\ InboxInv' /\ GotInv'
    BY VersionStep, InboxStep, GotStep
  <2>4. ChainInv'
    BY <2>1, ChainStep
  <2>5. WakeUpKept' /\ RegistryDebtKept'
    BY WakeStep, DebtStep
  <2>. QED
    BY <2>1, <2>2, <2>3, <2>4, <2>5 DEF IInv
<1>. QED
  BY <1>1, <1>2, PTL DEF Spec

\* Every reachable state is well typed: nothing is older or newer than what
\* Home Assistant ever had, and a refresh never runs off its list of tables.
THEOREM TypeCorrect == Spec => []TypeOK
BY Inductive, PTL

\* Whatever is refreshed, rebuilt, lost and reconnected, states the publisher
\* has not copied are announced to it or about to be copied
\* (intent_catalog.py:462-469, 490-497).
THEOREM WakeUpIsKept == Spec => []WakeUpKept
<1>1. IInv => WakeUpKept
  BY DEF IInv
<1>. QED
  BY <1>1, Inductive, PTL

\* Whatever overtakes it, a registry event is dealt with: the table is as new,
\* or due, or about to be fetched, or could not be (intent_catalog.py:476-480).
THEOREM RegistryDebtIsKept == Spec => []RegistryDebtKept
<1>1. IInv => RegistryDebtKept
  BY DEF IInv
<1>. QED
  BY <1>1, Inductive, PTL

\* Planners are never served anything older than before
\* (client.py:449-490, 536-576).
THEOREM NeverBack == Spec => NeverGoesBack
<1>. DEFINE Later == /\ snap'.states >= snap.states
                     /\ \A t \in Table : snap'.registry[t] >= snap.registry[t]
<1>1. TypeOK /\ IInv /\ [Next]_vars => [Later]_vars
  <2>. SUFFICES ASSUME TypeOK, IInv, [Next]_vars PROVE Later
    OBVIOUS
  <2>1. TypeOK'
    BY TypeStep
  <2>2. /\ snap.states <= snap'.states
        /\ \A t \in Table : snap.registry[t] <= snap'.registry[t]
    BY <2>1, ChainStep
  <2>. QED
    BY <2>2
<1>. QED
  BY <1>1, Inductive, PTL DEF NeverGoesBack, Spec
=============================================================================
