----------------------------- MODULE HaCatalog -----------------------------
(***************************************************************************)
(* How the deterministic entity catalog follows Home Assistant: the cache  *)
(* side of HomeAssistantWebSocket (intent_bridge/home_assistant/client.py) *)
(* and HomeAssistantCatalogPublisher (home_assistant/intent_catalog.py).   *)
(*                                                                         *)
(* What the caches hold is kept as a version number: one for the entity    *)
(* states, one for each registry table, 0 for "never filled".  A request   *)
(* is asked, answered by Home Assistant, read and applied in separate      *)
(* steps, as the reader may handle further frames before the task that     *)
(* asked runs again.  Sending itself is the business of HaSocket.          *)
(***************************************************************************)
EXTENDS Naturals, Sequences

CONSTANTS
  Sup,           \* the supervisor task, filling the caches of a connection
  Pub,           \* the publisher task
  Others,       \* tasks of requests, each calling refresh_registries() once
  None,          \* the registry lock is free
  MaxState,      \* bound: versions of the entity states
  MaxRegistry,   \* bound: versions of the registries
  MaxConn        \* bound: connections

Refreshers == {Pub} \cup Others
Askers == {Sup} \cup Refreshers

ASSUME TasksAssumption ==
  /\ Sup \notin Refreshers
  /\ Pub \notin Others
  /\ None \notin Askers
ASSUME BoundsAssumption ==
  {MaxState, MaxRegistry} \subseteq Nat \ {0} /\ MaxConn \in Nat

\* The tables _refresh_registries asks for, one after the other (devices and
\* areas, fetched alike, are one).
Tables == <<"entity", "device">>

\* The requests of _initialise_connection_caches that matter here, in order.
\* The mutant subscribes before it takes the snapshot.
SubscribeFirst == <<"subscribe", "states">> \o Tables
InitSteps == <<"states">> \o Tables \o <<"subscribe">>

VARIABLES
  \* Home Assistant and the connection
  truth,       \* current versions: [state, registry]
  link,        \* the connection is open
  subscribed,  \* Home Assistant sends events on it
  inbox,       \* frames not yet read, in order
  conns,       \* connections opened so far
  \* the client
  conn,        \* where the supervisor is
  cache,       \* versions held: [states, registry : table -> version]
  fresh,       \* _registries_loaded_at is younger than the TTL
  lock,        \* holder of _registry_refresh_lock
  \* requests and refreshes in progress
  call,        \* the request each task waits on
  got,         \* the version its reply carries
  at,          \* the step of InitSteps or Tables it is on
  rpc,         \* where a call of refresh_registries is
  \* the publisher
  pub,         \* where its task is
  changed,     \* self._changed
  needed,      \* self._registry_refresh_needed
  src,         \* its last copy of the cache
  snap,        \* self._snapshot (all versions 0 for None)
  \* history
  announced,   \* registry version of the last registry event it was told of
  skipped      \* tables whose last fetch failed

ha == <<truth, link, subscribed, inbox, conns>>
client == <<conn, cache, fresh, lock>>
calls == <<call, got, at, rpc>>
publisher == <<pub, changed, needed, src, snap>>
history == <<announced, skipped>>
vars == <<ha, client, calls, publisher, history>>

Table == {Tables[i] : i \in DOMAIN Tables}
Source == [states : 0..MaxState, registry : [Table -> 0..MaxRegistry]]
Frame ==
  [kind : {"reply"}, to : Askers, ver : Nat]
    \cup [kind : {"state", "registry"}, ver : Nat]
    \cup [kind : {"unknown"}]

TypeOK ==
  /\ truth \in [state : 1..MaxState, registry : 1..MaxRegistry]
  /\ link \in BOOLEAN /\ subscribed \in BOOLEAN
  /\ inbox \in Seq(Frame) /\ conns \in 0..MaxConn
  /\ conn \in {"dial", "init", "serve"}
  /\ cache \in Source /\ fresh \in BOOLEAN
  /\ lock \in Refreshers \cup {None}
  /\ call \in [Askers -> {"none", "ask", "sent", "coming",
                            "got", "refused", "error"}]
  /\ got \in [Askers -> Nat]
  /\ at \in [Askers -> 0..Len(InitSteps)]
  /\ \A r \in Refreshers : at[r] <= Len(Tables)
  /\ rpc \in [Refreshers -> {"idle", "lock", "fetch", "done"}]
  /\ pub \in {"off", "wait", "debounce", "pace", "refresh", "build",
              "stopped"}
  /\ changed \in BOOLEAN /\ needed \in BOOLEAN
  /\ src \in Source /\ snap \in Source
  /\ announced \in 0..MaxRegistry /\ skipped \subseteq Table

Empty == [states |-> 0, registry |-> [t \in Table |-> 0]]

Init ==
  /\ truth = [state |-> 1, registry |-> 1]
  /\ link = FALSE /\ subscribed = FALSE /\ inbox = <<>> /\ conns = 0
  /\ conn = "dial" /\ cache = Empty /\ fresh = FALSE /\ lock = None
  /\ call = [t \in Askers |-> "none"]
  /\ got = [t \in Askers |-> 0]
  /\ at = [t \in Askers |-> 0]
  /\ rpc = [r \in Refreshers |-> "idle"]
  /\ pub = "off" /\ changed = FALSE /\ needed = FALSE
  /\ src = Empty /\ snap = Empty
  /\ announced = 0 /\ skipped = {}

-----------------------------------------------------------------------------
(* Home Assistant and the network (external).                              *)

\* An event is sent to a subscribed connection.
Emit(kind, ver) ==
  inbox' = IF link /\ subscribed
           THEN Append(inbox, [kind |-> kind, ver |-> ver]) ELSE inbox

StateChanges ==
  /\ truth.state < MaxState
  /\ truth' = [truth EXCEPT !.state = @ + 1]
  /\ Emit("state", truth.state + 1)
  /\ UNCHANGED <<link, subscribed, conns, client, calls, publisher, history>>

RegistryChanges ==
  /\ truth.registry < MaxRegistry
  /\ truth' = [truth EXCEPT !.registry = @ + 1]
  /\ Emit("registry", truth.registry + 1)
  /\ UNCHANGED <<link, subscribed, conns, client, calls, publisher, history>>

\* What t asks for now.
Asked(t) == IF t = Sup THEN InitSteps[at[t]] ELSE Tables[at[t]]

HaAnswers(t) ==
  /\ call[t] = "sent" /\ link
  /\ call' = [call EXCEPT ![t] = "coming"]
  /\ subscribed' = (subscribed \/ Asked(t) = "subscribe")
  /\ LET ver == IF Asked(t) = "states" THEN truth.state ELSE truth.registry
     IN  inbox' = Append(inbox, [kind |-> "reply", to |-> t, ver |-> ver])
  /\ UNCHANGED <<truth, link, conns, client, got, at, rpc, publisher, history>>

\* An error reply (bounded: none on the last connection).  To a refresh it is
\* one more error.
HaRefuses(t) ==
  /\ call[t] = "sent" /\ link /\ conns < MaxConn
  /\ call' = [call EXCEPT ![t] = IF t = Sup THEN "refused" ELSE "error"]
  /\ UNCHANGED <<ha, client, got, at, rpc, publisher, history>>

\* The last connection of a behaviour stays up.
LinkDrop ==
  /\ link /\ conns < MaxConn
  /\ link' = FALSE /\ subscribed' = FALSE
  /\ UNCHANGED <<truth, inbox, conns, client, calls, publisher, history>>

-----------------------------------------------------------------------------
(* The client.                                                             *)

Listening == pub \notin {"off", "stopped"}

\* _notify_catalog_cache_change and _on_cache_change.
NotifyNoFlag(change) ==  \* mutant: every change is handled alike
  /\ changed' = (changed \/ Listening)
  /\ UNCHANGED needed
Notify(change) ==
  /\ changed' = (changed \/ Listening)
  /\ needed' = (needed \/ (Listening /\ change = "registry"))

\* An entry of t in _pending is popped: the reader will pass over a reply
\* that is on its way.
Disowned(t) ==
  [i \in DOMAIN inbox |->
     IF inbox[i].kind = "reply" /\ inbox[i].to = t
     THEN [kind |-> "unknown"] ELSE inbox[i]]

\* _reader_loop and _handle_event on the next frame.
Read ==
  /\ inbox # <<>>
  /\ inbox' = Tail(inbox)
  /\ LET f == Head(inbox)
     IN  \/ /\ f.kind = "state"
            /\ cache' = [cache EXCEPT !.states = f.ver]
            /\ Notify("state")
            /\ UNCHANGED <<fresh, call, got, announced>>
         \/ /\ f.kind = "registry"
            /\ fresh' = FALSE
            /\ Notify("registry")
            /\ announced' = IF Listening THEN f.ver ELSE announced
            /\ UNCHANGED <<cache, call, got>>
         \/ /\ f.kind = "reply"
            /\ call' = [call EXCEPT ![f.to] = "got"]
            /\ got' = [got EXCEPT ![f.to] = f.ver]
            /\ UNCHANGED <<cache, fresh, changed, needed, announced>>
         \/ /\ f.kind = "unknown"
            /\ UNCHANGED <<cache, fresh, call, got, changed, needed, announced>>
  /\ UNCHANGED <<truth, link, subscribed, conns, conn, lock, at, rpc,
                 pub, src, snap, skipped>>

\* The reply does not come in time.
CallTimeout(t) ==
  /\ call[t] \in {"sent", "coming"}
  /\ conns < MaxConn \/ ~link
  /\ call' = [call EXCEPT ![t] = "error"]
  /\ inbox' = Disowned(t)
  /\ UNCHANGED <<truth, link, subscribed, conns, client, got, at, rpc,
                 publisher, history>>

\* The supervisor connects again, seconds after it lost the connection: a
\* task whose reply had come in has used it by then.
Dial ==
  /\ conn = "dial" /\ conns < MaxConn
  /\ \A r \in Refreshers : call[r] \notin {"got", "refused", "error"}
  /\ conns' = conns + 1 /\ link' = TRUE /\ subscribed' = FALSE
  /\ conn' = "init"
  /\ at' = [at EXCEPT ![Sup] = 1]
  /\ call' = [call EXCEPT ![Sup] = "sent"]
  /\ UNCHANGED <<truth, inbox, cache, fresh, lock, got, rpc,
                 publisher, history>>

\* The table t fetched, or failed to fetch, is stored; a failure is logged
\* and the old table kept.
StoreTable(t) ==
  LET table == Asked(t)
  IN  IF call[t] = "got"
      THEN /\ cache' = [cache EXCEPT !.registry[table] = got[t]]
           /\ skipped' = skipped \ {table}
      ELSE UNCHANGED cache /\ skipped' = skipped \cup {table}

\* _initialise_connection_caches goes on to its next request, or is done: the
\* listeners are told and ready is set.  A failed registry request and a
\* refused subscription are tolerated.
InitNext ==
  /\ conn = "init" /\ call[Sup] \in {"got", "refused", "error"}
  /\ CASE Asked(Sup) = "states" ->
            /\ call[Sup] = "got"
            /\ cache' = [cache EXCEPT !.states = got[Sup]]
            /\ UNCHANGED <<fresh, skipped>>
       [] Asked(Sup) = "subscribe" ->
            /\ call[Sup] # "error"
            /\ UNCHANGED <<cache, fresh, skipped>>
       [] OTHER ->
            /\ StoreTable(Sup)
            /\ fresh' = (fresh \/ Asked(Sup) = Tables[Len(Tables)])
  /\ IF at[Sup] < Len(InitSteps)
     THEN /\ at' = [at EXCEPT ![Sup] = @ + 1]
          /\ call' = [call EXCEPT ![Sup] = IF link THEN "sent" ELSE "error"]
          /\ UNCHANGED <<conn, changed, needed>>
     ELSE /\ at' = [at EXCEPT ![Sup] = 0]
          /\ call' = [call EXCEPT ![Sup] = "none"]
          /\ conn' = "serve"
          /\ Notify("connection")
  /\ got' = [got EXCEPT ![Sup] = 0]
  /\ UNCHANGED <<ha, lock, rpc, pub, src, snap, announced>>

\* The states were not delivered, or a subscription could not be sent.
InitFailed ==
  /\ conn = "init"
  /\ \/ Asked(Sup) = "states" /\ call[Sup] \in {"refused", "error"}
     \/ Asked(Sup) = "subscribe" /\ call[Sup] = "error"
  /\ conn' = "dial" /\ link' = FALSE /\ subscribed' = FALSE /\ inbox' = <<>>
  /\ at' = [at EXCEPT ![Sup] = 0]
  /\ call' = [call EXCEPT ![Sup] = "none"]
  /\ UNCHANGED <<truth, conns, cache, fresh, lock, got, rpc,
                 publisher, history>>

\* The connection is lost.  The pending commands fail; each is sent once more
\* on the next connection or gives up.
ReaderEnded ==
  /\ conn = "serve" /\ ~link
  /\ conn' = "dial" /\ inbox' = <<>>
  /\ call' = [t \in Askers |->
                IF call[t] \in {"sent", "coming"} THEN "ask" ELSE call[t]]
  /\ UNCHANGED <<truth, link, subscribed, conns, cache, fresh, lock,
                 got, at, rpc, publisher, history>>

\* Time passes: the registry caches outlive their TTL.
Expire ==
  /\ fresh /\ fresh' = FALSE
  /\ UNCHANGED <<ha, conn, cache, lock, calls, publisher, history>>

-----------------------------------------------------------------------------
(* refresh_registries(), forced by the publisher, subject to the TTL for    *)
(* the tasks of a request.                                                 *)

\* A request finds the tables too old and queues for the lock.
OtherRefresh(r) ==
  /\ r \in Others /\ rpc[r] = "idle" /\ ~fresh
  /\ rpc' = [rpc EXCEPT ![r] = "lock"]
  /\ UNCHANGED <<ha, client, call, got, at, publisher, history>>

\* Under the lock the TTL is looked at again.
LockRegistry(r) ==
  /\ rpc[r] = "lock" /\ lock = None
  /\ IF r = Pub \/ ~fresh
     THEN /\ lock' = r
          /\ rpc' = [rpc EXCEPT ![r] = "fetch"]
          /\ at' = [at EXCEPT ![r] = 1]
          /\ call' = [call EXCEPT ![r] = "ask"]
     ELSE /\ rpc' = [rpc EXCEPT ![r] = "done"]
          /\ UNCHANGED <<lock, at, call>>
  /\ UNCHANGED <<ha, conn, cache, fresh, got, publisher, history>>

\* command() sends once the connection is ready, or gives up.
Send(r) ==
  /\ r \in Refreshers /\ call[r] = "ask" /\ conn = "serve"
  /\ call' = [call EXCEPT ![r] = "sent"]
  /\ UNCHANGED <<ha, client, got, at, rpc, publisher, history>>

GiveUp(r) ==
  /\ r \in Refreshers /\ call[r] = "ask"
  /\ conns < MaxConn \/ conn # "serve"
  /\ call' = [call EXCEPT ![r] = "error"]
  /\ UNCHANGED <<ha, client, got, at, rpc, publisher, history>>

\* _publish up to the thread: all caches are copied in one go.
CopySource == pub' = "build" /\ src' = cache'

\* The last table is in: the publisher goes on to its copy at once.
RefreshDone(r) ==
  /\ fresh' = TRUE /\ lock' = None
  /\ rpc' = [rpc EXCEPT ![r] = IF r = Pub THEN "idle" ELSE "done"]
  /\ at' = [at EXCEPT ![r] = 0]
  /\ call' = [call EXCEPT ![r] = "none"]
  /\ UNCHANGED needed
  /\ IF r = Pub THEN CopySource ELSE UNCHANGED <<pub, src>>

\* Mutant: one table too many.
LastTableLate(r) == at[r] > Len(Tables)
LastTable(r) == at[r] = Len(Tables)

RefreshNext(r) ==
  /\ rpc[r] = "fetch" /\ call[r] \in {"got", "refused", "error"}
  /\ StoreTable(r)
  /\ IF LastTable(r)
     THEN RefreshDone(r)
     ELSE /\ at' = [at EXCEPT ![r] = @ + 1]
          /\ call' = [call EXCEPT ![r] = "ask"]
          /\ UNCHANGED <<fresh, lock, rpc, pub, src, needed>>
  /\ got' = [got EXCEPT ![r] = 0]
  /\ UNCHANGED <<ha, conn, changed, snap, announced>>

-----------------------------------------------------------------------------
(* The publisher.                                                          *)

\* start(), after the client was ready once: listen, then publish "startup".
PubStart ==
  /\ pub = "off" /\ conn = "serve"
  /\ UNCHANGED cache /\ CopySource
  /\ UNCHANGED <<ha, conn, fresh, lock, calls, changed, needed, snap, history>>

\* wait_for(changed.wait()) returns.
WakeUp ==
  /\ pub = "wait" /\ changed
  /\ changed' = FALSE
  /\ pub' = "debounce"
  /\ UNCHANGED <<ha, client, calls, needed, src, snap, history>>

\* It times out: a periodic rebuild.
Periodic ==
  /\ pub = "wait"
  /\ changed' = FALSE
  /\ pub' = "pace"
  /\ UNCHANGED <<ha, client, calls, needed, src, snap, history>>

DebounceOver ==
  /\ pub = "debounce"
  /\ changed' = FALSE
  /\ pub' = "pace"
  /\ UNCHANGED <<ha, client, calls, needed, src, snap, history>>

\* minimum_refresh has passed: the flag is taken and, with no await between,
\* the registries are asked for or the caches copied.
PaceOver ==
  /\ pub = "pace"
  /\ needed' = FALSE
  /\ IF needed
     THEN /\ pub' = "refresh"
          /\ rpc' = [rpc EXCEPT ![Pub] = "lock"]
          /\ UNCHANGED <<cache, src>>
     ELSE UNCHANGED <<cache, rpc>> /\ CopySource
  /\ UNCHANGED <<ha, conn, fresh, lock, call, got, at,
                 changed, snap, history>>

\* Mutant: changes that arrived during the build are taken as built.
BuildDoneClears ==
  /\ pub = "build"
  /\ snap' = src
  /\ changed' = FALSE
  /\ pub' = "wait"
  /\ UNCHANGED <<ha, client, calls, needed, src, history>>

\* The worker thread returns: the snapshot is replaced as a whole.
BuildDone ==
  /\ pub = "build"
  /\ snap' = src
  /\ pub' = "wait"
  /\ UNCHANGED <<ha, client, calls, changed, needed, src, history>>

\* It raises: the last snapshot stays.
BuildFails ==
  /\ pub = "build"
  /\ pub' = "wait"
  /\ UNCHANGED <<ha, client, calls, changed, needed, src, snap, history>>

\* stop(): the listener is removed and the task cancelled where it is.
PubStop ==
  /\ pub \notin {"off", "stopped"}
  /\ pub' = "stopped"
  /\ lock' = IF lock = Pub THEN None ELSE lock
  /\ rpc' = [rpc EXCEPT ![Pub] = "idle"]
  /\ at' = [at EXCEPT ![Pub] = 0]
  /\ call' = [call EXCEPT ![Pub] = "none"]
  /\ got' = [got EXCEPT ![Pub] = 0]
  /\ inbox' = Disowned(Pub)
  /\ UNCHANGED <<truth, link, subscribed, conns, conn, cache, fresh,
                 changed, needed, src, snap, history>>

-----------------------------------------------------------------------------
SupStep == Dial \/ InitNext \/ InitFailed \/ ReaderEnded

RefreshStep(r) ==
  LockRegistry(r) \/ Send(r) \/ RefreshNext(r)

PubStep ==
  \/ WakeUp \/ Periodic \/ DebounceOver \/ PaceOver
  \/ BuildDone \/ BuildFails

Next ==
  \/ StateChanges \/ RegistryChanges \/ LinkDrop \/ Expire
  \/ \E t \in Askers : HaAnswers(t) \/ HaRefuses(t) \/ CallTimeout(t)
  \/ Read \/ SupStep
  \/ \E r \in Refreshers : OtherRefresh(r) \/ RefreshStep(r) \/ GiveUp(r)
  \/ PubStart \/ PubStep \/ PubStop

Spec == Init /\ [][Next]_vars

\* Every task that can run does, timers fire, buffered frames are read, Home
\* Assistant answers and a build does not fail for ever.  Nothing forces a
\* change, a disconnection, a refusal or a shutdown.
Fairness ==
  /\ WF_vars(SupStep) /\ WF_vars(Read) /\ WF_vars(PubStart)
  /\ WF_vars(PubStep) /\ SF_vars(BuildDone)
  /\ \A r \in Refreshers : WF_vars(RefreshStep(r) \/ GiveUp(r))
  /\ \A t \in Askers : WF_vars(HaAnswers(t) \/ CallTimeout(t))

FairSpec == Spec /\ Fairness

-----------------------------------------------------------------------------
(* Properties.                                                             *)

\* A change of the states never goes unpublished for want of a wake-up: on a
\* ready connection, states newer than the publisher's last copy are announced
\* by its event, or it has yet to copy (the event is cleared before the copy
\* and never after it, intent_catalog.py:462-469, 490-497).
WakeUpKept ==
  Listening /\ conn = "serve" /\ cache.states # src.states =>
    changed \/ pub \in {"debounce", "pace", "refresh"}

\* A registry event is not forgotten: a table older than the last event is
\* due (the flag is set), about to be fetched, or its fetch has failed since
\* (the flag is taken before the fetch, intent_catalog.py:476-480).
RegistryDebtKept ==
  \A i \in DOMAIN Tables :
    Listening /\ cache.registry[Tables[i]] < announced =>
      \/ needed
      \/ Tables[i] \in skipped
      \/ pub = "refresh" /\ at[Pub] <= i

\* What planners are served never goes back in time, whatever is lost,
\* refetched or reconnected (client.py:449-490, 536-576).
NeverGoesBack ==
  [][ /\ snap'.states >= snap.states
      /\ \A t \in Table : snap'.registry[t] >= snap.registry[t] ]_vars

\* "deletions, renames, moves, and availability changes cannot accumulate
\* catalog drift" (README.md:155-156): with a connection that stays up and
\* subscribed, and no fetch failing, the snapshot ends up as Home Assistant.
NoDrift ==
  <>[](conn = "serve" /\ link /\ subscribed /\ skipped = {}
         /\ pub \notin {"off", "stopped"})
    => <>[](/\ snap.states = truth.state
            /\ \A t \in Table : snap.registry[t] = truth.registry)
=============================================================================
