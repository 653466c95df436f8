---------------------------- MODULE McpReconnect ----------------------------
(***************************************************************************)
(* Recovery of custom MCP servers (intent_bridge/mcp_recovery.py): agent   *)
(* runs list or call the tools of a server through ReconnectingMcpServer;  *)
(* a closed session makes the McpReconnectCoordinator rebuild the managed  *)
(* transports, of all servers at once, under one lock and a per-server     *)
(* exponential backoff.                                                    *)
(*                                                                         *)
(* A session is a number, a new one for every connect, 0 while it is       *)
(* closed.  The regions under the coordinator's lock that contain no await *)
(* are single steps; a rebuild holds the lock while time passes.           *)
(***************************************************************************)
EXTENDS Naturals

CONSTANTS
  Listings,        \* calls of list_tools, each made once
  ToolCalls,       \* calls of call_tool
  Servers,         \* custom MCP servers, one adapter each
  None,            \* no caller; no backoff entry
  InitialBackoff,  \* initial_backoff_seconds
  MaxBackoff,      \* max_backoff_seconds
  MaxTime,         \* bound: the clock
  MaxSession       \* bound: sessions opened

Calls == Listings \cup ToolCalls

ASSUME CallsAssumption ==
  Listings \cap ToolCalls = {} /\ None \notin Calls \cup Servers
ASSUME BackoffAssumption ==
  /\ InitialBackoff \in Nat \ {0} /\ MaxBackoff \in Nat
  /\ MaxBackoff >= InitialBackoff
ASSUME BoundsAssumption == MaxTime \in Nat /\ MaxSession \in Nat \ {0}

VARIABLES
  \* McpReconnectCoordinator
  lock,      \* who holds self._lock across an await: the caller rebuilding
  backoff,   \* self._backoffs
  \* callers
  pc,        \* where the call is
  server,    \* the server it goes to, while it lasts
  seen,      \* the session its request went out on
  \* outside
  session,   \* session[s] in use, 0 if closed
  opened,    \* sessions opened so far
  now,       \* the clock
  \* history
  started,   \* when the last rebuild for s began, None if none did
  streak     \* rebuilds for s since tools of s were last discovered

coordinator == <<lock, backoff>>
callers == <<pc, server, seen>>
world == <<session, opened, now>>
history == <<started, streak>>
vars == <<coordinator, callers, world, history>>

Entry == [failures : Nat \ {0}, after : Nat, recovered : BOOLEAN]

ASSUME NoneAssumption == None \notin Entry /\ None \notin 0..MaxTime

TypeOK ==
  /\ lock \in Calls \cup {None}
  /\ backoff \in [Servers -> Entry \cup {None}]
  /\ started \in [Servers -> 0..MaxTime \cup {None}]
  /\ session \in [Servers -> 0..opened]
  /\ pc \in [Calls -> {"idle", "try", "closed", "rebuild", "retry",
                         "healthy", "done"}]
  /\ server \in [Calls -> Servers \cup {None}]
  /\ seen \in [Calls -> 0..opened]
  /\ opened \in 0..MaxSession /\ now \in 0..MaxTime
  /\ streak \in [Servers -> Nat]
  /\ \A c \in Calls : lock = c <=> pc[c] = "rebuild"

\* Every server is connected when the application starts.
Init ==
  /\ lock = None /\ backoff = [s \in Servers |-> None]
  /\ pc = [c \in Calls |-> "idle"]
  /\ server = [c \in Calls |-> None]
  /\ seen = [c \in Calls |-> 0]
  /\ session = [s \in Servers |-> 1]
  /\ opened = 1 /\ now = 0
  /\ started = [s \in Servers |-> None]
  /\ streak = [s \in Servers |-> 0]

-----------------------------------------------------------------------------
(* McpReconnectCoordinator.                                                *)

\* _should_defer_locked
CoolingDown(s) == backoff[s] # None /\ now < backoff[s].after

\* The initial backoff, doubled n times.
Doubled[n \in Nat] == IF n = 0 THEN InitialBackoff ELSE 2 * Doubled[n - 1]

Delay(failures) ==
  IF Doubled[failures - 1] < MaxBackoff THEN Doubled[failures - 1] ELSE MaxBackoff

\* An entry whose cooldown is over is dropped, a younger one only marked.
ForgetIfOver(s) ==
  backoff' = [backoff EXCEPT ![s] =
                IF @ = None \/ now >= @.after THEN None
                ELSE [@ EXCEPT !.recovered = TRUE]]

\* The call is over: tools, an empty list, an answer or an exception.
Return(c) ==
  /\ pc' = [pc EXCEPT ![c] = "done"]
  /\ seen' = [seen EXCEPT ![c] = 0]
  /\ server' = [server EXCEPT ![c] = None]

\* The request goes out on the session now in use.
Request(c, s, where) ==
  /\ pc' = [pc EXCEPT ![c] = where]
  /\ seen' = [seen EXCEPT ![c] = session'[s]]
  /\ server' = [server EXCEPT ![c] = s]

\* should_defer, before the tools are listed: in the cooldown the list is
\* empty, unless the server was found healthy since.
Defer(c, s) ==
  /\ c \in Listings /\ pc[c] = "idle" /\ lock = None
  /\ UNCHANGED <<lock, world, history>>
  /\ LET recovered == backoff[s] # None /\ backoff[s].recovered
     IN  /\ IF CoolingDown(s) /\ ~recovered
            THEN Return(c) ELSE Request(c, s, "try")
         /\ IF recovered /\ ~CoolingDown(s)
            THEN backoff' = [backoff EXCEPT ![s] = None] ELSE UNCHANGED backoff

\* A tool is called without asking the coordinator.
CallTool(c, s) ==
  /\ c \in ToolCalls /\ pc[c] = "idle"
  /\ UNCHANGED <<coordinator, world, history>>
  /\ Request(c, s, "try")

\* The first half of reconnect: the cooldown is entered before the rebuild.
BeginRebuild(c) ==
  LET s == server[c]
      failures == IF backoff[s] = None THEN 1 ELSE backoff[s].failures + 1
  IN  /\ lock' = c
      /\ backoff' = [backoff EXCEPT ![s] =
           [failures |-> failures, after |-> now + Delay(failures),
            recovered |-> FALSE]]
      /\ pc' = [pc EXCEPT ![c] = "rebuild"]
      \* Every server is taken down, not only the one that failed.
      /\ session' = [q \in Servers |-> 0]
      /\ started' = [started EXCEPT ![s] = now]
      /\ streak' = [streak EXCEPT ![s] = @ + 1]

\* Mutant: a caller that waited for the lock rebuilds as well.
ReconnectAnyway(c) ==
  /\ pc[c] = "closed" /\ lock = None
  /\ BeginRebuild(c)
  /\ UNCHANGED <<server, seen, opened, now>>

Reconnect(c) ==
  /\ pc[c] = "closed" /\ lock = None
  /\ IF CoolingDown(server[c])
     THEN Return(c) /\ UNCHANGED <<coordinator, session, history>>
     ELSE BeginRebuild(c) /\ UNCHANGED <<server, seen>>
  /\ UNCHANGED <<opened, now>>

\* The manager is done: some servers are connected again.  It may raise or
\* leave this server out of active_servers.
Rebuilt(c) ==
  /\ pc[c] = "rebuild" /\ opened < MaxSession
  /\ lock' = None
  /\ opened' = opened + 1
  /\ \E up \in SUBSET Servers :
       /\ session' = [s \in Servers |-> IF s \in up THEN opened + 1 ELSE 0]
       /\ IF server[c] \in up /\ c \in Listings
          THEN Request(c, server[c], "retry") ELSE Return(c)
  /\ UNCHANGED <<backoff, now, history>>

\* Mutant: cancellation between acquire and release.
RebuildCancelledLocked(c) ==
  /\ pc[c] = "rebuild"
  /\ Return(c)
  /\ UNCHANGED <<coordinator, world, history>>

\* The agent run is cancelled, here with every server down; the entry stays.
RebuildCancelled(c) ==
  /\ pc[c] = "rebuild"
  /\ lock' = None
  /\ Return(c)
  /\ UNCHANGED <<backoff, world, history>>

\* mark_healthy, then the tools are returned.
MarkHealthy(c) ==
  /\ pc[c] = "healthy" /\ lock = None
  /\ ForgetIfOver(server[c])
  /\ Return(c)
  /\ streak' = [streak EXCEPT ![server[c]] = 0]
  /\ UNCHANGED <<lock, world, started>>

-----------------------------------------------------------------------------
(* ReconnectingMcpServer: the request to the server itself.               *)

\* It is answered; the session may be closed again by the time a caller that
\* lists the tools gets the lock.
Answered(c) ==
  /\ pc[c] \in {"try", "retry"}
  /\ seen[c] # 0 /\ seen[c] = session[server[c]]
  /\ IF c \in Listings
     THEN pc' = [pc EXCEPT ![c] = "healthy"] /\ UNCHANGED <<server, seen>>
     ELSE Return(c)
  /\ UNCHANGED <<coordinator, world, history>>

\* ClosedResourceError: the session it uses is no more.  Only a listing that
\* was already repeated is not repaired.
FoundClosed(c) ==
  /\ pc[c] \in {"try", "retry"}
  /\ seen[c] = 0 \/ seen[c] # session[server[c]]
  /\ \/ /\ pc[c] = "try"
        /\ pc' = [pc EXCEPT ![c] = "closed"]
        /\ UNCHANGED <<server, seen>>
     \/ pc[c] = "retry" /\ Return(c)
  /\ UNCHANGED <<coordinator, world, history>>

\* Any other exception, or a cancellation, leaves the call.
Raised(c) ==
  /\ pc[c] \in {"try", "closed", "retry", "healthy"}
  /\ Return(c)
  /\ UNCHANGED <<coordinator, world, history>>

-----------------------------------------------------------------------------
(* The servers and the clock (external).                                   *)

RemoteCloses(s) ==
  /\ session[s] # 0
  /\ session' = [session EXCEPT ![s] = 0]
  /\ UNCHANGED <<coordinator, callers, opened, now, history>>

Tick ==
  /\ now < MaxTime /\ now' = now + 1
  /\ UNCHANGED <<coordinator, callers, session, opened, history>>

-----------------------------------------------------------------------------
Begin(c, s) == Defer(c, s) \/ CallTool(c, s)

Step(c) ==
  \/ Answered(c) \/ FoundClosed(c) \/ Reconnect(c) \/ Rebuilt(c)
  \/ MarkHealthy(c)

Next ==
  \/ \E c \in Calls : Step(c) \/ Raised(c) \/ RebuildCancelled(c)
  \/ \E c \in Calls, s \in Servers : Begin(c, s)
  \/ \E s \in Servers : RemoteCloses(s)
  \/ Tick

Spec == Init /\ [][Next]_vars

\* A call that has begun goes on: requests to a server and rebuilds are under
\* timeouts, and the lock is passed to who waits for it.  Nothing forces a
\* call to begin or to be cancelled.
FairSpec == Spec /\ \A c \in Calls : WF_vars(Step(c))

-----------------------------------------------------------------------------
(* Properties.                                                             *)

\* "Closed custom MCP transports use a per-server exponential reconnect
\* backoff" (README.md:241-242): between two rebuilds begun for one server
\* passes at least the delay that the rebuilds since its last successful
\* discovery call for, whoever saw its session closed, waited for the lock
\* meanwhile, or found the server healthy in between
\* (mcp_recovery.py:75-87, 133-144).
RebuildsSpaced ==
  [][ \A s \in Servers :
        streak'[s] > streak[s] =>
          \/ started[s] = None
          \/ now >= started[s] + Delay(IF streak[s] = 0 THEN 1 ELSE streak[s])
    ]_vars

\* No call waits for ever behind another one's rebuild, cancelled ones
\* included (mcp_recovery.py:77, 107-114).
CallsEnd == []<>(\A c \in Calls : pc[c] \in {"idle", "done"})
=============================================================================
