------------------------------ MODULE HaSocket ------------------------------
(***************************************************************************)
(* The request side of HomeAssistantWebSocket                              *)
(* (intent_bridge/home_assistant/client.py): the supervisor task that      *)
(* dials, initialises and loses connections, the reader task that matches  *)
(* replies to futures by request id, and the tasks that call command() or  *)
(* process_assist_pipeline().                                              *)
(*                                                                         *)
(* An action is the code one asyncio task runs between two awaits, or a    *)
(* step of the outside world (Home Assistant, the network, a timer, a      *)
(* cancellation).  Payloads are abstracted away; of the eleven requests of *)
(* _initialise_connection_caches only their number (InitCalls) is kept.    *)
(***************************************************************************)
EXTENDS Naturals, FiniteSets

CONSTANTS
  Commands,    \* tasks that call command() once
  Pipelines,   \* tasks that call process_assist_pipeline() once
  Sup,         \* the supervisor task, a sender while it fills the caches
  None,        \* "no task": the send lock is free
  InitCalls,   \* requests sent before a connection is ready
  MaxConn      \* bound on the number of connections

Callers == Commands \cup Pipelines
Tasks == Callers \cup {Sup}

ASSUME TasksAssumption ==
  /\ Commands \cap Pipelines = {}
  /\ Sup \notin Callers
  /\ None \notin Tasks
ASSUME InitCallsAssumption == InitCalls \in Nat \ {0}
ASSUME MaxConnAssumption == MaxConn \in Nat \ {0}

VARIABLES
  \* the client object
  sup,       \* where the supervisor is
  ws,        \* self._ws: number of the connection in use, 0 for None
  ready,     \* self.ready
  stopping,  \* self._stopping
  todo,      \* requests _initialise_connection_caches has left
  lock,      \* holder of self._send_lock
  nextId,    \* self._request_id
  pending,   \* ids in self._pending
  streams,   \* ids in self._event_streams
  \* the tasks
  pc,        \* where the task is
  cap,       \* the socket it captured before it queued for the lock
  id,        \* its request id
  attempt,   \* 0 or 1, the loop variable of command()
  res,       \* its future: unresolved, a reply, or a ConnectionError
  evt,       \* what its event stream holds
  \* the outside
  gen,       \* connections opened so far; the last one is the only live one
  link,      \* is that connection open?
  wire,      \* requests handed to a socket and not yet processed
  inbox,     \* replies and events not yet read
  handled    \* handled[c]: how often Home Assistant processed c's request

client == <<sup, ws, ready, stopping, todo, lock, nextId, pending, streams>>
tasks == <<pc, cap, id, attempt, res, evt>>
world == <<gen, link, wire, inbox, handled>>
vars == <<client, tasks, world>>

Ended == {"done", "failed", "cancelled"}
Request == [id : Nat, task : Tasks, gen : Nat]
Frame == [id : Nat, kind : {"result", "refused", "end"}]

TypeOK ==
  /\ sup \in {"off", "dial", "init", "serve", "stopped"}
  /\ ws \in Nat /\ todo \in Nat /\ nextId \in Nat /\ gen \in Nat
  /\ ready \in BOOLEAN /\ stopping \in BOOLEAN /\ link \in BOOLEAN
  /\ lock \in Tasks \cup {None}
  /\ pending \subseteq Nat /\ streams \subseteq Nat
  /\ pc \in [Tasks -> Ended \cup
              {"idle", "wait", "woken", "lock", "send", "await", "stream"}]
  /\ cap \in [Tasks -> Nat] /\ id \in [Tasks -> Nat]
  /\ attempt \in [Tasks -> {0, 1}]
  /\ res \in [Tasks -> {"none", "result", "refused", "lost"}]
  /\ evt \in [Tasks -> {"none", "end", "lost"}]
  /\ wire \subseteq Request /\ inbox \subseteq Frame
  /\ handled \in [Callers -> Nat]

Init ==
  /\ sup = "off" /\ ws = 0 /\ ready = FALSE /\ stopping = FALSE
  /\ todo = 0 /\ lock = None /\ nextId = 0
  /\ pending = {} /\ streams = {}
  /\ pc = [t \in Tasks |-> "idle"]
  /\ cap = [t \in Tasks |-> 0]
  /\ id = [t \in Tasks |-> 0]
  /\ attempt = [t \in Tasks |-> 0]
  /\ res = [t \in Tasks |-> "none"]
  /\ evt = [t \in Tasks |-> "none"]
  /\ gen = 0 /\ link = FALSE /\ wire = {} /\ inbox = {}
  /\ handled = [c \in Callers |-> 0]

-----------------------------------------------------------------------------
(* Helpers.                                                                *)

\* The captured socket is still open.
Open(t) == link /\ cap[t] = gen

\* t still holds the future registered under its id.
Waiting(t) == pc[t] \in {"send", "await"} /\ res[t] = "none"

\* The event loop has a callback of t queued: t runs before the loop polls
\* the network or a timer again.
Runnable(t) ==
  \/ pc[t] = "woken"
  \/ pc[t] = "lock" /\ lock = None
  \/ pc[t] = "send" /\ ~Open(t)
  \/ pc[t] = "await" /\ res[t] # "none"
  \/ pc[t] = "stream" /\ evt[t] # "none"

\* The socket, id, future and stream of a call are locals of the coroutine
\* that made it: a call of t ends.
Leave(t) ==
  /\ cap' = [cap EXCEPT ![t] = 0]
  /\ id' = [id EXCEPT ![t] = 0]
  /\ res' = [res EXCEPT ![t] = "none"]
  /\ evt' = [evt EXCEPT ![t] = "none"]

\* _fail_pending: every registered future that is still unresolved gets the
\* ConnectionError, but the supervisor's own, which ends with its request.
\* The mutant forgets the futures it drops.
ForgetPending == pending' = {} /\ res' = [res EXCEPT ![Sup] = "none"]
FailPending ==
  /\ pending' = {}
  /\ res' = [t \in Tasks |-> IF t = Sup THEN "none"
                             ELSE IF Waiting(t) /\ id[t] \in pending
                             THEN "lost" ELSE res[t]]

\* The finally block of _run_connection with _fail_pending and
\* _fail_event_streams, then the exit of websockets.connect: the socket is
\* closed and what it still held is never read.
DropConnection ==
  /\ ready' = FALSE
  /\ ws' = 0
  /\ FailPending
  /\ evt' = [t \in Tasks |-> IF id[t] \in streams /\ evt[t] = "none"
                             THEN "lost" ELSE evt[t]]
  /\ cap' = [cap EXCEPT ![Sup] = 0]
  /\ id' = [id EXCEPT ![Sup] = 0]
  /\ streams' = {}
  /\ link' = FALSE
  /\ inbox' = {}

-----------------------------------------------------------------------------
(* Callers: command(), process_assist_pipeline() and the _send_current /   *)
(* _subscribe_current they share.                                          *)

Begin(t) ==
  /\ t \in Callers /\ pc[t] = "idle"
  /\ pc' = [pc EXCEPT ![t] = "wait"]
  /\ UNCHANGED <<client, cap, id, attempt, res, evt, world>>

\* ready.wait() returns; the flag may be cleared before the task runs again.
Wake(t) ==
  /\ pc[t] = "wait" /\ ready
  /\ pc' = [pc EXCEPT ![t] = "woken"]
  /\ UNCHANGED <<client, cap, id, attempt, res, evt, world>>

\* Mutant: one more round than the code's range(2).
DisconnectedRetryTwice(t) ==
  /\ pc' = [pc EXCEPT ![t] =
       IF t \in Commands /\ attempt[t] <= 1 THEN "wait" ELSE "failed"]
  /\ attempt' = [attempt EXCEPT ![t] = @ + 1]
  /\ ready' = IF t \in Commands THEN FALSE ELSE ready
  /\ Leave(t)

\* A ConnectionError or ConnectionClosed leaves the send: command() clears
\* ready and goes round once more; process_assist_pipeline() lets it out.
Disconnected(t) ==
  /\ pc' = [pc EXCEPT ![t] =
       IF t \in Commands /\ attempt[t] = 0 THEN "wait" ELSE "failed"]
  /\ attempt' = [attempt EXCEPT ![t] = 1]
  /\ ready' = IF t \in Commands THEN FALSE ELSE ready
  /\ Leave(t)

Capture(t) ==
  /\ pc[t] = "woken"
  /\ IF ws = 0
     THEN Disconnected(t)
     ELSE /\ cap' = [cap EXCEPT ![t] = ws]
          /\ pc' = [pc EXCEPT ![t] = "lock"]
          /\ UNCHANGED <<attempt, ready, id, res, evt>>
  /\ UNCHANGED <<sup, ws, stopping, todo, lock, nextId, pending, streams,
                 world>>

\* The id of the next request; the mutant numbers by what is pending now.
CountPending == Cardinality(pending) + 1
FreshId == nextId + 1

\* Under the lock: take an id, register the future (and the stream), write
\* the frame.  The writer may then wait for the transport to drain.
Register(t) ==
  /\ pc[t] = "lock" /\ lock = None /\ Open(t)
  /\ lock' = t
  /\ nextId' = FreshId
  /\ id' = [id EXCEPT ![t] = FreshId]
  /\ pending' = pending \cup {FreshId}
  /\ streams' = IF t \in Pipelines THEN streams \cup {FreshId} ELSE streams
  /\ res' = [res EXCEPT ![t] = "none"]
  /\ evt' = [evt EXCEPT ![t] = "none"]
  /\ wire' = wire \cup {[id |-> FreshId, task |-> t, gen |-> gen]}
  /\ pc' = [pc EXCEPT ![t] = "send"]
  /\ UNCHANGED <<sup, ws, ready, stopping, todo, cap, attempt,
                 gen, link, inbox, handled>>

\* ws.send on a socket that is already closed raises at once; the id is spent
\* and the entries just made are popped again.
RegisterClosed(t) ==
  /\ t \in Callers /\ pc[t] = "lock" /\ lock = None /\ ~Open(t)
  /\ nextId' = FreshId
  /\ Disconnected(t)
  /\ UNCHANGED <<sup, ws, stopping, todo, lock, pending, streams, world>>

SendDone(t) ==
  /\ pc[t] = "send"
  /\ lock' = None
  /\ pc' = [pc EXCEPT ![t] = "await"]
  /\ UNCHANGED <<sup, ws, ready, stopping, todo, nextId, pending, streams,
                 cap, id, attempt, res, evt, world>>

\* The drain is woken by the loss of the connection.
SendFailed(t) ==
  /\ t \in Callers /\ pc[t] = "send" /\ ~Open(t)
  /\ lock' = None
  /\ pending' = pending \ {id[t]}
  /\ streams' = streams \ {id[t]}
  /\ Disconnected(t)
  /\ UNCHANGED <<sup, ws, stopping, todo, nextId, world>>

\* The future carries a reply.  A pipeline call that was accepted goes on to
\* read its event stream.
Replied(t) ==
  /\ t \in Callers /\ pc[t] = "await" /\ res[t] \in {"result", "refused"}
  /\ IF t \in Pipelines /\ res[t] = "result"
     THEN /\ pc' = [pc EXCEPT ![t] = "stream"]
          /\ UNCHANGED <<streams, cap, id, res, evt>>
     ELSE /\ pc' = [pc EXCEPT ![t] = "done"]
          /\ streams' = streams \ {id[t]}
          /\ Leave(t)
  /\ UNCHANGED <<sup, ws, ready, stopping, todo, lock, nextId, pending,
                 attempt, world>>

\* Mutant: the lost reply is taken for an answer.
ReplyLostIgnored(t) ==
  /\ t \in Callers /\ pc[t] = "await" /\ res[t] = "lost"
  /\ pc' = [pc EXCEPT ![t] = "done"]
  /\ UNCHANGED <<client, cap, id, attempt, res, evt, world>>

\* The future carries the ConnectionError of _fail_pending.
ReplyLost(t) ==
  /\ t \in Callers /\ pc[t] = "await" /\ res[t] = "lost"
  /\ Disconnected(t)
  /\ UNCHANGED <<sup, ws, stopping, todo, lock, nextId, pending, streams,
                 world>>

\* intent-end, error or run-end, or the error put by _fail_event_streams.
StreamEnded(t) ==
  /\ pc[t] = "stream" /\ evt[t] # "none"
  /\ pc' = [pc EXCEPT ![t] = IF evt[t] = "end" THEN "done" ELSE "failed"]
  /\ streams' = streams \ {id[t]}
  /\ Leave(t)
  /\ UNCHANGED <<sup, ws, ready, stopping, todo, lock, nextId, pending,
                 attempt, world>>

\* The waits under a wait_for: for ready, for the reply, for the stream.
\* Waiting for the lock and draining have no timeout of their own.
Timed == {"wait", "await", "stream"}

\* Mutant: the handler of command() catches every exception, timeouts too.
TimeoutClearsReady(t) ==
  /\ t \in Callers /\ pc[t] \in Timed
  /\ pc' = [pc EXCEPT ![t] = "failed"]
  /\ ready' = FALSE
  /\ pending' = pending \ {id[t]} /\ streams' = streams \ {id[t]}
  /\ Leave(t)
  /\ UNCHANGED <<sup, ws, stopping, todo, lock, nextId, attempt, world>>

\* wait_for gives up; _send_current pops the entry it leaves behind.
Timeout(t) ==
  /\ t \in Callers /\ pc[t] \in Timed
  /\ pc' = [pc EXCEPT ![t] = "failed"]
  /\ IF pc[t] = "wait"
     THEN UNCHANGED <<pending, streams>>
     ELSE pending' = pending \ {id[t]} /\ streams' = streams \ {id[t]}
  /\ Leave(t)
  /\ UNCHANGED <<sup, ws, ready, stopping, todo, lock, nextId, attempt, world>>

\* Mutant: the lock is released by a plain call after the send and not by the
\* block that holds it.
CancelKeepsLock(t) ==
  /\ t \in Callers /\ pc[t] \in {"wait", "lock", "send", "await", "stream"}
  /\ pc' = [pc EXCEPT ![t] = "cancelled"]
  /\ streams' = IF pc[t] = "stream" THEN streams \ {id[t]} ELSE streams
  /\ Leave(t)
  /\ UNCHANGED <<sup, ws, ready, stopping, todo, lock, nextId, pending, attempt,
                 world>>

\* The calling task is cancelled.  CancelledError is no Exception: only the
\* lock and, while reading it, the stream are given back.
Cancel(t) ==
  /\ t \in Callers /\ pc[t] \in {"wait", "lock", "send", "await", "stream"}
  /\ pc' = [pc EXCEPT ![t] = "cancelled"]
  /\ lock' = IF lock = t THEN None ELSE lock
  /\ streams' = IF pc[t] = "stream" THEN streams \ {id[t]} ELSE streams
  /\ Leave(t)
  /\ UNCHANGED <<sup, ws, ready, stopping, todo, nextId, pending, attempt,
                 world>>

-----------------------------------------------------------------------------
(* The supervisor and the reader.                                          *)

Start ==
  /\ sup = "off"
  /\ sup' = "dial"
  /\ UNCHANGED <<ws, ready, stopping, todo, lock, nextId, pending, streams,
                 tasks, world>>

\* websockets.connect and the auth handshake succeed.  They take several
\* network round trips, after a sleep of reconnect_delay: every callback that
\* was already queued has run by then.
Dial ==
  /\ sup = "dial" /\ ~stopping /\ gen < MaxConn
  /\ \A t \in Tasks : ~Runnable(t)
  /\ gen' = gen + 1
  /\ link' = TRUE
  /\ ws' = gen + 1
  /\ todo' = InitCalls
  /\ sup' = "init"
  /\ UNCHANGED <<ready, stopping, lock, nextId, pending, streams,
                 tasks, wire, inbox, handled>>

\* _initialise_connection_caches sends its next request.
InitSend ==
  /\ sup = "init" /\ todo > 0 /\ pc[Sup] = "idle"
  /\ cap' = [cap EXCEPT ![Sup] = ws]
  /\ pc' = [pc EXCEPT ![Sup] = "lock"]
  /\ UNCHANGED <<client, id, attempt, res, evt, world>>

\* The request was answered or, for those whose failure is tolerated (the
\* configuration and the registries, never the last one), failed.
InitNext ==
  /\ sup = "init" /\ pc[Sup] = "await" /\ todo > 0
  /\ \/ res[Sup] \in {"result", "refused"}
     \/ todo > 1 /\ res[Sup] = "none" /\ gen < MaxConn
  /\ pending' = pending \ {id[Sup]}
  /\ todo' = todo - 1
  /\ pc' = [pc EXCEPT ![Sup] = "idle"]
  /\ Leave(Sup)
  /\ UNCHANGED <<sup, ws, ready, stopping, lock, nextId, streams, attempt,
                 world>>

\* The caches are filled: the listeners are told and ready is set.
InitDone ==
  /\ sup = "init" /\ todo = 0
  /\ ready' = TRUE
  /\ sup' = "serve"
  /\ UNCHANGED <<ws, stopping, todo, lock, nextId, pending, streams,
                 tasks, world>>

\* A cache request raised: a closed socket, a timeout (bounded: the last
\* connection answers), or a reply that is not usable.
InitFailed ==
  /\ sup = "init"
  /\ \/ pc[Sup] \in {"lock", "send"} /\ ~Open(Sup)
     \/ pc[Sup] = "await" /\ res[Sup] = "refused" /\ gen < MaxConn
     \/ pc[Sup] = "await" /\ res[Sup] = "none" /\ (gen < MaxConn \/ ~link)
  /\ DropConnection
  /\ sup' = "dial"
  /\ pc' = [pc EXCEPT ![Sup] = "idle"]
  /\ lock' = IF lock = Sup THEN None ELSE lock
  /\ UNCHANGED <<stopping, todo, nextId, attempt, gen, wire, handled>>

\* The reader task ends, which ends _run_connection.
ReaderEnded ==
  /\ sup = "serve" /\ ~link
  /\ DropConnection
  /\ sup' = "dial"
  /\ UNCHANGED <<stopping, todo, lock, nextId, pc, attempt, gen, wire, handled>>

\* The reader takes the next frame; a pipeline's events follow its result.
Read(f) ==
  /\ f \in inbox
  /\ f.kind = "end" =>
       \A g \in inbox : g.id = f.id => g.kind = "end"
  /\ inbox' = inbox \ {f}
  /\ IF f.kind = "end"
     THEN /\ evt' = [t \in Tasks |->
                IF f.id \in streams /\ id[t] = f.id THEN "end" ELSE evt[t]]
          /\ UNCHANGED <<pending, res>>
     ELSE /\ pending' = pending \ {f.id}
          /\ res' = [t \in Tasks |->
                IF f.id \in pending /\ id[t] = f.id /\ Waiting(t)
                THEN f.kind ELSE res[t]]
          /\ UNCHANGED evt
  /\ UNCHANGED <<sup, ws, ready, stopping, todo, lock, nextId, streams,
                 pc, cap, id, attempt, gen, link, wire, handled>>

\* stop(): _stopping is set, ready cleared and the socket closed; the
\* supervisor is cancelled once the socket has closed.
StopBegin ==
  /\ sup # "off" /\ ~stopping
  /\ stopping' = TRUE
  /\ ready' = FALSE
  /\ link' = FALSE
  /\ UNCHANGED <<sup, ws, todo, lock, nextId, pending, streams,
                 tasks, gen, wire, inbox, handled>>

StopEnd ==
  /\ stopping /\ sup # "stopped"
  /\ DropConnection
  /\ sup' = "stopped"
  /\ pc' = [pc EXCEPT ![Sup] = "idle"]
  /\ lock' = IF lock = Sup THEN None ELSE lock
  /\ UNCHANGED <<stopping, todo, nextId, attempt, gen, wire, handled>>

-----------------------------------------------------------------------------
(* Home Assistant and the network (external).                              *)

\* Home Assistant processes a request it has received; the answer travels
\* only if the connection that carried the request is still open.
HaHandle(m) ==
  /\ m \in wire
  /\ wire' = wire \ {m}
  /\ handled' = [c \in Callers |->
                   IF c = m.task THEN handled[c] + 1 ELSE handled[c]]
  /\ \E answer \in {{"result"}, {"refused"}, {"result", "end"}} :
       /\ "end" \in answer <=> (m.task \in Pipelines /\ "result" \in answer)
       /\ inbox' = IF link /\ m.gen = gen
                   THEN inbox \cup [id : {m.id}, kind : answer] ELSE inbox
  /\ UNCHANGED <<client, tasks, gen, link>>

\* The connection is lost; the last one of a behaviour stays up.
LinkDrop ==
  /\ link /\ gen < MaxConn
  /\ link' = FALSE
  /\ UNCHANGED <<client, tasks, gen, wire, inbox, handled>>

-----------------------------------------------------------------------------
TaskStep(t) ==
  \/ Wake(t) \/ Capture(t) \/ Register(t) \/ RegisterClosed(t)
  \/ SendDone(t) \/ SendFailed(t) \/ Replied(t) \/ ReplyLost(t)
  \/ StreamEnded(t) \/ Timeout(t)

SupStep ==
  \/ Dial \/ InitSend \/ InitNext \/ InitDone \/ InitFailed \/ ReaderEnded
  \/ StopEnd

Next ==
  \/ \E t \in Tasks : Begin(t) \/ TaskStep(t) \/ Cancel(t)
  \/ Start \/ SupStep \/ StopBegin
  \/ \E f \in inbox : Read(f)
  \/ \E m \in wire : HaHandle(m)
  \/ LinkDrop

Spec == Init /\ [][Next]_vars

\* Every task that can run does; timers fire; a frame in the receive buffer
\* is read; Home Assistant answers what reaches it.  Nothing forces a caller
\* to begin, a connection to drop, a cancellation or a shutdown.
Fairness ==
  /\ \A t \in Tasks : WF_vars(TaskStep(t))
  /\ WF_vars(SupStep)
  /\ WF_vars(Start)
  /\ WF_vars(\E f \in inbox : Read(f))
  /\ WF_vars(\E m \in wire : HaHandle(m))

FairSpec == Spec /\ Fairness

-----------------------------------------------------------------------------
(* Properties.                                                             *)

\* No task waits for something nobody will deliver: an unresolved future is
\* registered under its id on the connection in use, an unfinished event
\* stream likewise, and when the connection is gone so are all entries, those
\* left behind by cancelled callers included (_fail_pending and
\* _fail_event_streams in the finally block, client.py:148-153, 232-241).
NobodyStranded ==
  /\ ws = 0 => pending = {} /\ streams = {}
  /\ \A t \in Tasks :
       /\ Waiting(t) => id[t] \in pending /\ cap[t] = ws /\ ws = gen
       /\ pc[t] = "stream" /\ evt[t] = "none" => id[t] \in streams

\* ready is set on exactly the connections whose caches are filled, and a
\* caller reacting late to the loss of one connection never clears the flag
\* of the next: a healthy, initialised connection is open to callers
\* (client.py:132-135, 329-330).
ReadyIsAccurate ==
  /\ ready => sup = "serve" /\ ws = gen
  /\ sup = "serve" /\ link => ready

\* A reply resolves the future of its own request: while a request has not
\* been processed, the future its sender waits on holds no reply, whatever
\* was sent, timed out, was cancelled or lost on this and on earlier
\* connections (client.py:254-255, 165-169).
RepliesMatch ==
  \A m \in wire :
    LET t == m.task
    IN  pc[t] \in {"send", "await"} /\ id[t] = m.id /\ cap[t] = m.gen
          => res[t] \notin {"result", "refused"}

\* A call as its caller sees it.
Phase(c) ==
  CASE pc[c] = "idle" -> "idle"
    [] pc[c] = "done" -> "answered"
    [] pc[c] \in {"failed", "cancelled"} -> "failed"
    [] OTHER -> "busy"

Contract ==
  INSTANCE CommandContract WITH
    MaxSends <- 2, phase <- [c \in Callers |-> Phase(c)]

\* The client keeps the contract: an answered call was handled by Home
\* Assistant, and no call is handled more than twice (one send, one resend,
\* client.py:319-333).
KeepsContract == Contract!Spec

\* Every call ends, whoever else sends, drains, reads a stream or is cancelled
\* meanwhile: the waits for ready, for the reply and for the stream have a
\* timeout, and the send lock, waited for without one, is always passed on
\* (client.py:321-324, 255-276, 286-306, 389-435).
CallsEnd ==
  \A c \in Callers : pc[c] = "wait" ~> pc[c] \in Ended

\* Whatever drops, times out or is refused, the supervisor works its way back
\* to a connection that is open to callers.
Recovers == sup # "off" ~> ready \/ stopping
=============================================================================
