---------------------------- MODULE AssistantLeds ----------------------------
(***************************************************************************)
(* LED feedback on one indicator light (AssistantLeds,                     *)
(* intent_bridge/indicators/controller.py), as the background lifecycles   *)
(* of Music Assistant playback use it: begin() lights the indicator or     *)
(* joins the session that did, a software pulse blinks it, end() restores  *)
(* what it looked like when the last user leaves.                          *)
(*                                                                         *)
(* The light is on or off and has its own settings or the temporary ones,  *)
(* also while it is off: they are what it is next turned on with.  Of some *)
(* lights Home Assistant shows them in the state of a light that is off.   *)
(* Service calls go over one socket and are carried out in order;          *)
(* the cached state the snapshot is taken from follows by events.  The     *)
(* session lock is held over no await that yields on a ready connection,   *)
(* so its regions are single steps.                                        *)
(***************************************************************************)
EXTENDS Naturals, Sequences

CONSTANTS
  Jobs,         \* lifecycles, each calling begin() and end() once
  Stop,         \* stop_all() at shutdown
  None,         \* no session
  Pulse,        \* the software pulse is enabled
  MaxFailures,  \* bound: service calls that fail
  MaxBlinks,    \* bound: switches of the light by one pulse
  MaxBehind     \* bound: state events the reader is behind

Tasks == Jobs \cup {Stop}

ASSUME TasksAssumption == Stop \notin Jobs /\ None \notin Tasks
ASSUME SettingsAssumption ==
  /\ Pulse \in BOOLEAN
  /\ MaxFailures \in Nat /\ MaxBlinks \in Nat /\ MaxBehind \in Nat

VARIABLES
  \* AssistantLeds; a session is named after the job that created it
  current,   \* the session in self._sessions
  refcount,  \* refcount[s]
  snap,      \* snapshot[s]: the cached state when s was created
  pulse,     \* pulse_task[s]
  blinks,    \* how often it has switched the light
  \* the tasks
  pc,        \* where the task is
  restoring, \* the session it restores
  closing,   \* shutdown has begun
  \* Home Assistant and the socket
  light,     \* the indicator
  cache,     \* client.states of it
  events,    \* state events not yet read
  wire,      \* service calls not yet carried out
  failures   \* service calls that have failed

leds == <<current, refcount, snap, pulse, blinks>>
tasks == <<pc, restoring, closing>>
world == <<light, cache, events, wire, failures>>
vars == <<leds, tasks, world>>

Light == [on : BOOLEAN, look : {"own", "temp"}, showsOff : BOOLEAN]
State == [on : BOOLEAN, look : {"own", "temp", "none"}]
Call == [on : BOOLEAN, look : {"own", "temp", "keep"}, by : Tasks,
         pulse : BOOLEAN]

TypeOK ==
  /\ current \in Jobs \cup {None}
  /\ refcount \in [Jobs -> Nat]
  /\ snap \in [Jobs -> State]
  /\ pulse \in [Jobs -> {"none", "sleep", "call", "ended"}]
  /\ blinks \in [Jobs -> 0..MaxBlinks]
  /\ pc \in [Tasks -> {"idle", "activate", "busy", "unpulse", "relight",
                         "restore", "done"}]
  /\ restoring \in [Tasks -> Jobs \cup {None}]
  /\ closing \in BOOLEAN
  /\ light \in Light /\ cache \in State
  /\ events \in Seq(State) /\ wire \in Seq(Call)
  /\ failures \in 0..MaxFailures
  /\ current # None => refcount[current] > 0

\* The state that shows light l.
Shown(l) ==
  [on |-> l.on, look |-> IF l.on \/ l.showsOff THEN l.look ELSE "none"]

Init ==
  /\ current = None
  /\ refcount = [s \in Jobs |-> 0]
  /\ pulse = [s \in Jobs |-> "none"]
  /\ blinks = [s \in Jobs |-> 0]
  /\ pc = [t \in Tasks |-> "idle"]
  /\ restoring = [t \in Tasks |-> None]
  /\ closing = FALSE
  /\ light \in Light /\ light.look = "own"
  /\ cache = Shown(light)
  /\ snap = [s \in Jobs |-> cache]
  /\ events = <<>> /\ wire = <<>> /\ failures = 0

-----------------------------------------------------------------------------
(* Service calls (_ha_internal_service_call).                              *)

Issue(on, look, t, isPulse) ==
  wire' = Append(wire, [on |-> on, look |-> look, by |-> t, pulse |-> isPulse])

OnWire(t, isPulse) ==
  \E i \in DOMAIN wire : wire[i].by = t /\ wire[i].pulse = isPulse

\* The reply is in: the call is no longer under way.
Replied(t) == ~OnWire(t, FALSE)

\* Home Assistant carries out the next call (external).
HaActs ==
  /\ wire # <<>> /\ Len(events) < MaxBehind
  /\ LET c == Head(wire)
         look == IF c.look = "keep" THEN light.look ELSE c.look
     IN  light' = [light EXCEPT !.on = c.on, !.look = look]
  /\ events' = Append(events, Shown(light'))
  /\ wire' = Tail(wire)
  /\ UNCHANGED <<leds, tasks, cache, failures>>

\* The reader stores the next state event.
ReadEvent ==
  /\ events # <<>>
  /\ cache' = Head(events)
  /\ events' = Tail(events)
  /\ UNCHANGED <<leds, tasks, light, wire, failures>>

-----------------------------------------------------------------------------
(* begin()                                                                 *)

\* A session exists and is joined.
Join(j) ==
  /\ j \in Jobs /\ pc[j] = "idle" /\ ~closing /\ current # None
  /\ refcount' = [refcount EXCEPT ![current] = @ + 1]
  /\ pc' = [pc EXCEPT ![j] = "busy"]
  /\ UNCHANGED <<current, snap, pulse, blinks, restoring, closing, world>>

\* A new session is registered; outside the lock the light is turned on.
Create(j) ==
  /\ j \in Jobs /\ pc[j] = "idle" /\ ~closing /\ current = None
  /\ current' = j
  /\ refcount' = [refcount EXCEPT ![j] = 1]
  /\ snap' = [snap EXCEPT ![j] = cache]
  /\ Issue(TRUE, "temp", j, FALSE)
  /\ pc' = [pc EXCEPT ![j] = "activate"]
  /\ UNCHANGED <<pulse, blinks, restoring, closing, light, cache, events,
                 failures>>

\* No indicator is resolved, or the connection is not ready: no handle.
BeginFails(j) ==
  /\ j \in Jobs /\ pc[j] = "idle"
  /\ pc' = [pc EXCEPT ![j] = "done"]
  /\ UNCHANGED <<leds, restoring, closing, world>>

Activated(j) ==
  /\ pc[j] = "activate" /\ Replied(j)
  /\ pulse' = IF Pulse THEN [pulse EXCEPT ![j] = "sleep"] ELSE pulse
  /\ pc' = [pc EXCEPT ![j] = "busy"]
  /\ UNCHANGED <<current, refcount, snap, blinks, restoring, closing, world>>

\* Mutant: the session outlives its failed activation.
ActivateFailsKept(j) ==
  /\ pc[j] = "activate" /\ failures < MaxFailures
  /\ failures' = failures + 1
  /\ pc' = [pc EXCEPT ![j] = "done"]
  /\ UNCHANGED <<leds, restoring, closing, light, cache, events, wire>>

\* The call is refused or times out, carried out or not: the registered
\* session is dropped and begin() returns no handle.
ActivateFails(j) ==
  /\ pc[j] = "activate" /\ failures < MaxFailures
  /\ failures' = failures + 1
  /\ current' = None
  /\ pc' = [pc EXCEPT ![j] = "done"]
  /\ UNCHANGED <<refcount, snap, pulse, blinks, restoring, closing,
                 light, cache, events, wire>>

-----------------------------------------------------------------------------
(* The software pulse of session s.                                        *)

Blink(s) ==
  /\ pulse[s] = "sleep" /\ blinks[s] < MaxBlinks
  /\ pulse' = [pulse EXCEPT ![s] = "call"]
  /\ blinks' = [blinks EXCEPT ![s] = @ + 1]
  /\ IF blinks[s] % 2 = 0 THEN Issue(FALSE, "keep", s, TRUE)
     ELSE Issue(TRUE, "temp", s, TRUE)
  /\ UNCHANGED <<current, refcount, snap, tasks, light, cache, events,
                 failures>>

Blinked(s) ==
  /\ pulse[s] = "call" /\ ~OnWire(s, TRUE)
  /\ pulse' = [pulse EXCEPT ![s] = "sleep"]
  /\ UNCHANGED <<current, refcount, snap, blinks, tasks, world>>

BlinkFails(s) ==
  /\ pulse[s] = "call" /\ failures < MaxFailures
  /\ failures' = failures + 1
  /\ pulse' = [pulse EXCEPT ![s] = "ended"]
  /\ UNCHANGED <<current, refcount, snap, blinks, tasks,
                 light, cache, events, wire>>

-----------------------------------------------------------------------------
(* end(), _restore() and stop_all()                                        *)

\* Mutant: the last user leaves the session registered.
EndLastKeeps(j) ==
  /\ j \in Jobs /\ pc[j] = "busy" /\ current # None /\ refcount[current] <= 1
  /\ refcount' = [refcount EXCEPT ![current] = @ - 1]
  /\ restoring' = [restoring EXCEPT ![j] = current]
  /\ pc' = [pc EXCEPT ![j] = "unpulse"]
  /\ UNCHANGED <<current, snap, pulse, blinks, closing, world>>

\* The handle names the light, not the session: whichever session is
\* registered now loses a user.
EndLast(j) ==
  /\ j \in Jobs /\ pc[j] = "busy" /\ current # None /\ refcount[current] <= 1
  /\ refcount' = [refcount EXCEPT ![current] = @ - 1]
  /\ current' = None
  /\ restoring' = [restoring EXCEPT ![j] = current]
  /\ pc' = [pc EXCEPT ![j] = "unpulse"]
  /\ UNCHANGED <<snap, pulse, blinks, closing, world>>

EndOther(j) ==
  /\ j \in Jobs /\ pc[j] = "busy"
  /\ \/ current = None /\ UNCHANGED refcount
     \/ /\ current # None /\ refcount[current] > 1
        /\ refcount' = [refcount EXCEPT ![current] = @ - 1]
  /\ pc' = [pc EXCEPT ![j] = "done"]
  /\ UNCHANGED <<current, snap, pulse, blinks, restoring, closing, world>>

\* The settings the snapshot has, as the data of turn_on.
Settings(s) == IF snap[s].look = "none" THEN "keep" ELSE snap[s].look

\* A light that was off is turned on with its settings before it is turned
\* off: with those of the snapshot or, after a native effect, which excludes
\* the pulse, a neutral one.  The mutant turns it off only.
RelightsNever(s, neutral) == FALSE
Relights(s, neutral) == ~snap[s].on /\ (snap[s].look # "none" \/ neutral)

\* The first call of _restore.
RestoreCall(t, s) ==
  \E neutral \in IF Pulse THEN {FALSE} ELSE BOOLEAN :
    LET relight == Relights(s, neutral)
        on == snap[s].on \/ relight
    IN  /\ Issue(on, IF on THEN Settings(s) ELSE "keep", t, FALSE)
        /\ pc' = [pc EXCEPT ![t] = IF relight THEN "relight" ELSE "restore"]

\* Mutant: the pulse goes on.
RestoreOverPulse(t) ==
  /\ pc[t] = "unpulse"
  /\ RestoreCall(t, restoring[t])
  /\ UNCHANGED <<leds, restoring, closing, light, cache, events, failures>>

\* The pulse is cancelled and awaited, then the light restored.
Restore(t) ==
  /\ pc[t] = "unpulse"
  /\ pulse' = [pulse EXCEPT ![restoring[t]] =
                 IF @ = "none" THEN "none" ELSE "ended"]
  /\ RestoreCall(t, restoring[t])
  /\ UNCHANGED <<current, refcount, snap, blinks, restoring, closing,
                 light, cache, events, failures>>

\* The light that was off has its settings and is turned off.
Relit(t) ==
  /\ pc[t] = "relight" /\ Replied(t)
  /\ Issue(FALSE, "keep", t, FALSE)
  /\ pc' = [pc EXCEPT ![t] = "restore"]
  /\ UNCHANGED <<leds, restoring, closing, light, cache, events, failures>>

\* Done, or a failed call is logged; if it was the first of two, the second
\* is not made.
Restored(t) ==
  /\ \/ pc[t] = "restore" /\ Replied(t) /\ UNCHANGED failures
     \/ /\ pc[t] \in {"relight", "restore"} /\ failures < MaxFailures
        /\ failures' = failures + 1
  /\ pc' = [pc EXCEPT ![t] = "done"]
  /\ restoring' = [restoring EXCEPT ![t] = None]
  /\ UNCHANGED <<leds, closing, light, cache, events, wire>>

\* Shutdown: the Music Assistant client cancels and awaits the lifecycles.
\* One that waits for playback runs its finally block, one inside begin() or
\* end() stops there.
Close ==
  /\ ~closing /\ closing' = TRUE
  /\ pc' = [t \in Tasks |->
              IF pc[t] \in {"activate", "unpulse", "relight", "restore"}
              THEN "done" ELSE pc[t]]
  /\ restoring' = [t \in Tasks |-> None]
  /\ pulse' = [s \in Jobs |->
                 IF \E t \in Tasks : pc[t] = "unpulse" /\ restoring[t] = s
                       /\ pulse[s] # "none"
                 THEN "ended" ELSE pulse[s]]
  /\ UNCHANGED <<current, refcount, snap, blinks, world>>

\* stop_all, once they are gone.
StopAll ==
  /\ closing /\ pc[Stop] = "idle"
  /\ \A j \in Jobs : pc[j] \in {"idle", "done"}
  /\ IF current = None
     THEN /\ pc' = [pc EXCEPT ![Stop] = "done"]
          /\ UNCHANGED <<refcount, restoring>>
     ELSE /\ refcount' = [refcount EXCEPT ![current] = 0]
          /\ restoring' = [restoring EXCEPT ![Stop] = current]
          /\ pc' = [pc EXCEPT ![Stop] = "unpulse"]
  /\ current' = None
  /\ UNCHANGED <<snap, pulse, blinks, closing, world>>

-----------------------------------------------------------------------------
TaskStep(t) ==
  \/ Join(t) \/ Create(t) \/ BeginFails(t) \/ Activated(t) \/ ActivateFails(t)
  \/ EndLast(t) \/ EndOther(t) \/ Restore(t) \/ Relit(t)
  \/ Restored(t)

PulseStep(s) == Blink(s) \/ Blinked(s) \/ BlinkFails(s)

Next ==
  \/ \E t \in Tasks : TaskStep(t)
  \/ \E s \in Jobs : PulseStep(s)
  \/ HaActs \/ ReadEvent \/ Close \/ StopAll

Spec == Init /\ [][Next]_vars

-----------------------------------------------------------------------------
(* Properties.                                                             *)

\* The light is given back: once no lifecycle is inside begin() or waits for
\* its playback, no session is left registered that a later begin() would
\* join and nobody would end (controller.py:386-391, 495-513).
NoSessionLeft ==
  ~closing /\ (\A j \in Jobs : pc[j] \notin {"activate", "busy"})
    => current = None

\* As long as no service call has failed, the pulse never blinks a light that
\* is being restored or was restored: its task is over before the first
\* restore call is sent, and no session is ended while it is still activated
\* (controller.py:516-519).  After a failed activation the second half is not
\* true: a user who had joined the dropped session ends the next one.
RestoreIsLast ==
  failures = 0 => \A s \in Jobs :
    pulse[s] \in {"sleep", "call"} =>
      \/ current = s
      \/ \E t \in Tasks : restoring[t] = s /\ pc[t] = "unpulse"

\* What restoring is for: "Restore colour/effect as well as off state when
\* possible", which "prevents our temporary green/pulse settings becoming its
\* next-on state" (controller.py:541-544).  Once nothing is under way, if no
\* call failed and every session was begun on the user's own light, that light
\* is on exactly if it was, and it has its own settings again, on or off, if
\* the snapshot had them.  Only the next begin() can find a restore that has
\* not arrived yet, and keep its look.
LightGivenBack ==
  /\ ~closing /\ wire = <<>> /\ failures = 0
  /\ \A t \in Tasks : pc[t] \in {"idle", "done"}
  /\ \A s, u \in Jobs : snap[s] = snap[u] /\ snap[s].look # "temp"
  => \A s \in Jobs :
       /\ light.on = snap[s].on
       /\ snap[s].look = "own" => light.look = "own"
=============================================================================
