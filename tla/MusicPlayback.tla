---------------------------- MODULE MusicPlayback ----------------------------
(***************************************************************************)
(* Starting playback on one queue (intent_bridge/music_assistant):         *)
(* _ma_dispatch_play_media and _ma_dispatch_fast_artist_radio of           *)
(* playback.py, run one at a time by NativeMusicAssistant.run_serialized   *)
(* (client.py), with the lifecycles they leave in the background and the   *)
(* bookkeeping that suppresses repeated requests and tells a superseded    *)
(* radio to stay out of what was asked for after it.                       *)
(*                                                                         *)
(* All plays ask for the same media and all radios for the same artist, as *)
(* impatient repetitions do.  LED feedback is the business of              *)
(* AssistantLeds.                                                          *)
(***************************************************************************)
EXTENDS Naturals, Sequences

CONSTANTS
  Requests,   \* tool calls that start playback, made once each
  None        \* no request; the tool lock is free

\* _ma_dispatch_play_media or _ma_dispatch_fast_artist_radio
Kinds == {"play", "radio"}

ASSUME RequestsAssumption == None \notin Requests

VARIABLES
  \* NativeMusicAssistant
  tool,      \* holder of self._tool_lock
  record,    \* self._inflight_playbacks, by fingerprint
  gen,       \* self._queue_playback_generation of the queue
  \* of a request
  kind,      \* what it asks for
  pc,        \* where the tool call is
  cmd,       \* its play_media task
  audio,     \* its first-audio watcher
  dedupe,    \* the task that holds a radio's record
  life,      \* its background lifecycle
  mine,      \* the generation it began
  \* Music Assistant
  wire,      \* calls it has not yet received, in order
  received   \* generation of the last play_media it received

manager == <<tool, record, gen>>
request == <<kind, pc, cmd, audio, dedupe, life, mine>>
world == <<wire, received>>
vars == <<manager, request, world>>

Message == [what : {"play", "continue"}, by : Requests]

TypeOK ==
  /\ tool \in Requests \cup {None}
  /\ record \in [Kinds -> Requests \cup {None}]
  /\ \A k \in Kinds : record[k] # None => kind[record[k]] = k
  /\ gen \in Nat
  /\ kind \in [Requests -> Kinds]
  /\ pc \in [Requests -> {"idle", "queued", "search", "tracks", "ack",
                            "done", "suppressed", "failed", "cut"}]
  /\ \A r \in Requests : tool = r <=> pc[r] \in {"search", "tracks", "ack"}
  /\ cmd \in [Requests -> {"none", "sent", "ok", "failed"}]
  /\ audio \in [Requests -> {"none", "watch", "heard", "silent"}]
  /\ dedupe \in [Requests -> {"none", "held", "released"}]
  /\ life \in [Requests -> {"none", "wait", "continue", "over"}]
  /\ mine \in [Requests -> Nat] /\ received \in Nat
  /\ wire \in Seq(Message)

Init ==
  /\ tool = None /\ record = [k \in Kinds |-> None]
  /\ gen = 0
  /\ kind \in [Requests -> Kinds]
  /\ pc = [r \in Requests |-> "idle"]
  /\ cmd = [r \in Requests |-> "none"]
  /\ audio = [r \in Requests |-> "none"]
  /\ dedupe = [r \in Requests |-> "none"]
  /\ life = [r \in Requests |-> "none"]
  /\ mine = [r \in Requests |-> 0]
  /\ wire = <<>> /\ received = 0

-----------------------------------------------------------------------------
(* The bookkeeping of NativeMusicAssistant.                                *)

\* The task a record was registered with is done.
TaskDone(r) ==
  IF kind[r] = "play" THEN cmd[r] \in {"ok", "failed"} ELSE dedupe[r] = "released"

\* get_inflight_playback finds a task that is not done.
InFlight(k) == record[k] # None /\ ~TaskDone(record[k])

\* clear_inflight_playback: only one's own record.
Cleared(r) ==
  [record EXCEPT ![kind[r]] = IF @ = r THEN None ELSE @]

\* The tool call is over and the lock passed on.
Leave(r, how) ==
  /\ pc' = [pc EXCEPT ![r] = how]
  /\ tool' = None

\* A new generation begins, the command is sent and the record registered.
Dispatch(r) ==
  /\ gen' = gen + 1
  /\ mine' = [mine EXCEPT ![r] = gen + 1]
  /\ cmd' = [cmd EXCEPT ![r] = "sent"]
  /\ wire' = Append(wire, [what |-> "play", by |-> r])
  /\ record' = [record EXCEPT ![kind[r]] = r]
  /\ pc' = [pc EXCEPT ![r] = "ack"]

-----------------------------------------------------------------------------
(* The tool call.                                                          *)

Ask(r) ==
  /\ pc[r] = "idle"
  /\ pc' = [pc EXCEPT ![r] = "queued"]
  /\ UNCHANGED <<manager, kind, cmd, audio, dedupe, life, mine, world>>

\* Mutant: tool calls run side by side.
EnterAnyway(r) ==
  /\ pc[r] = "queued"
  /\ tool' = r
  /\ pc' = [pc EXCEPT ![r] = "search"]
  /\ UNCHANGED <<record, gen, kind, cmd, audio, dedupe, life, mine, world>>

\* run_serialized, and the searches before the dispatch.
Enter(r) ==
  /\ pc[r] = "queued" /\ tool = None
  /\ tool' = r
  /\ pc' = [pc EXCEPT ![r] = "search"]
  /\ UNCHANGED <<record, gen, kind, cmd, audio, dedupe, life, mine, world>>

\* wait_ready gives up.
NotConnected(r) ==
  /\ pc[r] = "queued"
  /\ pc' = [pc EXCEPT ![r] = "failed"]
  /\ UNCHANGED <<manager, kind, cmd, audio, dedupe, life, mine, world>>

\* An identical request is still in flight.
Suppress(r) ==
  /\ pc[r] = "search" /\ InFlight(kind[r])
  /\ Leave(r, "suppressed")
  /\ UNCHANGED <<record, gen, kind, cmd, audio, dedupe, life, mine, world>>

PlayDispatch(r) ==
  /\ kind[r] = "play" /\ pc[r] = "search" /\ ~InFlight("play")
  /\ Dispatch(r)
  /\ UNCHANGED <<tool, kind, audio, dedupe, life, received>>

\* A radio first asks for the tracks of the artist.
AskTracks(r) ==
  /\ kind[r] = "radio" /\ pc[r] = "search" /\ ~InFlight("radio")
  /\ record' = [record EXCEPT !["radio"] = None]
  /\ pc' = [pc EXCEPT ![r] = "tracks"]
  /\ UNCHANGED <<tool, gen, kind, cmd, audio, dedupe, life, mine, world>>

RadioDispatch(r) ==
  /\ pc[r] = "tracks"
  /\ Dispatch(r)
  /\ dedupe' = [dedupe EXCEPT ![r] = "held"]
  /\ audio' = [audio EXCEPT ![r] = "watch"]
  /\ UNCHANGED <<tool, kind, life, received>>

\* Nothing was found, or Music Assistant reports an error.
NotFound(r) ==
  /\ pc[r] \in {"search", "tracks"}
  /\ Leave(r, "failed")
  /\ UNCHANGED <<record, gen, kind, cmd, audio, dedupe, life, mine, world>>

\* The command ends inside the ACK window.
PlayAcknowledged(r) ==
  /\ kind[r] = "play" /\ pc[r] = "ack" /\ cmd[r] \in {"ok", "failed"}
  /\ record' = Cleared(r)
  /\ Leave(r, IF cmd[r] = "ok" THEN "done" ELSE "failed")
  /\ UNCHANGED <<gen, kind, cmd, audio, dedupe, life, mine, world>>

RadioRefused(r) ==
  /\ kind[r] = "radio" /\ pc[r] = "ack" /\ cmd[r] = "failed"
  /\ record' = Cleared(r)
  /\ dedupe' = [dedupe EXCEPT ![r] = "released"]
  /\ audio' = [audio EXCEPT ![r] = "silent"]
  /\ Leave(r, "failed")
  /\ UNCHANGED <<gen, kind, cmd, life, mine, world>>

\* The window closes, or a radio is heard or acknowledged inside it: the
\* lifecycle goes on in the background.
Optimistic(r) ==
  /\ pc[r] = "ack"
  /\ \/ cmd[r] = "sent"
     \/ kind[r] = "radio" /\ cmd[r] = "ok"
  /\ life' = [life EXCEPT ![r] = "wait"]
  /\ Leave(r, "done")
  /\ UNCHANGED <<record, gen, kind, cmd, audio, dedupe, mine, world>>

\* The tool call is cut off by command_timeout or cancelled: CancelledError is
\* no Exception, and the tasks it created are left as they are.
CutOff(r) ==
  /\ pc[r] \in {"search", "tracks", "ack"}
  /\ Leave(r, "cut")
  /\ UNCHANGED <<record, gen, kind, cmd, audio, dedupe, life, mine, world>>

-----------------------------------------------------------------------------
(* The background lifecycles.                                              *)

PlayLifeEnds(r) ==
  /\ kind[r] = "play" /\ life[r] = "wait" /\ cmd[r] \in {"ok", "failed"}
  /\ life' = [life EXCEPT ![r] = "over"]
  /\ record' = Cleared(r)
  /\ UNCHANGED <<tool, gen, kind, pc, cmd, audio, dedupe, mine, world>>

\* The finally block of _radio_lifecycle.
RadioLifeEnds(r) ==
  /\ life' = [life EXCEPT ![r] = "over"]
  /\ record' = Cleared(r)
  /\ dedupe' = [dedupe EXCEPT ![r] = "released"]

\* Mutant: an early return that leaves the record to the next request.
RadioGivesUpKept(r) ==
  /\ kind[r] = "radio" /\ life[r] = "wait"
  /\ audio[r] = "silent" \/ (audio[r] = "heard" /\ gen # mine[r])
  /\ life' = [life EXCEPT ![r] = "over"]
  /\ UNCHANGED <<manager, kind, pc, cmd, audio, dedupe, mine, world>>

\* No audio, or a later request owns the queue.
RadioGivesUp(r) ==
  /\ kind[r] = "radio" /\ life[r] = "wait"
  /\ audio[r] = "silent" \/ (audio[r] = "heard" /\ gen # mine[r])
  /\ RadioLifeEnds(r)
  /\ UNCHANGED <<tool, gen, kind, pc, cmd, audio, mine, world>>

\* Mutant: whoever owns the queue by now.
ContinueAnyway(r) ==
  /\ kind[r] = "radio" /\ life[r] = "wait" /\ audio[r] = "heard"
  /\ life' = [life EXCEPT ![r] = "continue"]
  /\ wire' = Append(wire, [what |-> "continue", by |-> r])
  /\ UNCHANGED <<manager, kind, pc, cmd, audio, dedupe, mine, received>>

\* The seed is heard and the queue still this request's: Music Assistant is
\* told to go on from it (dont_stop_the_music).
Continue(r) ==
  /\ kind[r] = "radio" /\ life[r] = "wait" /\ audio[r] = "heard" /\ gen = mine[r]
  /\ life' = [life EXCEPT ![r] = "continue"]
  /\ wire' = Append(wire, [what |-> "continue", by |-> r])
  /\ UNCHANGED <<manager, kind, pc, cmd, audio, dedupe, mine, received>>

\* That call is answered, refused or times out.
ContinueEnds(r) ==
  /\ life[r] = "continue"
  /\ RadioLifeEnds(r)
  /\ UNCHANGED <<tool, gen, kind, pc, cmd, audio, mine, world>>

\* The watcher ends: the queue plays something it did not play when the
\* request was dispatched, or belongs to a later request, or the deadline
\* passes, which is behind that of the command.
Watch(r) ==
  /\ audio[r] = "watch"
  /\ \/ gen = mine[r] /\ audio' = [audio EXCEPT ![r] = "heard"]
     \/ /\ gen # mine[r] \/ cmd[r] # "sent"
        /\ audio' = [audio EXCEPT ![r] = "silent"]
  /\ UNCHANGED <<manager, kind, pc, cmd, dedupe, life, mine, world>>

-----------------------------------------------------------------------------
(* Music Assistant (external).  Calls arrive in the order they were sent.  *)

Receive ==
  /\ wire # <<>> /\ wire' = Tail(wire)
  /\ received' = IF Head(wire).what = "play"
                 THEN mine[Head(wire).by] ELSE received
  /\ UNCHANGED <<manager, request>>

\* play_media returns, fails or times out, received or not.
CommandEnds(r) ==
  /\ cmd[r] = "sent"
  /\ \/ /\ \A i \in DOMAIN wire : wire[i] # [what |-> "play", by |-> r]
        /\ cmd' = [cmd EXCEPT ![r] = "ok"]
     \/ cmd' = [cmd EXCEPT ![r] = "failed"]
  /\ UNCHANGED <<manager, kind, pc, audio, dedupe, life, mine, world>>

-----------------------------------------------------------------------------
ToolStep(r) ==
  \/ Enter(r) \/ Suppress(r) \/ PlayDispatch(r) \/ AskTracks(r)
  \/ RadioDispatch(r) \/ NotFound(r) \/ NotConnected(r)
  \/ PlayAcknowledged(r) \/ RadioRefused(r) \/ Optimistic(r)

LifeStep(r) ==
  \/ PlayLifeEnds(r) \/ RadioGivesUp(r) \/ Continue(r) \/ ContinueEnds(r)

Next ==
  \/ \E r \in Requests :
       \/ Ask(r) \/ ToolStep(r) \/ CutOff(r) \/ LifeStep(r) \/ Watch(r)
       \/ CommandEnds(r)
  \/ Receive

Spec == Init /\ [][Next]_vars

\* Tasks that can run do, and every wait is under a timeout.  Nothing forces a
\* request, or its being cut off.
Fairness ==
  /\ \A r \in Requests :
       /\ WF_vars(ToolStep(r)) /\ WF_vars(LifeStep(r)) /\ WF_vars(Watch(r))
       /\ WF_vars(CommandEnds(r))
  /\ WF_vars(Receive)

FairSpec == Spec /\ Fairness

-----------------------------------------------------------------------------
(* Properties.                                                             *)

\* A request is under way: its command is not answered, or the radio it
\* started is not settled.
Busy(r) ==
  IF kind[r] = "play" THEN cmd[r] = "sent"
  ELSE pc[r] \in {"tracks", "ack"} \/ life[r] \in {"wait", "continue"}

\* "Identical in-flight writes for the same queue/media are suppressed"
\* (playback.py:47-48): of the requests with one fingerprint at most one is
\* under way, in the foreground or in the background, with the search for the
\* artist's tracks between the look at the records and the registration of
\* one's own (playback.py:349-377, 417-424).
OneInFlight ==
  \A q, r \in Requests :
    q # r /\ kind[q] = kind[r] => ~(Busy(q) /\ Busy(r))

\* "queue generations stop superseded background radio lifecycles from
\* enabling DSTM for a newer playback request" (client.py:163-165): when a
\* continuation reaches Music Assistant, the last playback it was asked for is
\* that radio's own.
NoLateContinuation ==
  wire # <<>> /\ Head(wire).what = "continue"
    => received = mine[Head(wire).by]

\* A repetition is suppressed for a while only: whatever becomes of a request,
\* it stops standing in the way of the next identical one.  A radio whose tool
\* call is cut off inside the ACK window is the exception, and stays in the
\* way until the client is stopped (playback.py:417-424, 441-445, 541-543).
DedupeReleased ==
  []<>(\A k \in Kinds :
         \/ ~InFlight(k)
         \/ k = "radio" /\ pc[record[k]] = "cut")
=============================================================================
