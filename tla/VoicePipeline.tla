--------------------------- MODULE VoicePipeline ---------------------------
(***************************************************************************)
(* The requests of one conversation on their way through                   *)
(* VoiceActionPipeline (intent_bridge/core/voice.py): the deterministic    *)
(* route with its dialogue session (intent_engine), the informational      *)
(* agent and the household agent behind fallback_lock (llm.py).            *)
(*                                                                         *)
(* All requests carry the same words, as a satellite that retries sends    *)
(* them.  What a planner (whose catalog changes in between), Home          *)
(* Assistant or a language model makes of them is a free choice; an action *)
(* "may have started" once it was handed to Home Assistant or Music        *)
(* Assistant without being rejected.  Steps that only read a state are     *)
(* left out: they change nothing, and are executed again when they fail    *)
(* (engine.py:651-702).                                                    *)
(***************************************************************************)
EXTENDS Naturals

CONSTANTS
  Requests,           \* chat completion requests
  None,               \* fallback_lock is free
  MaxSteps,           \* bound: planned steps of a compound command
  AmbiguityFallback,  \* settings.llm.ambiguous_target_fallback_enabled
  FailureResponse     \* settings.api.voice_failure_response is not empty

ASSUME NoneAssumption == None \notin Requests
ASSUME StepsAssumption == MaxSteps \in Nat \ {0}
ASSUME SettingsAssumption ==
  AmbiguityFallback \in BOOLEAN /\ FailureResponse \in BOOLEAN

VARIABLES
  \* of a request
  pc,        \* where it is
  left,      \* planned steps not yet executed
  sent,      \* executions of the current step that may have begun: 0, 1, many
  unknown,   \* one of them has begun, perhaps, and was never answered
  resent,    \* client.command is on its second attempt
  acted,     \* some action may have started
  ok,        \* what its VoiceToolRunState recorded as successful
  deferred,  \* the deterministic route deferred a question
  mark,      \* session.state.pending at that time, for dismiss_pending
  out,       \* how it was answered
  \* of the conversation
  pending,   \* session.state.pending: a question, 0 for None
  isAmb,     \* that question is the ambiguity response
  asked,     \* questions asked so far
  \* of the process
  lock,      \* holder of runtime.fallback_lock
  replay,    \* recent_music_action_responses holds the response
  window     \* replay_guard_seconds have not passed since it was given

progress == <<sent, unknown, resent, acted>>
request == <<pc, left, progress, ok, deferred, mark, out>>
session == <<pending, isAmb, asked>>
shared == <<lock, replay, window>>
vars == <<request, session, shared>>

TypeOK ==
  /\ pc \in [Requests -> {"plan", "pipeline", "ws", "fallback", "http",
                            "exact", "delegate", "info", "infoLock",
                            "infoAgent", "llm", "llmLock", "agent",
                            "recover", "done"}]
  /\ left \in [Requests -> 0..MaxSteps]
  /\ sent \in [Requests -> 0..2]
  /\ unknown \in [Requests -> BOOLEAN]
  /\ resent \in [Requests -> BOOLEAN]
  /\ acted \in [Requests -> BOOLEAN]
  /\ ok \in [Requests -> {"none", "data", "ha", "music"}]
  /\ deferred \in [Requests -> BOOLEAN] /\ mark \in [Requests -> Nat]
  /\ out \in [Requests -> {"none", "speech", "question", "failure",
                             "error"}]
  /\ pending \in Nat /\ isAmb \in BOOLEAN /\ asked \in Nat
  /\ lock \in Requests \cup {None}
  /\ replay \in BOOLEAN /\ window \in BOOLEAN

Init ==
  /\ pc = [r \in Requests |-> "plan"]
  /\ left = [r \in Requests |-> 0]
  /\ sent = [r \in Requests |-> 0]
  /\ unknown = [r \in Requests |-> FALSE]
  /\ resent = [r \in Requests |-> FALSE]
  /\ acted = [r \in Requests |-> FALSE]
  /\ ok = [r \in Requests |-> "none"]
  /\ deferred = [r \in Requests |-> FALSE]
  /\ mark = [r \in Requests |-> 0]
  /\ out = [r \in Requests |-> "none"]
  /\ pending = 0 /\ isAmb = FALSE /\ asked = 0
  /\ lock = None /\ replay = FALSE /\ window = FALSE

-----------------------------------------------------------------------------
(* How VoiceActionPipeline.handle ends a request.                          *)

Answer(r, kind) ==
  /\ pc' = [pc EXCEPT ![r] = "done"]
  /\ out' = [out EXCEPT ![r] = kind]

\* dismiss_pending(expected): the pending question is dropped if it is still
\* the expected one, or if none is expected.  The mutant never looks.
DismissAny(q) == pending' = 0
Dismiss(q) == pending' = IF q = 0 \/ pending = q THEN 0 ELSE pending

\* A route produced speech; a question deferred before is told of it.
Succeed(r) ==
  /\ Answer(r, "speech")
  /\ IF deferred[r] THEN Dismiss(mark[r]) ELSE UNCHANGED pending
  /\ UNCHANGED <<isAmb, asked>>

\* Every route has failed: the deferred question, or the failure response.
Exhausted(r) ==
  /\ Answer(r, IF deferred[r] THEN "question"
               ELSE IF FailureResponse THEN "failure" ELSE "error")
  /\ UNCHANGED session

-----------------------------------------------------------------------------
(* The deterministic route.  Planning runs without an await.               *)

\* No planner matches, or one raises.
PlanDeclines(r) ==
  /\ pc[r] = "plan"
  /\ pc' = [pc EXCEPT ![r] = "info"]
  /\ UNCHANGED <<left, progress, ok, deferred, mark, out, session, shared>>

\* The plan is an answer: a reading, a summary, a refusal.
PlanAnswers(r) ==
  /\ pc[r] = "plan" /\ pending = 0
  /\ Answer(r, "speech")
  /\ UNCHANGED <<left, progress, ok, deferred, mark, session, shared>>

\* A question is spoken at once, but an ambiguity is left to the later routes
\* first, with what is pending by then.
Ask(r, ambiguous) ==
  IF ambiguous /\ AmbiguityFallback
  THEN /\ deferred' = [deferred EXCEPT ![r] = TRUE]
       /\ mark' = [mark EXCEPT ![r] = pending']
       /\ pc' = [pc EXCEPT ![r] = "info"]
       /\ UNCHANGED out
  ELSE Answer(r, "question") /\ UNCHANGED <<deferred, mark>>

\* The plan is a question: a new one, or the pending one again when these
\* words do not resolve it.  A new question is not always kept: of a clause of
\* a compound command only the response is left, and _pending_from_request
\* may not find the candidates again.
PlanAsks(r) ==
  /\ pc[r] = "plan"
  /\ \/ /\ pending # 0
        /\ UNCHANGED session /\ Ask(r, isAmb)
     \/ /\ pending = 0
        /\ asked' = asked + 1 /\ pending' = asked + 1
        /\ isAmb' \in BOOLEAN /\ Ask(r, isAmb')
     \/ /\ pending = 0
        /\ UNCHANGED session
        /\ \E ambiguous \in BOOLEAN : Ask(r, ambiguous)
  /\ UNCHANGED <<left, progress, ok, shared>>

\* The plan has steps, which resolve or replace a pending question.  Only a
\* single step may go over the WebSocket: a timer to the Assist pipeline of
\* its device, any other to the conversation.
PlanSteps(r) ==
  /\ pc[r] = "plan"
  /\ \E n \in 1..MaxSteps :
       /\ left' = [left EXCEPT ![r] = n]
       /\ \E first \in IF n = 1 THEN {"pipeline", "ws", "http"} ELSE {"http"} :
            pc' = [pc EXCEPT ![r] = first]
  /\ pending' = 0
  /\ UNCHANGED <<progress, ok, deferred, mark, out, isAmb, asked, shared>>

-----------------------------------------------------------------------------
(* One planned step: the Assist pipeline, then the conversation WebSocket, *)
(* then HTTP ("fallback"); or HTTP at once, and for an exact entity that   *)
(* was not matched call_service over the WebSocket ("exact").              *)

Executing(r) == pc[r] \in {"pipeline", "ws", "fallback", "http", "exact"}

\* Executions of a step are counted as none, one or many.
More(n) == IF n = 0 THEN 1 ELSE 2

\* Home Assistant may have begun one more execution.
Begin(r) ==
  /\ sent' = [sent EXCEPT ![r] = More(@)]
  /\ acted' = [acted EXCEPT ![r] = TRUE]

\* The bridge gets no answer: it may have begun or not.
Unanswered(r) ==
  \/ Begin(r) /\ unknown' = [unknown EXCEPT ![r] = TRUE]
  \/ UNCHANGED <<sent, acted, unknown>>

\* A call has been answered, or is given up.
EndCall(r) ==
  /\ unknown' = [unknown EXCEPT ![r] = FALSE]
  /\ resent' = [resent EXCEPT ![r] = FALSE]

\* command() lost the connection before it had the reply, and sends the same
\* payload once more when there is a connection again.
ClientResends(r) ==
  /\ pc[r] \in {"ws", "exact"} /\ ~resent[r]
  /\ resent' = [resent EXCEPT ![r] = TRUE]
  /\ Unanswered(r)
  /\ UNCHANGED <<pc, left, ok, deferred, mark, out, session, shared>>

\* The reply is a rejection or has no usable result, which does not say that
\* nothing was done: the next transport gets the step.
Rejected(r) ==
  /\ pc[r] \in {"pipeline", "ws"}
  /\ pc' = [pc EXCEPT ![r] = IF @ = "pipeline" THEN "ws" ELSE "fallback"]
  /\ Begin(r) \/ UNCHANGED <<sent, acted>>
  /\ EndCall(r)
  /\ UNCHANGED <<left, ok, deferred, mark, out, session, shared>>

\* Home Assistant could not match the exact entity: its service is called.
Missed(r) ==
  /\ pc[r] = "http"
  /\ pc' = [pc EXCEPT ![r] = "exact"]
  /\ EndCall(r)
  /\ UNCHANGED <<left, sent, acted, ok, deferred, mark, out, session, shared>>

\* Not configured, or the target could not be matched: the later routes are
\* tried.
StepDeclined(r) ==
  /\ Executing(r)
  /\ pc' = [pc EXCEPT ![r] = "info"]
  /\ EndCall(r)
  /\ UNCHANGED <<left, sent, acted, ok, deferred, mark, out, session, shared>>

\* The loop over plan.steps; the mutant goes round once too often.
AlwaysMoreSteps(r) == TRUE
MoreSteps(r) == left[r] > 1

\* The step has a result to speak.
NextStep(r) ==
  /\ left' = [left EXCEPT ![r] = @ - 1]
  /\ EndCall(r)
  /\ IF MoreSteps(r)
     THEN pc' = [pc EXCEPT ![r] = "http"] /\ UNCHANGED <<out, session>>
     ELSE Succeed(r)

StepDone(r) ==
  /\ Executing(r)
  /\ acted' = [acted EXCEPT ![r] = TRUE]
  /\ sent' = [sent EXCEPT ![r] = IF MoreSteps(r) THEN 0 ELSE More(@)]
  /\ NextStep(r)
  /\ UNCHANGED <<ok, deferred, mark, shared>>

\* It was executed without speech: an agent is asked to put it in words.
StepSpeechless(r) ==
  /\ Executing(r) /\ pc[r] # "exact"
  /\ Begin(r)
  /\ EndCall(r)
  /\ pc' = [pc EXCEPT ![r] = "delegate"]
  /\ UNCHANGED <<left, ok, deferred, mark, out, session, shared>>

\* That agent has the user's words and the household tools: it may act on the
\* request again.
DelegateCalls(r) ==
  /\ pc[r] = "delegate"
  /\ Begin(r)
  /\ UNCHANGED <<pc, left, unknown, resent, ok, deferred, mark, out, session,
                 shared>>

Delegated(r) ==
  /\ pc[r] = "delegate"
  /\ sent' = [sent EXCEPT ![r] = IF MoreSteps(r) THEN 0 ELSE @]
  /\ NextStep(r)
  /\ UNCHANGED <<acted, ok, deferred, mark, shared>>

\* Mutant: a transport failure of the WebSocket falls back to HTTP.
StepRaisedRetries(r) ==
  /\ Executing(r) \/ pc[r] = "delegate"
  /\ Unanswered(r)
  /\ IF pc[r] = "ws"
     THEN pc' = [pc EXCEPT ![r] = "fallback"] /\ UNCHANGED out
     ELSE Answer(r, "error")
  /\ resent' = [resent EXCEPT ![r] = FALSE]
  /\ UNCHANGED <<left, ok, deferred, mark, session, shared>>

\* Anything else, a lost connection on the second attempt, a timeout, an HTTP
\* error, raises RouteExecutionError, which ends the request: the command may
\* have reached Home Assistant.
StepRaised(r) ==
  /\ IF Executing(r) THEN Unanswered(r)
     ELSE pc[r] = "delegate" /\ UNCHANGED <<sent, acted, unknown>>
  /\ resent' = [resent EXCEPT ![r] = FALSE]
  /\ Answer(r, "error")
  /\ UNCHANGED <<left, ok, deferred, mark, session, shared>>

-----------------------------------------------------------------------------
(* The informational route: an agent without household tools.             *)

\* Not a general question, or no agent.
InfoDeclines(r) ==
  /\ pc[r] = "info"
  /\ pc' = [pc EXCEPT ![r] = "llm"]
  /\ UNCHANGED <<left, progress, ok, deferred, mark, out, session, shared>>

InfoQueues(r) ==
  /\ pc[r] = "info"
  /\ pc' = [pc EXCEPT ![r] = "infoLock"]
  /\ UNCHANGED <<left, progress, ok, deferred, mark, out, session, shared>>

InfoStarts(r) ==
  /\ pc[r] = "infoLock" /\ lock = None
  /\ lock' = r
  /\ pc' = [pc EXCEPT ![r] = "infoAgent"]
  /\ UNCHANGED <<left, progress, ok, deferred, mark, out, session,
                 replay, window>>

\* The agent answers; or it fails, times out or has nothing to say.
InfoEnds(r) ==
  /\ pc[r] = "infoAgent"
  /\ lock' = None
  /\ \/ Succeed(r)
     \/ pc' = [pc EXCEPT ![r] = "llm"] /\ UNCHANGED <<out, session>>
  /\ UNCHANGED <<left, progress, ok, deferred, mark, replay, window>>

-----------------------------------------------------------------------------
(* The household agent (process_llm_fallback), the last route.             *)

\* No agent is configured.
LlmUnavailable(r) ==
  /\ pc[r] = "llm"
  /\ Exhausted(r)
  /\ UNCHANGED <<left, progress, ok, deferred, mark, shared>>

LlmQueues(r) ==
  /\ pc[r] = "llm"
  /\ pc' = [pc EXCEPT ![r] = "llmLock"]
  /\ UNCHANGED <<left, progress, ok, deferred, mark, out, session, shared>>

\* Mutant: no look at what was just done.
LlmStartsAnyway(r) ==
  /\ pc[r] = "llmLock" /\ lock = None
  /\ lock' = r
  /\ pc' = [pc EXCEPT ![r] = "agent"]
  /\ UNCHANGED <<left, progress, ok, deferred, mark, out, session,
                 replay, window>>

\* Under the lock: the response of the same, recent music request is given
\* again, or the agent runs with a fresh VoiceToolRunState.
LlmStarts(r) ==
  /\ pc[r] = "llmLock" /\ lock = None
  /\ IF replay /\ window
     THEN Succeed(r) /\ UNCHANGED lock
     ELSE /\ lock' = r
          /\ pc' = [pc EXCEPT ![r] = "agent"]
          /\ UNCHANGED <<out, session>>
  /\ UNCHANGED <<left, progress, ok, deferred, mark, replay, window>>

\* A tool call that changed something and said so ends the agent's turn; a
\* call that returned data, or failed after it may have acted, does not.
AgentCalls(r) ==
  /\ pc[r] = "agent" /\ ok[r] \in {"none", "data"}
  /\ \/ ok' = [ok EXCEPT ![r] = "data"] /\ UNCHANGED acted
     \/ /\ acted' = [acted EXCEPT ![r] = TRUE]
        /\ \E done \in {ok[r], "ha", "music"} : ok' = [ok EXCEPT ![r] = done]
  /\ UNCHANGED <<pc, left, sent, unknown, resent, deferred, mark, out, session,
                 shared>>

Confirmed(r) == ok[r] \in {"ha", "music"}

\* The lock is given up and, with no await between, a music response is
\* remembered.
LlmSucceeds(r) ==
  /\ Succeed(r)
  /\ lock' = None
  /\ IF ok[r] = "music"
     THEN replay' = TRUE /\ window' = TRUE ELSE UNCHANGED <<replay, window>>

\* Mutant: a failing run keeps the lock.
LlmFailsLocked(r) == Exhausted(r) /\ UNCHANGED shared
LlmFails(r) == Exhausted(r) /\ lock' = None /\ UNCHANGED <<replay, window>>

\* The run ends with words, without, or by an exception: the turn limit, the
\* timeout, an error of the provider.  A recorded action is confirmed all the
\* same, recorded data are put in words by one more call.
AgentEnds(r) ==
  /\ pc[r] = "agent"
  /\ \/ LlmSucceeds(r)
     \/ ok[r] = "none" /\ LlmFails(r)
     \/ /\ ok[r] = "data"
        /\ pc' = [pc EXCEPT ![r] = "recover"]
        /\ UNCHANGED <<out, session, shared>>
  /\ UNCHANGED <<left, progress, ok, deferred, mark>>

Recovered(r) ==
  /\ pc[r] = "recover"
  /\ LlmSucceeds(r) \/ LlmFails(r)
  /\ UNCHANGED <<left, progress, ok, deferred, mark>>

\* replay_guard_seconds pass; an old entry is no longer found.
WindowCloses ==
  /\ window /\ window' = FALSE /\ replay' = FALSE
  /\ UNCHANGED <<request, session, lock>>

-----------------------------------------------------------------------------
PlanStep(r) ==
  PlanDeclines(r) \/ PlanAnswers(r) \/ PlanAsks(r) \/ PlanSteps(r)

ExecuteStep(r) ==
  \/ ClientResends(r) \/ Rejected(r) \/ Missed(r)
  \/ StepDone(r) \/ StepSpeechless(r) \/ DelegateCalls(r) \/ Delegated(r)
  \/ StepDeclined(r) \/ StepRaised(r)

AgentStep(r) ==
  \/ InfoDeclines(r) \/ InfoQueues(r) \/ InfoStarts(r) \/ InfoEnds(r)
  \/ LlmUnavailable(r) \/ LlmQueues(r) \/ LlmStarts(r)
  \/ AgentEnds(r) \/ Recovered(r)

Step(r) == PlanStep(r) \/ ExecuteStep(r) \/ AgentStep(r)

Next == (\E r \in Requests : Step(r) \/ AgentCalls(r)) \/ WindowCloses

Spec == Init /\ [][Next]_vars

-----------------------------------------------------------------------------
(* Properties.                                                             *)

\* A transport that was never answered, so that Home Assistant may have begun
\* the command, is not followed by another transport, a later step or another
\* route: all that may still be done is the client's own single resend on the
\* WebSocket, or the request ends in an error (client.py:320-334,
\* intent_executor.py:772-782, engine.py:705-708, voice.py:103-111).  An
\* answer, also one to the resend, ends the doubt; what is then asked again is
\* the matter of UtteranceOnce.
UnknownIsFinal ==
  \A r \in Requests :
    unknown[r] =>
      \/ pc[r] \in {"ws", "exact"} /\ resent[r]
      \/ pc[r] = "done" /\ out[r] = "error"

\* No agent is started for words whose music action was confirmed to a caller
\* moments ago, also when the second request was already queued for the lock
\* while the first was running (llm.py:72-86, 202-208).
NoReplay ==
  [][ window => \A r \in Requests : pc'[r] = "agent" => pc[r] = "agent" ]_vars

\* A request that deferred a question and noted which one never takes away a
\* newer question, asked while its agents were running (route.py:122-135,
\* supplemental.py:1513-1518).
NewerQuestionKept ==
  [][ \A r \in Requests :
        mark[r] # 0 /\ pc[r] # "done" /\ pc'[r] = "done" /\ pending # mark[r]
          => pending' = pending ]_vars

\* The lock is held exactly by the one request that is inside an agent run:
\* whichever way a run ends, the requests queued behind it get their turn, and
\* the runs of these two routes never overlap (llm.py:72, 269; the run that
\* words a speechless result takes no lock, intent_executor.py:1041-1050).
LockIsRunning ==
  \A r \in Requests :
    lock = r <=> pc[r] \in {"infoAgent", "agent", "recover"}

\* README.md:143-149 divides the commands between the transports "so an
\* utterance is never replayed", intent_executor.py:773-775 does not "retry
\* through HTTP here: doing so could execute an action twice", and
\* client.py:320-321 names a connection that drops before the send as the
\* reason of its retry.  No step of a command is begun twice.
UtteranceOnce == \A r \in Requests : sent[r] <= 1

\* README.md:137-141: the failure response is the answer to requests "every
\* safe planning route declines", and "failures after an action may have
\* started still return an HTTP error rather than claiming safety".
HonestFailure == \A r \in Requests : out[r] = "failure" => ~acted[r]
=============================================================================
