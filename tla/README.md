# A TLA+ model of Intent Bridge

Intent Bridge is an OpenAI-compatible proxy that turns the sentences of a voice
assistant into Home Assistant actions and Music Assistant playback. It is one
Python process with one asyncio event loop. This directory models the parts of
it that keep state across an `await`, and the part that decides what a sentence
does; it checks them with TLC on small instances, and proves with TLAPS the
invariants of the Home Assistant client, its caches and publisher, the voice
pipeline, the planning session, the LED feedback, MCP recovery, music playback
and the application for every instance. Paths below are relative to `intent_bridge/`.

Check one run with `tlc -config HaSocket.cfg HaSocketMC.tla`, and the
proofs of a component with `tlapm HaSocketProofs.tla`; the others are
`HaCatalogProofs`, `VoicePipelineProofs`, `DialogueProofs`,
`AssistantLedsProofs`, `McpReconnectProofs`, `MusicPlaybackProofs` and
`ApplicationProofs`. `PROJECT.json` lists the runs, the mutants that show each
property can fail, the source lines of every definition, the hazards and the
findings.

## 1. Inventory

| Component | State | Operations | What is hard |
|---|---|---|---|
| HA WebSocket client (`home_assistant/client.py`) | socket, `ready`, `_pending`, `_event_streams`, `_send_lock`, request id | supervisor, reader, `command`, `process_assist_pipeline`, stop | replies, losses, timeouts, cancellations and reconnects in every order; a retry |
| HA caches and catalog publisher (`client.py`, `home_assistant/intent_catalog.py`) | states, registries, TTL, `_registry_refresh_lock`; `_changed`, `_registry_refresh_needed`, snapshot | initialise, events, `refresh_registries`, publisher loop | flags cleared around awaits, refreshes that overtake events, subscription after fetch |
| Voice pipeline (`core/voice.py`, `intent_engine/engine.py`, `route.py`, `llm.py`, `informational.py`, `home_assistant/intent_executor.py`) | the request; `fallback_lock`, tool run state, replay guard | plan, execute steps, informational agent, household agent | partial failure, actions of unknown fate, repeated requests |
| Planning session (`intent_engine/supplemental.py`, from `DialogueState` on) | pending question, focus, referent | `plan_turn`, `dismiss_pending` | a question outlives the sentence, the catalog and the request that asked it; six readings of one reply, tried in order |
| Planners (`intent_engine/natural_language.py`, `semantics.py`, `target_evidence.py`, `measurement.py`) | none | text and catalog to steps, a question, or nothing | label evidence against coordination, ambiguity and places: which rule wins |
| Engine and resolution (`intent_engine/engine.py`, `resolution.py`, `catalog.py`) | none | planners and grammar matches to one plan | a match and the words disagree |
| LED feedback (`indicators/controller.py`) | sessions with reference counts, snapshot, pulse task | `begin`, `end`, `stop_all` | a snapshot from a cache that lags, two tasks writing one light |
| MCP recovery (`mcp_recovery.py`) | lock, backoff entries | `list_tools`, `call_tool`, `reconnect` | a herd of callers, cancellation under the lock |
| Music playback (`music_assistant/client.py`, `playback.py`) | tool lock, in-flight records, queue generations | dispatch, fast radio, background lifecycles | dedupe across awaits, superseded lifecycles |
| MA connection supervisor (`music_assistant/client.py`) | client object, `ready` | start, stop, supervisor | a client replaced under a running watcher |
| Conversation memory (`api/conversation.py`) | messages per key, in order of use | seed, remember, get, prune, clear | a client that sends an older transcript, a reset while a request is under way, bounds |
| Voice origin, assistant feedback and sounds (`api/conversation.py`, `assistant/feedback.py`, `sounds/controller.py`) | processing-sound tasks | resolve the caller and its player, begin, cancel, complete, stop_all | a sound task between its delay and its call when the request ends; incomplete registries |
| Application (`application.py`) | integrations in `runtime` | lifespan, `chat_completions` | partial start-up, a failing stop, shutdown order |
| Lists, timers, automations (`intent_engine/supplemental.py` 418-952) | none | more planners of the same kind | - |
| Tools, search, agents, configuration | none | stateless calls, text | - |

How they interact: `chat_completions` seeds the memory, begins the feedback and
calls the pipeline; the deterministic route plans against the published snapshot
and executes over `command()` or HTTP; the agent routes run under
`fallback_lock` and call tools that use `command()` or `run_serialized()`; a
playback tool call leaves a lifecycle in the background that lights the LED
through `command()`; agents reach custom servers through
`ReconnectingMcpServer`; the reader of the HA client feeds the caches from which
the publisher, the LEDs, the sounds and the tools read.

What makes each correct is the list `hazards` of `PROJECT.json`: one entry for
each place where an order, a failure or a cancellation could break it, with the
properties that would notice.

## 2. Modules

A step of a model is the code one asyncio task runs between two awaits that can
really suspend, or a step of the outside (Home Assistant, the network, a clock,
a cancellation). Data is reduced to what the properties tell apart: versions
for cached content, sets of ids for tables, "may have acted" for effects. Text
is the exception: where the meaning of a sentence is the question, a sentence
is a sequence of words.

### CommandContract and HaSocket: the Home Assistant client

`CommandContract` is what a caller may rely on: a call is answered only if Home
Assistant handled it, and is handled at most twice. `HaSocket` is the code:
`sup` is where `_supervisor`/`_run_connection` stands, `ws`, `ready`,
`stopping`, `lock`, `nextId`, `pending`, `streams` are the attributes of the
object, `pc`, `cap`, `id`, `attempt`, `res`, `evt` the local state of the
calling tasks, and `wire`, `inbox`, `handled` the outside. `cap`, `id`, `res`
and `evt` are locals of a coroutine and forgotten when it ends (`Leave`). The eleven requests
of `_initialise_connection_caches` are `InitCalls` requests made by the
supervisor task, through the same `Register`/`SendDone` as any caller.
`KeepsContract` is the refinement (`INSTANCE CommandContract WITH`).

`Dial` is only enabled when no task has a callback queued: a connect takes a
sleep of `reconnect_delay` and several round trips, and asyncio runs what is
ready before it polls again. `ready.clear()` of a late caller would otherwise
hit the next connection; the model shows this to be the one thing the code
relies on there (`ReadyIsAccurate`).

### HaCatalog: caches and publisher

Every state and registry table is a version number. `truth` is Home Assistant,
`cache` the client's tables, `src` the copy the publisher works from and `snap`
what planners are served. `InitSteps` is the order of the cache requests and
the subscription, `Read` the reader with `_handle_event`, `RefreshNext` a step
of `_refresh_registries` by the publisher or by a request. Of the three
registries two are kept (`Tables`), and the six subscriptions are one request.
A request of an interrupted refresh is repeated on the next connection or
fails, as `command()` does; a reply whose request has gone stays in the buffer
and is read as one for nobody (`Disowned`).

### VoicePipeline: a request through the routes

`pc` is the route a request is in. What the planner, Home Assistant or the
model answers is a free choice, so each plan (declined, an answer, a question,
one or more steps) and each outcome of a step occurs. `acted` records that an
action may have started, `sent` how often the current step may have been begun
(not, once, more often), and `unknown` that one of these times nobody answered.

A step takes the transports in the order of the code. `pc` is `pipeline` (a
timer), then `ws`, then `fallback` (HTTP after these), each after a rejection or
a reply without a result of the one before it (`Rejected`), whatever was done
before that reply; or `http` at once, and `exact` for the `call_service` after a
target that was not matched (`Missed`). `ClientResends` is the second attempt of
`command()`, on `ws` and `exact`. A step executed without speech goes to an
agent with the words of the user, which may act on them (`DelegateCalls`). A
transport that raises ends the request (`StepRaised`). `UnknownIsFinal` is what
the code does keep: without an answer nothing follows but the one resend, or an
error. `UtteranceOnce` is what its documents say beyond that, and is violated.

`pending`/`isAmb` are the dialogue session, `deferred`/`mark` the
`RouteDeclinedWithFallback` with the question it captured, `lock` is
`fallback_lock`, `replay`/`window` the replay guard. All requests belong to one
conversation and have the same text. Steps that only read are left out.

### The language modules and Dialogue

What the pipeline leaves free is decided here. Bottom up:

* `Phrases`: words, numbers and units, the split into clauses;
* `CommandLanguage`: verbs, domains and operations of a clause, and the text
  rewriting before it (`semantics.py`, the first third of `natural_language.py`);
* `TargetEvidence`: the catalog, and what its labels prove about a target;
* `TargetResolution`: the entities, areas and floors a clause names, pronouns,
  the area the request comes from;
* `NaturalPlanner`: coordinated targets, ambiguity, the plan of a request;
* `Measurement`: questions about a quantity;
* `IntentEngine`: `_plan_single` and `resolve_candidate`, which combine the
  planners with the matches of the sentence grammar. The grammar (HassIL with
  Home Assistant's sentences) is external: its matches are an input.

They are operators without state and extend each other in this order.
`Dialogue` is `PlanningSession`: `snapshot` is the published catalog,
`focus`, `referent` and `pending` the fields of `DialogueState`, `answer` what
the last turn returned. Planning a turn contains no await, so `Turn` is one
step: replacement, clarification, qualifier, singular pronoun, follow-up and
fresh command are its cases in the order of the code, each with the state it
leaves. The planner is the constant operator `PlanFor`, which the instance
sets to `EnginePlan` over the grammar matches of its sentences (`MCGrammar`).
`Publish` replaces the catalog between turns. Two assumptions say what the
session needs of its constants: `PlannerAssumption` what a plan is (its
entities are in the catalog it was made for, every step has an intent, and a
question that offers candidates an operation), and `PronounAssumption` that a
sentence of one clause that says "it" names no group beside it. TLC evaluates
both for every sentence, catalog and area of the instance.

### ConversationMemory, VoiceOrigin and Application

`ConversationMemory` has the operations of the memory as functions from memory
to memory: each holds the lock for a region without an await, and taking a free
asyncio lock does not yield. A memory is the sequence of its entries, least
recently used first, so age and expiry are a place in it. `VoiceOrigin` resolves
the device a request was spoken to, from incomplete registries, and the player
for its sounds. `Application` composes both with the lifespan: `phase`,
`started`, `ended` and `agents` are the lifespan with every start that may fail
and every stop in its order, `pc`, `body`, `history`, `outcome`, `chime` and
`sounds` the requests. `chime` is the task of the processing sound, with the
delay, the wait for the connection and the call as separate steps, so that
cancellation can hit each. The server waits for its requests before it shuts
down, so requests never overlap the stops. A stop that raises is logged and
otherwise like one that succeeds.

### AssistantLeds: the indicator light

One light, its event-fed cache, and lifecycles that begin and end. Sessions are
named after the lifecycle that created them. Calls travel in order; a call may
fail (`MaxFailures`) whether or not it is carried out. `Close` is the
cancellation of the lifecycles at shutdown, `StopAll` what follows.

`look` is whose settings the light has, also while it is off: they are what it
is next turned on with. Whether the state of a light that is off shows them is
up to its integration (`showsOff`); where it does not, a snapshot of the light
has look `none`. A light that was off is restored by two calls, each awaited:
`RestoreCall` turns it on with the settings of the snapshot, or with a neutral
effect after a native one, `Relit` turns it off. If the first fails, the second
is not made (`Restored`). If there is nothing to restore, it is only turned
off, and keeps the temporary settings: `LightGivenBack` promises the settings
only where the snapshot has them. `AssistantLeds.cfg` has the pulse; native
effects, which exclude it, are in the model and in the proofs (`Pulse` false).

### McpReconnect: MCP recovery

`list_tools` and `call_tool` on closed sessions, `should_defer`, `reconnect`,
`mark_healthy`, with a clock. A rebuild closes all sessions and reopens any
subset. `started` and `streak` are history for the property.

### MusicPlayback: starting playback

`record` is `_inflight_playbacks`, `gen` the queue generation, `tool` the tool
lock; `cmd`, `audio`, `dedupe`, `life` are the tasks a request creates. One
queue; all plays are identical, and so are all radios.

## 3. Runs

Passing runs (together they take every action):

| Run | Instance | Shows |
|---|---|---|
| `HaSocket` | 1 command, 1 pipeline, 2 cache requests, 2 connections, fair | `NobodyStranded`, `ReadyIsAccurate`, `RepliesMatch`, refinement of `CommandContract`; every call ends (`CallsEnd`) and the client recovers (`Recovers`) |
| `HaCatalog` | supervisor, publisher, 1 request that refreshes once, 2 state and 2 registry versions, 2 connections | `WakeUpKept`, `RegistryDebtKept`, `NeverGoesBack` |
| `VoicePipeline` | 3 requests, 2 steps | `UnknownIsFinal`, `LockIsRunning`, `NoReplay`, `NewerQuestionKept` |
| `Dialogue` | 3 turns over 23 sentences, said in the kitchen or nowhere, 9 entities, 2 catalogs (the second without a lamp, a blind and the indicator) | a question keeps its operation (`AsIfItHadBeenClear`), "it" is one entity (`ItIsOne`), a sentence acts on all it fits (`TwinsAlike`), on all it lists (`NothingDropped`), and on nothing else (`StaysInTheRoom`, `IndicatorsSpared`) |
| `AssistantLeds` | 3 lifecycles, 1 failing call, 1 blink, a reader up to 2 events behind, shutdown | `NoSessionLeft`, `RestoreIsLast`, `LightGivenBack` |
| `McpReconnect` | 2 listings, 1 tool call, 2 servers, backoff 1..2, 3 ticks, 4 sessions, fair | `RebuildsSpaced`, `CallsEnd` |
| `MusicPlayback` | 3 requests of either kind, fair | `OneInFlight`, `NoLateContinuation`, `DedupeReleased` |
| `Application` | 2 requests and a turn from before, 4 bodies, 2 conversations, room for 1 conversation of 2 turns, a house of 2 rooms | `TurnsKept`, `ResetSticks`, `OrderlyShutdown`, `SoundOrder`, `CallersRoom` |

Runs that end in a counterexample, each a finding:

| Run | What the code does |
|---|---|
| `HaCatalog_drift` | Caches are fetched before the events are subscribed to. A change in between stays invisible on a healthy connection; the periodic rebuild copies the caches and fetches nothing. |
| `VoicePipeline_replay` | A step of a command can be begun twice: `command()` also sends it again after the reply to it was lost, a transport that rejects it or has no result leaves it to the next one, and the agent that words a speechless result may act on the request. |
| `VoicePipeline_failure` | The failure response ("couldn't handle that") also follows an agent run that failed after it may have acted, a compound command declined at its second step, and a step that one transport may have begun and the next could not match. |
| `Dialogue_replay` | After an operation on a group, a complete command that mentions one member repeats that operation: after "turn on the kitchen lights", "turn off the ceiling and lock the door" turns the ceiling light on and locks nothing. |

Some properties name the one case in which the code falls short, and hold
outside it; the hazard says which. A command whose reply was lost with the
connection is sent again (`client.py:329`), which the contract allows by
"at most twice" and `UtteranceOnce` takes up as a finding. `dismiss_pending(None)` removes whatever question is pending.
A `begin` during a restore takes the temporary look of the light for the user's
own. A client that sends an older transcript, or one that fills the room, makes
the memory forget a turn that a concurrent request has just stored.

Bounds. A property about connections needs one to be lost and one to follow:
two connections. A property about two callers needs two, of which one is a
pipeline so that the send lock is contended and a stream is waited on, for
liveness as for safety; a third request or
lifecycle is there where one waits for what two others race about (agent lock,
LED session, tool lock). A listing and a tool call meet a rebuild made by a
third caller. Two versions are enough for one to be older. Three turns are a
command that leaves a focus or a question, one that changes it or a catalog,
and one that uses it; the sentences have one for each route of a turn and each
rule of the planner the properties tell apart, over two things of one name,
an indicator, and things of every kind of operation. Two requests of the
application overlap, and one conversation evicts the other. `MaxConn`,
`MaxState`, `MaxRegistry`, `MaxFailures`, `MaxBlinks`, `MaxBehind`, `MaxTime`, `MaxSession`
and `MaxTurns` cut behaviours off only in the guards of outside steps, with one
consequence: the last connection of a behaviour in `HaSocket` and `HaCatalog`
answers all requests in time, so that liveness is not lost to the bound itself.
`asked` in `VoicePipeline` grows by at most one for each request, and the
steps a request takes are finite.

Deadlock checking is off where all calls are made once: when they have ended,
nothing is left to do.

Symmetry is used where tasks are alike and no temporal property with
eventualities is checked (`VoicePipeline`, `AssistantLeds`, `Application`).

Fairness. `HaSocket`: tasks that can run do, timers fire, an open connection
delivers; nothing forces a loss, a cancellation, a stop or a call. `HaCatalog`
(for `NoDrift`): the same, and a build does not fail every time (strong
fairness of `BuildDone`). `McpReconnect`: a call that has begun continues; the
manager's connects and the requests are under timeouts. `MusicPlayback`: every
wait is under a timeout, background commands included
(`background_timeout_seconds`). `AssistantLeds`, `VoicePipeline`, `Dialogue`
and `Application` claim nothing that needs fairness.

## 4. Proofs

Each proof module states an inductive invariant as the conjunction of named
parts, has a lemma for each group of actions, split by the conjuncts the group
can disturb, and derives the properties the runs check. The constants are only
assumed to satisfy the assumptions named in the component's module.

**`HaSocketProofs`**: `NobodyIsStranded`, `ReadyStaysAccurate`,
`RepliesAlwaysMatch` and `TypeCorrect`, for any callers, `InitCalls` and
`MaxConn`. None of the three is inductive alone. `IInv` adds that ids are
handed out once and are never larger than `nextId`; that a task that waits is
registered under its own id, on the connection in use; that the connection of a
frame or request is one that was opened; that what is in the inbox answers a
request that has left the wire; and the loop-idle condition under which `Dial`
fires, which makes a task that still holds an older socket notice before the
next connection exists.

The last part of the module is `ContractIsKept`, the refinement of
`CommandContract`. The mapping needs two more facts. `SentInv` counts: what Home
Assistant has processed for a call and what is still on its way to it is never
more than the rounds of `command()` whose send is behind it. `AnswerInv`: whoever
holds an answer was processed.

**`HaCatalogProofs`**: `WakeUpIsKept`, `RegistryDebtIsKept`, `NeverBack` and
`TypeCorrect`, for any refreshing requests, versions and connections.
`NeverBack` rests on a chain `snap <= src <= cache` (`ChainInv`), which a reply
could break that is older than an event that overtook it. The invariant
therefore orders the receive buffer (`InboxInv`: what is to be read is in the
order in which it happened, and not older than the caches), and says of a reply
that a refresh has in hand that it is not older than the cache, and that the
table is due again if a registry event came in since (`GotInv`). `AskInv`
and `FrameInv` make sure that there is one asker at a time and at most one
reply, for the one who waits.

**`VoicePipelineProofs`**: `UnknownStaysFinal`, `LockStaysAccurate`,
`NeverReplayed`, `NewerQuestionStays` and `TypeCorrect`, for any number of
requests and of planned steps and both values of the two settings.
`UnknownStaysFinal` says of a step that was never answered that nothing but the
client's one resend or an error follows it; that an answered one may be begun
again is the finding of `VoicePipeline_replay`.
`UnknownIsFinal` and `LockIsRunning` are inductive given the types; the type of
`left` needs that a request that executes has a step left, `NoReplay` that the
window is open for a remembered response only, and `NewerQuestionKept` that a
request that still plans has noted no question (`PlanInv`, `ReplayInv`).

**`AssistantLedsProofs`**: `NoSessionIsLeft`, `RestoreStaysLast`,
`LightIsGivenBack` and `TypeCorrect`, for any set of lifecycles, with or without the pulse. `UserInv`
relates the reference count to the set of lifecycles that think they use the
light, exactly as long as no call has failed; `RestoringInv` says that whoever
restores a session has taken its pulse, and that nothing begins after shutdown.
`GivenBackInv` says that once no session is left and none is about to be
restored, the calls on the wire end in the settings all sessions had saved
(`Leaves`: the last call with settings has these, or none has any and the light
does), and, when no task has its second call still to make, the last call (or
the light itself, when there is none) switches the light as it was. Calls travel
in order, so what they end in is what remains; a blink behind them would have to
come from a pulse that outlived its session, which `RestoreIsLast` excludes.
That the second call of a restore belongs to a light that was off needs that a
session which is restored was begun and is not begun again (`RestoringInv`).

**`McpReconnectProofs`**: `RebuildsAreSpaced` and `TypeCorrect`, for any
callers, servers and backoff settings. `EntryInv` ties each entry to history: it
dates from the last rebuild, counts at least the rebuilds since the last
discovery, and where it was dropped the first delay is over. That the delay of
more failures is not shorter is proved of the recursive definition itself:
`LeastNatural` (a nonempty set of naturals has a least element) takes the place
of induction, and `DoubledEquation` shows that the recursion has a solution.

**`MusicPlaybackProofs`**: `NeverTwiceInFlight`, `NeverLate` and `TypeCorrect`,
for any set of requests. `RecordInv` says whose record the table holds while a
request is under way, `StageInv` what it can have begun by then, `WireInv` that
the queue's generation is that of the last playback sent, and that every
continuation follows the playback of its own request.

**`ApplicationProofs`**: `ShutdownIsOrderly`, `SoundsInOrder`, `ResetsStick`,
`TurnsAreKept`, `SoundsInTheRoom`, `MemoryIsBounded` and `TypeCorrect`, for any
requests, bodies, bounds and houses. `PhaseInv` says what has been told to stop
in each phase of the shutdown, `ChimeInv` how far the sound task of a request
can be given where the request is. The first part of the data proofs is about
the memory itself: what `Prune`, `Seed`, `Remember`, `Clear` and `AfterRead`
leave of each conversation, that no conversation has two entries, and that each
keeps as many messages as configured. On these rest `DataInv` (types),
`HistoryInv` (a history that was brought along has no room for more or has all
turns its client knew), `ToldInv` (a client knows answered turns only),
`ResetInv` (since a reset its client has told nothing from before, but in
requests the reset overtook) and `TargetInv` (the player of a request is in the
caller's room). `TurnsKept` is an action property:
`TurnsAreKept` is proved of each step from `DataInv` and `HistoryInv`. Its first
form, which excused only a history without the lost turn, is false for three
requests: two that know the turn and a third one whose long history pushes it
out. The proof did not go through there, and TLC then found the behaviour, which
two requests do not have; the property now names this case.

**`DialogueProofs`**: `ItStaysOne` and `TypeCorrect`, for any catalogs,
sentences, areas and number of turns, and any planner that keeps
`PlannerAssumption`; `ItStaysOne` also uses `PronounAssumption`. `SessionInv`
says that what is asked about and followed are entities of some catalog, that an
open question has an operation, and that where something is in focus the referent
has an intent; `Settles` says what a plan is that settles a question.
`ItIsOne` needs that every route that could take "it" for the group is closed: a
value for all candidates has a number (`BoundedIs`, about the words that are
left after the pronoun), a qualifier chooses one member, and the singular pronoun
is asked about before follow-ups and the planner are tried. The attempt to prove
`AsIfItHadBeenClear` for every catalog showed that its first form held only
because the instance never lost a lamp that was asked about: "make it 20" then
sets the one that is left, which the property now takes for a command of its
own, and the instance loses one.

TLC only:

* every liveness property (`CallsEnd`, `Recovers`, `DedupeReleased`): fairness
  and ENABLED are outside the prover;
* `AsIfItHadBeenClear`, `IndicatorsSpared`, `TwinsAlike`, `NothingDropped` and
  `StaysInTheRoom` of `Dialogue`: they speak about what the planner finds in a
  sentence, and the language modules are folds over sentences and label tables,
  about which nothing can be proved without induction over data. That the
  planner keeps `PlannerAssumption` is for the same reason evaluated on the
  sentences of the instance, and a premise for others;
* the four properties that are violated.

## 5. Not modelled

Of the language code: spellings that are fused ("livingroom") or only resemble
a label (fuzzy matching), articles, conditions of a command (kept by the code,
never evaluated), the toggle of a follow-up by the state of its target, all but
the last slot of a referent, and `SupplementalIntentPlanner`'s lists, timers
and automations. The order of the steps of one clause is left open. The model
was compared with the program on some 6,400 dialogue turns and 400 sentences
given to the engine, with these left out, until they agreed. The comparison
also met decisions a user would not expect but no document excludes: "is the
kitchen light at 50" sets it, "close the blinds in the garage" also closes the
garage door, and "set the lamp to 20 and the kitchen ceiling to 30" sets both
to 20.

Of the application: floors and the source label of a request, the retry of a
sound command, changes of the registries while requests run, and the header or
field the conversation key comes from. `Satellite` of `VoiceOrigin` looks up the
caller's device in one step; the searches of `home_assistant/catalog.py:138-173`
that make sure a name is unique are collapsed to it. The order of the stops is
checked for the publisher, the socket and the agents.

In `McpReconnect`, a listing that waits for the lock in `should_defer` counts as
one that has not been called yet, so `CallsEnd` is about calls from there on.

What is set by a neutral effect is not told apart from the settings a light has:
after a native effect it changes neither the colour nor the brightness.

Of the caches: the services cache, search over the states (pure) and the
normalisation in `snapshot_from_client`. A publisher whose start fails leaves
its listener on the client; it would only wake a publisher that is gone.

`NativeMusicAssistant`'s supervisor replaces a client object of the external
`music_assistant_client` library; what a running lifecycle sees of the replaced
one is state of that library and not in this repository. With it go `stop()`
and several queues in `MusicPlayback`.

Home Assistant and Music Assistant tools, search and ranking, agents, prompts,
plugins, configuration, response formatting, the benchmark, the scripts and the
earlier version of the program in `.refactor-backup` keep no state the runs
could tell apart, or are not part of the running program. Several lights or
conversations at once share only what is modelled. `_resolve_satellite_indicator`
is one light; the agent that words a speechless result is modelled by its
actions and its missing lock, not by what it says.

`Dialogue` treats the turns of a conversation one after the other, as the code
plans them; a question that is with an agent while the user answers it is in
`VoicePipeline`, where all requests have the same words. The composition of the
two, in which a late `dismiss_pending` meets a different text, is not modelled.

## 6. Plan

Done: the client with its contract, caches and publisher, voice pipeline, LEDs,
MCP recovery and music playback; memory, sounds and application; planning
session, planners and engine; the proofs of section 4, the refinement among
them. Left, most useful first:

1. `Dialogue` within `VoicePipeline`: concurrent requests with different words
   over one planning session.
2. `SupplementalIntentPlanner` (lists, timers, automations) as a further
   planner of `IntentEngine`.
3. `MusicConnection`: start, stop and supervisor of `NativeMusicAssistant`, with
   an external model of its client library, composed with `MusicPlayback`.
4. Proofs: `AsIfItHadBeenClear` from an assumption that relates the plans of
   one sentence in two catalogs, and of `NaturalPlanner` the parts of
   `PlannerAssumption` that do not need induction.
