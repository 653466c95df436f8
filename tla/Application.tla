----------------------------- MODULE Application -----------------------------
(***************************************************************************)
(* The application (intent_bridge/application.py): the lifespan that       *)
(* starts and stops the integrations, and the chat completion requests it  *)
(* serves in between, with the conversation memory and the assistant       *)
(* sounds they share.  The route pipeline is VoicePipeline; here a request *)
(* passes through it and comes out with one of its outcomes.               *)
(*                                                                         *)
(* The server accepts requests only once the startup is over and waits for *)
(* the last one before it begins the shutdown.                             *)
(***************************************************************************)
EXTENDS ConversationMemory, VoiceOrigin

CONSTANTS
  Requests,      \* one turn each
  Bodies,        \* what a request may say
  Houses,        \* the registries it may be resolved against
  Past,          \* a turn from before
  Configured,    \* the integrations the settings enable
  SoundsEnabled  \* settings.assistant.sounds_enabled

Parts == {"ws", "publisher", "music", "mcp"}
Agents == {"advanced", "informational", "fallback"}
Turns == Requests \cup {Past}
Keys == {b.key : b \in Bodies}

ASSUME ApplicationAssumption ==
  /\ Past \notin Requests
  /\ Configured \subseteq {"ws", "music", "mcp", "llm"}
  /\ SoundsEnabled \in BOOLEAN

VARIABLES
  \* the lifespan
  phase,     \* where it is
  started,   \* integrations with tasks or connections of their own
  ended,     \* those that have been told to stop
  agents,    \* runtime.*_agent
  \* the conversations
  memory,    \* conversation_memories
  told,      \* what the client of a conversation has of it
  \* Home Assistant
  house,     \* its registries
  \* the requests
  pc,        \* where chat_completions is
  body,      \* the request
  history,   \* client_history
  known,     \* what the client had been told when it sent it
  target,    \* the player of the sounds
  chime,     \* the task of the processing sound
  sounds,    \* the sounds sent for it
  outcome,   \* how the pipeline ended
  overtaken  \* its conversation was reset while it was under way

lifespan == <<phase, started, ended, agents>>
conversations == <<memory, told>>
request == <<pc, body, history, known, target, chime, sounds, outcome,
             overtaken>>
vars == <<lifespan, conversations, house, request>>

Phases == {"ws", "music", "mcp", "agents", "serving", "stop music",
           "stop sounds", "stop publisher", "stop ws", "stop mcp", "over"}
Outcomes == {"answer", "silent", "sorry", "failed"}

Messages == Message(Turns)

\* The variables have their types; of a conversation there is one entry,
\* with no more messages than configured (conversation.py:254-327).
TypeOK ==
  /\ phase \in Phases
  /\ started \subseteq Parts /\ ended \subseteq Parts
  /\ agents \subseteq Agents
  /\ memory \in Seq(Entry(Keys, Messages))
  /\ \A i, j \in DOMAIN memory : memory[i].key = memory[j].key => i = j
  /\ \A i \in DOMAIN memory : Len(memory[i].messages) <= 2 * HistoryTurns
  /\ told \in [Keys -> Seq(Messages)]
  /\ house \in Houses
  /\ pc \in [Requests -> {"idle", "begin", "run", "agent", "cancel", "finish",
                           "done"}]
  /\ body \in [Requests -> Bodies]
  /\ history \in [Requests -> Seq(Messages)]
  /\ known \in [Requests -> SUBSET Turns]
  /\ target \in [Requests ->
                   (UNION {DOMAIN h.entities : h \in Houses}) \cup {Nothing}]
  /\ chime \in [Requests -> {"none", "delay", "wait", "sent", "cancelled",
                              "over"}]
  /\ sounds \in [Requests -> Seq({"processing", "success", "error"})]
  /\ outcome \in [Requests -> Outcomes]
  /\ overtaken \in [Requests -> BOOLEAN]

\* One conversation has had a turn; a request that has not come in yet has
\* any values.
Init ==
  /\ phase = "ws" /\ started = {} /\ ended = {} /\ agents = {}
  /\ \E k \in Keys :
       LET turn == <<[turn |-> Past, role |-> "user"],
                     [turn |-> Past, role |-> "assistant"]>>
       IN  /\ memory = Remember(<<>>, k, Past)
           /\ told = [c \in Keys |-> IF c = k THEN turn ELSE <<>>]
  /\ house \in Houses
  /\ pc = [r \in Requests |-> "idle"]
  /\ body = [r \in Requests |-> CHOOSE b \in Bodies : TRUE]
  /\ history = [r \in Requests |-> <<>>]
  /\ known = [r \in Requests |-> {}]
  /\ target = [r \in Requests |-> Nothing]
  /\ chime = [r \in Requests |-> "none"]
  /\ sounds = [r \in Requests |-> <<>>]
  /\ outcome = [r \in Requests |-> "answer"]
  /\ overtaken = [r \in Requests |-> FALSE]

-----------------------------------------------------------------------------
(* Startup.                                                                *)

\* The client is kept whether or not it connects in time (its supervisor
\* goes on trying); a publisher is started on a connected client only, and
\* kept once its first copy is published.
StartHomeAssistant ==
  /\ phase = "ws"
  /\ started' \in {{}, {"ws"}, {"ws", "publisher"}}
  /\ ("ws" \in started') <=> ("ws" \in Configured)
  /\ phase' = "music"
  /\ UNCHANGED <<ended, agents, conversations, house, request>>

\* Not in time is good enough: the supervisor goes on trying.
StartMusicAssistant ==
  /\ phase = "music"
  /\ started' = started \cup (IF "llm" \in Configured
                              THEN Configured \cap {"music"} ELSE {})
  /\ phase' = "mcp"
  /\ UNCHANGED <<ended, agents, conversations, house, request>>

\* With servers to connect, the manager is kept even if its entry fails; the
\* specialist is made if its server is active.
StartMcp ==
  /\ phase = "mcp"
  /\ IF {"llm", "mcp"} \subseteq Configured
     THEN /\ started' = started \cup {"mcp"}
          /\ agents' \in {{}, {"advanced"}}
     ELSE UNCHANGED <<started, agents>>
  /\ phase' = "agents"
  /\ UNCHANGED <<ended, conversations, house, request>>

\* Both agents are made, or none.
StartAgents ==
  /\ phase = "agents"
  /\ \/ /\ "llm" \in Configured
        /\ agents' = agents \cup {"informational", "fallback"}
     \/ UNCHANGED agents
  /\ phase' = "serving"
  /\ UNCHANGED <<started, ended, conversations, house, request>>

-----------------------------------------------------------------------------
(* Requests (chat_completions).                                            *)

UnderWay(r) == pc[r] \notin {"idle", "done"}

\* Mutant: a reset keeps the history the request brought along.
ReceiveKeeping(r, b) ==
  /\ phase = "serving" /\ pc[r] = "idle"
  /\ pc' = [pc EXCEPT ![r] = "begin"]
  /\ body' = [body EXCEPT ![r] = b]
  /\ history' = [history EXCEPT ![r] =
                   IF b.sends THEN ClientHistory(told[b.key]) ELSE <<>>]
  /\ known' = [known EXCEPT ![r] = {m.turn : m \in ToSet(told[b.key])}]
  /\ IF b.reset
     THEN /\ told' = [told EXCEPT ![b.key] = <<>>]
          /\ overtaken' = [o \in Requests |->
                             \/ overtaken[o]
                             \/ body[o].key = b.key /\ UnderWay(o)]
     ELSE UNCHANGED <<told, overtaken>>
  /\ UNCHANGED <<lifespan, memory, house, target, chime, sounds, outcome>>

\* A request comes in, with the client's transcript or without; one that
\* resets the conversation is taken to have none, and its client starts a
\* new transcript.
Receive(r, b) ==
  /\ phase = "serving" /\ pc[r] = "idle"
  /\ pc' = [pc EXCEPT ![r] = "begin"]
  /\ body' = [body EXCEPT ![r] = b]
  /\ history' = [history EXCEPT ![r] =
                   IF b.sends /\ ~b.reset THEN ClientHistory(told[b.key])
                   ELSE <<>>]
  /\ known' = [known EXCEPT ![r] = {m.turn : m \in ToSet(told[b.key])}]
  /\ IF b.reset
     THEN /\ told' = [told EXCEPT ![b.key] = <<>>]
          /\ overtaken' = [o \in Requests |->
                             \/ overtaken[o]
                             \/ body[o].key = b.key /\ UnderWay(o)]
     ELSE UNCHANGED <<told, overtaken>>
  /\ UNCHANGED <<lifespan, memory, house, target, chime, sounds, outcome>>

\* The registries resolve the origin, or their refresh fails and it stays as
\* said; then they give the player.
Target(b) ==
  LET said == Said(b)
  IN  IF ~(SoundsEnabled /\ "ws" \in started /\ Located(said)) THEN {Nothing}
      ELSE {SoundTarget(house, ResolveOrigin(house, said)),
            SoundTarget(house, said), Nothing}

\* Both are known: the task of the processing sound is started, the
\* conversation is cleared if that was asked, and the pipeline gets the
\* request, without yielding.
Begin(r) ==
  /\ pc[r] = "begin"
  /\ \E p \in Target(body[r]) : target' = [target EXCEPT ![r] = p]
  /\ chime' = [chime EXCEPT ![r] = "delay"]
  /\ memory' = IF body[r].reset THEN Clear(memory, body[r].key) ELSE memory
  /\ pc' = [pc EXCEPT ![r] = "run"]
  /\ UNCHANGED <<lifespan, told, house, body, history, known, sounds, outcome,
                 overtaken>>

\* An agent's route begins, the informational one or after it the fallback:
\* the client's history replaces what is stored, or that is read.
AskAgent(r) ==
  /\ pc[r] \in {"run", "agent"} /\ agents \cap {"informational", "fallback"} # {}
  /\ pc' = [pc EXCEPT ![r] = "agent"]
  /\ memory' = IF history[r] # <<>>
               THEN Seed(memory, body[r].key, history[r])
               ELSE AfterRead(memory)
  /\ UNCHANGED <<lifespan, told, house, body, history, known, target, chime,
                 sounds, outcome, overtaken>>

\* Mutant: the processing sound is left to its own.
ConcludeUncancelled(r) ==
  /\ pc[r] \in {"run", "agent"}
  /\ outcome' \in {[outcome EXCEPT ![r] = o] : o \in Outcomes}
  /\ pc' = [pc EXCEPT ![r] = "cancel"]
  /\ UNCHANGED <<lifespan, conversations, house, body, history, known, target,
                 chime, sounds, overtaken>>

\* The pipeline answers, in words or with nothing to say, gives its error
\* response, or raises; the processing sound is cancelled.
Conclude(r) ==
  /\ pc[r] \in {"run", "agent"}
  /\ outcome' \in {[outcome EXCEPT ![r] = o] : o \in Outcomes}
  /\ chime' = [chime EXCEPT ![r] = IF @ = "over" THEN @ ELSE "cancelled"]
  /\ pc' = [pc EXCEPT ![r] = "cancel"]
  /\ UNCHANGED <<lifespan, conversations, house, body, history, known, target,
                 sounds, overtaken>>

\* An answer in words needs no sound.
OutcomeSound(r) ==
  CASE outcome[r] = "answer" -> {}
    [] outcome[r] = "silent" -> {"success"}
    [] outcome[r] \in {"sorry", "failed"} -> {"error"}

\* The cancelled task is awaited; then the outcome has its sound, unless
\* there is no player or the connection fails.
OutcomeChime(r) ==
  /\ pc[r] = "cancel" /\ chime[r] = "over"
  /\ \/ /\ target[r] # Nothing
        /\ \E s \in OutcomeSound(r) :
             sounds' = [sounds EXCEPT ![r] = Append(@, s)]
     \/ UNCHANGED sounds
  /\ pc' = [pc EXCEPT ![r] = "finish"]
  /\ UNCHANGED <<lifespan, conversations, house, body, history, known, target,
                 chime, outcome, overtaken>>

\* What the client's transcript gains: a message without text is left out.
ToldOf(r) ==
  IF outcome[r] \in (IF SoundsEnabled THEN {"answer"} ELSE {"answer", "sorry"})
  THEN <<[turn |-> r, role |-> "user"], [turn |-> r, role |-> "assistant"]>>
  ELSE <<[turn |-> r, role |-> "user"]>>

\* The turn is stored, on top of the client's history if there is one, and
\* answered; a pipeline that raised has its error returned instead.
Finish(r) ==
  /\ pc[r] = "finish"
  /\ LET k == body[r].key
     IN  /\ memory' = IF outcome[r] = "failed" THEN memory
                      ELSE AfterRead(Remember(Seed(memory, k, history[r]), k, r))
         /\ told' = [told EXCEPT ![k] = @ \o ToldOf(r)]
  /\ pc' = [pc EXCEPT ![r] = "done"]
  /\ outcome' = [outcome EXCEPT ![r] = "answer"]
  /\ UNCHANGED <<lifespan, house, body, history, known, target, chime, sounds,
                 overtaken>>

\* An entry expires, and every older one with it.
Expire ==
  /\ phase = "serving"
  /\ \E n \in DOMAIN memory : ~memory[n].expired /\ memory' = Age(memory, n)
  /\ UNCHANGED <<lifespan, told, house, request>>

-----------------------------------------------------------------------------
(* The task of the processing sound.                                       *)

ChimeUnchanged == UNCHANGED <<lifespan, conversations, house, pc, body, history,
                              known, target, outcome, overtaken>>

\* The delay is over: with a player, the connection is awaited.
ChimeDue(r) ==
  /\ chime[r] = "delay"
  /\ chime' = [chime EXCEPT ![r] = IF target[r] = Nothing THEN "over" ELSE "wait"]
  /\ UNCHANGED sounds /\ ChimeUnchanged

ChimeSend(r) ==
  /\ chime[r] = "wait"
  /\ chime' = [chime EXCEPT ![r] = "sent"]
  /\ sounds' = [sounds EXCEPT ![r] = Append(@, "processing")]
  /\ ChimeUnchanged

\* The reply, an error, or the end of a cancelled task.
ChimeOver(r) ==
  /\ chime[r] \in {"wait", "sent", "cancelled"}
  /\ chime' = [chime EXCEPT ![r] = "over"]
  /\ UNCHANGED sounds /\ ChimeUnchanged

-----------------------------------------------------------------------------
(* Shutdown.                                                               *)

Stopped(part, next) ==
  /\ ended' = ended \cup (started \cap {part})
  /\ phase' = next
  /\ UNCHANGED <<started, conversations, house, request>>

\* The server has no request left: the agents go, at once.
StopAgents ==
  /\ phase = "serving" /\ \A r \in Requests : ~UnderWay(r)
  /\ agents' = {}
  /\ phase' = "stop music"
  /\ UNCHANGED <<started, ended, conversations, house, request>>

\* Mutant: a stop that fails ends the shutdown.
StopMusicOrFail ==
  /\ phase = "stop music"
  /\ \E next \in {"stop sounds", "over"} : Stopped("music", next)
  /\ UNCHANGED agents

\* Each of the following is asked to stop if it was started; its error is
\* logged and the shutdown goes on.
StopMusic ==
  phase = "stop music" /\ Stopped("music", "stop sounds") /\ UNCHANGED agents

\* The processing sounds that are left are cancelled and awaited.
StopSounds ==
  /\ phase = "stop sounds"
  /\ chime' = [r \in Requests |->
                 IF chime[r] = "none" THEN "none" ELSE "over"]
  /\ phase' = "stop publisher"
  /\ UNCHANGED <<started, ended, agents, conversations, house, pc, body,
                 history, known, target, sounds, outcome, overtaken>>

StopPublisher ==
  /\ phase = "stop publisher" /\ Stopped("publisher", "stop ws")
  /\ UNCHANGED agents

StopHomeAssistant ==
  phase = "stop ws" /\ Stopped("ws", "stop mcp") /\ UNCHANGED agents

StopMcp == phase = "stop mcp" /\ Stopped("mcp", "over") /\ UNCHANGED agents

-----------------------------------------------------------------------------
Serve(r) ==
  \/ \E b \in Bodies : Receive(r, b)
  \/ Begin(r) \/ AskAgent(r) \/ Conclude(r) \/ OutcomeChime(r) \/ Finish(r)
  \/ ChimeDue(r) \/ ChimeSend(r) \/ ChimeOver(r)

Next ==
  \/ StartHomeAssistant \/ StartMusicAssistant \/ StartMcp \/ StartAgents
  \/ \E r \in Requests : Serve(r)
  \/ Expire
  \/ StopAgents \/ StopMusic \/ StopSounds \/ StopPublisher
  \/ StopHomeAssistant \/ StopMcp

Spec == Init /\ [][Next]_vars

-----------------------------------------------------------------------------
(* Properties.                                                             *)

TurnsOf(messages) == {m.turn : m \in ToSet(messages)}

\* A conversation that was reset stays without what was said before, unless
\* a request that brought it along was under way at the reset
\* (application.py:507-509, 560-562; llm.py:40-42).
ResetSticks ==
  \A r \in Requests :
    body[r].reset /\ pc[r] \notin {"idle", "begin"} =>
      \A t \in TurnsOf(Stored(memory, body[r].key)) \cap known[r] :
        \E o \in Requests :
          /\ overtaken[o] /\ body[o].key = body[r].key
          /\ t \in TurnsOf(history[o]) \cup {o}

\* A conversation that is neither reset, expired nor evicted keeps its turns
\* until later ones need the room, whatever requests are answered meanwhile.
\* Only the history a request brought along can make it lose the turn: one
\* from before the turn was answered, or one long enough to fill the room
\* (application.py:560-562, llm.py:40-42).
TurnsKept ==
  [][\A k \in Keys :
       LET before == Newest(Stored(Prune(memory), k), 2 * (HistoryTurns - 1))
           after == Stored(memory', k)
       IN  after # <<>> =>
             \A t \in TurnsOf(before) \ TurnsOf(after) :
               \E r \in Requests :
                 /\ UnderWay(r) /\ body[r].key = k /\ history[r] # <<>>
                 /\ \/ t \notin known[r]
                    \/ Len(history[r]) > 2 * (HistoryTurns - 1)]_vars

\* A processing sound goes out only while its request is being processed, so
\* never over or after the sound of its outcome (feedback.py:77-81,
\* 104-121), whenever the delay, the connection and the pipeline end.
SoundOrder ==
  [][\A r \in Requests :
       sounds'[r] # sounds[r] /\ sounds'[r][Len(sounds'[r])] = "processing"
         => pc[r] \in {"run", "agent"}]_vars

\* No room is linked to another by the devices of satellites and players.
RoomsApart ==
  \A s \in Of(house, "assist_satellite"), p \in Of(house, "media_player") :
    house.entities[p].device \in
        DOMAIN Distance(house, house.entities[s].device)
      => AreaOf(house, s) = AreaOf(house, p)

\* Where links between devices stay within a room, nobody is played sounds
\* in another room than the one the calling device is in or the request
\* names (README.md:169-170), however much of it Home Assistant knows.
CallersRoom ==
  [][\A r \in Requests :
       sounds'[r] # sounds[r] /\ RoomsApart =>
         LET origin == ResolveOrigin(house, Said(body[r]))
         IN  \/ AreaOf(house, target[r]) = origin.area
             \/ \E e \in DOMAIN house.entities :
                  /\ origin.device # Nothing
                  /\ house.entities[e].device = origin.device
                  /\ AreaOf(house, e) = AreaOf(house, target[r])]_vars

\* The shutdown reaches everything that was started although a stop may
\* fail, and takes nothing away from those that use it: no agent is left
\* once its tools go, no publisher once its client goes (application.py:
\* 296-347).
OrderlyShutdown ==
  /\ phase = "over" => /\ ended = started
                      /\ \A r \in Requests : chime[r] \in {"none", "over"}
  /\ agents # {} => ended = {}
  /\ "publisher" \in started \ ended => "ws" \notin ended
=============================================================================
