------------------------- MODULE ApplicationProofs -------------------------
(***************************************************************************)
(* Theorems about Application for any requests, bodies and houses:         *)
(*   1. the order of the shutdown and of the sounds (IInv);                *)
(*   2. lemmas about the conversation memory (ConversationMemory);         *)
(*   3. lemmas about where a request was spoken (VoiceOrigin);             *)
(*   4. the data of the conversations (DataInvs), what a reset keeps away, *)
(*      in which room sounds are played and which turns a conversation     *)
(*      keeps.                                                             *)
(***************************************************************************)
EXTENDS Application, SequenceTheorems, FiniteSetTheorems, TLAPS

(* The inductive invariant, part by part.                                  *)

\* The variables the theorems are about have their types.
Typed ==
  /\ phase \in Phases
  /\ started \subseteq Parts /\ ended \subseteq started
  /\ agents \subseteq Agents
  /\ pc \in [Requests -> {"idle", "begin", "run", "agent", "cancel", "finish",
                           "done"}]
  /\ chime \in [Requests -> {"none", "delay", "wait", "sent", "cancelled",
                              "over"}]
  /\ sounds \in [Requests -> Seq({"processing", "success", "error"})]
  /\ outcome \in [Requests -> Outcomes]

\* What has been told to stop, by the phase of the shutdown.
StoppedBy(p) ==
  CASE p = "stop sounds" -> {"music"}
    [] p = "stop publisher" -> {"music"}
    [] p = "stop ws" -> {"music", "publisher"}
    [] p = "stop mcp" -> {"music", "publisher", "ws"}
    [] p = "over" -> Parts
    [] OTHER -> {}

\* The shutdown is as far as its phase says.
PhaseInv ==
  /\ ended = started \cap StoppedBy(phase)
  /\ phase \in {"stop music", "stop sounds", "stop publisher", "stop ws",
                "stop mcp", "over"} => agents = {}

\* The processing sound of a request is waited for while it is processed
\* only, and of none once the sounds are stopped.
ChimeInv ==
  /\ \A r \in Requests :
       /\ chime[r] = "wait" => pc[r] \in {"run", "agent"}
       /\ chime[r] = "delay" => pc[r] \in {"run", "agent"}
       /\ pc[r] \in {"idle", "begin"} => chime[r] = "none"
  /\ phase \in {"stop publisher", "stop ws", "stop mcp", "over"}
       => \A r \in Requests : /\ chime[r] \in {"none", "over"}
                              /\ pc[r] \in {"idle", "done"}
  /\ phase \in {"stop music", "stop sounds"}
       => \A r \in Requests : pc[r] \in {"idle", "done"}
  /\ phase \in {"ws", "music", "mcp", "agents"}
       => \A r \in Requests : pc[r] = "idle"

IInv == Typed /\ PhaseInv /\ ChimeInv

-----------------------------------------------------------------------------

\* A sound more for one request.
LEMMA SoundAdded ==
  ASSUME NEW S, NEW f \in [Requests -> Seq(S)], NEW r \in Requests, NEW s \in S
  PROVE  [f EXCEPT ![r] = Append(@, s)] \in [Requests -> Seq(S)]
<1>1. Append(f[r], s) \in Seq(S)
  OBVIOUS
<1>. QED
  BY <1>1

\* Every step keeps these variables in their types, and stops only what was
\* started.
LEMMA TypedStep ==
  ASSUME Typed, PhaseInv, [Next]_vars
  PROVE  Typed'
<1>. USE ApplicationAssumption DEF Typed, Phases, Parts, Agents, Outcomes, vars, lifespan, conversations, request
<1>1. ASSUME NEW r \in Requests, NEW b \in Bodies, Receive(r, b) PROVE Typed'
  BY <1>1 DEF Receive
<1>2. ASSUME NEW r \in Requests, Begin(r) PROVE Typed'
  BY <1>2 DEF Begin
<1>3. ASSUME NEW r \in Requests, AskAgent(r) PROVE Typed'
  BY <1>3 DEF AskAgent
<1>4. ASSUME NEW r \in Requests, Conclude(r) PROVE Typed'
  BY <1>4 DEF Conclude
<1>5. ASSUME NEW r \in Requests, OutcomeChime(r) PROVE Typed'
  <2>1. OutcomeSound(r) \subseteq {"processing", "success", "error"}
    BY DEF OutcomeSound
  <2>2. ASSUME NEW s \in OutcomeSound(r), sounds' = [sounds EXCEPT ![r] = Append(@, s)]
        PROVE  sounds' \in [Requests -> Seq({"processing", "success", "error"})]
    BY <2>1, <2>2, SoundAdded
  <2>3. sounds' \in [Requests -> Seq({"processing", "success", "error"})]
    BY <1>5, <2>2 DEF OutcomeChime
  <2>. QED
    BY <1>5, <2>3 DEF OutcomeChime
<1>6. ASSUME NEW r \in Requests, Finish(r) PROVE Typed'
  BY <1>6 DEF Finish
<1>7. ASSUME NEW r \in Requests, ChimeDue(r) PROVE Typed'
  BY <1>7 DEF ChimeDue, ChimeUnchanged
<1>8. ASSUME NEW r \in Requests, ChimeSend(r) PROVE Typed'
  <2>1. sounds' \in [Requests -> Seq({"processing", "success", "error"})]
    BY <1>8, SoundAdded DEF ChimeSend
  <2>. QED
    BY <1>8, <2>1 DEF ChimeSend, ChimeUnchanged
<1>9. ASSUME NEW r \in Requests, ChimeOver(r) PROVE Typed'
  BY <1>9 DEF ChimeOver, ChimeUnchanged
<1>10. CASE StartHomeAssistant
  BY <1>10 DEF StartHomeAssistant, PhaseInv, StoppedBy
<1>11. CASE StartMusicAssistant
  BY <1>11 DEF StartMusicAssistant, PhaseInv, StoppedBy
<1>12. CASE StartMcp
  BY <1>12 DEF StartMcp, PhaseInv, StoppedBy
<1>13. CASE StartAgents
  BY <1>13 DEF StartAgents
<1>14. CASE Expire
  BY <1>14 DEF Expire
<1>15. CASE StopAgents
  BY <1>15 DEF StopAgents, UnderWay
<1>16. CASE StopMusic
  BY <1>16 DEF StopMusic, Stopped
<1>17. CASE StopSounds
  BY <1>17 DEF StopSounds
<1>18. CASE StopPublisher
  BY <1>18 DEF StopPublisher, Stopped
<1>19. CASE StopHomeAssistant
  BY <1>19 DEF StopHomeAssistant, Stopped
<1>20. CASE StopMcp
  BY <1>20 DEF StopMcp, Stopped
<1>21. CASE UNCHANGED vars
  BY <1>21
<1>. QED
  BY <1>1, <1>2, <1>3, <1>4, <1>5, <1>6, <1>7, <1>8, <1>9, <1>10, <1>11, <1>12, <1>13, <1>14, <1>15, <1>16, <1>17, <1>18, <1>19, <1>20, <1>21
  DEF Next, Serve

\* Every step keeps what was stopped in line with the phase.
LEMMA PhaseStep ==
  ASSUME Typed, PhaseInv, [Next]_vars
  PROVE  PhaseInv'
<1>. USE DEF Typed, PhaseInv, StoppedBy, Phases, Parts, Agents, vars, lifespan, conversations, request
<1>1. ASSUME NEW r \in Requests, NEW b \in Bodies, Receive(r, b) PROVE PhaseInv'
  BY <1>1 DEF Receive
<1>2. ASSUME NEW r \in Requests, Begin(r) PROVE PhaseInv'
  BY <1>2 DEF Begin
<1>3. ASSUME NEW r \in Requests, AskAgent(r) PROVE PhaseInv'
  BY <1>3 DEF AskAgent
<1>4. ASSUME NEW r \in Requests, Conclude(r) PROVE PhaseInv'
  BY <1>4 DEF Conclude
<1>5. ASSUME NEW r \in Requests, OutcomeChime(r) PROVE PhaseInv'
  BY <1>5 DEF OutcomeChime, OutcomeSound
<1>6. ASSUME NEW r \in Requests, Finish(r) PROVE PhaseInv'
  BY <1>6 DEF Finish
<1>7. ASSUME NEW r \in Requests, ChimeDue(r) PROVE PhaseInv'
  BY <1>7 DEF ChimeDue, ChimeUnchanged
<1>8. ASSUME NEW r \in Requests, ChimeSend(r) PROVE PhaseInv'
  BY <1>8 DEF ChimeSend, ChimeUnchanged
<1>9. ASSUME NEW r \in Requests, ChimeOver(r) PROVE PhaseInv'
  BY <1>9 DEF ChimeOver, ChimeUnchanged
<1>10. CASE StartHomeAssistant
  BY <1>10 DEF StartHomeAssistant
<1>11. CASE StartMusicAssistant
  BY <1>11 DEF StartMusicAssistant
<1>12. CASE StartMcp
  BY <1>12 DEF StartMcp
<1>13. CASE StartAgents
  BY <1>13 DEF StartAgents
<1>14. CASE Expire
  BY <1>14 DEF Expire
<1>15. CASE StopAgents
  BY <1>15 DEF StopAgents, UnderWay
<1>16. CASE StopMusic
  BY <1>16 DEF StopMusic, Stopped
<1>17. CASE StopSounds
  BY <1>17 DEF StopSounds
<1>18. CASE StopPublisher
  BY <1>18 DEF StopPublisher, Stopped
<1>19. CASE StopHomeAssistant
  BY <1>19 DEF StopHomeAssistant, Stopped
<1>20. CASE StopMcp
  BY <1>20 DEF StopMcp, Stopped
<1>21. CASE UNCHANGED vars
  BY <1>21
<1>. QED
  BY <1>1, <1>2, <1>3, <1>4, <1>5, <1>6, <1>7, <1>8, <1>9, <1>10, <1>11, <1>12, <1>13, <1>14, <1>15, <1>16, <1>17, <1>18, <1>19, <1>20, <1>21
  DEF Next, Serve

\* Every step keeps the processing sounds in line with the requests.
LEMMA ChimeStep ==
  ASSUME Typed, ChimeInv, [Next]_vars
  PROVE  ChimeInv'
<1>. USE DEF Typed, ChimeInv, Phases, vars, lifespan, conversations, request
<1>1. ASSUME NEW r \in Requests, NEW b \in Bodies, Receive(r, b) PROVE ChimeInv'
  BY <1>1 DEF Receive
<1>2. ASSUME NEW r \in Requests, Begin(r) PROVE ChimeInv'
  BY <1>2 DEF Begin
<1>3. ASSUME NEW r \in Requests, AskAgent(r) PROVE ChimeInv'
  BY <1>3 DEF AskAgent
<1>4. ASSUME NEW r \in Requests, Conclude(r) PROVE ChimeInv'
  BY <1>4 DEF Conclude
<1>5. ASSUME NEW r \in Requests, OutcomeChime(r) PROVE ChimeInv'
  BY <1>5 DEF OutcomeChime, OutcomeSound
<1>6. ASSUME NEW r \in Requests, Finish(r) PROVE ChimeInv'
  BY <1>6 DEF Finish
<1>7. ASSUME NEW r \in Requests, ChimeDue(r) PROVE ChimeInv'
  BY <1>7 DEF ChimeDue, ChimeUnchanged
<1>8. ASSUME NEW r \in Requests, ChimeSend(r) PROVE ChimeInv'
  BY <1>8 DEF ChimeSend, ChimeUnchanged
<1>9. ASSUME NEW r \in Requests, ChimeOver(r) PROVE ChimeInv'
  BY <1>9 DEF ChimeOver, ChimeUnchanged
<1>10. CASE StartHomeAssistant
  BY <1>10 DEF StartHomeAssistant
<1>11. CASE StartMusicAssistant
  BY <1>11 DEF StartMusicAssistant
<1>12. CASE StartMcp
  BY <1>12 DEF StartMcp
<1>13. CASE StartAgents
  BY <1>13 DEF StartAgents
<1>14. CASE Expire
  BY <1>14 DEF Expire
<1>15. CASE StopAgents
  BY <1>15 DEF StopAgents, UnderWay
<1>16. CASE StopMusic
  BY <1>16 DEF StopMusic, Stopped
<1>17. CASE StopSounds
  BY <1>17 DEF StopSounds
<1>18. CASE StopPublisher
  BY <1>18 DEF StopPublisher, Stopped
<1>19. CASE StopHomeAssistant
  BY <1>19 DEF StopHomeAssistant, Stopped
<1>20. CASE StopMcp
  BY <1>20 DEF StopMcp, Stopped
<1>21. CASE UNCHANGED vars
  BY <1>21
<1>. QED
  BY <1>1, <1>2, <1>3, <1>4, <1>5, <1>6, <1>7, <1>8, <1>9, <1>10, <1>11, <1>12, <1>13, <1>14, <1>15, <1>16, <1>17, <1>18, <1>19, <1>20, <1>21
  DEF Next, Serve

-----------------------------------------------------------------------------

\* Phases, stops and processing sounds are in line in every reachable state.
THEOREM Inductive == Spec => []IInv
<1>1. Init => IInv
  BY DEF Init, IInv, Typed, PhaseInv, StoppedBy, ChimeInv, Phases, Parts, Agents, Outcomes
<1>2. IInv /\ [Next]_vars => IInv'
  BY TypedStep, PhaseStep, ChimeStep DEF IInv
<1>. QED
  BY <1>1, <1>2, PTL DEF Spec

\* Whatever was started and whichever stop fails, the shutdown reaches all of
\* it, users before what they use (application.py:296-347).
THEOREM ShutdownIsOrderly == Spec => []OrderlyShutdown
<1>1. IInv => OrderlyShutdown
  BY DEF IInv, Typed, PhaseInv, StoppedBy, ChimeInv, OrderlyShutdown, Phases, Parts
<1>. QED
  BY <1>1, Inductive, PTL

\* A processing sound goes out only while its request is processed, however
\* many requests there are (feedback.py:77-81, 104-121).
THEOREM SoundsInOrder == Spec => SoundOrder
<1>. DEFINE Ordered == \A r \in Requests :
        sounds'[r] # sounds[r] /\ sounds'[r][Len(sounds'[r])] = "processing"
          => pc[r] \in {"run", "agent"}
<1>1. ASSUME IInv, [Next]_vars PROVE Ordered
  <2>1. ASSUME UNCHANGED sounds PROVE Ordered
    BY <2>1
  <2>2. ASSUME NEW r \in Requests, ChimeSend(r) PROVE Ordered
    BY <1>1, <2>2 DEF ChimeSend, IInv, Typed, ChimeInv
  <2>3. ASSUME NEW r \in Requests, OutcomeChime(r) PROVE Ordered
    <3>1. CASE UNCHANGED sounds
      BY <3>1
    <3>2. ASSUME NEW s \in OutcomeSound(r), sounds' = [sounds EXCEPT ![r] = Append(@, s)]
          PROVE  Ordered
      <4>1. s \in {"success", "error"}
        BY <1>1, <3>2 DEF OutcomeSound, IInv, Typed, Outcomes
      <4>. QED
        BY <1>1, <3>2, <4>1 DEF IInv, Typed
    <3>. QED
      BY <2>3, <3>1, <3>2 DEF OutcomeChime
  <2>4. ASSUME NEW r \in Requests, ChimeDue(r) \/ ChimeOver(r) PROVE Ordered
    BY <2>4, <2>1 DEF ChimeDue, ChimeOver
  <2>5. ASSUME NEW r \in Requests, NEW b \in Bodies, Receive(r, b) PROVE Ordered
    BY <2>5, <2>1 DEF Receive
  <2>6. ASSUME NEW r \in Requests,
               Begin(r) \/ AskAgent(r) \/ Conclude(r) \/ Finish(r)
        PROVE  Ordered
    BY <2>6, <2>1 DEF Begin, AskAgent, Conclude, Finish
  <2>7. CASE \/ StartHomeAssistant \/ StartMusicAssistant \/ StartMcp \/ StartAgents
             \/ Expire \/ StopAgents \/ StopMusic \/ StopSounds \/ StopPublisher
             \/ StopHomeAssistant \/ StopMcp \/ UNCHANGED vars
    BY <2>7, <2>1
    DEF StartHomeAssistant, StartMusicAssistant, StartMcp, StartAgents, Expire,
        StopAgents, StopMusic, StopSounds, StopPublisher, StopHomeAssistant,
        StopMcp, Stopped, vars, request
  <2>. QED
    BY <1>1, <2>2, <2>3, <2>4, <2>5, <2>6, <2>7 DEF Next, Serve
<1>. QED
  BY <1>1, Inductive, PTL DEF SoundOrder, Spec

-----------------------------------------------------------------------------
(* The conversation memory.                                                *)

\* What TypeOK says of a memory.
IsMemory(m) ==
  /\ m \in Seq(Entry(Keys, Messages))
  /\ \A i, j \in DOMAIN m : m[i].key = m[j].key => i = j
  /\ \A i \in DOMAIN m : Len(m[i].messages) <= 2 * HistoryTurns

\* The newest of a sequence are what is left of it without its first d.
LEMMA NewestIs ==
  ASSUME NEW S, NEW s \in Seq(S), NEW n \in Nat
  PROVE  /\ Newest(s, n) \in Seq(S) /\ Len(Newest(s, n)) <= n
         /\ \E d \in 0 .. Len(s) :
              /\ Len(Newest(s, n)) = Len(s) - d
              /\ d = 0 \/ Len(Newest(s, n)) = n
              /\ \A i \in 1 .. Len(s) - d : Newest(s, n)[i] = s[i + d]
<1>. DEFINE d == IF Len(s) > n THEN Len(s) - n ELSE 0
            w == SubSeq(s, d + 1, Len(s))
<1>1. Len(s) \in Nat /\ \A i \in 1 .. Len(s) : s[i] \in S
  BY LenProperties, ElementOfSeq
<1>2. /\ d \in 0 .. Len(s) /\ Len(s) - d <= n
      /\ d = 0 \/ Len(s) - d = n
  BY <1>1
<1>3. Newest(s, n) = w
  BY <1>1 DEF Newest
<1>. HIDE DEF d
<1>4. /\ d + 1 \in Int /\ Len(s) \in Int
      /\ \A i \in d + 1 .. Len(s) : s[i] \in S
  BY <1>1, <1>2
<1>5. /\ w \in Seq(S)
      /\ Len(w) = IF d + 1 <= Len(s) THEN Len(s) - (d + 1) + 1 ELSE 0
      /\ \A i \in 1 .. Len(s) - (d + 1) + 1 : w[i] = s[d + 1 + i - 1]
  BY <1>4, SubSeqProperties
<1>. HIDE DEF w
<1>6. Len(w) = Len(s) - d
  BY <1>1, <1>2, <1>5
<1>7. \A i \in 1 .. Len(s) - d : w[i] = s[i + d]
  <2>. TAKE i \in 1 .. Len(s) - d
  <2>1. i \in 1 .. Len(s) - (d + 1) + 1 /\ d + 1 + i - 1 = i + d
    BY <1>1, <1>2
  <2>. QED
    BY <1>5, <2>1
<1>. QED
  BY <1>2, <1>3, <1>5, <1>6, <1>7

\* The entry of a conversation is what it has stored.
LEMMA StoredIs ==
  ASSUME NEW m, IsMemory(m), NEW k
  PROVE  /\ \A i \in DOMAIN m : m[i].key = k => Stored(m, k) = m[i].messages
         /\ (\A i \in DOMAIN m : m[i].key # k) => Stored(m, k) = <<>>
<1>1. ASSUME NEW i \in DOMAIN m, m[i].key = k
      PROVE  Stored(m, k) = m[i].messages
  <2>1. Places(m, k) = {i}
    BY <1>1 DEF IsMemory, Places
  <2>. QED
    BY <2>1 DEF Stored
<1>2. ASSUME \A i \in DOMAIN m : m[i].key # k PROVE Stored(m, k) = <<>>
  BY <1>2 DEF Stored, Places
<1>. QED
  BY <1>1, <1>2

\* What is stored are messages.
LEMMA StoredType ==
  ASSUME NEW m, IsMemory(m), NEW k
  PROVE  Stored(m, k) \in Seq(Messages)
<1>1. CASE \E i \in DOMAIN m : m[i].key = k
  <2>. PICK i \in DOMAIN m : m[i].key = k
    BY <1>1
  <2>1. m[i] \in Entry(Keys, Messages)
    BY ElementOfSeq, LenProperties DEF IsMemory
  <2>. QED
    BY <2>1, StoredIs DEF Entry
<1>2. CASE ~\E i \in DOMAIN m : m[i].key = k
  BY <1>2, StoredIs, EmptySeq
<1>. QED
  BY <1>1, <1>2

\* The newest entries of a memory are a memory, and have what it had or
\* nothing of a conversation.
LEMMA NewestMemory ==
  ASSUME NEW m, IsMemory(m), NEW n \in Nat
  PROVE  /\ IsMemory(Newest(m, n)) /\ Len(Newest(m, n)) <= n
         /\ \A k : Stored(Newest(m, n), k) \in {Stored(m, k), <<>>}
<1>. DEFINE w == Newest(m, n)
            E == Entry(Keys, Messages)
<1>1. m \in Seq(E)
  BY DEF IsMemory
<1>2. w \in Seq(E) /\ Len(w) <= n
  BY <1>1, NewestIs
<1>3. PICK d \in 0 .. Len(m) :
        Len(w) = Len(m) - d /\ \A i \in 1 .. Len(m) - d : w[i] = m[i + d]
  BY <1>1, NewestIs
<1>4. DOMAIN m = 1 .. Len(m) /\ DOMAIN w = 1 .. Len(w) /\ Len(m) \in Nat
  BY <1>1, <1>2, LenProperties
<1>. HIDE DEF w, E
<1>5. \A i \in DOMAIN w : i \in Int /\ i + d \in DOMAIN m /\ w[i] = m[i + d]
  BY <1>3, <1>4
<1>6. IsMemory(w)
  <2>1. \A i, j \in DOMAIN w : w[i].key = w[j].key => i = j
    <3>. SUFFICES ASSUME NEW i \in DOMAIN w, NEW j \in DOMAIN w, w[i].key = w[j].key
                  PROVE  i = j
      OBVIOUS
    <3>1. i + d = j + d
      BY <1>5 DEF IsMemory
    <3>. QED
      BY <1>5, <3>1
  <2>2. \A i \in DOMAIN w : Len(w[i].messages) <= 2 * HistoryTurns
    BY <1>5 DEF IsMemory
  <2>. QED
    BY <1>2, <2>1, <2>2 DEF IsMemory, E
<1>7. ASSUME NEW k PROVE Stored(w, k) \in {Stored(m, k), <<>>}
  <2>1. CASE \E i \in DOMAIN w : w[i].key = k
    <3>. PICK i \in DOMAIN w : w[i].key = k
      BY <2>1
    <3>. QED
      BY <1>5, <1>6, StoredIs
  <2>2. CASE ~\E i \in DOMAIN w : w[i].key = k
    BY <1>6, <2>2, StoredIs
  <2>. QED
    BY <2>1, <2>2
<1>. QED
  BY <1>2, <1>6, <1>7 DEF w

\* Pruning leaves a memory within its limit.
LEMMA PruneIs ==
  ASSUME NEW m, IsMemory(m)
  PROVE  /\ IsMemory(Prune(m)) /\ Len(Prune(m)) <= MaxSessions
         /\ \A k : Stored(Prune(m), k) \in {Stored(m, k), <<>>}
<1>. DEFINE live == {i \in DOMAIN m : ~m[i].expired}
            n == Cardinality(live)
<1>1. DOMAIN m = 1 .. Len(m) /\ Len(m) \in Nat
  BY LenProperties DEF IsMemory
<1>2. n \in Nat
  <2>1. IsFiniteSet(DOMAIN m)
    BY <1>1, FS_Interval
  <2>2. live \in SUBSET DOMAIN m
    OBVIOUS
  <2>3. IsFiniteSet(live)
    BY <2>1, <2>2, FS_Subset
  <2>. QED
    BY <2>3, FS_CardinalityType
<1>3. Live(m) = Newest(m, n)
  BY DEF Live
<1>. HIDE DEF n
<1>4. IsMemory(Live(m)) /\ \A k : Stored(Live(m), k) \in {Stored(m, k), <<>>}
  BY <1>2, <1>3, NewestMemory
<1>. QED
  BY <1>4, NewestMemory, MemoryAssumption DEF Prune

\* One element less.
LEMMA RemoveAtIs ==
  ASSUME NEW S, NEW s \in Seq(S), NEW p \in 1 .. Len(s)
  PROVE  /\ RemoveAt(s, p) \in Seq(S) /\ Len(RemoveAt(s, p)) = Len(s) - 1
         /\ \A i \in 1 .. Len(s) - 1 :
              RemoveAt(s, p)[i] = IF i < p THEN s[i] ELSE s[i + 1]
<1>. DEFINE a == SubSeq(s, 1, p - 1)
            b == SubSeq(s, p + 1, Len(s))
<1>1. Len(s) \in Nat /\ p \in Nat /\ \A i \in 1 .. Len(s) : s[i] \in S
  BY LenProperties, ElementOfSeq
<1>2. /\ a \in Seq(S)
      /\ Len(a) = IF 1 <= p - 1 THEN p - 1 - 1 + 1 ELSE 0
      /\ \A i \in 1 .. p - 1 - 1 + 1 : a[i] = s[1 + i - 1]
  <2>1. p - 1 \in Int /\ \A i \in 1 .. p - 1 : s[i] \in S
    BY <1>1
  <2>. QED
    BY <2>1, SubSeqProperties
<1>3. /\ b \in Seq(S)
      /\ Len(b) = IF p + 1 <= Len(s) THEN Len(s) - (p + 1) + 1 ELSE 0
      /\ \A i \in 1 .. Len(s) - (p + 1) + 1 : b[i] = s[p + 1 + i - 1]
  <2>1. p + 1 \in Int /\ Len(s) \in Int /\ \A i \in p + 1 .. Len(s) : s[i] \in S
    BY <1>1
  <2>. QED
    BY <2>1, SubSeqProperties
<1>. HIDE DEF a, b
<1>4. Len(a) = p - 1 /\ Len(b) = Len(s) - p
  BY <1>1, <1>2, <1>3
<1>5. /\ a \o b \in Seq(S) /\ Len(a \o b) = Len(a) + Len(b)
      /\ \A i \in 1 .. Len(a) + Len(b) :
           (a \o b)[i] = IF i <= Len(a) THEN a[i] ELSE b[i - Len(a)]
  BY <1>2, <1>3, ConcatProperties
<1>6. RemoveAt(s, p) = a \o b
  BY DEF RemoveAt, a, b
<1>7. ASSUME NEW i \in 1 .. Len(s) - 1
      PROVE  (a \o b)[i] = IF i < p THEN s[i] ELSE s[i + 1]
  <2>1. i \in 1 .. Len(a) + Len(b) /\ i \in Int
    BY <1>1, <1>4
  <2>2. CASE i < p
    <3>1. i \in 1 .. p - 1 - 1 + 1 /\ 1 + i - 1 = i /\ i <= Len(a)
      BY <1>1, <1>4, <2>1, <2>2
    <3>. QED
      BY <1>2, <1>5, <2>1, <2>2, <3>1
  <2>3. CASE ~(i < p)
    <3>1. /\ i - (p - 1) \in 1 .. Len(s) - (p + 1) + 1
          /\ p + 1 + (i - (p - 1)) - 1 = i + 1 /\ ~(i <= Len(a))
      BY <1>1, <1>4, <2>1, <2>3
    <3>2. (a \o b)[i] = b[i - (p - 1)]
      BY <1>4, <1>5, <2>1, <3>1
    <3>3. b[i - (p - 1)] = s[i + 1]
      BY <1>3, <3>1
    <3>. QED
      BY <2>3, <3>2, <3>3
  <2>. QED
    BY <2>2, <2>3
<1>8. Len(a) + Len(b) = Len(s) - 1
  BY <1>1, <1>4
<1>. QED
  BY <1>5, <1>6, <1>7, <1>8

\* Without a conversation the memory keeps the others.
LEMMA WithoutIs ==
  ASSUME NEW m, IsMemory(m), NEW k
  PROVE  /\ IsMemory(Without(m, k)) /\ Len(Without(m, k)) <= Len(m)
         /\ \A i \in DOMAIN Without(m, k) : Without(m, k)[i].key # k
         /\ \A c : c # k => Stored(Without(m, k), c) = Stored(m, c)
<1>. DEFINE w == Without(m, k)
            E == Entry(Keys, Messages)
<1>1. m \in Seq(E) /\ DOMAIN m = 1 .. Len(m) /\ Len(m) \in Nat
  BY LenProperties DEF IsMemory
<1>2. CASE Places(m, k) = {}
  <2>1. w = m
    BY <1>2 DEF Without
  <2>. QED
    BY <1>1, <1>2, <2>1 DEF Places
<1>3. CASE Places(m, k) # {}
  <2>1. PICK p \in DOMAIN m : m[p].key = k
    BY <1>3 DEF Places
  <2>2. Places(m, k) = {p}
    BY <2>1 DEF Places, IsMemory
  <2>3. w = RemoveAt(m, p)
    BY <2>2 DEF Without
  <2>4. p \in 1 .. Len(m)
    BY <1>1
  <2>. HIDE DEF w, E
  <2>5. /\ w \in Seq(E) /\ Len(w) = Len(m) - 1
        /\ \A i \in 1 .. Len(m) - 1 : w[i] = IF i < p THEN m[i] ELSE m[i + 1]
    BY <1>1, <2>3, <2>4, RemoveAtIs
  <2>6. DOMAIN w = 1 .. Len(m) - 1
    BY <2>5, LenProperties
  <2>. DEFINE at(i) == IF i < p THEN i ELSE i + 1
  <2>7. \A i \in DOMAIN w : at(i) \in DOMAIN m /\ w[i] = m[at(i)] /\ at(i) # p
    BY <1>1, <2>4, <2>5, <2>6
  <2>8. \A i, j \in DOMAIN w : at(i) = at(j) => i = j
    BY <1>1, <2>4, <2>6
  <2>9. \A j \in DOMAIN m : j # p => \E i \in DOMAIN w : at(i) = j
    <3>. SUFFICES ASSUME NEW j \in DOMAIN m, j # p
                  PROVE  \E i \in DOMAIN w : at(i) = j
      OBVIOUS
    <3>1. CASE j < p
      BY <1>1, <2>4, <2>6, <3>1
    <3>2. CASE ~(j < p)
      <4>1. j - 1 \in DOMAIN w /\ at(j - 1) = j
        BY <1>1, <2>4, <2>6, <3>2
      <4>. QED
        BY <4>1
    <3>. QED
      BY <3>1, <3>2
  <2>. HIDE DEF at
  <2>10. IsMemory(w)
    <3>1. \A i, j \in DOMAIN w : w[i].key = w[j].key => i = j
      BY <2>7, <2>8 DEF IsMemory
    <3>. QED
      BY <2>5, <2>7, <3>1 DEF IsMemory, E
  <2>11. \A i \in DOMAIN w : w[i].key # k
    BY <2>1, <2>7 DEF IsMemory
  <2>12. ASSUME NEW c, c # k PROVE Stored(w, c) = Stored(m, c)
    <3>1. CASE \E i \in DOMAIN w : w[i].key = c
      BY <2>7, <2>10, <3>1, StoredIs
    <3>2. CASE ~\E i \in DOMAIN w : w[i].key = c
      <4>1. \A j \in DOMAIN m : m[j].key # c
        BY <2>1, <2>7, <2>9, <2>12, <3>2
      <4>. QED
        BY <2>10, <3>2, <4>1, StoredIs
    <3>. QED
      BY <3>1, <3>2
  <2>. QED
    BY <1>1, <2>5, <2>10, <2>11, <2>12 DEF w
<1>. QED
  BY <1>2, <1>3

\* A conversation that is cleared has nothing stored.
LEMMA ClearIs ==
  ASSUME NEW m, IsMemory(m), NEW k
  PROVE  /\ IsMemory(Clear(m, k)) /\ Len(Clear(m, k)) <= Len(m)
         /\ Stored(Clear(m, k), k) = <<>>
         /\ \A c : c # k => Stored(Clear(m, k), c) = Stored(m, c)
  BY WithoutIs, StoredIs DEF Clear

\* What is put is stored up to its limit, the other conversations stay.
LEMMA PutIs ==
  ASSUME NEW m, IsMemory(m), NEW k \in Keys, NEW messages \in Seq(Messages)
  PROVE  /\ IsMemory(Put(m, k, messages))
         /\ Len(Put(m, k, messages)) <= Len(m) + 1
         /\ Stored(Put(m, k, messages), k) = Window(messages)
         /\ \A c : c # k => Stored(Put(m, k, messages), c) = Stored(m, c)
<1>. DEFINE w == Without(m, k)
            e == [key |-> k, messages |-> Window(messages), expired |-> FALSE]
            p == Append(w, e)
            E == Entry(Keys, Messages)
<1>1. /\ IsMemory(w) /\ Len(w) <= Len(m)
      /\ \A i \in DOMAIN w : w[i].key # k
      /\ \A c : c # k => Stored(w, c) = Stored(m, c)
  BY WithoutIs
<1>2. Window(messages) \in Seq(Messages) /\ Len(Window(messages)) <= 2 * HistoryTurns
  <2>1. 2 * HistoryTurns \in Nat
    BY MemoryAssumption
  <2>. QED
    BY <2>1, NewestIs DEF Window
<1>3. e \in E /\ e.key = k /\ e.messages = Window(messages)
  BY <1>2 DEF Entry
<1>4. w \in Seq(E) /\ Len(m) \in Nat
  BY <1>1, LenProperties DEF IsMemory
<1>5. Put(m, k, messages) = p
  BY DEF Put
<1>. HIDE DEF w, e, E
<1>6. /\ p \in Seq(E) /\ Len(p) = Len(w) + 1
      /\ \A i \in 1 .. Len(w) : p[i] = w[i]
      /\ p[Len(w) + 1] = e
  BY <1>3, <1>4, AppendProperties
<1>7. /\ DOMAIN w = 1 .. Len(w) /\ DOMAIN p = 1 .. Len(w) + 1 /\ Len(w) \in Nat
  BY <1>4, <1>6, LenProperties
<1>. HIDE DEF p
<1>8. \A i \in DOMAIN p :
        \/ i \in DOMAIN w /\ p[i] = w[i]
        \/ i = Len(w) + 1 /\ p[i] = e
  BY <1>6, <1>7
<1>9. IsMemory(p)
  <2>1. \A i, j \in DOMAIN p : p[i].key = p[j].key => i = j
    BY <1>1, <1>3, <1>8 DEF IsMemory
  <2>2. \A i \in DOMAIN p : Len(p[i].messages) <= 2 * HistoryTurns
    BY <1>1, <1>2, <1>3, <1>8 DEF IsMemory
  <2>. QED
    BY <1>6, <2>1, <2>2 DEF IsMemory, E
<1>10. Stored(p, k) = Window(messages)
  <2>1. Len(w) + 1 \in DOMAIN p
    BY <1>7
  <2>. QED
    BY <1>3, <1>6, <1>9, <2>1, StoredIs
<1>11. ASSUME NEW c, c # k PROVE Stored(p, c) = Stored(w, c)
  <2>1. CASE \E i \in DOMAIN w : w[i].key = c
    <3>. PICK i \in DOMAIN w : w[i].key = c
      BY <2>1
    <3>1. i \in DOMAIN p /\ p[i] = w[i]
      BY <1>6, <1>7
    <3>. QED
      BY <1>1, <1>9, <3>1, StoredIs
  <2>2. CASE ~\E i \in DOMAIN w : w[i].key = c
    BY <1>1, <1>3, <1>8, <1>9, <1>11, <2>2, StoredIs
  <2>. QED
    BY <2>1, <2>2
<1>12. Len(p) <= Len(m) + 1
  BY <1>1, <1>4, <1>6, <1>7
<1>13. \A c : c # k => Stored(p, c) = Stored(m, c)
  BY <1>1, <1>11
<1>. QED
  BY <1>5, <1>9, <1>10, <1>12, <1>13

\* A history that was brought along replaces what is stored.
LEMMA SeedIs ==
  ASSUME NEW m, IsMemory(m), Len(m) <= MaxSessions + 1,
         NEW k \in Keys, NEW messages \in Seq(Messages)
  PROVE  /\ IsMemory(Seed(m, k, messages)) /\ Len(Seed(m, k, messages)) <= MaxSessions + 1
         /\ \/ Seed(m, k, messages) = m /\ (messages = <<>> \/ ~MemoryEnabled)
            \/ /\ messages # <<>> /\ MemoryEnabled
               /\ Stored(Seed(m, k, messages), k) = Window(messages)
         /\ \A c : c # k => Stored(Seed(m, k, messages), c) \in {Stored(m, c), <<>>}
<1>1. CASE ~MemoryEnabled \/ messages = <<>>
  BY <1>1 DEF Seed
<1>2. CASE ~(~MemoryEnabled \/ messages = <<>>)
  <2>. DEFINE p == Prune(m)
  <2>1. IsMemory(p) /\ Len(p) <= MaxSessions /\ \A c : Stored(p, c) \in {Stored(m, c), <<>>}
    BY PruneIs
  <2>2. Len(p) \in Nat
    BY <2>1, LenProperties DEF IsMemory
  <2>3. Seed(m, k, messages) = Put(p, k, messages)
    BY <1>2 DEF Seed
  <2>. HIDE DEF p
  <2>4. /\ IsMemory(Put(p, k, messages)) /\ Len(Put(p, k, messages)) <= Len(p) + 1
        /\ Stored(Put(p, k, messages), k) = Window(messages)
        /\ \A c : c # k => Stored(Put(p, k, messages), c) = Stored(p, c)
    BY <2>1, PutIs
  <2>5. Put(p, k, messages) \in Seq(Entry(Keys, Messages))
    BY <2>4 DEF IsMemory
  <2>6. Len(Put(p, k, messages)) \in Nat
    BY <2>5, LenProperties
  <2>7. Len(Put(p, k, messages)) <= MaxSessions + 1
    BY <2>1, <2>2, <2>4, <2>6, MemoryAssumption
  <2>. QED
    BY <1>2, <2>1, <2>3, <2>4, <2>7
<1>. QED
  BY <1>1, <1>2

\* The two messages of a turn.
Exchange(turn) ==
  <<[turn |-> turn, role |-> "user"], [turn |-> turn, role |-> "assistant"]>>

\* It is two messages.
LEMMA ExchangeIs ==
  ASSUME NEW turn \in Turns
  PROVE  Exchange(turn) \in Seq(Messages) /\ Len(Exchange(turn)) = 2
  BY DEF Exchange, Messages, Message

\* A turn is added to what is stored.
LEMMA RememberIs ==
  ASSUME NEW m, IsMemory(m), Len(m) <= MaxSessions + 1,
         NEW k \in Keys, NEW turn \in Turns
  PROVE  /\ IsMemory(Remember(m, k, turn)) /\ Len(Remember(m, k, turn)) <= MaxSessions + 1
         /\ \/ Remember(m, k, turn) = m /\ ~MemoryEnabled
            \/ /\ MemoryEnabled
               /\ Stored(Remember(m, k, turn), k)
                    = Window(Stored(Prune(m), k) \o Exchange(turn))
         /\ \A c : c # k => Stored(Remember(m, k, turn), c) \in {Stored(m, c), <<>>}
<1>1. CASE ~MemoryEnabled
  BY <1>1 DEF Remember
<1>2. CASE MemoryEnabled
  <2>. DEFINE p == Prune(m)
              messages == Stored(p, k) \o Exchange(turn)
  <2>1. IsMemory(p) /\ Len(p) <= MaxSessions /\ \A c : Stored(p, c) \in {Stored(m, c), <<>>}
    BY PruneIs
  <2>2. Len(p) \in Nat
    BY <2>1, LenProperties DEF IsMemory
  <2>3. Remember(m, k, turn) = Put(p, k, messages)
    BY <1>2 DEF Remember, Exchange
  <2>. HIDE DEF p
  <2>4. messages \in Seq(Messages)
    <3>1. Stored(p, k) \in Seq(Messages) /\ Exchange(turn) \in Seq(Messages)
      BY <2>1, StoredType, ExchangeIs
    <3>. HIDE DEF messages
    <3>2. messages = Stored(p, k) \o Exchange(turn)
      BY DEF messages
    <3>. QED
      BY <3>1, <3>2
  <2>. HIDE DEF messages
  <2>5. /\ IsMemory(Put(p, k, messages)) /\ Len(Put(p, k, messages)) <= Len(p) + 1
        /\ Stored(Put(p, k, messages), k) = Window(messages)
        /\ \A c : c # k => Stored(Put(p, k, messages), c) = Stored(p, c)
    BY <2>1, <2>4, PutIs
  <2>6. Stored(Remember(m, k, turn), k) = Window(Stored(p, k) \o Exchange(turn))
    BY <2>3, <2>5 DEF messages
  <2>7. Len(Put(p, k, messages)) \in Nat
    BY <2>5, LenProperties DEF IsMemory
  <2>8. Len(Put(p, k, messages)) <= MaxSessions + 1
    BY <2>1, <2>2, <2>5, <2>7, MemoryAssumption
  <2>. QED
    BY <1>2, <2>1, <2>3, <2>5, <2>6, <2>8 DEF p
<1>. QED
  BY <1>1, <1>2, MemoryAssumption

\* Reading prunes.
LEMMA AfterReadIs ==
  ASSUME NEW m, IsMemory(m), Len(m) <= MaxSessions + 1
  PROVE  /\ IsMemory(AfterRead(m)) /\ Len(AfterRead(m)) <= MaxSessions + 1
         /\ \A c : Stored(AfterRead(m), c) \in {Stored(m, c), <<>>}
<1>1. Len(Prune(m)) \in Nat
  BY PruneIs, LenProperties DEF IsMemory
<1>2. Len(Prune(m)) <= MaxSessions + 1
  BY <1>1, PruneIs, MemoryAssumption
<1>. QED
  BY <1>2, PruneIs DEF AfterRead

\* Time passes and changes nothing else.
LEMMA AgeIs ==
  ASSUME NEW m, IsMemory(m), NEW n \in DOMAIN m
  PROVE  /\ IsMemory(Age(m, n)) /\ Len(Age(m, n)) = Len(m)
         /\ \A c : Stored(Age(m, n), c) = Stored(m, c)
<1>. DEFINE E == Entry(Keys, Messages)
            a == Age(m, n)
<1>1. m \in Seq(E) /\ DOMAIN m = 1 .. Len(m) /\ Len(m) \in Nat /\ n \in Nat
  BY LenProperties DEF IsMemory
<1>2. ASSUME NEW i \in DOMAIN m
      PROVE  /\ [m[i] EXCEPT !.expired = @ \/ i <= n] \in E
             /\ [m[i] EXCEPT !.expired = @ \/ i <= n].key = m[i].key
             /\ [m[i] EXCEPT !.expired = @ \/ i <= n].messages = m[i].messages
  <2>1. m[i] \in E
    BY <1>1, ElementOfSeq
  <2>. QED
    BY <2>1 DEF Entry
<1>3. /\ a \in Seq(E) /\ DOMAIN a = DOMAIN m /\ Len(a) = Len(m)
      /\ \A i \in DOMAIN m : a[i].key = m[i].key /\ a[i].messages = m[i].messages
  <2>1. a = [i \in 1 .. Len(m) |-> [m[i] EXCEPT !.expired = @ \/ i <= n]]
    BY <1>1 DEF Age
  <2>. HIDE DEF a, E
  <2>2. a \in [1 .. Len(m) -> E]
    BY <1>1, <1>2, <2>1
  <2>3. a \in Seq(E) /\ Len(a) = Len(m)
    BY <1>1, <2>2
  <2>4. ASSUME NEW i \in DOMAIN m
        PROVE  a[i].key = m[i].key /\ a[i].messages = m[i].messages
    <3>1. a[i] = [m[i] EXCEPT !.expired = @ \/ i <= n]
      BY <1>1, <2>1
    <3>. QED
      BY <1>2, <3>1
  <2>. QED
    BY <1>1, <2>2, <2>3, <2>4
<1>. HIDE DEF a, E
<1>4. IsMemory(a)
  BY <1>3 DEF IsMemory, E
<1>5. ASSUME NEW c PROVE Stored(a, c) = Stored(m, c)
  <2>1. CASE \E i \in DOMAIN m : m[i].key = c
    BY <1>3, <1>4, <2>1, StoredIs
  <2>2. CASE ~\E i \in DOMAIN m : m[i].key = c
    BY <1>3, <1>4, <2>2, StoredIs
  <2>. QED
    BY <2>1, <2>2
<1>. QED
  BY <1>3, <1>4, <1>5 DEF a

\* The last element stays when the newest are kept.
LEMMA LastStays ==
  ASSUME NEW S, NEW s \in Seq(S), Len(s) # 0, NEW n \in Nat \ {0}
  PROVE  /\ Len(Newest(s, n)) # 0
         /\ Newest(s, n)[Len(Newest(s, n))] = s[Len(s)]
<1>1. PICK d \in 0 .. Len(s) :
        /\ Len(Newest(s, n)) = Len(s) - d
        /\ d = 0 \/ Len(Newest(s, n)) = n
        /\ \A i \in 1 .. Len(s) - d : Newest(s, n)[i] = s[i + d]
  BY NewestIs
<1>2. Len(s) \in Nat
  BY LenProperties
<1>3. Len(s) - d \in 1 .. Len(s) - d /\ Len(s) - d + d = Len(s) /\ Len(s) - d # 0
  BY <1>1, <1>2
<1>. QED
  BY <1>1, <1>3

\* What has just been put is not pruned.
LEMMA PutSurvives ==
  ASSUME NEW m, IsMemory(m), NEW k \in Keys, NEW messages \in Seq(Messages)
  PROVE  Stored(Prune(Put(m, k, messages)), k) = Window(messages)
<1>. DEFINE e == [key |-> k, messages |-> Window(messages), expired |-> FALSE]
            p == Put(m, k, messages)
            live == {i \in DOMAIN p : ~p[i].expired}
            n == Cardinality(live)
            E == Entry(Keys, Messages)
<1>1. IsMemory(p) /\ IsMemory(Prune(p))
  BY PutIs, PruneIs
<1>2. p = Append(Without(m, k), e)
  BY DEF Put
<1>3. Without(m, k) \in Seq(E) /\ Window(messages) \in Seq(Messages)
  <2>1. 2 * HistoryTurns \in Nat
    BY MemoryAssumption
  <2>. QED
    BY <2>1, WithoutIs, NewestIs DEF IsMemory, Window
<1>4. e \in E /\ e.key = k /\ e.messages = Window(messages) /\ ~e.expired
  BY <1>3 DEF Entry
<1>. HIDE DEF e, E
<1>5. Len(p) = Len(Without(m, k)) + 1 /\ p[Len(Without(m, k)) + 1] = e
  BY <1>2, <1>3, <1>4, AppendProperties
<1>. HIDE DEF p
<1>6. p \in Seq(E) /\ DOMAIN p = 1 .. Len(p) /\ Len(p) \in Nat /\ Len(p) # 0 /\ p[Len(p)] = e
  <2>1. Len(Without(m, k)) \in Nat
    BY <1>3, LenProperties
  <2>2. p \in Seq(E)
    BY <1>1 DEF IsMemory, E
  <2>3. DOMAIN p = 1 .. Len(p)
    BY <2>2, LenProperties
  <2>. QED
    BY <1>5, <2>1, <2>2, <2>3
<1>7. n \in Nat \ {0}
  <2>1. IsFiniteSet(DOMAIN p)
    BY <1>6, FS_Interval
  <2>2. live \in SUBSET DOMAIN p
    OBVIOUS
  <2>3. IsFiniteSet(live)
    BY <2>1, <2>2, FS_Subset
  <2>4. live # {}
    <3>1. Len(p) \in live
      BY <1>4, <1>6
    <3>. QED
      BY <3>1
  <2>. HIDE DEF live
  <2>. QED
    BY <2>3, <2>4, FS_CardinalityType, FS_EmptySet
<1>. DEFINE l == Newest(p, n)
<1>8. Live(p) = l
  BY DEF Live
<1>. HIDE DEF n
<1>9. l \in Seq(E) /\ Len(l) # 0 /\ l[Len(l)] = e
  BY <1>6, <1>7, NewestIs, LastStays
<1>. DEFINE q == Prune(p)
<1>10. q = Newest(l, MaxSessions) /\ MaxSessions \in Nat \ {0}
  BY <1>8, MemoryAssumption DEF Prune
<1>. HIDE DEF l, q
<1>11. q \in Seq(E) /\ Len(q) # 0 /\ q[Len(q)] = e
  BY <1>9, <1>10, NewestIs, LastStays
<1>12. Len(q) \in DOMAIN q
  <2>1. DOMAIN q = 1 .. Len(q) /\ Len(q) \in Nat
    BY <1>11, LenProperties
  <2>. QED
    BY <1>11, <2>1
<1>13. IsMemory(q)
  BY <1>1 DEF q
<1>14. Stored(q, k) = Window(messages)
  BY <1>4, <1>11, <1>12, <1>13, StoredIs
<1>. QED
  BY <1>14 DEF q, p

-----------------------------------------------------------------------------
(* The turns of messages.                                                  *)

LEMMA TurnsOfIs ==
  ASSUME NEW s \in Seq(Messages)
  PROVE  /\ TurnsOf(s) \subseteq Turns
         /\ TurnsOf(s) = {s[i].turn : i \in 1 .. Len(s)}
<1>1. \A i \in DOMAIN s : s[i] \in Messages
  BY ElementOfSeq, LenProperties
<1>2. DOMAIN s = 1 .. Len(s)
  BY LenProperties
<1>. QED
  BY <1>1, <1>2 DEF TurnsOf, ToSet, Messages, Message

\* The turns of the newest messages are turns of all of them, and all of
\* these if they are fewer than asked for.
LEMMA NewestTurns ==
  ASSUME NEW s \in Seq(Messages), NEW n \in Nat
  PROVE  /\ TurnsOf(Newest(s, n)) \subseteq TurnsOf(s)
         /\ Len(Newest(s, n)) = n \/ Newest(s, n) = s
<1>1. /\ Newest(s, n) \in Seq(Messages)
      /\ \E d \in 0 .. Len(s) :
           /\ Len(Newest(s, n)) = Len(s) - d
           /\ d = 0 \/ Len(Newest(s, n)) = n
           /\ \A i \in 1 .. Len(s) - d : Newest(s, n)[i] = s[i + d]
  BY NewestIs
<1>2. PICK d \in 0 .. Len(s) :
        /\ Len(Newest(s, n)) = Len(s) - d
        /\ d = 0 \/ Len(Newest(s, n)) = n
        /\ \A i \in 1 .. Len(s) - d : Newest(s, n)[i] = s[i + d]
  BY <1>1
<1>3. Len(s) \in Nat
  BY LenProperties
<1>4. \A i \in 1 .. Len(Newest(s, n)) : i + d \in 1 .. Len(s)
  BY <1>2, <1>3
<1>5. TurnsOf(Newest(s, n)) \subseteq TurnsOf(s)
  <2>1. \A i \in 1 .. Len(Newest(s, n)) : Newest(s, n)[i].turn \in TurnsOf(s)
    BY <1>2, <1>4, TurnsOfIs
  <2>2. TurnsOf(Newest(s, n)) = {Newest(s, n)[i].turn : i \in 1 .. Len(Newest(s, n))}
    BY <1>1, TurnsOfIs
  <2>. QED
    BY <2>1, <2>2
<1>6. CASE d = 0
  <2>1. Len(Newest(s, n)) = Len(s) /\ \A i \in 1 .. Len(s) : Newest(s, n)[i] = s[i]
    BY <1>2, <1>3, <1>6
  <2>2. Newest(s, n) = s
    BY <1>1, <2>1, SeqEqual
  <2>. QED
    BY <1>5, <2>2
<1>. QED
  BY <1>2, <1>5, <1>6

\* The turns of messages and others after them.
LEMMA ConcatTurns ==
  ASSUME NEW s \in Seq(Messages), NEW t \in Seq(Messages)
  PROVE  s \o t \in Seq(Messages) /\ TurnsOf(s \o t) = TurnsOf(s) \cup TurnsOf(t)
<1>1. /\ s \o t \in Seq(Messages) /\ Len(s \o t) = Len(s) + Len(t)
      /\ \A i \in 1 .. Len(s) + Len(t) :
           (s \o t)[i] = IF i <= Len(s) THEN s[i] ELSE t[i - Len(s)]
  BY ConcatProperties
<1>2. Len(s) \in Nat /\ Len(t) \in Nat
  BY LenProperties
<1>3. TurnsOf(s \o t) = {(s \o t)[i].turn : i \in 1 .. Len(s) + Len(t)}
  BY <1>1, TurnsOfIs
<1>4. ASSUME NEW i \in 1 .. Len(s) PROVE i \in 1 .. Len(s) + Len(t) /\ (s \o t)[i] = s[i]
  BY <1>1, <1>2
<1>5. ASSUME NEW i \in 1 .. Len(t)
      PROVE  i + Len(s) \in 1 .. Len(s) + Len(t) /\ (s \o t)[i + Len(s)] = t[i]
  <2>1. i + Len(s) \in 1 .. Len(s) + Len(t) /\ ~(i + Len(s) <= Len(s)) /\ i + Len(s) - Len(s) = i
    BY <1>2
  <2>. QED
    BY <1>1, <2>1
<1>6. TurnsOf(s) \cup TurnsOf(t) \subseteq TurnsOf(s \o t)
  <2>1. \A i \in 1 .. Len(s) : s[i].turn \in TurnsOf(s \o t)
    BY <1>3, <1>4
  <2>2. \A i \in 1 .. Len(t) : t[i].turn \in TurnsOf(s \o t)
    BY <1>3, <1>5
  <2>. QED
    BY <2>1, <2>2, TurnsOfIs
<1>7. ASSUME NEW i \in 1 .. Len(s) + Len(t)
      PROVE  (s \o t)[i].turn \in TurnsOf(s) \cup TurnsOf(t)
  <2>1. CASE i <= Len(s)
    <3>1. i \in 1 .. Len(s) /\ (s \o t)[i] = s[i]
      BY <1>1, <1>2, <2>1
    <3>. QED
      BY <3>1, TurnsOfIs
  <2>2. CASE ~(i <= Len(s))
    <3>1. i - Len(s) \in 1 .. Len(t) /\ (s \o t)[i] = t[i - Len(s)]
      BY <1>1, <1>2, <2>2
    <3>. QED
      BY <3>1, TurnsOfIs
  <2>. QED
    BY <2>1, <2>2
<1>. QED
  BY <1>1, <1>3, <1>6, <1>7

\* Two messages more leave room for two less of the others.
LEMMA NewestAfterTwo ==
  ASSUME NEW s \in Seq(Messages), NEW t \in Seq(Messages), Len(t) = 2, NEW n \in Nat
  PROVE  TurnsOf(Newest(s, n)) \subseteq TurnsOf(Newest(s \o t, n + 2))
<1>. DEFINE u == s \o t
            a == Newest(s, n)
            k == n + 2
            b == Newest(u, k)
<1>1. /\ u \in Seq(Messages) /\ Len(u) = Len(s) + 2
      /\ \A i \in 1 .. Len(s) + 2 :
           u[i] = IF i <= Len(s) THEN s[i] ELSE t[i - Len(s)]
  BY ConcatProperties
<1>2. Len(s) \in Nat /\ k \in Nat /\ k = n + 2
  BY LenProperties
<1>. HIDE DEF u, k
<1>3. a \in Seq(Messages) /\ b \in Seq(Messages)
  BY <1>1, <1>2, NewestIs
<1>4. PICK d \in 0 .. Len(s) :
        /\ Len(a) = Len(s) - d
        /\ d = 0 \/ Len(a) = n
        /\ \A i \in 1 .. Len(s) - d : a[i] = s[i + d]
  BY NewestIs
<1>5. PICK c \in 0 .. Len(u) :
        /\ Len(b) = Len(u) - c
        /\ c = 0 \/ Len(b) = k
        /\ \A i \in 1 .. Len(u) - c : b[i] = u[i + c]
  <2>1. u \in Seq(Messages) /\ k \in Nat
    BY <1>1, <1>2
  <2>. QED
    BY <2>1, NewestIs
<1>6. Len(a) <= n
  BY NewestIs
<1>. HIDE DEF a, b
<1>7. c <= d
  BY <1>1, <1>2, <1>4, <1>5, <1>6
<1>8. ASSUME NEW i \in 1 .. Len(a) PROVE a[i].turn \in TurnsOf(b)
  <2>1. i + d \in 1 .. Len(s) /\ a[i] = s[i + d]
    BY <1>2, <1>4
  <2>2. /\ i + d - c \in 1 .. Len(u) - c /\ i + d - c \in 1 .. Len(b)
        /\ i + d - c + c = i + d /\ i + d \in 1 .. Len(s) + 2 /\ i + d <= Len(s)
    BY <1>1, <1>2, <1>4, <1>5, <1>7, <2>1
  <2>3. b[i + d - c] = s[i + d]
    BY <1>1, <1>5, <2>2
  <2>. QED
    BY <1>3, <2>1, <2>2, <2>3, TurnsOfIs
<1>9. TurnsOf(a) = {a[i].turn : i \in 1 .. Len(a)}
  BY <1>3, TurnsOfIs
<1>. QED
  BY <1>8, <1>9 DEF a, b, u, k

\* The messages of a turn are of that turn.
LEMMA ExchangeTurns ==
  ASSUME NEW turn \in Turns
  PROVE  TurnsOf(Exchange(turn)) = {turn}
<1>1. DOMAIN Exchange(turn) = {1, 2}
  BY DEF Exchange
<1>2. Exchange(turn)[1].turn = turn /\ Exchange(turn)[2].turn = turn
  BY DEF Exchange
<1>. QED
  BY <1>1, <1>2 DEF TurnsOf, ToSet

\* What a client is told of a turn are messages of that turn.
LEMMA ToldOfIs ==
  ASSUME NEW r \in Requests
  PROVE  ToldOf(r) \in Seq(Messages) /\ TurnsOf(ToldOf(r)) = {r}
<1>1. r \in Turns
  BY DEF Turns
<1>2. ToldOf(r) \in {Exchange(r), <<[turn |-> r, role |-> "user"]>>}
  BY DEF ToldOf, Exchange
<1>3. CASE ToldOf(r) = Exchange(r)
  BY <1>1, <1>3, ExchangeIs, ExchangeTurns
<1>4. CASE ToldOf(r) = <<[turn |-> r, role |-> "user"]>>
  <2>1. ToldOf(r) \in Seq(Messages)
    BY <1>1, <1>4 DEF Messages, Message
  <2>2. DOMAIN ToldOf(r) = {1} /\ ToldOf(r)[1].turn = r
    BY <1>4
  <2>. QED
    BY <2>1, <2>2 DEF TurnsOf, ToSet
<1>. QED
  BY <1>2, <1>3, <1>4

-----------------------------------------------------------------------------
(* Where a request was spoken.                                             *)

\* What is the only one of a set is in it.
LEMMA SoleIs ==
  ASSUME NEW S
  PROVE  Sole(S) = Nothing \/ Sole(S) \in S
<1>1. Cardinality(S) = 1 => S # {}
  BY FS_EmptySet
<1>. QED
  BY <1>1 DEF Sole

\* An area that is found is an area of the house.
LEMMA ResolveAreaIs ==
  ASSUME NEW h, NEW area, NEW name
  PROVE  /\ area \in DOMAIN h.areas => ResolveArea(h, area, name) = area
         /\ area \notin DOMAIN h.areas /\ name = Nothing
              => ResolveArea(h, area, name) = Nothing
         /\ ResolveArea(h, area, name) \in DOMAIN h.areas \cup {Nothing}
         /\ \A other : area \notin DOMAIN h.areas /\ other \notin DOMAIN h.areas
              => ResolveArea(h, other, name) = ResolveArea(h, area, name)
<1>. DEFINE named == {a \in DOMAIN h.areas : h.areas[a] = name}
<1>1. Sole(named) = Nothing \/ Sole(named) \in named
  BY SoleIs
<1>2. \A other : ResolveArea(h, other, name) =
        IF other \in DOMAIN h.areas THEN other
        ELSE IF name = Nothing THEN Nothing ELSE Sole(named)
  BY DEF ResolveArea
<1>. QED
  BY <1>1, <1>2

\* A device that is found is a device of the house.
LEMMA ResolveDeviceIs ==
  ASSUME NEW h, NEW where
  PROVE  /\ ResolveDevice(h, where) \in DOMAIN h.devices \cup {Nothing}
         /\ where.device \in DOMAIN h.devices
              => ResolveDevice(h, where) = where.device
<1>. DEFINE named == {d \in DOMAIN h.devices : h.devices[d].name = where.deviceName}
<1>1. Sole(named) = Nothing \/ Sole(named) \in named
  BY SoleIs
<1>2. ResolveDevice(h, where) =
        IF where.device \in DOMAIN h.devices THEN where.device
        ELSE IF where.deviceName = Nothing THEN Nothing ELSE Sole(named)
  BY DEF ResolveDevice
<1>. QED
  BY <1>1, <1>2

\* An origin that is resolved again keeps its device.
LEMMA DeviceStays ==
  ASSUME NEW h, NEW where
  PROVE  LET once == ResolveOrigin(h, where)
         IN  /\ ResolveDevice(h, once) = ResolveDevice(h, where)
             /\ ResolveOrigin(h, once).device = once.device
<1>. DEFINE once == ResolveOrigin(h, where)
            device == ResolveDevice(h, where)
            again == ResolveDevice(h, once)
<1>1. /\ once.device = Given(device, where.device)
      /\ once.deviceName = IF device = Nothing THEN where.deviceName
                           ELSE h.devices[device].name
      /\ ResolveOrigin(h, once).device = Given(again, once.device)
  BY DEF ResolveOrigin
<1>. HIDE DEF once, device, again
<1>2. again = device
  <2>1. CASE device # Nothing
    <3>1. once.device = device /\ device \in DOMAIN h.devices
      BY <1>1, <2>1, ResolveDeviceIs DEF Given, device
    <3>. QED
      BY <3>1, ResolveDeviceIs DEF again
  <2>2. CASE device = Nothing
    <3>1. once.device = where.device /\ once.deviceName = where.deviceName
      BY <1>1, <2>2 DEF Given
    <3>. QED
      BY <3>1 DEF ResolveDevice, again, device
  <2>. QED
    BY <2>1, <2>2
<1>3. Given(again, once.device) = once.device
  BY <1>1, <1>2 DEF Given
<1>. QED
  BY <1>1, <1>2, <1>3 DEF once, device, again

\* The area an origin says, or that of its device or of its entities.
OwnArea(h, where) ==
  LET device == ResolveDevice(h, where)
  IN  IF where.area # Nothing \/ device = Nothing THEN where.area
      ELSE Given(h.devices[device].area,
                 Sole({h.entities[e].area :
                         e \in {x \in DOMAIN h.entities :
                                  h.entities[x].device = device
                                    /\ h.entities[x].area # Nothing}}))

\* An origin gets the area that is found for that one, and its name.
LEMMA ResolvedAreaIs ==
  ASSUME NEW h, NEW where
  PROVE  LET found == ResolveArea(h, OwnArea(h, where), where.areaName)
         IN  /\ ResolveOrigin(h, where).area = Given(found, OwnArea(h, where))
             /\ ResolveOrigin(h, where).areaName =
                  IF found # Nothing THEN h.areas[found]
                  ELSE IF OwnArea(h, where) # Nothing THEN where.areaName ELSE Nothing
  BY DEF ResolveOrigin, OwnArea

\* The area in which the satellite of an origin is looked for.
SearchedArea(h, where) ==
  ResolveArea(h, Given(where.area, ResolveOrigin(h, where).area),
              Given(where.areaName, ResolveOrigin(h, where).areaName))

\* It is the area the origin is resolved to.
LEMMA SearchedIsResolved ==
  ASSUME NEW h, NEW where, SearchedArea(h, where) # Nothing
  PROVE  SearchedArea(h, where) = ResolveOrigin(h, where).area
<1>. DEFINE r == ResolveOrigin(h, where)
            own == OwnArea(h, where)
            found == ResolveArea(h, own, where.areaName)
            name == Given(where.areaName, r.areaName)
            area == Given(where.area, r.area)
<1>1. /\ r.area = Given(found, own)
      /\ r.areaName = IF found # Nothing THEN h.areas[found]
                      ELSE IF own # Nothing THEN where.areaName ELSE Nothing
  BY ResolvedAreaIs
<1>2. SearchedArea(h, where) = ResolveArea(h, area, name)
  BY DEF SearchedArea
<1>3. where.area # Nothing => own = where.area
  BY DEF OwnArea
<1>. HIDE DEF r, own, found
<1>4. CASE area \in DOMAIN h.areas
  <2>1. SearchedArea(h, where) = area
    BY <1>2, <1>4, ResolveAreaIs
  <2>2. CASE where.area # Nothing
    <3>1. own = area /\ found = area
      BY <1>3, <1>4, <2>2, ResolveAreaIs DEF Given, found
    <3>. QED
      BY <1>1, <2>1, <2>2, <3>1 DEF Given, r
  <2>3. CASE where.area = Nothing
    BY <2>1, <2>3 DEF Given, r
  <2>. QED
    BY <2>2, <2>3
<1>5. CASE area \notin DOMAIN h.areas
  <2>1. found = Nothing => area = own
    BY <1>1, <1>3 DEF Given
  <2>2. name # Nothing
    BY <1>2, <1>5, ResolveAreaIs
  <2>3. CASE found = Nothing
    <3>1. where.areaName # Nothing
      BY <1>1, <2>2, <2>3 DEF Given
    <3>2. name = where.areaName /\ area = own
      BY <2>1, <2>3, <3>1 DEF Given
    <3>. QED
      BY <1>2, <2>3, <3>2 DEF found
  <2>4. CASE found # Nothing
    <3>1. r.area = found /\ found \in DOMAIN h.areas
      BY <1>1, <2>4, ResolveAreaIs DEF Given, found
    <3>2. area = where.area /\ where.area # Nothing /\ own = area
      BY <1>3, <1>5, <3>1 DEF Given
    <3>3. where.areaName # Nothing
      BY <1>5, <2>4, <3>2, ResolveAreaIs DEF found
    <3>4. name = where.areaName
      BY <3>3 DEF Given
    <3>. QED
      BY <1>2, <3>1, <3>2, <3>4 DEF found, r
  <2>. QED
    BY <2>3, <2>4
<1>. QED
  BY <1>4, <1>5

\* An origin that is resolved again is looked for in the area it has.
LEMMA AreaStays ==
  ASSUME NEW h, NEW where,
         SearchedArea(h, ResolveOrigin(h, where)) # Nothing
  PROVE  SearchedArea(h, ResolveOrigin(h, where)) = ResolveOrigin(h, where).area
<1>. DEFINE r == ResolveOrigin(h, where)
            own == OwnArea(h, where)
            found == ResolveArea(h, own, where.areaName)
            s == ResolveOrigin(h, r)
            ownAgain == OwnArea(h, r)
            foundAgain == ResolveArea(h, ownAgain, r.areaName)
<1>1. /\ r.area = Given(found, own)
      /\ r.areaName = IF found # Nothing THEN h.areas[found]
                      ELSE IF own # Nothing THEN where.areaName ELSE Nothing
      /\ s.area = Given(foundAgain, ownAgain)
      /\ s.areaName = IF foundAgain # Nothing THEN h.areas[foundAgain]
                      ELSE IF ownAgain # Nothing THEN r.areaName ELSE Nothing
  BY ResolvedAreaIs
<1>2. SearchedArea(h, r) = ResolveArea(h, Given(r.area, s.area), Given(r.areaName, s.areaName))
  BY DEF SearchedArea
<1>3. r.area # Nothing => ownAgain = r.area
  BY DEF OwnArea
<1>4. r.area = Nothing => ownAgain = Nothing
  <2>. SUFFICES ASSUME r.area = Nothing PROVE ownAgain = Nothing
    OBVIOUS
  <2>1. own = Nothing
    BY <1>1 DEF Given
  <2>2. ResolveDevice(h, r) = ResolveDevice(h, where)
    BY DeviceStays
  <2>3. where.area # Nothing => own = where.area
    BY DEF OwnArea
  <2>. QED
    BY <2>1, <2>2, <2>3 DEF OwnArea
<1>5. SearchedArea(h, r) # Nothing
  OBVIOUS
<1>6. SearchedArea(h, r) = s.area
  BY <1>5, SearchedIsResolved
<1>. HIDE DEF r, own, found, s, ownAgain, foundAgain
<1>7. CASE r.area \in DOMAIN h.areas
  <2>1. CASE r.area # Nothing
    <3>1. Given(r.area, s.area) = r.area
      BY <2>1 DEF Given
    <3>. QED
      BY <1>2, <1>7, <3>1, ResolveAreaIs DEF r
  <2>2. CASE r.area = Nothing
    <3>1. foundAgain = Nothing
      BY <1>4, <1>7, <2>2, ResolveAreaIs DEF foundAgain
    <3>. QED
      BY <1>1, <1>4, <1>5, <1>6, <2>2, <3>1 DEF Given
  <2>. QED
    BY <2>1, <2>2
<1>8. CASE r.area \notin DOMAIN h.areas
  <2>1. found = Nothing /\ r.area = own
    BY <1>1, <1>8, ResolveAreaIs DEF Given, found
  <2>2. foundAgain = Nothing
    <3>1. CASE own = Nothing
      <4>1. r.areaName = Nothing /\ ownAgain = Nothing
        BY <1>1, <1>4, <2>1, <3>1
      <4>. QED
        BY <1>8, <2>1, <3>1, <4>1, ResolveAreaIs DEF foundAgain
    <3>2. CASE own # Nothing
      <4>1. r.areaName = where.areaName /\ ownAgain = own
        BY <1>1, <1>3, <2>1, <3>2
      <4>. QED
        BY <2>1, <4>1 DEF foundAgain, found
    <3>. QED
      BY <3>1, <3>2
  <2>3. s.area = ownAgain /\ ownAgain = r.area
    BY <1>1, <1>3, <1>4, <2>2 DEF Given
  <2>. QED
    BY <1>6, <2>3 DEF r
<1>. QED
  BY <1>7, <1>8

\* A satellite that is found is the calling device's, or in the area in which
\* it is looked for.
LEMMA SatelliteIs ==
  ASSUME NEW h, NEW origin, Satellite(h, origin) # Nothing
  PROVE  LET s == Satellite(h, origin)
             device == ResolveOrigin(h, origin).device
         IN  /\ s \in Of(h, "assist_satellite")
             /\ \/ device # Nothing /\ h.entities[s].device = device
                \/ AreaOf(h, s) = SearchedArea(h, origin) /\ SearchedArea(h, origin) # Nothing
<1>. DEFINE device == ResolveOrigin(h, origin).device
            ofDevice == {e \in Of(h, "assist_satellite") :
                           device # Nothing /\ h.entities[e].device = device}
            found == SearchedArea(h, origin)
            there == SatellitesIn(h, found)
            s == Satellite(h, origin)
<1>1. s = IF Sole(ofDevice) # Nothing THEN Sole(ofDevice)
          ELSE IF found = Nothing THEN Nothing ELSE Sole(there)
  BY DEF Satellite, SearchedArea
<1>2. s # Nothing
  OBVIOUS
<1>. HIDE DEF s, found
<1>3. CASE Sole(ofDevice) # Nothing
  <2>1. s \in ofDevice
    BY <1>1, <1>3, SoleIs
  <2>. QED
    BY <2>1 DEF s
<1>4. CASE Sole(ofDevice) = Nothing
  <2>1. s \in there /\ found # Nothing
    BY <1>1, <1>2, <1>4, SoleIs
  <2>. QED
    BY <2>1 DEF SatellitesIn, s, found
<1>. QED
  BY <1>3, <1>4

\* A player is found near a satellite that is.
LEMMA SoundTargetIs ==
  ASSUME NEW h, NEW origin, SoundTarget(h, origin) # Nothing
  PROVE  LET s == Satellite(h, origin)
             p == SoundTarget(h, origin)
         IN  /\ s # Nothing /\ p \in Of(h, "media_player")
             /\ h.entities[p].device \in DOMAIN Distance(h, h.entities[s].device)
<1>. DEFINE s == Satellite(h, origin)
            p == SoundTarget(h, origin)
            anchor == IF s = Nothing THEN Nothing ELSE h.entities[s].device
            near == DOMAIN Distance(h, anchor)
            players == {q \in Of(h, "media_player") : h.entities[q].device \in near}
<1>1. PICK best \in SUBSET players : p = IF anchor = Nothing THEN Nothing ELSE Sole(best)
  BY DEF SoundTarget
<1>2. p # Nothing
  OBVIOUS
<1>3. p \in players /\ anchor # Nothing
  BY <1>1, <1>2, SoleIs
<1>4. s # Nothing /\ anchor = h.entities[s].device
  BY <1>3
<1>. QED
  BY <1>3, <1>4

\* A player is in the area an origin is resolved to, or in that of an entity
\* of its device.
InCallersRoom(h, where, p) ==
  LET origin == ResolveOrigin(h, where)
  IN  \/ AreaOf(h, p) = origin.area
      \/ \E e \in DOMAIN h.entities :
           /\ origin.device # Nothing
           /\ h.entities[e].device = origin.device
           /\ AreaOf(h, e) = AreaOf(h, p)

\* Where this holds, links stay within a room (RoomsApart for a house).
Apart(h) ==
  \A s \in Of(h, "assist_satellite"), p \in Of(h, "media_player") :
    h.entities[p].device \in DOMAIN Distance(h, h.entities[s].device)
      => AreaOf(h, s) = AreaOf(h, p)

\* Then the player found for an origin, resolved before or not, is in the
\* caller's room.
LEMMA PlayerIsClose ==
  ASSUME NEW h, NEW where, Apart(h),
         NEW p \in {SoundTarget(h, ResolveOrigin(h, where)), SoundTarget(h, where)},
         p # Nothing
  PROVE  InCallersRoom(h, where, p)
<1>. DEFINE once == ResolveOrigin(h, where)
<1>1. PICK origin \in {once, where} : p = SoundTarget(h, origin)
  OBVIOUS
<1>. DEFINE s == Satellite(h, origin)
<1>2. /\ s # Nothing /\ p \in Of(h, "media_player")
      /\ h.entities[p].device \in DOMAIN Distance(h, h.entities[s].device)
  BY <1>1, SoundTargetIs
<1>3. /\ s \in Of(h, "assist_satellite")
      /\ \/ /\ ResolveOrigin(h, origin).device # Nothing
            /\ h.entities[s].device = ResolveOrigin(h, origin).device
         \/ AreaOf(h, s) = SearchedArea(h, origin) /\ SearchedArea(h, origin) # Nothing
  BY <1>2, SatelliteIs
<1>. HIDE DEF s
<1>4. AreaOf(h, p) = AreaOf(h, s) /\ s \in DOMAIN h.entities
  BY <1>2, <1>3 DEF Apart, Of
<1>5. ResolveOrigin(h, origin).device = once.device
  BY DeviceStays
<1>6. SearchedArea(h, origin) # Nothing => SearchedArea(h, origin) = once.area
  BY SearchedIsResolved, AreaStays
<1>. QED
  BY <1>3, <1>4, <1>5, <1>6 DEF InCallersRoom

-----------------------------------------------------------------------------
(* The inductive invariant of the data, part by part.                      *)

\* The data of the conversations and the requests have their types.
DataInv ==
  /\ IsMemory(memory) /\ Len(memory) <= MaxSessions + 1
  /\ told \in [Keys -> Seq(Messages)]
  /\ house \in Houses
  /\ body \in [Requests -> Bodies]
  /\ history \in [Requests -> Seq(Messages)]
  /\ known \in [Requests -> SUBSET Turns]
  /\ overtaken \in [Requests -> BOOLEAN]

\* A history that was brought along has no room for more, or has all turns
\* the client knew.
HistoryInv ==
  \A r \in Requests :
    /\ Len(history[r]) <= 2 * HistoryTurns
    /\ history[r] # <<>> => \/ Len(history[r]) = 2 * HistoryTurns
                            \/ known[r] \subseteq TurnsOf(history[r])

\* A client knows turns that have been answered only.
Answered == {Past} \cup {r \in Requests : pc[r] = "done"}

\* What a client was told, and what its requests knew, has been answered;
\* only a request that was received is overtaken.
ToldInv ==
  /\ \A k \in Keys : TurnsOf(told[k]) \subseteq Answered
  /\ \A r \in Requests : known[r] \subseteq Answered
  /\ \A r \in Requests : overtaken[r] => pc[r] # "idle"

\* Since a reset its client has told nothing from before: neither to
\* requests that came later nor to those that were not overtaken by it.
ResetInv ==
  \A r \in Requests : body[r].reset /\ pc[r] # "idle" =>
    /\ TurnsOf(told[body[r].key]) \cap known[r] = {}
    /\ \A o \in Requests :
         body[o].key = body[r].key /\ UnderWay(o) /\ ~overtaken[o]
           => TurnsOf(history[o]) \cap known[r] = {}

\* The player of a request is found when it begins, in the caller's room.
TargetInv ==
  /\ target \in [Requests ->
                   (UNION {DOMAIN h.entities : h \in Houses}) \cup {Nothing}]
  /\ \A r \in Requests :
       /\ pc[r] \in {"idle", "begin"} => target[r] = Nothing
       /\ chime[r] = "wait" => target[r] # Nothing
       /\ target[r] # Nothing /\ Apart(house)
            => InCallersRoom(house, Said(body[r]), target[r])

-----------------------------------------------------------------------------
(* Steps.                                                                  *)

\* A step that leaves conversations, bodies and players alone.
Quiet ==
  /\ UNCHANGED <<memory, told, house, body, history, known, target, overtaken>>
  /\ \A r \in Requests :
       /\ \/ pc'[r] = pc[r]
          \/ pc[r] \in {"run", "agent", "cancel"} /\ pc'[r] \in {"cancel", "finish"}
       /\ chime'[r] = "wait" => chime[r] = "wait" \/ target[r] # Nothing

\* The steps that are not quiet.
LEMMA Steps ==
  ASSUME Typed, [Next]_vars
  PROVE  \/ \E r \in Requests : \/ \E b \in Bodies : Receive(r, b)
                                \/ Begin(r) \/ AskAgent(r) \/ Finish(r)
         \/ Expire \/ Quiet
<1>. USE DEF Typed, vars, lifespan, conversations, request, Quiet
<1>1. ASSUME NEW r \in Requests, Conclude(r) PROVE Quiet
  BY <1>1 DEF Conclude
<1>2. ASSUME NEW r \in Requests, OutcomeChime(r) PROVE Quiet
  BY <1>2 DEF OutcomeChime
<1>3. ASSUME NEW r \in Requests, ChimeDue(r) PROVE Quiet
  BY <1>3 DEF ChimeDue, ChimeUnchanged
<1>4. ASSUME NEW r \in Requests, ChimeSend(r) PROVE Quiet
  BY <1>4 DEF ChimeSend, ChimeUnchanged
<1>5. ASSUME NEW r \in Requests, ChimeOver(r) PROVE Quiet
  BY <1>5 DEF ChimeOver, ChimeUnchanged
<1>6. CASE StartHomeAssistant \/ StartMusicAssistant \/ StartMcp \/ StartAgents
  BY <1>6 DEF StartHomeAssistant, StartMusicAssistant, StartMcp, StartAgents
<1>7. CASE StopSounds
  BY <1>7 DEF StopSounds
<1>8. CASE \/ StopAgents \/ StopMusic \/ StopPublisher \/ StopHomeAssistant
           \/ StopMcp \/ UNCHANGED vars
  BY <1>8
  DEF StopAgents, StopMusic, StopPublisher, StopHomeAssistant, StopMcp, Stopped
<1>. QED
  BY <1>1, <1>2, <1>3, <1>4, <1>5, <1>6, <1>7, <1>8 DEF Next, Serve

\* The conversation of a body is a conversation.
LEMMA KeyIs ==
  ASSUME NEW b \in Bodies
  PROVE  b.key \in Keys
  BY DEF Keys

\* What a client brings along of what it has been told.
LEMMA ClientHistoryIs ==
  ASSUME NEW s \in Seq(Messages)
  PROVE  /\ ClientHistory(s) \in Seq(Messages)
         /\ Len(ClientHistory(s)) <= 2 * HistoryTurns
         /\ TurnsOf(ClientHistory(s)) \subseteq TurnsOf(s)
         /\ Len(ClientHistory(s)) = 2 * HistoryTurns \/ ClientHistory(s) = s
<1>1. 2 * HistoryTurns \in Nat
  BY MemoryAssumption
<1>. QED
  BY <1>1, NewestIs, NewestTurns DEF ClientHistory, Window

\* What a finished request leaves in the memory.
LEMMA FinishedIs ==
  ASSUME NEW m, IsMemory(m), Len(m) <= MaxSessions + 1,
         NEW k \in Keys, NEW s \in Seq(Messages), NEW r \in Requests
  PROVE  LET n == AfterRead(Remember(Seed(m, k, s), k, r))
         IN  IsMemory(n) /\ Len(n) <= MaxSessions + 1
<1>. DEFINE a == Seed(m, k, s)
            b == Remember(a, k, r)
<1>1. IsMemory(a) /\ Len(a) <= MaxSessions + 1 /\ r \in Turns
  BY SeedIs DEF Turns
<1>. HIDE DEF a
<1>2. IsMemory(b) /\ Len(b) <= MaxSessions + 1
  BY <1>1, RememberIs
<1>. HIDE DEF b
<1>3. IsMemory(AfterRead(b)) /\ Len(AfterRead(b)) <= MaxSessions + 1
  BY <1>2, AfterReadIs
<1>. QED
  BY <1>3 DEF a, b

\* Every step keeps the data in their types.
LEMMA DataStep ==
  ASSUME Typed, DataInv, [Next]_vars
  PROVE  DataInv'
<1>. USE DEF DataInv
<1>1. ASSUME NEW r \in Requests, NEW b \in Bodies, Receive(r, b) PROVE DataInv'
  <2>1. told[b.key] \in Seq(Messages)
    BY KeyIs
  <2>2. ClientHistory(told[b.key]) \in Seq(Messages) /\ <<>> \in Seq(Messages)
    BY <2>1, ClientHistoryIs, EmptySeq
  <2>3. TurnsOf(told[b.key]) \subseteq Turns
    BY <2>1, TurnsOfIs
  <2>4. /\ history' \in [Requests -> Seq(Messages)]
        /\ told' \in [Keys -> Seq(Messages)]
    BY <1>1, <2>2 DEF Receive
  <2>5. known' \in [Requests -> SUBSET Turns]
    BY <1>1, <2>3 DEF Receive, TurnsOf
  <2>6. overtaken' \in [Requests -> BOOLEAN]
    BY <1>1 DEF Receive
  <2>. QED
    BY <1>1, <2>4, <2>5, <2>6 DEF Receive, lifespan
<1>2. ASSUME NEW r \in Requests, Begin(r) PROVE DataInv'
  <2>1. IsMemory(memory') /\ Len(memory') <= MaxSessions + 1
    <3>1. Len(memory) \in Nat
      BY LenProperties DEF IsMemory
    <3>2. IsMemory(Clear(memory, body[r].key)) /\ Len(Clear(memory, body[r].key)) <= Len(memory)
      BY ClearIs
    <3>3. Len(Clear(memory, body[r].key)) \in Nat
      BY <3>2, LenProperties DEF IsMemory
    <3>4. Len(Clear(memory, body[r].key)) <= MaxSessions + 1
      BY <3>1, <3>2, <3>3, MemoryAssumption
    <3>. QED
      BY <1>2, <3>2, <3>4 DEF Begin
  <2>. QED
    BY <1>2, <2>1 DEF Begin, lifespan
<1>3. ASSUME NEW r \in Requests, AskAgent(r) PROVE DataInv'
  <2>1. IsMemory(memory') /\ Len(memory') <= MaxSessions + 1
    <3>1. body[r].key \in Keys /\ history[r] \in Seq(Messages)
      BY KeyIs
    <3>. QED
      BY <1>3, <3>1, SeedIs, AfterReadIs DEF AskAgent
  <2>. QED
    BY <1>3, <2>1 DEF AskAgent, lifespan
<1>4. ASSUME NEW r \in Requests, Finish(r) PROVE DataInv'
  <2>. DEFINE k == body[r].key
  <2>1. k \in Keys /\ history[r] \in Seq(Messages)
    BY KeyIs
  <2>2. IsMemory(memory') /\ Len(memory') <= MaxSessions + 1
    BY <1>4, <2>1, FinishedIs DEF Finish
  <2>3. told' \in [Keys -> Seq(Messages)]
    <3>1. told[k] \o ToldOf(r) \in Seq(Messages)
      BY <2>1, ToldOfIs, ConcatTurns
    <3>. QED
      BY <1>4, <2>1, <3>1 DEF Finish
  <2>. QED
    BY <1>4, <2>2, <2>3 DEF Finish, lifespan
<1>5. CASE Expire
  <2>1. IsMemory(memory') /\ Len(memory') <= MaxSessions + 1
    BY <1>5, AgeIs DEF Expire
  <2>. QED
    BY <1>5, <2>1 DEF Expire, request
<1>6. CASE Quiet
  BY <1>6 DEF Quiet
<1>. QED
  BY <1>1, <1>2, <1>3, <1>4, <1>5, <1>6, Steps

\* Every step keeps the histories as they were brought along.
LEMMA HistoryStep ==
  ASSUME Typed, DataInv, HistoryInv, [Next]_vars
  PROVE  HistoryInv'
<1>. USE DEF HistoryInv
<1>1. ASSUME NEW r \in Requests, NEW b \in Bodies, Receive(r, b) PROVE HistoryInv'
  <2>. DEFINE s == told[b.key]
              h == IF b.sends /\ ~b.reset THEN ClientHistory(s) ELSE <<>>
  <2>1. s \in Seq(Messages)
    BY KeyIs DEF DataInv
  <2>2. /\ history' = [history EXCEPT ![r] = h]
        /\ known' = [known EXCEPT ![r] = TurnsOf(s)]
    BY <1>1 DEF Receive, TurnsOf
  <2>3. 2 * HistoryTurns \in Nat /\ Len(<<>>) = 0
    BY MemoryAssumption, EmptySeq
  <2>. HIDE DEF s
  <2>4. Len(h) <= 2 * HistoryTurns
    BY <2>1, <2>3, ClientHistoryIs
  <2>5. h # <<>> => Len(h) = 2 * HistoryTurns \/ TurnsOf(s) \subseteq TurnsOf(h)
    BY <2>1, ClientHistoryIs
  <2>. HIDE DEF h
  <2>. QED
    BY <2>2, <2>4, <2>5 DEF DataInv
<1>2. CASE \E r \in Requests : Begin(r) \/ AskAgent(r) \/ Finish(r)
  BY <1>2 DEF Begin, AskAgent, Finish
<1>3. CASE Expire \/ Quiet
  BY <1>3 DEF Expire, Quiet, request
<1>. QED
  BY <1>1, <1>2, <1>3, Steps

\* Every step tells a client of answered turns only.
LEMMA ToldStep ==
  ASSUME Typed, DataInv, ToldInv, [Next]_vars
  PROVE  ToldInv'
<1>. USE DEF ToldInv, Answered
<1>a. pc \in [Requests -> {"idle", "begin", "run", "agent", "cancel", "finish", "done"}]
  BY DEF Typed
<1>1. ASSUME NEW r \in Requests, NEW b \in Bodies, Receive(r, b) PROVE ToldInv'
  <2>1. /\ \A o \in Requests : pc'[o] = IF o = r THEN "begin" ELSE pc[o]
        /\ pc[r] = "idle"
    BY <1>1, <1>a DEF Receive
  <2>2. Answered' = Answered
    BY <2>1
  <2>3. b.key \in Keys /\ TurnsOf(<<>>) = {}
    BY KeyIs DEF TurnsOf, ToSet
  <2>4. \A o \in Requests : known'[o] = IF o = r THEN TurnsOf(told[b.key]) ELSE known[o]
    BY <1>1 DEF Receive, TurnsOf, DataInv
  <2>5. \A k \in Keys : told'[k] \in {told[k], <<>>}
    BY <1>1 DEF Receive, DataInv
  <2>6. \A o \in Requests : overtaken'[o] => overtaken[o] \/ UnderWay(o)
    BY <1>1 DEF Receive
  <2>7. \A o \in Requests : overtaken'[o] => pc'[o] # "idle"
    BY <2>1, <2>6 DEF UnderWay
  <2>. HIDE DEF Answered
  <2>. QED
    BY <2>2, <2>3, <2>4, <2>5, <2>7
<1>2. ASSUME NEW r \in Requests, Begin(r) \/ AskAgent(r) PROVE ToldInv'
  BY <1>2, <1>a DEF Begin, AskAgent
<1>3. ASSUME NEW r \in Requests, Finish(r) PROVE ToldInv'
  <2>. DEFINE k == body[r].key
  <2>1. k \in Keys /\ told[k] \in Seq(Messages)
    BY KeyIs DEF DataInv
  <2>2. TurnsOf(told[k] \o ToldOf(r)) = TurnsOf(told[k]) \cup {r}
    BY <2>1, ToldOfIs, ConcatTurns
  <2>3. Answered' = Answered \cup {r}
    BY <1>3, <1>a DEF Finish
  <2>4. \A c \in Keys : told'[c] = IF c = k THEN told[k] \o ToldOf(r) ELSE told[c]
    BY <1>3 DEF Finish, DataInv
  <2>5. UNCHANGED <<known, overtaken>> /\ \A o \in Requests : pc'[o] = "idle" => pc[o] = "idle"
    BY <1>3, <1>a DEF Finish
  <2>. HIDE DEF Answered, k
  <2>. QED
    BY <2>2, <2>3, <2>4, <2>5
<1>4. CASE Expire
  BY <1>4 DEF Expire, request
<1>5. CASE Quiet
  BY <1>5, <1>a DEF Quiet
<1>. QED
  BY <1>1, <1>2, <1>3, <1>4, <1>5, Steps

\* Every step keeps what was told apart from what was reset.
LEMMA ResetStep ==
  ASSUME Typed, DataInv, ToldInv, ResetInv, [Next]_vars
  PROVE  ResetInv'
<1>. USE DEF ResetInv
<1>a. pc \in [Requests -> {"idle", "begin", "run", "agent", "cancel", "finish", "done"}]
  BY DEF Typed
<1>b. TurnsOf(<<>>) = {}
  BY DEF TurnsOf, ToSet
<1>1. ASSUME NEW r \in Requests, NEW b \in Bodies, Receive(r, b) PROVE ResetInv'
  <2>. DEFINE s == told[b.key]
              h == IF b.sends /\ ~b.reset THEN ClientHistory(s) ELSE <<>>
  <2>1. /\ \A o \in Requests : pc'[o] = IF o = r THEN "begin" ELSE pc[o]
        /\ pc[r] = "idle"
        /\ \A o \in Requests : body'[o] = IF o = r THEN b ELSE body[o]
    BY <1>1, <1>a DEF Receive, DataInv
  <2>2. b.key \in Keys /\ s \in Seq(Messages)
    BY KeyIs DEF DataInv
  <2>3. \A o \in Requests : known'[o] = IF o = r THEN TurnsOf(s) ELSE known[o]
    BY <1>1 DEF Receive, TurnsOf, DataInv
  <2>4. \A o \in Requests : history'[o] = IF o = r THEN h ELSE history[o]
    BY <1>1 DEF Receive, DataInv
  <2>5. TurnsOf(h) \subseteq TurnsOf(s) /\ (b.reset => TurnsOf(h) = {})
    BY <1>b, <2>2, ClientHistoryIs
  <2>6. \A k \in Keys : told'[k] = IF b.reset /\ k = b.key THEN <<>> ELSE told[k]
    BY <1>1 DEF Receive, DataInv
  <2>7. \A o \in Requests : ~overtaken'[o] =>
          /\ ~overtaken[o]
          /\ ~(b.reset /\ body[o].key = b.key /\ UnderWay(o))
    BY <1>1 DEF Receive
  <2>8. \A o \in Requests : o # r => UnderWay(o)' = UnderWay(o)
    BY <2>1 DEF UnderWay
  <2>. HIDE DEF s, h
  <2>9. ASSUME NEW q \in Requests, body'[q].reset, pc'[q] # "idle"
        PROVE  TurnsOf(told'[body'[q].key]) \cap known'[q] = {}
    <3>1. body'[q].key \in Keys
      BY <2>1, KeyIs DEF DataInv
    <3>2. CASE q = r
      BY <1>b, <2>1, <2>6, <2>9, <3>1, <3>2
    <3>3. CASE q # r
      BY <1>b, <2>1, <2>3, <2>6, <2>9, <3>1, <3>3
    <3>. QED
      BY <3>2, <3>3
  <2>10. ASSUME NEW q \in Requests, body'[q].reset, pc'[q] # "idle",
                NEW o \in Requests, body'[o].key = body'[q].key, UnderWay(o)', ~overtaken'[o]
         PROVE  TurnsOf(history'[o]) \cap known'[q] = {}
    <3>1. CASE o = r
      <4>1. CASE b.reset
        BY <2>4, <2>5, <3>1, <4>1
      <4>2. CASE ~b.reset
        <5>1. q # r
          BY <2>1, <2>10, <4>2
        <5>2. TurnsOf(s) \cap known[q] = {}
          BY <2>1, <2>10, <3>1, <5>1 DEF s
        <5>. QED
          BY <2>3, <2>4, <2>5, <3>1, <5>1, <5>2
      <4>. QED
        BY <4>1, <4>2
    <3>2. CASE o # r
      <4>1. UnderWay(o) /\ body'[o] = body[o] /\ history'[o] = history[o] /\ ~overtaken[o]
        BY <2>1, <2>4, <2>7, <2>8, <2>10, <3>2
      <4>2. q # r
        BY <2>1, <2>7, <2>10, <4>1
      <4>. QED
        BY <2>1, <2>3, <2>10, <4>1, <4>2
    <3>. QED
      BY <3>1, <3>2
  <2>. QED
    BY <2>9, <2>10
<1>2. ASSUME NEW r \in Requests, Begin(r) \/ AskAgent(r) PROVE ResetInv'
  BY <1>2, <1>a DEF Begin, AskAgent, UnderWay
<1>3. ASSUME NEW r \in Requests, Finish(r) PROVE ResetInv'
  <2>. DEFINE k == body[r].key
  <2>1. k \in Keys /\ told[k] \in Seq(Messages)
    BY KeyIs DEF DataInv
  <2>2. TurnsOf(told[k] \o ToldOf(r)) = TurnsOf(told[k]) \cup {r}
    BY <2>1, ToldOfIs, ConcatTurns
  <2>3. \A c \in Keys : told'[c] = IF c = k THEN told[k] \o ToldOf(r) ELSE told[c]
    BY <1>3 DEF Finish, DataInv
  <2>4. \A q \in Requests : r \notin known[q]
    BY <1>3, ApplicationAssumption DEF Finish, ToldInv, Answered
  <2>5. /\ UNCHANGED <<body, known, history, overtaken>>
        /\ \A o \in Requests : /\ pc'[o] # "idle" => pc[o] # "idle"
                               /\ UnderWay(o)' => UnderWay(o)
    BY <1>3, <1>a DEF Finish, UnderWay
  <2>6. \A q \in Requests : body[q].key \in Keys
    BY KeyIs DEF DataInv
  <2>. HIDE DEF k
  <2>. QED
    BY <2>2, <2>3, <2>4, <2>5, <2>6
<1>4. CASE Expire
  BY <1>4 DEF Expire, request, UnderWay
<1>5. CASE Quiet
  BY <1>5, <1>a DEF Quiet, UnderWay
<1>. QED
  BY <1>1, <1>2, <1>3, <1>4, <1>5, Steps

\* Nothing has no turns.
LEMMA NoTurns == TurnsOf(<<>>) = {}
  BY DEF TurnsOf, ToSet

\* What is left of messages are turns they had.
LEMMA WindowTurns ==
  ASSUME NEW s \in Seq(Messages)
  PROVE  TurnsOf(Window(s)) \subseteq TurnsOf(s)
<1>1. 2 * HistoryTurns \in Nat
  BY MemoryAssumption
<1>. QED
  BY <1>1, NewestTurns DEF Window

\* A history brought along adds its own turns at most.
LEMMA SeedTurns ==
  ASSUME NEW m, IsMemory(m), Len(m) <= MaxSessions + 1,
         NEW k \in Keys, NEW s \in Seq(Messages), NEW c
  PROVE  TurnsOf(Stored(Seed(m, k, s), c))
           \subseteq TurnsOf(Stored(m, c)) \cup (IF c = k THEN TurnsOf(s) ELSE {})
<1>1. CASE c = k
  BY <1>1, SeedIs, WindowTurns
<1>2. CASE c # k
  BY <1>2, SeedIs, NoTurns
<1>. QED
  BY <1>1, <1>2

\* A turn that is remembered adds itself at most.
LEMMA RememberTurns ==
  ASSUME NEW m, IsMemory(m), Len(m) <= MaxSessions + 1,
         NEW k \in Keys, NEW t \in Turns, NEW c
  PROVE  TurnsOf(Stored(Remember(m, k, t), c))
           \subseteq TurnsOf(Stored(m, c)) \cup (IF c = k THEN {t} ELSE {})
<1>1. CASE c = k
  <2>. DEFINE p == Stored(Prune(m), k)
  <2>1. p \in Seq(Messages) /\ Exchange(t) \in Seq(Messages)
    BY PruneIs, StoredType, ExchangeIs
  <2>2. p \o Exchange(t) \in Seq(Messages) /\ TurnsOf(p \o Exchange(t)) = TurnsOf(p) \cup {t}
    BY <2>1, ConcatTurns, ExchangeTurns
  <2>3. TurnsOf(p) \subseteq TurnsOf(Stored(m, k))
    BY PruneIs, NoTurns
  <2>4. \/ Remember(m, k, t) = m
        \/ Stored(Remember(m, k, t), k) = Window(p \o Exchange(t))
    BY RememberIs
  <2>. HIDE DEF p
  <2>5. TurnsOf(Window(p \o Exchange(t))) \subseteq TurnsOf(p) \cup {t}
    BY <2>2, WindowTurns
  <2>. QED
    BY <1>1, <2>3, <2>4, <2>5
<1>2. CASE c # k
  BY <1>2, RememberIs, NoTurns
<1>. QED
  BY <1>1, <1>2

\* A finished request adds its history and itself at most.
LEMMA FinishedTurns ==
  ASSUME NEW m, IsMemory(m), Len(m) <= MaxSessions + 1,
         NEW k \in Keys, NEW s \in Seq(Messages), NEW r \in Requests, NEW c
  PROVE  TurnsOf(Stored(AfterRead(Remember(Seed(m, k, s), k, r)), c))
           \subseteq TurnsOf(Stored(m, c)) \cup (IF c = k THEN TurnsOf(s) \cup {r} ELSE {})
<1>. DEFINE a == Seed(m, k, s)
            b == Remember(a, k, r)
<1>1. IsMemory(a) /\ Len(a) <= MaxSessions + 1 /\ r \in Turns
  BY SeedIs DEF Turns
<1>2. TurnsOf(Stored(a, c)) \subseteq TurnsOf(Stored(m, c)) \cup (IF c = k THEN TurnsOf(s) ELSE {})
  BY SeedTurns
<1>. HIDE DEF a
<1>3. IsMemory(b) /\ Len(b) <= MaxSessions + 1
  BY <1>1, RememberIs
<1>4. TurnsOf(Stored(b, c)) \subseteq TurnsOf(Stored(a, c)) \cup (IF c = k THEN {r} ELSE {})
  BY <1>1, RememberTurns
<1>. HIDE DEF b
<1>5. TurnsOf(Stored(AfterRead(b), c)) \subseteq TurnsOf(Stored(b, c))
  BY <1>3, AfterReadIs, NoTurns
<1>6. TurnsOf(Stored(AfterRead(b), c))
        \subseteq TurnsOf(Stored(m, c)) \cup (IF c = k THEN TurnsOf(s) \cup {r} ELSE {})
  BY <1>2, <1>4, <1>5
<1>. QED
  BY <1>6 DEF a, b

\* Every step leaves a reset conversation without what was said before.
LEMMA SticksStep ==
  ASSUME Typed, DataInv, ToldInv, ResetInv, ResetSticks, [Next]_vars
  PROVE  ResetSticks'
<1>a. pc \in [Requests -> {"idle", "begin", "run", "agent", "cancel", "finish", "done"}]
  BY DEF Typed
<1>b. IsMemory(memory) /\ Len(memory) <= MaxSessions + 1
  BY DEF DataInv
\* A step that adds to a conversation the history and the turn of a request
\* of its own at most.
<1>c. ASSUME UNCHANGED <<body, known, history, overtaken>>,
             \A q \in Requests : pc[q] \in {"idle", "begin"} => pc'[q] = pc[q],
             NEW r \in Requests, UnderWay(r),
             \A k \in Keys : TurnsOf(Stored(memory', k))
                \subseteq TurnsOf(Stored(memory, k))
                         \cup (IF k = body[r].key THEN TurnsOf(history[r]) \cup {r} ELSE {})
      PROVE  ResetSticks'
  <2>. SUFFICES ASSUME NEW q \in Requests, body[q].reset, pc'[q] \notin {"idle", "begin"},
                       NEW t \in TurnsOf(Stored(memory', body[q].key)) \cap known[q]
                PROVE  \E o \in Requests :
                         /\ overtaken[o] /\ body[o].key = body[q].key
                         /\ t \in TurnsOf(history[o]) \cup {o}
    BY <1>c DEF ResetSticks
  <2>1. pc[q] \notin {"idle", "begin"}
    BY <1>c
  <2>2. body[q].key \in Keys
    BY KeyIs DEF DataInv
  <2>3. CASE t \in TurnsOf(Stored(memory, body[q].key))
    BY <2>1, <2>3 DEF ResetSticks
  <2>4. CASE t \notin TurnsOf(Stored(memory, body[q].key))
    <3>1. body[r].key = body[q].key /\ t \in TurnsOf(history[r]) \cup {r}
      BY <1>c, <2>2, <2>4
    <3>2. t # r
      BY <1>c, ApplicationAssumption DEF ToldInv, Answered, UnderWay
    <3>3. overtaken[r]
      BY <1>c, <2>1, <3>1, <3>2 DEF ResetInv
    <3>. QED
      BY <3>1, <3>3
  <2>. QED
    BY <2>3, <2>4
<1>1. ASSUME NEW r \in Requests, NEW b \in Bodies, Receive(r, b) PROVE ResetSticks'
  <2>1. /\ \A o \in Requests : pc'[o] = IF o = r THEN "begin" ELSE pc[o]
        /\ pc[r] = "idle" /\ memory' = memory
        /\ \A o \in Requests \ {r} :
             body'[o] = body[o] /\ known'[o] = known[o] /\ history'[o] = history[o]
        /\ \A o \in Requests : overtaken[o] => overtaken'[o]
    BY <1>1, <1>a DEF Receive, DataInv
  <2>2. \A o \in Requests : overtaken[o] => o # r
    BY <2>1 DEF ToldInv
  <2>. SUFFICES ASSUME NEW q \in Requests, body'[q].reset, pc'[q] \notin {"idle", "begin"},
                       NEW t \in TurnsOf(Stored(memory', body'[q].key)) \cap known'[q]
                PROVE  \E o \in Requests :
                         /\ overtaken'[o] /\ body'[o].key = body'[q].key
                         /\ t \in TurnsOf(history'[o]) \cup {o}
    BY DEF ResetSticks
  <2>3. q # r /\ pc[q] \notin {"idle", "begin"} /\ body'[q] = body[q] /\ known'[q] = known[q]
    BY <2>1
  <2>4. PICK o \in Requests : /\ overtaken[o] /\ body[o].key = body[q].key
                              /\ t \in TurnsOf(history[o]) \cup {o}
    BY <2>1, <2>3 DEF ResetSticks
  <2>. QED
    BY <2>1, <2>2, <2>3, <2>4
<1>2. ASSUME NEW r \in Requests, Begin(r) PROVE ResetSticks'
  <2>1. /\ UNCHANGED <<body, known, history, overtaken>>
        /\ \A o \in Requests : pc'[o] = IF o = r THEN "run" ELSE pc[o]
    BY <1>2, <1>a DEF Begin
  <2>2. \A c : TurnsOf(Stored(memory', c)) \subseteq TurnsOf(Stored(memory, c))
    BY <1>2, <1>b, ClearIs, NoTurns DEF Begin
  <2>3. body[r].reset => TurnsOf(Stored(memory', body[r].key)) = {}
    BY <1>2, <1>b, ClearIs, NoTurns DEF Begin
  <2>. QED
    BY <2>1, <2>2, <2>3 DEF ResetSticks
<1>3. ASSUME NEW r \in Requests, AskAgent(r) PROVE ResetSticks'
  <2>1. body[r].key \in Keys /\ history[r] \in Seq(Messages)
    BY KeyIs DEF DataInv
  <2>2. ASSUME NEW k \in Keys
        PROVE  TurnsOf(Stored(memory', k)) \subseteq TurnsOf(Stored(memory, k))
                 \cup (IF k = body[r].key THEN TurnsOf(history[r]) \cup {r} ELSE {})
    <3>1. CASE history[r] # <<>>
      <4>1. memory' = Seed(memory, body[r].key, history[r])
        BY <1>3, <3>1 DEF AskAgent
      <4>2. TurnsOf(Stored(memory', k)) \subseteq TurnsOf(Stored(memory, k))
              \cup (IF k = body[r].key THEN TurnsOf(history[r]) ELSE {})
        BY <1>b, <2>1, <4>1, SeedTurns
      <4>. QED
        BY <4>2
    <3>2. CASE history[r] = <<>>
      <4>1. memory' = AfterRead(memory)
        BY <1>3, <3>2 DEF AskAgent
      <4>. QED
        BY <1>b, <4>1, AfterReadIs, NoTurns
    <3>. QED
      BY <3>1, <3>2
  <2>3. /\ UNCHANGED <<body, known, history, overtaken>>
        /\ \A q \in Requests : pc[q] \in {"idle", "begin"} => pc'[q] = pc[q]
        /\ UnderWay(r)
    BY <1>3, <1>a DEF AskAgent, UnderWay
  <2>. QED
    BY <1>c, <2>2, <2>3
<1>4. ASSUME NEW r \in Requests, Finish(r) PROVE ResetSticks'
  <2>1. body[r].key \in Keys /\ history[r] \in Seq(Messages)
    BY KeyIs DEF DataInv
  <2>2. ASSUME NEW k \in Keys
        PROVE  TurnsOf(Stored(memory', k)) \subseteq TurnsOf(Stored(memory, k))
                 \cup (IF k = body[r].key THEN TurnsOf(history[r]) \cup {r} ELSE {})
    <3>1. CASE outcome[r] = "failed"
      BY <1>4, <3>1 DEF Finish
    <3>2. CASE outcome[r] # "failed"
      <4>1. memory' = AfterRead(Remember(Seed(memory, body[r].key, history[r]), body[r].key, r))
        BY <1>4, <3>2 DEF Finish
      <4>. QED
        BY <1>b, <2>1, <4>1, FinishedTurns
    <3>. QED
      BY <3>1, <3>2
  <2>3. /\ UNCHANGED <<body, known, history, overtaken>>
        /\ \A q \in Requests : pc[q] \in {"idle", "begin"} => pc'[q] = pc[q]
        /\ UnderWay(r)
    BY <1>4, <1>a DEF Finish, UnderWay
  <2>. QED
    BY <1>c, <2>2, <2>3
<1>5. CASE Expire
  <2>1. \A k \in Keys : TurnsOf(Stored(memory', k)) = TurnsOf(Stored(memory, k))
    BY <1>5, <1>b, AgeIs DEF Expire
  <2>2. \A r \in Requests : body[r].key \in Keys
    BY KeyIs DEF DataInv
  <2>. QED
    BY <1>5, <2>1, <2>2 DEF Expire, request, ResetSticks
<1>6. CASE Quiet
  BY <1>6, <1>a DEF Quiet, ResetSticks
<1>. QED
  BY <1>1, <1>2, <1>3, <1>4, <1>5, <1>6, Steps

\* Every step finds players in the caller's room.
LEMMA TargetStep ==
  ASSUME Typed, DataInv, TargetInv, [Next]_vars
  PROVE  TargetInv'
<1>. USE DEF TargetInv
<1>a. /\ pc \in [Requests -> {"idle", "begin", "run", "agent", "cancel", "finish", "done"}]
      /\ chime \in [Requests -> {"none", "delay", "wait", "sent", "cancelled", "over"}]
      /\ house \in Houses
  BY DEF Typed, DataInv
<1>1. ASSUME NEW r \in Requests, NEW b \in Bodies, Receive(r, b) PROVE TargetInv'
  BY <1>1, <1>a DEF Receive, DataInv
<1>2. ASSUME NEW r \in Requests, Begin(r) PROVE TargetInv'
  <2>. DEFINE said == Said(body[r])
  <2>1. PICK p \in Target(body[r]) : target' = [target EXCEPT ![r] = p]
    BY <1>2 DEF Begin
  <2>2. p \in {SoundTarget(house, ResolveOrigin(house, said)), SoundTarget(house, said), Nothing}
    BY <2>1 DEF Target
  <2>. HIDE DEF said
  <2>3. p # Nothing => p \in DOMAIN house.entities
    BY <2>2, SoundTargetIs DEF Of
  <2>4. p # Nothing /\ Apart(house) => InCallersRoom(house, said, p)
    BY <2>2, PlayerIsClose
  <2>5. p \in (UNION {DOMAIN h.entities : h \in Houses}) \cup {Nothing}
    BY <1>a, <2>3
  <2>6. /\ pc' = [pc EXCEPT ![r] = "run"] /\ chime' = [chime EXCEPT ![r] = "delay"]
        /\ UNCHANGED <<house, body>>
    BY <1>2 DEF Begin
  <2>7. \A o \in Requests : /\ target'[o] = IF o = r THEN p ELSE target[o]
                            /\ pc'[o] = IF o = r THEN "run" ELSE pc[o]
                            /\ chime'[o] = IF o = r THEN "delay" ELSE chime[o]
    BY <1>a, <2>1, <2>6
  <2>8. target' \in [Requests -> (UNION {DOMAIN h.entities : h \in Houses}) \cup {Nothing}]
    BY <2>1, <2>5
  <2>. QED
    BY <2>4, <2>6, <2>7, <2>8 DEF said
<1>3. ASSUME NEW r \in Requests, AskAgent(r) \/ Finish(r) PROVE TargetInv'
  BY <1>3, <1>a DEF AskAgent, Finish
<1>4. CASE Expire
  BY <1>4 DEF Expire, request
<1>5. CASE Quiet
  BY <1>5, <1>a DEF Quiet
<1>. QED
  BY <1>1, <1>2, <1>3, <1>4, <1>5, Steps

\* The inductive invariant of the data; ResetSticks follows step by step.
DataInvs == DataInv /\ HistoryInv /\ ToldInv /\ ResetInv /\ TargetInv /\ ResetSticks

\* It holds at the start, where the memory has one turn from before.
LEMMA InitData == Init => DataInvs
<1>. SUFFICES ASSUME Init PROVE DataInvs
  OBVIOUS
<1>1. PICK k \in Keys :
        /\ memory = Remember(<<>>, k, Past)
        /\ told = [c \in Keys |-> IF c = k THEN Exchange(Past) ELSE <<>>]
  BY DEF Init, Exchange
<1>2. (CHOOSE b \in Bodies : TRUE) \in Bodies
  BY <1>1 DEF Keys
<1>3. Past \in Turns /\ IsMemory(<<>>) /\ Len(<<>>) <= MaxSessions + 1
  <2>1. <<>> \in Seq(Entry(Keys, Messages)) /\ Len(<<>>) = 0 /\ DOMAIN <<>> = {}
    BY EmptySeq
  <2>. QED
    BY <2>1, MemoryAssumption DEF Turns, IsMemory
<1>4. IsMemory(memory) /\ Len(memory) <= MaxSessions + 1
  BY <1>1, <1>3, RememberIs
<1>5. Exchange(Past) \in Seq(Messages) /\ TurnsOf(Exchange(Past)) = {Past} /\ <<>> \in Seq(Messages)
  BY <1>3, ExchangeIs, ExchangeTurns, EmptySeq
<1>6. DataInv
  BY <1>1, <1>2, <1>4, <1>5 DEF Init, DataInv
<1>7. HistoryInv
  BY MemoryAssumption DEF Init, HistoryInv
<1>8. ToldInv
  BY <1>1, <1>5, NoTurns DEF Init, ToldInv, Answered
<1>9. ResetInv /\ ResetSticks
  BY DEF Init, ResetInv, ResetSticks
<1>10. TargetInv
  BY DEF Init, TargetInv
<1>. QED
  BY <1>6, <1>7, <1>8, <1>9, <1>10 DEF DataInvs

\* The data are in line in every reachable state.
THEOREM DataInductive == Spec => []DataInvs
<1>1. Init => DataInvs
  BY InitData
<1>2. IInv /\ DataInvs /\ [Next]_vars => DataInvs'
  BY DataStep, HistoryStep, ToldStep, ResetStep, TargetStep, SticksStep DEF IInv, DataInvs
<1>. QED
  BY <1>1, <1>2, Inductive, PTL DEF Spec

\* The variables have their types: of a conversation there is one entry, and
\* it has as many messages as configured at most, whoever writes it
\* (conversation.py:254-327).
THEOREM TypeCorrect == Spec => []TypeOK
<1>1. IInv /\ DataInvs => TypeOK
  BY DEF IInv, Typed, DataInvs, DataInv, IsMemory, TargetInv, TypeOK, Parts
<1>. QED
  BY <1>1, Inductive, DataInductive, PTL

\* The memory holds one conversation more than it should at most
\* (conversation.py:254-270).
THEOREM MemoryIsBounded == Spec => [](Len(memory) <= MaxSessions + 1)
<1>1. DataInvs => Len(memory) <= MaxSessions + 1
  BY DEF DataInvs, DataInv
<1>. QED
  BY <1>1, DataInductive, PTL

\* What was said before a reset does not come back but with a request that
\* was under way at the reset (application.py:507-509, llm.py:40-42).
THEOREM ResetsStick == Spec => []ResetSticks
<1>1. DataInvs => ResetSticks
  BY DEF DataInvs
<1>. QED
  BY <1>1, DataInductive, PTL

\* Nobody is played sounds in another room (README.md:169-170).
THEOREM SoundsInTheRoom == Spec => CallersRoom
<1>. DEFINE Close == \A r \in Requests :
        sounds'[r] # sounds[r] /\ RoomsApart => InCallersRoom(house, Said(body[r]), target[r])
<1>1. ASSUME IInv, DataInvs, [Next]_vars PROVE Close
  <2>1. RoomsApart => Apart(house)
    BY DEF RoomsApart, Apart
  <2>2. ASSUME NEW r \in Requests, sounds'[r] # sounds[r] PROVE target[r] # Nothing
    <3>1. ASSUME NEW q \in Requests, ChimeSend(q) PROVE target[r] # Nothing
      BY <1>1, <2>2, <3>1 DEF ChimeSend, DataInvs, TargetInv, IInv, Typed
    <3>2. ASSUME NEW q \in Requests, OutcomeChime(q) PROVE target[r] # Nothing
      BY <1>1, <2>2, <3>2 DEF OutcomeChime, IInv, Typed
    <3>3. UNCHANGED sounds \/ \E q \in Requests : ChimeSend(q) \/ OutcomeChime(q)
      BY <1>1
      DEF Next, Serve, Receive, Begin, AskAgent, Conclude, Finish, ChimeDue, ChimeOver,
          StartHomeAssistant, StartMusicAssistant, StartMcp, StartAgents, Expire,
          StopAgents, StopMusic, StopSounds, StopPublisher, StopHomeAssistant,
          StopMcp, Stopped, vars, request
    <3>. QED
      BY <2>2, <3>1, <3>2, <3>3
  <2>. QED
    BY <1>1, <2>1, <2>2 DEF DataInvs, TargetInv
<1>2. Close => \A r \in Requests :
        sounds'[r] # sounds[r] /\ RoomsApart =>
          LET origin == ResolveOrigin(house, Said(body[r]))
          IN  \/ AreaOf(house, target[r]) = origin.area
              \/ \E e \in DOMAIN house.entities :
                   /\ origin.device # Nothing
                   /\ house.entities[e].device = origin.device
                   /\ AreaOf(house, e) = AreaOf(house, target[r])
  BY DEF InCallersRoom
<1>. QED
  BY <1>1, <1>2, Inductive, DataInductive, PTL DEF CallersRoom, Spec

-----------------------------------------------------------------------------
(* What a conversation may not lose.                                       *)

\* Fewer than asked for are all of them.
LEMMA NewestAll ==
  ASSUME NEW s \in Seq(Messages), NEW n \in Nat, Len(s) <= n
  PROVE  Newest(s, n) = s
<1>1. /\ Newest(s, n) \in Seq(Messages)
      /\ \E d \in 0 .. Len(s) :
           /\ Len(Newest(s, n)) = Len(s) - d
           /\ d = 0 \/ Len(Newest(s, n)) = n
           /\ \A i \in 1 .. Len(s) - d : Newest(s, n)[i] = s[i + d]
  BY NewestIs
<1>2. Len(s) \in Nat
  BY LenProperties
<1>3. Len(Newest(s, n)) = Len(s) /\ \A i \in 1 .. Len(s) : Newest(s, n)[i] = s[i]
  BY <1>1, <1>2
<1>. QED
  BY <1>1, <1>3, SeqEqual

\* What a conversation may not lose.
Kept(m, k) == TurnsOf(Newest(Stored(Prune(m), k), 2 * (HistoryTurns - 1)))

\* It is some of what is stored.
LEMMA KeptIsStored ==
  ASSUME NEW m, IsMemory(m), NEW k
  PROVE  Kept(m, k) \subseteq TurnsOf(Stored(m, k))
<1>1. 2 * (HistoryTurns - 1) \in Nat
  BY MemoryAssumption
<1>2. Stored(Prune(m), k) \in Seq(Messages)
  BY PruneIs, StoredType
<1>3. Kept(m, k) \subseteq TurnsOf(Stored(Prune(m), k))
  BY <1>1, <1>2, NewestTurns DEF Kept
<1>. QED
  BY <1>3, PruneIs, NoTurns

\* A turn that is remembered leaves them room.
LEMMA RememberKeeps ==
  ASSUME NEW m, IsMemory(m), Len(m) <= MaxSessions + 1, NEW k \in Keys, NEW t \in Turns
  PROVE  Kept(m, k) \subseteq TurnsOf(Stored(Remember(m, k, t), k))
<1>1. CASE Remember(m, k, t) = m
  BY <1>1, KeptIsStored
<1>2. CASE Remember(m, k, t) # m
  <2>. DEFINE s == Stored(Prune(m), k)
              n == 2 * (HistoryTurns - 1)
  <2>1. s \in Seq(Messages) /\ n \in Nat /\ n + 2 = 2 * HistoryTurns
    BY PruneIs, StoredType, MemoryAssumption
  <2>2. Stored(Remember(m, k, t), k) = Window(s \o Exchange(t))
    BY <1>2, RememberIs
  <2>3. Kept(m, k) = TurnsOf(Newest(s, n))
    BY DEF Kept
  <2>4. Exchange(t) \in Seq(Messages) /\ Len(Exchange(t)) = 2
    BY ExchangeIs
  <2>. HIDE DEF s, n
  <2>5. TurnsOf(Newest(s, n)) \subseteq TurnsOf(Newest(s \o Exchange(t), n + 2))
    BY <2>1, <2>4, NewestAfterTwo
  <2>. QED
    BY <2>1, <2>2, <2>3, <2>5 DEF Window
<1>. QED
  BY <1>1, <1>2

\* A history that leaves them room as well stays with the turn.
LEMMA FinishedKeeps ==
  ASSUME NEW m, IsMemory(m), Len(m) <= MaxSessions + 1, MemoryEnabled,
         NEW k \in Keys, NEW r \in Requests,
         NEW s \in Seq(Messages), s # <<>>, Len(s) <= 2 * (HistoryTurns - 1)
  PROVE  TurnsOf(s) \subseteq TurnsOf(Stored(Remember(Seed(m, k, s), k, r), k))
<1>. DEFINE a == Seed(m, k, s)
            n == 2 * (HistoryTurns - 1)
<1>1. n \in Nat /\ n <= 2 * HistoryTurns /\ 2 * HistoryTurns \in Nat /\ Len(s) \in Nat
  BY MemoryAssumption, LenProperties
<1>2. Window(s) = s
  <2>1. Len(s) <= 2 * HistoryTurns
    BY <1>1
  <2>. QED
    BY <1>1, <2>1, NewestAll DEF Window
<1>3. Stored(Prune(a), k) = s
  <2>1. a = Put(Prune(m), k, s)
    BY DEF Seed
  <2>. QED
    BY <1>2, <2>1, PruneIs, PutSurvives
<1>4. IsMemory(a) /\ Len(a) <= MaxSessions + 1 /\ r \in Turns
  BY SeedIs DEF Turns
<1>. HIDE DEF a
<1>5. Kept(a, k) = TurnsOf(s)
  BY <1>1, <1>3, NewestAll DEF Kept
<1>6. Kept(a, k) \subseteq TurnsOf(Stored(Remember(a, k, r), k))
  BY <1>4, RememberKeeps
<1>. QED
  BY <1>5, <1>6 DEF a

\* The request by whose history a conversation loses a turn.
Excused(k, t) ==
  \E r \in Requests : /\ UnderWay(r) /\ body[r].key = k /\ history[r] # <<>>
                      /\ \/ t \notin known[r]
                         \/ Len(history[r]) > 2 * (HistoryTurns - 1)

\* A step keeps what a conversation may not lose, or is excused.
LEMMA KeepsStep ==
  ASSUME Typed, DataInv, HistoryInv, [Next]_vars, NEW k \in Keys,
         Stored(memory', k) # <<>>, NEW t \in Kept(memory, k), ~Excused(k, t)
  PROVE  t \in TurnsOf(Stored(memory', k))
<1>a. IsMemory(memory) /\ Len(memory) <= MaxSessions + 1
  BY DEF DataInv
<1>b. t \in TurnsOf(Stored(memory, k))
  BY <1>a, KeptIsStored
<1>c. ASSUME Stored(memory', k) \in {Stored(memory, k), <<>>}
      PROVE  t \in TurnsOf(Stored(memory', k))
  BY <1>b, <1>c
\* What a request that does not excuse the step has brought along.
<1>d. ASSUME NEW r \in Requests, UnderWay(r), body[r].key = k, history[r] # <<>>
      PROVE  t \in TurnsOf(history[r]) /\ Len(history[r]) <= 2 * (HistoryTurns - 1)
  <2>1. t \in known[r] /\ ~(Len(history[r]) > 2 * (HistoryTurns - 1))
    BY <1>d DEF Excused
  <2>2. Len(history[r]) \in Nat
    BY LenProperties DEF DataInv
  <2>3. Len(history[r]) <= 2 * (HistoryTurns - 1) /\ Len(history[r]) # 2 * HistoryTurns
    BY <2>1, <2>2, MemoryAssumption
  <2>. QED
    BY <1>d, <2>1, <2>3 DEF HistoryInv
<1>1. ASSUME NEW r \in Requests, NEW b \in Bodies, Receive(r, b)
      PROVE  t \in TurnsOf(Stored(memory', k))
  BY <1>1, <1>c DEF Receive
<1>2. ASSUME NEW r \in Requests, Begin(r)
      PROVE  t \in TurnsOf(Stored(memory', k))
  BY <1>2, <1>a, <1>c, ClearIs DEF Begin
<1>3. ASSUME NEW r \in Requests, AskAgent(r)
      PROVE  t \in TurnsOf(Stored(memory', k))
  <2>1. body[r].key \in Keys /\ history[r] \in Seq(Messages) /\ UnderWay(r)
    BY <1>3, KeyIs DEF DataInv, AskAgent, UnderWay
  <2>2. CASE history[r] = <<>>
    BY <1>3, <1>a, <1>c, <2>2, AfterReadIs DEF AskAgent
  <2>3. CASE history[r] # <<>>
    <3>1. memory' = Seed(memory, body[r].key, history[r])
      BY <1>3, <2>3 DEF AskAgent
    <3>2. CASE body[r].key # k \/ memory' = memory
      BY <1>a, <1>c, <2>1, <3>1, <3>2, SeedIs
    <3>3. CASE body[r].key = k /\ memory' # memory
      <4>1. Stored(memory', k) = Window(history[r])
        BY <1>a, <2>1, <3>1, <3>3, SeedIs
      <4>2. t \in TurnsOf(history[r]) /\ Len(history[r]) <= 2 * (HistoryTurns - 1)
        BY <1>d, <2>1, <2>3, <3>3
      <4>a. Len(history[r]) \in Nat
        BY <2>1, LenProperties
      <4>3. 2 * HistoryTurns \in Nat /\ Len(history[r]) <= 2 * HistoryTurns
        BY <4>a, <4>2, MemoryAssumption
      <4>4. Window(history[r]) = history[r]
        BY <2>1, <4>3, NewestAll, MemoryAssumption DEF Window
      <4>. QED
        BY <4>1, <4>2, <4>4
    <3>. QED
      BY <3>2, <3>3
  <2>. QED
    BY <2>2, <2>3
<1>4. ASSUME NEW r \in Requests, Finish(r)
      PROVE  t \in TurnsOf(Stored(memory', k))
  <2>. DEFINE c == body[r].key
              a == Seed(memory, c, history[r])
              b == Remember(a, c, r)
  <2>1. c \in Keys /\ history[r] \in Seq(Messages) /\ UnderWay(r) /\ r \in Turns
    BY <1>4, KeyIs DEF DataInv, Finish, UnderWay, Turns
  <2>2. CASE outcome[r] = "failed"
    BY <1>4, <1>c, <2>2 DEF Finish
  <2>3. CASE outcome[r] # "failed"
    <3>1. memory' = AfterRead(b)
      BY <1>4, <2>3 DEF Finish
    <3>2. IsMemory(a) /\ Len(a) <= MaxSessions + 1
      BY <1>a, <2>1, SeedIs
    <3>3. IsMemory(b) /\ Len(b) <= MaxSessions + 1
      BY <2>1, <3>2, RememberIs
    <3>4. Stored(memory', k) = Stored(b, k)
      BY <3>1, <3>3, AfterReadIs
    <3>5. CASE c # k
      <4>1. Stored(a, k) \in {Stored(memory, k), <<>>}
        BY <1>a, <2>1, <3>5, SeedIs
      <4>2. Stored(b, k) \in {Stored(a, k), <<>>}
        BY <2>1, <3>2, <3>5, RememberIs
      <4>. QED
        BY <1>c, <3>4, <4>1, <4>2
    <3>6. CASE c = k /\ (history[r] = <<>> \/ ~MemoryEnabled)
      <4>1. a = memory
        BY <3>6 DEF Seed
      <4>2. Kept(memory, k) \subseteq TurnsOf(Stored(b, k))
        BY <1>a, <2>1, <3>6, <4>1, RememberKeeps
      <4>. QED
        BY <3>4, <4>2
    <3>7. CASE c = k /\ history[r] # <<>> /\ MemoryEnabled
      <4>1. t \in TurnsOf(history[r]) /\ Len(history[r]) <= 2 * (HistoryTurns - 1)
        BY <1>d, <2>1, <3>7
      <4>2. TurnsOf(history[r]) \subseteq TurnsOf(Stored(b, k))
        BY <1>a, <2>1, <3>7, <4>1, FinishedKeeps
      <4>. QED
        BY <3>4, <4>1, <4>2
    <3>. QED
      BY <3>5, <3>6, <3>7
  <2>. QED
    BY <2>2, <2>3
<1>5. CASE Expire
  BY <1>5, <1>a, <1>c, AgeIs DEF Expire
<1>6. CASE Quiet
  BY <1>6, <1>c DEF Quiet
<1>. QED
  BY <1>1, <1>2, <1>3, <1>4, <1>5, <1>6, Steps

\* Only a history that was brought along makes a conversation lose a turn
\* before later ones need the room (application.py:560-562, llm.py:40-42).
THEOREM TurnsAreKept == Spec => TurnsKept
<1>. DEFINE Keeps == \A k \in Keys :
        LET before == Newest(Stored(Prune(memory), k), 2 * (HistoryTurns - 1))
            after == Stored(memory', k)
        IN  after # <<>> =>
              \A t \in TurnsOf(before) \ TurnsOf(after) :
                \E r \in Requests :
                  /\ UnderWay(r) /\ body[r].key = k /\ history[r] # <<>>
                  /\ \/ t \notin known[r]
                     \/ Len(history[r]) > 2 * (HistoryTurns - 1)
<1>1. IInv /\ DataInvs /\ [Next]_vars => Keeps
  BY KeepsStep DEF IInv, DataInvs, Kept, Excused
<1>. QED
  BY <1>1, Inductive, DataInductive, PTL DEF TurnsKept, Spec
=============================================================================
