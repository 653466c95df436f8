------------------------ MODULE VoicePipelineProofs ------------------------
(***************************************************************************)
(* Theorems about VoicePipeline for any number of requests and of planned  *)
(* steps, with both settings on or off.                                    *)
(***************************************************************************)
EXTENDS VoicePipeline, TLAPS

(* The inductive invariant, part by part.                                  *)

\* A request that executes has a step to execute, and one that still plans
\* has deferred nothing.
PlanInv ==
  \A r \in Requests :
    /\ Executing(r) \/ pc[r] = "delegate" => left[r] > 0
    /\ pc[r] = "plan" => mark[r] = 0

\* The window of the replay guard is open for a remembered response only.
ReplayInv == window => replay

IInv == PlanInv /\ ReplayInv /\ UnknownIsFinal /\ LockIsRunning

-----------------------------------------------------------------------------

\* An execution that may have begun keeps its count and acted in their types
\* (client.py:314-334, intent_executor.py:772-782).
LEMMA BeginType ==
  ASSUME TypeOK, NEW r \in Requests, Begin(r) \/ UNCHANGED <<sent, acted>>
  PROVE  sent' \in [Requests -> 0..2] /\ acted' \in [Requests -> BOOLEAN]
<1>1. CASE Begin(r)
  <2>1. sent' \in [Requests -> 0..2]
    BY <1>1 DEF Begin, More, TypeOK
  <2>2. acted' \in [Requests -> BOOLEAN]
    BY <1>1 DEF Begin, TypeOK
  <2>. QED
    BY <2>1, <2>2
<1>2. CASE UNCHANGED <<sent, acted>>
  BY <1>2 DEF TypeOK
<1>. QED
  BY <1>1, <1>2

\* Every step keeps every variable in its type; counting down the planned
\* steps needs PlanInv.
LEMMA TypeStep ==
  ASSUME TypeOK, PlanInv, [Next]_vars
  PROVE  TypeOK'
<1>. USE StepsAssumption DEF TypeOK, PlanInv, Executing, vars, request,
                             progress, session, shared
<1>1. ASSUME NEW r \in Requests, PlanDeclines(r) PROVE TypeOK'
  BY <1>1 DEF PlanDeclines
<1>2. ASSUME NEW r \in Requests, PlanAnswers(r) PROVE TypeOK'
  BY <1>2 DEF PlanAnswers, Answer
<1>3. ASSUME NEW r \in Requests, PlanAsks(r) PROVE TypeOK'
  <2>1. pending' \in Nat /\ isAmb' \in BOOLEAN /\ asked' \in Nat
    BY <1>3 DEF PlanAsks
  <2>2. PICK ambiguous \in BOOLEAN : Ask(r, ambiguous)
    BY <1>3, <2>1 DEF PlanAsks
  <2>3. /\ mark' \in [Requests -> Nat]
        /\ deferred' \in [Requests -> BOOLEAN]
    BY <2>1, <2>2 DEF Ask
  <2>4. /\ pc' = [pc EXCEPT ![r] = "info"] \/ pc' = [pc EXCEPT ![r] = "done"]
        /\ out' = out \/ out' = [out EXCEPT ![r] = "question"]
    BY <2>2 DEF Ask, Answer
  <2>. QED
    BY <1>3, <2>1, <2>3, <2>4 DEF PlanAsks
<1>4. ASSUME NEW r \in Requests, PlanSteps(r) PROVE TypeOK'
  BY <1>4 DEF PlanSteps
<1>5. ASSUME NEW r \in Requests, ClientResends(r) PROVE TypeOK'
  <2>1. /\ sent' \in [Requests -> 0..2]
        /\ acted' \in [Requests -> BOOLEAN]
    <3>1. Begin(r) \/ UNCHANGED <<sent, acted>>
      BY <1>5 DEF ClientResends, Unanswered
    <3>. QED
      BY <3>1, BeginType
  <2>2. unknown' \in [Requests -> BOOLEAN]
    BY <1>5 DEF ClientResends, Unanswered
  <2>. QED
    BY <1>5, <2>1, <2>2 DEF ClientResends
<1>6. ASSUME NEW r \in Requests, Rejected(r) PROVE TypeOK'
  <2>1. /\ sent' \in [Requests -> 0..2]
        /\ acted' \in [Requests -> BOOLEAN]
    <3>1. Begin(r) \/ UNCHANGED <<sent, acted>>
      BY <1>6 DEF Rejected
    <3>. QED
      BY <3>1, BeginType
  <2>. QED
    BY <1>6, <2>1 DEF Rejected, EndCall
<1>7. ASSUME NEW r \in Requests, Missed(r) PROVE TypeOK'
  BY <1>7 DEF Missed, EndCall
<1>8. ASSUME NEW r \in Requests, StepDone(r) PROVE TypeOK'
  BY <1>8 DEF StepDone, NextStep, More, EndCall, MoreSteps, Executing, Succeed,
              Answer, Dismiss
<1>9. ASSUME NEW r \in Requests, StepSpeechless(r) PROVE TypeOK'
  BY <1>9 DEF StepSpeechless, Executing, Begin, More, EndCall
<1>10. ASSUME NEW r \in Requests, DelegateCalls(r) PROVE TypeOK'
  BY <1>10 DEF DelegateCalls, Begin, More
<1>11. ASSUME NEW r \in Requests, Delegated(r) PROVE TypeOK'
  BY <1>11 DEF Delegated, NextStep, EndCall, MoreSteps, Succeed, Answer,
               Dismiss
<1>12. ASSUME NEW r \in Requests, StepDeclined(r) PROVE TypeOK'
  BY <1>12 DEF StepDeclined, Executing, EndCall
<1>13. ASSUME NEW r \in Requests, StepRaised(r) PROVE TypeOK'
  <2>1. /\ sent' \in [Requests -> 0..2]
        /\ acted' \in [Requests -> BOOLEAN]
    <3>1. Begin(r) \/ UNCHANGED <<sent, acted>>
      BY <1>13 DEF StepRaised, Unanswered
    <3>. QED
      BY <3>1, BeginType
  <2>2. unknown' \in [Requests -> BOOLEAN]
    BY <1>13 DEF StepRaised, Unanswered
  <2>. QED
    BY <1>13, <2>1, <2>2 DEF StepRaised, Answer
<1>14. ASSUME NEW r \in Requests, InfoDeclines(r) PROVE TypeOK'
  BY <1>14 DEF InfoDeclines
<1>15. ASSUME NEW r \in Requests, InfoQueues(r) PROVE TypeOK'
  BY <1>15 DEF InfoQueues
<1>16. ASSUME NEW r \in Requests, InfoStarts(r) PROVE TypeOK'
  BY <1>16 DEF InfoStarts
<1>17. ASSUME NEW r \in Requests, InfoEnds(r) PROVE TypeOK'
  BY <1>17 DEF InfoEnds, Succeed, Answer, Dismiss
<1>18. ASSUME NEW r \in Requests, LlmUnavailable(r) PROVE TypeOK'
  BY <1>18 DEF LlmUnavailable, Exhausted, Answer
<1>19. ASSUME NEW r \in Requests, LlmQueues(r) PROVE TypeOK'
  BY <1>19 DEF LlmQueues
<1>20. ASSUME NEW r \in Requests, LlmStarts(r) PROVE TypeOK'
  BY <1>20 DEF LlmStarts, Succeed, Answer, Dismiss
<1>21. ASSUME NEW r \in Requests, AgentEnds(r) PROVE TypeOK'
  <2>1. CASE LlmSucceeds(r)
    <3>1. pending' \in Nat
      BY <2>1 DEF LlmSucceeds, Succeed, Dismiss
    <3>2. lock' = None /\ replay' \in BOOLEAN /\ window' \in BOOLEAN
      BY <2>1 DEF LlmSucceeds
    <3>. QED
      BY <1>21, <2>1, <3>1, <3>2 DEF AgentEnds, LlmSucceeds, Succeed, Answer
  <2>2. CASE LlmFails(r)
    BY <1>21, <2>2 DEF AgentEnds, LlmFails, Exhausted, Answer
  <2>. QED
    BY <1>21, <2>1, <2>2 DEF AgentEnds
<1>22. ASSUME NEW r \in Requests, Recovered(r) PROVE TypeOK'
  <2>1. CASE LlmSucceeds(r)
    <3>1. pending' \in Nat
      BY <2>1 DEF LlmSucceeds, Succeed, Dismiss
    <3>2. lock' = None /\ replay' \in BOOLEAN /\ window' \in BOOLEAN
      BY <2>1 DEF LlmSucceeds
    <3>. QED
      BY <1>22, <2>1, <3>1, <3>2 DEF Recovered, LlmSucceeds, Succeed, Answer
  <2>2. CASE LlmFails(r)
    BY <1>22, <2>2 DEF Recovered, LlmFails, Exhausted, Answer
  <2>. QED
    BY <1>22, <2>1, <2>2 DEF Recovered
<1>23. ASSUME NEW r \in Requests, AgentCalls(r) PROVE TypeOK'
  BY <1>23 DEF AgentCalls
<1>24. CASE WindowCloses
  BY <1>24 DEF WindowCloses
<1>25. CASE UNCHANGED vars
  BY <1>25
<1>. QED
  BY <1>1, <1>2, <1>3, <1>4, <1>5, <1>6, <1>7, <1>8, <1>9, <1>10, <1>11,
     <1>12, <1>13, <1>14, <1>15, <1>16, <1>17, <1>18, <1>19, <1>20, <1>21,
     <1>22, <1>23, <1>24, <1>25
  DEF Next, Step, PlanStep, ExecuteStep, AgentStep

\* Planning hands over at least one step (engine.py:616-650 is not entered
\* without), and only planning gives up a question (route.py:124-135).
LEMMA PlanStepInv ==
  ASSUME TypeOK, PlanInv, [Next]_vars
  PROVE  PlanInv'
<1>. USE StepsAssumption DEF TypeOK, PlanInv, Executing, vars, request,
                             progress, session, shared
<1>1. ASSUME NEW r \in Requests, PlanDeclines(r) PROVE PlanInv'
  BY <1>1 DEF PlanDeclines
<1>2. ASSUME NEW r \in Requests, PlanAnswers(r) PROVE PlanInv'
  BY <1>2 DEF PlanAnswers, Answer
<1>3. ASSUME NEW r \in Requests, PlanAsks(r) PROVE PlanInv'
  BY <1>3 DEF PlanAsks, Ask, Answer
<1>4. ASSUME NEW r \in Requests, PlanSteps(r) PROVE PlanInv'
  BY <1>4 DEF PlanSteps
<1>5. ASSUME NEW r \in Requests, ClientResends(r) PROVE PlanInv'
  BY <1>5 DEF ClientResends, Unanswered, Begin, More
<1>6. ASSUME NEW r \in Requests, Rejected(r) PROVE PlanInv'
  BY <1>6 DEF Rejected, Begin, More, EndCall
<1>7. ASSUME NEW r \in Requests, Missed(r) PROVE PlanInv'
  BY <1>7 DEF Missed, EndCall
<1>8. ASSUME NEW r \in Requests, StepDone(r) PROVE PlanInv'
  BY <1>8 DEF StepDone, NextStep, More, EndCall, MoreSteps, Executing, Succeed,
              Answer, Dismiss
<1>9. ASSUME NEW r \in Requests, StepSpeechless(r) PROVE PlanInv'
  BY <1>9 DEF StepSpeechless, Executing, Begin, More, EndCall
<1>10. ASSUME NEW r \in Requests, DelegateCalls(r) PROVE PlanInv'
  BY <1>10 DEF DelegateCalls, Begin, More
<1>11. ASSUME NEW r \in Requests, Delegated(r) PROVE PlanInv'
  BY <1>11 DEF Delegated, NextStep, EndCall, MoreSteps, Succeed, Answer,
               Dismiss
<1>12. ASSUME NEW r \in Requests, StepDeclined(r) PROVE PlanInv'
  BY <1>12 DEF StepDeclined, Executing, EndCall
<1>13. ASSUME NEW r \in Requests, StepRaised(r) PROVE PlanInv'
  BY <1>13 DEF StepRaised, Executing, Unanswered, Begin, More, Answer
<1>14. ASSUME NEW r \in Requests, InfoDeclines(r) PROVE PlanInv'
  BY <1>14 DEF InfoDeclines
<1>15. ASSUME NEW r \in Requests, InfoQueues(r) PROVE PlanInv'
  BY <1>15 DEF InfoQueues
<1>16. ASSUME NEW r \in Requests, InfoStarts(r) PROVE PlanInv'
  BY <1>16 DEF InfoStarts
<1>17. ASSUME NEW r \in Requests, InfoEnds(r) PROVE PlanInv'
  BY <1>17 DEF InfoEnds, Succeed, Answer, Dismiss
<1>18. ASSUME NEW r \in Requests, LlmUnavailable(r) PROVE PlanInv'
  BY <1>18 DEF LlmUnavailable, Exhausted, Answer
<1>19. ASSUME NEW r \in Requests, LlmQueues(r) PROVE PlanInv'
  BY <1>19 DEF LlmQueues
<1>20. ASSUME NEW r \in Requests, LlmStarts(r) PROVE PlanInv'
  BY <1>20 DEF LlmStarts, Succeed, Answer, Dismiss
<1>21. ASSUME NEW r \in Requests, AgentEnds(r) PROVE PlanInv'
  BY <1>21 DEF AgentEnds, LlmSucceeds, LlmFails, Exhausted, Succeed, Answer,
               Dismiss
<1>22. ASSUME NEW r \in Requests, Recovered(r) PROVE PlanInv'
  BY <1>22 DEF Recovered, LlmSucceeds, LlmFails, Exhausted, Succeed, Answer,
               Dismiss
<1>23. ASSUME NEW r \in Requests, AgentCalls(r) PROVE PlanInv'
  BY <1>23 DEF AgentCalls
<1>24. CASE WindowCloses
  BY <1>24 DEF WindowCloses
<1>25. CASE UNCHANGED vars
  BY <1>25
<1>. QED
  BY <1>1, <1>2, <1>3, <1>4, <1>5, <1>6, <1>7, <1>8, <1>9, <1>10, <1>11,
     <1>12, <1>13, <1>14, <1>15, <1>16, <1>17, <1>18, <1>19, <1>20, <1>21,
     <1>22, <1>23, <1>24, <1>25
  DEF Next, Step, PlanStep, ExecuteStep, AgentStep

\* The replay entry is made with its window and dropped with it (llm.py:202).
LEMMA ReplayStep ==
  ASSUME TypeOK, ReplayInv, [Next]_vars
  PROVE  ReplayInv'
<1>. USE DEF ReplayInv, vars, request, progress, session, shared
<1>1. ASSUME NEW r \in Requests, PlanDeclines(r) PROVE ReplayInv'
  BY <1>1 DEF PlanDeclines
<1>2. ASSUME NEW r \in Requests, PlanAnswers(r) PROVE ReplayInv'
  BY <1>2 DEF PlanAnswers, Answer
<1>3. ASSUME NEW r \in Requests, PlanAsks(r) PROVE ReplayInv'
  BY <1>3 DEF PlanAsks, Ask, Answer
<1>4. ASSUME NEW r \in Requests, PlanSteps(r) PROVE ReplayInv'
  BY <1>4 DEF PlanSteps
<1>5. ASSUME NEW r \in Requests, ClientResends(r) PROVE ReplayInv'
  BY <1>5 DEF ClientResends, Unanswered, Begin, More
<1>6. ASSUME NEW r \in Requests, Rejected(r) PROVE ReplayInv'
  BY <1>6 DEF Rejected, Begin, More, EndCall
<1>7. ASSUME NEW r \in Requests, Missed(r) PROVE ReplayInv'
  BY <1>7 DEF Missed, EndCall
<1>8. ASSUME NEW r \in Requests, StepDone(r) PROVE ReplayInv'
  BY <1>8 DEF StepDone, NextStep, More, EndCall, MoreSteps, Executing, Succeed,
              Answer, Dismiss
<1>9. ASSUME NEW r \in Requests, StepSpeechless(r) PROVE ReplayInv'
  BY <1>9 DEF StepSpeechless, Executing, Begin, More, EndCall
<1>10. ASSUME NEW r \in Requests, DelegateCalls(r) PROVE ReplayInv'
  BY <1>10 DEF DelegateCalls, Begin, More
<1>11. ASSUME NEW r \in Requests, Delegated(r) PROVE ReplayInv'
  BY <1>11 DEF Delegated, NextStep, EndCall, MoreSteps, Succeed, Answer,
               Dismiss
<1>12. ASSUME NEW r \in Requests, StepDeclined(r) PROVE ReplayInv'
  BY <1>12 DEF StepDeclined, Executing, EndCall
<1>13. ASSUME NEW r \in Requests, StepRaised(r) PROVE ReplayInv'
  BY <1>13 DEF StepRaised, Executing, Unanswered, Begin, More, Answer
<1>14. ASSUME NEW r \in Requests, InfoDeclines(r) PROVE ReplayInv'
  BY <1>14 DEF InfoDeclines
<1>15. ASSUME NEW r \in Requests, InfoQueues(r) PROVE ReplayInv'
  BY <1>15 DEF InfoQueues
<1>16. ASSUME NEW r \in Requests, InfoStarts(r) PROVE ReplayInv'
  BY <1>16 DEF InfoStarts
<1>17. ASSUME NEW r \in Requests, InfoEnds(r) PROVE ReplayInv'
  BY <1>17 DEF InfoEnds, Succeed, Answer, Dismiss
<1>18. ASSUME NEW r \in Requests, LlmUnavailable(r) PROVE ReplayInv'
  BY <1>18 DEF LlmUnavailable, Exhausted, Answer
<1>19. ASSUME NEW r \in Requests, LlmQueues(r) PROVE ReplayInv'
  BY <1>19 DEF LlmQueues
<1>20. ASSUME NEW r \in Requests, LlmStarts(r) PROVE ReplayInv'
  BY <1>20 DEF LlmStarts, Succeed, Answer, Dismiss
<1>21. ASSUME NEW r \in Requests, AgentEnds(r) PROVE ReplayInv'
  BY <1>21 DEF AgentEnds, LlmSucceeds, LlmFails, Exhausted, Succeed, Answer,
               Dismiss
<1>22. ASSUME NEW r \in Requests, Recovered(r) PROVE ReplayInv'
  BY <1>22 DEF Recovered, LlmSucceeds, LlmFails, Exhausted, Succeed, Answer,
               Dismiss
<1>23. ASSUME NEW r \in Requests, AgentCalls(r) PROVE ReplayInv'
  BY <1>23 DEF AgentCalls
<1>24. CASE WindowCloses
  BY <1>24 DEF WindowCloses
<1>25. CASE UNCHANGED vars
  BY <1>25
<1>. QED
  BY <1>1, <1>2, <1>3, <1>4, <1>5, <1>6, <1>7, <1>8, <1>9, <1>10, <1>11,
     <1>12, <1>13, <1>14, <1>15, <1>16, <1>17, <1>18, <1>19, <1>20, <1>21,
     <1>22, <1>23, <1>24, <1>25
  DEF Next, Step, PlanStep, ExecuteStep, AgentStep

\* A call without an answer is at most resent by the client, or fails the
\* request; every answer ends the doubt (client.py:319-333, engine.py:705-708).
LEMMA UnknownStep ==
  ASSUME TypeOK, UnknownIsFinal, [Next]_vars
  PROVE  UnknownIsFinal'
<1>. USE DEF TypeOK, UnknownIsFinal, vars, request, progress, session, shared
<1>1. ASSUME NEW r \in Requests, PlanDeclines(r) PROVE UnknownIsFinal'
  BY <1>1 DEF PlanDeclines
<1>2. ASSUME NEW r \in Requests, PlanAnswers(r) PROVE UnknownIsFinal'
  BY <1>2 DEF PlanAnswers, Answer
<1>3. ASSUME NEW r \in Requests, PlanAsks(r) PROVE UnknownIsFinal'
  BY <1>3 DEF PlanAsks, Ask, Answer
<1>4. ASSUME NEW r \in Requests, PlanSteps(r) PROVE UnknownIsFinal'
  BY <1>4 DEF PlanSteps
<1>5. ASSUME NEW r \in Requests, ClientResends(r) PROVE UnknownIsFinal'
  BY <1>5 DEF ClientResends, Unanswered, Begin, More
<1>6. ASSUME NEW r \in Requests, Rejected(r) PROVE UnknownIsFinal'
  BY <1>6 DEF Rejected, Begin, More, EndCall
<1>7. ASSUME NEW r \in Requests, Missed(r) PROVE UnknownIsFinal'
  BY <1>7 DEF Missed, EndCall
<1>8. ASSUME NEW r \in Requests, StepDone(r) PROVE UnknownIsFinal'
  BY <1>8 DEF StepDone, NextStep, More, EndCall, MoreSteps, Executing, Succeed,
              Answer, Dismiss
<1>9. ASSUME NEW r \in Requests, StepSpeechless(r) PROVE UnknownIsFinal'
  BY <1>9 DEF StepSpeechless, Executing, Begin, More, EndCall
<1>10. ASSUME NEW r \in Requests, DelegateCalls(r) PROVE UnknownIsFinal'
  BY <1>10 DEF DelegateCalls, Begin, More
<1>11. ASSUME NEW r \in Requests, Delegated(r) PROVE UnknownIsFinal'
  BY <1>11 DEF Delegated, NextStep, EndCall, MoreSteps, Succeed, Answer,
               Dismiss
<1>12. ASSUME NEW r \in Requests, StepDeclined(r) PROVE UnknownIsFinal'
  BY <1>12 DEF StepDeclined, Executing, EndCall
<1>13. ASSUME NEW r \in Requests, StepRaised(r) PROVE UnknownIsFinal'
  BY <1>13 DEF StepRaised, Executing, Unanswered, Begin, More, Answer
<1>14. ASSUME NEW r \in Requests, InfoDeclines(r) PROVE UnknownIsFinal'
  BY <1>14 DEF InfoDeclines
<1>15. ASSUME NEW r \in Requests, InfoQueues(r) PROVE UnknownIsFinal'
  BY <1>15 DEF InfoQueues
<1>16. ASSUME NEW r \in Requests, InfoStarts(r) PROVE UnknownIsFinal'
  BY <1>16 DEF InfoStarts
<1>17. ASSUME NEW r \in Requests, InfoEnds(r) PROVE UnknownIsFinal'
  BY <1>17 DEF InfoEnds, Succeed, Answer, Dismiss
<1>18. ASSUME NEW r \in Requests, LlmUnavailable(r) PROVE UnknownIsFinal'
  BY <1>18 DEF LlmUnavailable, Exhausted, Answer
<1>19. ASSUME NEW r \in Requests, LlmQueues(r) PROVE UnknownIsFinal'
  BY <1>19 DEF LlmQueues
<1>20. ASSUME NEW r \in Requests, LlmStarts(r) PROVE UnknownIsFinal'
  BY <1>20 DEF LlmStarts, Succeed, Answer, Dismiss
<1>21. ASSUME NEW r \in Requests, AgentEnds(r) PROVE UnknownIsFinal'
  BY <1>21 DEF AgentEnds, LlmSucceeds, LlmFails, Exhausted, Succeed, Answer,
               Dismiss
<1>22. ASSUME NEW r \in Requests, Recovered(r) PROVE UnknownIsFinal'
  BY <1>22 DEF Recovered, LlmSucceeds, LlmFails, Exhausted, Succeed, Answer,
               Dismiss
<1>23. ASSUME NEW r \in Requests, AgentCalls(r) PROVE UnknownIsFinal'
  BY <1>23 DEF AgentCalls
<1>24. CASE WindowCloses
  BY <1>24 DEF WindowCloses
<1>25. CASE UNCHANGED vars
  BY <1>25
<1>. QED
  BY <1>1, <1>2, <1>3, <1>4, <1>5, <1>6, <1>7, <1>8, <1>9, <1>10, <1>11,
     <1>12, <1>13, <1>14, <1>15, <1>16, <1>17, <1>18, <1>19, <1>20, <1>21,
     <1>22, <1>23, <1>24, <1>25
  DEF Next, Step, PlanStep, ExecuteStep, AgentStep

\* The lock is taken and given up together with the agent run (llm.py:72, 269).
LEMMA LockStep ==
  ASSUME TypeOK, LockIsRunning, [Next]_vars
  PROVE  LockIsRunning'
<1>. USE NoneAssumption DEF TypeOK, LockIsRunning, vars, request, progress,
                            session, shared
<1>1. ASSUME NEW r \in Requests, PlanDeclines(r) PROVE LockIsRunning'
  BY <1>1 DEF PlanDeclines
<1>2. ASSUME NEW r \in Requests, PlanAnswers(r) PROVE LockIsRunning'
  BY <1>2 DEF PlanAnswers, Answer
<1>3. ASSUME NEW r \in Requests, PlanAsks(r) PROVE LockIsRunning'
  BY <1>3 DEF PlanAsks, Ask, Answer
<1>4. ASSUME NEW r \in Requests, PlanSteps(r) PROVE LockIsRunning'
  BY <1>4 DEF PlanSteps
<1>5. ASSUME NEW r \in Requests, ClientResends(r) PROVE LockIsRunning'
  BY <1>5 DEF ClientResends, Unanswered, Begin, More
<1>6. ASSUME NEW r \in Requests, Rejected(r) PROVE LockIsRunning'
  BY <1>6 DEF Rejected, Begin, More, EndCall
<1>7. ASSUME NEW r \in Requests, Missed(r) PROVE LockIsRunning'
  BY <1>7 DEF Missed, EndCall
<1>8. ASSUME NEW r \in Requests, StepDone(r) PROVE LockIsRunning'
  BY <1>8 DEF StepDone, NextStep, More, EndCall, MoreSteps, Executing, Succeed,
              Answer, Dismiss
<1>9. ASSUME NEW r \in Requests, StepSpeechless(r) PROVE LockIsRunning'
  BY <1>9 DEF StepSpeechless, Executing, Begin, More, EndCall
<1>10. ASSUME NEW r \in Requests, DelegateCalls(r) PROVE LockIsRunning'
  BY <1>10 DEF DelegateCalls, Begin, More
<1>11. ASSUME NEW r \in Requests, Delegated(r) PROVE LockIsRunning'
  BY <1>11 DEF Delegated, NextStep, EndCall, MoreSteps, Succeed, Answer,
               Dismiss
<1>12. ASSUME NEW r \in Requests, StepDeclined(r) PROVE LockIsRunning'
  BY <1>12 DEF StepDeclined, Executing, EndCall
<1>13. ASSUME NEW r \in Requests, StepRaised(r) PROVE LockIsRunning'
  BY <1>13 DEF StepRaised, Executing, Unanswered, Begin, More, Answer
<1>14. ASSUME NEW r \in Requests, InfoDeclines(r) PROVE LockIsRunning'
  BY <1>14 DEF InfoDeclines
<1>15. ASSUME NEW r \in Requests, InfoQueues(r) PROVE LockIsRunning'
  BY <1>15 DEF InfoQueues
<1>16. ASSUME NEW r \in Requests, InfoStarts(r) PROVE LockIsRunning'
  BY <1>16 DEF InfoStarts
<1>17. ASSUME NEW r \in Requests, InfoEnds(r) PROVE LockIsRunning'
  BY <1>17 DEF InfoEnds, Succeed, Answer, Dismiss
<1>18. ASSUME NEW r \in Requests, LlmUnavailable(r) PROVE LockIsRunning'
  BY <1>18 DEF LlmUnavailable, Exhausted, Answer
<1>19. ASSUME NEW r \in Requests, LlmQueues(r) PROVE LockIsRunning'
  BY <1>19 DEF LlmQueues
<1>20. ASSUME NEW r \in Requests, LlmStarts(r) PROVE LockIsRunning'
  BY <1>20 DEF LlmStarts, Succeed, Answer, Dismiss
<1>21. ASSUME NEW r \in Requests, AgentEnds(r) PROVE LockIsRunning'
  BY <1>21 DEF AgentEnds, LlmSucceeds, LlmFails, Exhausted, Succeed, Answer,
               Dismiss
<1>22. ASSUME NEW r \in Requests, Recovered(r) PROVE LockIsRunning'
  BY <1>22 DEF Recovered, LlmSucceeds, LlmFails, Exhausted, Succeed, Answer,
               Dismiss
<1>23. ASSUME NEW r \in Requests, AgentCalls(r) PROVE LockIsRunning'
  BY <1>23 DEF AgentCalls
<1>24. CASE WindowCloses
  BY <1>24 DEF WindowCloses
<1>25. CASE UNCHANGED vars
  BY <1>25
<1>. QED
  BY <1>1, <1>2, <1>3, <1>4, <1>5, <1>6, <1>7, <1>8, <1>9, <1>10, <1>11,
     <1>12, <1>13, <1>14, <1>15, <1>16, <1>17, <1>18, <1>19, <1>20, <1>21,
     <1>22, <1>23, <1>24, <1>25
  DEF Next, Step, PlanStep, ExecuteStep, AgentStep

-----------------------------------------------------------------------------

\* The type invariant and IInv hold in every reachable state, for any number
\* of requests and steps: planning and its steps (engine.py), the agent runs
\* and their lock (llm.py) and the end of a request (voice.py) keep them.
THEOREM Inductive == Spec => [](TypeOK /\ IInv)
<1>1. Init => TypeOK /\ IInv
  <2> SUFFICES ASSUME Init PROVE TypeOK /\ IInv
    OBVIOUS
  <2>1. TypeOK
    <3>1. left \in [Requests -> 0..MaxSteps] /\ sent \in [Requests -> 0..2]
          /\ mark \in [Requests -> Nat]
      BY StepsAssumption DEF Init
    <3>2. /\ acted \in [Requests -> BOOLEAN]
          /\ unknown \in [Requests -> BOOLEAN]
          /\ resent \in [Requests -> BOOLEAN]
          /\ deferred \in [Requests -> BOOLEAN]
      BY DEF Init
    <3>. QED
      BY <3>1, <3>2 DEF Init, TypeOK
  <2>2. PlanInv /\ ReplayInv /\ UnknownIsFinal
    BY DEF Init, PlanInv, Executing, ReplayInv, UnknownIsFinal
  <2>3. LockIsRunning
    BY NoneAssumption DEF Init, LockIsRunning
  <2>. QED
    BY <2>1, <2>2, <2>3 DEF IInv
<1>2. TypeOK /\ IInv /\ [Next]_vars => (TypeOK /\ IInv)'
  BY TypeStep, PlanStepInv, ReplayStep, UnknownStep, LockStep DEF IInv
<1>. QED
  BY <1>1, <1>2, PTL DEF Spec

\* Every variable keeps its type.
THEOREM TypeCorrect == Spec => []TypeOK
BY Inductive, PTL

\* However steps fail and routes follow each other, a command that a transport
\* may have begun and never answered is left to no other transport and to no
\* other route: it is resent once by the client that lost the reply, or it ends
\* the request with an error (client.py:319-333, intent_executor.py:766-782,
\* engine.py:705-708, voice.py:103-111).
THEOREM UnknownStaysFinal == Spec => []UnknownIsFinal
<1>1. IInv => UnknownIsFinal
  BY DEF IInv
<1>. QED
  BY <1>1, Inductive, PTL

\* Whichever way agent runs end, fallback_lock is held by the one request that
\* is inside a run, and by nobody when there is none (llm.py:72, 269).
THEOREM LockStaysAccurate == Spec => []LockIsRunning
<1>1. IInv => LockIsRunning
  BY DEF IInv
<1>. QED
  BY <1>1, Inductive, PTL

\* While a confirmed music action is remembered, no request starts an agent
\* for the same words (llm.py:72-86, 202-208).
THEOREM NeverReplayed == Spec => NoReplay
<1>. DEFINE Calm == window => \A r \in Requests : pc'[r] = "agent" => pc[r] = "agent"
<1>1. ASSUME TypeOK, IInv, [Next]_vars PROVE Calm
  <2>. USE <1>1 DEF TypeOK, IInv, ReplayInv, vars, request, progress, session,
                    shared
  <2>1. ASSUME NEW r \in Requests, PlanDeclines(r) PROVE Calm
    BY <2>1 DEF PlanDeclines
  <2>2. ASSUME NEW r \in Requests, PlanAnswers(r) PROVE Calm
    BY <2>2 DEF PlanAnswers, Answer
  <2>3. ASSUME NEW r \in Requests, PlanAsks(r) PROVE Calm
    BY <2>3 DEF PlanAsks, Ask, Answer
  <2>4. ASSUME NEW r \in Requests, PlanSteps(r) PROVE Calm
    BY <2>4 DEF PlanSteps
  <2>5. ASSUME NEW r \in Requests, ClientResends(r) PROVE Calm
    BY <2>5 DEF ClientResends, Unanswered, Begin, More
  <2>6. ASSUME NEW r \in Requests, Rejected(r) PROVE Calm
    BY <2>6 DEF Rejected, Begin, More, EndCall
  <2>7. ASSUME NEW r \in Requests, Missed(r) PROVE Calm
    BY <2>7 DEF Missed, EndCall
  <2>8. ASSUME NEW r \in Requests, StepDone(r) PROVE Calm
    BY <2>8 DEF StepDone, NextStep, More, EndCall, MoreSteps, Executing,
                Succeed, Answer, Dismiss
  <2>9. ASSUME NEW r \in Requests, StepSpeechless(r) PROVE Calm
    BY <2>9 DEF StepSpeechless, Executing, Begin, More, EndCall
  <2>10. ASSUME NEW r \in Requests, DelegateCalls(r) PROVE Calm
    BY <2>10 DEF DelegateCalls, Begin, More
  <2>11. ASSUME NEW r \in Requests, Delegated(r) PROVE Calm
    BY <2>11 DEF Delegated, NextStep, EndCall, MoreSteps, Succeed, Answer,
                 Dismiss
  <2>12. ASSUME NEW r \in Requests, StepDeclined(r) PROVE Calm
    BY <2>12 DEF StepDeclined, Executing, EndCall
  <2>13. ASSUME NEW r \in Requests, StepRaised(r) PROVE Calm
    BY <2>13 DEF StepRaised, Executing, Unanswered, Begin, More, Answer
  <2>14. ASSUME NEW r \in Requests, InfoDeclines(r) PROVE Calm
    BY <2>14 DEF InfoDeclines
  <2>15. ASSUME NEW r \in Requests, InfoQueues(r) PROVE Calm
    BY <2>15 DEF InfoQueues
  <2>16. ASSUME NEW r \in Requests, InfoStarts(r) PROVE Calm
    BY <2>16 DEF InfoStarts
  <2>17. ASSUME NEW r \in Requests, InfoEnds(r) PROVE Calm
    BY <2>17 DEF InfoEnds, Succeed, Answer, Dismiss
  <2>18. ASSUME NEW r \in Requests, LlmUnavailable(r) PROVE Calm
    BY <2>18 DEF LlmUnavailable, Exhausted, Answer
  <2>19. ASSUME NEW r \in Requests, LlmQueues(r) PROVE Calm
    BY <2>19 DEF LlmQueues
  <2>20. ASSUME NEW r \in Requests, LlmStarts(r) PROVE Calm
    BY <2>20 DEF LlmStarts, Succeed, Answer, Dismiss
  <2>21. ASSUME NEW r \in Requests, AgentEnds(r) PROVE Calm
    BY <2>21 DEF AgentEnds, LlmSucceeds, LlmFails, Exhausted, Succeed, Answer,
                 Dismiss
  <2>22. ASSUME NEW r \in Requests, Recovered(r) PROVE Calm
    BY <2>22 DEF Recovered, LlmSucceeds, LlmFails, Exhausted, Succeed, Answer,
                 Dismiss
  <2>23. ASSUME NEW r \in Requests, AgentCalls(r) PROVE Calm
    BY <2>23 DEF AgentCalls
  <2>24. CASE WindowCloses
    BY <2>24 DEF WindowCloses
  <2>25. CASE UNCHANGED vars
    BY <2>25
  <2>. QED
    BY <2>1, <2>2, <2>3, <2>4, <2>5, <2>6, <2>7, <2>8, <2>9, <2>10, <2>11,
       <2>12, <2>13, <2>14, <2>15, <2>16, <2>17, <2>18, <2>19, <2>20, <2>21,
       <2>22, <2>23, <2>24, <2>25
    DEF Next, Step, PlanStep, ExecuteStep, AgentStep
<1>. QED
  BY <1>1, Inductive, PTL DEF NoReplay, Spec

\* A question asked after a request noted the one it deferred stays when that
\* request ends (route.py:122-135, supplemental.py:1513-1518).
THEOREM NewerQuestionStays == Spec => NewerQuestionKept
<1>. DEFINE Kept == \A r \in Requests :
        mark[r] # 0 /\ pc[r] # "done" /\ pc'[r] = "done" /\ pending # mark[r]
          => pending' = pending
<1>1. ASSUME TypeOK, IInv, [Next]_vars PROVE Kept
  <2>. USE <1>1 DEF TypeOK, IInv, PlanInv, vars, request, progress, session,
                    shared
  <2>1. ASSUME NEW r \in Requests, PlanDeclines(r) PROVE Kept
    BY <2>1 DEF PlanDeclines
  <2>2. ASSUME NEW r \in Requests, PlanAnswers(r) PROVE Kept
    BY <2>2 DEF PlanAnswers, Answer
  <2>3. ASSUME NEW r \in Requests, PlanAsks(r) PROVE Kept
    BY <2>3 DEF PlanAsks, Ask, Answer
  <2>4. ASSUME NEW r \in Requests, PlanSteps(r) PROVE Kept
    BY <2>4 DEF PlanSteps
  <2>5. ASSUME NEW r \in Requests, ClientResends(r) PROVE Kept
    BY <2>5 DEF ClientResends, Unanswered, Begin, More
  <2>6. ASSUME NEW r \in Requests, Rejected(r) PROVE Kept
    BY <2>6 DEF Rejected, Begin, More, EndCall
  <2>7. ASSUME NEW r \in Requests, Missed(r) PROVE Kept
    BY <2>7 DEF Missed, EndCall
  <2>8. ASSUME NEW r \in Requests, StepDone(r) PROVE Kept
    BY <2>8 DEF StepDone, NextStep, More, EndCall, MoreSteps, Executing,
                Succeed, Answer, Dismiss
  <2>9. ASSUME NEW r \in Requests, StepSpeechless(r) PROVE Kept
    BY <2>9 DEF StepSpeechless, Executing, Begin, More, EndCall
  <2>10. ASSUME NEW r \in Requests, DelegateCalls(r) PROVE Kept
    BY <2>10 DEF DelegateCalls, Begin, More
  <2>11. ASSUME NEW r \in Requests, Delegated(r) PROVE Kept
    BY <2>11 DEF Delegated, NextStep, EndCall, MoreSteps, Succeed, Answer,
                 Dismiss
  <2>12. ASSUME NEW r \in Requests, StepDeclined(r) PROVE Kept
    BY <2>12 DEF StepDeclined, Executing, EndCall
  <2>13. ASSUME NEW r \in Requests, StepRaised(r) PROVE Kept
    BY <2>13 DEF StepRaised, Executing, Unanswered, Begin, More, Answer
  <2>14. ASSUME NEW r \in Requests, InfoDeclines(r) PROVE Kept
    BY <2>14 DEF InfoDeclines
  <2>15. ASSUME NEW r \in Requests, InfoQueues(r) PROVE Kept
    BY <2>15 DEF InfoQueues
  <2>16. ASSUME NEW r \in Requests, InfoStarts(r) PROVE Kept
    BY <2>16 DEF InfoStarts
  <2>17. ASSUME NEW r \in Requests, InfoEnds(r) PROVE Kept
    BY <2>17 DEF InfoEnds, Succeed, Answer, Dismiss
  <2>18. ASSUME NEW r \in Requests, LlmUnavailable(r) PROVE Kept
    BY <2>18 DEF LlmUnavailable, Exhausted, Answer
  <2>19. ASSUME NEW r \in Requests, LlmQueues(r) PROVE Kept
    BY <2>19 DEF LlmQueues
  <2>20. ASSUME NEW r \in Requests, LlmStarts(r) PROVE Kept
    BY <2>20 DEF LlmStarts, Succeed, Answer, Dismiss
  <2>21. ASSUME NEW r \in Requests, AgentEnds(r) PROVE Kept
    BY <2>21 DEF AgentEnds, LlmSucceeds, LlmFails, Exhausted, Succeed, Answer,
                 Dismiss
  <2>22. ASSUME NEW r \in Requests, Recovered(r) PROVE Kept
    BY <2>22 DEF Recovered, LlmSucceeds, LlmFails, Exhausted, Succeed, Answer,
                 Dismiss
  <2>23. ASSUME NEW r \in Requests, AgentCalls(r) PROVE Kept
    BY <2>23 DEF AgentCalls
  <2>24. CASE WindowCloses
    BY <2>24 DEF WindowCloses
  <2>25. CASE UNCHANGED vars
    BY <2>25
  <2>. QED
    BY <2>1, <2>2, <2>3, <2>4, <2>5, <2>6, <2>7, <2>8, <2>9, <2>10, <2>11,
       <2>12, <2>13, <2>14, <2>15, <2>16, <2>17, <2>18, <2>19, <2>20, <2>21,
       <2>22, <2>23, <2>24, <2>25
    DEF Next, Step, PlanStep, ExecuteStep, AgentStep
<1>. QED
  BY <1>1, Inductive, PTL DEF NewerQuestionKept, Spec
=============================================================================
