------------------------ MODULE MusicPlaybackProofs ------------------------
(***************************************************************************)
(* Theorems about MusicPlayback for any set of requests.                   *)
(***************************************************************************)
EXTENDS MusicPlayback, TLAPS

(* The inductive invariant, part by part.                                  *)

\* What a request has begun goes with where its tool call is.
StageInv ==
  \A r \in Requests :
    /\ pc[r] \in {"idle", "queued", "search", "tracks", "suppressed"}
         => cmd[r] = "none" /\ dedupe[r] = "none" /\ audio[r] = "none"
    /\ life[r] # "none" => pc[r] = "done"
    /\ pc[r] = "ack" \/ life[r] # "none" => cmd[r] # "none"
    /\ pc[r] = "tracks" => kind[r] = "radio" /\ record["radio"] = None
    /\ kind[r] = "play" => life[r] # "continue"

\* The record of a fingerprint belongs to the request under way.
RecordInv ==
  \A r \in Requests :
    /\ kind[r] = "play" /\ cmd[r] = "sent" => record["play"] = r
    /\ kind[r] = "radio" /\ (pc[r] = "ack" \/ life[r] \in {"wait", "continue"})
         => record["radio"] = r /\ dedupe[r] = "held"

\* The last playback among the first n calls of w, or else the last one
\* received, is of generation g.
Owns(w, gens, last, n, g) ==
  \/ last = g /\ \A k \in 1..n : w[k].what = "continue"
  \/ \E j \in 1..n : /\ w[j].what = "play" /\ gens[w[j].by] = g
                     /\ \A k \in (j + 1)..n : w[k].what = "continue"

\* The newest generation is that of the last playback sent, and a
\* continuation follows the playback of its own request.
WireInv ==
  /\ \A i \in 1..Len(wire) : cmd[wire[i].by] # "none"
  /\ Owns(wire, mine, received, Len(wire), gen)
  /\ \A i \in 1..Len(wire) :
       wire[i].what = "continue"
         => Owns(wire, mine, received, i - 1, mine[wire[i].by])

IInv == StageInv /\ RecordInv /\ WireInv

-----------------------------------------------------------------------------

\* The first and the rest of a sequence that is not empty.
LEMMA HeadTail ==
  ASSUME NEW S, NEW s \in Seq(S), s # <<>>
  PROVE  Head(s) \in S /\ Tail(s) \in Seq(S)
  OBVIOUS

\* Every step keeps every variable in its type.
LEMMA TypeStep ==
  ASSUME TypeOK, [Next]_vars
  PROVE  TypeOK'
<1>. USE RequestsAssumption DEF TypeOK, Message, Kinds, vars, manager, request, world
<1>1. ASSUME NEW r \in Requests, Ask(r) PROVE TypeOK'
  BY <1>1 DEF Ask
<1>2. ASSUME NEW r \in Requests, Enter(r) PROVE TypeOK'
  BY <1>2 DEF Enter
<1>3. ASSUME NEW r \in Requests, Suppress(r) PROVE TypeOK'
  BY <1>3 DEF Suppress, Leave
<1>4. ASSUME NEW r \in Requests, PlayDispatch(r) PROVE TypeOK'
  BY <1>4 DEF PlayDispatch, Dispatch
<1>5. ASSUME NEW r \in Requests, AskTracks(r) PROVE TypeOK'
  BY <1>5 DEF AskTracks
<1>6. ASSUME NEW r \in Requests, RadioDispatch(r) PROVE TypeOK'
  BY <1>6 DEF RadioDispatch, Dispatch
<1>7. ASSUME NEW r \in Requests, NotFound(r) PROVE TypeOK'
  BY <1>7 DEF NotFound, Leave
<1>8. ASSUME NEW r \in Requests, NotConnected(r) PROVE TypeOK'
  BY <1>8 DEF NotConnected
<1>9. ASSUME NEW r \in Requests, PlayAcknowledged(r) PROVE TypeOK'
  BY <1>9 DEF PlayAcknowledged, Leave, Cleared
<1>10. ASSUME NEW r \in Requests, RadioRefused(r) PROVE TypeOK'
  BY <1>10 DEF RadioRefused, Leave, Cleared
<1>11. ASSUME NEW r \in Requests, Optimistic(r) PROVE TypeOK'
  BY <1>11 DEF Optimistic, Leave
<1>12. ASSUME NEW r \in Requests, CutOff(r) PROVE TypeOK'
  BY <1>12 DEF CutOff, Leave
<1>13. ASSUME NEW r \in Requests, PlayLifeEnds(r) PROVE TypeOK'
  BY <1>13 DEF PlayLifeEnds, Cleared
<1>14. ASSUME NEW r \in Requests, RadioGivesUp(r) PROVE TypeOK'
  BY <1>14 DEF RadioGivesUp, RadioLifeEnds, Cleared
<1>15. ASSUME NEW r \in Requests, Continue(r) PROVE TypeOK'
  BY <1>15 DEF Continue
<1>16. ASSUME NEW r \in Requests, ContinueEnds(r) PROVE TypeOK'
  BY <1>16 DEF ContinueEnds, RadioLifeEnds, Cleared
<1>17. ASSUME NEW r \in Requests, Watch(r) PROVE TypeOK'
  <2>1. audio' \in [Requests -> {"none", "watch", "heard", "silent"}]
    <3>1. \/ audio' = [audio EXCEPT ![r] = "heard"]
          \/ audio' = [audio EXCEPT ![r] = "silent"]
      BY <1>17, Zenon DEF Watch
    <3>. QED
      BY <3>1
  <2>. QED
    BY <1>17, <2>1 DEF Watch
<1>18. ASSUME NEW r \in Requests, CommandEnds(r) PROVE TypeOK'
  <2>1. cmd' \in [Requests -> {"none", "sent", "ok", "failed"}]
    <3>1. \/ cmd' = [cmd EXCEPT ![r] = "ok"]
          \/ cmd' = [cmd EXCEPT ![r] = "failed"]
      BY <1>18, Zenon DEF CommandEnds
    <3>. QED
      BY <3>1
  <2>. QED
    BY <1>18, <2>1 DEF CommandEnds
<1>19. CASE Receive
  <2>1. wire \in Seq(Message) /\ wire # <<>>
    BY <1>19 DEF Receive
  <2>2. Head(wire) \in Message /\ Tail(wire) \in Seq(Message)
    BY <2>1, HeadTail
  <2>3. received' \in Nat
    BY <1>19, <2>2 DEF Receive
  <2>. QED
    BY <1>19, <2>2, <2>3 DEF Receive
<1>20. CASE UNCHANGED vars
  BY <1>20 DEF vars
<1>. QED
  BY <1>1, <1>2, <1>3, <1>4, <1>5, <1>6, <1>7, <1>8, <1>9, <1>10, <1>11, <1>12, <1>13, <1>14, <1>15, <1>16, <1>17, <1>18, <1>19, <1>20
  DEF Next, ToolStep, LifeStep

\* Every step keeps what a request has begun in line with its tool call.
LEMMA StageStep ==
  ASSUME TypeOK, StageInv, [Next]_vars
  PROVE  StageInv'
<1>. USE RequestsAssumption DEF TypeOK, StageInv, Kinds, vars, manager, request, world
<1>1. ASSUME NEW r \in Requests, Ask(r) PROVE StageInv'
  BY <1>1 DEF Ask
<1>2. ASSUME NEW r \in Requests, Enter(r) PROVE StageInv'
  BY <1>2 DEF Enter
<1>3. ASSUME NEW r \in Requests, Suppress(r) PROVE StageInv'
  BY <1>3 DEF Suppress, Leave
<1>4. ASSUME NEW r \in Requests, PlayDispatch(r) PROVE StageInv'
  BY <1>4 DEF PlayDispatch, Dispatch
<1>5. ASSUME NEW r \in Requests, AskTracks(r) PROVE StageInv'
  BY <1>5 DEF AskTracks
<1>6. ASSUME NEW r \in Requests, RadioDispatch(r) PROVE StageInv'
  BY <1>6 DEF RadioDispatch, Dispatch
<1>7. ASSUME NEW r \in Requests, NotFound(r) PROVE StageInv'
  BY <1>7 DEF NotFound, Leave
<1>8. ASSUME NEW r \in Requests, NotConnected(r) PROVE StageInv'
  BY <1>8 DEF NotConnected
<1>9. ASSUME NEW r \in Requests, PlayAcknowledged(r) PROVE StageInv'
  BY <1>9 DEF PlayAcknowledged, Leave, Cleared
<1>10. ASSUME NEW r \in Requests, RadioRefused(r) PROVE StageInv'
  BY <1>10 DEF RadioRefused, Leave, Cleared
<1>11. ASSUME NEW r \in Requests, Optimistic(r) PROVE StageInv'
  BY <1>11 DEF Optimistic, Leave
<1>12. ASSUME NEW r \in Requests, CutOff(r) PROVE StageInv'
  BY <1>12 DEF CutOff, Leave
<1>13. ASSUME NEW r \in Requests, PlayLifeEnds(r) PROVE StageInv'
  BY <1>13 DEF PlayLifeEnds, Cleared
<1>14. ASSUME NEW r \in Requests, RadioGivesUp(r) PROVE StageInv'
  BY <1>14 DEF RadioGivesUp, RadioLifeEnds, Cleared
<1>15. ASSUME NEW r \in Requests, Continue(r) PROVE StageInv'
  BY <1>15 DEF Continue
<1>16. ASSUME NEW r \in Requests, ContinueEnds(r) PROVE StageInv'
  BY <1>16 DEF ContinueEnds, RadioLifeEnds, Cleared
<1>17. ASSUME NEW r \in Requests, Watch(r) PROVE StageInv'
  BY <1>17 DEF Watch
<1>18. ASSUME NEW r \in Requests, CommandEnds(r) PROVE StageInv'
  BY <1>18 DEF CommandEnds
<1>19. CASE Receive
  BY <1>19 DEF Receive
<1>20. CASE UNCHANGED vars
  BY <1>20
<1>. QED
  BY <1>1, <1>2, <1>3, <1>4, <1>5, <1>6, <1>7, <1>8, <1>9, <1>10, <1>11, <1>12, <1>13, <1>14, <1>15, <1>16, <1>17, <1>18, <1>19, <1>20
  DEF Next, ToolStep, LifeStep

\* A record is replaced only once its task is done, and cleared only by its
\* owner.
LEMMA RecordStep ==
  ASSUME TypeOK, StageInv, RecordInv, [Next]_vars
  PROVE  RecordInv'
<1>. USE RequestsAssumption DEF TypeOK, StageInv, RecordInv, Kinds, vars, manager, request, world
<1>1. ASSUME NEW r \in Requests, Ask(r) PROVE RecordInv'
  BY <1>1 DEF Ask
<1>2. ASSUME NEW r \in Requests, Enter(r) PROVE RecordInv'
  BY <1>2 DEF Enter
<1>3. ASSUME NEW r \in Requests, Suppress(r) PROVE RecordInv'
  BY <1>3 DEF Suppress, Leave
<1>4. ASSUME NEW r \in Requests, PlayDispatch(r) PROVE RecordInv'
  BY <1>4 DEF PlayDispatch, Dispatch, InFlight, TaskDone
<1>5. ASSUME NEW r \in Requests, AskTracks(r) PROVE RecordInv'
  BY <1>5 DEF AskTracks, InFlight, TaskDone
<1>6. ASSUME NEW r \in Requests, RadioDispatch(r) PROVE RecordInv'
  BY <1>6 DEF RadioDispatch, Dispatch
<1>7. ASSUME NEW r \in Requests, NotFound(r) PROVE RecordInv'
  BY <1>7 DEF NotFound, Leave
<1>8. ASSUME NEW r \in Requests, NotConnected(r) PROVE RecordInv'
  BY <1>8 DEF NotConnected
<1>9. ASSUME NEW r \in Requests, PlayAcknowledged(r) PROVE RecordInv'
  BY <1>9 DEF PlayAcknowledged, Leave, Cleared
<1>10. ASSUME NEW r \in Requests, RadioRefused(r) PROVE RecordInv'
  <2>1. /\ kind[r] = "radio" /\ record' = [record EXCEPT !["radio"] = IF @ = r THEN None ELSE @]
        /\ pc'[r] \in {"failed", "done"} /\ life'[r] \in {"none", "over"}
        /\ \A q \in Requests \ {r} : pc'[q] = pc[q] /\ life'[q] = life[q] /\ dedupe'[q] = dedupe[q]
        /\ UNCHANGED <<kind, cmd>>
    BY <1>10 DEF RadioRefused, Leave, Cleared
  <2>. QED
    BY <2>1
<1>11. ASSUME NEW r \in Requests, Optimistic(r) PROVE RecordInv'
  BY <1>11 DEF Optimistic, Leave
<1>12. ASSUME NEW r \in Requests, CutOff(r) PROVE RecordInv'
  BY <1>12 DEF CutOff, Leave
<1>13. ASSUME NEW r \in Requests, PlayLifeEnds(r) PROVE RecordInv'
  BY <1>13 DEF PlayLifeEnds, Cleared
<1>14. ASSUME NEW r \in Requests, RadioGivesUp(r) PROVE RecordInv'
  <2>1. /\ kind[r] = "radio" /\ record' = [record EXCEPT !["radio"] = IF @ = r THEN None ELSE @]
        /\ pc'[r] \in {"failed", "done"} /\ life'[r] \in {"none", "over"}
        /\ \A q \in Requests \ {r} : pc'[q] = pc[q] /\ life'[q] = life[q] /\ dedupe'[q] = dedupe[q]
        /\ UNCHANGED <<kind, cmd>>
    BY <1>14 DEF RadioGivesUp, RadioLifeEnds, Cleared
  <2>. QED
    BY <2>1
<1>15. ASSUME NEW r \in Requests, Continue(r) PROVE RecordInv'
  BY <1>15 DEF Continue
<1>16. ASSUME NEW r \in Requests, ContinueEnds(r) PROVE RecordInv'
  <2>0. kind[r] = "radio" /\ pc[r] = "done"
    BY <1>16 DEF ContinueEnds
  <2>1. /\ kind[r] = "radio" /\ record' = [record EXCEPT !["radio"] = IF @ = r THEN None ELSE @]
        /\ pc'[r] \in {"failed", "done"} /\ life'[r] \in {"none", "over"}
        /\ \A q \in Requests \ {r} : pc'[q] = pc[q] /\ life'[q] = life[q] /\ dedupe'[q] = dedupe[q]
        /\ UNCHANGED <<kind, cmd>>
    BY <1>16, <2>0 DEF ContinueEnds, RadioLifeEnds, Cleared
  <2>. QED
    BY <2>1
<1>17. ASSUME NEW r \in Requests, Watch(r) PROVE RecordInv'
  BY <1>17 DEF Watch
<1>18. ASSUME NEW r \in Requests, CommandEnds(r) PROVE RecordInv'
  BY <1>18 DEF CommandEnds
<1>19. CASE Receive
  BY <1>19 DEF Receive
<1>20. CASE UNCHANGED vars
  BY <1>20
<1>. QED
  BY <1>1, <1>2, <1>3, <1>4, <1>5, <1>6, <1>7, <1>8, <1>9, <1>10, <1>11, <1>12, <1>13, <1>14, <1>15, <1>16, <1>17, <1>18, <1>19, <1>20
  DEF Next, ToolStep, LifeStep

\* A call is appended.
LEMMA Appended ==
  ASSUME TypeOK, NEW m \in Message, wire' = Append(wire, m)
  PROVE  /\ wire' \in Seq(Message) /\ Len(wire') = Len(wire) + 1
         /\ wire'[Len(wire')] = m
         /\ \A k \in 1..Len(wire) : wire'[k] = wire[k]
  BY DEF TypeOK

\* Steps that leave the wire, the generations and what was sent alone.
LEMMA WireUnchanged ==
  ASSUME TypeOK, WireInv, UNCHANGED <<wire, received, mine, gen>>,
         \A r \in Requests : cmd[r] # "none" => cmd'[r] # "none"
  PROVE  WireInv'
<1>1. \A i \in 1..Len(wire) : wire[i].by \in Requests
  <2>1. \A i \in 1..Len(wire) : wire[i] \in Message
    BY DEF TypeOK
  <2>. QED
    BY <2>1 DEF Message
<1>. QED
  BY <1>1 DEF WireInv, Owns

\* A new playback owns the wire and leaves what is on it to its owners.
LEMMA WireDispatch ==
  ASSUME TypeOK, WireInv, NEW r \in Requests, cmd[r] = "none", Dispatch(r),
         received' = received
  PROVE  WireInv'
<1>. DEFINE m == [what |-> "play", by |-> r]
<1>1. m \in Message /\ wire' = Append(wire, m)
  BY DEF Dispatch, Message
<1>2. /\ wire' \in Seq(Message) /\ Len(wire') = Len(wire) + 1
      /\ wire'[Len(wire')] = m
      /\ \A k \in 1..Len(wire) : wire'[k] = wire[k]
  BY <1>1, Appended
<1>3. Len(wire) \in Nat /\ \A k \in 1..Len(wire) : wire[k] \in Message
  BY DEF TypeOK
<1>4. \A k \in 1..Len(wire) : wire[k].by \in Requests /\ wire[k].by # r
  BY <1>3 DEF WireInv, Message
<1>5. /\ \A q \in Requests \ {r} : mine'[q] = mine[q]
      /\ \A q \in Requests : cmd[q] # "none" => cmd'[q] # "none"
      /\ mine'[r] = gen + 1 /\ gen' = gen + 1 /\ cmd'[r] = "sent"
  BY DEF Dispatch, TypeOK
<1>6. \A i \in 1..Len(wire') : cmd'[wire'[i].by] # "none"
  BY <1>2, <1>3, <1>4, <1>5 DEF WireInv
<1>7. Owns(wire', mine', received', Len(wire'), gen')
  BY <1>2, <1>3, <1>5 DEF Owns
<1>8. ASSUME NEW i \in 1..Len(wire'), wire'[i].what = "continue"
      PROVE  Owns(wire', mine', received', i - 1, mine'[wire'[i].by])
  <2>1. i \in 1..Len(wire) /\ wire[i].what = "continue"
    BY <1>2, <1>3, <1>8
  <2>2. Owns(wire, mine, received, i - 1, mine[wire[i].by])
    BY <2>1 DEF WireInv
  <2>3. /\ i - 1 \in Nat /\ i - 1 <= Len(wire) /\ i - 1 <= Len(wire')
        /\ mine[wire[i].by] \in Nat
    BY <1>2, <1>3, <1>4, <2>1 DEF TypeOK
  <2>4. mine'[wire'[i].by] = mine[wire[i].by]
    BY <1>2, <1>4, <1>5, <2>1
  <2>5. \A k \in 1..(i - 1) : wire'[k] = wire[k] /\ mine'[wire'[k].by] = mine[wire[k].by]
    BY <1>2, <1>3, <1>4, <1>5, <2>1
  <2>6. CASE received = mine[wire[i].by] /\ \A k \in 1..(i - 1) : wire[k].what = "continue"
    BY <2>4, <2>5, <2>6 DEF Owns
  <2>7. CASE \E j \in 1..(i - 1) :
               /\ wire[j].what = "play" /\ mine[wire[j].by] = mine[wire[i].by]
               /\ \A k \in (j + 1)..(i - 1) : wire[k].what = "continue"
    <3>1. PICK j \in 1..(i - 1) :
            /\ wire[j].what = "play" /\ mine[wire[j].by] = mine[wire[i].by]
            /\ \A k \in (j + 1)..(i - 1) : wire[k].what = "continue"
      BY <2>7
    <3>2. \A k \in (j + 1)..(i - 1) : k \in 1..(i - 1)
      BY <2>3, <3>1
    <3>3. /\ wire'[j].what = "play" /\ mine'[wire'[j].by] = mine'[wire'[i].by]
          /\ \A k \in (j + 1)..(i - 1) : wire'[k].what = "continue"
      BY <2>4, <2>5, <3>1, <3>2
    <3>. QED
      BY <3>3 DEF Owns
  <2>. QED
    BY <2>2, <2>6, <2>7 DEF Owns
<1>. QED
  BY <1>6, <1>7, <1>8 DEF WireInv

\* A continuation is sent by the owner of the wire.
LEMMA WireContinue ==
  ASSUME TypeOK, StageInv, WireInv, NEW r \in Requests, Continue(r)
  PROVE  WireInv'
<1>. DEFINE m == [what |-> "continue", by |-> r]
<1>1. m \in Message /\ wire' = Append(wire, m)
  BY DEF Continue, Message
<1>2. /\ wire' \in Seq(Message) /\ Len(wire') = Len(wire) + 1
      /\ wire'[Len(wire')] = m
      /\ \A k \in 1..Len(wire) : wire'[k] = wire[k]
  BY <1>1, Appended
<1>3. Len(wire) \in Nat /\ \A k \in 1..Len(wire) : wire[k] \in Message
  BY DEF TypeOK
<1>4. UNCHANGED <<mine, gen, cmd, received>> /\ mine[r] = gen /\ cmd[r] # "none"
  BY DEF Continue, StageInv, TypeOK, manager
<1>5. \A i \in 1..Len(wire') : cmd'[wire'[i].by] # "none"
  BY <1>2, <1>3, <1>4 DEF WireInv
<1>6. Owns(wire', mine', received', Len(wire'), gen')
  <2>1. wire'[Len(wire) + 1].what = "continue"
    BY <1>2, <1>3
  <2>2. CASE received = gen /\ \A k \in 1..Len(wire) : wire[k].what = "continue"
    <3>1. \A k \in 1..Len(wire') : wire'[k].what = "continue"
      BY <1>2, <1>3, <2>1, <2>2
    <3>. QED
      BY <1>4, <2>2, <3>1 DEF Owns
  <2>3. CASE \E j \in 1..Len(wire) :
               /\ wire[j].what = "play" /\ mine[wire[j].by] = gen
               /\ \A k \in (j + 1)..Len(wire) : wire[k].what = "continue"
    <3>1. PICK j \in 1..Len(wire) :
            /\ wire[j].what = "play" /\ mine[wire[j].by] = gen
            /\ \A k \in (j + 1)..Len(wire) : wire[k].what = "continue"
      BY <2>3
    <3>2. /\ j \in 1..Len(wire') /\ wire'[j].what = "play" /\ mine'[wire'[j].by] = gen'
          /\ \A k \in (j + 1)..Len(wire') : wire'[k].what = "continue"
      BY <1>2, <1>3, <1>4, <2>1, <3>1
    <3>. QED
      BY <3>2 DEF Owns
  <2>. QED
    BY <2>2, <2>3 DEF Owns, WireInv
<1>7. ASSUME NEW i \in 1..Len(wire'), wire'[i].what = "continue"
      PROVE  Owns(wire', mine', received', i - 1, mine'[wire'[i].by])
  <2>1. Owns(wire, mine, received, i - 1, mine'[wire'[i].by])
    BY <1>2, <1>3, <1>4, <1>7 DEF WireInv
  <2>. QED
    BY <1>2, <1>3, <1>4, <2>1 DEF Owns
<1>. QED
  BY <1>5, <1>6, <1>7 DEF WireInv

\* What is received no longer is on the wire, but still owns it.
LEMMA OwnerReceived ==
  ASSUME TypeOK, Receive, NEW n \in 1..Len(wire), NEW g \in Nat, Owns(wire, mine, received, n, g)
  PROVE  Owns(wire', mine', received', n - 1, g)
<1>1. /\ wire # <<>> /\ wire' = Tail(wire) /\ Head(wire) = wire[1]
      /\ Len(wire) \in Nat /\ Len(wire') = Len(wire) - 1
      /\ \A k \in 1..Len(wire') : wire'[k] = wire[k + 1]
  BY DEF Receive, TypeOK
<1>2. UNCHANGED mine
  BY DEF Receive, request
<1>3. CASE received = g /\ \A k \in 1..n : wire[k].what = "continue"
  <2>1. received' = g
    BY <1>1, <1>3 DEF Receive
  <2>2. \A k \in 1..(n - 1) : wire'[k].what = "continue"
    BY <1>1, <1>3
  <2>. QED
    BY <2>1, <2>2 DEF Owns
<1>4. CASE \E j \in 1..n : /\ wire[j].what = "play" /\ mine[wire[j].by] = g
                           /\ \A k \in (j + 1)..n : wire[k].what = "continue"
  <2>1. PICK j \in 1..n : /\ wire[j].what = "play" /\ mine[wire[j].by] = g
                          /\ \A k \in (j + 1)..n : wire[k].what = "continue"
    BY <1>4
  <2>2. CASE j = 1
    <3>1. received' = g
      BY <1>1, <2>1, <2>2 DEF Receive
    <3>2. \A k \in 1..(n - 1) : wire'[k].what = "continue"
      BY <1>1, <2>1, <2>2
    <3>. QED
      BY <3>1, <3>2 DEF Owns
  <2>3. CASE j > 1
    <3>1. /\ j - 1 \in 1..(n - 1)
          /\ wire'[j - 1].what = "play" /\ mine'[wire'[j - 1].by] = g
      BY <1>1, <1>2, <2>1, <2>3
    <3>2. \A k \in ((j - 1) + 1)..(n - 1) : wire'[k].what = "continue"
      BY <1>1, <2>1, <2>3
    <3>. QED
      BY <3>1, <3>2 DEF Owns
  <2>. QED
    BY <2>2, <2>3
<1>. QED
  BY <1>3, <1>4 DEF Owns

\* What is on the wire keeps its owners when the first call is received.
LEMMA WireReceive ==
  ASSUME TypeOK, WireInv, Receive
  PROVE  WireInv'
<1>1. /\ wire # <<>> /\ wire' = Tail(wire) /\ Len(wire) \in Nat \ {0}
      /\ Len(wire') = Len(wire) - 1
      /\ \A k \in 1..Len(wire') : wire'[k] = wire[k + 1]
  BY DEF Receive, TypeOK
<1>2. UNCHANGED <<mine, gen, cmd>>
  BY DEF Receive, request, manager
<1>3. \A i \in 1..Len(wire') : cmd'[wire'[i].by] # "none"
  BY <1>1, <1>2 DEF WireInv
<1>4. Owns(wire', mine', received', Len(wire'), gen')
  <2>1. Len(wire) \in 1..Len(wire) /\ gen \in Nat
    BY <1>1 DEF TypeOK
  <2>2. Owns(wire', mine', received', Len(wire) - 1, gen)
    BY <2>1, OwnerReceived DEF WireInv
  <2>. QED
    BY <1>1, <1>2, <2>2
<1>5. ASSUME NEW i \in 1..Len(wire'), wire'[i].what = "continue"
      PROVE  Owns(wire', mine', received', i - 1, mine'[wire'[i].by])
  <2>1. i + 1 \in 1..Len(wire) /\ wire[i + 1].what = "continue"
    BY <1>1, <1>5
  <2>2. mine[wire[i + 1].by] \in Nat
    <3>1. wire[i + 1] \in Message
      BY <2>1 DEF TypeOK
    <3>. QED
      BY <3>1 DEF TypeOK, Message
  <2>3. Owns(wire, mine, received, (i + 1) - 1, mine[wire[i + 1].by])
    BY <2>1 DEF WireInv
  <2>4. i \in 1..Len(wire) /\ (i + 1) - 1 = i
    BY <1>1
  <2>5. Owns(wire', mine', received', i - 1, mine[wire[i + 1].by])
    BY <2>2, <2>3, <2>4, OwnerReceived
  <2>. QED
    BY <1>1, <1>2, <2>5
<1>. QED
  BY <1>3, <1>4, <1>5 DEF WireInv

\* Every step keeps the order of playbacks and continuations on the wire.
LEMMA WireStep ==
  ASSUME TypeOK, StageInv, WireInv, [Next]_vars
  PROVE  WireInv'
<1>. DEFINE Quiet == /\ UNCHANGED <<wire, received, mine, gen>>
                    /\ \A q \in Requests : cmd[q] # "none" => cmd'[q] # "none"
<1>. USE DEF vars, manager, request, world
<1>1. ASSUME NEW r \in Requests, Ask(r) PROVE Quiet
  BY <1>1 DEF Ask
<1>2. ASSUME NEW r \in Requests, Enter(r) PROVE Quiet
  BY <1>2 DEF Enter
<1>3. ASSUME NEW r \in Requests, Suppress(r) PROVE Quiet
  BY <1>3 DEF Suppress, Leave
<1>4. ASSUME NEW r \in Requests, AskTracks(r) PROVE Quiet
  BY <1>4 DEF AskTracks
<1>5. ASSUME NEW r \in Requests, NotFound(r) PROVE Quiet
  BY <1>5 DEF NotFound, Leave
<1>6. ASSUME NEW r \in Requests, NotConnected(r) PROVE Quiet
  BY <1>6 DEF NotConnected
<1>7. ASSUME NEW r \in Requests, PlayAcknowledged(r) PROVE Quiet
  BY <1>7 DEF PlayAcknowledged, Leave
<1>8. ASSUME NEW r \in Requests, RadioRefused(r) PROVE Quiet
  BY <1>8 DEF RadioRefused, Leave
<1>9. ASSUME NEW r \in Requests, Optimistic(r) PROVE Quiet
  BY <1>9 DEF Optimistic, Leave
<1>10. ASSUME NEW r \in Requests, CutOff(r) PROVE Quiet
  BY <1>10 DEF CutOff, Leave
<1>11. ASSUME NEW r \in Requests, PlayLifeEnds(r) PROVE Quiet
  BY <1>11 DEF PlayLifeEnds
<1>12. ASSUME NEW r \in Requests, RadioGivesUp(r) PROVE Quiet
  BY <1>12 DEF RadioGivesUp, RadioLifeEnds
<1>13. ASSUME NEW r \in Requests, ContinueEnds(r) PROVE Quiet
  BY <1>13 DEF ContinueEnds, RadioLifeEnds
<1>14. ASSUME NEW r \in Requests, Watch(r) PROVE Quiet
  BY <1>14 DEF Watch
<1>15. ASSUME NEW r \in Requests, CommandEnds(r) PROVE Quiet
  BY <1>15 DEF CommandEnds, TypeOK
<1>16. CASE UNCHANGED vars
  BY <1>16, WireUnchanged
<1>17. ASSUME Quiet PROVE WireInv'
  BY <1>17, WireUnchanged
<1>18. ASSUME NEW r \in Requests, PlayDispatch(r) \/ RadioDispatch(r) PROVE WireInv'
  BY <1>18, WireDispatch DEF PlayDispatch, RadioDispatch, StageInv
<1>19. ASSUME NEW r \in Requests, Continue(r) PROVE WireInv'
  BY <1>19, WireContinue
<1>20. CASE Receive
  BY <1>20, WireReceive
<1>. HIDE DEF Quiet
<1>. QED
  BY <1>1, <1>2, <1>3, <1>4, <1>5, <1>6, <1>7, <1>8, <1>9, <1>10, <1>11, <1>12, <1>13, <1>14, <1>15, <1>16, <1>17, <1>18, <1>19, <1>20
  DEF Next, ToolStep, LifeStep

-----------------------------------------------------------------------------

\* The records, the stages and the wire are in line in every reachable state.
THEOREM Inductive == Spec => [](TypeOK /\ IInv)
<1>1. Init => TypeOK /\ IInv
  <2>. SUFFICES ASSUME Init PROVE TypeOK /\ IInv
    OBVIOUS
  <2>1. TypeOK
    BY RequestsAssumption DEF Init, TypeOK, Kinds, Message
  <2>2. StageInv /\ RecordInv
    BY RequestsAssumption DEF Init, StageInv, RecordInv, Kinds
  <2>3. WireInv
    BY DEF Init, WireInv, Owns
  <2>. QED
    BY <2>1, <2>2, <2>3 DEF IInv
<1>2. TypeOK /\ IInv /\ [Next]_vars => (TypeOK /\ IInv)'
  BY TypeStep, StageStep, RecordStep, WireStep DEF IInv
<1>. QED
  BY <1>1, <1>2, PTL DEF Spec

\* Every reachable state is well typed: in particular the tool lock is held by
\* exactly the request inside its tool call (client.py:397-407).
THEOREM TypeCorrect == Spec => []TypeOK
BY Inductive, PTL

\* However many requests repeat each other, at most one of those with one
\* fingerprint is under way (playback.py:47-48).
THEOREM NeverTwiceInFlight == Spec => []OneInFlight
<1>1. TypeOK /\ IInv => OneInFlight
  <2>. SUFFICES ASSUME TypeOK, IInv, NEW q \in Requests, NEW r \in Requests,
                       q # r, kind[q] = kind[r], Busy(q), Busy(r)
                PROVE  FALSE
    BY DEF OneInFlight
  <2>1. CASE kind[r] = "play"
    BY <2>1 DEF IInv, RecordInv, Busy
  <2>2. CASE kind[r] = "radio"
    <3>1. ~(pc[q] \in {"tracks", "ack"} /\ pc[r] \in {"tracks", "ack"})
      BY DEF TypeOK
    <3>2. \A o \in {q, r} : pc[o] \in {"tracks", "ack"} \/ life[o] \in {"wait", "continue"}
      BY <2>2 DEF Busy
    <3>3. \A o \in {q, r} : pc[o] # "tracks" => record["radio"] = o
      BY <2>2, <3>2 DEF IInv, RecordInv
    <3>4. \A o \in {q, r} : pc[o] = "tracks" => record["radio"] = None
      BY DEF IInv, StageInv
    <3>. QED
      BY <3>1, <3>3, <3>4, RequestsAssumption
  <2>. QED
    BY <2>1, <2>2 DEF TypeOK, Kinds
<1>. QED
  BY <1>1, Inductive, PTL

\* A superseded radio never tells Music Assistant to continue the playback of
\* a newer request (client.py:163-165).
THEOREM NeverLate == Spec => []NoLateContinuation
<1>1. TypeOK /\ WireInv => NoLateContinuation
  <2>. SUFFICES ASSUME TypeOK, WireInv, wire # <<>>, Head(wire).what = "continue"
                PROVE  received = mine[Head(wire).by]
    BY DEF NoLateContinuation
  <2>1. 1 \in 1..Len(wire) /\ Head(wire) = wire[1]
    BY DEF TypeOK
  <2>2. Owns(wire, mine, received, 0, mine[wire[1].by])
    BY <2>1 DEF WireInv
  <2>. QED
    BY <2>1, <2>2 DEF Owns
<1>. QED
  BY <1>1, Inductive, PTL DEF IInv
=============================================================================
