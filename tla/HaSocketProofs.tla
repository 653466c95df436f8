--------------------------- MODULE HaSocketProofs ---------------------------
(***************************************************************************)
(* Theorems about HaSocket for every set of callers, every number of cache *)
(* requests and every bound on the number of connections; the last part    *)
(* shows that HaSocket implements CommandContract: a caller that only sees *)
(* its own call sees what the contract promises.                           *)
(***************************************************************************)
EXTENDS HaSocket, FiniteSetTheorems, TLAPS

(* The inductive invariant, part by part.                                  *)

\* Ids grow: everything that carries an id carries one already given out, no
\* two tasks remember the same one, and a request is remembered, if at all, by
\* the task that sent it.
IdInv ==
  /\ \A t \in Tasks : id[t] <= nextId
  /\ \A i \in pending \cup streams : i > 0 /\ i <= nextId
  /\ \A m \in wire : m.id > 0 /\ m.id <= nextId
  /\ \A f \in inbox : f.id > 0 /\ f.id <= nextId
  /\ \A s, t \in Tasks : s # t /\ id[s] = id[t] => id[s] = 0
  /\ \A m \in wire : \A t \in Tasks : id[t] = m.id => t = m.task

\* A request is on the wire once, and not any more when a frame answers it.
WireInv ==
  /\ \A m, n \in wire : m.id = n.id => m = n
  /\ \A m \in wire : \A f \in inbox : m.id # f.id

\* A registered future is resolved only after its request was processed.
ResInv ==
  \A m \in wire : \A t \in Tasks :
    id[t] = m.id /\ pc[t] \in {"send", "await"}
      => res[t] \notin {"result", "refused"}

\* The lock is held by the task that is sending.
LockInv == \A t \in Tasks : lock = t <=> pc[t] = "send"

\* The connection: what the supervisor's position says of the socket.
ConnInv ==
  /\ sup \in {"init", "serve"} => ws = gen /\ ws > 0
  /\ sup \notin {"init", "serve"} => ws = 0
  /\ link => sup \in {"init", "serve"}
  /\ ws = 0 => pending = {} /\ streams = {}
  /\ pc[Sup] \in {"idle", "lock", "send", "await"}
  /\ pc[Sup] # "idle" => sup = "init" /\ todo > 0

\* On an open connection nobody is left from an earlier one.
FreshInv ==
  link => \A t \in Tasks :
            /\ pc[t] \in {"lock", "send"} => cap[t] = gen
            /\ pc[t] \in {"send", "await"} => res[t] # "lost"

\* Futures and streams are registered where their reader looks for them.
WaitInv ==
  \A t \in Tasks :
    /\ Waiting(t) => id[t] \in pending /\ cap[t] = ws /\ ws = gen
    /\ pc[t] = "stream" => t \in Pipelines
    /\ t \in Pipelines /\ pc[t] \in {"send", "await", "stream"}
         /\ evt[t] = "none" => id[t] \in streams

IInv ==
  /\ IdInv /\ WireInv /\ ResInv /\ LockInv /\ ConnInv
  /\ FreshInv /\ WaitInv /\ ReadyIsAccurate

-----------------------------------------------------------------------------

\* The locals that a finished call leaves behind are well typed (the returns and
\* raises of client.py:243-306).
LEMMA LeaveType ==
  ASSUME TypeOK, NEW t \in Tasks, Leave(t)
  PROVE  /\ cap' \in [Tasks -> Nat] /\ id' \in [Tasks -> Nat]
         /\ res' \in [Tasks -> {"none", "result", "refused", "lost"}]
         /\ evt' \in [Tasks -> {"none", "end", "lost"}]
BY DEF Leave, TypeOK

\* Every step of the client, of its callers and of the outside keeps every
\* variable in its type.
LEMMA TypeStep ==
  ASSUME TypeOK, [Next]_vars
  PROVE  TypeOK'
<1>. USE DEF TypeOK, Request, Frame, Ended, Callers, Tasks, vars, client, tasks, world
<1>1. ASSUME NEW t \in Tasks, Begin(t) PROVE TypeOK'
  BY <1>1 DEF Begin
<1>2. ASSUME NEW t \in Tasks, Wake(t) PROVE TypeOK'
  BY <1>2 DEF Wake
<1>3. ASSUME NEW t \in Tasks, Capture(t) PROVE TypeOK'
  <2>1. CASE ws = 0
    <3>1. Leave(t)
      BY <1>3, <2>1 DEF Capture, Disconnected
    <3>. QED
      BY <1>3, <2>1, <3>1, LeaveType DEF Capture, Disconnected
  <2>2. CASE ws # 0
    BY <1>3, <2>2 DEF Capture
  <2>. QED
    BY <2>1, <2>2
<1>4. ASSUME NEW t \in Tasks, Register(t) PROVE TypeOK'
  BY <1>4 DEF Register, FreshId
<1>5. ASSUME NEW t \in Tasks, RegisterClosed(t) PROVE TypeOK'
  <2>1. nextId' \in Nat
    BY <1>5 DEF RegisterClosed, FreshId
  <2>2. /\ pc' \in [Tasks -> Ended \cup
                 {"idle", "wait", "woken", "lock", "send", "await", "stream"}]
        /\ attempt' \in [Tasks -> {0, 1}]
        /\ ready' \in BOOLEAN
    BY <1>5 DEF RegisterClosed, Disconnected, Leave
  <2>. QED
    BY <1>5, <2>1, <2>2 DEF RegisterClosed, Disconnected, Leave
<1>6. ASSUME NEW t \in Tasks, SendDone(t) PROVE TypeOK'
  BY <1>6 DEF SendDone
<1>7. ASSUME NEW t \in Tasks, SendFailed(t) PROVE TypeOK'
  BY <1>7 DEF SendFailed, Disconnected, Leave
<1>8. ASSUME NEW t \in Tasks, Replied(t) PROVE TypeOK'
  <2>1. CASE t \in Pipelines /\ res[t] = "result"
    BY <1>8, <2>1 DEF Replied
  <2>2. CASE ~(t \in Pipelines /\ res[t] = "result")
    <3>1. Leave(t)
      BY <1>8, <2>2 DEF Replied
    <3>. QED
      BY <1>8, <2>2, <3>1, LeaveType DEF Replied
  <2>. QED
    BY <2>1, <2>2
<1>9. ASSUME NEW t \in Tasks, ReplyLost(t) PROVE TypeOK'
  BY <1>9 DEF ReplyLost, Disconnected, Leave
<1>10. ASSUME NEW t \in Tasks, StreamEnded(t) PROVE TypeOK'
  BY <1>10 DEF StreamEnded, Leave
<1>11. ASSUME NEW t \in Tasks, Timeout(t) PROVE TypeOK'
  BY <1>11 DEF Timeout, Leave
<1>12. ASSUME NEW t \in Tasks, Cancel(t) PROVE TypeOK'
  BY <1>12 DEF Cancel, Leave
<1>13. CASE Start
  BY <1>13 DEF Start
<1>14. CASE Dial
  BY <1>14, InitCallsAssumption DEF Dial
<1>15. CASE InitSend
  BY <1>15 DEF InitSend
<1>16. CASE InitNext
  <2>1. todo' \in Nat
    BY <1>16 DEF InitNext, Leave
  <2>2. pc' \in [Tasks -> Ended \cup
                {"idle", "wait", "woken", "lock", "send", "await", "stream"}]
    BY <1>16 DEF InitNext, Leave
  <2>. QED
    BY <1>16, <2>1, <2>2 DEF InitNext, Leave
<1>17. CASE InitDone
  BY <1>17 DEF InitDone
<1>18. CASE InitFailed
  BY <1>18 DEF InitFailed, DropConnection, FailPending
<1>19. CASE ReaderEnded
  BY <1>19 DEF ReaderEnded, DropConnection, FailPending
<1>20. CASE StopEnd
  BY <1>20 DEF StopEnd, DropConnection, FailPending
<1>21. CASE StopBegin
  BY <1>21 DEF StopBegin
<1>22. ASSUME NEW f \in inbox, Read(f) PROVE TypeOK'
  BY <1>22 DEF Read
<1>23. ASSUME NEW m \in wire, HaHandle(m) PROVE TypeOK'
  BY <1>23 DEF HaHandle
<1>24. CASE LinkDrop
  BY <1>24 DEF LinkDrop
<1>25. CASE UNCHANGED vars
  BY <1>25
<1>. QED
  BY <1>1, <1>2, <1>3, <1>4, <1>5, <1>6, <1>7, <1>8, <1>9, <1>10, <1>11, <1>12, <1>13, <1>14, <1>15, <1>16, <1>17, <1>18, <1>19, <1>20, <1>21, <1>22, <1>23, <1>24, <1>25 DEF Next, TaskStep, SupStep

\* FreshId (client.py:254-255, 286-287) never gives out an id that a future, a
\* request or a frame already carries.
LEMMA IdStep ==
  ASSUME TypeOK, IdInv, [Next]_vars
  PROVE  IdInv'
<1>. USE DEF IdInv, TypeOK, Request, Frame, Callers, Tasks, vars, client, tasks, world
<1>1. ASSUME NEW t \in Tasks, Begin(t) PROVE IdInv'
  BY <1>1 DEF Begin
<1>2. ASSUME NEW t \in Tasks, Wake(t) PROVE IdInv'
  BY <1>2 DEF Wake
<1>3. ASSUME NEW t \in Tasks, Capture(t) PROVE IdInv'
  <2>1. CASE ws = 0
    BY <1>3, <2>1 DEF Capture, Disconnected, Leave
  <2>2. CASE ws # 0
    BY <1>3, <2>2 DEF Capture
  <2>. QED
    BY <2>1, <2>2
<1>4. ASSUME NEW t \in Tasks, Register(t) PROVE IdInv'
  BY <1>4 DEF Register, FreshId
<1>5. ASSUME NEW t \in Tasks, RegisterClosed(t) PROVE IdInv'
  BY <1>5 DEF RegisterClosed, Disconnected, FreshId, Leave
<1>6. ASSUME NEW t \in Tasks, SendDone(t) PROVE IdInv'
  BY <1>6 DEF SendDone
<1>7. ASSUME NEW t \in Tasks, SendFailed(t) PROVE IdInv'
  BY <1>7 DEF SendFailed, Disconnected, Leave
<1>8. ASSUME NEW t \in Tasks, Replied(t) PROVE IdInv'
  BY <1>8 DEF Replied, Leave
<1>9. ASSUME NEW t \in Tasks, ReplyLost(t) PROVE IdInv'
  BY <1>9 DEF ReplyLost, Disconnected, Leave
<1>10. ASSUME NEW t \in Tasks, StreamEnded(t) PROVE IdInv'
  BY <1>10 DEF StreamEnded, Leave
<1>11. ASSUME NEW t \in Tasks, Timeout(t) PROVE IdInv'
  <2>1. /\ pending' \subseteq pending /\ streams' \subseteq streams
        /\ id' = [id EXCEPT ![t] = 0] /\ UNCHANGED <<wire, inbox, nextId>>
    BY <1>11 DEF Timeout, Leave
  <2>. QED
    BY <2>1
<1>12. ASSUME NEW t \in Tasks, Cancel(t) PROVE IdInv'
  BY <1>12 DEF Cancel, Leave
<1>13. CASE Start
  BY <1>13 DEF Start
<1>14. CASE Dial
  BY <1>14 DEF Dial
<1>15. CASE InitSend
  BY <1>15 DEF InitSend
<1>16. CASE InitNext
  BY <1>16 DEF InitNext, Leave
<1>17. CASE InitDone
  BY <1>17 DEF InitDone
<1>18. CASE InitFailed
  BY <1>18 DEF InitFailed, DropConnection, FailPending
<1>19. CASE ReaderEnded
  BY <1>19 DEF ReaderEnded, DropConnection, FailPending
<1>20. CASE StopEnd
  BY <1>20 DEF StopEnd, DropConnection, FailPending
<1>21. CASE StopBegin
  BY <1>21 DEF StopBegin
<1>22. ASSUME NEW f \in inbox, Read(f) PROVE IdInv'
  BY <1>22 DEF Read
<1>23. ASSUME NEW m \in wire, HaHandle(m) PROVE IdInv'
  BY <1>23 DEF HaHandle
<1>24. CASE LinkDrop
  BY <1>24 DEF LinkDrop
<1>25. CASE UNCHANGED vars
  BY <1>25
<1>. QED
  BY <1>1, <1>2, <1>3, <1>4, <1>5, <1>6, <1>7, <1>8, <1>9, <1>10, <1>11, <1>12, <1>13, <1>14, <1>15, <1>16, <1>17, <1>18, <1>19, <1>20, <1>21, <1>22, <1>23, <1>24, <1>25 DEF Next, TaskStep, SupStep

\* Home Assistant takes a request off the wire when it answers, and a new
\* request has a new id: no request is answered while it is still unsent.
LEMMA WireStep ==
  ASSUME TypeOK, IdInv, WireInv, [Next]_vars
  PROVE  WireInv'
<1>. USE DEF IdInv, WireInv, TypeOK, Request, Frame, Callers, Tasks, vars, client, tasks, world
<1>1. ASSUME NEW t \in Tasks, Begin(t) PROVE WireInv'
  BY <1>1 DEF Begin
<1>2. ASSUME NEW t \in Tasks, Wake(t) PROVE WireInv'
  BY <1>2 DEF Wake
<1>3. ASSUME NEW t \in Tasks, Capture(t) PROVE WireInv'
  <2>1. CASE ws = 0
    BY <1>3, <2>1 DEF Capture, Disconnected, Leave
  <2>2. CASE ws # 0
    BY <1>3, <2>2 DEF Capture
  <2>. QED
    BY <2>1, <2>2
<1>4. ASSUME NEW t \in Tasks, Register(t) PROVE WireInv'
  BY <1>4 DEF Register, FreshId
<1>5. ASSUME NEW t \in Tasks, RegisterClosed(t) PROVE WireInv'
  BY <1>5 DEF RegisterClosed, Disconnected, FreshId, Leave
<1>6. ASSUME NEW t \in Tasks, SendDone(t) PROVE WireInv'
  BY <1>6 DEF SendDone
<1>7. ASSUME NEW t \in Tasks, SendFailed(t) PROVE WireInv'
  BY <1>7 DEF SendFailed, Disconnected, Leave
<1>8. ASSUME NEW t \in Tasks, Replied(t) PROVE WireInv'
  BY <1>8 DEF Replied, Leave
<1>9. ASSUME NEW t \in Tasks, ReplyLost(t) PROVE WireInv'
  BY <1>9 DEF ReplyLost, Disconnected, Leave
<1>10. ASSUME NEW t \in Tasks, StreamEnded(t) PROVE WireInv'
  BY <1>10 DEF StreamEnded, Leave
<1>11. ASSUME NEW t \in Tasks, Timeout(t) PROVE WireInv'
  BY <1>11 DEF Timeout, Leave
<1>12. ASSUME NEW t \in Tasks, Cancel(t) PROVE WireInv'
  BY <1>12 DEF Cancel, Leave
<1>13. CASE Start
  BY <1>13 DEF Start
<1>14. CASE Dial
  BY <1>14 DEF Dial
<1>15. CASE InitSend
  BY <1>15 DEF InitSend
<1>16. CASE InitNext
  BY <1>16 DEF InitNext, Leave
<1>17. CASE InitDone
  BY <1>17 DEF InitDone
<1>18. CASE InitFailed
  BY <1>18 DEF InitFailed, DropConnection, FailPending
<1>19. CASE ReaderEnded
  BY <1>19 DEF ReaderEnded, DropConnection, FailPending
<1>20. CASE StopEnd
  BY <1>20 DEF StopEnd, DropConnection, FailPending
<1>21. CASE StopBegin
  BY <1>21 DEF StopBegin
<1>22. ASSUME NEW f \in inbox, Read(f) PROVE WireInv'
  BY <1>22 DEF Read
<1>23. ASSUME NEW m \in wire, HaHandle(m) PROVE WireInv'
  BY <1>23 DEF HaHandle
<1>24. CASE LinkDrop
  BY <1>24 DEF LinkDrop
<1>25. CASE UNCHANGED vars
  BY <1>25
<1>. QED
  BY <1>1, <1>2, <1>3, <1>4, <1>5, <1>6, <1>7, <1>8, <1>9, <1>10, <1>11, <1>12, <1>13, <1>14, <1>15, <1>16, <1>17, <1>18, <1>19, <1>20, <1>21, <1>22, <1>23, <1>24, <1>25 DEF Next, TaskStep, SupStep

\* The reader (client.py:155-169) resolves a future only with a frame that
\* answers a processed request.
LEMMA ResStep ==
  ASSUME TypeOK, IdInv, WireInv, ResInv, [Next]_vars
  PROVE  ResInv'
<1>. USE DEF IdInv, WireInv, ResInv, Waiting, TypeOK, Request, Frame, Callers, Tasks, vars, client, tasks, world
<1>1. ASSUME NEW t \in Tasks, Begin(t) PROVE ResInv'
  BY <1>1 DEF Begin
<1>2. ASSUME NEW t \in Tasks, Wake(t) PROVE ResInv'
  BY <1>2 DEF Wake
<1>3. ASSUME NEW t \in Tasks, Capture(t) PROVE ResInv'
  <2>1. CASE ws = 0
    BY <1>3, <2>1 DEF Capture, Disconnected, Leave
  <2>2. CASE ws # 0
    BY <1>3, <2>2 DEF Capture
  <2>. QED
    BY <2>1, <2>2
<1>4. ASSUME NEW t \in Tasks, Register(t) PROVE ResInv'
  BY <1>4 DEF Register, FreshId
<1>5. ASSUME NEW t \in Tasks, RegisterClosed(t) PROVE ResInv'
  BY <1>5 DEF RegisterClosed, Disconnected, FreshId, Leave
<1>6. ASSUME NEW t \in Tasks, SendDone(t) PROVE ResInv'
  BY <1>6 DEF SendDone
<1>7. ASSUME NEW t \in Tasks, SendFailed(t) PROVE ResInv'
  BY <1>7 DEF SendFailed, Disconnected, Leave
<1>8. ASSUME NEW t \in Tasks, Replied(t) PROVE ResInv'
  BY <1>8 DEF Replied, Leave
<1>9. ASSUME NEW t \in Tasks, ReplyLost(t) PROVE ResInv'
  BY <1>9 DEF ReplyLost, Disconnected, Leave
<1>10. ASSUME NEW t \in Tasks, StreamEnded(t) PROVE ResInv'
  BY <1>10 DEF StreamEnded, Leave
<1>11. ASSUME NEW t \in Tasks, Timeout(t) PROVE ResInv'
  BY <1>11 DEF Timeout, Leave
<1>12. ASSUME NEW t \in Tasks, Cancel(t) PROVE ResInv'
  BY <1>12 DEF Cancel, Leave
<1>13. CASE Start
  BY <1>13 DEF Start
<1>14. CASE Dial
  BY <1>14 DEF Dial
<1>15. CASE InitSend
  BY <1>15 DEF InitSend
<1>16. CASE InitNext
  BY <1>16 DEF InitNext, Leave
<1>17. CASE InitDone
  BY <1>17 DEF InitDone
<1>18. CASE InitFailed
  BY <1>18 DEF InitFailed, DropConnection, FailPending
<1>19. CASE ReaderEnded
  BY <1>19 DEF ReaderEnded, DropConnection, FailPending
<1>20. CASE StopEnd
  BY <1>20 DEF StopEnd, DropConnection, FailPending
<1>21. CASE StopBegin
  BY <1>21 DEF StopBegin
<1>22. ASSUME NEW f \in inbox, Read(f) PROVE ResInv'
  BY <1>22 DEF Read
<1>23. ASSUME NEW m \in wire, HaHandle(m) PROVE ResInv'
  BY <1>23 DEF HaHandle
<1>24. CASE LinkDrop
  BY <1>24 DEF LinkDrop
<1>25. CASE UNCHANGED vars
  BY <1>25
<1>. QED
  BY <1>1, <1>2, <1>3, <1>4, <1>5, <1>6, <1>7, <1>8, <1>9, <1>10, <1>11, <1>12, <1>13, <1>14, <1>15, <1>16, <1>17, <1>18, <1>19, <1>20, <1>21, <1>22, <1>23, <1>24, <1>25 DEF Next, TaskStep, SupStep

\* The send lock (client.py:259, 291) is taken and released with the code
\* position it guards, on every path out, cancellation included.
LEMMA LockStep ==
  ASSUME TypeOK, LockInv, [Next]_vars
  PROVE  LockInv'
<1>. USE TasksAssumption DEF LockInv, TypeOK, Request, Frame, Callers, Tasks, vars, client, tasks, world
<1>1. ASSUME NEW t \in Tasks, Begin(t) PROVE LockInv'
  BY <1>1 DEF Begin
<1>2. ASSUME NEW t \in Tasks, Wake(t) PROVE LockInv'
  BY <1>2 DEF Wake
<1>3. ASSUME NEW t \in Tasks, Capture(t) PROVE LockInv'
  <2>1. CASE ws = 0
    BY <1>3, <2>1 DEF Capture, Disconnected, Leave
  <2>2. CASE ws # 0
    BY <1>3, <2>2 DEF Capture
  <2>. QED
    BY <2>1, <2>2
<1>4. ASSUME NEW t \in Tasks, Register(t) PROVE LockInv'
  BY <1>4 DEF Register, FreshId
<1>5. ASSUME NEW t \in Tasks, RegisterClosed(t) PROVE LockInv'
  BY <1>5 DEF RegisterClosed, Disconnected, FreshId, Leave
<1>6. ASSUME NEW t \in Tasks, SendDone(t) PROVE LockInv'
  BY <1>6 DEF SendDone
<1>7. ASSUME NEW t \in Tasks, SendFailed(t) PROVE LockInv'
  BY <1>7 DEF SendFailed, Disconnected, Leave
<1>8. ASSUME NEW t \in Tasks, Replied(t) PROVE LockInv'
  BY <1>8 DEF Replied, Leave
<1>9. ASSUME NEW t \in Tasks, ReplyLost(t) PROVE LockInv'
  BY <1>9 DEF ReplyLost, Disconnected, Leave
<1>10. ASSUME NEW t \in Tasks, StreamEnded(t) PROVE LockInv'
  BY <1>10 DEF StreamEnded, Leave
<1>11. ASSUME NEW t \in Tasks, Timeout(t) PROVE LockInv'
  BY <1>11 DEF Timeout, Timed, Leave
<1>12. ASSUME NEW t \in Tasks, Cancel(t) PROVE LockInv'
  BY <1>12 DEF Cancel, Leave
<1>13. CASE Start
  BY <1>13 DEF Start
<1>14. CASE Dial
  BY <1>14 DEF Dial
<1>15. CASE InitSend
  BY <1>15 DEF InitSend
<1>16. CASE InitNext
  BY <1>16 DEF InitNext, Leave
<1>17. CASE InitDone
  BY <1>17 DEF InitDone
<1>18. CASE InitFailed
  BY <1>18 DEF InitFailed, DropConnection, FailPending
<1>19. CASE ReaderEnded
  BY <1>19 DEF ReaderEnded, DropConnection, FailPending
<1>20. CASE StopEnd
  BY <1>20 DEF StopEnd, DropConnection, FailPending
<1>21. CASE StopBegin
  BY <1>21 DEF StopBegin
<1>22. ASSUME NEW f \in inbox, Read(f) PROVE LockInv'
  BY <1>22 DEF Read
<1>23. ASSUME NEW m \in wire, HaHandle(m) PROVE LockInv'
  BY <1>23 DEF HaHandle
<1>24. CASE LinkDrop
  BY <1>24 DEF LinkDrop
<1>25. CASE UNCHANGED vars
  BY <1>25
<1>. QED
  BY <1>1, <1>2, <1>3, <1>4, <1>5, <1>6, <1>7, <1>8, <1>9, <1>10, <1>11, <1>12, <1>13, <1>14, <1>15, <1>16, <1>17, <1>18, <1>19, <1>20, <1>21, <1>22, <1>23, <1>24, <1>25 DEF Next, TaskStep, SupStep

\* The supervisor's position and self._ws change together
\* (client.py:94-153), and nothing stays registered without a socket.
LEMMA ConnStep ==
  ASSUME TypeOK, ConnInv, [Next]_vars
  PROVE  ConnInv'
<1>. USE TasksAssumption DEF ConnInv, Open, TypeOK, Request, Frame, Callers, Tasks, vars, client, tasks, world
<1>1. ASSUME NEW t \in Tasks, Begin(t) PROVE ConnInv'
  BY <1>1 DEF Begin
<1>2. ASSUME NEW t \in Tasks, Wake(t) PROVE ConnInv'
  BY <1>2 DEF Wake
<1>3. ASSUME NEW t \in Tasks, Capture(t) PROVE ConnInv'
  <2>1. CASE ws = 0
    BY <1>3, <2>1 DEF Capture, Disconnected, Leave
  <2>2. CASE ws # 0
    BY <1>3, <2>2 DEF Capture
  <2>. QED
    BY <2>1, <2>2
<1>4. ASSUME NEW t \in Tasks, Register(t) PROVE ConnInv'
  BY <1>4 DEF Register, FreshId
<1>5. ASSUME NEW t \in Tasks, RegisterClosed(t) PROVE ConnInv'
  BY <1>5 DEF RegisterClosed, Disconnected, FreshId, Leave
<1>6. ASSUME NEW t \in Tasks, SendDone(t) PROVE ConnInv'
  BY <1>6 DEF SendDone
<1>7. ASSUME NEW t \in Tasks, SendFailed(t) PROVE ConnInv'
  BY <1>7 DEF SendFailed, Disconnected, Leave
<1>8. ASSUME NEW t \in Tasks, Replied(t) PROVE ConnInv'
  BY <1>8 DEF Replied, Leave
<1>9. ASSUME NEW t \in Tasks, ReplyLost(t) PROVE ConnInv'
  BY <1>9 DEF ReplyLost, Disconnected, Leave
<1>10. ASSUME NEW t \in Tasks, StreamEnded(t) PROVE ConnInv'
  BY <1>10 DEF StreamEnded, Leave
<1>11. ASSUME NEW t \in Tasks, Timeout(t) PROVE ConnInv'
  BY <1>11 DEF Timeout, Leave
<1>12. ASSUME NEW t \in Tasks, Cancel(t) PROVE ConnInv'
  BY <1>12 DEF Cancel, Leave
<1>13. CASE Start
  BY <1>13 DEF Start
<1>14. CASE Dial
  BY <1>14 DEF Dial
<1>15. CASE InitSend
  BY <1>15 DEF InitSend
<1>16. CASE InitNext
  BY <1>16 DEF InitNext, Leave
<1>17. CASE InitDone
  BY <1>17 DEF InitDone
<1>18. CASE InitFailed
  BY <1>18 DEF InitFailed, DropConnection, FailPending
<1>19. CASE ReaderEnded
  BY <1>19 DEF ReaderEnded, DropConnection, FailPending
<1>20. CASE StopEnd
  BY <1>20 DEF StopEnd, DropConnection, FailPending
<1>21. CASE StopBegin
  BY <1>21 DEF StopBegin
<1>22. ASSUME NEW f \in inbox, Read(f) PROVE ConnInv'
  BY <1>22 DEF Read
<1>23. ASSUME NEW m \in wire, HaHandle(m) PROVE ConnInv'
  BY <1>23 DEF HaHandle
<1>24. CASE LinkDrop
  BY <1>24 DEF LinkDrop
<1>25. CASE UNCHANGED vars
  BY <1>25
<1>. QED
  BY <1>1, <1>2, <1>3, <1>4, <1>5, <1>6, <1>7, <1>8, <1>9, <1>10, <1>11, <1>12, <1>13, <1>14, <1>15, <1>16, <1>17, <1>18, <1>19, <1>20, <1>21, <1>22, <1>23, <1>24, <1>25 DEF Next, TaskStep, SupStep

\* A new connection is dialled only after the callers of the previous one
\* have run (client.py:94-131 awaits the network; they are in the ready queue).
LEMMA FreshStep ==
  ASSUME TypeOK, LockInv, ConnInv, FreshInv, [Next]_vars
  PROVE  FreshInv'
<1>. USE DEF LockInv, ConnInv, FreshInv, Open, Runnable, Waiting, TypeOK, Request, Frame, Callers, Tasks, vars, client, tasks, world
<1>1. ASSUME NEW t \in Tasks, Begin(t) PROVE FreshInv'
  BY <1>1 DEF Begin
<1>2. ASSUME NEW t \in Tasks, Wake(t) PROVE FreshInv'
  BY <1>2 DEF Wake
<1>3. ASSUME NEW t \in Tasks, Capture(t) PROVE FreshInv'
  <2>1. CASE ws = 0
    BY <1>3, <2>1 DEF Capture, Disconnected, Leave
  <2>2. CASE ws # 0
    BY <1>3, <2>2 DEF Capture
  <2>. QED
    BY <2>1, <2>2
<1>4. ASSUME NEW t \in Tasks, Register(t) PROVE FreshInv'
  BY <1>4 DEF Register, FreshId
<1>5. ASSUME NEW t \in Tasks, RegisterClosed(t) PROVE FreshInv'
  BY <1>5 DEF RegisterClosed, Disconnected, FreshId, Leave
<1>6. ASSUME NEW t \in Tasks, SendDone(t) PROVE FreshInv'
  BY <1>6 DEF SendDone
<1>7. ASSUME NEW t \in Tasks, SendFailed(t) PROVE FreshInv'
  BY <1>7 DEF SendFailed, Disconnected, Leave
<1>8. ASSUME NEW t \in Tasks, Replied(t) PROVE FreshInv'
  BY <1>8 DEF Replied, Leave
<1>9. ASSUME NEW t \in Tasks, ReplyLost(t) PROVE FreshInv'
  BY <1>9 DEF ReplyLost, Disconnected, Leave
<1>10. ASSUME NEW t \in Tasks, StreamEnded(t) PROVE FreshInv'
  BY <1>10 DEF StreamEnded, Leave
<1>11. ASSUME NEW t \in Tasks, Timeout(t) PROVE FreshInv'
  BY <1>11 DEF Timeout, Leave
<1>12. ASSUME NEW t \in Tasks, Cancel(t) PROVE FreshInv'
  BY <1>12 DEF Cancel, Leave
<1>13. CASE Start
  BY <1>13 DEF Start
<1>14. CASE Dial
  BY <1>14 DEF Dial
<1>15. CASE InitSend
  BY <1>15 DEF InitSend
<1>16. CASE InitNext
  BY <1>16 DEF InitNext, Leave
<1>17. CASE InitDone
  BY <1>17 DEF InitDone
<1>18. CASE InitFailed
  BY <1>18 DEF InitFailed, DropConnection, FailPending
<1>19. CASE ReaderEnded
  BY <1>19 DEF ReaderEnded, DropConnection, FailPending
<1>20. CASE StopEnd
  BY <1>20 DEF StopEnd, DropConnection, FailPending
<1>21. CASE StopBegin
  BY <1>21 DEF StopBegin
<1>22. ASSUME NEW f \in inbox, Read(f) PROVE FreshInv'
  BY <1>22 DEF Read
<1>23. ASSUME NEW m \in wire, HaHandle(m) PROVE FreshInv'
  BY <1>23 DEF HaHandle
<1>24. CASE LinkDrop
  BY <1>24 DEF LinkDrop
<1>25. CASE UNCHANGED vars
  BY <1>25
<1>. QED
  BY <1>1, <1>2, <1>3, <1>4, <1>5, <1>6, <1>7, <1>8, <1>9, <1>10, <1>11, <1>12, <1>13, <1>14, <1>15, <1>16, <1>17, <1>18, <1>19, <1>20, <1>21, <1>22, <1>23, <1>24, <1>25 DEF Next, TaskStep, SupStep

\* A future or a stream is registered before its request is sent and removed
\* no sooner than it is resolved (client.py:243-312, 232-241).
LEMMA WaitStep ==
  ASSUME TypeOK, IdInv, LockInv, ConnInv, WaitInv, [Next]_vars
  PROVE  WaitInv'
<1>. USE DEF IdInv, LockInv, ConnInv, WaitInv, Open, Waiting, TypeOK, Request, Frame, Callers, Tasks, vars, client, tasks, world
<1>1. ASSUME NEW t \in Tasks, Begin(t) PROVE WaitInv'
  BY <1>1 DEF Begin
<1>2. ASSUME NEW t \in Tasks, Wake(t) PROVE WaitInv'
  BY <1>2 DEF Wake
<1>3. ASSUME NEW t \in Tasks, Capture(t) PROVE WaitInv'
  <2>1. CASE ws = 0
    BY <1>3, <2>1 DEF Capture, Disconnected, Leave
  <2>2. CASE ws # 0
    BY <1>3, <2>2 DEF Capture
  <2>. QED
    BY <2>1, <2>2
<1>4. ASSUME NEW t \in Tasks, Register(t) PROVE WaitInv'
  BY <1>4 DEF Register, FreshId
<1>5. ASSUME NEW t \in Tasks, RegisterClosed(t) PROVE WaitInv'
  BY <1>5 DEF RegisterClosed, Disconnected, FreshId, Leave
<1>6. ASSUME NEW t \in Tasks, SendDone(t) PROVE WaitInv'
  BY <1>6 DEF SendDone
<1>7. ASSUME NEW t \in Tasks, SendFailed(t) PROVE WaitInv'
  BY <1>7 DEF SendFailed, Disconnected, Leave
<1>8. ASSUME NEW t \in Tasks, Replied(t) PROVE WaitInv'
  BY <1>8 DEF Replied, Leave
<1>9. ASSUME NEW t \in Tasks, ReplyLost(t) PROVE WaitInv'
  BY <1>9 DEF ReplyLost, Disconnected, Leave
<1>10. ASSUME NEW t \in Tasks, StreamEnded(t) PROVE WaitInv'
  BY <1>10 DEF StreamEnded, Leave
<1>11. ASSUME NEW t \in Tasks, Timeout(t) PROVE WaitInv'
  BY <1>11 DEF Timeout, Leave
<1>12. ASSUME NEW t \in Tasks, Cancel(t) PROVE WaitInv'
  BY <1>12 DEF Cancel, Leave
<1>13. CASE Start
  BY <1>13 DEF Start
<1>14. CASE Dial
  BY <1>14 DEF Dial
<1>15. CASE InitSend
  BY <1>15 DEF InitSend
<1>16. CASE InitNext
  BY <1>16 DEF InitNext, Leave
<1>17. CASE InitDone
  BY <1>17 DEF InitDone
<1>18. CASE InitFailed
  BY <1>18 DEF InitFailed, DropConnection, FailPending
<1>19. CASE ReaderEnded
  BY <1>19 DEF ReaderEnded, DropConnection, FailPending
<1>20. CASE StopEnd
  BY <1>20 DEF StopEnd, DropConnection, FailPending
<1>21. CASE StopBegin
  BY <1>21 DEF StopBegin
<1>22. ASSUME NEW f \in inbox, Read(f) PROVE WaitInv'
  BY <1>22 DEF Read
<1>23. ASSUME NEW m \in wire, HaHandle(m) PROVE WaitInv'
  BY <1>23 DEF HaHandle
<1>24. CASE LinkDrop
  BY <1>24 DEF LinkDrop
<1>25. CASE UNCHANGED vars
  BY <1>25
<1>. QED
  BY <1>1, <1>2, <1>3, <1>4, <1>5, <1>6, <1>7, <1>8, <1>9, <1>10, <1>11, <1>12, <1>13, <1>14, <1>15, <1>16, <1>17, <1>18, <1>19, <1>20, <1>21, <1>22, <1>23, <1>24, <1>25 DEF Next, TaskStep, SupStep

\* No late ConnectionError of an earlier connection clears the ready flag of
\* the present one (client.py:329-330).
LEMMA ReadyStep ==
  ASSUME TypeOK, ConnInv, FreshInv, ReadyIsAccurate, [Next]_vars
  PROVE  ReadyIsAccurate'
<1>. USE DEF ConnInv, FreshInv, ReadyIsAccurate, Open, TypeOK, Request, Frame, Callers, Tasks, vars, client, tasks, world
<1>1. ASSUME NEW t \in Tasks, Begin(t) PROVE ReadyIsAccurate'
  BY <1>1 DEF Begin
<1>2. ASSUME NEW t \in Tasks, Wake(t) PROVE ReadyIsAccurate'
  BY <1>2 DEF Wake
<1>3. ASSUME NEW t \in Tasks, Capture(t) PROVE ReadyIsAccurate'
  <2>1. CASE ws = 0
    <3>1. sup # "serve"
      BY <2>1
    <3>2. sup' = sup /\ ws' = ws /\ gen' = gen /\ (ready' => ready)
      BY <1>3, <2>1 DEF Capture, Disconnected, Leave
    <3>. QED
      BY <3>1, <3>2
  <2>2. CASE ws # 0
    BY <1>3, <2>2 DEF Capture
  <2>. QED
    BY <2>1, <2>2
<1>4. ASSUME NEW t \in Tasks, Register(t) PROVE ReadyIsAccurate'
  BY <1>4 DEF Register, FreshId
<1>5. ASSUME NEW t \in Tasks, RegisterClosed(t) PROVE ReadyIsAccurate'
  BY <1>5 DEF RegisterClosed, Disconnected, FreshId, Leave
<1>6. ASSUME NEW t \in Tasks, SendDone(t) PROVE ReadyIsAccurate'
  BY <1>6 DEF SendDone
<1>7. ASSUME NEW t \in Tasks, SendFailed(t) PROVE ReadyIsAccurate'
  BY <1>7 DEF SendFailed, Disconnected, Leave
<1>8. ASSUME NEW t \in Tasks, Replied(t) PROVE ReadyIsAccurate'
  BY <1>8 DEF Replied, Leave
<1>9. ASSUME NEW t \in Tasks, ReplyLost(t) PROVE ReadyIsAccurate'
  BY <1>9 DEF ReplyLost, Disconnected, Leave
<1>10. ASSUME NEW t \in Tasks, StreamEnded(t) PROVE ReadyIsAccurate'
  BY <1>10 DEF StreamEnded, Leave
<1>11. ASSUME NEW t \in Tasks, Timeout(t) PROVE ReadyIsAccurate'
  BY <1>11 DEF Timeout, Leave
<1>12. ASSUME NEW t \in Tasks, Cancel(t) PROVE ReadyIsAccurate'
  BY <1>12 DEF Cancel, Leave
<1>13. CASE Start
  BY <1>13 DEF Start
<1>14. CASE Dial
  BY <1>14 DEF Dial
<1>15. CASE InitSend
  BY <1>15 DEF InitSend
<1>16. CASE InitNext
  BY <1>16 DEF InitNext, Leave
<1>17. CASE InitDone
  BY <1>17 DEF InitDone
<1>18. CASE InitFailed
  BY <1>18 DEF InitFailed, DropConnection, FailPending
<1>19. CASE ReaderEnded
  BY <1>19 DEF ReaderEnded, DropConnection, FailPending
<1>20. CASE StopEnd
  BY <1>20 DEF StopEnd, DropConnection, FailPending
<1>21. CASE StopBegin
  BY <1>21 DEF StopBegin
<1>22. ASSUME NEW f \in inbox, Read(f) PROVE ReadyIsAccurate'
  BY <1>22 DEF Read
<1>23. ASSUME NEW m \in wire, HaHandle(m) PROVE ReadyIsAccurate'
  BY <1>23 DEF HaHandle
<1>24. CASE LinkDrop
  BY <1>24 DEF LinkDrop
<1>25. CASE UNCHANGED vars
  BY <1>25
<1>. QED
  BY <1>1, <1>2, <1>3, <1>4, <1>5, <1>6, <1>7, <1>8, <1>9, <1>10, <1>11, <1>12, <1>13, <1>14, <1>15, <1>16, <1>17, <1>18, <1>19, <1>20, <1>21, <1>22, <1>23, <1>24, <1>25 DEF Next, TaskStep, SupStep
-----------------------------------------------------------------------------
(* The theorems.                                                           *)

\* Every reachable state is well typed.
THEOREM TypeCorrect == Spec => []TypeOK
<1>1. Init => TypeOK
  <2> SUFFICES ASSUME Init PROVE TypeOK
    OBVIOUS
  <2> USE DEF Init
  <2>1. /\ sup \in {"off", "dial", "init", "serve", "stopped"}
        /\ ws \in Nat /\ todo \in Nat /\ nextId \in Nat /\ gen \in Nat
        /\ ready \in BOOLEAN /\ stopping \in BOOLEAN /\ link \in BOOLEAN
        /\ lock \in Tasks \cup {None}
        /\ pending \subseteq Nat /\ streams \subseteq Nat
        /\ wire \subseteq Request /\ inbox \subseteq Frame
    OBVIOUS
  <2>2. /\ pc \in [Tasks -> Ended \cup
              {"idle", "wait", "woken", "lock", "send", "await", "stream"}]
        /\ cap \in [Tasks -> Nat] /\ id \in [Tasks -> Nat]
        /\ attempt \in [Tasks -> {0, 1}]
        /\ res \in [Tasks -> {"none", "result", "refused", "lost"}]
        /\ evt \in [Tasks -> {"none", "end", "lost"}]
        /\ handled \in [Callers -> Nat]
    OBVIOUS
  <2>. QED
    BY <2>1, <2>2 DEF TypeOK
<1>2. TypeOK /\ [Next]_vars => TypeOK'
  BY TypeStep
<1>. QED
  BY <1>1, <1>2, PTL DEF Spec

\* A client that has not been started satisfies the inductive invariant.
LEMMA InitIInv == Init => IInv
BY TasksAssumption
  DEF Init, IInv, IdInv, WireInv, ResInv, LockInv, ConnInv, FreshInv, WaitInv,
      ReadyIsAccurate, Waiting, Callers, Tasks

\* Every step preserves the inductive invariant.
LEMMA NextIInv == TypeOK /\ IInv /\ [Next]_vars => IInv'
BY IdStep, WireStep, ResStep, LockStep, ConnStep, FreshStep, WaitStep, ReadyStep
  DEF IInv

\* The inductive invariant holds in every reachable state.
THEOREM Inductive == Spec => []IInv
BY InitIInv, NextIInv, TypeCorrect, PTL DEF Spec

\* No caller is ever left waiting for a reply or an event that the client no
\* longer knows how to deliver (client.py:148-153, 232-241).
THEOREM NobodyIsStranded == Spec => []NobodyStranded
<1>1. IInv => NobodyStranded
  BY DEF IInv, ConnInv, WaitInv, NobodyStranded
<1>. QED
  BY <1>1, Inductive, PTL

\* The ready flag is set exactly while an initialised connection is up, however
\* late the callers of an earlier connection learn of its loss
\* (client.py:132-150, 329-330).
THEOREM ReadyStaysAccurate == Spec => []ReadyIsAccurate
<1>1. IInv => ReadyIsAccurate
  BY DEF IInv
<1>. QED
  BY <1>1, Inductive, PTL

\* A future is never resolved with the reply to another request
\* (client.py:254-255, 165-169).
THEOREM RepliesAlwaysMatch == Spec => []RepliesMatch
<1>1. TypeOK /\ IInv => RepliesMatch
  BY DEF TypeOK, Request, IInv, ResInv, RepliesMatch
<1>. QED
  BY <1>1, Inductive, TypeCorrect, PTL

-----------------------------------------------------------------------------

(* What the refinement needs beside IInv.                                  *)

\* The requests of c that Home Assistant has still to process.
Own(c) == {m \in wire : m.task = c}

\* How often c may have sent by now: once in each round of command() whose
\* send is behind it.
Sent(c) ==
  attempt[c] + (IF pc[c] \in {"idle", "wait", "woken", "lock"} THEN 0 ELSE 1)

\* Nothing is processed that was not sent, and nothing twice.
SentInv ==
  \A c \in Callers :
    /\ IsFiniteSet(Own(c))
    /\ handled[c] + Cardinality(Own(c)) <= Sent(c)
    /\ pc[c] = "idle" => Own(c) = {}

\* What c has been answered, and what is on its way to it, Home Assistant
\* has processed.
AnswerInv ==
  \A c \in Callers :
    \/ handled[c] > 0
    \/ /\ res[c] \notin {"result", "refused"}
       /\ pc[c] # "stream"
       /\ \A f \in inbox : f.id # id[c]

-----------------------------------------------------------------------------

\* One request more, one request less.
LEMMA OneMore ==
  ASSUME NEW S, IsFiniteSet(S), NEW x
  PROVE  /\ Cardinality(S) \in Nat
         /\ IsFiniteSet(S \cup {x}) /\ IsFiniteSet(S \ {x})
         /\ x \notin S => Cardinality(S \cup {x}) = Cardinality(S) + 1
         /\ x \in S => Cardinality(S \ {x}) = Cardinality(S) - 1
  BY FS_CardinalityType, FS_AddElement, FS_RemoveElement

\* A step of c that sends and processes nothing.
LEMMA QuietStep ==
  ASSUME TypeOK, SentInv, UNCHANGED <<wire, handled>>,
         attempt' \in [Tasks -> {0, 1}],
         \A c \in Callers : /\ Sent(c)' >= Sent(c)
                            /\ pc'[c] = "idle" => pc[c] = "idle"
  PROVE  SentInv'
<1>. SUFFICES ASSUME NEW c \in Callers
              PROVE  /\ IsFiniteSet(Own(c)')
                     /\ handled'[c] + Cardinality(Own(c)') <= Sent(c)'
                     /\ pc'[c] = "idle" => Own(c)' = {}
  BY DEF SentInv
<1>1. Own(c)' = Own(c)
  BY DEF Own
<1>2. /\ IsFiniteSet(Own(c)) /\ Cardinality(Own(c)) \in Nat
      /\ handled[c] + Cardinality(Own(c)) <= Sent(c)
      /\ pc[c] = "idle" => Own(c) = {}
  BY OneMore DEF SentInv
<1>3. Sent(c) \in Nat /\ Sent(c)' \in Nat /\ handled[c] \in Nat
  BY DEF TypeOK, Sent, Callers, Tasks
<1>. QED
  BY <1>1, <1>2, <1>3

\* A caller that loses its connection sends at most once more.
LEMMA DisconnectedStep ==
  ASSUME TypeOK, NEW t \in Callers, Disconnected(t), pc[t] \notin Ended \cup {"idle"}
  PROVE  /\ attempt' \in [Tasks -> {0, 1}]
         /\ \A c \in Callers : /\ Sent(c)' >= Sent(c)
                               /\ pc'[c] = "idle" => pc[c] = "idle"
BY DEF TypeOK, Disconnected, Sent, Callers, Tasks, Ended, Leave

\* Every step keeps requests and their processing in the bound.
LEMMA SentStep ==
  ASSUME TypeOK, IInv, SentInv, [Next]_vars
  PROVE  SentInv'
<1>. USE TasksAssumption DEF Callers, Tasks, vars, client, tasks, world
<1>a. /\ attempt \in [Tasks -> {0, 1}]
      /\ pc \in [Tasks -> Ended \cup
                   {"idle", "wait", "woken", "lock", "send", "await", "stream"}]
  BY DEF TypeOK
<1>1. ASSUME NEW t \in Tasks, Begin(t) PROVE SentInv'
  BY <1>1, <1>a, QuietStep DEF Begin, Sent
<1>2. ASSUME NEW t \in Tasks, Wake(t) PROVE SentInv'
  BY <1>2, <1>a, QuietStep DEF Wake, Sent
<1>3. ASSUME NEW t \in Tasks, Capture(t) PROVE SentInv'
  <2>1. CASE ws = 0
    <3>1. Disconnected(t) /\ UNCHANGED <<wire, handled>> /\ t \in Callers
      BY <1>3, <2>1 DEF Capture, IInv, ConnInv
    <3>. QED
      BY <1>3, <3>1, DisconnectedStep, QuietStep DEF Capture, Ended
  <2>2. CASE ws # 0
    BY <1>3, <2>2, <1>a, QuietStep DEF Capture, Sent
  <2>. QED
    BY <2>1, <2>2
<1>4. ASSUME NEW t \in Tasks, Register(t) PROVE SentInv'
  <2>. DEFINE new == [id |-> FreshId, task |-> t, gen |-> gen]
  <2>1. new \notin wire
    BY DEF IInv, IdInv, FreshId, TypeOK
  <2>. SUFFICES ASSUME NEW c \in Callers
                PROVE  /\ IsFiniteSet(Own(c)')
                       /\ handled'[c] + Cardinality(Own(c)') <= Sent(c)'
                       /\ pc'[c] = "idle" => Own(c)' = {}
    BY DEF SentInv
  <2>2. /\ IsFiniteSet(Own(c)) /\ handled[c] + Cardinality(Own(c)) <= Sent(c)
        /\ pc[c] = "idle" => Own(c) = {}
    BY DEF SentInv
  <2>3. UNCHANGED <<attempt, handled>> /\ pc' = [pc EXCEPT ![t] = "send"] /\ pc[t] = "lock"
    BY <1>4 DEF Register
  <2>4. wire' = wire \cup {new}
    BY <1>4 DEF Register
  <2>5. CASE c = t
    <3>1. Own(c)' = Own(c) \cup {new} /\ new \notin Own(c)
      BY <2>1, <2>4, <2>5 DEF Own
    <3>2. Sent(c)' = Sent(c) + 1 /\ Sent(c) \in Nat /\ handled[c] \in Nat
      BY <1>a, <2>3, <2>5 DEF Sent, TypeOK
    <3>3. /\ IsFiniteSet(Own(c)') /\ Cardinality(Own(c)) \in Nat
          /\ Cardinality(Own(c)') = Cardinality(Own(c)) + 1
      BY <2>2, <3>1, OneMore
    <3>. QED
      BY <1>a, <2>2, <2>3, <2>5, <3>2, <3>3
  <2>6. CASE c # t
    <3>1. Own(c)' = Own(c)
      BY <2>4, <2>6 DEF Own
    <3>2. pc'[c] = pc[c] /\ Sent(c)' = Sent(c)
      BY <1>a, <2>3, <2>6 DEF Sent
    <3>. QED
      BY <2>2, <2>3, <3>1, <3>2
  <2>. QED
    BY <2>5, <2>6
<1>5. ASSUME NEW t \in Tasks, RegisterClosed(t) PROVE SentInv'
  BY <1>5, DisconnectedStep, QuietStep DEF RegisterClosed, Ended
<1>6. ASSUME NEW t \in Tasks, SendDone(t) PROVE SentInv'
  BY <1>6, <1>a, QuietStep DEF SendDone, Sent
<1>7. ASSUME NEW t \in Tasks, SendFailed(t) PROVE SentInv'
  BY <1>7, DisconnectedStep, QuietStep DEF SendFailed, Ended
<1>8. ASSUME NEW t \in Tasks, Replied(t) PROVE SentInv'
  BY <1>8, <1>a, QuietStep DEF Replied, Sent, Leave
<1>9. ASSUME NEW t \in Tasks, ReplyLost(t) PROVE SentInv'
  BY <1>9, DisconnectedStep, QuietStep DEF ReplyLost, Ended
<1>10. ASSUME NEW t \in Tasks, StreamEnded(t) PROVE SentInv'
  BY <1>10, <1>a, QuietStep DEF StreamEnded, Sent, Leave
<1>11. ASSUME NEW t \in Tasks, Timeout(t) PROVE SentInv'
  BY <1>11, <1>a, QuietStep DEF Timeout, Sent, Leave
<1>12. ASSUME NEW t \in Tasks, Cancel(t) PROVE SentInv'
  BY <1>12, <1>a, QuietStep DEF Cancel, Sent, Leave
<1>13. CASE Start
  BY <1>13, <1>a, QuietStep DEF Start, Sent
<1>14. CASE Dial
  BY <1>14, <1>a, QuietStep DEF Dial, Sent
<1>15. CASE InitSend
  BY <1>15, <1>a, QuietStep DEF InitSend, Sent
<1>16. CASE InitNext
  BY <1>16, <1>a, QuietStep DEF InitNext, Sent, Leave
<1>17. CASE InitDone
  BY <1>17, <1>a, QuietStep DEF InitDone, Sent
<1>18. CASE InitFailed
  BY <1>18, <1>a, QuietStep DEF InitFailed, Sent
<1>19. CASE ReaderEnded
  BY <1>19, <1>a, QuietStep DEF ReaderEnded, Sent
<1>20. CASE StopEnd
  BY <1>20, <1>a, QuietStep DEF StopEnd, Sent
<1>21. CASE StopBegin
  BY <1>21, <1>a, QuietStep DEF StopBegin, Sent
<1>22. ASSUME NEW f \in inbox, Read(f) PROVE SentInv'
  BY <1>22, <1>a, QuietStep DEF Read, Sent
<1>23. ASSUME NEW m \in wire, HaHandle(m) PROVE SentInv'
  <2>. SUFFICES ASSUME NEW c \in Callers
                PROVE  /\ IsFiniteSet(Own(c)')
                       /\ handled'[c] + Cardinality(Own(c)') <= Sent(c)'
                       /\ pc'[c] = "idle" => Own(c)' = {}
    BY DEF SentInv
  <2>1. /\ wire' = wire \ {m} /\ UNCHANGED <<pc, attempt>>
        /\ handled'[c] = IF c = m.task THEN handled[c] + 1 ELSE handled[c]
    BY <1>23 DEF HaHandle
  <2>2. /\ IsFiniteSet(Own(c)) /\ handled[c] + Cardinality(Own(c)) <= Sent(c)
        /\ pc[c] = "idle" => Own(c) = {}
    BY DEF SentInv
  <2>3. Sent(c)' = Sent(c) /\ Sent(c) \in Nat /\ handled[c] \in Nat
    BY <1>a, <2>1 DEF Sent, TypeOK
  <2>4. Own(c)' = Own(c) \ {m}
    BY <2>1 DEF Own
  <2>5. CASE c = m.task
    <3>1. m \in Own(c)
      BY <2>5 DEF Own
    <3>. QED
      BY <2>1, <2>2, <2>3, <2>4, <2>5, <3>1, OneMore
  <2>6. CASE c # m.task
    <3>1. Own(c)' = Own(c)
      BY <2>4, <2>6 DEF Own
    <3>. QED
      BY <2>1, <2>2, <2>3, <2>6, <3>1
  <2>. QED
    BY <2>5, <2>6
<1>24. CASE LinkDrop
  BY <1>24, <1>a, QuietStep DEF LinkDrop, Sent
<1>25. CASE UNCHANGED vars
  BY <1>25, <1>a, QuietStep DEF Sent
<1>. QED
  BY <1>1, <1>2, <1>3, <1>4, <1>5, <1>6, <1>7, <1>8, <1>9, <1>10, <1>11, <1>12, <1>13, <1>14, <1>15, <1>16, <1>17, <1>18, <1>19, <1>20, <1>21, <1>22, <1>23, <1>24, <1>25 DEF Next, TaskStep, SupStep

\* Every step that brings an answer nearer to its caller brings it from a
\* request that was processed.
LEMMA AnswerStep ==
  ASSUME TypeOK, IInv, AnswerInv, [Next]_vars
  PROVE  AnswerInv'
<1>. USE TasksAssumption DEF AnswerInv, TypeOK, Frame, Request, Callers, Tasks, vars, client, tasks, world
<1>0. \A f \in inbox : f.id > 0
  BY DEF IInv, IdInv
<1>1. ASSUME NEW t \in Tasks, Begin(t) PROVE AnswerInv'
  BY <1>1 DEF Begin
<1>2. ASSUME NEW t \in Tasks, Wake(t) PROVE AnswerInv'
  BY <1>2 DEF Wake
<1>3. ASSUME NEW t \in Tasks, Capture(t) PROVE AnswerInv'
  <2>1. CASE ws = 0
    BY <1>3, <2>1, <1>0 DEF Capture, Disconnected, Leave
  <2>2. CASE ws # 0
    BY <1>3, <2>2 DEF Capture
  <2>. QED
    BY <2>1, <2>2
<1>4. ASSUME NEW t \in Tasks, Register(t) PROVE AnswerInv'
  <2>1. \A f \in inbox : f.id # FreshId
    BY DEF IInv, IdInv, FreshId
  <2>. QED
    BY <1>4, <2>1 DEF Register
<1>5. ASSUME NEW t \in Tasks, RegisterClosed(t) PROVE AnswerInv'
  BY <1>5, <1>0 DEF RegisterClosed, Disconnected, Leave
<1>6. ASSUME NEW t \in Tasks, SendDone(t) PROVE AnswerInv'
  BY <1>6 DEF SendDone
<1>7. ASSUME NEW t \in Tasks, SendFailed(t) PROVE AnswerInv'
  BY <1>7, <1>0 DEF SendFailed, Disconnected, Leave
<1>8. ASSUME NEW t \in Tasks, Replied(t) PROVE AnswerInv'
  BY <1>8, <1>0 DEF Replied, Leave
<1>9. ASSUME NEW t \in Tasks, ReplyLost(t) PROVE AnswerInv'
  BY <1>9, <1>0 DEF ReplyLost, Disconnected, Leave
<1>10. ASSUME NEW t \in Tasks, StreamEnded(t) PROVE AnswerInv'
  BY <1>10, <1>0 DEF StreamEnded, Leave
<1>11. ASSUME NEW t \in Tasks, Timeout(t) PROVE AnswerInv'
  BY <1>11, <1>0 DEF Timeout, Leave
<1>12. ASSUME NEW t \in Tasks, Cancel(t) PROVE AnswerInv'
  BY <1>12, <1>0 DEF Cancel, Leave
<1>13. CASE Start
  BY <1>13 DEF Start
<1>14. CASE Dial
  BY <1>14 DEF Dial
<1>15. CASE InitSend
  BY <1>15 DEF InitSend
<1>16. CASE InitNext
  BY <1>16, <1>0 DEF InitNext, Leave
<1>17. CASE InitDone
  BY <1>17 DEF InitDone
<1>18. CASE InitFailed
  BY <1>18 DEF InitFailed, DropConnection, FailPending
<1>19. CASE ReaderEnded
  BY <1>19 DEF ReaderEnded, DropConnection, FailPending
<1>20. CASE StopEnd
  BY <1>20 DEF StopEnd, DropConnection, FailPending
<1>21. CASE StopBegin
  BY <1>21 DEF StopBegin
<1>22. ASSUME NEW f \in inbox, Read(f) PROVE AnswerInv'
  <2>1. /\ inbox' = inbox \ {f} /\ UNCHANGED <<pc, id, handled>>
        /\ \A t \in Tasks : res'[t] = res[t] \/ id[t] = f.id
    BY <1>22 DEF Read
  <2>. QED
    BY <2>1
<1>23. ASSUME NEW m \in wire, HaHandle(m) PROVE AnswerInv'
  <2>1. /\ UNCHANGED <<pc, id, res>>
        /\ \A g \in inbox' : g \in inbox \/ g.id = m.id
        /\ \A c \in Callers : handled'[c] = IF c = m.task THEN handled[c] + 1 ELSE handled[c]
    BY <1>23 DEF HaHandle
  <2>2. \A c \in Callers : id[c] = m.id => c = m.task
    BY DEF IInv, IdInv
  <2>. QED
    BY <2>1, <2>2
<1>24. CASE LinkDrop
  BY <1>24 DEF LinkDrop
<1>25. CASE UNCHANGED vars
  BY <1>25
<1>. QED
  BY <1>1, <1>2, <1>3, <1>4, <1>5, <1>6, <1>7, <1>8, <1>9, <1>10, <1>11, <1>12, <1>13, <1>14, <1>15, <1>16, <1>17, <1>18, <1>19, <1>20, <1>21, <1>22, <1>23, <1>24, <1>25 DEF Next, TaskStep, SupStep

-----------------------------------------------------------------------------
(* Steps of HaSocket as steps of the contract.                             *)

\* One call moves from phase to phase as the contract allows, or none does.
LEMMA PhaseStep ==
  ASSUME NEW t \in Callers, UNCHANGED handled,
         \A c \in Callers \ {t} : Phase(c)' = Phase(c),
         \/ Phase(t)' = Phase(t)
         \/ Phase(t) = "idle" /\ Phase(t)' = "busy"
         \/ Phase(t) = "busy" /\ Phase(t)' = "failed"
         \/ Phase(t) = "busy" /\ Phase(t)' = "answered" /\ handled[t] > 0
  PROVE  [Contract!Next]_(Contract!vars)
<1>. DEFINE phase == [c \in Callers |-> Phase(c)]
<1>1. phase' = [c \in Callers |-> Phase(c)']
  OBVIOUS
<1>2. CASE Phase(t)' = Phase(t)
  <2>1. phase' = phase
    BY <1>1, <1>2
  <2>. QED
    BY <2>1 DEF Contract!vars
<1>3. phase' = [phase EXCEPT ![t] = Phase(t)']
  BY <1>1
<1>4. phase[t] = Phase(t)
  OBVIOUS
<1>. HIDE DEF phase
<1>5. CASE Phase(t) = "idle" /\ Phase(t)' = "busy"
  <2>1. Contract!Begin(t)
    BY <1>3, <1>4, <1>5 DEF Contract!Begin, phase
  <2>. QED
    BY <2>1 DEF Contract!Next
<1>6. CASE Phase(t) = "busy" /\ Phase(t)' = "failed"
  <2>1. Contract!Fail(t)
    BY <1>3, <1>4, <1>6 DEF Contract!Fail, phase
  <2>. QED
    BY <2>1 DEF Contract!Next
<1>7. CASE Phase(t) = "busy" /\ Phase(t)' = "answered" /\ handled[t] > 0
  <2>1. Contract!Answer(t)
    BY <1>3, <1>4, <1>7 DEF Contract!Answer, phase
  <2>. QED
    BY <2>1 DEF Contract!Next
<1>. QED
  BY <1>2, <1>5, <1>6, <1>7

\* No call of a caller moves.
LEMMA SilentStep ==
  ASSUME UNCHANGED handled, \A c \in Callers : pc'[c] = pc[c]
  PROVE  UNCHANGED Contract!vars
<1>1. \A c \in Callers : Phase(c)' = Phase(c)
  BY DEF Phase
<1>. QED
  BY <1>1 DEF Contract!vars

\* A caller t moves its own call only: it stays under way, or ends as failed,
\* or is answered with what Home Assistant has processed.
LEMMA CallStep ==
  ASSUME TypeOK, NEW t \in Callers, NEW to, pc' = [pc EXCEPT ![t] = to],
         UNCHANGED handled, pc[t] \notin Ended \cup {"idle"},
         to # "idle", to = "done" => handled[t] > 0
  PROVE  [Contract!Next]_(Contract!vars)
<1>. USE DEF TypeOK, Callers, Tasks
<1>1. pc'[t] = to /\ \A c \in Callers \ {t} : pc'[c] = pc[c]
  OBVIOUS
<1>2. \A c \in Callers \ {t} : Phase(c)' = Phase(c)
  BY <1>1 DEF Phase
<1>3. Phase(t) = "busy"
  BY DEF Phase, Ended
<1>4. \/ Phase(t)' = "busy" \/ Phase(t)' = "failed"
      \/ Phase(t)' = "answered" /\ handled[t] > 0
  BY <1>1 DEF Phase
<1>. QED
  BY <1>2, <1>3, <1>4, PhaseStep

\* Every step is a step of the contract or leaves it alone.
LEMMA ContractStep ==
  ASSUME TypeOK, IInv, SentInv, AnswerInv, [Next]_vars
  PROVE  [Contract!Next]_(Contract!vars)
<1>. DEFINE Step == [Contract!Next]_(Contract!vars)
<1>. USE TasksAssumption DEF vars, client, tasks, world
<1>a. /\ Tasks = Callers \cup {Sup} /\ Sup \notin Callers
      /\ pc \in [Tasks -> Ended \cup
                   {"idle", "wait", "woken", "lock", "send", "await", "stream"}]
  BY DEF TypeOK, Tasks
<1>b. ASSUME UNCHANGED pc, UNCHANGED handled PROVE Step
  BY <1>b, SilentStep
<1>c. ASSUME UNCHANGED handled, \E to : pc' = [pc EXCEPT ![Sup] = to] PROVE Step
  <2>1. \A c \in Callers : pc'[c] = pc[c]
    BY <1>a, <1>c
  <2>. QED
    BY <1>c, <2>1, SilentStep
<1>d. ASSUME NEW t \in Callers, Disconnected(t), UNCHANGED handled, pc[t] \notin Ended \cup {"idle"}
      PROVE  Step
  <2>. DEFINE to == IF t \in Commands /\ attempt[t] = 0 THEN "wait" ELSE "failed"
  <2>1. pc' = [pc EXCEPT ![t] = to] /\ to # "idle" /\ to # "done"
    BY <1>d DEF Disconnected, Leave
  <2>. HIDE DEF to
  <2>. QED
    BY <1>d, <2>1, CallStep
<1>. HIDE DEF Step
<1>1. ASSUME NEW t \in Tasks, Begin(t) PROVE Step
  <2>1. /\ t \in Callers /\ pc[t] = "idle" /\ UNCHANGED handled
        /\ pc'[t] = "wait" /\ \A c \in Callers \ {t} : pc'[c] = pc[c]
    BY <1>1, <1>a DEF Begin
  <2>2. /\ Phase(t) = "idle" /\ Phase(t)' = "busy"
        /\ \A c \in Callers \ {t} : Phase(c)' = Phase(c)
    BY <2>1 DEF Phase
  <2>. QED
    BY <2>1, <2>2, PhaseStep DEF Step
<1>2. ASSUME NEW t \in Tasks, Wake(t) PROVE Step
  <2>1. CASE t \in Callers
    BY <1>2, <2>1, CallStep DEF Wake, Ended, Step
  <2>2. CASE t = Sup
    BY <1>2, <2>2, <1>c DEF Wake
  <2>. QED
    BY <1>a, <2>1, <2>2
<1>3. ASSUME NEW t \in Tasks, Capture(t) PROVE Step
  <2>1. t \in Callers
    BY <1>3, <1>a DEF Capture, IInv, ConnInv
  <2>2. CASE ws = 0
    BY <1>3, <2>1, <2>2, <1>d DEF Capture, Ended
  <2>3. CASE ws # 0
    BY <1>3, <2>1, <2>3, CallStep DEF Capture, Ended, Step
  <2>. QED
    BY <2>2, <2>3
<1>4. ASSUME NEW t \in Tasks, Register(t) PROVE Step
  <2>1. CASE t \in Callers
    BY <1>4, <2>1, CallStep DEF Register, Ended, Step
  <2>2. CASE t = Sup
    BY <1>4, <2>2, <1>c DEF Register
  <2>. QED
    BY <1>a, <2>1, <2>2
<1>5. ASSUME NEW t \in Tasks, RegisterClosed(t) PROVE Step
  BY <1>5, <1>d DEF RegisterClosed, Ended
<1>6. ASSUME NEW t \in Tasks, SendDone(t) PROVE Step
  <2>1. CASE t \in Callers
    BY <1>6, <2>1, CallStep DEF SendDone, Ended, Step
  <2>2. CASE t = Sup
    BY <1>6, <2>2, <1>c DEF SendDone
  <2>. QED
    BY <1>a, <2>1, <2>2
<1>7. ASSUME NEW t \in Tasks, SendFailed(t) PROVE Step
  BY <1>7, <1>d DEF SendFailed, Ended
<1>8. ASSUME NEW t \in Tasks, Replied(t) PROVE Step
  <2>1. t \in Callers /\ handled[t] > 0
    BY <1>8 DEF Replied, AnswerInv, Leave
  <2>. QED
    BY <1>8, <2>1, CallStep DEF Replied, Ended, Step, Leave
<1>9. ASSUME NEW t \in Tasks, ReplyLost(t) PROVE Step
  BY <1>9, <1>d DEF ReplyLost, Ended
<1>10. ASSUME NEW t \in Tasks, StreamEnded(t) PROVE Step
  <2>1. t \in Callers /\ handled[t] > 0
    <3>1. t \in Callers
      BY <1>10, <1>a DEF StreamEnded, IInv, ConnInv, Leave
    <3>. QED
      BY <1>10, <3>1 DEF StreamEnded, AnswerInv, Leave
  <2>. QED
    BY <1>10, <2>1, CallStep DEF StreamEnded, Ended, Step, Leave
<1>11. ASSUME NEW t \in Tasks, Timeout(t) PROVE Step
  BY <1>11, CallStep DEF Timeout, Timed, Ended, Step, Leave
<1>12. ASSUME NEW t \in Tasks, Cancel(t) PROVE Step
  BY <1>12, CallStep DEF Cancel, Ended, Step, Leave
<1>13. ASSUME Start PROVE Step
  BY <1>13, <1>b DEF Start
<1>14. ASSUME Dial PROVE Step
  BY <1>14, <1>b DEF Dial
<1>15. ASSUME InitSend PROVE Step
  BY <1>15, <1>c DEF InitSend
<1>16. ASSUME InitNext PROVE Step
  BY <1>16, <1>c DEF InitNext, Leave
<1>17. ASSUME InitDone PROVE Step
  BY <1>17, <1>b DEF InitDone
<1>18. ASSUME InitFailed PROVE Step
  BY <1>18, <1>c DEF InitFailed
<1>19. ASSUME ReaderEnded PROVE Step
  BY <1>19, <1>b DEF ReaderEnded
<1>20. ASSUME StopEnd PROVE Step
  BY <1>20, <1>c DEF StopEnd
<1>21. ASSUME StopBegin PROVE Step
  BY <1>21, <1>b DEF StopBegin
<1>22. ASSUME NEW f \in inbox, Read(f) PROVE Step
  BY <1>22, <1>b DEF Read
<1>23. ASSUME NEW m \in wire, HaHandle(m) PROVE Step
  <2>1. /\ UNCHANGED pc
        /\ handled' = [c \in Callers |-> IF c = m.task THEN handled[c] + 1 ELSE handled[c]]
    BY <1>23 DEF HaHandle
  <2>2. handled \in [Callers -> Nat]
    BY DEF TypeOK
  <2>3. CASE m.task \notin Callers
    <3>1. handled' = handled
      BY <2>1, <2>2, <2>3
    <3>. QED
      BY <2>1, <3>1, <1>b
  <2>4. CASE m.task \in Callers
    <3>. DEFINE t == m.task
                phase == [c \in Callers |-> Phase(c)]
    <3>1. m \in Own(t)
      BY DEF Own
    <3>2. /\ IsFiniteSet(Own(t)) /\ handled[t] + Cardinality(Own(t)) <= Sent(t)
          /\ pc[t] # "idle"
      BY <2>4, <3>1 DEF SentInv
    <3>3. Cardinality(Own(t)) \in Nat /\ Cardinality(Own(t)) # 0
      BY <3>1, <3>2, FS_CardinalityType, FS_EmptySet
    <3>4. Sent(t) \in 0..2
      BY <2>4 DEF Sent, TypeOK, Callers, Tasks
    <3>5. handled[t] < 2
      BY <2>2, <2>4, <3>2, <3>3, <3>4
    <3>6. phase[t] # "idle"
      BY <2>4, <3>2 DEF Phase
    <3>7. phase' = phase
      <4>1. \A c \in Callers : Phase(c)' = Phase(c)
        BY <2>1 DEF Phase
      <4>. QED
        BY <4>1
    <3>8. handled' = [handled EXCEPT ![t] = @ + 1]
      BY <2>1, <2>2, <2>4
    <3>. HIDE DEF t, phase
    <3>9. Contract!Handle(t)
      BY <3>5, <3>6, <3>7, <3>8 DEF Contract!Handle, phase
    <3>. QED
      BY <2>4, <3>9 DEF Contract!Next, Step, t
  <2>. QED
    BY <2>3, <2>4
<1>24. ASSUME LinkDrop PROVE Step
  BY <1>24, <1>b DEF LinkDrop
<1>25. ASSUME UNCHANGED vars PROVE Step
  BY <1>25, <1>b
<1>. QED
  BY <1>1, <1>2, <1>3, <1>4, <1>5, <1>6, <1>7, <1>8, <1>9, <1>10, <1>11, <1>12, <1>13, <1>14, <1>15, <1>16, <1>17, <1>18, <1>19, <1>20, <1>21, <1>22, <1>23, <1>24, <1>25 DEF Next, TaskStep, SupStep, Step

-----------------------------------------------------------------------------
(* The theorems.                                                           *)

\* What was processed was sent, at most twice, and what is answered was
\* processed.
THEOREM Counted == Spec => [](SentInv /\ AnswerInv)
<1>1. Init => SentInv /\ AnswerInv
  <2>. SUFFICES ASSUME Init, NEW c \in Callers
                PROVE  /\ IsFiniteSet(Own(c)) /\ handled[c] + Cardinality(Own(c)) <= Sent(c)
                       /\ Own(c) = {}
                       /\ res[c] \notin {"result", "refused"} /\ pc[c] # "stream"
                       /\ \A f \in inbox : f.id # id[c]
    BY DEF SentInv, AnswerInv
  <2>1. Own(c) = {} /\ IsFiniteSet(Own(c)) /\ Cardinality(Own(c)) = 0
    BY FS_EmptySet DEF Init, Own
  <2>2. c \in Tasks
    BY DEF Tasks
  <2>. QED
    BY <2>1, <2>2 DEF Init, Sent
<1>2. TypeOK /\ IInv /\ SentInv /\ AnswerInv /\ [Next]_vars => (SentInv /\ AnswerInv)'
  BY SentStep, AnswerStep
<1>. QED
  BY <1>1, <1>2, TypeCorrect, Inductive, PTL DEF Spec

\* The client implements the contract of its callers: no answer to a request
\* that Home Assistant has not processed, and no request processed more than
\* twice (client.py:319-333).
THEOREM ContractIsKept == Spec => KeepsContract
<1>1. Init => Contract!Init
  BY DEF Init, Contract!Init, Phase, Tasks
<1>2. TypeOK /\ IInv /\ SentInv /\ AnswerInv /\ [Next]_vars
        => [Contract!Next]_(Contract!vars)
  BY ContractStep
<1>. QED
  BY <1>1, <1>2, TypeCorrect, Inductive, Counted, PTL
  DEF Spec, KeepsContract, Contract!Spec
=============================================================================
