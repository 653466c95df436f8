------------------------- MODULE ConversationMemory -------------------------
(***************************************************************************)
(* The conversation memory (intent_bridge/api/conversation.py): the last   *)
(* messages of each conversation, dropped when they expire or when there   *)
(* are too many conversations.                                             *)
(*                                                                         *)
(* Each operation takes the lock for a region without an await, and an     *)
(* asyncio lock nobody holds is taken without yielding: an operation is a  *)
(* function from memory to memory.  A memory is the sequence of its        *)
(* entries, the least recently updated first, so the age of an entry is    *)
(* its place and what has expired is a prefix.                             *)
(***************************************************************************)
EXTENDS Naturals, Sequences, SequencesExt

CONSTANTS
  HistoryTurns,   \* settings.conversation.history_turns
  MaxSessions,    \* settings.conversation.max_sessions
  MemoryEnabled   \* settings.conversation.enabled

ASSUME MemoryAssumption ==
  /\ HistoryTurns \in Nat \ {0} /\ MaxSessions \in Nat \ {0}
  /\ MemoryEnabled \in BOOLEAN

\* A message is named after the turn it belongs to; an entry is expired once
\* nobody has updated it for the time to live.
Message(turn) == [turn : turn, role : {"user", "assistant"}]
Entry(key, message) ==
  [key : key, messages : Seq(message), expired : BOOLEAN]

Newest(s, n) == SubSeq(s, IF Len(s) > n THEN Len(s) - n + 1 ELSE 1, Len(s))

Window(messages) == Newest(messages, 2 * HistoryTurns)

\* The transcript a request carries, without its own message and without
\* messages that have no text.
ClientHistory(transcript) == Window(transcript)

\* What has expired is a prefix.
Live(memory) ==
  Newest(memory, Cardinality({i \in DOMAIN memory : ~memory[i].expired}))

\* Expired entries go, then the oldest that are too many.
Prune(memory) == Newest(Live(memory), MaxSessions)

\* Where the entry of a conversation is; there is one at most.
Places(memory, key) == {i \in DOMAIN memory : memory[i].key = key}

Without(memory, key) ==
  IF Places(memory, key) = {} THEN memory
  ELSE RemoveAt(memory, CHOOSE i \in Places(memory, key) : TRUE)

\* What a conversation has stored.
Stored(memory, key) ==
  IF Places(memory, key) = {} THEN <<>>
  ELSE memory[CHOOSE i \in Places(memory, key) : TRUE].messages

\* Mutant: the limit on a conversation's messages is forgotten.
PutAll(memory, key, messages) ==
  Append(Without(memory, key),
         [key |-> key, messages |-> messages, expired |-> FALSE])

\* An entry is written: it is the most recent.  The pruning came before, so
\* there may be one more than MaxSessions.
Put(memory, key, messages) ==
  Append(Without(memory, key),
         [key |-> key, messages |-> Window(messages), expired |-> FALSE])

Clear(memory, key) == Without(memory, key)

Seed(memory, key, messages) ==
  IF ~MemoryEnabled \/ messages = <<>> THEN memory
  ELSE Put(Prune(memory), key, messages)

\* Reading a history prunes as well, and does not renew the entry.
AfterRead(memory) == IF MemoryEnabled THEN Prune(memory) ELSE memory

\* Mutant: a turn replaces what is stored.
RememberAlone(memory, key, turn) ==
  IF ~MemoryEnabled THEN memory
  ELSE Put(Prune(memory), key,
           <<[turn |-> turn, role |-> "user"],
             [turn |-> turn, role |-> "assistant"]>>)

Remember(memory, key, turn) ==
  IF ~MemoryEnabled THEN memory
  ELSE LET pruned == Prune(memory)
       IN  Put(pruned, key,
               Stored(pruned, key)
                 \o <<[turn |-> turn, role |-> "user"],
                      [turn |-> turn, role |-> "assistant"]>>)

\* Time passes: the n oldest entries expire.
Age(memory, n) ==
  [i \in DOMAIN memory |->
     [memory[i] EXCEPT !.expired = @ \/ i <= n]]
=============================================================================
