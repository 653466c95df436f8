------------------------------ MODULE Dialogue ------------------------------
(***************************************************************************)
(* PlanningSession (intent_engine/supplemental.py from DialogueState on):  *)
(* one conversation, turn by turn, over the engine and a catalog that      *)
(* changes in between.  A turn is planned without an await, so a turn is a *)
(* step; what happens while a question is with an agent is part of         *)
(* VoicePipeline.                                                          *)
(*                                                                         *)
(* The focus is the set of entities acted upon or asked about last, the    *)
(* referent what was done to them, and a pending question an operation     *)
(* that waits for one of its candidates.  Conditions ("if it is on") are   *)
(* kept by the code but never evaluated, and are left out.                 *)
(***************************************************************************)
EXTENDS IntentEngine

CONSTANTS
  PlanFor(_, _, _),   \* the planner: the plan for a text in a catalog and an area
  Catalogs,   \* the catalogs that may be published meanwhile, a sequence
  Texts,      \* what the user may say
  Origins,    \* the areas a request may come from, or None
  MaxTurns    \* bound: turns of the conversation

ASSUME DialogueAssumption == /\ MaxTurns \in Nat
                             /\ Catalogs # <<>>
                             /\ \A text \in Texts : text \in Seq(STRING)

VARIABLES
  snapshot,   \* the index of catalog_provider.snapshot()
  focus,      \* state.focus.entity_set, empty for None
  referent,   \* state.referent_intent_name and referent_data
  pending,    \* state.pending
  answer,     \* what the last turn returned, with what it was asked
  turns

vars == <<snapshot, focus, referent, pending, answer, turns>>

NoReferent == Step(None, {}, NoCall, NoOperation)

NoQuestion == [operation |-> NoOperation, candidates |-> {}, source |-> <<>>]

---------------------------------------------------------------------------
(* Labels, as the dialogue scores them *)

\* _first_number: it knows no "hundred" and no range.
SpokenNumber(text) ==
  LET words == Numerals \cup DOMAIN WordValue
      at == {i \in DOMAIN text : text[i] \in words}
      i == Min(at)
  IN  IF at = {} THEN NoNumber
      ELSE IF text[i] \in Numerals THEN DigitsValue[text[i]]
      ELSE IF i < Len(text) /\ text[i + 1] \in DOMAIN WordValue
      THEN WordValue[text[i]] + WordValue[text[i + 1]] ELSE WordValue[text[i]]

NounsOf(domain) ==
  CASE domain = "binary_sensor" -> {<<"sensor">>, <<"door">>}
    [] domain = "climate" -> {<<"thermostat">>, <<"climate">>, <<"air", "conditioner">>}
    [] domain = "cover" -> {<<"blind">>, <<"blinds">>, <<"door">>, <<"doors">>}
    [] domain = "fan" -> {<<"fan">>, <<"fans">>}
    [] domain = "light" -> {<<"light">>, <<"lights">>}
    [] domain = "lock" -> {<<"door">>, <<"lock">>}
    [] domain = "media_player" -> {<<"tv">>, <<"player">>, <<"speaker">>}
    [] OTHER -> {<<domain>>}

\* _entity_phrases
DialoguePhrases(e, cat) ==
  {e.name, <<e.domain>> \o e.tail, e.tail} \cup e.aliases
    \cup UNION {{l \o noun : noun \in NounsOf(e.domain)}
                  : l \in UNION {{a.name} \cup a.aliases : a \in AreaOf(e, cat)}}

GenericEntityWords == {"a", "an", "at", "device", "in", "my", "of", "room", "the", "to"}

\* _entity_score
EntityScore(text, e, cat) ==
  LET said == ToSet(text) \ GenericEntityWords
      score(phrase) ==
        LET words == ToSet(phrase) \ GenericEntityWords
        IN  IF words = {} THEN 0
            ELSE 10 * Cardinality(said \cap words) - 2 * Cardinality(words \ said)
                 + (IF Says(text, phrase) THEN 100 + Cardinality(words) ELSE 0)
  IN  Max({0} \cup {score(p) : p \in DialoguePhrases(e, cat)})

\* Planning and scoring are functions of the catalog, the text and the room.
Published == DOMAIN Catalogs

PlanOf ==
  [c \in Published |-> [t \in Texts |-> [a \in Origins |-> PlanFor(Catalogs[c], t, a)]]]

\* What the planner returns (PlannedIntent, and the outcomes of a route): one
\* clause or more, of steps with an intent for entities of the catalog; a
\* question that lists candidates says what is asked of them.
IsStep(s) ==
  /\ s = [intent |-> s.intent, ids |-> s.ids, call |-> s.call, slot |-> s.slot, number |-> s.number]
  /\ s.intent # None

PlanKinds == {"steps", "ask", "area", "declined"}

ASSUME PlannerAssumption ==
  \A c \in Published, text \in Texts, area \in Origins :
    LET plan == PlanFor(Catalogs[c], text, area)
    IN  /\ plan.kind \in PlanKinds
        /\ plan.clauses \in Seq(SUBSET StepsOf(plan))
        /\ plan.kind = "steps" => plan.clauses # <<>>
        /\ \A s \in StepsOf(plan) : IsStep(s) /\ s.ids \subseteq Ids(Catalogs[c].entities)
        /\ plan.candidates # {} => plan.asked.intent # None

\* Who says "it" in a sentence of one clause names no group beside it: the
\* planner has nothing before the clause that "it" could mean, so that all it
\* can move is what the sentence names.
ASSUME PronounAssumption ==
  \A c \in Published, text \in Texts, area \in Origins :
    SaysWord(text, {"it", "its"}) /\ Len(SplitCompoundRequest(text)) = 1
      => \A s \in StepsOf(PlanFor(Catalogs[c], text, area)) : Cardinality(s.ids) <= 1

ScoreOf ==
  [c \in Published |-> [t \in Texts |-> [e \in Catalogs[c].entities |-> EntityScore(t, e, Catalogs[c])]]]

\* The entities of an id that the catalog offers.
Offered(ids) == ById(ids, Catalogs[snapshot])

\* The entity of these the text fits better than any other, as a set.
BestMatch(text, ids) ==
  LET score == ScoreOf[snapshot][text]
      best == {e \in Offered(ids) : score[e] > 0 /\ \A o \in Offered(ids) : score[o] <= score[e]}
  IN  IF Cardinality(best) = 1 THEN best ELSE {}

\* DOMAIN_REFERENCE_WORDS
ReferenceWords ==
  <<<<"light", {"lamp", "lamps", "light", "lights"}>>,
    <<"cover", {"blind", "blinds", "cover", "covers", "door", "doors", "window", "windows"}>>,
    <<"fan", {"fan", "fans"}>>,
    <<"climate", {"climate", "thermostat", "temperature"}>>,
    <<"media_player", {"player", "speaker", "speakers", "tv", "tvs"}>>,
    <<"lock", {"lock", "locks"}>>>>

ReferencedDomain(text) ==
  FirstOf([n \in DOMAIN ReferenceWords |->
             <<SaysWord(text, ReferenceWords[n][2]), ReferenceWords[n][1]>>], None)

---------------------------------------------------------------------------
(* What a follow-up means *)

\* Mutant: a value can be set on a lock.
SettableDomainsAndLocks == {"light", "cover", "climate", "fan", "media_player", "lock"}

SettableDomains == {"light", "cover", "climate", "fan", "media_player"}

\* The word forms a bare value comes in: "to about twenty percent".
IsNumeral(words) ==
  \/ Len(words) = 1 /\ words[1] \in Numerals \cup DOMAIN WordValue
  \/ Len(words) = 2 /\ ToSet(words) \subseteq DOMAIN WordValue

Without(text, words) == IF Starts(text, words) THEN Tail(text) ELSE text

IsValue(text, units) ==
  IsNumeral(IF text # <<>> /\ Last(text) \in units THEN Front(text) ELSE text)

BareNumeric(text) ==
  LET verbs == {"set", "change", "adjust", "make", "flip", "flick", "move", "turn", "bump"}
      noun == Without(Without(Tail(text), {"it", "them"}),
                      {"brightness", "position", "temperature", "volume", "speed", "level"})
      value == IF Starts(text, verbs) THEN Without(Without(noun, {"up", "on"}), {"to"}) ELSE text
  IN  text # <<>> /\ IsValue(Without(value, {"about", "around", "roughly"}),
                             {"percent", "degree", "degrees"})

ContextualCommand(text) ==
  LET core == IF text # <<>> /\ Last(text) = "now" THEN Front(text) ELSE text
  IN  \/ /\ Len(core) = 3 /\ core[1] \in {"flick", "flip", "turn"} /\ core[2] \in {"lock", "locks"}
         /\ core[3] \in {"on", "off", "open", "close", "closed"}
      \/ Len(core) = 2 /\ core[1] \in {"hit", "toggle"} /\ core[2] = "switch"
      \/ Len(text) = 2 /\ text[1] \in {"flick", "flip", "turn", "switch", "power"} /\ text[2] \in {"on", "off"}
      \/ Len(text) = 1 /\ text[1] \in {"activate", "deactivate", "enable", "disable"}

\* The intent of a follow-up without a number; "either" stands for a toggle,
\* which depends on the state the entities share.
RelativePower(text, domains) ==
  LET says(words) == SaysWord(text, words)
  IN  FirstOf(
    <<<<says({"open", "up"}) /\ domains \subseteq {"cover", "lock"},
        IF domains = {"cover"} THEN "HassTurnOn" ELSE "HassTurnOff">>,
      <<says({"close", "closed", "shut"}) /\ domains = {"cover"}, "HassTurnOff">>,
      <<says({"unlock", "unlocked"}) /\ domains = {"lock"}, "HassTurnOff">>,
      <<says({"lock", "locked", "secure"}) /\ domains = {"lock"}, "HassTurnOn">>,
      <<says({"off", "deactivate", "disable", "kill", "release"})
          \/ Before(text, {"power", "spin"}, {"down"}), "HassTurnOff">>,
      <<says({"on", "activate", "enable", "power", "ignite", "illuminate"})
          \/ Before(text, {"fire", "light", "spin"}, {"up"}), "HassTurnOn">>,
      <<Says(text, <<"do", "it">>) \/ Says(text, <<"hit", "switch">>) \/ says({"toggle"}),
        IF Cardinality(domains) = 1 THEN "either" ELSE None>>>>, None)

\* _relative_plan: the focus is taken as it is, its domains from what the
\* catalog offers now.  The result is a set of plans, empty when it is none.
RelativePlans(text, ids, last) ==
  LET domains == {e.domain : e \in Offered(ids)}
      number == SpokenNumber(text)
      follows == \/ SaysWord(text, {"it", "its", "them", "their", "theirs", "they", "that", "those"})
                 \/ ContextualCommand(text)
                 \/ number # NoNumber /\ Cardinality(domains) = 1 /\ BareNumeric(text)
      power == RelativePower(text, domains)
      kept == Operation(last.intent, None, last.slot, last.number)
      plan(intent, operation) == Steps(<<{Step(intent, ids, last.call, operation)}>>)
  IN  IF ids = {} \/ ~follows THEN {}
      ELSE IF number # NoNumber
      THEN {plan(Setter(d, number).intent, Setter(d, number))
              : d \in {x \in SettableDomains : domains = {x}}}
      ELSE {plan(intent, kept) : intent \in IF power = "either" THEN PowerIntents ELSE {power} \ {None}}

\* _referent_qualifier_plan: one of a group, for the same operation again.
QualifierPlans(text, ids, last) ==
  LET named == IF Cardinality(ids) > 1 THEN BestMatch(text, ids) ELSE {}
  IN  {Steps(<<{Step(last.intent, {e.id}, [NoCall EXCEPT !.name = e.name],
                     Operation(last.intent, None, last.slot, last.number))}>>) : e \in named}

\* Mutant: "it" stands for a group.
DemonstrativeForGroup(text, ids) ==
  /\ Cardinality(ids) > 1 /\ SpokenNumber(text) = NoNumber
  /\ SaysWord(text, {"this", "that"})

SingularPronounForGroup(text, ids) ==
  /\ Cardinality(ids) > 1
  /\ SpokenNumber(text) = NoNumber
  /\ SaysWord(text, {"it", "its", "this", "that"})

---------------------------------------------------------------------------
(* Questions *)

\* The compatibility path: a question that came without candidates.
PendingFromWords(text) ==
  LET domain == ReferencedDomain(text)
      scored == {e \in Selectable(Catalogs[snapshot]) : e.domain = domain}
      score == ScoreOf[snapshot][text]
      best == Max({0} \cup {score[e] : e \in scored})
      mentioned == {e \in scored : best > 0 /\ score[e] >= Max({1, best - 2})}
      number == SpokenNumber(text)
      says(words) == SaysWord(text, words)
      operation ==
        IF number # NoNumber
        THEN IF domain \in SettableDomains THEN Setter(domain, number) ELSE NoOperation
        ELSE FirstOf(
          <<<<says({"off", "deactivate", "disable"}), Plain("HassTurnOff", None)>>,
            <<says({"on", "activate", "enable"}), Plain("HassTurnOn", None)>>,
            <<says({"open", "raise"}) /\ domain = "cover", Plain("HassTurnOn", None)>>,
            <<says({"close", "closed", "shut", "lower"}) /\ domain = "cover", Plain("HassTurnOff", None)>>,
            <<says({"unlock"}) /\ domain = "lock", Plain("HassTurnOff", None)>>,
            <<says({"lock"}) /\ domain = "lock", Plain("HassTurnOn", None)>>,
            <<says({"brightness", "bright", "level", "state", "status"}), Plain("HassGetState", None)>>>>,
          NoOperation)
  IN  IF domain = None \/ Cardinality(mentioned) < 2 \/ operation = NoOperation THEN NoQuestion
      ELSE [operation |-> operation, candidates |-> Ids(mentioned), source |-> text]

\* Mutant: only the intent waits for the reply, not its slots.
PendingIntentOnly(text, plan) ==
  LET candidates == Ids(Offered(plan.candidates))
  IN  IF Cardinality(candidates) < 2 THEN NoQuestion
      ELSE [operation |-> Plain(plan.asked.intent, None), candidates |-> candidates, source |-> text]

\* _pending_from_request
PendingFrom(text, plan) ==
  LET candidates == Ids(Offered(plan.candidates))
  IN  IF candidates = {} THEN PendingFromWords(text)
      ELSE IF Cardinality(candidates) < 2 THEN NoQuestion
      ELSE [operation |-> plan.asked, candidates |-> candidates, source |-> text]

\* "make it 27" after "kitchen light brightness level?"
PropertyDomain(source) ==
  FirstOf(<<<<SaysWord(source, {"brightness", "bright"}), "light">>,
            <<SaysWord(source, {"position"}), "cover">>,
            <<SaysWord(source, {"temperature"}), "climate">>,
            <<SaysWord(source, {"volume"}), "media_player">>,
            <<SaysWord(source, {"speed"}), "fan">>>>, None)

BoundedValue(text) ==
  /\ Starts(text, {"make", "set", "change", "adjust", "turn", "flick", "flip"})
  /\ IsValue(Without(Without(Tail(text), {"it", "this", "that"}), {"to", "at"}),
             {"percent", "brightness", "level"})

\* _resolve_pending: a set of at most one plan.
ResolvePending(text, question) ==
  LET candidates == Offered(question.candidates)
      domain == PropertyDomain(question.source)
      set == Setter(domain, SpokenNumber(text))
      settable == /\ question.operation.intent = "HassGetState"
                  /\ domain # None /\ BoundedValue(text)
                  /\ \A e \in candidates : e.domain = domain
      asked == question.operation
  IN  IF settable THEN {Steps(<<{Step(set.intent, Ids(candidates), NoCall, set)}>>)}
      ELSE {Steps(<<{Step(asked.intent, {e.id}, [NoCall EXCEPT !.name = e.name], asked)}>>)
              : e \in BestMatch(text, question.candidates)}

\* The words that let a complete command replace an open question.
CommandWords ==
  {"activate", "close", "deactivate", "disable", "enable", "lock", "mute", "open", "pause",
   "resume", "set", "start", "stop", "switch", "turn", "unlock", "unmute"}

---------------------------------------------------------------------------
(* Turns *)

\* _state_from_plan: the steps of one operation form a group; otherwise the
\* last step counts, and any step of the last clause may be the last.
Sequential == {"then", "afterwards", "subsequently"}

SameOperation(text, plan) ==
  /\ Cardinality({<<s.intent, s.slot>> : s \in StepsOf(plan)}) = 1
  /\ Cardinality(StepsOf(plan)) > 1
  /\ ~SaysWord(text, Sequential)

Remember(text, plan) ==
  \E last \in Last(plan.clauses) :
    IF SameOperation(text, plan)
    THEN /\ focus' = IdsOf(plan)
         /\ referent' = [last EXCEPT !.ids = {}, !.call = NoCall]
    ELSE /\ focus' = last.ids
         /\ referent' = [last EXCEPT !.ids = {}]

Say(text, area, route, plan) ==
  /\ turns < MaxTurns
  /\ turns' = turns + 1
  /\ answer' = [text |-> text, area |-> area, route |-> route, plan |-> plan]
  /\ UNCHANGED snapshot

Keep == UNCHANGED <<focus, referent, pending>>

Replaces(text, area) ==
  SaysWord(text, CommandWords) /\ PlanOf[snapshot][text][area].kind = "steps"

\* A complete command replaces the pending question.
ReplaceQuestion(text, area) ==
  LET plan == PlanOf[snapshot][text][area]
  IN  /\ pending # NoQuestion /\ Replaces(text, area)
      /\ Say(text, area, "replaced", plan)
      /\ Remember(text, plan)
      /\ pending' = NoQuestion

Clarify(text, area) ==
  /\ pending # NoQuestion /\ ~Replaces(text, area)
  /\ \E plan \in ResolvePending(text, pending) :
       /\ Say(text, area, "clarified", plan)
       /\ Remember(text, plan)
  /\ pending' = NoQuestion

\* Anything else is met with the question again.
RepeatQuestion(text, area) ==
  /\ pending # NoQuestion /\ ~Replaces(text, area)
  /\ ResolvePending(text, pending) = {}
  /\ Say(text, area, "repeated", NoPlan("ask"))
  /\ Keep

Free == pending = NoQuestion

Qualifies(text) == QualifierPlans(text, focus, referent) # {}

Narrow(text, area) ==
  /\ Free
  /\ \E plan \in QualifierPlans(text, focus, referent) :
       /\ Say(text, area, "narrowed", plan)
       /\ Remember(text, plan)
  /\ UNCHANGED pending

AskWhichOne(text, area) ==
  /\ Free /\ ~Qualifies(text)
  /\ SingularPronounForGroup(text, focus)
  /\ Say(text, area, "which", NoPlan("ask"))
  /\ Keep

FollowUp(text, area) ==
  /\ Free /\ ~Qualifies(text) /\ ~SingularPronounForGroup(text, focus)
  /\ \E plan \in RelativePlans(text, focus, referent) :
       /\ Say(text, area, "relative", plan)
       /\ Remember(text, plan)
  /\ UNCHANGED pending

\* A toggle of entities that differ is no follow-up.
Undirected(text) ==
  \/ RelativePlans(text, focus, referent) = {}
  \/ Cardinality(RelativePlans(text, focus, referent)) > 1

Delegated(text) ==
  Free /\ ~Qualifies(text) /\ ~SingularPronounForGroup(text, focus) /\ Undirected(text)

Command(text, area) ==
  LET plan == PlanOf[snapshot][text][area]
  IN  /\ Delegated(text) /\ plan.kind = "steps"
      /\ Say(text, area, "planned", plan)
      /\ Remember(text, plan)
      /\ UNCHANGED pending

Ask(text, area) ==
  LET plan == PlanOf[snapshot][text][area]
  IN  /\ Delegated(text) /\ plan.kind \in {"ask", "area"}
      /\ Say(text, area, "asked", plan)
      /\ pending' = PendingFrom(text, plan)
      /\ UNCHANGED <<focus, referent>>

\* RouteDeclined: another route's turn; the state stays.
Decline(text, area) ==
  LET plan == PlanOf[snapshot][text][area]
  IN  /\ Delegated(text) /\ plan.kind = "declined"
      /\ Say(text, area, "declined", plan)
      /\ Keep

\* The publisher replaces the catalog between two turns.
Publish ==
  /\ turns < MaxTurns
  /\ snapshot' \in Published \ {snapshot}
  /\ UNCHANGED <<focus, referent, pending, answer, turns>>

Init ==
  /\ snapshot \in Published
  /\ focus = {} /\ referent = NoReferent /\ pending = NoQuestion
  /\ answer = [text |-> <<>>, area |-> None, route |-> "none", plan |-> NoPlan("declined")]
  /\ turns = 0

Turn(text, area) ==
  \/ ReplaceQuestion(text, area) \/ Clarify(text, area) \/ RepeatQuestion(text, area)
  \/ Narrow(text, area) \/ AskWhichOne(text, area) \/ FollowUp(text, area)
  \/ Command(text, area) \/ Ask(text, area) \/ Decline(text, area)

Next == Publish \/ \E text \in Texts, area \in Origins : Turn(text, area)

Spec == Init /\ [][Next]_vars

---------------------------------------------------------------------------
(* Properties *)

Doing(plan) == plan.kind = "steps"

\* The entities Home Assistant would find for a call by domain and place.
Reach(call, cat) ==
  LET onFloor == AreaIds({a \in cat.areas : a.floor = call.floor})
  IN  IF call.domain = None \/ call.name # <<>> THEN {}
      ELSE {e \in Selectable(cat) :
              /\ e.domain = call.domain
              /\ call.area # None => e.area = call.area
              /\ call.floor # None => e.area \in onFloor}

\* Types: ids, places and operations are ones the catalogs and rules know.
TypeOK ==
  /\ snapshot \in Published
  /\ turns \in 0..MaxTurns
  /\ focus \cup pending.candidates \subseteq UNION {Ids(Catalogs[c].entities) : c \in Published}
  /\ answer.plan.kind \in {"steps", "ask", "area", "declined"}
  /\ Doing(answer.plan) => \A s \in StepsOf(answer.plan) : s.intent # None

\* A reply that settles a question does what the first sentence would have
\* done, had its entity been the only candidate and the speaker in its room:
\* the operation waits unchanged while other sentences and catalogs pass.  (A
\* reply that gives a value is a command of its own, for all candidates that
\* are left.)
AsIfItHadBeenClear ==
  [][ /\ turns' # turns /\ answer'.route = "clarified"
      /\ ~BoundedValue(answer'.text)
      => \E e \in Offered(IdsOf(answer'.plan)) :
          LET others == pending.candidates \ {e.id}
              clear == [Catalogs[snapshot] EXCEPT !.entities = {x \in @ : x.id \notin others}]
              done(s) == <<s.intent, s.slot, s.number>>
          IN  \E area \in Origins \cup {e.area} :
                \E s \in StepsOf(PlanFor(clear, pending.source, area)) :
                  /\ s.ids = {e.id}
                  /\ \A d \in StepsOf(answer'.plan) : done(s) = done(d) ]_vars

\* "It" never moves a group of which nobody chose a member, whatever was
\* said, asked and published since.
ItIsOne ==
  [][ /\ turns' # turns /\ Cardinality(focus) > 1
      /\ SaysWord(answer'.text, {"it", "its"}) /\ SpokenNumber(answer'.text) = NoNumber
      /\ Len(SplitCompoundRequest(answer'.text)) = 1
      => \A s \in StepsOf(answer'.plan) : Cardinality(s.ids) <= 1 ]_vars

\* A command switches an indicator light only when it is named: otherwise it
\* is neither among the targets of a step nor within the reach of the call by
\* which Home Assistant expands a group.  (A follow-up takes the call over,
\* and with it an indicator that was unavailable when it was planned.)
IndicatorsSpared ==
  [][ turns' # turns /\ answer'.route # "relative" =>
        \A e \in {x \in Selectable(Catalogs[snapshot]) : x.indicator} :
          (\E s \in StepsOf(answer'.plan) :
             e.id \in s.ids \/ e \in Reach(s.call, Catalogs[snapshot]))
          => e.id \in focus \/ Says(answer'.text, e.name) \/ Says(answer'.text, e.tail) ]_vars

Fresh == turns' # turns /\ answer'.route \in {"planned", "replaced"}

\* Entities of one name, if a text says nothing that is true of only one:
\* no room or floor, and neither is in the room it was said in.
Alike(e, o, text, area, cat) ==
  /\ e.domain = o.domain /\ e.name = o.name /\ e.aliases = o.aliases
  /\ {e.area, o.area} \cap (AreaIds(MentionedAreas(text, cat)) \cup {area}) = {}
  /\ MentionedFloors(text, cat) = {}
  /\ ~Says(text, e.tail) /\ ~Says(text, o.tail)

Twins ==
  [c \in Published |-> [t \in Texts |-> [a \in Origins |->
     LET offered == Selectable(Catalogs[c])
     IN  {{p[1].id, p[2].id} : p \in {q \in offered \X offered : Alike(q[1], q[2], t, a, Catalogs[c])}}]]]

\* A sentence that fits two entities equally well is never given to one of
\* them and not to the other.
TwinsAlike ==
  [][ Fresh /\ ~SaysWord(answer'.text, {"and", "plus"}) =>
        \A pair \in Twins[snapshot][answer'.text][answer'.area] :
          pair \cap IdsOf(answer'.plan) \in {{}, pair} ]_vars

\* For each member of each clause of a text, the entities its words name.
Members ==
  [c \in Published |-> [t \in Texts |->
     UNION {{Ids(NamedEntities(member, Catalogs[c], None, {}, FALSE).entities)
               : member \in ToSet(TargetSet(clause, Catalogs[c]))}
               : clause \in ToSet(SplitCompoundRequest(t))}]]

\* Nothing that was asked for is dropped: each member of a request that names
\* entities has one of them among the targets, or nothing is done at all.
NothingDropped ==
  [][ Fresh => \A named \in Members[snapshot][answer'.text] \ {{}} :
                 named \cap IdsOf(answer'.plan) # {} ]_vars

\* The entities a text that names rooms may mean: those in the rooms, and
\* those it calls by a word of their own.
Meant ==
  [c \in Published |-> [t \in Texts |->
     LET areas == MentionedAreas(t, Catalogs[c])
     IN  {e.id : e \in {x \in Selectable(Catalogs[c]) :
            areas = {} \/ x.area \in AreaIds(areas) \/ HasDistinctiveMention(t, x, Catalogs[c])}}]]

\* A sentence that names rooms acts in them, or on what it calls by name.
StaysInTheRoom ==
  [][ Fresh => IdsOf(answer'.plan) \subseteq Meant[snapshot][answer'.text] ]_vars

\* "A complete, independently executable command is therefore allowed to
\* replace stale pending state" (supplemental.py:1528-1530): a command with a
\* verb and a target of its own is carried out as planned and not taken for a
\* remark that narrows what was done before (1229-1260, 1585).
CommandsStand ==
  [][ turns' # turns /\ SaysWord(answer'.text, CommandWords)
      /\ PlanOf[snapshot][answer'.text][answer'.area].kind = "steps"
      => answer'.plan = PlanOf[snapshot][answer'.text][answer'.area] ]_vars
=============================================================================
