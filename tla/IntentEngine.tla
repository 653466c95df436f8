---------------------------- MODULE IntentEngine ----------------------------
(***************************************************************************)
(* DeterministicIntentEngine._plan_single and resolve_candidate            *)
(* (intent_engine/engine.py, resolution.py): how the planners and the      *)
(* matches of the sentence grammar become one plan, a question, or nothing.*)
(*                                                                         *)
(* The grammar (HassIL with Home Assistant's sentences) is external: its   *)
(* matches for a text are an input.  A match is an intent with the slots   *)
(* it filled; an empty slot is None or <<>>.  Lists, timers and automations*)
(* (SupplementalIntentPlanner) have words of their own and are left out.   *)
(***************************************************************************)
EXTENDS NaturalPlanner, Measurement

---------------------------------------------------------------------------
(* Planners *)

MeasuredSteps(result) ==
  {Step("HassGetMeasurement", {r[1].id}, [NoCall EXCEPT !.entity = r[1].id],
        Operation("HassGetMeasurement", None, r[2].quantity[1], 0)) : r \in result.readings}

MeasuredPlan(text, catalog, context) ==
  LET result == MeasurementPlan(text, catalog, context)
  IN  IF result.kind = "steps" THEN Steps(<<MeasuredSteps(result)>>)
      ELSE NoPlan(result.kind)

\* NaturalLanguageIntentPlanner.plan
FallbackPlan(text, catalog, context) ==
  LET measured == MeasuredPlan(text, catalog, context)
  IN  IF measured.kind # "declined" THEN measured ELSE NaturalPlan(text, catalog, context)

Planned(plan) == plan.kind # "declined"

StepsOf(plan) == UNION ToSet(plan.clauses)

IdsOf(plan) == UNION {s.ids : s \in StepsOf(plan)}

Question(candidates, asked) == Plan("ask", <<>>, candidates, asked)

---------------------------------------------------------------------------
(* Grammar matches: resolve_candidate *)

ContextRelativeIntents ==
  {"HassTurnOn", "HassTurnOff", "HassGetState", "HassLightSet", "HassSetPosition",
   "HassClimateSetTemperature", "HassClimateGetTemperature", "HassFanSetSpeed"}

\* "turn off the light": only the room of the speaker says which.
RequiresOriginArea(match) ==
  /\ match.intent \in ContextRelativeIntents /\ match.domain # None
  /\ match.name = <<>> /\ match.area = None /\ match.floor = None

DefaultDomain(match) ==
  IF match.domain # None THEN match.domain
  ELSE CASE match.intent = "HassLightSet" -> "light"
         [] match.intent = "HassFanSetSpeed" -> "fan"
         [] match.intent = "HassSetPosition" -> "cover"
         [] match.intent \in {"HassClimateGetTemperature", "HassClimateSetTemperature"} -> "climate"
         [] match.intent \in {"HassSetVolume", "HassMediaPause", "HassMediaUnpause"} -> "media_player"
         [] OTHER -> None

\* COVER_DEVICE_CLASS_FORMS
ClassForms ==
  [blind |-> {<<"blind">>, <<"blinds">>}, window |-> {<<"window">>, <<"windows">>},
   garage |-> {<<"garage", "door">>, <<"garage", "doors">>}]

MatchesDeviceClass(e, class) ==
  IF e.class # <<>> THEN e.class = <<class>>
  ELSE \E form \in ClassForms[class] : \E label \in {e.name} \cup e.aliases : Says(label, form)

\* plural_domain_forms
PluralReferences ==
  [light |-> {"lights", "lamps"}, fan |-> {"fans"}, lock |-> {"locks"},
   cover |-> {"blinds", "covers", "doors", "windows"}, media_player |-> {"speakers", "tvs"}]

SaysPlural(text, domain) ==
  domain \in DOMAIN PluralReferences /\ SaysWord(text, PluralReferences[domain])

NamedBy(match, catalog) ==
  IF match.name = <<>> THEN {}
  ELSE {e \in Selectable(catalog) :
          match.name \in {e.name, <<e.domain>> \o e.tail} \cup e.aliases}

\* Mutant: the whole house is in scope.
ScopeOfHouse(match, origin, lost, catalog) ==
  {e \in Selectable(catalog) : e.domain = DefaultDomain(match)}

\* The entities in the scope of a match that no entity was found for: a
\* context without an area (what was said before) leaves nothing in scope.
ScopeOf(match, origin, lost, catalog) ==
  LET domain == DefaultDomain(match)
      onFloor == AreaIds({a \in catalog.areas : a.floor = match.floor})
      place == CASE match.name # <<>> -> {}
                 [] match.area # None -> {e \in Selectable(catalog) : e.area = match.area}
                 [] origin # None -> {e \in Selectable(catalog) : e.area = origin}
                 [] match.floor # None -> {e \in Selectable(catalog) : e.area \in onFloor}
                 [] lost \/ (domain = None /\ match.class = None) -> {}
                 [] OTHER -> Selectable(catalog)
  IN  {e \in place :
         /\ domain # None => e.domain = domain
         /\ domain = "light" => ~e.indicator
         /\ match.class # None => MatchesDeviceClass(e, match.class)}

Candidate(match, entities, ambiguous, specificity) ==
  [match |-> match, entities |-> entities, ambiguous |-> ambiguous, specificity |-> specificity]

ResolveCandidate(match, text, catalog, context) ==
  LET named == NamedBy(match, catalog)
      domain == DefaultDomain(match)
      targeted == match.name # <<>> \/ match.area # None \/ match.floor # None
      origin == IF ~targeted /\ domain # None THEN context.area ELSE None
      lost == ~targeted /\ domain # None /\ context.area = None /\ context.entities # {}
      area == IF match.area # None THEN match.area ELSE origin
      places == IF area # None THEN {area}
                ELSE IF match.floor # None
                THEN AreaIds({a \in catalog.areas : a.floor = match.floor}) ELSE {}
      label == IF match.name = <<>> /\ domain # None /\ ~SaysPlural(text, domain)
               THEN SurfaceTargetEvidence(text, catalog, match.intent, places, {})
               ELSE NoEvidence
      entity == IF IsUnique(label) THEN label.entities ELSE named
      surface == IF ~IsUnique(label) THEN match
                 ELSE LET e == CHOOSE x \in label.entities : TRUE
                      IN  [match EXCEPT !.name = e.name, !.entity = e.id, !.domain = None,
                                        !.area = None, !.floor = None, !.class = None]
  IN  IF IsAmbiguous(label) THEN Candidate(match, {}, label.entities, 4)
      ELSE IF Cardinality(entity) = 1 THEN Candidate(surface, entity, {}, 3)
      ELSE Candidate(surface, ScopeOf(surface, origin, lost, catalog), {},
                     IF surface.name # <<>> THEN 0 ELSE IF area # None THEN 2
                     ELSE IF surface.floor # None THEN 1 ELSE 0)

\* Two matches mean the same when they do the same to the same entities.
SemanticKey(c) == <<c.match.intent, Ids(c.entities), c.match.slot, c.match.number>>

\* What Home Assistant is called with for a match.
CallFor(match, context) ==
  [name |-> match.name, entity |-> match.entity, domain |-> match.domain,
   area |-> IF RequiresOriginArea(match) /\ context.area # None THEN context.area ELSE match.area,
   floor |-> match.floor]

MatchOperation(match) == Operation(match.intent, match.domain, match.slot, match.number)

MatchStep(match, ids, call) == Step(match.intent, ids, call, MatchOperation(match))

\* Mutant: a group is always left to Home Assistant.
SelectedByRoom(c, catalog, context) ==
  {MatchStep(c.match, Ids(c.entities), CallFor(c.match, context))}

\* A group of lights beside an indicator is spelled out, one by one.
SelectedSteps(c, catalog, context) ==
  LET spelled == /\ c.match.name = <<>>
                 /\ {e.domain : e \in c.entities} = {"light"}
                 /\ \E e \in catalog.entities : e.domain = "light" /\ e.indicator
  IN  IF spelled
      THEN {MatchStep(c.match, {e.id}, [NoCall EXCEPT !.name = e.name, !.entity = e.id]) : e \in c.entities}
      ELSE {MatchStep(c.match, Ids(c.entities), CallFor(c.match, context))}

---------------------------------------------------------------------------
(* One clause *)

Timers == {"timer", "timers", "countdown"}

\* Property words are read before the grammar can take "on" or "off".
PropertySemantics(text) ==
  \/ SaysWord(text, {"audio", "mute", "sound"})
  \/ /\ SaysWord(text, {"brightness", "bright", "color", "position", "speed", "temperature", "volume"})
     /\ SaysWord(text, {"adjust", "change", "dim", "increase", "lower", "make", "raise", "restore", "set", "turn"})

SemanticFirst(text) ==
  /\ ~SaysWord(text, Timers)
  /\ NormalizeLexicalOperator(text, None) # NoOperation \/ PropertySemantics(text)

\* A singular noun never becomes a group; a plan of several steps is let through.
ValidateTargetCardinality(text, plan, catalog) ==
  LET group == {s \in StepsOf(plan) : Cardinality(s.ids) > 1}
      domains == {e.domain : e \in {x \in catalog.entities : x.id \in IdsOf(plan)}}
  IN  IF /\ plan.kind = "steps" /\ Cardinality(StepsOf(plan)) = 1 /\ group # {}
         /\ Cardinality(domains) = 1 /\ \A d \in domains : SingularGenericTarget(text, d)
      THEN LET s == CHOOSE x \in group : TRUE
           IN  Question(IdsOf(plan), Operation(s.intent, None, s.slot, s.number))
      ELSE plan

\* A complete coordination replaces a plan that dropped a part of it.
CoordinatedInstead(text, catalog, context, preferred) ==
  LET fallback == FallbackPlan(text, catalog, context)
  IN  IF /\ Len(SplitCompoundRequest(text)) = 1 /\ SaysWord(text, {"and", "plus"})
         /\ fallback.kind = "steps" /\ Cardinality(StepsOf(fallback)) > 1
         /\ \A s \in StepsOf(fallback) : Cardinality(s.ids) = 1
         /\ Cardinality(IdsOf(fallback)) = Cardinality(StepsOf(fallback))
         /\ IdsOf(fallback) # IdsOf(preferred)
      THEN fallback ELSE preferred

\* What the grammar's matches come to, once the planners have declined.
GrammarPlan(text, matches, catalog, context) ==
  LET relative == {m \in matches : RequiresOriginArea(m)}
      label(m) == SurfaceTargetEvidence(text, catalog, m.intent, {}, {})
      unclear == {m \in relative : IsAmbiguous(label(m))}
      resolved == {ResolveCandidate(m, text, catalog, context) : m \in matches}
      asking == {c \in resolved : c.ambiguous # {}}
      found == {c \in resolved : c.entities # {}}
      best == {c \in found : \A o \in found : o.specificity <= c.specificity}
      fallback == FallbackPlan(text, catalog, context)
  IN  IF relative # {} /\ context.area = None /\ unclear # {}
      THEN Question(UNION {Ids(label(m).entities) : m \in unclear},
                    MatchOperation(CHOOSE m \in unclear : TRUE))
      ELSE IF relative # {} /\ context.area = None /\ ~\E m \in relative : IsUnique(label(m))
      THEN NoPlan("area")
      ELSE IF asking # {}
      THEN Question(UNION {Ids(c.ambiguous) : c \in asking}, MatchOperation((CHOOSE c \in asking : TRUE).match))
      ELSE IF found = {} THEN fallback
      ELSE IF Cardinality({SemanticKey(c) : c \in found}) > 1
      THEN IF Planned(fallback) THEN fallback ELSE NoPlan("ask")
      ELSE Steps(<<SelectedSteps(CHOOSE c \in best : TRUE, catalog, context)>>)

PlanSingle(text, matches, catalog, context) ==
  LET semantic == IF SemanticFirst(text) THEN FallbackPlan(text, catalog, context)
                  ELSE NoPlan("declined")
      preferred == MeasuredPlan(text, catalog, context)
      plan == IF Planned(semantic) THEN semantic
              ELSE IF Planned(preferred)
              THEN CoordinatedInstead(text, catalog, context, preferred)
              ELSE IF matches = {} THEN FallbackPlan(text, catalog, context)
              ELSE GrammarPlan(text, matches, catalog, context)
  IN  ValidateTargetCardinality(text, plan, catalog)

\* A compound is one transaction: a question or a gap in any clause stops all.
EnginePlan(text, grammar, catalog, context) ==
  LET clauses == SplitCompoundRequest(text)
      matches(clause) == IF clause \in DOMAIN grammar THEN grammar[clause] ELSE {}
      add(acc, clause) ==
        LET plan == PlanSingle(clause, matches(clause), catalog, acc.context)
        IN  IF acc.plan.kind # "steps" THEN acc
            ELSE IF plan.kind # "steps"
            THEN [acc EXCEPT !.plan = NoPlan(plan.kind)]
            ELSE [plan |-> Steps(acc.plan.clauses \o plan.clauses),
                  context |-> [acc.context EXCEPT !.entities = IdsOf(plan)]]
  IN  IF Len(clauses) > 1
      THEN FoldLeft(add, [plan |-> Steps(<<>>), context |-> context], clauses).plan
      ELSE PlanSingle(text, matches(text), catalog, context)
=============================================================================
