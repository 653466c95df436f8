--------------------------- MODULE NaturalPlanner ---------------------------
(***************************************************************************)
(* NaturalLanguageIntentPlanner: a request becomes a plan of steps, a      *)
(* question, or is left to another route (intent_engine/natural_language.py*)
(* from _target_set on).                                                   *)
(*                                                                         *)
(* A plan is a sequence with the set of steps of each clause; the order of *)
(* the steps of one clause is left open.                                   *)
(***************************************************************************)
EXTENDS TargetResolution

CONSTANT TriggerAutomations   \* settings.home_assistant.trigger_discovered_automations

---------------------------------------------------------------------------
(* Coordination: "the kitchen lights and the fan" *)

TargetEvidenceIn(part, catalog) ==
  \/ ExplicitDomain(part) # None
  \/ MentionedAreas(part, catalog) # {} \/ MentionedFloors(part, catalog) # {}
  \/ NamedEntities(part, catalog, None, {}, FALSE).entities # {}

\* The coordinated targets; a text that is not a list is its only member.
TargetSet(text, catalog) ==
  LET parts == SelectSeq(Pieces(text, {i \in DOMAIN text : text[i] \in {"and", "plus"}}),
                         LAMBDA p : p # <<>>)
  IN  IF Len(parts) > 1 /\ \A i \in DOMAIN parts : TargetEvidenceIn(parts[i], catalog)
      THEN parts ELSE <<text>>

MemberDomain(part, operation) ==
  LET mentioned == FirstKnown(<<ExplicitDomain(part), SemanticDomain(part)>>)
  IN  IF operation.intent \in Polymorphic
      THEN FirstKnown(<<mentioned, operation.domain>>)
      ELSE FirstKnown(<<operation.domain, mentioned>>)

SubtypeFor(text, domain) == IF domain = "cover" THEN CoverSubtype(text) ELSE None

\* One member on its own; no target at all is Found({}).
ResolveTargetMember(part, operation, catalog, sharedAreas, sharedFloors) ==
  LET mentioned == FirstKnown(<<ExplicitDomain(part), SemanticDomain(part)>>)
      polymorphic == operation.intent \in Polymorphic
      domain == MemberDomain(part, operation)
      own == MentionedAreas(part, catalog)
      areas == IF own = {} /\ Cardinality(sharedAreas) = 1 THEN sharedAreas ELSE own
      ownFloors == MentionedFloors(part, catalog)
      floors == IF ownFloors = {} /\ areas = {} /\ Cardinality(sharedFloors) = 1
                THEN sharedFloors ELSE ownFloors
      label == IF polymorphic /\ domain \notin {"binary_sensor", "sensor"}
               THEN SurfaceTargetEvidence(part, catalog, operation.intent, AreaIds(own), IgnoredDomains)
               ELSE NoEvidence
      named == NamedEntities(part, catalog, domain, own, polymorphic)
      scoped == IF areas \cup floors = {} THEN named
                ELSE NamedEntities(part, catalog, domain, areas, polymorphic)
      groups == IF areas # {}
                THEN UNION {GroupTarget(catalog, domain, SubtypeFor(part, domain), {a}, {}) : a \in areas}
                ELSE UNION {GroupTarget(catalog, domain, SubtypeFor(part, domain), {}, {f}) : f \in floors}
  IN  IF ~polymorphic /\ operation.domain # None /\ mentioned \notin {None, operation.domain}
      THEN Mismatch
      ELSE IF IsAmbiguous(label) THEN Ambiguous(Ids(label.entities))
      ELSE IF IsUnique(label) THEN EntityTargets(label.entities)
      ELSE IF named.ambiguous THEN Ambiguous({})
      ELSE IF named.entities # {} THEN EntityTargets(named.entities)
      ELSE IF scoped.ambiguous THEN Ambiguous({})
      ELSE IF scoped.entities # {} THEN EntityTargets(scoped.entities)
      ELSE IF domain = None THEN Found({}) ELSE Found(groups)

\* A bare noun such as "fan", perhaps with the shared predicate around it.
IsGenericCoordinatedMember(part, domain) ==
  LET verbs == {"turn", "switch", "power", "flip", "activate", "start", "stop"}
      first == IF Opens(part, verbs, {"on", "off"}) THEN Tail(Tail(part))
               ELSE IF Starts(part, {"on", "off"}) THEN Tail(part) ELSE part
      core == IF Len(first) > 1 /\ Last(first) \in {"on", "off", "now"} THEN Front(first) ELSE first
  IN  /\ domain \in DOMAIN SingularForms \ {"sensor"}
      /\ Len(core) = 1
      /\ core[1] \in SingularForms[domain] \cup {PluralOf[n] : n \in SingularForms[domain]}
                     \cup {"switches"}

\* An abbreviated member takes the one candidate its siblings single out.
ResolveEllipticalMember(part, operation, catalog, text, resolved, ambiguity) ==
  LET domain == MemberDomain(part, operation)
      polymorphic == operation.intent \in Polymorphic
      named == NamedEntities(part, catalog, domain, MentionedAreas(part, catalog), polymorphic)
      candidates ==
        IF named.ambiguous THEN named.entities
        ELSE IF IsGenericCoordinatedMember(part, domain)
        THEN {e \in Selectable(catalog) : e.domain \notin IgnoredDomains /\ DomainCompatible(e, domain)}
        ELSE {}
      siblings == ToSet(text) \ ToSet(part)
      areas == {e.area : e \in ById(UNION {t.ids : t \in resolved}, catalog)} \ {None}
      label == IF polymorphic /\ Cardinality(areas) = 1
               THEN SurfaceTargetEvidence(part, catalog, operation.intent, areas, IgnoredDomains)
               ELSE NoEvidence
      score(e) == 20 * Cardinality(DistinctiveTokens(e, catalog) \cap siblings)
                  + (IF Cardinality(areas) = 1 /\ e.area \in areas THEN 10 ELSE 0)
      winners == {e \in candidates : \A o \in candidates : score(o) <= score(e)}
      scored == \E e \in candidates : score(e) > 0
  IN  IF candidates # {} /\ IsUnique(label) THEN EntityTargets(label.entities)
      ELSE IF scored
      THEN EntityTargets(IF Cardinality(winners) = 1 THEN winners ELSE {})
      ELSE EntityTargets(IF Cardinality(candidates) = 1 /\ ambiguity = {} THEN candidates ELSE {})

\* Mutant: a member without a target is skipped.
ResolveKnownMembers(parts, operation, catalog) ==
  Found(UNION {ResolveTargetMember(parts[i], operation, catalog, {}, {}).targets : i \in DOMAIN parts})

\* Every member, or none: a member without a target stops the request.
ResolveTargetSet(parts, operation, catalog) ==
  LET text == FlattenSeq([i \in DOMAIN parts |-> IF i = 1 THEN parts[i] ELSE <<"and">> \o parts[i]])
      areas == MentionedAreas(text, catalog)
      floors == MentionedFloors(text, catalog)
      add(result, part) ==
        LET own == ResolveTargetMember(part, operation, catalog, areas, floors)
            helped == ResolveEllipticalMember(part, operation, catalog, text, result.targets, own.candidates)
            got == IF own.targets # {} THEN own ELSE helped
        IN  IF result.kind # "targets" THEN result
            ELSE IF own.kind = "mismatch" THEN Mismatch
            ELSE IF got.targets = {} THEN Ambiguous(own.candidates)
            ELSE Found(result.targets \cup
                         {t \in got.targets : \A known \in result.targets : known.ids # t.ids})
  IN  FoldLeft(add, Found({}), parts)

---------------------------------------------------------------------------
(* The targets of a clause *)

\* "play": the player named like the area, or its only one.
DefaultAreaMediaTarget(catalog, area) ==
  LET players == {e \in Selectable(catalog) : e.domain = "media_player" /\ e.area = area.id}
      exact == {e \in players : area.name \in {e.name, e.tail} \cup e.aliases}
      choice == IF exact # {} THEN exact ELSE players
  IN  IF Cardinality(choice) > 1 THEN Ambiguous({}) ELSE EntityTargets(choice)

\* Without any label: areas, floors, the room of the speaker, the house.
ResolveScope(text, operation, domain, catalog, context) ==
  LET subtype == SubtypeFor(text, domain)
      areas == MentionedAreas(text, catalog)
      floors == MentionedFloors(text, catalog)
      origin == OriginArea(context, catalog)
      inAreas == UNION {GroupTarget(catalog, domain, subtype, {a}, {}) : a \in areas}
      onFloors == UNION {GroupTarget(catalog, domain, subtype, {}, {f}) : f \in floors}
      compatible == {e \in Selectable(catalog) :
                       DomainCompatible(e, domain) /\ (domain = "cover" => MatchesCoverSubtype(e, subtype))}
      several == Cardinality(inAreas) = 1 /\ \E t \in inAreas : Cardinality(t.ids) > 1
  IN  IF areas # {}
      THEN IF several /\ SingularGenericTarget(text, domain) THEN Ambiguous({}) ELSE Found(inAreas)
      ELSE IF floors # {} THEN Found(onFloors)
      ELSE IF origin # {}
      THEN IF text = <<"play">> /\ operation.intent = "HassMediaUnpause"
           THEN DefaultAreaMediaTarget(catalog, CHOOSE a \in origin : TRUE)
           ELSE Found(GroupTarget(catalog, domain, subtype, origin, {}))
      ELSE IF SaysWord(text, {"all", "every", "everywhere"})
      THEN Found(GroupTarget(catalog, domain, subtype, {}, {}))
      ELSE EntityTargets(IF Cardinality(compatible) = 1 THEN compatible ELSE {})

\* Entities named in an area, and the group of each area that names none.
ResolveNamed(text, named, areas, domain, catalog) ==
  LET distinct == {e \in named : HasDistinctiveMention(text, e, catalog)}
      rest == {a \in areas : a.id \notin {e.area : e \in distinct}}
      groups == UNION {GroupTarget(catalog, domain, SubtypeFor(text, domain), {a}, {}) : a \in rest}
  IN  IF areas # {} /\ domain # None /\ distinct # {}
      THEN Found(EntityTargets(distinct).targets \cup groups)
      ELSE EntityTargets(named)

ResolveTargets(text, operation, catalog, context, previous) ==
  LET areas == MentionedAreas(text, catalog)
      domain == FirstKnown(<<operation.domain, ExplicitDomain(text)>>)
      polymorphic == operation.intent \in Polymorphic
      parts == TargetSet(text, catalog)
      labelAreas == IF areas # {} THEN areas ELSE OriginArea(context, catalog)
      label == IF polymorphic /\ domain \notin {"binary_sensor", "sensor"}
               THEN SurfaceTargetEvidence(text, catalog, operation.intent, AreaIds(labelAreas), IgnoredDomains)
               ELSE NoEvidence
      named == NamedEntities(text, catalog, domain, areas, polymorphic)
      scoped == areas # {} /\ domain # None
      weather == {e \in Selectable(catalog) : e.domain = "weather"}
      referenced == ById(context.entities, catalog)
  IN  IF operation.intent = "HassGetWeather" THEN Found({Target(Ids(weather), {}, NoCall)})
      ELSE IF Len(parts) > 1 THEN ResolveTargetSet(parts, operation, catalog)
      ELSE IF IsAmbiguous(label) THEN Ambiguous(Ids(label.entities))
      ELSE IF IsUnique(label) THEN EntityTargets(label.entities)
      ELSE IF named.ambiguous /\ ~scoped THEN Ambiguous({})
      ELSE IF named.entities # {} /\ ~named.ambiguous
      THEN ResolveNamed(text, named.entities, areas, domain, catalog)
      ELSE IF SaysWord(text, Pronouns) /\ previous # {} THEN Found(previous)
      ELSE IF SaysWord(text, Pronouns) /\ referenced # {} THEN EntityTargets(referenced)
      ELSE IF domain = None THEN Declined
      ELSE ResolveScope(text, operation, domain, catalog, context)

---------------------------------------------------------------------------
(* The plan *)

\* The domain a pronoun, or "set to", takes over from what was said before.
ContextualDomain(text, context, catalog, previous) ==
  LET contextual == \/ SaysWord(text, Pronouns)
                    \/ Opens(text, {"set", "adjust", "change", "flip"}, {"to"})
      before == UNION {t.ids : t \in previous}
      ids == IF before # {} THEN before ELSE context.entities
      domains == {e.domain : e \in ById(ids, catalog)}
  IN  IF contextual /\ Cardinality(domains) = 1 THEN CHOOSE d \in domains : TRUE ELSE None

\* The domain of the entities a clause names, if they share one.
NamedDomainHint(text, catalog) ==
  LET areas == MentionedAreas(text, catalog)
      climates == {e \in Selectable(catalog) : e.domain = "climate" /\ e.area \in AreaIds(areas)}
      domains == {e.domain : e \in NamedEntities(text, catalog, None, areas, FALSE).entities}
      onOff == SaysWord(text, {"turn", "switch", "power", "flip", "activate", "start", "stop", "on", "off"})
  IN  IF /\ SaysWord(text, {"temperature"}) /\ ~SaysWord(text, {"sensor", "sensors"})
         /\ Cardinality(climates) = 1 THEN "climate"
      ELSE IF Cardinality(domains) = 1 THEN CHOOSE d \in domains : TRUE
      ELSE IF onOff /\ "switch" \in domains THEN "switch" ELSE None

\* A unique label without a verb is a question, or runs an automation.
EllipticalQuery(text, catalog) ==
  LET areas == MentionedAreas(text, catalog)
      floors == MentionedFloors(text, catalog)
      named == NamedEntities(text, catalog, None, areas, FALSE)
      only == {e \in named.entities : /\ Cardinality(named.entities) = 1 /\ ~named.ambiguous
                                      /\ HasDistinctiveMention(text, e, catalog)}
      domain == FirstKnown(<<ExplicitDomain(text), SemanticDomain(text)>>)
      places == AreaIds(areas) \cup AreaIds({a \in catalog.areas : a.floor \in {f.id : f \in floors}})
      compatible == {e \in Selectable(catalog) : /\ e.domain \notin IgnoredDomains
                                                 /\ DomainCompatible(e, domain) /\ e.area \in places}
      acts == {"turn", "switch", "power", "set", "change", "open", "close", "lock", "unlock", "start", "stop"}
      read(d) == IF d = "climate" /\ SaysWord(text, {"climate", "temperature"}) THEN Plain("HassClimateGetTemperature", d) ELSE Plain("HassGetState", d)
  IN  IF \E e \in only : e.domain = "automation" /\ TriggerAutomations
      THEN Plain("IntentBridgeTriggerAutomation", "automation")
      ELSE IF only # {} THEN Plain("HassGetState", (CHOOSE e \in only : TRUE).domain)
      ELSE IF domain = None \/ areas \cup floors = {} THEN NoOperation
      ELSE IF Cardinality(areas) > 1 /\ compatible # {} /\ ~SaysWord(text, acts)
      THEN Plain("HassGetState", domain)
      ELSE IF Cardinality(compatible) = 1 THEN read(domain) ELSE NoOperation

Step(intent, ids, call, operation) ==
  [intent |-> intent, ids |-> ids, call |-> call, slot |-> operation.slot, number |-> operation.number]

\* A group without its indicators is spelled out, entity by entity; queries
\* carry no entity id.
StepsFor(target, operation, catalog) ==
  LET query == operation.intent \in {"HassGetState", "HassClimateGetTemperature"}
      call(c) == IF query THEN [c EXCEPT !.entity = None] ELSE c
  IN  IF target.excluded = {}
      THEN {Step(operation.intent, target.ids, call(target.call), operation)}
      ELSE {Step(operation.intent, {e.id}, call([NoCall EXCEPT !.name = e.name, !.entity = e.id]), operation)
              : e \in ById(target.ids, catalog)}

\* A question has candidates, if it names any, and the operation it is about.
Plan(kind, clauses, candidates, asked) ==
  [kind |-> kind, clauses |-> clauses, candidates |-> candidates, asked |-> asked]

Steps(clauses) == Plan("steps", clauses, {}, NoOperation)

NoPlan(why) == Plan(why, <<>>, {}, NoOperation)

OperationOf(clause, catalog, context, previous) ==
  LET hint == FirstKnown(<<ContextualDomain(clause, context, catalog, previous),
                           NamedDomainHint(clause, catalog)>>)
      said == Classify(clause, hint)
  IN  IF said # NoOperation \/ Starts(clause, {"restart"}) THEN said
      ELSE EllipticalQuery(clause, catalog)

\* One clause after the other; the first that fails decides the request.
PlanClause(acc, clause, catalog, context) ==
  LET operation == OperationOf(clause, catalog, context, acc.previous)
      result == ResolveTargets(clause, operation, catalog, context, acc.previous)
      steps == UNION {StepsFor(t, operation, catalog) : t \in result.targets}
      fail(why, candidates) == [acc EXCEPT !.plan = Plan(why, <<>>, candidates, operation)]
  IN  IF acc.plan.kind # "steps" THEN acc
      ELSE IF operation = NoOperation THEN fail("declined", {})
      ELSE IF result.kind = "ambiguous" THEN fail("ask", result.candidates)
      ELSE IF result.kind # "targets" \/ result.targets = {} THEN fail("declined", {})
      ELSE [acc EXCEPT !.plan.clauses = Append(@, steps), !.previous = result.targets]

\* resolve(), without the measurement planner that is asked first.
NaturalPlan(text, catalog, context) ==
  LET clauses == SplitCompoundRequest(text)
      start == [plan |-> Steps(<<>>), previous |-> {}]
  IN  IF clauses = <<>> THEN NoPlan("declined")
      ELSE FoldLeft(LAMBDA acc, c : PlanClause(acc, c, catalog, context), start, clauses).plan
=============================================================================
