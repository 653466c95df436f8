----------------------------- MODULE Measurement -----------------------------
(***************************************************************************)
(* MeasurementIntentPlanner (intent_engine/measurement.py): a question     *)
(* about a quantity is answered from the catalog, by the one entity whose  *)
(* labels fit it best, whatever its domain.                                *)
(*                                                                         *)
(* An entity carries its readings: what is measured, and whether the value *)
(* is the state itself, an attribute of it or inferred.                    *)
(***************************************************************************)
EXTENDS TargetEvidence

Mutations == {"set", "change", "adjust", "make", "raise", "lower", "increase",
              "decrease", "turn"}

AsksForReading(text) ==
  /\ ~SaysWord(text, Mutations)
  /\ \/ Starts(text, {"what", "whats", "how", "check", "get", "read", "report"})
     \/ Opens(text, {"tell", "give", "show"}, {"me"})
     \/ SaysWord(text, {"current", "reading", "level"})

\* In the order they are answered.
Quantities == <<<<"battery">>, <<"humidity">>, <<"temperature">>>>

QuantityPhrases(quantity) ==
  {quantity} \cup
  CASE quantity = <<"battery">> -> {<<"battery", "level">>}
    [] quantity = <<"humidity">> -> {<<"humid">>}
    [] OTHER -> {<<"temp">>, <<"hot">>, <<"cold">>, <<"warm">>, <<"cool">>}

StopWords == {"at", "check", "current", "for", "get", "give", "high", "how", "in", "is",
              "level", "low", "me", "of", "please", "read", "reading", "report", "show",
              "tell", "the", "what", "whats"}

GenericWords == {"level", "measurement", "reading", "sensor", "value"}

WordsOf(phrases) == UNION {ToSet(p) : p \in phrases}

ReadingLabels(e) == {e.name, <<e.domain>> \o e.tail, e.tail} \cup e.aliases

FloorLabels(floor) == {floor.name} \cup floor.aliases

SaidAreas(text, catalog) ==
  {a \in catalog.areas : \E l \in AreaLabels(a) : Says(text, l)}

SaidFloors(text, catalog) ==
  {f \in catalog.floors : \E l \in FloorLabels(f) : Says(text, l)}

AreasOn(floors, catalog) ==
  AreaIds({a \in catalog.areas : a.floor \in {f.id : f \in floors}})

RequestedQuantities(text, catalog) ==
  LET measured == {r.quantity : r \in UNION {e.readings : e \in Selectable(catalog)}}
  IN  SelectSeq(Quantities, LAMBDA q : q \in measured /\ \E p \in QuantityPhrases(q) : Says(text, p))

\* What the text says besides the question, the quantity and the place.
SpecificTokens(text, quantity, areas, floors) ==
  ToSet(text) \ (StopWords \cup WordsOf(QuantityPhrases(quantity))
                 \cup WordsOf(UNION {AreaLabels(a) : a \in areas})
                 \cup WordsOf(UNION {FloorLabels(f) : f \in floors}))

\* The readings of a quantity in the areas; no area means everywhere.
Candidates(quantity, areaIds, catalog) ==
  {c \in UNION {{e} \X e.readings : e \in Selectable(catalog)} :
     /\ c[2].quantity = quantity
     /\ areaIds = {} \/ c[1].area \in areaIds}

Score(candidate, text, tokens) ==
  LET e == candidate[1]
      generic == WordsOf(QuantityPhrases(candidate[2].quantity)) \cup GenericWords
      named == \E l \in ReadingLabels(e) : Says(text, l) /\ ToSet(l) \ generic # {}
  IN  100 * Cardinality(tokens \cap WordsOf(ReadingLabels(e)))
      + (IF named THEN 250 ELSE 0)
      + (CASE candidate[2].source = "state" -> 20
           [] candidate[2].source = "inferred_state" -> -30
           [] OTHER -> 0)
      - (IF e.category # None THEN 40 ELSE 0)

Winners(candidates, text, tokens) ==
  LET score == [c \in candidates |-> Score(c, text, tokens)]
  IN  {c \in candidates : \A o \in candidates : score[o] <= score[c]}

---------------------------------------------------------------------------
(* The outcome: readings, a question, or another planner's turn *)

Reading(kind, readings) == [kind |-> kind, readings |-> readings]

NoReading == Reading("declined", {})

Only(winners) == IF Cardinality(winners) = 1 THEN Reading("steps", winners) ELSE Reading("ask", {})

\* "kitchen and bedroom": each part with evidence of its own.
CoordinatedMembers(text, catalog) ==
  LET parts == SelectSeq(Pieces(text, {i \in DOMAIN text : text[i] \in {"and", "plus"}}),
                         LAMBDA p : p # <<>>)
      evident(p) == \/ SaidAreas(p, catalog) \cup SaidFloors(p, catalog) # {}
                    \/ \E e \in Selectable(catalog) : \E l \in ReadingLabels(e) :
                         Says(p, l) /\ ToSet(l) \ GenericWords # {}
  IN  IF Len(parts) > 1 /\ \A i \in DOMAIN parts : evident(parts[i]) THEN parts ELSE <<>>

ReadMember(member, quantity, catalog, areas, floors) ==
  LET own == SaidAreas(member, catalog)
      here == IF own = {} /\ Cardinality(areas) = 1 THEN areas ELSE own
      ownFloors == SaidFloors(member, catalog)
      level == IF ownFloors = {} /\ here = {} /\ Cardinality(floors) = 1 THEN floors ELSE ownFloors
      found == Candidates(quantity, AreaIds(here) \cup AreasOn(level, catalog), catalog)
  IN  IF found = {} THEN NoReading
      ELSE Only(Winners(found, member, SpecificTokens(member, quantity, here, level)))

\* Members that name the same entity are read once.
ReadMembers(members, quantity, catalog, areas, floors) ==
  FoldLeft(LAMBDA got, member :
             LET one == ReadMember(member, quantity, catalog, areas, floors)
             IN  IF got.kind # "steps" THEN got
                 ELSE IF one.kind # "steps" THEN one
                 ELSE Reading("steps", got.readings \cup
                        {c \in one.readings : \A k \in got.readings : k[1] # c[1]}),
           Reading("steps", {}), members)

\* Several readings and nothing that tells them apart: another route's turn.
ReadQuantity(text, quantity, catalog, areas, floors, areaIds) ==
  LET found == Candidates(quantity, areaIds, catalog)
      tokens == SpecificTokens(text, quantity, areas, floors)
      scoped == areaIds # {} \/ areas # {} \/ floors # {} \/ tokens # {}
  IN  IF found = {} \/ (Cardinality(found) > 1 /\ ~scoped) THEN NoReading
      ELSE Only(Winners(found, text, tokens))

MeasurementPlan(text, catalog, context) ==
  LET quantities == RequestedQuantities(text, catalog)
      areas == SaidAreas(text, catalog)
      floors == SaidFloors(text, catalog)
      origin == {a.id : a \in {b \in catalog.areas : b.id = context.area}}
      areaIds == IF areas # {} THEN AreaIds(areas)
                 ELSE IF floors # {} THEN AreasOn(floors, catalog) ELSE origin
      members == CoordinatedMembers(text, catalog)
      read(got, quantity) ==
        LET one == IF members # <<>> THEN ReadMembers(members, quantity, catalog, areas, floors)
                   ELSE ReadQuantity(text, quantity, catalog, areas, floors, areaIds)
        IN  IF got.kind # "steps" THEN got
            ELSE IF one.kind # "steps" THEN one
            ELSE Reading("steps", got.readings \cup one.readings)
  IN  IF ~AsksForReading(text) \/ quantities = <<>> THEN NoReading
      ELSE FoldLeft(read, Reading("steps", {}), quantities)
=============================================================================
