--------------------------- MODULE TargetEvidence ---------------------------
(***************************************************************************)
(* The catalog a request is planned against, and what its labels prove     *)
(* about the target of a command (intent_engine/models.py and              *)
(* target_evidence.py).                                                    *)
(*                                                                         *)
(* A catalog is a record of sets of entities, areas and floors; a label is *)
(* a sequence of words.  The fused spelling of a label ("livingroom") is   *)
(* taken for the label itself.                                             *)
(***************************************************************************)
EXTENDS Phrases

PowerIntents == {"HassTurnOn", "HassTurnOff"}
LabelTargetIntents == PowerIntents \cup {"HassGetState"}

\* CatalogEntity.is_selectable
Selectable(catalog) == {e \in catalog.entities : e.enabled /\ e.available}

Ids(entities) == {e.id : e \in entities}

ById(ids, catalog) == {e \in Selectable(catalog) : e.id \in ids}

\* The area of an entity as a set of at most one area.
AreaOf(e, catalog) == {a \in catalog.areas : a.id = e.area}

AreaIds(areas) == {a.id : a \in areas}

\* Words that are never a target by themselves.
LowInformation == {"in", "on", "to", "the", "it", "there", "this", "up", "now", "today"}

IsAdmissible(label) ==
  \E i \in DOMAIN label : label[i] \notin LowInformation /\ label[i] \notin Numerals

AreaLabels(area) == {area.name} \cup area.aliases

\* _area_words: every word of a label, and "room".
AreaWords(area) == UNION {ToSet(l) : l \in AreaLabels(area)} \cup {"room"}

PrimaryLabels(e) == {e.name, e.tail} \ {<<>>}

\* Labels without the words of the entity's own area.
Relative(labels, e, catalog) ==
  LET words == UNION {AreaWords(a) : a \in AreaOf(e, catalog)}
  IN  {SelectSeq(l, LAMBDA w : w \notin words) : l \in labels} \ {<<>>}

\* Labels that are not just the name of the entity's area.
Surface(labels, e, catalog) ==
  labels \ UNION {AreaLabels(a) : a \in AreaOf(e, catalog)}

\* Power labels mean actionable, primary controls only.
IsIntentCapable(e, intent) ==
  intent \in PowerIntents =>
    e.category \notin {"config", "diagnostic"} /\ intent \in e.supports

Eligible(catalog, intent, areaIds, ignored) ==
  {e \in Selectable(catalog) :
     /\ e.domain \notin ignored
     /\ areaIds # {} => e.area \in areaIds
     /\ IsIntentCapable(e, intent)}

NoEvidence == [entities |-> {}, label |-> <<>>]

IsUnique(evidence) == Cardinality(evidence.entities) = 1
IsAmbiguous(evidence) == Cardinality(evidence.entities) > 1

Plural == {"lights", "lamps", "fans", "locks", "blinds", "windows", "switches",
           "doors", "speakers", "sensors", "covers"}

\* The entities whose label is the longest one in the text.
LabelPhraseEvidence(text, candidates, labels, relative) ==
  LET usable(l) == /\ IsAdmissible(l)
                   /\ relative => Last(l) \notin Plural
                   /\ Says(text, l)
      matches == UNION {{<<e, l>> : l \in {m \in labels[e] : usable(m)}}
                          : e \in candidates}
      longest == Max({Len(m[2]) : m \in matches})
      winners == {m \in matches : Len(m[2]) = longest}
  IN  IF matches = {} \/ (relative /\ Cardinality({m[2] : m \in winners}) > 1)
      THEN NoEvidence   \* several relative labels are a coordinated request
      ELSE [entities |-> {m[1] : m \in winners},
            label |-> (CHOOSE m \in winners : TRUE)[2]]

\* The longer label; a primary one at a tie, unless the labels differ.
MostSpecific(primary, alias) ==
  IF primary.entities = {} THEN alias
  ELSE IF alias.entities = {} \/ Len(primary.label) > Len(alias.label) THEN primary
  ELSE IF Len(alias.label) > Len(primary.label) THEN alias
  ELSE IF primary.label # alias.label THEN NoEvidence ELSE primary

PowerTargetEvidence(text, catalog, intent, areaIds, ignored) ==
  LET candidates == Eligible(catalog, intent, areaIds, ignored)
      primary == [e \in candidates |-> Relative(PrimaryLabels(e), e, catalog)]
      alias == [e \in candidates |-> Relative(e.aliases, e, catalog)]
  IN  IF intent \notin LabelTargetIntents THEN NoEvidence
      ELSE MostSpecific(LabelPhraseEvidence(text, candidates, primary, TRUE),
                        LabelPhraseEvidence(text, candidates, alias, TRUE))

\* Exact names first, then aliases, then labels relative to the area.
SurfaceTargetEvidence(text, catalog, intent, areaIds, ignored) ==
  LET candidates == Eligible(catalog, intent, areaIds, ignored)
      primary == [e \in candidates |-> Surface(PrimaryLabels(e), e, catalog)]
      alias == [e \in candidates |-> Surface(e.aliases, e, catalog)]
      named == LabelPhraseEvidence(text, candidates, primary, FALSE)
      aliased == LabelPhraseEvidence(text, candidates, alias, FALSE)
  IN  IF named.entities # {} THEN named
      ELSE IF aliased.entities # {} THEN aliased
      ELSE PowerTargetEvidence(text, catalog, intent, areaIds, ignored)
=============================================================================
