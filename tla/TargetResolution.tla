-------------------------- MODULE TargetResolution --------------------------
(***************************************************************************)
(* What a clause acts on: the entities, areas and floors its words name,   *)
(* coordinated targets, pronouns and the area the request came from        *)
(* (_resolve_targets and its helpers, intent_engine/natural_language.py).  *)
(* A spelling that only resembles a label names nothing here.              *)
(***************************************************************************)
EXTENDS CommandLanguage, TargetEvidence

CONSTANT IgnoredDomains   \* settings.home_assistant.ignored_entity_domains

Polymorphic == {"HassGetState", "HassTurnOff", "HassTurnOn"}

Pronouns == {"it", "its", "them", "they", "those", "these", "that", "there"}

DomainCompatible(e, domain) ==
  \/ domain \in {None, e.domain}
  \/ domain = "sensor" /\ e.domain = "binary_sensor"

MatchesCoverSubtype(e, subtype) ==
  subtype # None =>
    \E label \in {e.class, e.name, e.tail} \cup e.aliases, form \in CoverSubtypeForms[subtype] :
      Says(label, form)

---------------------------------------------------------------------------
(* Labels *)

CommonAliases(area) ==
  IF area.name = <<"bathroom">> THEN {<<"washroom">>}
  ELSE IF area.name = <<"living", "room">> THEN {<<"lounge">>} ELSE {}

AreaPhrases(area) ==
  AreaLabels(area) \cup CommonAliases(area)
    \cup {IF Last(area.name) = "room" THEN Front(area.name) ELSE Append(area.name, "room")}

MentionedAreas(text, catalog) ==
  {a \in catalog.areas : \E p \in AreaPhrases(a) : Says(text, p)}

MentionedFloors(text, catalog) ==
  {f \in catalog.floors : \E p \in {f.name} \cup f.aliases : Says(text, p)}

GenericTokens ==
  {"on", "off", "turn", "switch", "power", "run", "start", "stop", "open", "close",
   "lock", "unlock", "play", "pause", "mute", "set", "change", "dim", "raise", "lower"}

\* What can be said for an entity; the mere name of its area cannot.
EntityPhrases(e, catalog) ==
  ({e.name, e.tail, <<e.domain>> \o e.tail} \cup e.aliases
     \cup {a.name \o e.name : a \in AreaOf(e, catalog)})
  \ ({<<>>} \cup UNION {AreaLabels(a) : a \in AreaOf(e, catalog)})

UsablePhrases(e, catalog) ==
  {p \in EntityPhrases(e, catalog) :
     IsAdmissible(p) /\ (Len(p) = 1 => p[1] \notin GenericTokens)}

DomainNouns(domain) ==
  {"the", "room", "lights", "fan", "fans", "cover", "covers", "window", "windows",
   "light", "lamp", "lock", "locks", "switch", "switches", "sensor", "sensors"}
  \cup (IF domain = "media_player" THEN {"media", "player"} ELSE {domain})

\* Words of a label that are neither its area, its kind nor a command.
DistinctiveTokens(e, catalog) ==
  LET words == UNION {ToSet(l) : l \in {e.name} \cup e.aliases}
      area == UNION {ToSet(p) : p \in UNION {AreaPhrases(a) : a \in AreaOf(e, catalog)}}
  IN  {w \in words \ (area \cup DomainNouns(e.domain) \cup GenericTokens) :
         IsAdmissible(<<w>>)}

HasDistinctiveMention(text, e, catalog) ==
  SaysWord(text, DistinctiveTokens(e, catalog))

LongestSaid(text, phrases) ==
  LET said == {p \in phrases : Says(text, p)}
  IN  IF said = {} THEN <<>>
      ELSE CHOOSE p \in said : \A q \in said : Characters(q) <= Characters(p)

\* Each entity with the phrase that names it; a distinctive word of a label
\* counts only when no whole label of any candidate is said.
Hits(text, candidates, catalog) ==
  LET exact == {<<e, LongestSaid(text, UsablePhrases(e, catalog))>> : e \in candidates}
      token == {<<e, LongestSaid(text, {<<w>> : w \in DistinctiveTokens(e, catalog)})>>
                  : e \in candidates}
      real(hits) == {h \in hits : h[2] # <<>>}
  IN  IF real(exact) # {} THEN real(exact) ELSE real(token)

\* Among binary sensors, those whose words match most of the request.
BestSensors(text, hits, catalog) ==
  LET kinds == {"motion", "presence", "contact"}
      score(h) == LET said == DistinctiveTokens(h[1], catalog) \cap ToSet(text)
                  IN  Cardinality(said) + 2 * Cardinality(said \cap kinds)
  IN  {h \in hits : \A g \in hits : score(g) <= score(h)}

\* Mutant: the first of several entities of one name is taken.
NamesFirst(entities, ambiguous) ==
  [entities |-> IF ambiguous THEN {CHOOSE e \in entities : TRUE} ELSE entities, ambiguous |-> FALSE]

Names(entities, ambiguous) == [entities |-> entities, ambiguous |-> ambiguous]

\* The entities the text names.  A phrase shared by several makes exactly
\* those ambiguous; a name inside a longer one that is said is no target.
NamedEntities(text, catalog, domain, areas, cross) ==
  LET scope == {e \in Selectable(catalog) :
                  e.domain \notin IgnoredDomains /\ (areas # {} => e.area \in AreaIds(areas))}
      own == Hits(text, {e \in scope : DomainCompatible(e, domain)}, catalog)
      other == Hits(text, {e \in scope : ~DomainCompatible(e, domain)}, catalog)
      found == IF own = {} /\ domain # None /\ cross THEN other ELSE own
      hits == IF domain = "binary_sensor" THEN BestSensors(text, found, catalog) ELSE found
      shared == {h \in hits : \E g \in hits : g[2] = h[2] /\ g[1] # h[1]}
      whole == {h \in hits : ~\E g \in hits : g[2] # h[2] /\ Says(g[2], h[2])}
  IN  IF shared # {} THEN Names({h[1] : h \in shared}, TRUE)
      ELSE Names({h[1] : h \in whole}, FALSE)

---------------------------------------------------------------------------
(* Targets *)

\* How Home Assistant will be told about the target.
NoCall == [name |-> <<>>, entity |-> None, domain |-> None, area |-> None, floor |-> None]

Target(ids, excluded, call) == [ids |-> ids, excluded |-> excluded, call |-> call]

\* The id is given only for an entity whose name is just its id.
TargetForEntity(e) ==
  Target({e.id}, {}, [NoCall EXCEPT !.name = e.name, !.entity = IF e.name = e.tail THEN e.id ELSE None])

\* All entities of a domain in an area, on a floor or in the house, as a set
\* of at most one target; indicators are not part of a group of lights.
GroupTarget(catalog, domain, subtype, areas, floors) ==
  LET onFloor == AreaIds({a \in catalog.areas : a.floor \in {f.id : f \in floors}})
      members == {e \in Selectable(catalog) :
                    /\ DomainCompatible(e, domain)
                    /\ domain = "cover" => MatchesCoverSubtype(e, subtype)
                    /\ areas # {} => e.area \in AreaIds(areas)
                    /\ (areas = {} /\ floors # {}) => e.area \in onFloor}
      excluded == {e \in members : domain = "light" /\ e.indicator}
      only(places) == IF places = {} THEN None ELSE (CHOOSE p \in places : TRUE).id
      call == [NoCall EXCEPT !.domain = domain, !.area = only(areas),
                             !.floor = IF areas = {} THEN only(floors) ELSE None]
  IN  IF members = excluded THEN {}
      ELSE {Target(Ids(members \ excluded), Ids(excluded), call)}

\* A result of the resolver: targets, a question, or a reason to give up.
Result(kind, targets, candidates) ==
  [kind |-> kind, targets |-> targets, candidates |-> candidates]

Found(targets) == Result("targets", targets, {})
Ambiguous(candidates) == Result("ambiguous", {}, candidates)
Mismatch == Result("mismatch", {}, {})
Declined == Result("declined", {}, {})

EntityTargets(entities) == Found({TargetForEntity(e) : e \in entities})

OriginArea(context, catalog) == {a \in catalog.areas : a.id = context.area}

\* A noun in the singular, without "all", asks for one entity.
SingularForms ==
  [cover |-> {"blind", "cover"}, fan |-> {"fan"}, light |-> {"light", "lamp"}, lock |-> {"lock"},
   media_player |-> {"tv", "speaker"}, sensor |-> {"sensor"}, switch |-> {"switch"}]

PluralOf ==
  [blind |-> "blinds", cover |-> "covers", fan |-> "fans", light |-> "lights",
   lamp |-> "lamps", lock |-> "locks", tv |-> "tvs", speaker |-> "speakers",
   sensor |-> "sensors", switch |-> "switchs"]

SingularGenericTarget(text, domain) ==
  /\ domain \in DOMAIN SingularForms
  /\ ~SaysWord(text, {"all", "both", "every", "each", "whole", "entire"})
  /\ \E noun \in SingularForms[domain] :
       SaysWord(text, {noun}) /\ ~SaysWord(text, {PluralOf[noun]})
=============================================================================
