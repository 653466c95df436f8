----------------------------- MODULE DialogueMC -----------------------------
(***************************************************************************)
(* Two rooms and a hall: two lamps of one name, an indicator, two covers   *)
(* of different kinds, a fan, a lock and a thermometer.  Lately some of    *)
(* them are gone.                                                          *)
(***************************************************************************)
EXTENDS Dialogue

Thing(id, domain, name, tail, area) ==
  [id |-> id, domain |-> domain, name |-> name, tail |-> tail, aliases |-> {}, area |-> area,
   class |-> <<>>, category |-> None, indicator |-> FALSE, enabled |-> TRUE, available |-> TRUE,
   supports |-> PowerIntents, readings |-> {}]

Things ==
  {Thing("light.ceiling", "light", <<"ceiling">>, <<"ceiling">>, "kitchen"),
   Thing("light.lamp", "light", <<"lamp">>, <<"stand">>, "kitchen"),
   Thing("light.bedside", "light", <<"lamp">>, <<"bedside">>, "bedroom"),
   [Thing("light.led", "light", <<"status", "led">>, <<"led">>, "kitchen") EXCEPT !.indicator = TRUE],
   [Thing("cover.blind", "cover", <<"left", "blind">>, <<"blind">>, "bedroom") EXCEPT !.class = <<"blind">>],
   [Thing("cover.garage", "cover", <<"garage", "door">>, <<"garage">>, "hall") EXCEPT !.class = <<"garage">>],
   Thing("fan.exhaust", "fan", <<"exhaust", "fan">>, <<"exhaust">>, "kitchen"),
   Thing("lock.front", "lock", <<"front", "door">>, <<"front">>, "hall"),
   [Thing("sensor.hall", "sensor", <<"hall", "climate">>, <<"hall">>, "hall") EXCEPT
      !.readings = {[quantity |-> <<"temperature">>, source |-> "state"]}]}

Room(id, floor) == [id |-> id, name |-> <<id>>, aliases |-> {}, floor |-> floor]

House(entities) ==
  [entities |-> entities,
   areas |-> {Room("kitchen", "ground"), Room("hall", "ground"), Room("bedroom", "upper")},
   floors |-> {[id |-> "upper", name |-> <<"upstairs">>, aliases |-> {}]}]

Gone(ids) == {IF t.id \in ids THEN [t EXCEPT !.available = FALSE] ELSE t : t \in Things}

MCCatalogs == <<House(Things), House(Gone({"light.led", "cover.blind", "light.bedside"}))>>

MCTexts ==
  {<<"turn", "off", "lamp">>, <<"turn", "on", "kitchen", "lights">>,
   <<"set", "lamp", "brightness", "to", "30">>, <<"lamp", "and", "ceiling">>,
   <<"turn", "off", "lamp", "and", "exhaust", "fan">>,
   <<"turn", "off", "exhaust", "fan", "and", "open", "left", "blind">>,
   <<"turn", "off", "ceiling", "and", "lock", "door">>,
   <<"illuminate", "kitchen", "lights">>, <<"set", "light", "brightness", "to", "40">>, <<"open", "left", "blind">>,
   <<"lock", "front", "door">>, <<"hall", "temperature">>, <<"turn", "on", "light">>,
   <<"lamp", "brightness", "level">>,
   <<"bedroom", "one">>, <<"ceiling">>, <<"turn", "it", "off">>, <<"open", "them">>,
   <<"make", "it", "20">>, <<"is", "ceiling", "on">>, <<"what", "is", "hall", "temperature">>,
   <<"turn", "on", "status", "led">>, <<"turn", "on", "lights", "upstairs">>}

MCOrigins == {None, "kitchen"}

Match(intent) ==
  [intent |-> intent, domain |-> None, name |-> <<>>, entity |-> None, area |-> None,
   floor |-> None, class |-> None, slot |-> None, number |-> 0]

MCGrammar ==
  (<<"illuminate", "kitchen", "lights">> :>
     {[Match("HassTurnOn") EXCEPT !.domain = "light", !.area = "kitchen"]})
  @@ (<<"turn", "on", "light">> :> {[Match("HassTurnOn") EXCEPT !.domain = "light"]})
  @@ (<<"turn", "off", "lamp">> :> {[Match("HassTurnOff") EXCEPT !.name = <<"lamp">>]})
  @@ (<<"set", "lamp", "brightness", "to", "30">> :>
     {[Match("HassLightSet") EXCEPT !.name = <<"lamp">>, !.slot = "brightness", !.number = 30]})

\* DeterministicIntentEngine as the planner of the session.
MCPlanFor(cat, text, area) ==
  LET context == [area |-> area, entities |-> {}]
  IN  EnginePlan(text, MCGrammar, cat, context)
=============================================================================
